----------------------------- MODULE ServerProofs -----------------------------
(***************************************************************************)
(* What holds of the workbench server.                                     *)
(*                                                                         *)
(* Sign-in, for any number of principals, keys and tokens, any limits and  *)
(* any lifetimes: a nonce is drawn once, so there is at most one challenge *)
(* with it, and a challenge that has opened a session is pending no more.  *)
(*                                                                         *)
(* Commands, for any organisations, compartments, groups, contexts, actors *)
(* and commands, write nothing down: whatever a join lets somebody see,    *)
(* each of its inputs lets it see too, and a seal lets nobody see anything.*)
(* The store joins what it appends with the last version of the record and *)
(* with the record of each citation.  The versions of a record rise along  *)
(* the log, so the one that is taken is the last one there; that one       *)
(* covers, by what was shown before, all that came before it.  No command  *)
(* has a part in it.                                                       *)
(***************************************************************************)
EXTENDS Sessions, Workbench, FiniteSetTheorems, SequenceTheorems, TLAPS

-----------------------------------------------------------------------------
(***************************************************************************)
(* Sign-in.                                                                *)
(***************************************************************************)
SignInTyped ==
  /\ now \in 0 .. MaxTime /\ active \subseteq Keys
  /\ pending \subseteq Challenges /\ sessions \subseteq SessionRecords
  /\ drawn \subseteq Nonces /\ grants \subseteq Grants

Bounded ==
  /\ IsFiniteSet(pending) /\ Cardinality(pending) <= MaxPending
  /\ IsFiniteSet(sessions) /\ Cardinality(sessions) <= MaxSessions

(* A nonce that is drawn is that of one challenge, pending or used. *)
NoncesAreSpent ==
  /\ \A c \in pending : c.nonce \in drawn
  /\ \A c, d \in pending : c.nonce = d.nonce => c = d
  /\ \A g \in grants : g.challenge.nonce \in drawn /\ \A c \in pending : g.challenge.nonce # c.nonce

(* The inductive invariant. *)
SignInInv == SignInTyped /\ Bounded /\ NoncesAreSpent /\ SingleUse

-----------------------------------------------------------------------------
(***************************************************************************)
(* Making room.                                                            *)
(***************************************************************************)
(* What is left are entries, and whatever is gone was the asker's own. *)
LEMMA RoomIsOwn ==
  ASSUME NEW entries, NEW a, NEW max, NEW left \in RoomFor(entries, a, max)
  PROVE  left \subseteq entries /\ \A e \in entries \ left : e.actor = a
BY DEF RoomFor, Oldest

LEMMA RoomFits ==
  ASSUME NEW entries, IsFiniteSet(entries), NEW a, NEW max \in Nat \ {0}, Cardinality(entries) <= max,
         NEW left \in RoomFor(entries, a, max), NEW x
  PROVE  IsFiniteSet(left \cup {x}) /\ Cardinality(left \cup {x}) <= max
<1>1. Cardinality(entries) \in Nat
  BY FS_CardinalityType
<1>2. IsFiniteSet(left) /\ Cardinality(left) \in Nat /\ Cardinality(left) + 1 <= max
  <2>1. CASE Cardinality(entries) < max
    BY <1>1, <2>1 DEF RoomFor
  <2>2. CASE ~(Cardinality(entries) < max)
    <3>1. PICK e \in entries : left = entries \ {e}
      BY <2>2 DEF RoomFor, Oldest
    <3>2. IsFiniteSet(left) /\ Cardinality(left) = Cardinality(entries) - 1
      BY <3>1, FS_RemoveElement
    <3>3. Cardinality(left) \in Nat
      BY <3>2, FS_CardinalityType
    <3> QED  BY <1>1, <3>2, <3>3
  <2> QED  BY <2>1, <2>2
<1>3. IsFiniteSet(left \cup {x}) /\ (Cardinality(left \cup {x}) = Cardinality(left) \/ Cardinality(left \cup {x}) = Cardinality(left) + 1)
  BY <1>2, FS_AddElement
<1> QED  BY <1>2, <1>3

LEMMA FewerFit ==
  ASSUME NEW S, IsFiniteSet(S), NEW max \in Nat, Cardinality(S) <= max, NEW T \in SUBSET S
  PROVE  IsFiniteSet(T) /\ Cardinality(T) <= max
<1>1. IsFiniteSet(T) /\ Cardinality(T) <= Cardinality(S)
  BY FS_Subset
<1>2. Cardinality(T) \in Nat /\ Cardinality(S) \in Nat
  BY <1>1, FS_CardinalityType
<1> QED  BY <1>1, <1>2

(* Fewer challenges, sessions or keys leave everything as it should be. *)
LEMMA FewerKeeps ==
  ASSUME SessionConstants, SignInInv, pending' \subseteq pending, sessions' \subseteq sessions, active' \subseteq active,
         UNCHANGED <<drawn, grants>>, now' \in 0 .. MaxTime
  PROVE  SignInInv'
<1>1. SignInTyped'
  BY DEF SignInInv, SignInTyped
<1>2. Bounded'
  BY FewerFit DEF SignInInv, Bounded, SessionConstants
<1>3. NoncesAreSpent' /\ SingleUse'
  BY DEF SignInInv, NoncesAreSpent, SingleUse
<1> QED  BY <1>1, <1>2, <1>3 DEF SignInInv

-----------------------------------------------------------------------------
(***************************************************************************)
(* The methods.                                                            *)
(***************************************************************************)
LEMMA IssueKeeps ==
  ASSUME SessionConstants, SignInInv, NEW t \in ClockReadings, NEW a \in Principals, NEW nonce \in Nonces,
         IssueChallenge(a, nonce, t)
  PROVE  SignInInv'
<1> DEFINE live == Unexpired(pending, ChallengeTtl, t)
           new == [nonce |-> nonce, actor |-> a, issued |-> t]
<1>0. live \subseteq pending /\ nonce \notin drawn /\ UNCHANGED <<now, active, sessions, grants>>
  BY DEF Unexpired, IssueChallenge
<1>1. CASE RoomFor(live, a, MaxPending) = {}
  <2>1. pending' \subseteq pending /\ UNCHANGED <<now, active, sessions, drawn, grants>>
    BY <1>0, <1>1 DEF IssueChallenge
  <2>2. now' \in 0 .. MaxTime
    BY <2>1 DEF SignInInv, SignInTyped
  <2> QED  BY <2>1, <2>2, FewerKeeps
<1>2. CASE RoomFor(live, a, MaxPending) # {}
  <2>1. PICK left \in RoomFor(live, a, MaxPending) : pending' = left \cup {new}
    BY <1>2 DEF IssueChallenge
  <2>2. drawn' = drawn \cup {nonce}
    BY <1>2 DEF IssueChallenge
  <2>3. left \subseteq pending
    BY <1>0, RoomIsOwn
  <2>4. new \in Challenges
    BY DEF Challenges, ClockReadings, SignInInv, SignInTyped, SessionConstants
  <2>5. new.nonce = nonce
    OBVIOUS
  <2>6. IsFiniteSet(live) /\ Cardinality(live) <= MaxPending
    BY <1>0, FewerFit DEF SignInInv, Bounded, SessionConstants
  <2> HIDE DEF live, new
  <2>7. SignInTyped'
    BY <1>0, <2>1, <2>2, <2>3, <2>4 DEF SignInInv, SignInTyped
  <2>8. IsFiniteSet(pending') /\ Cardinality(pending') <= MaxPending
    BY <2>1, <2>6, RoomFits DEF SessionConstants
  <2>9. Bounded'
    BY <1>0, <2>8 DEF SignInInv, Bounded
  <2>10. NoncesAreSpent'
    BY <1>0, <2>1, <2>2, <2>3, <2>5 DEF SignInInv, NoncesAreSpent
  <2>11. SingleUse'
    BY <1>0 DEF SignInInv, SingleUse
  <2> QED  BY <2>7, <2>9, <2>10, <2>11 DEF SignInInv
<1> QED  BY <1>1, <1>2

LEMMA AuthenticateKeeps ==
  ASSUME SessionConstants, SignInInv, NEW t \in ClockReadings, NEW a \in Principals, NEW c \in pending, NEW key \in Keys,
         NEW id \in SessionIds, Authenticate(a, c, key, id, t)
  PROVE  SignInInv'
<1> DEFINE live == Unexpired(sessions, SessionTtl, t)
           session == [id |-> id, actor |-> a, key |-> key, issued |-> t]
           g == [session |-> session, challenge |-> c]
<1>0. live \subseteq sessions /\ UNCHANGED <<now, active, drawn>> /\ now' \in 0 .. MaxTime
  BY DEF Unexpired, Authenticate, SignInInv, SignInTyped
<1>1. CASE ~Answers(a, c, key, t)
  <2>1. pending' \subseteq pending /\ UNCHANGED <<sessions, grants>>
    BY <1>1 DEF Authenticate
  <2> QED  BY <1>0, <2>1, FewerKeeps
<1>2. CASE Answers(a, c, key, t) /\ NoRoom(a, t)
  <2>1. sessions' \subseteq sessions /\ UNCHANGED <<pending, grants>>
    BY <1>0, <1>2 DEF Authenticate
  <2> QED  BY <1>0, <2>1, FewerKeeps
<1>3. CASE Answers(a, c, key, t) /\ ~NoRoom(a, t)
  <2>1. pending' = pending \ {c} /\ grants' = grants \cup {g}
    BY <1>3 DEF Authenticate, Granted
  <2>2. PICK left \in RoomFor(live, a, MaxSessions) : sessions' = left \cup {session}
    BY <1>3 DEF Authenticate, Granted
  <2>3. c \in Challenges /\ session \in SessionRecords
    BY DEF SessionRecords, ClockReadings, SignInInv, SignInTyped, SessionConstants
  <2>4. g \in Grants /\ g.challenge = c /\ g.session = session
    BY <2>3 DEF Grants
  <2>5. session.actor = a /\ session.key = key /\ session.issued = t
    OBVIOUS
  <2>6. c.actor = a /\ Owner[key] = a /\ t <= c.issued + ChallengeTtl
    BY <1>3 DEF Answers
  <2>7. IsFiniteSet(live) /\ Cardinality(live) <= MaxSessions
    BY <1>0, FewerFit DEF SignInInv, Bounded, SessionConstants
  <2>8. left \subseteq sessions
    BY <1>0, RoomIsOwn
  <2> HIDE DEF live, session, g
  <2>9. SignInTyped'
    BY <1>0, <2>1, <2>2, <2>3, <2>4, <2>8 DEF SignInInv, SignInTyped
  <2>10. Bounded'
    <3>1. IsFiniteSet(sessions') /\ Cardinality(sessions') <= MaxSessions
      BY <2>2, <2>7, RoomFits DEF SessionConstants
    <3>2. IsFiniteSet(pending') /\ Cardinality(pending') <= MaxPending
      BY <2>1, FewerFit DEF SignInInv, Bounded, SessionConstants
    <3> QED  BY <3>1, <3>2 DEF Bounded
  <2>11. \A h \in grants : h.challenge.nonce # c.nonce
    BY DEF SignInInv, NoncesAreSpent
  <2>12. NoncesAreSpent'
    BY <1>0, <2>1, <2>4 DEF SignInInv, NoncesAreSpent
  <2>13. SingleUse'
    BY <2>1, <2>4, <2>5, <2>6, <2>11 DEF SignInInv, SingleUse
  <2> QED  BY <2>9, <2>10, <2>12, <2>13 DEF SignInInv
<1> QED  BY <1>1, <1>2, <1>3

LEMMA InitKeeps ==
  ASSUME SessionConstants, Init
  PROVE  SignInInv
<1>1. IsFiniteSet({}) /\ Cardinality({}) = 0
  BY FS_EmptySet
<1>2. Bounded
  BY <1>1 DEF Init, Bounded, SessionConstants
<1>3. SignInTyped /\ NoncesAreSpent /\ SingleUse
  BY DEF Init, SignInTyped, NoncesAreSpent, SingleUse, SessionConstants
<1> QED  BY <1>2, <1>3 DEF SignInInv

LEMMA NextKeeps ==
  ASSUME SessionConstants, SignInInv, [Next]_vars
  PROVE  SignInInv'
<1>0. now \in 0 .. MaxTime
  BY DEF SignInInv, SignInTyped
<1>1. ASSUME NEW t \in ClockReadings, NEW a \in Principals, NEW nonce \in Nonces, IssueChallenge(a, nonce, t)
      PROVE  SignInInv'
  BY <1>1, IssueKeeps
<1>2. ASSUME NEW t \in ClockReadings, NEW a \in Principals, NEW c \in pending, NEW key \in Keys, NEW id \in SessionIds,
             Authenticate(a, c, key, id, t)
      PROVE  SignInInv'
  BY <1>2, AuthenticateKeeps
<1>3. ASSUME NEW t \in ClockReadings, NEW s \in sessions, Resolve(s, t)
      PROVE  SignInInv'
  <2>1. pending' \subseteq pending /\ sessions' \subseteq sessions /\ active' \subseteq active
        /\ UNCHANGED <<drawn, grants>> /\ now' \in 0 .. MaxTime
    BY <1>0, <1>3 DEF Resolve
  <2> QED  BY <2>1, FewerKeeps
<1>4. ASSUME NEW key \in Keys, KeyOutOfUse(key)
      PROVE  SignInInv'
  <2>1. pending' \subseteq pending /\ sessions' \subseteq sessions /\ active' \subseteq active
        /\ UNCHANGED <<drawn, grants>> /\ now' \in 0 .. MaxTime
    BY <1>0, <1>4 DEF KeyOutOfUse
  <2> QED  BY <2>1, FewerKeeps
<1>5. CASE Tick
  <2>1. now' \in 0 .. MaxTime
    BY <1>0, <1>5 DEF Tick, SessionConstants
  <2>2. pending' \subseteq pending /\ sessions' \subseteq sessions /\ active' \subseteq active
        /\ UNCHANGED <<drawn, grants>>
    BY <1>5 DEF Tick
  <2> QED  BY <2>1, <2>2, FewerKeeps
<1>6. CASE Restart \/ UNCHANGED vars
  <2>1. pending' \subseteq pending /\ sessions' \subseteq sessions /\ active' \subseteq active
        /\ UNCHANGED <<drawn, grants>> /\ now' \in 0 .. MaxTime
    BY <1>0, <1>6 DEF Restart, vars
  <2> QED  BY <2>1, FewerKeeps
<1> QED  BY <1>1, <1>2, <1>3, <1>4, <1>5, <1>6 DEF Next

(* The inductive invariant holds throughout. *)
THEOREM SignInInvariant ==
  ASSUME SessionConstants
  PROVE  Spec => []SignInInv
<1>1. Init => SignInInv
  BY InitKeeps
<1>2. SignInInv /\ [Next]_vars => SignInInv'
  BY NextKeeps
<1> QED  BY <1>1, <1>2, PTL DEF Spec

(* There are never more challenges or sessions than the server allows,     *)
(* whoever asks and however slowly (MAX_PENDING_CHALLENGES, MAX_SESSIONS). *)
THEOREM SignInIsBounded ==
  ASSUME SessionConstants
  PROVE  Spec => []TypeOK
<1>1. SignInInv => TypeOK
  BY DEF SignInInv, SignInTyped, Bounded, TypeOK
<1> QED  BY <1>1, SignInInvariant, PTL

(* A challenge opens at most one session, for its actor, under a key of    *)
(* that actor and within its time (V67-AUTH-002).                          *)
THEOREM ChallengesAreSingleUse ==
  ASSUME SessionConstants
  PROVE  Spec => []SingleUse
<1>1. SignInInv => SingleUse
  BY DEF SignInInv
<1> QED  BY <1>1, SignInInvariant, PTL

-----------------------------------------------------------------------------
(***************************************************************************)
(* What a full server does to others.                                      *)
(***************************************************************************)
(* Whatever has expired by a reading of the clock has expired by now. *)
LEMMA GoneIsExpiredOrOwn ==
  ASSUME now \in Nat, NEW entries, \A e \in entries : e.issued \in Nat, NEW ttl \in Nat, NEW t \in ClockReadings,
         NEW a, NEW max, NEW left \in RoomFor(Unexpired(entries, ttl, t), a, max)
  PROVE  \A e \in entries \ left : e.actor = a \/ now > e.issued + ttl
<1>1. SUFFICES ASSUME NEW e \in entries \ left, e.actor # a
               PROVE  now > e.issued + ttl
  OBVIOUS
<1>2. e \notin Unexpired(entries, ttl, t)
  BY <1>1, RoomIsOwn
<1>3. ~(t <= e.issued + ttl)
  BY <1>2 DEF Unexpired
<1>4. t \in Nat /\ t <= now
  BY DEF ClockReadings
<1> QED  BY <1>1, <1>3, <1>4

(* A full server takes nothing from anybody who does not ask for more      *)
(* (V67-AUTH-002, curunir_identity/README.md:31-34).                       *)
THEOREM NobodyIsDisplaced ==
  ASSUME SessionConstants
  PROVE  Spec => NothingIsTaken
<1>0. SignInTyped => /\ now \in Nat /\ \A c \in pending : c.issued \in Nat
               /\ \A s \in sessions : s.issued \in Nat
  BY DEF SignInTyped, Challenges, SessionRecords, SessionConstants
<1>1. ASSUME SignInTyped, NEW a \in Principals, NEW t \in ClockReadings, NEW nonce \in Nonces, IssueChallenge(a, nonce, t),
             NEW c \in pending \ pending'
      PROVE  c.actor = a \/ now > c.issued + ChallengeTtl
  <2> DEFINE live == Unexpired(pending, ChallengeTtl, t)
  <2>1. CASE RoomFor(live, a, MaxPending) = {}
    <3>1. c \notin live
      BY <1>1, <2>1 DEF IssueChallenge
    <3>2. ~(t <= c.issued + ChallengeTtl)
      BY <3>1 DEF Unexpired
    <3>3. t \in Nat /\ t <= now /\ now \in Nat /\ c.issued \in Nat /\ ChallengeTtl \in Nat
      BY <1>0, <1>1 DEF ClockReadings, SessionConstants
    <3> QED  BY <3>2, <3>3
  <2>2. CASE RoomFor(live, a, MaxPending) # {}
    <3>1. PICK left \in RoomFor(live, a, MaxPending) : left \subseteq pending'
      BY <1>1, <2>2 DEF IssueChallenge
    <3>2. c \in pending \ left
      BY <3>1
    <3> QED  BY <1>0, <1>1, <3>1, <3>2, GoneIsExpiredOrOwn DEF SessionConstants
  <2> QED  BY <2>1, <2>2
<1>2. ASSUME SignInTyped, NEW a \in Principals, NEW t \in ClockReadings, NEW c \in pending, NEW key \in Keys, NEW id \in SessionIds,
             Authenticate(a, c, key, id, t), NEW s \in sessions \ sessions'
      PROVE  s.actor = a \/ now > s.issued + SessionTtl
  <2> DEFINE live == Unexpired(sessions, SessionTtl, t)
  <2>1. CASE Answers(a, c, key, t) /\ NoRoom(a, t)
    <3>1. s \notin live
      BY <1>2, <2>1 DEF Authenticate
    <3>2. ~(t <= s.issued + SessionTtl)
      BY <3>1 DEF Unexpired
    <3>3. t \in Nat /\ t <= now /\ now \in Nat /\ s.issued \in Nat /\ SessionTtl \in Nat
      BY <1>0, <1>2 DEF ClockReadings, SessionConstants
    <3> QED  BY <3>2, <3>3
  <2>2. CASE Answers(a, c, key, t) /\ ~NoRoom(a, t)
    <3>1. PICK left \in RoomFor(live, a, MaxSessions) : left \subseteq sessions'
      BY <1>2, <2>2 DEF Authenticate, Granted
    <3>2. s \in sessions \ left
      BY <3>1
    <3> QED  BY <1>0, <1>2, <3>1, <3>2, GoneIsExpiredOrOwn DEF SessionConstants
  <2>3. CASE ~Answers(a, c, key, t)
    BY <1>2, <2>3 DEF Authenticate
  <2> QED  BY <2>1, <2>2, <2>3
<1>3. ASSUME NEW a \in Principals, NEW c \in pending, NEW key \in Keys, NEW id \in SessionIds, NEW t \in ClockReadings,
             Authenticate(a, c, key, id, t), Answers(a, c, key, t)
      PROVE  c \in pending' \/ \E s \in sessions' : [session |-> s, challenge |-> c] \in grants'
  <2>1. CASE NoRoom(a, t)
    BY <1>3, <2>1 DEF Authenticate
  <2>2. CASE ~NoRoom(a, t)
    BY <1>3, <2>2 DEF Authenticate, Granted
  <2> QED  BY <2>1, <2>2
<1>4. Spec => []SignInTyped
  <2>1. SignInInv => SignInTyped
    BY DEF SignInInv
  <2> QED  BY <2>1, SignInInvariant, PTL
<1>5. SignInTyped /\ [Next]_vars =>
        [\A a \in Principals, t \in ClockReadings :
           /\ (\E nonce \in Nonces : IssueChallenge(a, nonce, t)) =>
                \A c \in pending \ pending' : c.actor = a \/ now > c.issued + ChallengeTtl
           /\ (\E c \in pending, key \in Keys, id \in SessionIds : Authenticate(a, c, key, id, t)) =>
                \A s \in sessions \ sessions' : s.actor = a \/ now > s.issued + SessionTtl]_vars
  BY <1>1, <1>2
<1>6. [Next]_vars =>
        [\A a \in Principals, c \in pending, key \in Keys, id \in SessionIds, t \in ClockReadings :
           Authenticate(a, c, key, id, t) /\ Answers(a, c, key, t) =>
             c \in pending' \/ \E s \in sessions' : [session |-> s, challenge |-> c] \in grants']_vars
  BY <1>3
<1> QED  BY <1>4, <1>5, <1>6, PTL DEF Spec, NothingIsTaken, OthersKeepTheirPlace, RightAnswersCount

-----------------------------------------------------------------------------
(***************************************************************************)
(* Commands and markings.                                                  *)
(***************************************************************************)
(* Joins.                                                                  *)

LEMMA HighestRoleBounds ==
  ASSUME NEW S, S # {}, \A m \in S : m.minRole \in Roles
  PROVE  /\ HighestRole(S) \in Roles
         /\ \A m \in S : m.minRole <= HighestRole(S)
<1> DEFINE Top(role) == (\E m \in S : m.minRole = role) /\ (\A m \in S : m.minRole <= role)
<1>1. \A role \in Roles : role = 0 \/ role = 1 \/ role = 2
  BY DEF Roles
<1>2. \E role \in Roles : Top(role)
  <2>1. CASE \E m \in S : m.minRole = 2
    BY <2>1 DEF Roles
  <2>2. CASE (\A m \in S : m.minRole # 2) /\ \E m \in S : m.minRole = 1
    BY <2>2 DEF Roles
  <2>3. CASE \A m \in S : m.minRole # 2 /\ m.minRole # 1
    <3>1. \A m \in S : m.minRole = 0
      BY <2>3, <1>1
    <3>2. QED
      BY <3>1 DEF Roles
  <2>4. QED
    BY <2>1, <2>2, <2>3
<1>3. HighestRole(S) = CHOOSE role \in Roles : Top(role)
  BY DEF HighestRole
<1>4. HighestRole(S) \in Roles /\ Top(HighestRole(S))
  <2> HIDE DEF Top
  <2>1. QED
    BY <1>2, <1>3
<1>5. QED
  BY <1>4

(* Whoever may see the join of two or more markings may see each of them   *)
(* (most_restrictive, access.py:139-184).                                  *)
THEOREM JoinCovers ==
  ASSUME NEW first \in Marking, NEW others \in SUBSET Marking, Joinable(first, others),
         NEW m \in {first} \cup others
  PROVE  Covers(MostRestrictive(first, others), m)
<1> DEFINE all == {first} \cup others
           join == MostRestrictive(first, others)
<1>1. all # {} /\ \A n \in all : n \in Marking
  OBVIOUS
<1>2. \A n \in all : n.minRole \in Roles /\ n.releasability \subseteq Groups
  BY <1>1 DEF Marking
<1>3. m.minRole <= HighestRole(all) /\ HighestRole(all) \in Roles /\ m.minRole \in Roles
  BY <1>1, <1>2, HighestRoleBounds
<1>4. /\ join.minRole = HighestRole(all) /\ join.authority = first.authority
      /\ join.compartments = UNION {n.compartments : n \in all}
      /\ join.releasability = CommonGroups(all)
  BY DEF MostRestrictive
<1>5. m.compartments \subseteq join.compartments
  BY <1>4
<1>6. join.releasability \subseteq m.releasability
  BY <1>4 DEF CommonGroups
<1>7. join.releasability = {} => m.releasability = {} /\ m.authority = join.authority
  BY <1>4 DEF Joinable
<1> HIDE DEF join, all
<1>8. ASSUME NEW ctx \in Context, CanView(join, ctx)
      PROVE  CanView(m, ctx)
  <2>1. join.minRole <= ctx.rank /\ ctx.rank \in Roles
    BY <1>8 DEF CanView, Context
  <2>2. m.minRole <= ctx.rank
    BY <2>1, <1>3, <1>4 DEF Roles
  <2>3. m.compartments \subseteq ctx.compartments
    BY <1>8, <1>5 DEF CanView
  <2>4. CASE join.releasability = {}
    <3>1. ctx.organisation = m.authority /\ m.releasability = {}
      BY <2>4, <1>7, <1>8 DEF CanView
    <3>2. QED
      BY <3>1, <2>2, <2>3 DEF CanView
  <2>5. CASE join.releasability # {}
    <3>1. join.releasability \cap ctx.releasability # {}
      BY <2>5, <1>8 DEF CanView
    <3>2. m.releasability # {} /\ m.releasability \cap ctx.releasability # {}
      BY <3>1, <1>6
    <3>3. QED
      BY <3>2, <2>2, <2>3 DEF CanView
  <2>6. QED
    BY <2>4, <2>5
<1>9. QED
  BY <1>8 DEF Covers, join

(* Nobody may see what is sealed (_deny_all_seal, access.py:101-114).      *)
LEMMA SealHides ==
  ASSUME NEW first, NEW others, NEW ctx \in Context
  PROVE  ~CanView(Sealed(first, others), ctx)
<1>1. Seal \in Sealed(first, others).compartments
  BY DEF Sealed
<1>2. ctx.compartments \subseteq Compartments
  BY DEF Context
<1>3. QED
  BY <1>1, <1>2, SealIsReserved DEF CanView

LEMMA InheritedCovers ==
  ASSUME NEW base \in Marking, NEW references \in SUBSET Marking, NEW m \in {base} \cup references
  PROVE  Covers(Inherited(base, references), m)
<1>1. CASE Joinable(base, references)
  <2>1. Inherited(base, references) = MostRestrictive(base, references)
    BY <1>1 DEF Inherited
  <2>2. QED
    BY <1>1, <2>1, JoinCovers
<1>2. CASE ~Joinable(base, references)
  <2>1. Inherited(base, references) = Sealed(base, references)
    BY <1>2 DEF Inherited
  <2>2. QED
    BY <2>1, SealHides DEF Covers
<1>3. QED
  BY <1>1, <1>2

LEMMA InheritedIsMarking ==
  ASSUME NEW base \in Marking, NEW references \in SUBSET Marking
  PROVE  Inherited(base, references) \in Marking
<1> DEFINE all == {base} \cup references
<1>1. \A m \in all : /\ m.minRole \in Roles /\ m.authority \in Authorities
                     /\ m.compartments \subseteq Compartments \cup {Seal} /\ m.releasability \subseteq Groups
  BY DEF Marking
<1>2. UNION {m.compartments : m \in all} \subseteq Compartments \cup {Seal}
  BY <1>1
<1>3. CommonGroups(all) \subseteq Groups
  BY DEF CommonGroups
<1>4. HighestRole(all) \in Roles
  BY <1>1, HighestRoleBounds
<1>5. base.authority \in Authorities
  BY <1>1
<1>6. MostRestrictive(base, references) \in Marking
  BY <1>2, <1>3, <1>4, <1>5 DEF MostRestrictive, Marking
<1>7. Sealed(base, references) \in Marking
  BY <1>2, <1>5 DEF Sealed, Marking, Roles
<1>8. QED
  BY <1>6, <1>7 DEF Inherited

-----------------------------------------------------------------------------
(* The log.                                                                *)

LogTyped == log \in Seq(Record)

(* Two appends of one record; a transition is an append of none. *)
OfOne(r, s) == r.id = s.id /\ r.kind # "transition" /\ s.kind # "transition"

OneFamily == \A i, j \in 1 .. Len(log) : OfOne(log[i], log[j]) => log[i].kind = log[j].kind

VersionsRise ==
  \A i, j \in 1 .. Len(log) :
    i < j /\ OfOne(log[i], log[j]) /\ log[j].kind \in Versioned => log[i].version < log[j].version

(* Every record has a last version. *)
IsLast(p, id) == p \in Held(id) /\ \A q \in Held(id) : q <= p
HasLast ==
  \A i \in 1 .. Len(log) : log[i].kind # "transition" =>
    \E p \in 1 .. Len(log) :
      OfOne(log[p], log[i]) /\ \A q \in 1 .. Len(log) : OfOne(log[q], log[i]) => q <= p

(* The inductive invariant. *)
WriteInv == LogTyped /\ OneFamily /\ VersionsRise /\ HasLast /\ NoWriteDown

LEMMA CoversIsTransitive ==
  ASSUME NEW l, NEW m, NEW n, Covers(l, m), Covers(m, n)
  PROVE  Covers(l, n)
BY DEF Covers

(* A citation of the newest version is of the last one. *)
LEMMA LastIsResolved ==
  ASSUME WriteInv, NEW ref, ref.version = 0, NEW p, IsLast(p, ref.id), log[p].kind \in Versioned
  PROVE  p \in Resolved(ref)
<1>1. Meant(ref) = Held(ref.id)
  BY DEF Meant
<1>2. p \in Held(ref.id) /\ p \in 1 .. Len(log) /\ log[p].id = ref.id
  BY DEF IsLast, Held
<1>3. ASSUME NEW j \in Held(ref.id), j # p
      PROVE  log[j].version < log[p].version
  <2>1. j \in 1 .. Len(log) /\ j <= p /\ Len(log) \in Nat
    BY <1>3 DEF IsLast, Held, WriteInv, LogTyped
  <2>2. j < p
    BY <2>1, <1>2, <1>3
  <2>3. QED
    BY <2>1, <2>2, <1>2, <1>3 DEF WriteInv, VersionsRise, OfOne, Held
<1>4. p <= p
  BY <1>2
<1>5. QED
  BY <1>1, <1>2, <1>3, <1>4 DEF Resolved

(* A citation of a version is of the record with that version. *)
LEMMA PinnedIsResolved ==
  ASSUME WriteInv, NEW ref, NEW i \in 1 .. Len(log), Names(ref, log[i]), ref.version # 0
  PROVE  i \in Resolved(ref)
<1>1. log[i].kind \in Versioned /\ log[i].id = ref.id /\ ref.version = log[i].version
  BY DEF Names
<1>2. i \in Held(ref.id)
  BY <1>1 DEF Held, Versioned, Created, Imported
<1>3. Len(log) \in Nat /\ \A j \in 1 .. Len(log) : log[j].version \in Nat
  <2>1. \A j \in 1 .. Len(log) : log[j] \in Record
    BY DEF WriteInv, LogTyped
  <2>2. QED
    BY <2>1 DEF WriteInv, LogTyped, Record
<1>4. ASSUME NEW j \in Meant(ref)
      PROVE  j = i
  <2>1. j \in 1 .. Len(log) /\ j \in Held(ref.id) /\ log[j].version = log[i].version /\ log[j].id = ref.id
    BY <1>1, <1>4 DEF Meant, Held
  <2>2. log[j].kind = log[i].kind
    BY <2>1, <1>1, <1>2 DEF WriteInv, OneFamily, OfOne, Held
  <2>3. ~(j < i)
    BY <2>1, <1>1, <1>2, <1>3 DEF WriteInv, VersionsRise, OfOne, Held
  <2>4. ~(i < j)
    BY <2>1, <2>2, <1>1, <1>2, <1>3 DEF WriteInv, VersionsRise, OfOne, Held
  <2>5. QED
    BY <2>1, <2>3, <2>4, <1>3
<1>5. i \in Meant(ref)
  BY <1>1, <1>2 DEF Meant
<1>6. QED
  BY <1>4, <1>5 DEF Resolved

(* What a record covers of a later one, it covers of all before it. *)
LEMMA LastCovers ==
  ASSUME WriteInv, NEW i \in 1 .. Len(log), log[i].kind \in Versioned, NEW p, IsLast(p, log[i].id)
  PROVE  /\ p \in 1 .. Len(log) /\ log[p].kind = log[i].kind /\ log[p].id = log[i].id
         /\ Covers(log[p].marking, log[i].marking)
<1>1. i \in Held(log[i].id) /\ p \in 1 .. Len(log) /\ log[p].id = log[i].id /\ i <= p
  BY DEF IsLast, Held, Versioned, Created, Imported
<1>2. log[p].kind = log[i].kind
  BY <1>1 DEF WriteInv, OneFamily, OfOne, IsLast, Held
<1>3. CASE i = p
  BY <1>3, <1>1, <1>2 DEF Covers
<1>4. CASE i # p
  <2>1. i \in 1 .. p - 1
    BY <1>1, <1>4 DEF WriteInv, LogTyped
  <2>2. QED
    BY <2>1, <1>1, <1>2 DEF WriteInv, NoWriteDown
<1>5. QED
  BY <1>3, <1>4, <1>1, <1>2

-----------------------------------------------------------------------------
(* An append.                                                              *)

LEMMA AdmittedIs ==
  ASSUME WriteInv, NEW r \in Record
  PROVE  /\ Admitted(r) \in Record
         /\ Admitted(r).kind = r.kind /\ Admitted(r).id = r.id
         /\ Admitted(r).version = r.version /\ Admitted(r).cites = r.cites
         /\ \A i \in Prior(r) \cup Cited(r) : Covers(Admitted(r).marking, log[i].marking)
<1> DEFINE taken == {log[i].marking : i \in Prior(r) \cup Cited(r)}
<1>1. \A i \in 1 .. Len(log) : log[i] \in Record
  BY DEF WriteInv, LogTyped
<1>2. \A i \in 1 .. Len(log) : log[i].marking \in Marking
  BY <1>1 DEF Record
<1>3. Prior(r) \cup Cited(r) \subseteq 1 .. Len(log)
  BY DEF Prior, Cited, Resolved, Meant, Held
<1>4. taken \in SUBSET Marking
  BY <1>2, <1>3
<1>5. r.marking \in Marking
  BY DEF Record
<1>6. Admitted(r) = [r EXCEPT !.marking = Inherited(r.marking, taken)]
  BY DEF Admitted
<1> HIDE DEF taken
<1>7. Inherited(r.marking, taken) \in Marking
  BY <1>4, <1>5, InheritedIsMarking
<1>8. Admitted(r).marking = Inherited(r.marking, taken)
  BY <1>6 DEF Record
<1>9. ASSUME NEW i \in Prior(r) \cup Cited(r)
      PROVE  Covers(Admitted(r).marking, log[i].marking)
  <2>1. log[i].marking \in taken
    BY <1>9 DEF taken
  <2>2. QED
    BY <2>1, <1>4, <1>5, <1>8, InheritedCovers
<1>10. Admitted(r) \in Record
  BY <1>6, <1>7 DEF Record
<1>11. /\ Admitted(r).kind = r.kind /\ Admitted(r).id = r.id
       /\ Admitted(r).version = r.version /\ Admitted(r).cites = r.cites
  BY <1>6 DEF Record
<1>12. QED
  BY <1>9, <1>10, <1>11

(* What the log is like after r has been put into it. *)
LEMMA AppendedIs ==
  ASSUME WriteInv, NEW r, Put(r)
  PROVE  LET n == Len(log) IN
         /\ r \in Record /\ n \in Nat
         /\ log' \in Seq(Record) /\ Len(log') = n + 1
         /\ \A i \in 1 .. n : log'[i] = log[i]
         /\ log'[n + 1] = Admitted(r)
<1>1. r \in Record /\ log' = Append(log, Admitted(r)) /\ log \in Seq(Record)
  BY DEF Put, Accepts, WriteInv, LogTyped
<1>2. Admitted(r) \in Record
  BY <1>1, AdmittedIs
<1>3. QED
  BY <1>1, <1>2, AppendProperties

LEMMA PutKeepsOrder ==
  ASSUME WriteInv, NEW r, Put(r)
  PROVE  LogTyped' /\ OneFamily' /\ VersionsRise' /\ HasLast'
<1> DEFINE n == Len(log)
           e == Admitted(r)
<1>1. /\ r \in Record /\ n \in Nat /\ log' \in Seq(Record) /\ Len(log') = n + 1
      /\ \A i \in 1 .. n : log'[i] = log[i]
      /\ log'[n + 1] = e
  BY AppendedIs
<1>2. e.id = r.id /\ e.kind = r.kind /\ e.version = r.version
  BY <1>1, AdmittedIs
<1>5. \A i \in 1 .. n + 1 : i \in 1 .. n \/ i = n + 1
  BY <1>1
<1>6. \A i \in 1 .. n : i < n + 1 /\ i # n + 1 /\ i \in 1 .. n + 1
  BY <1>1
<1>7. n + 1 \in 1 .. n + 1
  BY <1>1
<1>8. \A i \in Held(r.id) : r.kind # "transition" => log[i].kind = r.kind
  BY DEF Put, Accepts
<1>9. LogTyped'
  BY <1>1 DEF LogTyped
<1> HIDE DEF n, e
<1>10. OneFamily'
  <2>1. SUFFICES ASSUME NEW i \in 1 .. n + 1, NEW j \in 1 .. n + 1, OfOne(log'[i], log'[j])
                 PROVE  log'[i].kind = log'[j].kind
    BY <1>1 DEF OneFamily
  <2>2. CASE i \in 1 .. n /\ j \in 1 .. n
    BY <2>1, <2>2, <1>1 DEF WriteInv, OneFamily, OfOne, n
  <2>3. CASE i = n + 1 /\ j \in 1 .. n
    <3>1. j \in Held(r.id) /\ r.kind # "transition"
      BY <2>1, <2>3, <1>1, <1>2 DEF OfOne, Held, n
    <3>2. QED
      BY <2>3, <3>1, <1>1, <1>2, <1>8
  <2>4. CASE i \in 1 .. n /\ j = n + 1
    <3>1. i \in Held(r.id) /\ r.kind # "transition"
      BY <2>1, <2>4, <1>1, <1>2 DEF OfOne, Held, n
    <3>2. QED
      BY <2>4, <3>1, <1>1, <1>2, <1>8
  <2>5. CASE i = n + 1 /\ j = n + 1
    BY <2>5
  <2>6. QED
    BY <2>2, <2>3, <2>4, <2>5, <1>5
<1>11. ASSUME NEW i \in Held(r.id), r.kind \in Versioned
       PROVE  log[i].version < r.version
  <2>1. r.kind # "transition" /\ log[i].kind = r.kind /\ i \in 1 .. n /\ log[i].id = r.id
    BY <1>8, <1>11 DEF Versioned, Created, Imported, Held, n
  <2>2. PICK p \in 1 .. n : IsLast(p, r.id)
    <3>1. PICK x \in 1 .. n : /\ OfOne(log[x], log[i])
                              /\ \A q \in 1 .. n : OfOne(log[q], log[i]) => q <= x
      BY <2>1 DEF WriteInv, HasLast, n
    <3>2. IsLast(x, r.id)
      BY <3>1, <2>1 DEF IsLast, Held, OfOne, n
    <3>3. QED
      BY <3>2
  <2>3. log[p].kind = r.kind /\ p \in Held(r.id) /\ i <= p /\ log[p].id = r.id
    BY <2>2, <1>8, <1>11, <2>1 DEF IsLast, Held
  <2>4. p \in Prior(r)
    <3> DEFINE ref == [id |-> r.id, version |-> 0]
    <3>1. ref.id = r.id /\ ref.version = 0
      OBVIOUS
    <3>2. Prior(r) = Resolved(ref)
      BY <2>1 DEF Prior
    <3> HIDE DEF ref
    <3>3. p \in Resolved(ref)
      BY <3>1, <2>2, <2>3, <1>11, LastIsResolved
    <3>4. QED
      BY <3>2, <3>3
  <2>5. r.version = log[p].version + 1
    <3>1. NextAfter({log[q] : q \in Prior(r)}, r.version)
      BY <1>11 DEF Put, Accepts
    <3>2. log[p] \in {log[q] : q \in Prior(r)}
      BY <2>4
    <3>3. QED
      BY <3>1, <3>2 DEF NextAfter
  <2>6. log[p].version \in Nat /\ log[i].version \in Nat
    <3>1. log[p] \in Record /\ log[i] \in Record
      BY <2>1, <2>2 DEF WriteInv, LogTyped, n
    <3>2. QED
      BY <3>1 DEF Record
  <2>7. CASE i = p
    BY <2>5, <2>6, <2>7
  <2>8. CASE i # p
    <3>1. i < p
      BY <2>1, <2>2, <2>3, <2>8, <1>1
    <3>2. log[i].version < log[p].version
      BY <3>1, <2>1, <2>2, <2>3, <1>11 DEF WriteInv, VersionsRise, OfOne, n
    <3>3. QED
      BY <3>2, <2>5, <2>6
  <2>9. QED
    BY <2>7, <2>8
<1>12. VersionsRise'
  <2>1. SUFFICES ASSUME NEW i \in 1 .. n + 1, NEW j \in 1 .. n + 1, i < j,
                        OfOne(log'[i], log'[j]), log'[j].kind \in Versioned
                 PROVE  log'[i].version < log'[j].version
    BY <1>1 DEF VersionsRise
  <2>2. i \in 1 .. n
    BY <2>1, <1>1
  <2>3. CASE j \in 1 .. n
    BY <2>1, <2>2, <2>3, <1>1 DEF WriteInv, VersionsRise, OfOne, n
  <2>4. CASE j = n + 1
    <3>1. r.kind \in Versioned /\ log'[j].version = r.version
      BY <2>1, <2>4, <1>1, <1>2
    <3>2. i \in Held(r.id)
      BY <2>1, <2>2, <2>4, <1>1, <1>2 DEF OfOne, Held, n
    <3>3. QED
      BY <3>1, <3>2, <2>2, <1>1, <1>11
  <2>5. QED
    BY <2>3, <2>4, <1>5
<1>13. HasLast'
  <2>1. SUFFICES ASSUME NEW i \in 1 .. n + 1, log'[i].kind # "transition"
                 PROVE  \E p \in 1 .. n + 1 : /\ OfOne(log'[p], log'[i])
                                              /\ \A q \in 1 .. n + 1 : OfOne(log'[q], log'[i]) => q <= p
    BY <1>1 DEF HasLast
  <2>2. CASE OfOne(log'[n + 1], log'[i])
    <3>1. \A q \in 1 .. n + 1 : q <= n + 1
      BY <1>1
    <3>2. QED
      BY <2>2, <3>1, <1>7
  <2>3. CASE ~OfOne(log'[n + 1], log'[i])
    <3>1. i \in 1 .. n
      BY <2>1, <2>3, <1>5 DEF OfOne
    <3>2. PICK p \in 1 .. n : /\ OfOne(log[p], log[i])
                              /\ \A q \in 1 .. n : OfOne(log[q], log[i]) => q <= p
      BY <3>1, <2>1, <1>1 DEF WriteInv, HasLast, n
    <3>3. OfOne(log'[p], log'[i]) /\ \A q \in 1 .. n : OfOne(log'[q], log'[i]) => q <= p
      BY <3>1, <3>2, <1>1
    <3>4. \A q \in 1 .. n + 1 : OfOne(log'[q], log'[i]) => q \in 1 .. n
      BY <2>3, <1>5
    <3>5. QED
      BY <3>3, <3>4, <1>6
  <2>4. QED
    BY <2>2, <2>3
<1>14. QED
  BY <1>9, <1>10, <1>12, <1>13

LEMMA PutCovers ==
  ASSUME WriteInv, NEW r, Put(r)
  PROVE  NoWriteDown'
<1> DEFINE n == Len(log)
           e == Admitted(r)
           Related(s, t) == \/ s.id = t.id /\ s.kind = t.kind /\ s.kind \in Versioned
                            \/ \E ref \in t.cites : Names(ref, s)
<1>1. /\ r \in Record /\ n \in Nat /\ Len(log') = n + 1
      /\ \A i \in 1 .. n : log'[i] = log[i]
      /\ log'[n + 1] = e
  BY AppendedIs
<1>2. /\ e.id = r.id /\ e.kind = r.kind /\ e.cites = r.cites
      /\ \A i \in Prior(r) \cup Cited(r) : Covers(e.marking, log[i].marking)
  BY <1>1, AdmittedIs
<1>3. \A j \in 1 .. n + 1 : j \in 1 .. n \/ j = n + 1
  BY <1>1
<1>4. \A j \in 1 .. n : \A i \in 1 .. j - 1 : i \in 1 .. n
  BY <1>1
<1>5. \A i \in 1 .. (n + 1) - 1 : i \in 1 .. n
  BY <1>1
<1> HIDE DEF n, e
<1>6. ASSUME NEW i \in 1 .. n, Related(log[i], e)
      PROVE  Covers(e.marking, log[i].marking)
  <2>1. log[i].kind \in Versioned /\ log[i].kind # "transition"
    BY <1>6 DEF Names, Versioned, Created, Imported
  <2>2. PICK p \in 1 .. n : /\ OfOne(log[p], log[i])
                            /\ \A q \in 1 .. n : OfOne(log[q], log[i]) => q <= p
    BY <2>1 DEF WriteInv, HasLast, n
  <2>3. IsLast(p, log[i].id)
    BY <2>1, <2>2 DEF IsLast, Held, OfOne, n
  <2>4. log[p].kind = log[i].kind /\ Covers(log[p].marking, log[i].marking)
    BY <2>1, <2>3, LastCovers DEF n
  <2>5. ASSUME NEW ref, ref.id = log[i].id, ref.version = 0
        PROVE  p \in Resolved(ref)
    BY <2>1, <2>3, <2>4, <2>5, LastIsResolved
  <2>6. CASE log[i].id = e.id /\ log[i].kind = e.kind
    <3> DEFINE ref == [id |-> r.id, version |-> 0]
    <3>1. ref.id = log[i].id /\ ref.version = 0
      BY <2>6, <1>2
    <3>2. Prior(r) = Resolved(ref)
      BY <2>1, <2>6, <1>2 DEF Prior
    <3> HIDE DEF ref
    <3>3. p \in Prior(r)
      BY <3>1, <3>2, <2>5
    <3>4. QED
      BY <3>3, <2>4, <1>2, CoversIsTransitive
  <2>7. CASE \E ref \in r.cites : Names(ref, log[i])
    <3>1. PICK ref \in r.cites : Names(ref, log[i])
      BY <2>7
    <3>2. Resolved(ref) \subseteq Cited(r)
      BY DEF Cited
    <3>3. CASE ref.version = 0
      <4>1. p \in Resolved(ref)
        BY <3>1, <3>3, <2>5 DEF Names
      <4>2. QED
        BY <4>1, <3>2, <2>4, <1>2, CoversIsTransitive
    <3>4. CASE ref.version # 0
      <4>1. i \in Resolved(ref)
        BY <3>1, <3>4, PinnedIsResolved DEF n
      <4>2. QED
        BY <4>1, <3>2, <1>2
    <3>5. QED
      BY <3>3, <3>4
  <2>8. QED
    BY <2>6, <2>7, <1>6, <1>2
<1>7. SUFFICES ASSUME NEW j \in 1 .. n + 1, NEW i \in 1 .. j - 1, Related(log'[i], log'[j])
               PROVE  Covers(log'[j].marking, log'[i].marking)
  <2>1. Len(log)' = n + 1
    BY <1>1
  <2>2. QED
    BY <2>1 DEF NoWriteDown, Names, Covers, CanView
<1>8. CASE j \in 1 .. n
  <2>1. log'[i] = log[i] /\ log'[j] = log[j]
    BY <1>1, <1>4, <1>8
  <2>2. QED
    BY <2>1, <1>7, <1>8 DEF WriteInv, NoWriteDown, n
<1>9. CASE j = n + 1
  <2>1. i \in 1 .. n /\ log'[i] = log[i] /\ log'[j] = e
    BY <1>1, <1>5, <1>9
  <2> HIDE DEF Related
  <2>2. QED
    BY <2>1, <1>6, <1>7
<1>10. QED
  BY <1>3, <1>8, <1>9

-----------------------------------------------------------------------------
(* The program.                                                            *)

(* A command decides; it appends nothing. *)
LEMMA CommandsOnlyDecide ==
  ASSUME NEW c \in Calls, NEW a \in Actors, Command(c, a)
  PROVE  UNCHANGED log
<1>1. \A events : Decide(c, events) => UNCHANGED log
  BY DEF Decide
<1>2. \A kind, id, ids, roles : Create(c, a, kind, id, ids, roles) => UNCHANGED log
  BY <1>1 DEF Create
<1>3. ASSUME NEW id \in Ids
      PROVE  /\ ResolveReviewItem(c, a, id) => UNCHANGED log
             /\ ResolveModelProposal(c, a, id) => UNCHANGED log
             /\ DecideRecommendation(c, a, id) => UNCHANGED log
             /\ CreateHypothesis(c, a, id) => UNCHANGED log
             /\ AssessHypothesis(c, a, id) => UNCHANGED log
             /\ SetWatchActive(c, a, id) => UNCHANGED log
             /\ MoveReport(c, a, id) => UNCHANGED log
             /\ ResolveAnnotation(c, a, id) => UNCHANGED log
  BY <1>1, <1>2 DEF ResolveReviewItem, ResolveModelProposal, DecideRecommendation, CreateHypothesis,
                    AssessHypothesis, SetWatchActive, MoveReport, ResolveAnnotation
<1>4. ASSUME NEW id \in Ids, NEW ids \in Few
      PROVE  /\ OpenRequirement(c, a, id, ids) => UNCHANGED log
             /\ AssignTask(c, a, id, ids) => UNCHANGED log
             /\ TransitionWorkflow(c, a, id, ids) => UNCHANGED log
             /\ RequestModelProposal(c, a, id, ids) => UNCHANGED log
             /\ AuthorForecast(c, a, id, ids) => UNCHANGED log
             /\ MoveForecast(c, a, id, ids) => UNCHANGED log
             /\ ResolveForecast(c, a, id, ids) => UNCHANGED log
             /\ CreateWatch(c, a, id, ids) => UNCHANGED log
             /\ SaveView(c, a, id, ids) => UNCHANGED log
             /\ CreateReport(c, a, id, ids) => UNCHANGED log
             /\ EditReport(c, a, id, ids) => UNCHANGED log
  BY <1>1, <1>2 DEF OpenRequirement, AssignTask, TransitionWorkflow, RequestModelProposal, AuthorForecast,
                    MoveForecast, ResolveForecast, CreateWatch, SaveView, CreateReport, EditReport
<1>5. ASSUME NEW id \in Ids, NEW other \in Ids
      PROVE  /\ LinkHypothesisClaim(c, a, id, other) => UNCHANGED log
             /\ LaunchRoute(c, a, id, other) => UNCHANGED log
             /\ AssignRoute(c, a, id, other) => UNCHANGED log
             /\ \A third \in Ids : ProjectForecastWarning(c, a, id, other, third) => UNCHANGED log
             /\ \A anchors, parents \in Few : Annotate(c, a, id, other, anchors, parents) => UNCHANGED log
  BY <1>1 DEF LinkHypothesisClaim, LaunchRoute, AssignRoute, ProjectForecastWarning, Annotate
<1>6. QED
  BY <1>3, <1>4, <1>5 DEF Command

LEMMA StepsPut ==
  ASSUME [WorkbenchNext]_workbenchVars
  PROVE  UNCHANGED log \/ \E r : Put(r)
<1>1. ASSUME NEW c \in Calls, NEW a \in Actors, Command(c, a)
      PROVE  UNCHANGED log
  BY <1>1, CommandsOnlyDecide
<1>2. ASSUME NEW c \in Calls, AppendNext(c)
      PROVE  \E r : Put(r)
  BY <1>2 DEF AppendNext
<1>3. ASSUME NEW c \in Calls, GiveUp(c)
      PROVE  UNCHANGED log
  BY <1>3 DEF GiveUp
<1>4. ASSUME NEW kind, NEW id, NEW refs, NEW base, SystemWrites(kind, id, refs, base)
      PROVE  \E r : Put(r)
  BY <1>4 DEF SystemWrites
<1>5. ASSUME NEW id, NEW refs, NEW base, SystemRefreshes(id, refs, base)
      PROVE  \E r : Put(r)
  BY <1>5 DEF SystemRefreshes
<1>6. CASE UNCHANGED workbenchVars
  BY <1>6 DEF workbenchVars
<1>7. QED
  BY <1>1, <1>2, <1>3, <1>4, <1>5, <1>6 DEF WorkbenchNext

(* Nothing is written down (README.md:22-23), whatever commands and other  *)
(* writers do, for any organisations, compartments, groups and contexts.   *)
THEOREM NothingIsWrittenDown == WorkbenchSpec => []NoWriteDown
<1>1. WorkbenchInit => WriteInv
  <2>1. SUFFICES ASSUME WorkbenchInit PROVE WriteInv
    OBVIOUS
  <2>2. log = <<>> /\ Len(log) = 0
    BY <2>1, EmptySeq DEF WorkbenchInit, CommandInit
  <2>3. log \in Seq(Record)
    BY <2>2, EmptySeq
  <2>4. 1 .. Len(log) = {}
    BY <2>2
  <2>5. QED
    BY <2>3, <2>4 DEF WriteInv, LogTyped, OneFamily, VersionsRise, HasLast, NoWriteDown
<1>2. WriteInv /\ [WorkbenchNext]_workbenchVars => WriteInv'
  <2>1. SUFFICES ASSUME WriteInv, [WorkbenchNext]_workbenchVars PROVE WriteInv'
    OBVIOUS
  <2>2. CASE UNCHANGED log
    BY <2>1, <2>2 DEF WriteInv, LogTyped, OneFamily, VersionsRise, HasLast, NoWriteDown
  <2>3. CASE \E r : Put(r)
    <3>1. PICK r : Put(r)
      BY <2>3
    <3>2. LogTyped' /\ OneFamily' /\ VersionsRise' /\ HasLast'
      BY <2>1, <3>1, PutKeepsOrder
    <3>3. NoWriteDown'
      BY <2>1, <3>1, PutCovers
    <3>4. QED
      BY <3>2, <3>3 DEF WriteInv
  <2>4. QED
    BY <2>1, <2>2, <2>3, StepsPut
<1>3. WriteInv => NoWriteDown
  BY DEF WriteInv
<1>4. QED
  BY <1>1, <1>2, <1>3, PTL DEF WorkbenchSpec
=============================================================================
