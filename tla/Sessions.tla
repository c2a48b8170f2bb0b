------------------------------ MODULE Sessions ------------------------------
(***************************************************************************)
(* Challenge-response sign-in of the workbench server                      *)
(* (curunir_identity/sessions.py): pending challenges and open sessions,   *)
(* kept in the memory of one process, bounded, short-lived, and shared by  *)
(* everybody.  Each method runs under one lock, so it is one step.         *)
(***************************************************************************)
EXTENDS Naturals, FiniteSets

CONSTANTS
  Principals,       \* principals
  Keys, Owner,  \* their signing keys
  Nonces, SessionIds,  \* the tokens the server may draw, each of them once
  MaxPending, MaxSessions,       \* MAX_PENDING_CHALLENGES, MAX_SESSIONS
  ChallengeTtl, SessionTtl,
  MaxWait,      \* bound on how long a call waits for the lock
  MaxTime       \* bound on the clock

SessionConstants ==
  /\ Owner \in [Keys -> Principals]
  /\ MaxPending \in Nat \ {0} /\ MaxSessions \in Nat \ {0}
  /\ ChallengeTtl \in Nat /\ SessionTtl \in Nat /\ MaxWait \in Nat /\ MaxTime \in Nat

VARIABLES
  now,
  active,    \* keys that the registry holds ACTIVE
  pending,   \* _pending
  sessions,  \* _sessions
  drawn,     \* history: the nonces drawn
  grants     \* history: the sessions granted, each with its challenge

vars == <<now, active, pending, sessions, drawn, grants>>

Challenges == [nonce : Nonces, actor : Principals, issued : 0 .. MaxTime]
SessionRecords == [id : SessionIds, actor : Principals, key : Keys, issued : 0 .. MaxTime]
Grants == [session : SessionRecords, challenge : Challenges]

Init ==
  /\ now = 0 /\ active = Keys
  /\ pending = {} /\ sessions = {} /\ drawn = {} /\ grants = {}

-----------------------------------------------------------------------------
(* A method reads the clock before it waits for the lock. *)
ClockReadings == {t \in 0 .. now : now <= t + MaxWait}

(* An entry counts up to and at its expiry. *)
Unexpired(entries, ttl, t) == {e \in entries : t <= e.issued + ttl}

Oldest(entries) == {e \in entries : \A f \in entries : e.issued <= f.issued}

(* Fault: whoever is oldest makes room. *)
RoomFromAnyone(entries, a, max) ==
  IF Cardinality(entries) < max THEN {entries} ELSE {entries \ {e} : e \in Oldest(entries)}

(* What is left when a makes room for an entry of its own: the entries, or *)
(* all but its own oldest one; nothing if a owns none of them.             *)
RoomFor(entries, a, max) ==
  IF Cardinality(entries) < max THEN {entries}
  ELSE {entries \ {e} : e \in Oldest({f \in entries : f.actor = a})}

(* issue_challenge; with no room left it is refused. *)
IssueChallenge(a, nonce, t) ==
  LET live == Unexpired(pending, ChallengeTtl, t) IN
  /\ nonce \notin drawn
  /\ IF RoomFor(live, a, MaxPending) = {}
     THEN pending' = live /\ UNCHANGED drawn
     ELSE /\ \E left \in RoomFor(live, a, MaxPending) :
               pending' = left \cup {[nonce |-> nonce, actor |-> a, issued |-> t]}
          /\ drawn' = drawn \cup {nonce}
  /\ UNCHANGED <<now, active, sessions, grants>>

(* The answer to challenge c, signed with key on behalf of a, is right. *)
Answers(a, c, key, t) ==
  c.actor = a /\ t <= c.issued + ChallengeTtl /\ key \in active /\ Owner[key] = a

Granted(a, c, key, id, t) ==
  LET session == [id |-> id, actor |-> a, key |-> key, issued |-> t] IN
  /\ \E left \in RoomFor(Unexpired(sessions, SessionTtl, t), a, MaxSessions) : sessions' = left \cup {session}
  /\ grants' = grants \cup {[session |-> session, challenge |-> c]}

NoRoom(a, t) == RoomFor(Unexpired(sessions, SessionTtl, t), a, MaxSessions) = {}

Fresh(id) == \A g \in grants : g.session.id # id

(* Fault: a challenge is not used up by a right answer. *)
AuthenticateReusable(a, c, key, id, t) ==
  /\ Fresh(id) /\ Answers(a, c, key, t) /\ ~NoRoom(a, t)
  /\ Granted(a, c, key, id, t)
  /\ UNCHANGED <<now, active, pending, drawn>>

(* authenticate: the challenge is used up, whether the answer is right or  *)
(* wrong, unless it is right and there is no room for the session.         *)
Authenticate(a, c, key, id, t) ==
  /\ Fresh(id)
  /\ IF ~Answers(a, c, key, t)
     THEN pending' = pending \ {c} /\ UNCHANGED <<sessions, grants>>
     ELSE IF NoRoom(a, t)
     THEN sessions' = Unexpired(sessions, SessionTtl, t) /\ UNCHANGED <<pending, grants>>
     ELSE pending' = pending \ {c} /\ Granted(a, c, key, id, t)
  /\ UNCHANGED <<now, active, drawn>>

Good(s, t) == t <= s.issued + SessionTtl /\ s.key \in active

(* resolve: a session that has expired, or whose key is out of use, is     *)
(* dropped; any other is good for the request.                             *)
Resolve(s, t) ==
  /\ sessions' = IF Good(s, t) THEN sessions ELSE sessions \ {s}
  /\ UNCHANGED <<now, active, pending, drawn, grants>>

(* The registry revokes or retires a key; sessions hear of it in resolve. *)
KeyOutOfUse(key) ==
  /\ key \in active
  /\ active' = active \ {key}
  /\ UNCHANGED <<now, pending, sessions, drawn, grants>>

Tick == now < MaxTime /\ now' = now + 1 /\ UNCHANGED <<active, pending, sessions, drawn, grants>>

(* The server process ends and another one starts. *)
Restart == pending' = {} /\ sessions' = {} /\ UNCHANGED <<now, active, drawn, grants>>

Next ==
  \/ \E t \in ClockReadings :
       \/ \E a \in Principals, nonce \in Nonces : IssueChallenge(a, nonce, t)
       \/ \E a \in Principals, c \in pending, key \in Keys, id \in SessionIds : Authenticate(a, c, key, id, t)
       \/ \E s \in sessions : Resolve(s, t)
  \/ \E key \in Keys : KeyOutOfUse(key)
  \/ Tick
  \/ Restart

Spec == Init /\ [][Next]_vars

-----------------------------------------------------------------------------
(* Properties.                                                             *)

TypeOK ==
  /\ now \in 0 .. MaxTime /\ active \subseteq Keys
  /\ pending \subseteq Challenges /\ Cardinality(pending) <= MaxPending
  /\ sessions \subseteq SessionRecords /\ Cardinality(sessions) <= MaxSessions
  /\ drawn \subseteq Nonces /\ grants \subseteq Grants

(* A challenge opens at most one session, and only for its actor, under a  *)
(* key of that actor and within its time, however often it is answered,    *)
(* also after a refusal for want of room and a restart (V67-AUTH-002).     *)
SingleUse ==
  \A g \in grants :
    /\ g.session.actor = g.challenge.actor /\ Owner[g.session.key] = g.session.actor
    /\ g.session.issued <= g.challenge.issued + ChallengeTtl
    /\ \A h \in grants : g.challenge.nonce = h.challenge.nonce => g = h

(* Nobody loses a place to somebody else: a principal that asks for a      *)
(* challenge, or answers its own, makes room only from what is its own or  *)
(* has expired (V67-AUTH-002, curunir_identity/README.md:31-34).           *)
OthersKeepTheirPlace ==
  [][\A a \in Principals, t \in ClockReadings :
       /\ (\E nonce \in Nonces : IssueChallenge(a, nonce, t)) =>
            \A c \in pending \ pending' : c.actor = a \/ now > c.issued + ChallengeTtl
       /\ (\E c \in pending, key \in Keys, id \in SessionIds : Authenticate(a, c, key, id, t)) =>
            \A s \in sessions \ sessions' : s.actor = a \/ now > s.issued + SessionTtl]_vars

(* A right answer is not lost: either it opens a session or the challenge  *)
(* is there to be answered again.                                          *)
RightAnswersCount ==
  [][\A a \in Principals, c \in pending, key \in Keys, id \in SessionIds, t \in ClockReadings :
       Authenticate(a, c, key, id, t) /\ Answers(a, c, key, t) =>
         c \in pending' \/ \E s \in sessions' : [session |-> s, challenge |-> c] \in grants']_vars

(* Both: a full server takes nothing from anybody who does not ask for     *)
(* more, neither a place nor a right answer.                               *)
NothingIsTaken == OthersKeepTheirPlace /\ RightAnswersCount
=============================================================================
