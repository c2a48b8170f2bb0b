------------------------- MODULE KeyRegistryProofs -------------------------
(***************************************************************************)
(* What holds of signing keys for any number of actors, keys and commands. *)
(*                                                                         *)
(* The argument: the versions of a key rise by one along the log, so that  *)
(* a change of a key decided on the version at position i is written only  *)
(* while i is still the newest, and what MayTransition asked of it still   *)
(* holds.  A first version is checked under the lock against the whole     *)
(* log.  A rotation carries with it, at every point at which it can be cut *)
(* off, that the key it is going to retire has been replaced.  The limit   *)
(* on active keys and the standing of the past rest on that invariant and  *)
(* on what Whole adds to it.  At the end, what MCIdentity composes: a      *)
(* behaviour of keys, sessions and commands is one of each.                *)
(***************************************************************************)
EXTENDS MCIdentity, SequenceTheorems, FiniteSetTheorems, TLAPS

-----------------------------------------------------------------------------
FirstVersion(e) == e.version = 1 /\ e.status = "ACTIVE" /\ ~e.compromised

(* What one version may become in the next, whoever acts. *)
Follows(r, e) ==
  /\ e.key = r.key /\ e.actor = r.actor /\ e.kind = r.kind /\ e.version = r.version + 1
  /\ MayTransition(r, e.compromised)
  /\ e.status \in {"RETIRED", "REVOKED"} /\ (e.compromised => e.status = "REVOKED")

DecidedOn(e) == FirstVersion(e) \/ \E i \in Of("key") : Follows(log[i], e)

(* A key replaces a key of the same actor, and a retired key is replaced.  *)
Inherits(e) ==
  e.supersedes # NoKey =>
    \E i \in Of("key") : log[i].key = e.supersedes /\ log[i].actor = e.actor
Replaced(e) ==
  e.status = "RETIRED" => \E j \in Of("key") : log[j].supersedes = e.key /\ log[j].actor = e.actor

VersionsRise ==
  \A i, j \in Of("key") : i < j /\ log[i].key = log[j].key => log[i].version < log[j].version

HasNewest == \A k \in Keys : VersionsOf(k) # {} => Newest(VersionsOf(k)) # {}

(* What a call has left to do: at most one event, decided on what the log  *)
(* says; and a call that is to retire a key has a key that replaces it, in *)
(* the log or to be enrolled.                                              *)
Sound(events, key) ==
  /\ events # <<>> =>
       Len(events) = 1 /\ DecidedOn(events[1]) /\ Inherits(events[1]) /\ Replaced(events[1])
  /\ key # NoKey =>
       IF events = <<>> THEN \E j \in Of("key") : log[j].supersedes = key
       ELSE events[1].version = 1 /\ events[1].supersedes = key

CallsSound == \A c \in Calls : Sound(todo[c], retiring[c])

LogInherits == \A i \in Of("key") : Inherits(log[i])

(* The inductive invariant.                                                *)
IInv ==
  /\ TypeOK /\ VersionsRise /\ HasNewest /\ CallsSound /\ LogInherits
  /\ OneOwner /\ NoResurrection /\ SuccessorFirst

-----------------------------------------------------------------------------
(***************************************************************************)
(* Positions and records.                                                  *)
(***************************************************************************)
LEMMA AllAreKeys ==
  ASSUME log \in Seq(KeyVersions)
  PROVE  Of("key") = 1 .. Len(log) /\ \A i \in Of("key") : i \in Nat /\ log[i] \in KeyVersions
<1>1. \A i \in 1 .. Len(log) : log[i] \in KeyVersions
  OBVIOUS
<1>2. \A r \in KeyVersions : r.type = "key"
  BY DEF KeyVersions
<1> QED  BY <1>1, <1>2 DEF Of

LEMMA AppendFacts ==
  ASSUME log \in Seq(KeyVersions), NEW e \in KeyVersions, log' = Append(log, e)
  PROVE  /\ Len(log) \in Nat /\ log' \in Seq(KeyVersions) /\ Of("key")' = 1 .. Len(log) + 1
         /\ \A i \in Of("key") : i \in Of("key")' /\ i \in Nat /\ i <= Len(log) /\ log'[i] = log[i]
         /\ \A i \in Of("key")' : i \in Of("key") \/ i = Len(log) + 1
         /\ log'[Len(log) + 1] = e
<1>1. Len(log) \in Nat /\ log' \in Seq(KeyVersions) /\ Len(log') = Len(log) + 1
      /\ log'[Len(log) + 1] = e /\ \A i \in 1 .. Len(log) : log'[i] = log[i]
  OBVIOUS
<1>2. \A i \in 1 .. Len(log) : log[i].type = "key"
  <2>1. \A i \in 1 .. Len(log) : log[i] \in KeyVersions
    OBVIOUS
  <2> QED  BY <2>1 DEF KeyVersions
<1>3. Of("key") = 1 .. Len(log)
  BY <1>2 DEF Of
<1>4. \A i \in 1 .. Len(log') : log'[i].type = "key"
  <2>1. \A i \in 1 .. Len(log') : log'[i] \in KeyVersions
    BY <1>1
  <2> QED  BY <2>1 DEF KeyVersions
<1>5. Of("key")' = 1 .. Len(log) + 1
  <2>1. Of("key")' = {i \in 1 .. Len(log') : log'[i].type = "key"}
    BY DEF Of
  <2> QED  BY <1>1, <1>4, <2>1
<1> QED  BY <1>1, <1>3, <1>5

LEMMA CurrentRecord ==
  ASSUME log \in Seq(KeyVersions), NEW k, NEW r \in Current(k)
  PROVE  r \in KeyVersions /\ r.key = k /\ \E i \in Of("key") : log[i] = r
<1>1. PICK i \in Of("key") : log[i] = r /\ log[i].key = k
  BY DEF Current, Newest, VersionsOf
<1> QED  BY <1>1, AllAreKeys

(* A key without a current version has no version at all. *)
LEMMA NoCurrent ==
  ASSUME HasNewest, NEW k \in Keys, Current(k) = {}
  PROVE  VersionsOf(k) = {}
BY DEF HasNewest, Current

LEMMA StampedFields ==
  ASSUME NEW e \in KeyVersions, NEW t \in Nat
  PROVE  LET s == Stamped(e, t)
         IN  /\ s \in KeyVersions /\ s.key = e.key /\ s.version = e.version /\ s.actor = e.actor
             /\ s.kind = e.kind /\ s.status = e.status /\ s.compromised = e.compromised
             /\ s.supersedes = e.supersedes
BY DEF Stamped, KeyVersions

LEMMA TransitionedFields ==
  ASSUME NEW r \in KeyVersions, NEW status \in {"RETIRED", "REVOKED"}, NEW compromised \in BOOLEAN,
         NEW e, e = Transitioned(r, status, compromised)
  PROVE  /\ e \in KeyVersions /\ e.key = r.key /\ e.version = r.version + 1 /\ e.actor = r.actor
         /\ e.kind = r.kind /\ e.status = status /\ e.compromised = compromised
         /\ e.supersedes = r.supersedes
<1>1. r.version + 1 \in Nat /\ status \in KeyStatuses
  BY DEF KeyVersions, KeyStatuses
<1>2. e = [type |-> r.type, key |-> r.key, version |-> r.version + 1, actor |-> r.actor, kind |-> r.kind,
           status |-> status, compromised |-> compromised, supersedes |-> r.supersedes,
           enrolled |-> r.enrolled, time |-> r.time]
  BY DEF KeyVersions, Transitioned
<1>3. /\ r.type \in {"key"} /\ r.key \in Keys /\ r.actor \in Actors /\ r.kind \in Kinds
      /\ r.supersedes \in Keys \cup {NoKey} /\ r.enrolled \in Nat /\ r.time \in Nat
  BY DEF KeyVersions
<1>4. e \in KeyVersions
  BY <1>1, <1>2, <1>3 DEF KeyVersions
<1> QED  BY <1>2, <1>4

-----------------------------------------------------------------------------
(***************************************************************************)
(* The invariant is kept.                                                  *)
(***************************************************************************)
LEMMA InitKeeps == Init => IInv
<1> SUFFICES ASSUME Init PROVE IInv
  OBVIOUS
<1>1. log = <<>> /\ Len(log) = 0 /\ log \in Seq(KeyVersions)
  BY DEF Init, CommandInit
<1>2. Of("key") = {} /\ \A k : VersionsOf(k) = {}
  BY <1>1 DEF Of, VersionsOf
<1>3. TypeOK /\ CallsSound
  BY <1>1 DEF Init, CommandInit, TypeOK, CallsSound, Sound
<1>4. VersionsRise /\ HasNewest /\ LogInherits /\ OneOwner /\ NoResurrection /\ SuccessorFirst
  BY <1>2 DEF VersionsRise, HasNewest, LogInherits, OneOwner, NoResurrection, SuccessorFirst
<1> QED  BY <1>3, <1>4 DEF IInv

(* Steps that append nothing. *)
LEMMA QuietKeeps ==
  ASSUME IInv, log' = log, TypeOK', NEW c \in Calls,
         \A x \in Calls : x # c => todo'[x] = todo[x] /\ retiring'[x] = retiring[x],
         Sound(todo'[c], retiring'[c])
  PROVE  IInv'
<1>1. Of("key")' = Of("key") /\ \A k : VersionsOf(k)' = VersionsOf(k)
  BY DEF Of, VersionsOf
<1>2. VersionsRise' /\ HasNewest' /\ OneOwner' /\ NoResurrection' /\ SuccessorFirst'
  BY <1>1 DEF IInv, VersionsRise, HasNewest, Newest, OneOwner, NoResurrection, SuccessorFirst
<1>3. LogInherits'
  BY <1>1 DEF IInv, LogInherits, Inherits
<1>4. ASSUME NEW x \in Calls
      PROVE  Sound(todo[x], retiring[x])'
  <2>1. Sound(todo'[x], retiring'[x])
    <3>1. CASE x = c
      BY <3>1
    <3>2. CASE x # c
      BY <3>2 DEF IInv, CallsSound
    <3> QED  BY <3>1, <3>2
  <2> QED  BY <1>1, <2>1 DEF Sound, DecidedOn, Inherits, Replaced, Follows, FirstVersion, MayTransition
<1>5. CallsSound'
  BY <1>4 DEF CallsSound
<1> QED  BY <1>2, <1>3, <1>5 DEF IInv

(* What was found in the log is still there after an append. *)
LEMMA Stays ==
  ASSUME log \in Seq(KeyVersions), NEW s \in KeyVersions, log' = Append(log, s), NEW e
  PROVE  /\ DecidedOn(e) => FirstVersion(e) \/ \E i \in Of("key")' : Follows(log'[i], e)
         /\ Inherits(e) => (e.supersedes # NoKey =>
              \E i \in Of("key")' : log'[i].key = e.supersedes /\ log'[i].actor = e.actor)
         /\ Replaced(e) => (e.status = "RETIRED" =>
              \E j \in Of("key")' : log'[j].supersedes = e.key /\ log'[j].actor = e.actor)
<1>1. \A i \in Of("key") : i \in Of("key")' /\ log'[i] = log[i]
  BY AppendFacts
<1> QED  BY <1>1 DEF DecidedOn, Inherits, Replaced

(* A change of a key that fits was decided on its newest version. *)
LEMMA FitsNewest ==
  ASSUME IInv, NEW e \in KeyVersions, Fits(e), DecidedOn(e), e.version # 1
  PROVE  \E m \in Newest(VersionsOf(e.key)) : Follows(log[m], e)
<1>0. log \in Seq(KeyVersions) /\ e.key \in Keys
  BY DEF IInv, TypeOK, KeyVersions
<1>1. PICK i \in Of("key") : Follows(log[i], e)
  BY DEF DecidedOn, FirstVersion
<1>2. i \in VersionsOf(e.key) /\ e.version = log[i].version + 1
  BY <1>1 DEF Follows, VersionsOf
<1>3. PICK m \in Newest(VersionsOf(e.key)) : TRUE
  BY <1>0, <1>2 DEF IInv, HasNewest
<1>4. m \in Of("key") /\ log[m].key = e.key /\ i <= m
  BY <1>2, <1>3 DEF Newest, VersionsOf
<1>5. e.version = log[m].version + 1
  <2>1. log[m] \in Current(e.key)
    BY <1>3 DEF Current
  <2> QED  BY <2>1 DEF Fits, NextAfter
<1>6. i \in Nat /\ m \in Nat /\ log[i].version \in Nat /\ log[m].version \in Nat
  BY <1>0, <1>1, <1>4, AllAreKeys DEF KeyVersions
<1>7. i = m
  <2>1. log[i].key = log[m].key
    BY <1>1, <1>4 DEF Follows
  <2>2. i < m => log[i].version < log[m].version
    BY <1>1, <1>4, <2>1 DEF IInv, VersionsRise
  <2> QED  BY <1>2, <1>4, <1>5, <1>6, <2>2
<1> QED  BY <1>1, <1>3, <1>7

(* A key version is appended while what was asked of the log stands. *)
LEMMA AppendKeeps ==
  ASSUME IInv, NEW e \in KeyVersions, Fits(e), DecidedOn(e), Inherits(e), Replaced(e),
         NEW s \in KeyVersions, log' = Append(log, s),
         s.key = e.key, s.version = e.version, s.actor = e.actor, s.kind = e.kind, s.status = e.status,
         s.compromised = e.compromised, s.supersedes = e.supersedes
  PROVE  VersionsRise' /\ HasNewest' /\ LogInherits' /\ OneOwner' /\ NoResurrection' /\ SuccessorFirst'
<1> DEFINE n == Len(log) + 1
<1>0. log \in Seq(KeyVersions) /\ Len(log) \in Nat /\ log'[n] = s /\ e.key \in Keys
  BY AppendFacts DEF IInv, TypeOK, KeyVersions
<1>1. /\ n \in Nat /\ n \in Of("key")'
      /\ \A i \in Of("key") : i \in Of("key")' /\ i \in Nat /\ i < n /\ log'[i] = log[i]
      /\ \A i \in Of("key")' : i \in Of("key") \/ i = n
  BY <1>0, AppendFacts
<1> HIDE DEF n
<1>2. ASSUME NEW i \in Of("key")', NEW j \in Of("key")', i < j
      PROVE  i \in Of("key") /\ (j \in Of("key") \/ j = n)
  <2>1. (i \in Of("key") \/ i = n) /\ (j \in Of("key") \/ j = n)
    BY <1>1
  <2>2. n \in Nat /\ j \in Nat /\ j <= n
    BY <1>1, <2>1
  <2>3. i # n
    BY <1>2, <2>2
  <2> QED  BY <2>1, <2>3
<1>3. (* A first version is the first of its key. *)
      e.version = 1 => VersionsOf(e.key) = {} /\ Enrollable(e)
  BY <1>0, NoCurrent DEF IInv, Fits, Enrollable
<1>4. (* Any other version follows the newest. *)
      e.version # 1 => \E m \in Newest(VersionsOf(e.key)) : Follows(log[m], e)
  BY FitsNewest
<1>5. (* What is known of the versions a new one follows. *)
      ASSUME NEW i \in Of("key"), log[i].key = e.key
      PROVE  /\ log[i].actor = e.actor /\ log[i].kind = e.kind /\ log[i].version < e.version
             /\ log[i].status # "ACTIVE" => e.status = "REVOKED" /\ e.compromised /\ ~log[i].compromised
  <2>1. i \in VersionsOf(e.key)
    BY <1>5 DEF VersionsOf
  <2>2. PICK m \in Newest(VersionsOf(e.key)) : Follows(log[m], e)
    BY <1>3, <1>4, <2>1
  <2>3. m \in Of("key") /\ log[m].key = e.key /\ i <= m
    BY <2>1, <2>2 DEF Newest, VersionsOf
  <2>4. /\ e.actor = log[m].actor /\ e.kind = log[m].kind /\ e.version = log[m].version + 1
        /\ MayTransition(log[m], e.compromised) /\ (e.compromised => e.status = "REVOKED")
    BY <2>2 DEF Follows
  <2>5. log[i].version \in Nat /\ log[m].version \in Nat /\ i \in Nat /\ m \in Nat
    BY <1>0, <2>3, AllAreKeys DEF KeyVersions
  <2>6. log[i].actor = log[m].actor /\ log[i].kind = log[m].kind
    BY <1>5, <2>3 DEF IInv, OneOwner
  <2>7. i = m \/ (i < m /\ log[i].version < log[m].version)
    BY <1>5, <2>3, <2>5 DEF IInv, VersionsRise
  <2>8. log[i].version < e.version
    BY <2>4, <2>5, <2>7
  <2>9. ASSUME log[i].status # "ACTIVE"
        PROVE  e.status = "REVOKED" /\ e.compromised /\ ~log[i].compromised
    <3>1. CASE i = m
      BY <2>4, <2>9, <3>1 DEF MayTransition
    <3>2. CASE i < m
      <4>1. log[m].status = "REVOKED" /\ log[m].compromised
        BY <1>5, <2>3, <2>9, <3>2 DEF IInv, NoResurrection
      <4> QED  BY <2>4, <4>1 DEF MayTransition
    <3> QED  BY <2>7, <3>1, <3>2
  <2> QED  BY <2>4, <2>6, <2>8, <2>9
<1>6. VersionsRise'
  <2>1. SUFFICES ASSUME NEW i \in Of("key")', NEW j \in Of("key")', i < j, log'[i].key = log'[j].key
                 PROVE  log'[i].version < log'[j].version
    BY DEF VersionsRise
  <2>2. i \in Of("key") /\ log'[i] = log[i]
    BY <1>1, <1>2, <2>1
  <2>3. CASE j = n
    BY <1>0, <1>5, <2>1, <2>2, <2>3 DEF n
  <2>4. CASE j \in Of("key")
    BY <1>1, <2>1, <2>2, <2>4 DEF IInv, VersionsRise
  <2> QED  BY <1>2, <2>1, <2>3, <2>4
<1>7. HasNewest'
  <2>1. SUFFICES ASSUME NEW k \in Keys, VersionsOf(k)' # {}
                 PROVE  \E m \in VersionsOf(k)' : \A j \in VersionsOf(k)' : j <= m
    BY DEF HasNewest, Newest
  <2>2. VersionsOf(k)' = {i \in Of("key")' : log'[i].key = k}
    BY DEF VersionsOf
  <2>3. CASE e.key = k
    <3>1. n \in VersionsOf(k)'
      BY <1>0, <1>1, <2>2, <2>3 DEF n
    <3>2. \A j \in Of("key")' : j <= n
      BY <1>1
    <3>3. \A j \in VersionsOf(k)' : j <= n
      BY <2>2, <3>2
    <3> QED  BY <3>1, <3>3
  <2>4. CASE e.key # k
    <3>1. n \notin VersionsOf(k)'
      BY <1>0, <2>2, <2>4 DEF n
    <3>2. VersionsOf(k)' = VersionsOf(k)
      BY <1>1, <2>2, <3>1 DEF VersionsOf
    <3> QED  BY <2>1, <3>2 DEF IInv, HasNewest, Newest
  <2> QED  BY <2>3, <2>4
<1>8. OneOwner'
  <2>a. log'[n].key = e.key /\ log'[n].actor = e.actor /\ log'[n].kind = e.kind
    BY <1>0 DEF n
  <2>1. ASSUME NEW i \in Of("key"), log[i].actor = e.actor
        PROVE  log[i].kind = e.kind
    <3>1. CASE e.version = 1
      BY <1>3, <2>1, <3>1 DEF Enrollable
    <3>2. CASE e.version # 1
      <4>1. PICK m \in Newest(VersionsOf(e.key)) : Follows(log[m], e)
        BY <1>4, <3>2
      <4>2. m \in Of("key") /\ log[m].actor = e.actor /\ log[m].kind = e.kind
        BY <4>1 DEF Newest, VersionsOf, Follows
      <4> QED  BY <2>1, <4>2 DEF IInv, OneOwner
    <3> QED  BY <3>1, <3>2
  <2>2. SUFFICES ASSUME NEW i \in Of("key")', NEW j \in Of("key")'
                 PROVE  /\ log'[i].key = log'[j].key => log'[i].actor = log'[j].actor
                        /\ log'[i].actor = log'[j].actor => log'[i].kind = log'[j].kind
    BY DEF OneOwner
  <2>3. CASE i \in Of("key") /\ j \in Of("key")
    <3>1. log'[i] = log[i] /\ log'[j] = log[j]
      BY <1>1, <2>3
    <3>2. /\ log[i].key = log[j].key => log[i].actor = log[j].actor
          /\ log[i].actor = log[j].actor => log[i].kind = log[j].kind
      BY <2>3 DEF IInv, OneOwner
    <3> QED  BY <3>1, <3>2
  <2>4. CASE i = n /\ j = n
    BY <2>4
  <2>5. CASE i \in Of("key") /\ j = n
    <3>1. log'[i] = log[i]
      BY <1>1, <2>5
    <3>2. /\ log[i].key = e.key => log[i].actor = e.actor
          /\ log[i].actor = e.actor => log[i].kind = e.kind
      BY <1>5, <2>1, <2>5
    <3> QED  BY <2>5, <2>a, <3>1, <3>2
  <2>6. CASE i = n /\ j \in Of("key")
    <3>1. log'[j] = log[j]
      BY <1>1, <2>6
    <3>2. /\ log[j].key = e.key => log[j].actor = e.actor
          /\ log[j].actor = e.actor => log[j].kind = e.kind
      BY <1>5, <2>1, <2>6
    <3> QED  BY <2>6, <2>a, <3>1, <3>2
  <2> QED  BY <1>1, <2>3, <2>4, <2>5, <2>6
<1>9. NoResurrection'
  <2>1. SUFFICES ASSUME NEW i \in Of("key")', NEW j \in Of("key")', i < j, log'[i].key = log'[j].key,
                        log'[i].status # "ACTIVE"
                 PROVE  log'[j].status = "REVOKED" /\ log'[j].compromised /\ ~log'[i].compromised
    BY DEF NoResurrection
  <2>2. i \in Of("key") /\ log'[i] = log[i]
    BY <1>1, <1>2, <2>1
  <2>3. CASE j = n
    BY <1>0, <1>5, <2>1, <2>2, <2>3 DEF n
  <2>4. CASE j \in Of("key")
    <3>1. log'[j] = log[j]
      BY <1>1, <2>4
    <3>2. log[j].status = "REVOKED" /\ log[j].compromised /\ ~log[i].compromised
      <4>1. log[i].key = log[j].key /\ log[i].status # "ACTIVE"
        BY <2>1, <2>2, <3>1
      <4> QED  BY <2>1, <2>2, <2>4, <4>1 DEF IInv, NoResurrection
    <3> QED  BY <2>2, <3>1, <3>2
  <2> QED  BY <1>2, <2>1, <2>3, <2>4
<1>10. LogInherits'
  <2>1. SUFFICES ASSUME NEW i \in Of("key")', log'[i].supersedes # NoKey
                 PROVE  \E j \in Of("key")' : log'[j].key = log'[i].supersedes /\ log'[j].actor = log'[i].actor
    BY DEF LogInherits, Inherits
  <2>2. CASE i = n
    BY <1>0, <1>1, <2>1, <2>2 DEF Inherits, n
  <2>3. CASE i \in Of("key")
    <3>1. log'[i] = log[i]
      BY <1>1, <2>3
    <3>2. PICK j \in Of("key") : log[j].key = log[i].supersedes /\ log[j].actor = log[i].actor
      BY <2>1, <2>3, <3>1 DEF IInv, LogInherits, Inherits
    <3>3. j \in Of("key")' /\ log'[j] = log[j]
      BY <1>1
    <3> QED  BY <3>1, <3>2, <3>3
  <2> QED  BY <1>1, <2>2, <2>3
<1>11. SuccessorFirst'
  <2>1. SUFFICES ASSUME NEW i \in Of("key")', log'[i].status = "RETIRED"
                 PROVE  \E j \in Of("key")' : j < i /\ log'[j].supersedes = log'[i].key
                                               /\ log'[j].actor = log'[i].actor
    BY DEF SuccessorFirst
  <2>2. CASE i = n
    BY <1>0, <1>1, <2>1, <2>2 DEF Replaced, n
  <2>3. CASE i \in Of("key")
    <3>1. log'[i] = log[i]
      BY <1>1, <2>3
    <3>2. PICK j \in Of("key") : j < i /\ log[j].supersedes = log[i].key /\ log[j].actor = log[i].actor
      BY <2>1, <2>3, <3>1 DEF IInv, SuccessorFirst
    <3>3. j \in Of("key")' /\ log'[j] = log[j]
      BY <1>1
    <3> QED  BY <3>1, <3>2, <3>3
  <2> QED  BY <1>1, <2>2, <2>3
<1> QED  BY <1>6, <1>7, <1>8, <1>9, <1>10, <1>11

LEMMA WriteKeeps ==
  ASSUME IInv, NEW c \in Calls, NEW t \in 0 .. MaxTime, Write(c, t)
  PROVE  IInv'
<1> DEFINE e == todo[c][1]
           s == Stamped(e, t)
<1>1. /\ log \in Seq(KeyVersions) /\ todo[c] \in Seq(KeyVersions) /\ todo[c] # <<>>
      /\ todo \in [Calls -> Seq(KeyVersions)] /\ retiring \in [Calls -> Keys \cup {NoKey}]
      /\ reported \subseteq Keys /\ t \in Nat
  BY KeyConstants DEF IInv, TypeOK, Write, Ready
<1>2. Head(todo[c]) = e /\ e \in KeyVersions /\ Len(todo[c]) \in Nat
  BY <1>1
<1>3. Len(todo[c]) = 1 /\ DecidedOn(e) /\ Inherits(e) /\ Replaced(e)
  BY <1>1 DEF IInv, CallsSound, Sound
<1>4. Tail(todo[c]) = <<>>
  <2>1. Tail(todo[c]) \in Seq(KeyVersions) /\ Len(Tail(todo[c])) = 0
    BY <1>1, <1>3
  <2> QED  BY <2>1, EmptySeq
<1>5. Fits(e) /\ log' = Append(log, s) /\ todo' = [todo EXCEPT ![c] = <<>>] /\ retiring' = retiring
      /\ reported' = reported \cup Reports(e)
  BY <1>2, <1>4 DEF Write
<1>6. /\ s \in KeyVersions /\ s.key = e.key /\ s.version = e.version /\ s.actor = e.actor
      /\ s.kind = e.kind /\ s.status = e.status /\ s.compromised = e.compromised
      /\ s.supersedes = e.supersedes
  BY <1>1, <1>2, StampedFields
<1> HIDE DEF s
<1>7. VersionsRise' /\ HasNewest' /\ LogInherits' /\ OneOwner' /\ NoResurrection' /\ SuccessorFirst'
  BY <1>2, <1>3, <1>5, <1>6, AppendKeeps
<1>8. TypeOK'
  <2>1. log' \in Seq(KeyVersions)
    BY <1>1, <1>5, <1>6, AppendFacts
  <2>2. <<>> \in Seq(KeyVersions)
    OBVIOUS
  <2>3. todo' \in [Calls -> Seq(KeyVersions)]
    BY <1>1, <1>5, <2>2
  <2>4. reported' \subseteq Keys
    BY <1>1, <1>2, <1>5 DEF Reports, KeyVersions
  <2> QED  BY <1>1, <1>5, <2>1, <2>3, <2>4 DEF TypeOK
<1>9. CallsSound'
  <2>1. SUFFICES ASSUME NEW x \in Calls PROVE Sound(todo[x], retiring[x])'
    BY DEF CallsSound
  <2>2. Sound(todo[x], retiring[x]) /\ retiring'[x] = retiring[x]
    BY <1>5 DEF IInv, CallsSound
  <2>3. \A i \in Of("key") : i \in Of("key")' /\ log'[i] = log[i]
    BY <1>1, <1>5, <1>6, AppendFacts
  <2>4. CASE x = c
    <3>1. todo'[x] = <<>>
      BY <1>1, <1>5, <2>4
    <3>2. ASSUME retiring[x] # NoKey
          PROVE  \E j \in Of("key")' : log'[j].supersedes = retiring[x]
      <4>1. s.supersedes = retiring[x]
        BY <1>1, <1>6, <2>2, <2>4, <3>2 DEF Sound
      <4>2. Len(log) + 1 \in Of("key")' /\ log'[Len(log) + 1] = s
        BY <1>1, <1>5, <1>6, AppendFacts
      <4> QED  BY <4>1, <4>2
    <3> QED  BY <2>2, <3>1, <3>2 DEF Sound
  <2>5. CASE x # c
    <3> DEFINE d == todo[x][1]
    <3>1. todo'[x] = todo[x]
      BY <1>1, <1>5, <2>5
    <3>2. ASSUME todo[x] # <<>>
          PROVE  /\ Len(todo[x]) = 1
                 /\ FirstVersion(d) \/ \E i \in Of("key")' : Follows(log'[i], d)
                 /\ d.supersedes # NoKey =>
                      \E i \in Of("key")' : log'[i].key = d.supersedes /\ log'[i].actor = d.actor
                 /\ d.status = "RETIRED" =>
                      \E j \in Of("key")' : log'[j].supersedes = d.key /\ log'[j].actor = d.actor
      <4>1. Len(todo[x]) = 1 /\ DecidedOn(d) /\ Inherits(d) /\ Replaced(d)
        BY <2>2, <3>2 DEF Sound
      <4> QED  BY <1>1, <1>5, <1>6, <4>1, Stays
    <3>3. ASSUME retiring[x] # NoKey
          PROVE  IF todo[x] = <<>> THEN \E j \in Of("key")' : log'[j].supersedes = retiring[x]
                 ELSE todo[x][1].version = 1 /\ todo[x][1].supersedes = retiring[x]
      BY <2>2, <2>3, <3>3 DEF Sound
    <3> QED  BY <2>2, <3>1, <3>2, <3>3 DEF Sound, DecidedOn, Inherits, Replaced, FirstVersion, Follows, MayTransition
  <2> QED  BY <2>4, <2>5
<1> QED  BY <1>7, <1>8, <1>9 DEF IInv

(* A call's event, when there is one, is alone. *)
LEMMA OneEvent ==
  ASSUME NEW e \in KeyVersions
  PROVE  /\ <<e>> \in Seq(KeyVersions) /\ <<e>> # <<>> /\ Len(<<e>>) = 1 /\ <<e>>[1] = e
         /\ <<>> \in Seq(KeyVersions)
OBVIOUS

(* A call decides on one event, or on none, and perhaps to retire a key. *)
LEMMA CallKeeps ==
  ASSUME IInv, log' = log, NEW c \in Calls, NEW events \in Seq(KeyVersions), NEW k \in Keys \cup {NoKey},
         todo' = [todo EXCEPT ![c] = events], retiring' = [retiring EXCEPT ![c] = k],
         reported' \subseteq Keys, Sound(events, k)
  PROVE  IInv'
<1>1. /\ log \in Seq(KeyVersions) /\ todo \in [Calls -> Seq(KeyVersions)]
      /\ retiring \in [Calls -> Keys \cup {NoKey}]
  BY DEF IInv, TypeOK
<1>2. todo' \in [Calls -> Seq(KeyVersions)] /\ retiring' \in [Calls -> Keys \cup {NoKey}]
  BY <1>1
<1>3. /\ todo'[c] = events /\ retiring'[c] = k
      /\ \A x \in Calls : x # c => todo'[x] = todo[x] /\ retiring'[x] = retiring[x]
  BY <1>1
<1>4. TypeOK'
  BY <1>1, <1>2 DEF TypeOK
<1> QED  BY <1>3, <1>4, QuietKeeps

LEMMA Unchanged ==
  ASSUME IInv, NEW c \in Calls
  PROVE  /\ retiring' = retiring => retiring' = [retiring EXCEPT ![c] = retiring[c]]
         /\ todo' = todo => todo' = [todo EXCEPT ![c] = todo[c]]
         /\ retiring[c] \in Keys \cup {NoKey} /\ todo[c] \in Seq(KeyVersions)
         /\ log \in Seq(KeyVersions) /\ reported \subseteq Keys
BY DEF IInv, TypeOK

LEMMA EnrollKeeps ==
  ASSUME IInv, NEW c \in Calls, NEW a \in Actors, NEW kind \in Kinds, NEW k \in Keys, Enroll(c, a, kind, k)
  PROVE  IInv'
<1> DEFINE e == Enrollment(k, a, kind, NoKey)
<1>1. /\ log' = log /\ todo' = [todo EXCEPT ![c] = <<e>>] /\ retiring' = retiring /\ reported' = reported
      /\ retiring[c] = NoKey
  BY DEF Enroll, Idle, Decide
<1>2. e \in KeyVersions /\ FirstVersion(e) /\ e.supersedes = NoKey /\ e.status # "RETIRED"
  BY DEF Enrollment, KeyVersions, KeyStatuses, FirstVersion
<1>3. DecidedOn(e) /\ Inherits(e) /\ Replaced(e)
  BY <1>2 DEF DecidedOn, Inherits, Replaced
<1> HIDE DEF e
<1>4. Sound(<<e>>, retiring[c])
  BY <1>1, <1>2, <1>3, OneEvent DEF Sound
<1> QED  BY <1>1, <1>2, <1>4, OneEvent, Unchanged, CallKeeps

LEMMA RotateKeeps ==
  ASSUME IInv, NEW c \in Calls, NEW a \in Actors, NEW new \in Keys, Rotate(c, a, new)
  PROVE  IInv'
<1>0. PICK old \in NewestActive(a) : \E r \in Current(old) :
        /\ Decide(c, <<Enrollment(new, a, r.kind, old)>>)
        /\ retiring' = [retiring EXCEPT ![c] = old] /\ reported' = reported
  BY DEF Rotate
<1>1. PICK r \in Current(old) :
        /\ Decide(c, <<Enrollment(new, a, r.kind, old)>>)
        /\ retiring' = [retiring EXCEPT ![c] = old] /\ reported' = reported
  BY <1>0
<1> DEFINE e == Enrollment(new, a, r.kind, old)
<1>2. old \in Keys /\ \E q \in Current(old) : q.actor = a
  BY DEF NewestActive, ActiveKeys
<1>3. PICK i \in Of("key") : log[i].key = old /\ log[i].actor = a
  BY <1>2, CurrentRecord DEF IInv, TypeOK
<1>4. r.kind \in Kinds
  BY CurrentRecord DEF IInv, TypeOK, KeyVersions
<1>5. /\ e \in KeyVersions /\ FirstVersion(e) /\ e.supersedes = old /\ e.actor = a
      /\ e.status # "RETIRED" /\ e.version = 1
  BY <1>2, <1>4 DEF Enrollment, KeyVersions, KeyStatuses, FirstVersion
<1>6. DecidedOn(e) /\ Inherits(e) /\ Replaced(e)
  BY <1>3, <1>5 DEF DecidedOn, Inherits, Replaced
<1>7. log' = log /\ todo' = [todo EXCEPT ![c] = <<e>>]
  BY <1>1 DEF Decide
<1> HIDE DEF e
<1>8. Sound(<<e>>, old)
  BY <1>5, <1>6, OneEvent DEF Sound
<1> QED  BY <1>1, <1>2, <1>5, <1>7, <1>8, OneEvent, Unchanged, CallKeeps

LEMMA RotateAgainKeeps ==
  ASSUME IInv, NEW c \in Calls, NEW a \in Actors, NEW new \in Keys, RotateAgain(c, a, new)
  PROVE  IInv'
<1>1. PICK n \in Current(new) :
        /\ Idle(c) /\ n.supersedes # NoKey /\ retiring' = [retiring EXCEPT ![c] = n.supersedes]
        /\ log' = log /\ todo' = todo /\ reported' = reported
  BY DEF RotateAgain
<1>2. PICK i \in Of("key") : log[i] = n
  BY CurrentRecord DEF IInv, TypeOK
<1>3. n.supersedes \in Keys
  BY <1>1, CurrentRecord DEF IInv, TypeOK, KeyVersions
<1>4. Sound(todo[c], n.supersedes) /\ todo[c] = <<>>
  BY <1>1, <1>2 DEF Sound, Idle
<1> QED  BY <1>1, <1>3, <1>4, Unchanged, CallKeeps

(* What a change of a key's status is decided on. *)
LEMMA TransitionDecided ==
  ASSUME IInv, NEW k \in Keys, NEW r \in Current(k), NEW status \in {"RETIRED", "REVOKED"},
         NEW compromised \in BOOLEAN, MayTransition(r, compromised), compromised => status = "REVOKED",
         NEW e, e = Transitioned(r, status, compromised)
  PROVE  /\ e \in KeyVersions /\ DecidedOn(e) /\ Inherits(e) /\ e.key = k /\ e.actor = r.actor
         /\ e.status = status /\ e.compromised = compromised
<1>1. PICK i \in Of("key") : log[i] = r
  BY CurrentRecord DEF IInv, TypeOK
<1>2. r \in KeyVersions /\ r.key = k
  BY CurrentRecord DEF IInv, TypeOK
<1>3. /\ e \in KeyVersions /\ e.key = r.key /\ e.version = r.version + 1 /\ e.actor = r.actor
      /\ e.kind = r.kind /\ e.status = status /\ e.compromised = compromised /\ e.supersedes = r.supersedes
  BY <1>2, TransitionedFields
<1>4. Follows(r, e)
  BY <1>3 DEF Follows
<1>5. DecidedOn(e)
  BY <1>1, <1>4 DEF DecidedOn
<1>6. Inherits(r)
  BY <1>1 DEF IInv, LogInherits
<1>7. Inherits(e)
  BY <1>3, <1>6 DEF Inherits
<1> QED  BY <1>2, <1>3, <1>5, <1>7

(* The key a rotation retires has been replaced for its own actor. *)
LEMMA RetireKeeps ==
  ASSUME IInv, NEW c \in Calls, Retire(c)
  PROVE  IInv'
<1>1. PICK r \in Current(retiring[c]) :
        IF MayTransition(r, FALSE) THEN Decide(c, <<Transitioned(r, "RETIRED", FALSE)>>)
        ELSE log' = log /\ todo' = todo
  BY DEF Retire
<1>2. /\ todo[c] = <<>> /\ retiring[c] # NoKey /\ retiring' = [retiring EXCEPT ![c] = NoKey]
      /\ reported' = reported /\ retiring[c] \in Keys
  BY Unchanged DEF Retire
<1>3. CASE MayTransition(r, FALSE)
  <2> DEFINE e == Transitioned(r, "RETIRED", FALSE)
  <2>1. /\ e \in KeyVersions /\ DecidedOn(e) /\ Inherits(e)
        /\ e.key = retiring[c] /\ e.actor = r.actor
    <3>1. \A status \in {"RETIRED", "REVOKED"}, compromised \in BOOLEAN :
            MayTransition(r, compromised) /\ (compromised => status = "REVOKED") =>
              LET d == Transitioned(r, status, compromised)
              IN  /\ d \in KeyVersions /\ DecidedOn(d) /\ Inherits(d)
                  /\ d.key = retiring[c] /\ d.actor = r.actor
      BY <1>2, TransitionDecided
    <3> QED  BY <1>3, <3>1
  <2>2. PICK j \in Of("key") : log[j].supersedes = retiring[c]
    BY <1>2 DEF IInv, CallsSound, Sound
  <2>3. PICK i \in Of("key") : log[i].key = retiring[c] /\ log[i].actor = log[j].actor
    BY <1>2, <2>2 DEF IInv, LogInherits, Inherits
  <2>4. PICK p \in Of("key") : log[p] = r /\ r.key = retiring[c]
    BY CurrentRecord DEF IInv, TypeOK
  <2>5. r.actor = log[j].actor
    BY <2>3, <2>4 DEF IInv, OneOwner
  <2>6. Replaced(e)
    BY <2>1, <2>2, <2>5 DEF Replaced
  <2>7. log' = log /\ todo' = [todo EXCEPT ![c] = <<e>>]
    BY <1>1, <1>3 DEF Decide
  <2> HIDE DEF e
  <2>8. Sound(<<e>>, NoKey)
    BY <2>1, <2>6, OneEvent DEF Sound
  <2> QED  BY <1>2, <2>1, <2>7, <2>8, OneEvent, Unchanged, CallKeeps
<1>4. CASE ~MayTransition(r, FALSE)
  <2>1. Sound(todo[c], NoKey) /\ log' = log /\ todo' = todo
    BY <1>1, <1>2, <1>4 DEF Sound
  <2> QED  BY <1>2, <2>1, Unchanged, CallKeeps
<1> QED  BY <1>3, <1>4

LEMMA RevokeKeeps ==
  ASSUME IInv, NEW c \in Calls, NEW k \in Keys, NEW compromised \in BOOLEAN, Revoke(c, k, compromised)
  PROVE  IInv'
<1>1. PICK r \in Current(k) :
        /\ Idle(c) /\ MayTransition(r, compromised)
        /\ Decide(c, <<Transitioned(r, "REVOKED", compromised)>>)
        /\ retiring' = retiring /\ reported' = reported
  BY DEF Revoke
<1> DEFINE e == Transitioned(r, "REVOKED", compromised)
<1>2. e \in KeyVersions /\ DecidedOn(e) /\ Inherits(e) /\ e.status = "REVOKED"
  BY <1>1, TransitionDecided
<1>3. Replaced(e) /\ log' = log /\ todo' = [todo EXCEPT ![c] = <<e>>] /\ retiring[c] = NoKey
  BY <1>1, <1>2 DEF Replaced, Decide, Idle
<1> HIDE DEF e
<1>4. Sound(<<e>>, retiring[c])
  BY <1>2, <1>3, OneEvent DEF Sound
<1> QED  BY <1>1, <1>2, <1>3, <1>4, OneEvent, Unchanged, CallKeeps

(* A rotation whose new key is enrolled already goes on to retire the old. *)
LEMMA FindSettledKeeps ==
  ASSUME IInv, NEW c \in Calls, FindSettled(c)
  PROVE  IInv'
<1> DEFINE e == todo[c][1]
<1>1. /\ todo[c] # <<>> /\ todo[c] \in Seq(KeyVersions) /\ Head(todo[c]) = e /\ e \in KeyVersions
  <2>1. todo[c] # <<>> /\ todo[c] \in Seq(KeyVersions)
    BY Unchanged DEF FindSettled, Ready
  <2> QED  BY <2>1
<1>2. Settled(e) /\ log' = log /\ todo' = [todo EXCEPT ![c] = <<>>] /\ retiring' = retiring
      /\ reported' = reported \cup Reports(e)
  BY <1>1 DEF FindSettled, GiveUp
<1>3. reported' \subseteq Keys
  BY <1>1, <1>2, Unchanged DEF Reports, KeyVersions
<1>4. ASSUME retiring[c] # NoKey
      PROVE  \E j \in Of("key") : log[j].supersedes = retiring[c]
  <2>1. e.version = 1 /\ e.supersedes = retiring[c]
    BY <1>1, <1>4 DEF IInv, CallsSound, Sound
  <2>2. PICK r \in Current(e.key) : r.supersedes = e.supersedes
    BY <1>2, <2>1 DEF Settled
  <2> QED  BY <2>1, <2>2, CurrentRecord DEF IInv, TypeOK
<1>5. Sound(<<>>, retiring[c]) /\ <<>> \in Seq(KeyVersions)
  BY <1>4 DEF Sound
<1> QED  BY <1>2, <1>3, <1>5, Unchanged, CallKeeps

LEMMA FailKeeps ==
  ASSUME IInv, NEW c \in Calls, Fail(c)
  PROVE  IInv'
<1>1. Sound(<<>>, NoKey) /\ <<>> \in Seq(KeyVersions)
  BY DEF Sound
<1> QED  BY <1>1, Unchanged, CallKeeps DEF Fail

LEMMA StepKeeps == IInv /\ [Next]_vars => IInv'
<1> SUFFICES ASSUME IInv, [Next]_vars PROVE IInv'
  OBVIOUS
<1>1. ASSUME NEW c \in Calls, Command(c)
      PROVE  IInv'
  BY <1>1, EnrollKeeps, RotateKeeps, RotateAgainKeeps, RetireKeeps, RevokeKeeps DEF Command
<1>2. ASSUME NEW c \in Calls, NEW t \in 0 .. MaxTime, Write(c, t)
      PROVE  IInv'
  BY <1>2, WriteKeeps
<1>3. ASSUME NEW c \in Calls, FindSettled(c) \/ Fail(c)
      PROVE  IInv'
  BY <1>3, FindSettledKeeps, FailKeeps
<1>4. CASE UNCHANGED vars
  <2>1. log' = log /\ todo' = todo /\ retiring' = retiring /\ reported' = reported
    BY <1>4 DEF vars
  <2>2. Of("key")' = Of("key") /\ \A k : VersionsOf(k)' = VersionsOf(k)
    BY <2>1 DEF Of, VersionsOf
  <2>3. VersionsRise' /\ HasNewest' /\ OneOwner' /\ NoResurrection' /\ SuccessorFirst'
    BY <2>1, <2>2 DEF IInv, VersionsRise, HasNewest, Newest, OneOwner, NoResurrection, SuccessorFirst
  <2>4. LogInherits' /\ CallsSound'
    BY <2>1, <2>2 DEF IInv, LogInherits, Inherits, CallsSound, Sound, DecidedOn, Replaced, Follows,
                      FirstVersion, MayTransition
  <2>5. TypeOK'
    BY <2>1 DEF IInv, TypeOK
  <2> QED  BY <2>3, <2>4, <2>5 DEF IInv
<1> QED  BY <1>1, <1>2, <1>3, <1>4 DEF Next

-----------------------------------------------------------------------------
(***************************************************************************)
(* The results.                                                            *)
(***************************************************************************)
(* The strengthening is an invariant. *)
THEOREM KeyInvariant == Spec => []IInv
BY InitKeeps, StepKeeps, PTL DEF Spec

(* Every key version decided or recorded is well typed. *)
THEOREM TypeCorrect == Spec => []TypeOK
<1>1. IInv => TypeOK
  BY DEF IInv
<1> QED  BY <1>1, KeyInvariant, PTL

(* One owner per public key and one kind per actor, however many processes *)
(* enroll and rotate at once. *)
THEOREM KeysHaveOneOwner == Spec => []OneOwner
<1>1. IInv => OneOwner
  BY DEF IInv
<1> QED  BY <1>1, KeyInvariant, PTL

(* A key that is out of use stays out of use, but for one later version    *)
(* that says it was compromised. *)
THEOREM KeysStayOutOfUse == Spec => []NoResurrection
<1>1. IInv => NoResurrection
  BY DEF IInv
<1> QED  BY <1>1, KeyInvariant, PTL

(* No key is retired before one that replaces it is enrolled for the same  *)
(* actor, wherever rotations crash and however they are completed. *)
THEOREM KeysAreReplacedFirst == Spec => []SuccessorFirst
<1>1. IInv => SuccessorFirst
  BY DEF IInv
<1> QED  BY <1>1, KeyInvariant, PTL
-----------------------------------------------------------------------------
(***************************************************************************)
(* The limit on active keys.  An enrollment is let in under the lock while *)
(* the actor has room; any other version only takes a key out of use.  The *)
(* sets that are counted are finite because the log is, which is carried   *)
(* along with the limit.                                                   *)
(***************************************************************************)
ActiveSet(a, i) == {k \in Keys : ActiveAt(k, i) /\ \E j \in VersionsOf(k) : log[j].actor = a}

Within == \A i \in 0 .. Len(log), a \in Actors :
  IsFiniteSet(ActiveSet(a, i)) /\ Cardinality(ActiveSet(a, i)) <= MaxActive

(* What is active at the end of the log is what is counted under the lock. *)
LEMMA ActiveAtTheEnd ==
  ASSUME log \in Seq(KeyVersions), OneOwner, NEW a \in Actors
  PROVE  ActiveSet(a, Len(log)) = ActiveKeys(a)
<1>1. Of("key") = 1 .. Len(log) /\ Len(log) \in Nat /\ \A i \in Of("key") : i \in Nat
  BY AllAreKeys
<1>2. ASSUME NEW k \in Keys, ActiveAt(k, Len(log)), NEW j \in VersionsOf(k), log[j].actor = a
      PROVE  \E r \in Current(k) : r.actor = a /\ r.status = "ACTIVE"
  <2>1. PICK m \in VersionsOf(k) : log[m].status = "ACTIVE" /\ \A q \in VersionsOf(k) : q <= m \/ Len(log) < q
    BY <1>2 DEF ActiveAt
  <2>2. m \in Newest(VersionsOf(k))
    BY <1>1, <2>1 DEF Newest, VersionsOf
  <2>3. log[m].actor = a
    BY <1>2 DEF OneOwner, VersionsOf
  <2> QED  BY <2>1, <2>2, <2>3 DEF Current
<1>3. ASSUME NEW k \in Keys, NEW r \in Current(k), r.actor = a, r.status = "ACTIVE"
      PROVE  ActiveAt(k, Len(log)) /\ \E j \in VersionsOf(k) : log[j].actor = a
  <2>1. PICK m \in Newest(VersionsOf(k)) : log[m] = r
    BY DEF Current
  <2>2. m \in VersionsOf(k) /\ m <= Len(log) /\ \A q \in VersionsOf(k) : q <= m
    BY <1>1, <2>1 DEF Newest, VersionsOf
  <2> QED  BY <1>3, <2>1, <2>2 DEF ActiveAt
<1> QED  BY <1>2, <1>3 DEF ActiveSet, ActiveKeys

LEMMA AppendStaysWithin ==
  ASSUME IInv, Within, NEW e \in KeyVersions, Fits(e), DecidedOn(e),
         NEW s \in KeyVersions, log' = Append(log, s),
         s.key = e.key, s.version = e.version, s.actor = e.actor, s.status = e.status
  PROVE  Within'
<1>0. Len(log) + 1 \in Nat
  BY DEF IInv, TypeOK
<1> PICK n \in Nat : n = Len(log) + 1
  BY <1>0
<1>1. /\ log \in Seq(KeyVersions) /\ Len(log) \in Nat /\ log'[n] = s /\ n \in Of("key")'
      /\ \A i \in Of("key") : i \in Of("key")' /\ i \in Nat /\ i < n /\ log'[i] = log[i]
      /\ \A i \in Of("key")' : i \in Of("key") \/ i = n
      /\ Len(log') = n /\ e.key \in Keys /\ e.actor \in Actors
  <2>1. log \in Seq(KeyVersions) /\ e.key \in Keys /\ e.actor \in Actors
    BY DEF IInv, TypeOK, KeyVersions
  <2>2. Len(log') = n
    BY <2>1
  <2> QED  BY <2>1, <2>2, AppendFacts
<1>2. n - 1 = Len(log) /\ Len(log) \in 0 .. Len(log)
  BY <1>1
<1>3. \A k : VersionsOf(k)' = IF k = e.key THEN VersionsOf(k) \cup {n} ELSE VersionsOf(k)
  BY <1>1 DEF VersionsOf
<1>4. \A k : \A j \in VersionsOf(k) : j \in Nat /\ j < n /\ log'[j] = log[j] /\ j \in VersionsOf(k)'
  BY <1>1, <1>3 DEF VersionsOf
<1>5. (* The versions of a key agree on the actor. *)
      \A i \in VersionsOf(e.key) : log[i].actor = e.actor
  <2>1. SUFFICES ASSUME NEW i \in VersionsOf(e.key) PROVE log[i].actor = e.actor
    OBVIOUS
  <2>2. CASE e.version = 1
    BY <1>1, <2>1, <2>2, NoCurrent DEF Fits, Enrollable, IInv
  <2>3. CASE e.version # 1
    <3>1. PICK m \in Newest(VersionsOf(e.key)) : Follows(log[m], e)
      BY <2>3, FitsNewest
    <3> QED  BY <3>1 DEF Newest, VersionsOf, Follows, IInv, OneOwner
  <2> QED  BY <2>2, <2>3
<1>6. (* The past does not change. *)
      ASSUME NEW i \in 0 .. Len(log), NEW a \in Actors
      PROVE  ActiveSet(a, i)' = ActiveSet(a, i)
  <2>0. i \in Nat /\ i < n
    BY <1>1, <1>2
  <2>1. ASSUME NEW k \in Keys
        PROVE  ActiveAt(k, i)' <=> ActiveAt(k, i)
    <3>1. ActiveAt(k, i)' <=> \E j \in VersionsOf(k)' : j <= i /\ log'[j].status = "ACTIVE"
                                  /\ \A m \in VersionsOf(k)' : m <= j \/ i < m
      BY DEF ActiveAt
    <3>2. /\ VersionsOf(k)' \subseteq VersionsOf(k) \cup {n} /\ VersionsOf(k) \subseteq VersionsOf(k)'
          /\ \A j \in VersionsOf(k) : log'[j] = log[j]
      BY <1>3, <1>4
    <3>3. i < n /\ ~(n <= i)
      BY <2>0
    <3> QED  BY <3>1, <3>2, <3>3 DEF ActiveAt
  <2>2. ASSUME NEW k \in Keys, ActiveAt(k, i)
        PROVE  (\E j \in VersionsOf(k)' : log'[j].actor = a) <=> \E j \in VersionsOf(k) : log[j].actor = a
    <3>1. PICK m \in VersionsOf(k) : TRUE
      BY <2>2 DEF ActiveAt
    <3>2. ASSUME k = e.key, s.actor = a
          PROVE  log[m].actor = a
      BY <1>5, <3>1, <3>2
    <3> QED  BY <1>1, <1>3, <1>4, <3>1, <3>2
  <2> QED  BY <2>1, <2>2 DEF ActiveSet
<1>7. (* Who is active now was active before, or is enrolled just now. *)
      ASSUME NEW a \in Actors
      PROVE  ActiveSet(a, n)' \subseteq
               ActiveSet(a, Len(log)) \cup (IF e.version = 1 /\ e.actor = a THEN {e.key} ELSE {})
  <2>1. SUFFICES ASSUME NEW k \in Keys, ActiveAt(k, n)', \E j \in VersionsOf(k)' : log'[j].actor = a
                 PROVE  k \in ActiveSet(a, Len(log)) \/ (e.version = 1 /\ e.actor = a /\ k = e.key)
    BY DEF ActiveSet
  <2>2. PICK j \in VersionsOf(k)' : j <= n /\ log'[j].status = "ACTIVE" /\ \A m \in VersionsOf(k)' : m <= j \/ n < m
    BY <2>1 DEF ActiveAt
  <2>3. CASE k # e.key
    <3>1. VersionsOf(k)' = VersionsOf(k)
      BY <1>3, <2>3
    <3>a. j \in VersionsOf(k) /\ j \in Nat /\ j < n /\ log'[j] = log[j]
      BY <1>4, <2>2, <3>1
    <3>b. \A m \in VersionsOf(k) : m \in Nat /\ m < n /\ (m <= j \/ n < m)
      BY <1>4, <2>2, <3>1
    <3>c. \A m \in VersionsOf(k) : m <= j
      BY <3>b
    <3>2. j \in VersionsOf(k) /\ log[j].status = "ACTIVE" /\ j <= Len(log)
          /\ \A m \in VersionsOf(k) : m <= j \/ Len(log) < m
      BY <1>1, <1>2, <2>2, <3>a, <3>c
    <3>3. \E q \in VersionsOf(k) : log[q].actor = a
      BY <1>4, <2>1, <3>1
    <3> QED  BY <3>2, <3>3 DEF ActiveSet, ActiveAt
  <2>4. CASE k = e.key
    <3>1. n \in VersionsOf(k)' /\ n \in Nat
      BY <1>2, <1>3, <2>4
    <3>2. j = n
      BY <1>1, <1>2, <1>3, <1>4, <2>2, <2>4, <3>1
    <3>3. e.status = "ACTIVE"
      BY <1>1, <2>2, <3>2
    <3>4. e.version = 1
      <4>1. \A i : Follows(log[i], e) => e.status # "ACTIVE"
        BY DEF Follows
      <4> QED  BY <3>3, <4>1 DEF DecidedOn, FirstVersion
    <3>5. VersionsOf(k) = {}
      BY <1>1, <2>4, <3>4, NoCurrent DEF Fits, Enrollable, IInv
    <3>6. VersionsOf(k)' = {n}
      BY <1>3, <2>4, <3>5
    <3>7. e.actor = a
      BY <1>1, <2>1, <3>6
    <3> QED  BY <2>4, <3>4, <3>7
  <2> QED  BY <2>3, <2>4
<1>8. ASSUME NEW a \in Actors
      PROVE  IsFiniteSet(ActiveSet(a, n)') /\ Cardinality(ActiveSet(a, n)') <= MaxActive
  <2> DEFINE before == ActiveSet(a, Len(log))
             after  == ActiveSet(a, n)'
  <2>1. IsFiniteSet(before) /\ Cardinality(before) <= MaxActive /\ Cardinality(before) \in Nat /\ MaxActive \in Nat
    <3>1. IsFiniteSet(before) /\ Cardinality(before) <= MaxActive
      BY <1>2 DEF Within
    <3> QED  BY <3>1, FS_CardinalityType, KeyConstants
  <2>2. CASE e.version = 1 /\ e.actor = a
    <3>1. before = ActiveKeys(a)
      BY <1>1, ActiveAtTheEnd DEF IInv
    <3>2. Cardinality(before) < MaxActive
      BY <2>2, <3>1 DEF Fits, Enrollable
    <3>3. after \in SUBSET (before \cup {e.key})
      BY <1>7, <2>2
    <3> HIDE DEF before, after
    <3>a. /\ IsFiniteSet(before \cup {e.key})
          /\ Cardinality(before \cup {e.key}) = IF e.key \in before THEN Cardinality(before) ELSE Cardinality(before) + 1
      BY <2>1, FS_AddElement
    <3>4. IsFiniteSet(before \cup {e.key}) /\ Cardinality(before \cup {e.key}) <= Cardinality(before) + 1
          /\ Cardinality(before \cup {e.key}) \in Nat
      BY <2>1, <3>a
    <3>5. IsFiniteSet(after) /\ Cardinality(after) <= Cardinality(before \cup {e.key}) /\ Cardinality(after) \in Nat
      BY <3>3, <3>4, FS_Subset, FS_CardinalityType
    <3>6. IsFiniteSet(after) /\ Cardinality(after) <= MaxActive
      BY <2>1, <3>2, <3>4, <3>5
    <3> QED  BY <3>6 DEF after
  <2>3. CASE ~(e.version = 1 /\ e.actor = a)
    <3>1. after \in SUBSET before
      BY <1>7, <2>3
    <3> HIDE DEF before, after
    <3>2. IsFiniteSet(after) /\ Cardinality(after) <= Cardinality(before) /\ Cardinality(after) \in Nat
      BY <2>1, <3>1, FS_Subset, FS_CardinalityType
    <3>3. IsFiniteSet(after) /\ Cardinality(after) <= MaxActive
      BY <2>1, <3>2
    <3> QED  BY <3>3 DEF after
  <2> QED  BY <2>2, <2>3
<1>9. ASSUME NEW i \in 0 .. Len(log'), NEW a \in Actors
      PROVE  IsFiniteSet(ActiveSet(a, i)') /\ Cardinality(ActiveSet(a, i)') <= MaxActive
  <2>1. i \in 0 .. Len(log) \/ i = n
    BY <1>1, <1>2
  <2>2. CASE i \in 0 .. Len(log)
    BY <1>6, <2>2 DEF Within
  <2>3. CASE i = n
    BY <1>8, <2>3
  <2> QED  BY <2>1, <2>2, <2>3
<1> QED  BY <1>9 DEF Within
(***************************************************************************)
(* History.  The first version of a key stays the first, and the time of a *)
(* later one is not before the last time in the log, so that it is not in  *)
(* force at any time before that.                                          *)
(***************************************************************************)
CompromisedIsRevoked == \A i \in Of("key") : log[i].compromised => log[i].status = "REVOKED"

SomeInForce ==
  \A k \in Keys, t \in 0 .. MaxTime : InForce(k, t) # {} => Newest(InForce(k, t)) # {}

Whole == IInv /\ Within /\ CompromisedIsRevoked /\ SomeInForce

(* What a call writes: the one event it has decided on, with its time. *)
LEMMA WriteFacts ==
  ASSUME IInv, NEW c \in Calls, NEW t \in 0 .. MaxTime, Write(c, t)
  PROVE  /\ todo[c] # <<>> /\ todo[c][1] \in KeyVersions /\ Fits(todo[c][1]) /\ DecidedOn(todo[c][1])
         /\ log' = Append(log, Stamped(todo[c][1], t)) /\ todo' = [todo EXCEPT ![c] = <<>>]
         /\ LastTime <= t /\ t \in Nat
<1>1. /\ todo[c] \in Seq(KeyVersions) /\ todo[c] # <<>> /\ t \in Nat
  BY KeyConstants DEF IInv, TypeOK, Write, Ready
<1>2. Head(todo[c]) = todo[c][1] /\ todo[c][1] \in KeyVersions /\ Len(todo[c]) \in Nat
  BY <1>1
<1>3. Len(todo[c]) = 1 /\ DecidedOn(todo[c][1])
  BY <1>1 DEF IInv, CallsSound, Sound
<1>4. Tail(todo[c]) = <<>>
  <2>1. Tail(todo[c]) \in Seq(KeyVersions) /\ Len(Tail(todo[c])) = 0
    BY <1>1, <1>3
  <2> QED  BY <2>1, EmptySeq
<1> QED  BY <1>1, <1>2, <1>3, <1>4 DEF Write

(* A command decides, and appends nothing yet. *)
LEMMA CommandLeavesLog == ASSUME NEW c \in Calls, Command(c) PROVE log' = log
BY DEF Command, Enroll, Rotate, RotateAgain, Retire, Revoke, Decide

LEMMA WriteKeepsWhole ==
  ASSUME Whole, NEW c \in Calls, NEW t \in 0 .. MaxTime, Write(c, t)
  PROVE  Within' /\ CompromisedIsRevoked' /\ SomeInForce'
<1>0. PICK e \in KeyVersions, s \in KeyVersions :
        /\ e = todo[c][1] /\ s = Stamped(e, t)
        /\ Fits(e) /\ DecidedOn(e) /\ log' = Append(log, s) /\ todo' = [todo EXCEPT ![c] = <<>>]
        /\ s.key = e.key /\ s.version = e.version /\ s.actor = e.actor /\ s.status = e.status
        /\ s.compromised = e.compromised
  BY WriteFacts, StampedFields DEF Whole
<1>1. Within'
  BY <1>0, AppendStaysWithin DEF Whole
<1>3. /\ log \in Seq(KeyVersions) /\ todo \in [Calls -> Seq(KeyVersions)] /\ e.key \in Keys
  BY DEF Whole, IInv, TypeOK, KeyVersions
<1>4. PICK n \in Nat : n = Len(log) + 1
  BY <1>3
<1>5. /\ log'[n] = s /\ n \in Of("key")'
      /\ \A i \in Of("key") : i \in Of("key")' /\ i < n /\ log'[i] = log[i]
      /\ \A i \in Of("key")' : i \in Of("key") \/ i = n
  BY <1>0, <1>3, <1>4, AppendFacts
<1>8. e.compromised => e.status = "REVOKED"
  <2>1. \A r : Follows(r, e) => (e.compromised => e.status = "REVOKED")
    BY DEF Follows
  <2> QED  BY <1>0, <2>1 DEF DecidedOn, FirstVersion
<1>9. CompromisedIsRevoked'
  <2>1. SUFFICES ASSUME NEW i \in Of("key")', log'[i].compromised PROVE log'[i].status = "REVOKED"
    BY DEF CompromisedIsRevoked
  <2>2. CASE i = n
    BY <1>0, <1>5, <1>8, <2>1, <2>2
  <2>3. CASE i \in Of("key")
    BY <1>5, <2>1, <2>3 DEF Whole, CompromisedIsRevoked
  <2> QED  BY <1>5, <2>2, <2>3
<1>10. SomeInForce'
  <2>1. SUFFICES ASSUME NEW k \in Keys, NEW u \in 0 .. MaxTime, InForce(k, u)' # {}
                 PROVE  \E m \in InForce(k, u)' : \A i \in InForce(k, u)' : i <= m
    BY DEF SomeInForce, Newest
  <2>2. /\ \A i : i \in InForce(k, u)' <=> i \in Of("key")' /\ log'[i].key = k /\ log'[i].time <= u
        /\ \A i : i \in InForce(k, u) <=> i \in Of("key") /\ log[i].key = k /\ log[i].time <= u
    BY DEF InForce, VersionsOf
  <2>3. \A i \in InForce(k, u)' : i \in InForce(k, u) \/ i = n
    BY <1>5, <2>2
  <2>4. \A i \in InForce(k, u) : i \in InForce(k, u)' /\ i \in Nat /\ i < n
    <3>1. Of("key") \subseteq Nat
      BY <1>3 DEF Of
    <3> QED  BY <1>5, <2>2, <3>1
  <2>5. CASE n \in InForce(k, u)'
    BY <1>4, <2>3, <2>4, <2>5
  <2>6. CASE n \notin InForce(k, u)'
    <3>1. InForce(k, u) # {}
      BY <2>1, <2>3, <2>6
    <3>2. PICK m \in InForce(k, u) : \A i \in InForce(k, u) : i <= m
      BY <3>1 DEF Whole, SomeInForce, Newest
    <3> QED  BY <2>3, <2>4, <2>6, <3>2
  <2> QED  BY <2>5, <2>6
<1> QED  BY <1>1, <1>9, <1>10

LEMMA WholeKeeps == Whole /\ [Next]_vars => Whole'
<1> SUFFICES ASSUME Whole, [Next]_vars PROVE Whole'
  OBVIOUS
<1>1. IInv'
  BY StepKeeps DEF Whole
<1>2. ASSUME log' = log
      PROVE  Within' /\ CompromisedIsRevoked' /\ SomeInForce' /\ Of("key")' = Of("key")
  <2>1. Of("key")' = Of("key") /\ \A k : VersionsOf(k)' = VersionsOf(k)
    BY <1>2 DEF Of, VersionsOf
  <2>2. ASSUME NEW a, NEW i PROVE ActiveSet(a, i)' = ActiveSet(a, i)
    BY <1>2, <2>1 DEF ActiveSet, ActiveAt
  <2>3. ASSUME NEW k, NEW t PROVE InForce(k, t)' = InForce(k, t)
    BY <1>2, <2>1 DEF InForce
  <2>4. SomeInForce'
    BY <2>3 DEF Whole, SomeInForce, Newest
  <2> QED  BY <1>2, <2>1, <2>2, <2>4 DEF Whole, Within, CompromisedIsRevoked
<1>3. ASSUME NEW c \in Calls, Command(c)
      PROVE  Within' /\ CompromisedIsRevoked' /\ SomeInForce'
  BY <1>2, <1>3, CommandLeavesLog
<1>4. ASSUME NEW c \in Calls, NEW t \in 0 .. MaxTime, Write(c, t)
      PROVE  Within' /\ CompromisedIsRevoked' /\ SomeInForce'
  BY <1>4, WriteKeepsWhole
<1>5. ASSUME log' = log
      PROVE  Within' /\ CompromisedIsRevoked' /\ SomeInForce'
  BY <1>2, <1>5
<1>6. ASSUME NEW c \in Calls, FindSettled(c) \/ Fail(c)
      PROVE  log' = log
  BY <1>6 DEF FindSettled, Fail, GiveUp
<1>7. CASE UNCHANGED vars
  <2>1. log' = log
    BY <1>7 DEF vars
  <2> QED  BY <1>1, <1>5, <2>1 DEF Whole
<1> QED  BY <1>1, <1>3, <1>4, <1>5, <1>6, <1>7 DEF Next, Whole

LEMMA WholeAtFirst == Init => Whole
<1> SUFFICES ASSUME Init PROVE Whole
  OBVIOUS
<1>1. log = <<>> /\ Len(log) = 0 /\ \A c \in Calls : todo[c] = <<>>
  BY DEF Init, CommandInit
<1>2. Of("key") = {} /\ \A k : VersionsOf(k) = {}
  BY <1>1 DEF Of, VersionsOf
<1>3. CompromisedIsRevoked /\ SomeInForce
  BY <1>1, <1>2 DEF CompromisedIsRevoked, SomeInForce, InForce
<1>4. \A a, i : ActiveSet(a, i) = {}
  BY <1>2 DEF ActiveSet
<1>5. Within
  <2>1. IsFiniteSet({}) /\ Cardinality({}) = 0 /\ 0 <= MaxActive
    BY FS_EmptySet, KeyConstants
  <2> QED  BY <1>4, <2>1 DEF Within
<1> QED  BY <1>3, <1>5, InitKeeps DEF Whole

(* No actor ever has more active keys than the limit, however many         *)
(* processes enroll and rotate at once (_enroll, under the append lock).   *)
THEOREM ActiveKeysAreBounded == Spec => []ActiveBounded
<1>1. Whole => ActiveBounded
  <2>1. SUFFICES ASSUME Whole, NEW i \in 1 .. Len(log), NEW a \in Actors
                 PROVE  Cardinality(ActiveSet(a, i)) <= MaxActive
    BY DEF ActiveBounded, ActiveSet
  <2>2. i \in 0 .. Len(log)
    BY DEF Whole, IInv, TypeOK
  <2> QED  BY <2>1, <2>2 DEF Whole, Within
<1>2. Spec => []Whole
  BY WholeAtFirst, WholeKeeps, PTL DEF Spec
<1> QED  BY <1>1, <1>2, PTL

(* The past of a key does not change when it gets another version. *)
LEMMA PastStands ==
  ASSUME Whole, Whole', NEW c \in Calls, NEW time \in 0 .. MaxTime, Write(c, time),
         NEW k \in Keys, NEW t \in 0 .. MaxTime, t < LastTime, VersionsOf(k) # {}
  PROVE  StatusAt(k, t)' \in {StatusAt(k, t), "COMPROMISED"}
<1>0. PICK e \in KeyVersions, s \in KeyVersions :
        /\ e = todo[c][1] /\ s = Stamped(e, time)
        /\ Fits(e) /\ DecidedOn(e) /\ log' = Append(log, s)
        /\ s.key = e.key /\ s.version = e.version /\ s.status = e.status /\ s.compromised = e.compromised
        /\ s.time = time /\ LastTime <= time
  <2>1. Stamped(todo[c][1], time).time = time
    BY WriteFacts DEF Whole, Stamped, KeyVersions
  <2> QED  BY <2>1, WriteFacts, StampedFields DEF Whole
<1>1. log \in Seq(KeyVersions) /\ e.key \in Keys
  BY DEF Whole, IInv, TypeOK, KeyVersions
<1>2. PICK n \in Nat : n = Len(log) + 1
  BY <1>1
<1>3. /\ log'[n] = s /\ n \in Of("key")'
      /\ \A i \in Of("key") : i \in Of("key")' /\ i \in Nat /\ i < n /\ log'[i] = log[i]
      /\ \A i \in Of("key")' : i \in Of("key") \/ i = n
  BY <1>0, <1>1, <1>2, AppendFacts
<1>4. VersionsOf(k)' = IF k = e.key THEN VersionsOf(k) \cup {n} ELSE VersionsOf(k)
  <2>1. /\ VersionsOf(k)' = {i \in Of("key")' : log'[i].key = k}
        /\ VersionsOf(k) = {i \in Of("key") : log[i].key = k}
    BY DEF VersionsOf
  <2>2. log'[n].key = e.key /\ n \notin Of("key")
    BY <1>0, <1>3
  <2> QED  BY <1>3, <2>1, <2>2
<1>5. \A i \in VersionsOf(k) : i \in Nat /\ i < n /\ log'[i] = log[i] /\ log[i].key = k /\ i \in Of("key")
  BY <1>3 DEF VersionsOf
<1>6. ~(time <= t)
  <2>1. time \in Nat /\ t \in Nat
    BY KeyConstants
  <2>2. LastTime \in Nat
    <3>1. log # <<>> => Len(log) \in 1 .. Len(log)
      BY <1>1, EmptySeq
    <3>2. log # <<>> => log[Len(log)] \in KeyVersions
      BY <1>1, <3>1
    <3> QED  BY <3>2 DEF LastTime, KeyVersions
  <2> QED  BY <1>0, <2>1, <2>2
<1>7. (* What was in force at that time is what it was. *)
      InForce(k, t)' = InForce(k, t)
  <2>1. InForce(k, t)' = {i \in VersionsOf(k)' : log'[i].time <= t}
    BY DEF InForce
  <2>2. ~(log'[n].time <= t)
    BY <1>0, <1>3, <1>6
  <2> QED  BY <1>4, <1>5, <2>1, <2>2 DEF InForce
<1>8. (* And so is what it said of the key. *)
      ASSUME NEW i, i = (CHOOSE j \in Newest(InForce(k, t)) : TRUE), InForce(k, t) # {}
      PROVE  log'[i] = log[i]
  <2>1. i \in Newest(InForce(k, t))
    BY <1>8 DEF Whole, SomeInForce
  <2>2. i \in VersionsOf(k)
    BY <2>1 DEF Newest, InForce
  <2> QED  BY <1>5, <2>2
<1>9. VersionsOf(k)' # {}
  BY <1>4
<1> DEFINE Then == InForce(k, t) = {} \/ log[CHOOSE j \in Newest(InForce(k, t)) : TRUE].status = "ACTIVE"
           Compromised == \E r \in Current(k) : r.status = "REVOKED" /\ r.compromised
           NotYet == \E i \in Oldest(k) : t < log[i].enrolled
           Said == IF Then THEN "VALID" ELSE log[CHOOSE j \in Newest(InForce(k, t)) : TRUE].status
<1>10. Said' = Said
  <2>1. CASE InForce(k, t) = {}
    BY <1>7, <2>1
  <2>2. CASE InForce(k, t) # {}
    BY <1>7, <1>8, <2>2 DEF Newest
  <2> QED  BY <2>1, <2>2
<1>11. /\ StatusAt(k, t) = IF Compromised THEN "COMPROMISED" ELSE IF NotYet THEN "NOT_YET_ENROLLED" ELSE Said
       /\ StatusAt(k, t)' = IF Compromised' THEN "COMPROMISED" ELSE IF NotYet' THEN "NOT_YET_ENROLLED" ELSE Said'
  BY <1>9 DEF StatusAt
<1>c. (* The key was enrolled when it was. *)
       NotYet' = NotYet
  <2>1. Oldest(k)' = {i \in VersionsOf(k)' : \A j \in VersionsOf(k)' : i <= j}
    BY DEF Oldest
  <2>2. ASSUME NEW i PROVE i \in Oldest(k)' <=> i \in Oldest(k)
    <3>1. CASE i = n
      <4>1. PICK j \in VersionsOf(k) : TRUE
        OBVIOUS
      <4>2. j \in VersionsOf(k)' /\ j < n /\ j \in Nat /\ n \notin VersionsOf(k)
        BY <1>2, <1>4, <1>5
      <4>3. ~(n <= j)
        BY <1>2, <4>2
      <4> QED  BY <2>1, <3>1, <4>2, <4>3 DEF Oldest
    <3>2. CASE i # n
      <4>1. \A j \in VersionsOf(k) : j < n /\ j \in Nat
        BY <1>5
      <4>2. i \in VersionsOf(k)' <=> i \in VersionsOf(k)
        BY <1>4, <3>2
      <4>3. i \in VersionsOf(k) => i <= n
        BY <1>2, <4>1
      <4> QED  BY <1>4, <2>1, <4>2, <4>3 DEF Oldest
    <3> QED  BY <3>1, <3>2
  <2>3. Oldest(k)' = Oldest(k) /\ \A i \in Oldest(k) : log'[i] = log[i]
    BY <1>5, <2>2 DEF Oldest
  <2> QED  BY <2>3
<1>12. CASE k # e.key
  <2>1. VersionsOf(k)' = VersionsOf(k) /\ \A i \in Newest(VersionsOf(k)) : log'[i] = log[i]
    BY <1>4, <1>5, <1>12 DEF Newest
  <2>2. Current(k)' = Current(k)
    BY <2>1 DEF Current, Newest
  <2>3. Compromised' = Compromised
    BY <2>2
  <2> QED  BY <1>10, <1>11, <1>c, <2>3
<1>13. CASE k = e.key
  <2>1. e.version # 1
    <3>1. Current(k) # {}
      BY NoCurrent DEF Whole, IInv
    <3> QED  BY <1>0, <1>13, <3>1 DEF Fits, Enrollable
  <2>2. PICK m \in Newest(VersionsOf(k)) : Follows(log[m], e)
    BY <1>0, <1>13, <2>1, FitsNewest DEF Whole
  <2>3. Newest(VersionsOf(k)') = {n}
    BY <1>2, <1>4, <1>5, <1>13 DEF Newest
  <2>4. Current(k)' = {s}
    BY <1>3, <2>3 DEF Current, Newest
  <2>5. Current(k) = {log[m]} /\ m \in Of("key") /\ log[m].key = k
    <3>1. \A i \in Newest(VersionsOf(k)) : i = m
      BY <1>5, <2>2 DEF Newest
    <3> QED  BY <1>5, <2>2, <3>1 DEF Current, Newest
  <2>7. Compromised => s.compromised /\ s.status = "REVOKED"
    BY <1>0, <2>2, <2>5 DEF Follows, MayTransition
  <2>8. CASE Compromised
    BY <1>11, <2>4, <2>7, <2>8
  <2>9. CASE ~Compromised
    BY <1>10, <1>11, <1>c, <2>9
  <2> QED  BY <2>8, <2>9
<1> QED  BY <1>12, <1>13

(* What a signature of some past time verified as, it verifies as ever     *)
(* after, unless the key turns out to be compromised                       *)
(* (verification_status_at over the versions the store has).               *)
THEOREM ThePastStands == Spec => HistoryStands
<1> DEFINE Stands == \A k \in Keys, t \in 0 .. MaxTime :
                       t < LastTime /\ VersionsOf(k) # {} => StatusAt(k, t)' \in {StatusAt(k, t), "COMPROMISED"}
<1>1. Whole /\ Whole' /\ [Next]_vars => [Stands]_vars
  <2>1. SUFFICES ASSUME Whole, Whole', Next PROVE Stands
    OBVIOUS
  <2>2. CASE \E c \in Calls : \E time \in 0 .. MaxTime : Write(c, time)
    BY <2>1, <2>2, PastStands
  <2>3. CASE log' = log
    <3>1. Of("key")' = Of("key")
      BY <2>3 DEF Of
    <3>2. ASSUME NEW k PROVE VersionsOf(k)' = VersionsOf(k)
      BY <2>3, <3>1 DEF VersionsOf
    <3>3. ASSUME NEW k PROVE Current(k)' = Current(k) /\ Oldest(k)' = Oldest(k)
      BY <2>3, <3>2 DEF Current, Newest, Oldest
    <3>4. ASSUME NEW k, NEW t PROVE InForce(k, t)' = InForce(k, t)
      BY <2>3, <3>2 DEF InForce
    <3>5. ASSUME NEW k, NEW t PROVE StatusAt(k, t)' = StatusAt(k, t)
      <4>1. Newest(InForce(k, t))' = Newest(InForce(k, t))
        BY <3>4 DEF Newest
      <4> QED  BY <2>3, <3>2, <3>3, <3>4, <4>1 DEF StatusAt
    <3> QED  BY <3>5
  <2>4. ASSUME NEW c \in Calls, Command(c) PROVE log' = log
    BY <2>1, <2>4, CommandLeavesLog
  <2>5. ASSUME NEW c \in Calls, FindSettled(c) \/ Fail(c) PROVE log' = log
    BY <2>5 DEF FindSettled, Fail, GiveUp
  <2> QED  BY <2>1, <2>2, <2>3, <2>4, <2>5 DEF Next
<1>2. Spec => []Whole
  BY WholeAtFirst, WholeKeeps, PTL DEF Spec
<1> QED  BY <1>1, <1>2, PTL DEF Spec, HistoryStands

-----------------------------------------------------------------------------
(***************************************************************************)
(* Keys, sessions and markings, as the instance composes them.             *)
(***************************************************************************)
(* A behaviour of the three is a behaviour of the sessions and one of the  *)
(* commands with their markings.                                           *)
LEMMA AllParts == MCSpec => S!Spec /\ S!WorkbenchSpec
<1>1. MCInit => S!Init /\ S!WorkbenchInit
  BY DEF MCInit
<1>2. [MCNext]_<<vars, sessionVars, benchVars, part>> => [S!Next]_(S!vars)
  BY DEF MCNext, sessionVars, benchVars, S!vars
<1>3. [MCNext]_<<vars, sessionVars, benchVars, part>> => [S!WorkbenchNext]_(S!workbenchVars)
  BY DEF MCNext, sessionVars, benchVars, S!workbenchVars
<1> QED  BY <1>1, <1>2, <1>3, PTL DEF MCSpec, S!Spec, S!WorkbenchSpec

(* A challenge opens at most one session, for its own actor and in its     *)
(* time (sessions.py, authenticate).                                       *)
THEOREM ChallengesOpenOneSession == MCSpec => []SingleUse
<1>1. S!Spec => []S!SingleUse
  BY ServerAssumption, SealIsReserved, S!ChallengesAreSingleUse
<1>2. S!SingleUse => SingleUse
  BY DEF SingleUse
<1> QED  BY <1>1, <1>2, AllParts, PTL

(* A full server takes nothing from anybody who does not ask for more      *)
(* (sessions.py, issue_challenge and authenticate).                        *)
THEOREM NobodyLosesAPlace == MCSpec => NothingIsTaken
<1>1. S!Spec => S!NothingIsTaken
  BY ServerAssumption, SealIsReserved, S!NobodyIsDisplaced
<1> QED  BY <1>1, AllParts, PTL DEF NothingIsTaken

(* Whoever may see a record may see what it was before and what it cites   *)
(* (security.py, admit_marking).                                           *)
THEOREM CitedIsCovered == MCSpec => []NoWriteDown
<1>1. S!WorkbenchSpec => []S!NoWriteDown
  BY SealIsReserved, S!NothingIsWrittenDown
<1>2. S!NoWriteDown => NoWriteDown
  BY DEF NoWriteDown
<1> QED  BY <1>1, <1>2, AllParts, PTL
=============================================================================
