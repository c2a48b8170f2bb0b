---------------------------- MODULE KeyRegistry ----------------------------
(***************************************************************************)
(* Ownership and lifecycle of signing keys (curunir_identity/registry.py): *)
(* enrollment, rotation, retirement, revocation and compromise, as key     *)
(* versions in the mission log, by commands in several processes.          *)
(***************************************************************************)
EXTENDS CommandLog, FiniteSets

CONSTANTS
  Actors, Kinds,  \* principals, and the actor_kind the caller vouches for
  Keys,           \* public keys; a key's id is the digest of the key
  NoKey,
  MaxActive,      \* MAX_ACTIVE_KEYS_PER_ACTOR
  MaxTime,        \* bound on the recorded times
  MaxLen          \* bound on the log

ASSUME KeyConstants ==
  NoKey \notin Keys /\ MaxActive \in Nat \ {0} /\ MaxTime \in Nat /\ MaxLen \in Nat

VARIABLES
  retiring,  \* per call, the key a rotation is to retire once its new key is enrolled
  reported   \* keys whose revocation as compromised returned without an error

vars == <<log, todo, retiring, reported>>

KeyStatuses == {"ACTIVE", "RETIRED", "REVOKED"}

KeyVersions ==
  [type : {"key"}, key : Keys, version : Nat, actor : Actors, kind : Kinds, status : KeyStatuses,
   compromised : BOOLEAN, supersedes : Keys \cup {NoKey}, enrolled : Nat, time : Nat]

Init == CommandInit /\ retiring = [c \in Calls |-> NoKey] /\ reported = {}

-----------------------------------------------------------------------------
(* What the log says of a key, and of an actor's keys.                     *)

VersionsOf(k) == {i \in Of("key") : log[i].key = k}
Current(k)    == {log[i] : i \in Newest(VersionsOf(k))}
ActiveKeys(a) == {k \in Keys : \E r \in Current(k) : r.actor = a /\ r.status = "ACTIVE"}

(* active_key_for: the active key that was enrolled last. *)
NewestActive(a) ==
  {k \in ActiveKeys(a) :
     \A r \in Current(k), j \in ActiveKeys(a) : \A s \in Current(j) : s.enrolled <= r.enrolled}

(* verification_status_at: the status in force at time t, except that a    *)
(* compromise is retroactive; enrolled is read from the first version.     *)
Oldest(k)     == {i \in VersionsOf(k) : \A j \in VersionsOf(k) : i <= j}
InForce(k, t) == {i \in VersionsOf(k) : log[i].time <= t}
StatusAt(k, t) ==
  IF VersionsOf(k) = {} THEN "UNKNOWN"
  ELSE IF \E r \in Current(k) : r.status = "REVOKED" /\ r.compromised THEN "COMPROMISED"
  ELSE IF \E i \in Oldest(k) : t < log[i].enrolled THEN "NOT_YET_ENROLLED"
  ELSE LET i == CHOOSE i \in Newest(InForce(k, t)) : TRUE
       IN  IF InForce(k, t) = {} \/ log[i].status = "ACTIVE" THEN "VALID" ELSE log[i].status

-----------------------------------------------------------------------------
(* The events a command appends; their time is set when they are written.  *)

Enrollment(k, a, kind, predecessor) ==
  [type |-> "key", key |-> k, version |-> 1, actor |-> a, kind |-> kind, status |-> "ACTIVE",
   compromised |-> FALSE, supersedes |-> predecessor, enrolled |-> 0, time |-> 0]

Transitioned(r, status, compromised) ==
  [r EXCEPT !.version = @ + 1, !.status = status, !.compromised = compromised]

(* Fault: a status that is final may be changed. *)
AlwaysTransition(r, compromised) == r.status \in KeyStatuses

(* A status is final, but for a compromise that comes to light later. *)
MayTransition(r, compromised) == r.status = "ACTIVE" \/ (compromised /\ ~r.compromised)

-----------------------------------------------------------------------------
(* Commands.                                                               *)

Idle(c) == todo[c] = <<>> /\ retiring[c] = NoKey

Enroll(c, a, kind, k) ==
  /\ Idle(c)
  /\ Decide(c, <<Enrollment(k, a, kind, NoKey)>>)
  /\ UNCHANGED <<retiring, reported>>

(* Fault: the old key is retired before the new one is enrolled. *)
RotateOldFirst(c, a, new) ==
  \E old \in NewestActive(a) : \E r \in Current(old) :
    /\ Idle(c) /\ old # new
    /\ \A n \in Current(new) : n.supersedes = NoKey
    /\ Decide(c, <<Transitioned(r, "RETIRED", FALSE), Enrollment(new, a, r.kind, old)>>)
    /\ UNCHANGED <<retiring, reported>>

(* rotate: the new key first, so that the actor always has one.            *)
Rotate(c, a, new) ==
  \E old \in NewestActive(a) : \E r \in Current(old) :
    /\ Idle(c) /\ old # new
    /\ \A n \in Current(new) : n.supersedes = NoKey
    /\ Decide(c, <<Enrollment(new, a, r.kind, old)>>)
    /\ retiring' = [retiring EXCEPT ![c] = old]
    /\ UNCHANGED reported

(* rotate again with a key that already names its predecessor: what is     *)
(* left to do is to retire that one.                                       *)
RotateAgain(c, a, new) ==
  \E n \in Current(new) :
    /\ Idle(c) /\ n.actor = a /\ n.supersedes # NoKey
    /\ retiring' = [retiring EXCEPT ![c] = n.supersedes]
    /\ UNCHANGED <<log, todo, reported>>

(* The second half of a rotation, which reads the old key anew. *)
Retire(c) ==
  /\ todo[c] = <<>> /\ retiring[c] # NoKey
  /\ \E r \in Current(retiring[c]) :
       IF MayTransition(r, FALSE) THEN Decide(c, <<Transitioned(r, "RETIRED", FALSE)>>)
       ELSE UNCHANGED <<log, todo>>
  /\ retiring' = [retiring EXCEPT ![c] = NoKey]
  /\ UNCHANGED reported

Revoke(c, k, compromised) ==
  \E r \in Current(k) :
    /\ Idle(c) /\ MayTransition(r, compromised)
    /\ Decide(c, <<Transitioned(r, "REVOKED", compromised)>>)
    /\ UNCHANGED <<retiring, reported>>

-----------------------------------------------------------------------------
(* What happens to a decided event.                                        *)

(* Fault: the limit on active keys is not checked under the lock. *)
EnrollableUnbounded(e) ==
  Current(e.key) = {} /\ \A i \in Of("key") : log[i].actor = e.actor => log[i].kind = e.kind

(* Fault: an actor's keys may be of different kinds. *)
EnrollableAnyKind(e) == Current(e.key) = {} /\ Cardinality(ActiveKeys(e.actor)) < MaxActive

(* The condition of _enroll. *)
Enrollable(e) ==
  /\ Current(e.key) = {}
  /\ \A i \in Of("key") : log[i].actor = e.actor => log[i].kind = e.kind
  /\ Cardinality(ActiveKeys(e.actor)) < MaxActive

(* The condition of _enroll or _transition and the store's version check. *)
Fits(e) == NextAfter(Current(e.key), e.version) /\ (e.version = 1 => Enrollable(e))

LastTime == IF log = <<>> THEN 0 ELSE log[Len(log)].time

(* Fault: a new status keeps the time of the one before. *)
StampedOnce(e, t) == IF e.version = 1 THEN [e EXCEPT !.time = t, !.enrolled = t] ELSE e

(* status_time and recorded_time, and in the first version enrolled_time. *)
Stamped(e, t) == [e EXCEPT !.time = t, !.enrolled = IF e.version = 1 THEN t ELSE @]

Reports(e) == IF e.compromised THEN {e.key} ELSE {}

(* The store refuses times that go back, and so a time before the last. *)
Write(c, t) ==
  /\ Ready(c) /\ Fits(Head(todo[c])) /\ LastTime <= t /\ Len(log) < MaxLen
  /\ log' = Append(log, Stamped(Head(todo[c]), t))
  /\ todo' = [todo EXCEPT ![c] = Tail(@)]
  /\ reported' = reported \cup Reports(Head(todo[c]))
  /\ UNCHANGED retiring

(* _NoAppend: the key is enrolled just so already, or it has moved on. The *)
(* call answers with the version that is there, and a rotation goes on.    *)
Settled(e) ==
  \E r \in Current(e.key) :
    IF e.version = 1
    THEN r.actor = e.actor /\ r.kind = e.kind /\ r.status = "ACTIVE" /\ r.supersedes = e.supersedes
    ELSE r.version + 1 # e.version

FindSettled(c) ==
  /\ Ready(c) /\ Settled(Head(todo[c]))
  /\ GiveUp(c)
  /\ reported' = reported \cup Reports(Head(todo[c]))
  /\ UNCHANGED retiring

(* An error from the condition or the disk, or the end of the process. *)
Fail(c) ==
  /\ todo' = [todo EXCEPT ![c] = <<>>]
  /\ retiring' = [retiring EXCEPT ![c] = NoKey]
  /\ ~Idle(c)
  /\ UNCHANGED <<log, reported>>

Command(c) ==
  /\ ~Ready(c)
  /\ \/ \E a \in Actors, kind \in Kinds, k \in Keys : Enroll(c, a, kind, k)
     \/ \E a \in Actors, k \in Keys : Rotate(c, a, k)
     \/ \E a \in Actors, k \in Keys : RotateAgain(c, a, k)
     \/ Retire(c)
     \/ \E k \in Keys, compromised \in BOOLEAN : Revoke(c, k, compromised)

Next ==
  \E c \in Calls :
    Command(c) \/ (\E t \in 0 .. MaxTime : Write(c, t)) \/ FindSettled(c) \/ Fail(c)

Spec == Init /\ [][Next]_vars

-----------------------------------------------------------------------------
(* Properties.                                                             *)

TypeOK ==
  /\ log \in Seq(KeyVersions)
  /\ todo \in [Calls -> Seq(KeyVersions)]
  /\ retiring \in [Calls -> Keys \cup {NoKey}]
  /\ reported \subseteq Keys

(* A public key has one permanent owner, and an actor one kind, whichever  *)
(* processes enroll at once (V67-AUTH-001).                                *)
OneOwner ==
  \A i, j \in Of("key") :
    /\ log[i].key = log[j].key => log[i].actor = log[j].actor
    /\ log[i].actor = log[j].actor => log[i].kind = log[j].kind

ActiveAt(k, i) ==
  \E j \in VersionsOf(k) : j <= i /\ log[j].status = "ACTIVE" /\ \A m \in VersionsOf(k) : m <= j \/ i < m

(* No actor ever has more active keys than the limit, whichever            *)
(* enrollments and rotations run at once.                                  *)
ActiveBounded ==
  \A i \in 1 .. Len(log), a \in Actors :
    Cardinality({k \in Keys : ActiveAt(k, i) /\ \E j \in VersionsOf(k) : log[j].actor = a}) <= MaxActive

(* Out of use for good: after a key is retired or revoked it is not active *)
(* again, the one later version it can get says that it is compromised,    *)
(* and after that there is none, even for commands that decided before.    *)
NoResurrection ==
  \A i, j \in Of("key") : i < j /\ log[i].key = log[j].key /\ log[i].status # "ACTIVE" =>
    log[j].status = "REVOKED" /\ log[j].compromised /\ ~log[i].compromised

(* A key is retired only after a key that replaces it was enrolled for the *)
(* same actor, wherever the rotation crashed and whoever completed it.     *)
SuccessorFirst ==
  \A i \in Of("key") : log[i].status = "RETIRED" =>
    \E j \in Of("key") : j < i /\ log[j].supersedes = log[i].key /\ log[j].actor = log[i].actor

(* The past stands: what a signature of some past time verified as, it     *)
(* verifies as ever after, unless the key turns out to be compromised.     *)
HistoryStands ==
  [][\A k \in Keys, t \in 0 .. MaxTime :
       t < LastTime /\ VersionsOf(k) # {} => StatusAt(k, t)' \in {StatusAt(k, t), "COMPROMISED"}]_vars

(* registry.py:206 says that the order of a rotation never leaves the      *)
(* actor without a key: when a key is retired, another is active.          *)
RotationKeepsAKey ==
  \A i \in Of("key") : log[i].status = "RETIRED" =>
    \E k \in Keys : ActiveAt(k, i) /\ \E j \in VersionsOf(k) : log[j].actor = log[i].actor

(* V67-AUTH-001 says that a compromise is retroactive: once a revocation   *)
(* as compromised has returned, no signature of the key is valid.          *)
ReportedCompromiseCounts == \A k \in reported : \A t \in 0 .. MaxTime : StatusAt(k, t) = "COMPROMISED"
=============================================================================
