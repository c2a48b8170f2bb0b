---------------------------- MODULE MissionStore ----------------------------
(***************************************************************************)
(* MissionDataStore (curunir_operational/store.py): one events.jsonl that  *)
(* several store handles, in several processes, read and extend under an   *)
(* advisory lock.  A handle keeps an in-memory copy of the log and of the  *)
(* offset it has read up to, decides on that copy, and re-decides under    *)
(* the lock after catching up.                                             *)
(*                                                                         *)
(* Everything that happens while the lock is held and that another process *)
(* or a crash can tell apart is a step of its own: a line half written, a  *)
(* line written but not yet synced, payloads installed before the log is   *)
(* replaced.  Reads under the lock are atomic, since every writer takes    *)
(* the lock.                                                               *)
(***************************************************************************)
EXTENDS EventLog

CONSTANTS
  Handles,      \* store handles, each in a process of its own
  NoHandle,     \* nobody holds .append.lock
  RecordKinds,  \* the kinds of record the callers of an instance append
  MaxTime,      \* bound on recorded_time
  MaxLen,       \* bound: no new call starts once the log has MaxLen lines
  MaxSuffix     \* bound on the events of one imported delta

ASSUME StoreConstants ==
  /\ NoHandle \notin Handles
  /\ RecordKinds \subseteq Kinds
  /\ MaxTime \in Nat /\ MaxLen \in Nat /\ MaxSuffix \in Nat

VARIABLES
  lines,     \* the newline-terminated lines of events.jsonl
  torn,      \* does the file end in bytes without a newline?
  durable,   \* how many lines an fsync has put beyond a power loss
  payloads,  \* ids whose payload is in the payload directory
  lock,      \* the handle that holds the flock on .append.lock
  view,      \* _events of a handle, which its indexes are derived from
  offset,    \* _file_offset of a handle, in lines
  pc,        \* where a handle is in the call it is executing
  want,      \* the record (at most one) a handle's append was asked for
  staged,    \* the events a handle is about to put on disk
  acked      \* history: events whose append or import returned to its caller

vars == <<lines, torn, durable, payloads, lock, view, offset, pc, want, staged, acked>>
disk == <<lines, torn, durable>>

Waiting == {"append", "import"}                        \* blocked on the flock
Holding == {"write", "half", "sync", "install", "index", "recover"}
Phases  == {"closed", "idle"} \cup Waiting \cup Holding

(* A payload is referenced by the ingestion that took custody of it. *)
PayloadsOf(log) == {log[i].body.id : i \in {j \in 1 .. Len(log) :
                                           log[j].body.kind \in {"ingestion", "duplicate"}}}

Init ==
  /\ lines = <<>> /\ torn = FALSE /\ durable = 0
  /\ payloads = {}
  /\ lock = NoHandle
  /\ view = [h \in Handles |-> <<>>]
  /\ offset = [h \in Handles |-> 0]
  /\ pc = [h \in Handles |-> "closed"]
  /\ want = [h \in Handles |-> <<>>]
  /\ staged = [h \in Handles |-> <<>>]
  /\ acked = {}

-----------------------------------------------------------------------------
(* Reading: _read_regular_tail, _load_event_bytes, _catch_up.              *)

CaughtUp(h) == view[h] \o SubSeq(lines, offset[h] + 1, Len(lines))

(* Fault: the torn tail is not noticed. *)
CanCatchUpTorn(h) == LoadsFrom(CaughtUp(h), Len(view[h]))

(* A torn tail is refused before any line of it is loaded. *)
CanCatchUp(h) == ~torn /\ LoadsFrom(CaughtUp(h), Len(view[h]))

TakeCatchUp(h) ==
  /\ view' = [view EXCEPT ![h] = CaughtUp(h)]
  /\ offset' = [offset EXCEPT ![h] = Len(lines)]

(* A call returns: the handle is idle again and nothing is pending. *)
Return(h) ==
  /\ pc' = [pc EXCEPT ![h] = "idle"]
  /\ want' = [want EXCEPT ![h] = <<>>]
  /\ staged' = [staged EXCEPT ![h] = <<>>]

Open(h) ==
  /\ pc[h] = "closed" /\ lock = NoHandle
  /\ ~torn /\ Valid(lines)
  /\ pc' = [pc EXCEPT ![h] = "idle"]
  /\ view' = [view EXCEPT ![h] = lines]
  /\ offset' = [offset EXCEPT ![h] = Len(lines)]
  /\ UNCHANGED <<disk, payloads, lock, want, staged, acked>>

(* refresh, and the catch-up that export_to and build_delta_bundle do. *)
Refresh(h) ==
  /\ pc[h] = "idle" /\ lock = NoHandle
  /\ CanCatchUp(h)
  /\ TakeCatchUp(h)
  /\ UNCHANGED <<disk, payloads, lock, pc, want, staged, acked>>

-----------------------------------------------------------------------------
(* append: what the caller decides on its own copy, before the lock.       *)

Begin(h, body) ==
  /\ pc' = [pc EXCEPT ![h] = "append"]
  /\ want' = [want EXCEPT ![h] = <<body>>]
  /\ UNCHANGED <<disk, lock, view, offset, staged, acked>>

MayBegin(h, kind) == pc[h] = "idle" /\ kind \in RecordKinds /\ Len(lines) < MaxLen

(* The next version of a record, as next_object_version and its like see it. *)
BeginVersion(h, id, t) ==
  /\ MayBegin(h, "version")
  /\ Begin(h, [kind |-> "version", id |-> id, version |-> NextVersion(view[h], id), time |-> t])
  /\ UNCHANGED payloads

(* Connector ingest: custody of the bytes first (put_payload takes and     *)
(* releases the lock), then the duplicate test on the handle's own copy.   *)
BeginIngest(h, key, t) ==
  /\ MayBegin(h, "ingestion") /\ lock = NoHandle
  /\ payloads' = payloads \cup {key}
  /\ Begin(h, [kind |-> IF Ingested(view[h], key) THEN "duplicate" ELSE "ingestion",
               id |-> key, version |-> 1, time |-> t])

(* raise_alert, when its handle knows of no alert under the dedup key. *)
BeginAlert(h, key, t) ==
  /\ MayBegin(h, "alert") /\ ~Raised(view[h], key)
  /\ Begin(h, [kind |-> "alert", id |-> key, version |-> 1, time |-> t])
  /\ UNCHANGED payloads

-----------------------------------------------------------------------------
(* append: under the lock.                                                 *)

(* The condition a caller passed is evaluated after the catch-up.  Only    *)
(* raise_alert passes one here (_still_unraised).                          *)
Condition(log, body) == body.kind = "alert" => ~Raised(log, body.id)

(* Fault: the next version is only decided before the lock. *)
AdmissibleUnprogressed(log, body) == Condition(log, body) /\ InTime(log, body)

Admissible(log, body) ==
  /\ Condition(log, body)
  /\ Progresses(log, body)
  /\ InTime(log, body)

Sealed(log, body) == [body |-> body, prev |-> Bodies(log)]

(* Fault: the event is sealed on the copy from before the catch-up. *)
AdmitSealedStale(h) ==
  /\ pc[h] = "append" /\ lock = NoHandle
  /\ CanCatchUp(h) /\ Admissible(CaughtUp(h), Head(want[h]))
  /\ TakeCatchUp(h)
  /\ lock' = h
  /\ pc' = [pc EXCEPT ![h] = "write"]
  /\ staged' = [staged EXCEPT ![h] = <<Sealed(view[h], Head(want[h]))>>]
  /\ UNCHANGED <<disk, payloads, want, acked>>

Admit(h) ==
  /\ pc[h] = "append" /\ lock = NoHandle
  /\ CanCatchUp(h) /\ Admissible(CaughtUp(h), Head(want[h]))
  /\ TakeCatchUp(h)
  /\ lock' = h
  /\ pc' = [pc EXCEPT ![h] = "write"]
  /\ staged' = [staged EXCEPT ![h] = <<Sealed(CaughtUp(h), Head(want[h]))>>]
  /\ UNCHANGED <<disk, payloads, want, acked>>

(* A refused append still leaves the handle caught up. *)
Refuse(h) ==
  /\ pc[h] = "append" /\ lock = NoHandle
  /\ CanCatchUp(h) /\ ~Admissible(CaughtUp(h), Head(want[h]))
  /\ TakeCatchUp(h)
  /\ Return(h)
  /\ UNCHANGED <<disk, payloads, lock, acked>>

(* The catch-up itself is refused: append and import fail, nothing moves. *)
CatchUpFails(h) ==
  /\ pc[h] \in Waiting /\ lock = NoHandle
  /\ ~CanCatchUp(h)
  /\ Return(h)
  /\ UNCHANGED <<disk, payloads, lock, view, offset, acked>>

(* _locked_write: os.write may put down only a part of the line. *)
WritePart(h) ==
  /\ pc[h] = "write"
  /\ torn' = TRUE
  /\ pc' = [pc EXCEPT ![h] = "half"]
  /\ UNCHANGED <<lines, durable, payloads, lock, view, offset, want, staged, acked>>

WriteRest(h) ==
  /\ pc[h] \in {"write", "half"}
  /\ lines' = lines \o staged[h]
  /\ torn' = FALSE
  /\ pc' = [pc EXCEPT ![h] = "sync"]
  /\ UNCHANGED <<durable, payloads, lock, view, offset, want, staged, acked>>

(* Fault: a failed write leaves the lock taken. *)
WriteFailsLocked(h) ==
  /\ pc[h] \in {"write", "half", "sync"}
  /\ Return(h)
  /\ UNCHANGED <<disk, payloads, lock, view, offset, acked>>

(* The write or the fsync raises: the lock is released, the offset and the *)
(* indexes are as before the call, whatever reached the file stays in it.  *)
WriteFails(h) ==
  /\ pc[h] \in {"write", "half", "sync"}
  /\ lock' = NoHandle
  /\ Return(h)
  /\ UNCHANGED <<disk, payloads, view, offset, acked>>

(* Fault: append returns without an fsync. *)
ReturnUnsynced(h) ==
  /\ pc[h] = "sync"
  /\ offset' = [offset EXCEPT ![h] = @ + Len(staged[h])]
  /\ view' = [view EXCEPT ![h] = @ \o staged[h]]
  /\ acked' = acked \cup Range(staged[h])
  /\ lock' = NoHandle
  /\ Return(h)
  /\ UNCHANGED <<disk, payloads>>

(* fsync succeeds; then the offset moves, the event is indexed, the lock   *)
(* is released and append returns the event.                               *)
SyncAndReturn(h) ==
  /\ pc[h] = "sync"
  /\ durable' = Len(lines)
  /\ offset' = [offset EXCEPT ![h] = @ + Len(staged[h])]
  /\ view' = [view EXCEPT ![h] = @ \o staged[h]]
  /\ acked' = acked \cup Range(staged[h])
  /\ lock' = NoHandle
  /\ Return(h)
  /\ UNCHANGED <<lines, torn, payloads>>

-----------------------------------------------------------------------------
(* import_delta_bundle and apply_imported_events_locked.                   *)

(* A peer that holds this history and went on by itself: the events chain  *)
(* on from log and a store accepted them one by one.                       *)
PeerBodies ==
  [kind : RecordKinds, id : Ids, version : 1 .. MaxLen + 1, time : 1 .. MaxTime]

Chain(log, bodies) ==
  [i \in 1 .. Len(bodies) |->
     [body |-> bodies[i], prev |-> Bodies(log) \o SubSeq(bodies, 1, i - 1)]]

PeerMade(log, bodies) ==
  LET peer == log \o Chain(log, bodies)
  IN \A k \in Len(log) + 1 .. Len(peer) :
       /\ Follows(SubSeq(peer, 1, k - 1), peer[k])
       /\ Condition(SubSeq(peer, 1, k - 1), peer[k].body)
       /\ peer[k].body.kind # "version" => peer[k].body.version = 1

(* The bundle agrees with the handle's copy (else MISSING_BASE, WRONG_BASE *)
(* or DIVERGED_OVERLAP is returned and nothing happens) and goes beyond it *)
(* (else DUPLICATE_DELTA).  head() is read without catching up.            *)
BeginImport(h, bodies) ==
  /\ pc[h] = "idle" /\ Len(lines) < MaxLen
  /\ bodies # <<>> /\ PeerMade(view[h], bodies)
  /\ pc' = [pc EXCEPT ![h] = "import"]
  /\ staged' = [staged EXCEPT ![h] = Chain(view[h], bodies)]
  /\ UNCHANGED <<disk, payloads, lock, view, offset, want, acked>>

(* _validate_imported_events replays the whole suffix on a copy. *)
SuffixLoads(h) == LoadsFrom(CaughtUp(h) \o staged[h], Len(CaughtUp(h)))

AdmitImport(h) ==
  /\ pc[h] = "import" /\ lock = NoHandle
  /\ CanCatchUp(h) /\ SuffixLoads(h)
  /\ TakeCatchUp(h)
  /\ lock' = h
  /\ pc' = [pc EXCEPT ![h] = "install"]
  /\ UNCHANGED <<disk, payloads, want, staged, acked>>

RefuseImport(h) ==
  /\ pc[h] = "import" /\ lock = NoHandle
  /\ CanCatchUp(h) /\ ~SuffixLoads(h)
  /\ TakeCatchUp(h)
  /\ Return(h)
  /\ UNCHANGED <<disk, payloads, lock, acked>>

(* Payloads are published one by one, before the log. *)
InstallPayload(h) ==
  /\ pc[h] = "install"
  /\ \E d \in PayloadsOf(staged[h]) \ payloads : payloads' = payloads \cup {d}
  /\ UNCHANGED <<disk, lock, view, offset, pc, want, staged, acked>>

(* Fault: the log is published before the payloads. *)
ReplaceLogFirst(h) ==
  /\ pc[h] = "install"
  /\ lines' = lines \o staged[h]
  /\ durable' = Len(lines')
  /\ offset' = [offset EXCEPT ![h] = Len(lines')]
  /\ pc' = [pc EXCEPT ![h] = "index"]
  /\ UNCHANGED <<torn, payloads, lock, view, want, staged, acked>>

(* Fault: the suffix is appended in place and not synced. *)
ReplaceLogInPlace(h) ==
  /\ pc[h] = "install" /\ PayloadsOf(staged[h]) \subseteq payloads
  /\ lines' = lines \o staged[h]
  /\ offset' = [offset EXCEPT ![h] = Len(lines')]
  /\ pc' = [pc EXCEPT ![h] = "index"]
  /\ UNCHANGED <<torn, durable, payloads, lock, view, want, staged, acked>>

(* _atomic_write publishes the old bytes and the suffix in one rename; the *)
(* new file was synced before it.                                          *)
ReplaceLog(h) ==
  /\ pc[h] = "install" /\ PayloadsOf(staged[h]) \subseteq payloads
  /\ lines' = lines \o staged[h]
  /\ durable' = Len(lines')
  /\ offset' = [offset EXCEPT ![h] = Len(lines')]
  /\ pc' = [pc EXCEPT ![h] = "index"]
  /\ UNCHANGED <<torn, payloads, lock, view, want, staged, acked>>

(* Writing a payload or the new file raises before the rename. *)
InstallFails(h) ==
  /\ pc[h] = "install"
  /\ lock' = NoHandle
  /\ Return(h)
  /\ UNCHANGED <<disk, payloads, view, offset, acked>>

IndexImported(h) ==
  /\ pc[h] = "index"
  /\ view' = [view EXCEPT ![h] = @ \o staged[h]]
  /\ acked' = acked \cup Range(staged[h])
  /\ lock' = NoHandle
  /\ Return(h)
  /\ UNCHANGED <<disk, payloads, offset>>

-----------------------------------------------------------------------------
(* recover_torn_tail: an operator's process that has no store open.        *)

RecoverRead(h) ==
  /\ pc[h] = "closed" /\ lock = NoHandle
  /\ torn /\ Valid(lines)
  /\ lock' = h
  /\ staged' = [staged EXCEPT ![h] = lines]
  /\ pc' = [pc EXCEPT ![h] = "recover"]
  /\ UNCHANGED <<disk, payloads, view, offset, want, acked>>

RecoverReplace(h) ==
  /\ pc[h] = "recover"
  /\ lines' = staged[h] /\ torn' = FALSE /\ durable' = Len(staged[h])
  /\ lock' = NoHandle
  /\ pc' = [pc EXCEPT ![h] = "closed"]
  /\ staged' = [staged EXCEPT ![h] = <<>>]
  /\ UNCHANGED <<payloads, view, offset, want, acked>>

-----------------------------------------------------------------------------
(* Failures of the environment.                                            *)

(* A process dies: its memory is gone and the kernel drops its flock. *)
Crash(h) ==
  /\ pc[h] # "closed"
  /\ pc' = [pc EXCEPT ![h] = "closed"]
  /\ view' = [view EXCEPT ![h] = <<>>]
  /\ offset' = [offset EXCEPT ![h] = 0]
  /\ want' = [want EXCEPT ![h] = <<>>]
  /\ staged' = [staged EXCEPT ![h] = <<>>]
  /\ lock' = IF lock = h THEN NoHandle ELSE lock
  /\ UNCHANGED <<disk, payloads, acked>>

(* The machine loses power: every process dies, and of the bytes no fsync  *)
(* covered any suffix may be missing, cut in the middle of a line or not.  *)
PowerLoss ==
  /\ \E n \in durable .. Len(lines) :
       /\ lines' = SubSeq(lines, 1, n)
       /\ torn' \in IF torn \/ n < Len(lines) THEN BOOLEAN ELSE {FALSE}
  /\ durable' = durable
  /\ pc' = [h \in Handles |-> "closed"]
  /\ view' = [h \in Handles |-> <<>>]
  /\ offset' = [h \in Handles |-> 0]
  /\ want' = [h \in Handles |-> <<>>]
  /\ staged' = [h \in Handles |-> <<>>]
  /\ lock' = NoHandle
  /\ UNCHANGED <<payloads, acked>>

-----------------------------------------------------------------------------
Read(h)   == Open(h) \/ Refresh(h)
Call(h)   == \/ \E id \in Ids, t \in 1 .. MaxTime :
                  BeginVersion(h, id, t) \/ BeginIngest(h, id, t) \/ BeginAlert(h, id, t)
             \/ \E bodies \in BoundedSeq(PeerBodies, MaxSuffix) : BeginImport(h, bodies)
Locked(h) == Admit(h) \/ Refuse(h) \/ CatchUpFails(h) \/ AdmitImport(h) \/ RefuseImport(h)
Work(h)   == \/ WritePart(h) \/ WriteRest(h) \/ WriteFails(h) \/ SyncAndReturn(h)
             \/ InstallPayload(h) \/ ReplaceLog(h) \/ InstallFails(h) \/ IndexImported(h)
             \/ RecoverReplace(h)

Next ==
  \/ \E h \in Handles : Read(h) \/ Call(h) \/ Locked(h) \/ Work(h) \/ RecoverRead(h) \/ Crash(h)
  \/ PowerLoss

Spec == Init /\ [][Next]_vars

(* A process that holds the lock is running code that does not block, and  *)
(* the kernel grants a released flock to one of the blocked callers in the *)
(* order they came, so a caller is not passed over for ever.               *)
Fairness == \A h \in Handles : WF_vars(Work(h)) /\ SF_vars(Locked(h))

FairSpec == Spec /\ Fairness

-----------------------------------------------------------------------------
(* Properties.                                                             *)

(* Type correctness of the disk, of the handles and of the history. *)
TypeOK ==
  /\ lines \in Seq(Event) /\ torn \in BOOLEAN /\ durable \in 0 .. Len(lines)
  /\ payloads \subseteq Ids
  /\ lock \in Handles \cup {NoHandle}
  /\ view \in [Handles -> Seq(Event)]
  /\ offset \in [Handles -> Nat]
  /\ pc \in [Handles -> Phases]
  /\ want \in [Handles -> Seq(Body)]
  /\ staged \in [Handles -> Seq(Event)]
  /\ acked \subseteq Event

(* Whatever the handles, crashes and recoveries did, every complete line   *)
(* of the file passes the checks of _load_event_bytes: a store that is not *)
(* torn can always be opened (store.py:381, 438, 472).                     *)
LogValid == Valid(lines)

(* Two appends prepared on equally stale copies never both get their       *)
(* version on disk, and none is skipped (next_object_version is read       *)
(* before the lock, _validate_progression runs under it).                  *)
VersionsLinear == VersionsInOrder(lines) /\ NoVersionSkipped(lines)

(* An idempotency key is ingested once, however often callers retry an     *)
(* ingest that failed or that raced another process (store.py:465).        *)
IngestedOnce == OneIngestionPerKey(lines)

(* recorded_time never decreases along the log (store.py:415, 588).        *)
TimesOrdered == RecordedInOrder(lines)

(* The copy a handle decides on is the part of the file it has read, so    *)
(* two handles never disagree about a position both have read.             *)
CopiesArePrefixes ==
  \A h \in Handles :
    /\ IsPrefix(view[h], lines)
    /\ pc[h] # "index" => offset[h] = Len(view[h])

(* The writer that holds the lock works from the end of the file: this is  *)
(* what makes the sequence number and prev_hash it seals right.            *)
HolderIsCurrent ==
  \A h \in Handles :
    /\ pc[h] \in Holding <=> lock = h
    /\ pc[h] \in {"write", "half", "install"} => view[h] = lines
    /\ pc[h] = "recover" => staged[h] = lines
    /\ pc[h] \in {"sync", "index"} => lines = view[h] \o staged[h]
    /\ pc[h] = "index" => offset[h] = Len(lines) /\ durable = Len(lines)

(* An event a caller was told about is on disk, where it was said to be,   *)
(* and behind an fsync: no crash or power loss takes it away.              *)
AckedIsDurable ==
  \A e \in acked : Len(e.prev) + 1 <= durable /\ lines[Len(e.prev) + 1] = e

(* No committed ingestion refers to a payload that is not in custody, also *)
(* when a process dies between the payload and the event (V67-ORDER-001).  *)
PayloadBeforeEvent == PayloadsOf(lines) \subseteq payloads

(* While the file ends in a torn line nobody adds a line to it, except the *)
(* writer of that very line completing it (store.py:254, 514).             *)
TornTailIsFenced ==
  [][torn => \/ IsPrefix(lines', lines)
             \/ \E h \in Handles : pc[h] = "half" /\ lines' = lines \o staged[h]]_vars

(* An imported delta reaches the log whole or not at all: wherever a power *)
(* loss may cut the file while an import is under way, it does not cut     *)
(* inside the delta (store.py:722).                                        *)
DeltaIsAtomic ==
  \A h \in Handles : pc[h] \in {"install", "index"} =>
    \A cut \in durable .. Len(lines) :
      cut <= Len(view[h]) \/ cut >= Len(view[h]) + Len(staged[h])

(* What the holder is about to put on disk passes the checks of the next   *)
(* reader.                                                                 *)
StagedLoads ==
  \A h \in Handles :
    /\ pc[h] \in {"write", "half", "sync", "install", "index"}
         => LoadsFrom(view[h] \o staged[h], Len(view[h]))
    /\ pc[h] = "append" => Len(want[h]) = 1

(* The inductive invariant: validity of the log survives a step because    *)
(* the holder of the lock is current and what it staged was checked.       *)
IInv ==
  /\ TypeOK /\ CopiesArePrefixes /\ HolderIsCurrent /\ StagedLoads
  /\ LogValid /\ AckedIsDurable

(* The store implements the abstract log; the part of the file beyond the  *)
(* last fsync is not yet promised to anyone.                               *)
Abstract == INSTANCE DurableLog
              WITH log <- SubSeq(lines, 1, durable), promised <- acked
ImplementsDurableLog == Abstract!Spec

(* Every call returns, or its process dies: no crash of a lock holder, no  *)
(* torn tail and no failed write leaves another caller waiting for ever.   *)
CallsReturn ==
  \A h \in Handles : pc[h] \in Waiting \cup Holding ~> pc[h] \in {"idle", "closed"}
=============================================================================
