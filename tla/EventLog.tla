------------------------------ MODULE EventLog ------------------------------
(***************************************************************************)
(* What one line of events.jsonl carries and what makes a sequence of      *)
(* lines a valid log.  These are the checks MissionDataStore runs on every *)
(* line it loads, catches up on, appends or imports                        *)
(* (curunir_operational/store.py).                                         *)
(*                                                                         *)
(* An entry hash commits to the event and, through prev_hash, to all that  *)
(* came before it.  A digest is therefore modelled by what it commits to:  *)
(* the digest of a log is the sequence of its bodies, so the sequence      *)
(* number of an event is 1 + Len(prev) and two digests are equal exactly   *)
(* when the histories are.                                                 *)
(***************************************************************************)
EXTENDS Naturals, SequencesExt

CONSTANT Ids        \* record ids, idempotency keys and alert dedup keys

(***************************************************************************)
(* The records a log tells apart.  "version" stands for object_version,    *)
(* relationship_version and every VERSIONED_RECORD_TYPES record, which     *)
(* obey one rule; "ingestion" is an accepted or quarantined ingestion,     *)
(* "duplicate" an ingestion whose validation is DUPLICATE; "alert" is a    *)
(* record the store does not constrain and only its caller deduplicates.   *)
(***************************************************************************)
Kinds == {"version", "ingestion", "duplicate", "alert"}

Body  == [kind : Kinds, id : Ids, version : Nat, time : Nat]
Event == [body : Body, prev : Seq(Body)]

Bodies(log) == [i \in 1 .. Len(log) |-> log[i].body]

(* Positions of a log that hold a record of this kind and id: the indexes  *)
(* _object_versions, _idempotency and _alert_dedup are keyed by it.        *)
At(log, kind, id) ==
  {i \in 1 .. Len(log) : log[i].body.kind = kind /\ log[i].body.id = id}

(* _index_record keeps the version of the latest record under an id.       *)
NextVersion(log, id) ==
  IF At(log, "version", id) = {} THEN 1
  ELSE log[Max(At(log, "version", id))].body.version + 1

Ingested(log, key) == At(log, "ingestion", key) # {}
Raised(log, key)   == At(log, "alert", key) # {}

(* Fault: an idempotency key is not looked up again under the lock. *)
ProgressesReingested(log, body) ==
  body.kind = "version" => body.version = NextVersion(log, body.id)

(* _validate_progression *)
Progresses(log, body) ==
  /\ body.kind = "version"   => body.version = NextVersion(log, body.id)
  /\ body.kind = "ingestion" => ~Ingested(log, body.id)

(* recorded_time is non-decreasing; the first event may have any time.     *)
InTime(log, body) == log # <<>> => log[Len(log)].body.time <= body.time

(* One line is accepted on top of the log before it: _validate_envelope    *)
(* (sequence, recorded_time, prev_hash) and then _validate_progression.    *)
Follows(log, e) ==
  /\ e.prev = Bodies(log)
  /\ InTime(log, e.body)
  /\ Progresses(log, e.body)

(* _load_event_bytes over lines n+1 .. Len(log), the first n being loaded. *)
LoadsFrom(log, n) ==
  \A k \in n + 1 .. Len(log) : Follows(SubSeq(log, 1, k - 1), log[k])

Valid(log) == LoadsFrom(log, 0)

-----------------------------------------------------------------------------
(***************************************************************************)
(* What validity is meant to buy, said of any two events of a log.         *)
(***************************************************************************)
SameRecord(log, kind, i, j) ==
  log[i].body.kind = kind /\ log[j].body.kind = kind /\ log[i].body.id = log[j].body.id

(* Versions of one id rise with the log, and none is skipped. *)
VersionsInOrder(log) ==
  \A i, j \in 1 .. Len(log) :
    i < j /\ SameRecord(log, "version", i, j) => log[i].body.version < log[j].body.version

NoVersionSkipped(log) ==
  \A j \in 1 .. Len(log) : \A v \in 1 .. log[j].body.version :
    log[j].body.kind = "version"
      => \E i \in 1 .. j : SameRecord(log, "version", i, j) /\ log[i].body.version = v

OneIngestionPerKey(log) ==
  \A i, j \in 1 .. Len(log) : SameRecord(log, "ingestion", i, j) => i = j

RecordedInOrder(log) ==
  \A i, j \in 1 .. Len(log) : i < j => log[i].body.time <= log[j].body.time
=============================================================================
