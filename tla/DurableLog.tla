----------------------------- MODULE DurableLog -----------------------------
(***************************************************************************)
(* What the mission store promises its callers, with no handles, locks,    *)
(* offsets, partial writes or crashes: one log that only ever grows, that  *)
(* is valid at every moment, and that holds for good, at the position the  *)
(* caller was told, every event whose append or import has returned.       *)
(***************************************************************************)
EXTENDS EventLog

VARIABLES
  log,       \* the events that are beyond any crash
  promised   \* the events callers have been told are recorded

Init == log = <<>> /\ promised = {}

(* An event knows its position: it is chained on what comes before it. *)
Held(e) == Len(e.prev) + 1 <= Len(log) /\ log[Len(e.prev) + 1] = e

Next ==
  /\ IsPrefix(log, log')
  /\ Valid(log')
  /\ promised \subseteq promised'
  /\ \A e \in promised' : Held(e)'

Spec == Init /\ [][Next]_<<log, promised>>
=============================================================================
