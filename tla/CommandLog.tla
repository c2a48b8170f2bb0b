----------------------------- MODULE CommandLog -----------------------------
(***************************************************************************)
(* Commands over the mission store, for the components that are built on   *)
(* it.  A command reads its process's copy of the log, decides which       *)
(* events to append, and appends them one by one.  MissionStore shows what *)
(* one append is: atomic, durable, ordered with every other append, and    *)
(* accepted only if it fits the log it really lands on.  Nothing ties two  *)
(* appends of one command together, and the process may die after any.     *)
(*                                                                         *)
(* Several processes share a mission, so a command may decide on a copy    *)
(* that lags.  Deciding on a prefix of the log is deciding at the time the *)
(* log was that prefix; so a command is a deciding step, and its appends   *)
(* come whenever they come.                                                *)
(***************************************************************************)
EXTENDS Naturals, Sequences

CONSTANT Calls  \* commands in execution, in any process on the mission

VARIABLES
  log,   \* the events of the mission that concern the component
  todo   \* the events a command has decided on and not yet appended

CommandInit == log = <<>> /\ todo = [c \in Calls |-> <<>>]

(* Positions of the records of one type, and the latest of some positions. *)
Of(type)  == {i \in 1 .. Len(log) : log[i].type = type}
Newest(S) == {i \in S : \A j \in S : j <= i}

(* A record of a versioned type carries the version after the latest one.  *)
NextAfter(latest, version) ==
  IF latest = {} THEN version = 1 ELSE \A r \in latest : version = r.version + 1

(* The command's checks passed on its copy; its appends are still to come. *)
Decide(c, events) ==
  /\ todo[c] = <<>>
  /\ todo' = [todo EXCEPT ![c] = events]
  /\ UNCHANGED log

Ready(c) == todo[c] # <<>>

(* The next event is accepted and is in the log for good. *)
WriteNext(c) ==
  /\ log' = Append(log, Head(todo[c]))
  /\ todo' = [todo EXCEPT ![c] = Tail(@)]

(* The command is over, whatever it had left to do: its event was refused  *)
(* under the lock, a write failed, or its process died.                    *)
GiveUp(c) ==
  /\ Ready(c)
  /\ todo' = [todo EXCEPT ![c] = <<>>]
  /\ UNCHANGED log

(* Another component of the mission appends an event. *)
Elsewhere(e) == log' = Append(log, e) /\ UNCHANGED todo
=============================================================================
