-------------------------- MODULE MCReportWorkflow --------------------------
(***************************************************************************)
(* Model-checking instances of ReportWorkflow.  A behaviour is of one      *)
(* part, which goes deep in one direction: dissent that is opened, closed  *)
(* and reopened around the review of one text, which may lose its claim,   *)
(* or signed approvals next to plain ones while the text is revised.       *)
(***************************************************************************)
EXTENDS ReportWorkflow, TLC

CONSTANTS ann, bob, agent, c1, c2, n1, d1

VARIABLE part

(* What a command decides now, by its first event. *)
First == {todo'[c][1] : c \in {d \in Calls : todo[d] = <<>> /\ todo'[d] # <<>>}}
Dissenting ==
  /\ requests' = {}
  /\ \A e \in First : e.type = "report" =>
       /\ e.version < 4 /\ e.author \in Humans /\ e.cites /\ e.status \notin Rejections
       /\ e.status = "DRAFT" => e.version = 1
Signing ==
  /\ \A q \in requests' : q.acknowledged = {}
  /\ \A e \in First : e.type # "annotation" /\ (e.type = "report" => ~e.cites /\ (e.version = 1 => e.author # bob))
  /\ Len(log') = 0 \/ log'[Len(log')].type # "retraction"

MCInit == part \in {"dissenting", "signing"} /\ Init
MCNext ==
  /\ Next /\ UNCHANGED part
  /\ part = "dissenting" => Dissenting
  /\ part = "signing" => Signing
MCSpec == MCInit /\ [][MCNext]_<<vars, part>>

TwoHumans == {ann, bob}
OnlyAnn == {ann}
OneService == {agent}
TwoCalls == {c1, c2}
OneNonce == {n1}
OneNote == {d1}

CallSymmetry == Permutations(Calls)
=============================================================================
