-------------------------- MODULE MCAlertWorkflow --------------------------
(* Model-checking instances of AlertWorkflow. *)
EXTENDS AlertWorkflow, TLC

CONSTANTS ann, bob, agent, c1, c2, d1, d2

OneHuman == {ann}
TwoHumans == {ann, bob}
OneService == {agent}
OnlyAnn == {ann}
TwoCalls == {c1, c2}
OneDecision == {d1}

Symmetries == Permutations(Calls) \cup Permutations(Decisions)
=============================================================================
