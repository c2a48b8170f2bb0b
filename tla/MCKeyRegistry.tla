--------------------------- MODULE MCKeyRegistry ---------------------------
(* Model-checking instances of KeyRegistry. *)
EXTENDS KeyRegistry, TLC

CONSTANTS ann, bob, human, service, k1, k2, k3, c1, c2

TwoActors == {ann, bob}
OneActor == {ann}
TwoKinds == {human, service}
OneKind == {human}
ThreeKeys == {k1, k2, k3}
TwoKeys == {k1, k2}
OneCall == {c1}
TwoCalls == {c1, c2}

Symmetries == UNION {Permutations(S) : S \in {Calls, Keys, Actors, Kinds}}
=============================================================================
