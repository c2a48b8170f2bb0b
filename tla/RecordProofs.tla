----------------------------- MODULE RecordProofs -----------------------------
(***************************************************************************)
(* No command of the analytic plane builds a record that its own           *)
(* constructor refuses, for every set of calls and of objects and however  *)
(* the commands interleave.                                                *)
(***************************************************************************)
EXTENDS AnalyticProofs

-----------------------------------------------------------------------------
(* An image is no larger than the set. *)
LEMMA SmallerImage ==
  ASSUME NEW D, IsFiniteSet(D), NEW f, f = [x \in D |-> f[x]]
  PROVE  LET R == {f[x] : x \in D} IN IsFiniteSet(R) /\ Cardinality(R) \in Nat /\ Cardinality(R) <= Cardinality(D)
<1> DEFINE R == {f[x] : x \in D}
<1>1. f \in [D -> R] /\ \A y \in R : \E x \in D : f[x] = y
  OBVIOUS
<1> HIDE DEF R
<1>2. f \in Surjection(D, R)
  BY <1>1 DEF Surjection
<1>3. IsFiniteSet(R) /\ Cardinality(R) <= Cardinality(D)
  BY <1>2, FS_Surjection
<1>. QED BY <1>3, FS_CardinalityType DEF R

LEMMA FewerImages ==
  ASSUME NEW sup, IsFiniteSet(sup)
  PROVE  LET R == {Family[c] : c \in sup} IN IsFiniteSet(R) /\ Cardinality(R) \in Nat /\ Cardinality(R) <= Cardinality(sup)
<1> DEFINE f == [c \in sup |-> Family[c]]
           R == {Family[c] : c \in sup}
<1>1. f = [x \in sup |-> f[x]] /\ {f[x] : x \in sup} = R
  OBVIOUS
<1> HIDE DEF f, R
<1>2. IsFiniteSet(R) /\ Cardinality(R) \in Nat /\ Cardinality(R) <= Cardinality(sup)
  BY <1>1, SmallerImage
<1>. QED BY <1>2 DEF R

LEMMA FewerFamilies ==
  ASSUME NEW seen, IsFiniteSet(seen)
  PROVE  LET R == {e.family : e \in seen} IN IsFiniteSet(R) /\ Cardinality(R) \in Nat /\ Cardinality(R) <= Cardinality(seen)
<1> DEFINE f == [e \in seen |-> e.family]
           R == {e.family : e \in seen}
<1>1. f = [x \in seen |-> f[x]] /\ {f[x] : x \in seen} = R
  OBVIOUS
<1> HIDE DEF f, R
<1>2. IsFiniteSet(R) /\ Cardinality(R) \in Nat /\ Cardinality(R) <= Cardinality(seen)
  BY <1>1, SmallerImage
<1>. QED BY <1>2 DEF R

(* The weakest of some authorities is among the weakest. *)
LEMMA WeakestRanks ==
  ASSUME NEW p \in DOMAIN Paths
  PROVE  Paths[p].authorities # {} /\ \A level \in Paths[p].authorities : Rank(level) <= Rank(Weakest(Paths[p].authorities))
<1> DEFINE levels == Paths[p].authorities
           ranks  == {Rank(level) : level \in levels}
<1>1. levels # {} /\ levels \subseteq ToSet(Authorities)
  BY ImpactAssumption
<1>2. DOMAIN Authorities = 1 .. 7
  BY DEF Authorities
<1>3. ASSUME NEW level \in ToSet(Authorities) PROVE Rank(level) \in 1 .. 7 /\ Authorities[Rank(level)] = level
  <2>1. \E n \in DOMAIN Authorities : Authorities[n] = level
    BY DEF ToSet
  <2>. QED BY <1>2, <2>1 DEF Rank
<1>4. ASSUME NEW n \in 1 .. 7 PROVE Rank(Authorities[n]) = n
  <2>1. Authorities[n] \in ToSet(Authorities)
    BY <1>2 DEF ToSet
  <2>2. Rank(Authorities[n]) \in 1 .. 7 /\ Authorities[Rank(Authorities[n])] = Authorities[n]
    BY <1>3, <2>1
  <2>3. \A k, m \in 1 .. 7 : Authorities[k] = Authorities[m] => k = m
    <3>1. ASSUME NEW k \in 1 .. 7, NEW m \in 1 .. 7, Authorities[k] = Authorities[m] PROVE k = m
      <4>1. k \in {1, 2, 3, 4, 5, 6, 7} /\ m \in {1, 2, 3, 4, 5, 6, 7}
        OBVIOUS
      <4>. QED BY <3>1, <4>1 DEF Authorities
    <3>. QED BY <3>1
  <2>. QED BY <2>2, <2>3
<1>5. ranks \subseteq 1 .. 7 /\ ranks # {}
  BY <1>1, <1>3
<1> HIDE DEF ranks, levels
<1>6. Max(ranks) \in ranks /\ \A x \in ranks : x <= Max(ranks)
  <2>1. 7 \in Nat /\ ranks \subseteq 1 .. 7
    BY <1>5
  <2>. QED BY <1>5, <2>1, MaxOf
<1>7. Rank(Weakest(levels)) = Max(ranks)
  BY <1>4, <1>5, <1>6 DEF Weakest, ranks
<1>8. \A level \in levels : Rank(level) <= Rank(Weakest(levels))
  BY <1>6, <1>7 DEF ranks
<1>. QED BY <1>1, <1>8 DEF levels

-----------------------------------------------------------------------------
(***************************************************************************)
(* Every record passes its constructor, in the whole of the analytic       *)
(* plane.  What a command writes is worked out from records that were      *)
(* written before and from what the command was given; so what is well     *)
(* made stays so (WellMade), if a step in a queue still finds what it was  *)
(* worked out for (Needs).                                                 *)
(***************************************************************************)

Sayable(e) == \E kind \in DOMAIN Subjects : e.id \in Subjects[kind] /\ e.what \in TransitionTypes[kind]

Filed == {T, N, "variant", "edge", A, U, "objective", "assumption", "path", "option", W, E, "analogue", F, "indicator"}

(* All that the constructors ask, but for the version. *)
Tells(e) ==
  /\ e.type = T =>
       /\ {"status", "basis", "lineage"} \subseteq DOMAIN e /\ e.id \in ThemeIds
       /\ e.status \in MachineStatuses \cup Retired /\ e.basis.sup # {} /\ BasisContract(e.basis)
       /\ \A p \in e.lineage : p[1] \in {"MERGED_FROM", "MERGED_INTO", "SPLIT_FROM", "SPLIT_INTO"}
  /\ e.type = N =>
       /\ {"status", "basis"} \subseteq DOMAIN e /\ e.id \in Statements
       /\ e.status \in {"ACTIVE", "DORMANT", "CONTESTED", "RESOLVED", "SUPERSEDED"}
       /\ e.basis.sup # {} /\ BasisContract(e.basis)
  /\ e.type = "variant" => "claims" \in DOMAIN e /\ e.claims \in (SUBSET Claims) \ {{}} /\ e.id[2] \in DOMAIN Forms
  /\ e.type = "edge" =>
       /\ "relation" \in DOMAIN e /\ e.id[2] # e.id[3]
       /\ e.relation = "SAME_ORIGIN_FAMILY" => e.id[2].family = e.id[3].family
       /\ e.relation \in {"INDEPENDENT_ADOPTION", "LIKELY_DERIVATIVE"} => e.id[2].family # e.id[3].family
Judges(e) ==
  /\ e.type = A =>
       /\ {"positions", "basis"} \subseteq DOMAIN e /\ e.id \in Assessed
       /\ IsSeq(e.positions) /\ (e.positions # <<>> \/ e.basis.sup # {}) /\ BasisContract(e.basis)
       /\ \A p \in Held(e) : p \in DOMAIN Offers /\ PositionContract(p)
  /\ e.type = U => "status" \in DOMAIN e /\ e.id \in DOMAIN Influences /\ e.status \in {"ACTIVE", "SUPERSEDED", "RETIRED"}
  /\ e.type = "objective" => "status" \in DOMAIN e /\ e.id \in DOMAIN Objectives /\ e.status \in {"ACTIVE", "EXPOSED"}
  /\ e.type = "assumption" =>
       /\ {"status", "sup", "con", "objectives"} \subseteq DOMAIN e /\ e.id \in DOMAIN Assumptions
       /\ e.status \in {"HELD", "UNCERTAIN", "INVALIDATED"} /\ e.sup \cup e.con \subseteq Claims /\ IsFiniteSet(e.objectives)
  /\ e.type = "path" =>
       /\ {"status", "authority"} \subseteq DOMAIN e /\ e.id \in DOMAIN Paths
       /\ e.status \in {"ASSESSED", "STALE"} /\ e.authority = Weakest(Paths[e.id].authorities)
  /\ e.type = "option" =>
       /\ {"status", "actor"} \subseteq DOMAIN e /\ e.id \in DOMAIN ResponseOptions
       /\ e.status \in {"PROPOSED", "ACCEPTED", "REJECTED"} /\ (e.status = "ACCEPTED" => e.actor # "")
Warns(e) ==
  /\ e.type = W =>
       /\ {"status", "tier"} \subseteq DOMAIN e /\ e.id \in DOMAIN Objectives /\ e.tier \in Tiers
       /\ e.status \in {"ACTIVE", "ESCALATED", "DOWNGRADED", "RESOLVED"}
  /\ e.type = E => "claims" \in DOMAIN e /\ e.id \in DOMAIN Episodes /\ e.claims # {}
  /\ e.type = "analogue" => "matched" \in DOMAIN e /\ e.id[2] \in DOMAIN Episodes /\ e.matched # {}
  /\ e.type = F =>
       /\ {"status", "p", "rule", "indicators", "basis"} \subseteq DOMAIN e
       /\ e.status \in Statuses /\ e.p \in Odds /\ e.rule \in Rules /\ e.indicators \subseteq ToSet(Indicators)
       /\ BasisContract(e.basis)
  /\ e.type = "indicator" => "status" \in DOMAIN e /\ e.id \in ToSet(Indicators) /\ e.status \in IndicatorStatuses
Speaks(e) ==
  /\ e.type \in {"transition", "ensure"} => {"what", "cause"} \subseteq DOMAIN e /\ ~Versioned(e) /\ Sayable(e)
  /\ e.type = "seen" => "time" \in DOMAIN e /\ e.time \in Nat
WellMade(e) ==
  /\ {"type", "id"} \subseteq DOMAIN e
  /\ e.type \in Filed => Versioned(e) /\ e.version \in Nat
  /\ Tells(e) /\ Judges(e) /\ Warns(e) /\ Speaks(e)

Written(e) ==
  /\ WellMade(e)
  /\ e.type \in Filed => e.version >= 1
  /\ e.type = "analogue" => e.version = 1
Sound(l) == IsSeq(l) /\ \A n \in 1 .. Len(l) : Written(l[n])

(* What a step needs to find. *)
Was(e, type) == WellMade(e) /\ e.type = type
Given(what, p) ==
  /\ what = "part" => p[2] \in DOMAIN Parts
  /\ what = "membership" => p[2] \subseteq Claims /\ p[3] \subseteq Claims
  /\ what = "retell" => Was(p.was, N) /\ p.sup \subseteq Claims /\ p.con \subseteq Claims
  /\ what = "join" => Was(p.was, N) /\ p.form \in DOMAIN Forms
  /\ what = "recheck" => p.ps \in Seq(DOMAIN Offers) /\ p.claims \subseteq Claims
  /\ what = "more" => /\ {"was", "ps", "claims"} \subseteq DOMAIN p /\ Was(p.was, A)
                      /\ p.ps \in Seq(DOMAIN Offers) /\ p.claims \subseteq Claims
  /\ what = "caveats" => Was(p, A)
  /\ what = "assess" => p.id \in Assessed /\ p.p \in DOMAIN Offers
  /\ what = "assert" => p \in DOMAIN Influences
  /\ what = "fold assumption" => /\ Was(p.was, "assumption") /\ p.id = p.was.id
                                 /\ p.claims \subseteq Claims /\ IsFiniteSet(p.objectives)
  /\ what = "object" => IsFiniteSet(p[2])
  /\ what = "evidence" => Was(p.was, F) /\ p.sup \subseteq Claims /\ p.con \subseteq Claims
  /\ what = "fold" => p \in ToSet(Indicators)
  /\ what = "check" => Was(p, "indicator")
  /\ what = "add to episode" => Was(p.was, E)
  /\ what = "analogue" => p[2] \in DOMAIN Episodes /\ Like(p[1], p[2]) # {}
Found(l, what, p) ==
  /\ what = "membership" => Known(l, T, p[1])
  /\ what = "recheck" => Known(l, A, p.id)
  /\ what = "more" => Known(l, A, p.was.id)
  /\ what = "fallout" => Known(l, "assumption", p)
  /\ what = "stale" => Known(l, "path", p[1])
Needs(l, what, p) == Given(what, p) /\ Found(l, what, p)

(* An event that a command has decided on: it is stamped when it comes     *)
(* first in the queue.                                                     *)
Proper(S, l, e) ==
  /\ WellMade(e)
  /\ e.type = "analogue" => e.version = 0
  /\ e.type = "step" => e = Step(e.what, e.id) /\ e.what \in S /\ Needs(l, e.what, e.id)
Made(S, l, q) == IsSeq(q) /\ \A n \in 1 .. Len(q) : Proper(S, l, q[n])
Waiting(S, l, q) ==
  /\ IsSeq(q)
  /\ \A n \in 2 .. Len(q) : Proper(S, l, q[n])
  /\ q # <<>> => Written(q[1]) /\ (q[1].type = "step" => Proper(S, l, q[1]))

RInv == Sound(log) /\ DOMAIN todo = Calls /\ \A c \in Calls : Waiting(AllSteps, log, todo[c])


(***************************************************************************)
(* Bases.                                                                  *)
(***************************************************************************)
(* A basis is built from claims: what went bad of it is part of it, and it *)
(* has no more sources than sightings.                                     *)
LEMMA BasisHolds ==
  ASSUME NEW l, IsSeq(l), NEW sup, sup \subseteq Claims, NEW con, con \subseteq Claims
  PROVE  BasisContract(Basis(l, sup, con)) /\ Basis(l, sup, con).sup = sup /\ Basis(l, sup, con).con = con
<1> DEFINE b    == Basis(l, sup, con)
           bad  == sup \cap Degraded(l)
           seen == Seen(l, sup)
           own  == {Family[c] : c \in sup}
           else == {e.family : e \in seen}
<1>1. /\ b.sup = sup /\ b.con = con /\ b.deg = Cardinality(bad) /\ b.fam = own \cup else
      /\ b.obs = Cardinality(sup) + Cardinality(seen)
  BY DEF Basis
<1>2. IsFiniteSet(sup) /\ IsFiniteSet(bad) /\ Cardinality(bad) \in Nat /\ Cardinality(sup) \in Nat /\ Cardinality(bad) <= Cardinality(sup)
  <2>1. IsFiniteSet(sup)
    BY AnalyticAssumption, FS_Subset
  <2>. QED BY <2>1, FS_Subset, FS_CardinalityType
<1>3. IsFiniteSet(seen) /\ Cardinality(seen) \in Nat
  <2>1. seen \subseteq Evidence(l, "seen")
    BY DEF Seen
  <2>. QED BY <2>1, EvidenceFinite, FS_Subset, FS_CardinalityType
<1> HIDE DEF b, bad, seen
<1>4. IsFiniteSet(own) /\ Cardinality(own) <= Cardinality(sup) /\ Cardinality(own) \in Nat
  BY <1>2, FewerImages
<1>5. IsFiniteSet(else) /\ Cardinality(else) <= Cardinality(seen) /\ Cardinality(else) \in Nat
  BY <1>3, FewerFamilies
<1> HIDE DEF own, else
<1>6. Cardinality(own \cup else) \in Nat /\ Cardinality(own \cup else) <= Cardinality(own) + Cardinality(else)
  <2>1. Cardinality(own \cup else) = Cardinality(own) + Cardinality(else) - Cardinality(own \cap else)
    BY <1>4, <1>5, FS_Union
  <2>2. Cardinality(own \cap else) \in Nat
    BY <1>4, FS_Intersection, FS_CardinalityType
  <2>3. Cardinality(own \cup else) \in Nat
    BY <1>4, <1>5, FS_Union, FS_CardinalityType
  <2>. QED BY <1>4, <1>5, <2>1, <2>2, <2>3
<1>7. BasisContract(b)
  BY <1>1, <1>2, <1>3, <1>4, <1>5, <1>6 DEF BasisContract
<1>. QED BY <1>1, <1>7 DEF b

LEMMA Rebuilt ==
  ASSUME NEW l, IsSeq(l), NEW b, BasisContract(b)
  PROVE  BasisContract(Rebased(l, b)) /\ Rebased(l, b).sup = b.sup /\ Rebased(l, b).con = b.con
<1>1. b.sup \subseteq Claims /\ b.con \subseteq Claims
  BY DEF BasisContract
<1>. QED BY <1>1, BasisHolds DEF Rebased

LEMMA Widens ==
  ASSUME NEW l, IsSeq(l), NEW b, BasisContract(b), NEW sup \in SUBSET Claims, NEW con \in SUBSET Claims
  PROVE  BasisContract(Widened(l, b, sup, con)) /\ (b.sup # {} => Widened(l, b, sup, con).sup # {})
<1>1. b.sup \cup sup \subseteq Claims /\ b.con \cup con \subseteq Claims
  BY DEF BasisContract
<1>2. BasisContract(Widened(l, b, sup, con))
  BY <1>1, BasisHolds DEF Widened
<1>3. Widened(l, b, sup, con).sup = b.sup \cup sup
  BY BasisSup
<1>. QED BY <1>2, <1>3

(***************************************************************************)
(* Queues.                                                                 *)
(***************************************************************************)
LEMMA MadeNone ==
  ASSUME NEW S, NEW l
  PROVE  Made(S, l, <<>>)
<1>1. IsSeq(<<>>) /\ Len(<<>>) = 0
  BY EmptySeq, AnySeq
<1>. QED BY <1>1 DEF Made

LEMMA MadeOne ==
  ASSUME NEW S, NEW l, NEW e, Proper(S, l, e)
  PROVE  Made(S, l, <<e>>)
<1> DEFINE q == <<e>>
<1>1. IsSeq(q) /\ Len(q) = 1 /\ q[1] = e
  BY Single
<1> HIDE DEF q
<1>2. Made(S, l, q)
  BY <1>1 DEF Made
<1>. QED BY <1>2 DEF q

LEMMA MadeJoined ==
  ASSUME NEW S, NEW l, NEW q, Made(S, l, q), NEW r, Made(S, l, r)
  PROVE  Made(S, l, q \o r)
<1> DEFINE p == q \o r
<1>1. IsSeq(q) /\ IsSeq(r) /\ Len(q) \in Nat /\ Len(r) \in Nat
  BY SeqFacts DEF Made
<1>2. /\ IsSeq(p) /\ Len(p) = Len(q) + Len(r)
      /\ \A n \in 1 .. Len(q) : p[n] = q[n]
      /\ \A n \in 1 .. Len(r) : p[Len(q) + n] = r[n]
  BY <1>1, Joined
<1> HIDE DEF p
<1>3. ASSUME NEW n \in 1 .. Len(p) PROVE Proper(S, l, p[n])
  <2>1. CASE n \in 1 .. Len(q)
    BY <2>1, <1>2 DEF Made
  <2>2. CASE n \notin 1 .. Len(q)
    <3>1. n - Len(q) \in 1 .. Len(r) /\ n = Len(q) + (n - Len(q))
      BY <2>2, <1>1, <1>2
    <3>. QED BY <3>1, <1>2 DEF Made
  <2>. QED BY <2>1, <2>2
<1>4. Made(S, l, p)
  BY <1>2, <1>3 DEF Made
<1>. QED BY <1>4 DEF p

LEMMA MadePair ==
  ASSUME NEW S, NEW l, NEW a, Proper(S, l, a), NEW b, Proper(S, l, b)
  PROVE  Made(S, l, <<a, b>>)
<1>1. Made(S, l, <<a>> \o <<b>>)
  BY MadeOne, MadeJoined
<1>. QED BY <1>1, PairOf

LEMMA MadeMapped ==
  ASSUME NEW S, NEW l, NEW n \in Nat, NEW f, f = [k \in 1 .. n |-> f[k]], \A k \in 1 .. n : Proper(S, l, f[k])
  PROVE  Made(S, l, f)
BY MapLength DEF Made

(* What waits keeps waiting while others append. *)
LEMMA StillProper ==
  ASSUME NEW S, NEW l, IsSeq(l), NEW m, Extends(m, l), NEW e, Proper(S, l, e)
  PROVE  Proper(S, m, e)
<1>1. \A t, id : Known(l, t, id) => Known(m, t, id)
  BY StillKnown
<1>2. \A what, p : Found(l, what, p) => Found(m, what, p)
  BY <1>1 DEF Found
<1>. QED BY <1>2 DEF Proper, Needs

LEMMA StillWaiting ==
  ASSUME NEW S, NEW l, IsSeq(l), NEW m, Extends(m, l), NEW q, Waiting(S, l, q)
  PROVE  Waiting(S, m, q)
BY StillProper DEF Waiting

LEMMA MoreWaiting ==
  ASSUME NEW S, NEW R, S \subseteq R, NEW l, NEW q, Waiting(S, l, q)
  PROVE  Waiting(R, l, q)
<1>1. \A e : Proper(S, l, e) => Proper(R, l, e)
  BY DEF Proper
<1>. QED BY <1>1 DEF Waiting

(* Another version number. *)
LEMMA WellMadeVersion ==
  ASSUME NEW e, WellMade(e), Versioned(e), NEW v \in Nat
  PROVE  LET f == [e EXCEPT !.version = v] IN
         WellMade(f) /\ Versioned(f) /\ f.version = v /\ f.type = e.type /\ f.id = e.id
<1> DEFINE f == [e EXCEPT !.version = v]
<1>1. DOMAIN f = DOMAIN e /\ "version" \in DOMAIN e /\ f.version = v
  BY DEF Versioned
<1>2. \A x \in DOMAIN e : x # "version" => f[x] = e[x]
  OBVIOUS
<1> HIDE DEF f
<1>3. {"type", "id"} \subseteq DOMAIN e /\ f.type = e.type /\ f.id = e.id
  BY <1>2 DEF WellMade, Tells, Judges, Warns, Speaks
<1>4. Versioned(f) /\ ~(e.type \in {"transition", "ensure"})
  BY <1>1 DEF Versioned, WellMade, Speaks
<1>5. /\ "status" \in DOMAIN e => f.status = e.status
      /\ "basis" \in DOMAIN e => f.basis = e.basis
      /\ "lineage" \in DOMAIN e => f.lineage = e.lineage
      /\ "claims" \in DOMAIN e => f.claims = e.claims
      /\ "relation" \in DOMAIN e => f.relation = e.relation
      /\ "positions" \in DOMAIN e => f.positions = e.positions
      /\ "sup" \in DOMAIN e => f.sup = e.sup
      /\ "con" \in DOMAIN e => f.con = e.con
      /\ "objectives" \in DOMAIN e => f.objectives = e.objectives
      /\ "authority" \in DOMAIN e => f.authority = e.authority
      /\ "actor" \in DOMAIN e => f.actor = e.actor
      /\ "tier" \in DOMAIN e => f.tier = e.tier
      /\ "matched" \in DOMAIN e => f.matched = e.matched
      /\ "p" \in DOMAIN e => f.p = e.p
      /\ "rule" \in DOMAIN e => f.rule = e.rule
      /\ "indicators" \in DOMAIN e => f.indicators = e.indicators
      /\ "time" \in DOMAIN e => f.time = e.time
  BY <1>2
<1>6. "positions" \in DOMAIN e => Held(f) = Held(e)
  BY <1>5 DEF Held
<1>7. WellMade(f)
  <2>1. Tells(f)
    BY <1>1, <1>3, <1>5 DEF WellMade, Tells
  <2>2. Judges(f)
    BY <1>1, <1>3, <1>5, <1>6 DEF WellMade, Judges
  <2>3. Warns(f) /\ Speaks(f)
    BY <1>1, <1>3, <1>4, <1>5 DEF WellMade, Warns, Speaks
  <2>. QED BY <1>1, <1>3, <1>4, <2>1, <2>2, <2>3 DEF WellMade
<1>. QED BY <1>1, <1>3, <1>4, <1>7 DEF f

(* What comes first is stamped with its version. *)
LEMMA StampProper ==
  ASSUME NEW S, NEW l, IsSeq(l), NEW e, Proper(S, l, e)
  PROVE  LET f == Stamp(l, e) IN Written(f) /\ (f.type = "step" => Proper(S, l, f))
<1> DEFINE f == Stamp(l, e)
<1>1. WellMade(e) /\ {"type", "id"} \subseteq DOMAIN e
  BY DEF Proper, WellMade
<1>2. CASE Versioned(e)
  <2>1. e.type \notin {"ensure", "step"}
    <3>1. e.type = "step" => e = Step(e.what, e.id)
      BY DEF Proper
    <3>2. \A what, id : ~Versioned(Step(what, id))
      BY DEF Versioned, Step
    <3>3. e.type = "step" => FALSE
      BY <1>2, <3>1, <3>2
    <3>. QED BY <1>1, <1>2, <3>3 DEF WellMade, Tells, Judges, Warns, Speaks
  <2>2. f = [e EXCEPT !.version = IF e.version = 0 THEN 1 ELSE NextVersion(l, e)]
    BY <1>2, <2>1, StampVersion
  <2> DEFINE v == IF e.version = 0 THEN 1 ELSE NextVersion(l, e)
  <2>3. v \in Nat /\ v >= 1
    <3>1. Cardinality(Versions(l, e.type, e.id)) \in Nat
      BY VersionsFacts
    <3>. QED BY <3>1 DEF NextVersion
  <2> HIDE DEF f, v
  <2>4. f = [e EXCEPT !.version = v]
    BY <2>2 DEF v
  <2>5. WellMade(f) /\ f.version = v /\ f.type = e.type
    BY <1>1, <1>2, <2>3, <2>4, WellMadeVersion
  <2>6. e.type = "analogue" => v = 1
    BY DEF Proper, v
  <2>7. Written(f)
    BY <2>3, <2>5, <2>6 DEF Written
  <2>. QED BY <2>1, <2>5, <2>7 DEF f
<1>3. CASE ~Versioned(e) /\ e.type = "ensure"
  <2>1. f = Transition(e.id, e.what, e.cause)
    BY <1>3 DEF Stamp
  <2>2. f.type = "transition" /\ f.id = e.id /\ f.what = e.what /\ DOMAIN f = {"type", "id", "what", "cause"} /\ ~Versioned(f)
    BY <2>1 DEF Transition, Versioned
  <2> HIDE DEF f
  <2>3. Sayable(f)
    BY <1>1, <1>3, <2>2 DEF WellMade, Tells, Judges, Warns, Speaks, Sayable
  <2>4. WellMade(f)
    BY <2>2, <2>3 DEF WellMade, Tells, Judges, Warns, Speaks, Filed, T, N, A, U, W, E, F
  <2>5. Written(f)
    BY <2>2, <2>4 DEF Written, Filed, T, N, A, U, W, E, F
  <2>. QED BY <2>2, <2>5 DEF f
<1>4. CASE ~Versioned(e) /\ e.type # "ensure"
  <2>1. f = e
    BY <1>4 DEF Stamp
  <2>2. e.type \notin Filed
    BY <1>1, <1>4 DEF WellMade, Tells, Judges, Warns, Speaks
  <2>3. Written(e)
    BY <1>1, <2>2 DEF Written, Filed
  <2>. QED BY <2>1, <2>3
<1>. QED BY <1>2, <1>3, <1>4

(* What Settle leaves of what a command has decided on. *)
LEMMA SettleWaiting ==
  ASSUME NEW S, NEW l, IsSeq(l), NEW d, Made(S, l, d)
  PROVE  Waiting(S, l, Settle(l, d))
<1>1. IsSeq(d)
  BY DEF Made
<1>2. PICK h : Left(l, d, Settle(l, d), h)
  BY <1>1, SettleLeaves
<1> DEFINE q == Settle(l, d)
<1> HIDE DEF q
<1>0. Left(l, d, q, h)
  BY <1>2 DEF q
<1>3. /\ IsSeq(q) /\ Len(q) \in Nat /\ Len(d) \in Nat
      /\ \A n \in 1 .. Len(q) : h[n] \in 1 .. Len(d) /\ ~Superfluous(l, d[h[n]])
      /\ \A n \in 1 .. Len(q) : q[n] = IF n = 1 THEN Stamp(l, d[h[n]]) ELSE d[h[n]]
      /\ \A n, k \in 1 .. Len(q) : h[n] < h[k] => n < k
      /\ \A n \in 2 .. Len(q) : h[n] >= 2
  BY <1>0, <1>1, LeftFacts
<1>4. \A n \in 1 .. Len(q) : Proper(S, l, d[h[n]])
  BY <1>3 DEF Made
<1>5. ASSUME NEW n \in 2 .. Len(q) PROVE Proper(S, l, q[n])
  <2>1. n \in 1 .. Len(q) /\ n # 1
    BY <1>3
  <2>. QED BY <1>3, <1>4, <2>1
<1>6. ASSUME q # <<>> PROVE Written(q[1]) /\ (q[1].type = "step" => Proper(S, l, q[1]))
  <2>1. 1 \in 1 .. Len(q)
    BY <1>3, <1>6, SeqFacts
  <2>2. q[1] = Stamp(l, d[h[1]])
    BY <1>3, <2>1
  <2>. QED BY <1>4, <2>1, <2>2, StampProper
<1>7. Waiting(S, l, q)
  BY <1>3, <1>5, <1>6 DEF Waiting
<1>. QED BY <1>7 DEF q

(***************************************************************************)
(* What is proper of itself.                                               *)
(***************************************************************************)
LEMMA PlainProper ==
  ASSUME NEW S, NEW l, NEW e, {"type", "id"} \subseteq DOMAIN e, e.type \notin Filed \cup {"transition", "ensure", "step", "seen"}
  PROVE  Proper(S, l, e) /\ Written(e)
<1>1. WellMade(e)
  BY DEF WellMade, Tells, Judges, Warns, Speaks, Filed, T, N, A, U, W, E, F
<1>. QED BY <1>1 DEF Proper, Written, Filed

LEMMA ItemProper ==
  ASSUME NEW S, NEW l, NEW id, NEW status
  PROVE  Proper(S, l, Item(id, status)) /\ Proper(S, l, Proposal(id, status))
<1> DEFINE e == Item(id, status)
           f == Proposal(id, status)
<1>1. {"type", "id"} \subseteq DOMAIN e /\ e.type = "item"
  BY DEF Item
<1>2. {"type", "id"} \subseteq DOMAIN f /\ f.type = "proposal"
  BY DEF Proposal
<1> HIDE DEF e, f
<1>3. Proper(S, l, e) /\ Proper(S, l, f)
  BY <1>1, <1>2, PlainProper DEF Filed, T, N, A, U, W, E, F
<1>. QED BY <1>3 DEF e, f

LEMMA StepProper ==
  ASSUME NEW S, NEW l, NEW what \in S, NEW id, Needs(l, what, id)
  PROVE  Proper(S, l, Step(what, id))
<1> DEFINE e == Step(what, id)
<1>1. {"type", "id", "what"} \subseteq DOMAIN e /\ e.type = "step" /\ e.what = what /\ e.id = id /\ e = Step(e.what, e.id)
  BY DEF Step
<1> HIDE DEF e
<1>2. WellMade(e)
  BY <1>1 DEF WellMade, Tells, Judges, Warns, Speaks, Filed, T, N, A, U, W, E, F
<1>3. Proper(S, l, e)
  BY <1>1, <1>2 DEF Proper
<1>. QED BY <1>3 DEF e

(* A transition says something that can be said of its subject. *)
LEMMA SaysProper ==
  ASSUME NEW S, NEW l, NEW kind \in DOMAIN Subjects, NEW id \in Subjects[kind], NEW what \in TransitionTypes[kind], NEW cause
  PROVE  Proper(S, l, Transition(id, what, cause)) /\ Proper(S, l, Ensure(id, what, cause))
<1> DEFINE e == Transition(id, what, cause)
           f == Ensure(id, what, cause)
<1>1. e.type = "transition" /\ e.id = id /\ e.what = what /\ DOMAIN e = {"type", "id", "what", "cause"} /\ ~Versioned(e)
  BY DEF Transition, Versioned
<1>2. f.type = "ensure" /\ f.id = id /\ f.what = what /\ DOMAIN f = {"type", "id", "what", "cause"} /\ ~Versioned(f)
  BY DEF Ensure, Versioned
<1> HIDE DEF e, f
<1>3. Sayable(e) /\ Sayable(f)
  BY <1>1, <1>2 DEF Sayable
<1>4. WellMade(e)
  BY <1>1, <1>3 DEF WellMade, Tells, Judges, Warns, Speaks, Filed, T, N, A, U, W, E, F
<1>5. WellMade(f)
  BY <1>2, <1>3 DEF WellMade, Tells, Judges, Warns, Speaks, Filed, T, N, A, U, W, E, F
<1>6. Proper(S, l, e) /\ Proper(S, l, f)
  BY <1>1, <1>2, <1>4, <1>5 DEF Proper
<1>. QED BY <1>6 DEF e, f

(* What can be said of what, engine by engine. *)
Says(S, l, subjects, words) ==
  \A id \in subjects, what \in words : \A cause : Proper(S, l, Transition(id, what, cause)) /\ Proper(S, l, Ensure(id, what, cause))
LEMMA Said ==
  ASSUME NEW S, NEW l
  PROVE  /\ Says(S, l, ThemeIds, TransitionTypes.theme)
         /\ Says(S, l, Statements, TransitionTypes.narrative)
         /\ Says(S, l, Assessed, TransitionTypes.assessment)
         /\ Says(S, l, DOMAIN Influences, TransitionTypes.influence)
         /\ Says(S, l, DOMAIN Objectives, TransitionTypes.objective)
         /\ Says(S, l, DOMAIN Assumptions, TransitionTypes.assumption)
         /\ Says(S, l, DOMAIN Paths, TransitionTypes.path)
         /\ Says(S, l, DOMAIN ResponseOptions, TransitionTypes.option)
         /\ Says(S, l, DOMAIN Episodes, TransitionTypes.episode)
         /\ Says(S, l, {F}, TransitionTypes.forecast)
         /\ Says(S, l, ToSet(Indicators), TransitionTypes.indicator)
<1>1. \A kind \in DOMAIN Subjects : Says(S, l, Subjects[kind], TransitionTypes[kind])
  BY SaysProper DEF Says
<1>. QED BY <1>1 DEF Subjects

(* The last version of a record was written too. *)
LEMMA CurrentWritten ==
  ASSUME NEW l, Sound(l), NEW t, NEW id, Known(l, t, id)
  PROVE  /\ Written(Current(l, t, id)) /\ WellMade(Current(l, t, id))
         /\ Current(l, t, id).type = t /\ Current(l, t, id).id = id
<1>1. IsSeq(l)
  BY DEF Sound
<1>2. PICK i \in Versions(l, t, id) : Current(l, t, id) = l[i]
  BY <1>1, CurrentFacts
<1>3. i \in 1 .. Len(l) /\ l[i].type = t /\ l[i].id = id
  BY <1>1, <1>2, VersionsFacts
<1>. QED BY <1>2, <1>3 DEF Sound, Written

LEMMA SoundAppend ==
  ASSUME NEW l, Sound(l), NEW e, Written(e)
  PROVE  Sound(Append(l, e)) /\ Extends(Append(l, e), l)
<1>1. IsSeq(l) /\ Len(l) \in Nat
  BY SeqFacts DEF Sound
<1>2. /\ IsSeq(Append(l, e)) /\ Len(Append(l, e)) = Len(l) + 1
      /\ \A n \in 1 .. Len(l) : Append(l, e)[n] = l[n]
      /\ Append(l, e)[Len(l) + 1] = e
  BY <1>1, Appended
<1>3. ASSUME NEW n \in 1 .. Len(l) + 1 PROVE Written(Append(l, e)[n])
  <2>1. n \in 1 .. Len(l) \/ n = Len(l) + 1
    BY <1>1
  <2>. QED BY <1>2, <2>1 DEF Sound
<1>. QED BY <1>1, <1>2, <1>3, AppendExtends DEF Sound

(* A log of such records is what RecordsHold asks. *)
LEMMA LawRecords == Sound(log) => RecordsHold
<1> SUFFICES ASSUME Sound(log) PROVE RecordsHold
  OBVIOUS
<1>1. DOMAIN log = 1 .. Len(log)
  BY SeqFacts DEF Sound
<1>2. ForecastContract
  <2> SUFFICES ASSUME NEW i \in Versions(log, F, F)
               PROVE  /\ log[i].status \in Statuses /\ log[i].p \in Odds /\ log[i].rule \in Rules
                      /\ log[i].indicators \subseteq ToSet(Indicators) /\ BasisContract(log[i].basis)
    BY DEF ForecastContract
  <2>1. i \in 1 .. Len(log) /\ log[i].type = F
    BY <1>1 DEF Versions
  <2>2. WellMade(log[i])
    BY <2>1 DEF Sound, Written
  <2>. QED BY <2>1, <2>2 DEF WellMade, Tells, Judges, Warns, Speaks
<1>3. ASSUME NEW i \in DOMAIN log PROVE Contracts(log[i])
  <2> DEFINE r == log[i]
  <2>1. Written(r)
    BY <1>1 DEF Sound
  <2> HIDE DEF r
  <2>2. WellMade(r) /\ (r.type \in Filed => r.version >= 1) /\ (r.type = "analogue" => r.version = 1)
    BY <2>1 DEF Written
  <2>3. ThemeContract(r) /\ NarrativeContract(r) /\ EdgeContract(r)
    BY <2>2 DEF WellMade, Tells, Judges, Warns, Speaks, ThemeContract, NarrativeContract, EdgeContract, Filed, T, N
  <2>4. VariantContract(r)
    BY <2>2, NarrativesAssumption DEF WellMade, Tells, Judges, Warns, Speaks, VariantContract, Filed, T, N
  <2>5. AssessmentContract(r)
    BY <2>2 DEF WellMade, Tells, Judges, Warns, Speaks, AssessmentContract, Filed, A
  <2>6. InfluenceContract(r)
    BY <2>2, StakeholdersAssumption DEF WellMade, Tells, Judges, Warns, Speaks, InfluenceContract, Filed, U
  <2>7. ObjectiveContract(r) /\ AssumptionContract(r) /\ OptionContract(r)
    BY <2>2 DEF WellMade, Tells, Judges, Warns, Speaks, ObjectiveContract, AssumptionContract, OptionContract, Filed
  <2>8. IndicatorContract(r)
    BY <2>2 DEF WellMade, Tells, Judges, Warns, Speaks, IndicatorContract, Filed
  <2>9. PathContract(r)
    <3> SUFFICES ASSUME r.type = "path" PROVE PathContract(r)
      BY DEF PathContract
    <3>1. r.id \in DOMAIN Paths /\ r.status \in {"ASSESSED", "STALE"} /\ r.authority = Weakest(Paths[r.id].authorities) /\ r.version >= 1
      BY <2>2 DEF WellMade, Tells, Judges, Warns, Speaks, Filed
    <3>. QED BY <3>1, WeakestRanks DEF PathContract
  <2>10. WarningContract(r) /\ EpisodeContract(r) /\ AnalogueContract(r)
    BY <2>2 DEF WellMade, Tells, Judges, Warns, Speaks, WarningContract, EpisodeContract, AnalogueContract, Filed, W, E
  <2>11. TransitionContract(r)
    BY <2>2 DEF WellMade, Tells, Judges, Warns, Speaks, TransitionContract, Sayable
  <2>. QED BY <2>3, <2>4, <2>5, <2>6, <2>7, <2>8, <2>9, <2>10, <2>11 DEF Contracts, r
<1>. QED BY <1>2, <1>3 DEF RecordsHold

(***************************************************************************)
(* Themes.                                                                 *)
(***************************************************************************)
Lineages == {"MERGED_FROM", "MERGED_INTO", "SPLIT_FROM", "SPLIT_INTO"}

LEMMA ThemeProper ==
  ASSUME NEW S, NEW l, NEW e, {"type", "id", "version", "status", "basis", "lineage"} \subseteq DOMAIN e,
         e.type = T, e.version \in Nat, e.id \in ThemeIds, e.status \in MachineStatuses \cup Retired,
         e.basis.sup # {}, BasisContract(e.basis), \A p \in e.lineage : p[1] \in Lineages
  PROVE  Proper(S, l, e)
<1>1. WellMade(e)
  BY DEF WellMade, Tells, Judges, Warns, Speaks, Versioned, Lineages, T, N, A, U, W, E, F
<1>. QED BY <1>1 DEF Proper, T

LEMMA ThemeWas ==
  ASSUME NEW l, Sound(l), NEW id, Is(l, id)
  PROVE  LET was == The(l, id) IN
         /\ {"type", "id", "version", "status", "basis", "lineage"} \subseteq DOMAIN was
         /\ was.type = T /\ was.id = id /\ was.version \in Nat /\ id \in ThemeIds /\ was.status \in MachineStatuses \cup Retired
         /\ was.basis.sup # {} /\ BasisContract(was.basis) /\ \A p \in was.lineage : p[1] \in Lineages
<1> DEFINE was == The(l, id)
<1>1. WellMade(was) /\ was.type = T /\ was.id = id
  BY CurrentWritten DEF Is, The
<1> HIDE DEF was
<1>2. /\ {"type", "id", "version", "status", "basis", "lineage"} \subseteq DOMAIN was
      /\ was.version \in Nat /\ was.id \in ThemeIds /\ was.status \in MachineStatuses \cup Retired
      /\ was.basis.sup # {} /\ BasisContract(was.basis) /\ \A p \in was.lineage : p[1] \in Lineages
  BY <1>1 DEF WellMade, Tells, Versioned, Filed, Lineages, T
<1>. QED BY <1>1, <1>2 DEF was

LEMMA MembershipMade ==
  ASSUME NEW S, NEW l, Sound(l), NEW id, Is(l, id), NEW sup, sup \subseteq Claims, NEW con, con \subseteq Claims, NEW cause
  PROVE  Made(S, l, UpdateMembership(l, id, sup, con, cause))
<1> DEFINE was   == The(l, id)
           basis == Widened(l, was.basis, sup, con)
           e     == [was EXCEPT !.basis = basis, !.status = IF @ \in MachineStatuses THEN DerivedStatus(basis) ELSE @]
           moved == Transition(id, "MEMBERSHIP_CHANGED", cause)
           say   == IF con = {} THEN <<>> ELSE <<Transition(id, "CONTRADICTION_ADDED", cause)>>
<1>1. /\ {"type", "id", "version", "status", "basis", "lineage"} \subseteq DOMAIN was
      /\ was.type = T /\ was.id = id /\ was.version \in Nat /\ id \in ThemeIds /\ was.status \in MachineStatuses \cup Retired
      /\ was.basis.sup # {} /\ BasisContract(was.basis) /\ \A p \in was.lineage : p[1] \in Lineages
  BY ThemeWas
<1>2. UpdateMembership(l, id, sup, con, cause) = IF basis = was.basis THEN <<>> ELSE <<e, moved>> \o say
  BY DEF UpdateMembership
<1>3. Proper(S, l, moved) /\ Made(S, l, say)
  BY <1>1, Said, MadeOne, MadeNone DEF Says, TransitionTypes
<1>4. BasisContract(basis) /\ basis.sup # {}
  BY <1>1, Widens DEF Sound
<1> HIDE DEF was, basis, say, moved
<1>5. /\ DOMAIN e = DOMAIN was /\ e.type = T /\ e.id = id /\ e.lineage = was.lineage /\ e.basis = basis
      /\ e.status = IF was.status \in MachineStatuses THEN DerivedStatus(basis) ELSE was.status
      /\ e.version = was.version
  BY <1>1
<1> HIDE DEF e
<1>6. e.status \in MachineStatuses \cup Retired
  BY <1>1, <1>5 DEF DerivedStatus, MachineStatuses
<1>7. Proper(S, l, e)
  BY <1>1, <1>4, <1>5, <1>6, ThemeProper
<1>. QED BY <1>2, <1>3, <1>7, MadePair, MadeJoined, MadeNone

LEMMA CreateThemeMade ==
  ASSUME NEW S, ThemeSteps \subseteq S, NEW l, Sound(l), NEW id \in ThemeIds, NEW proposal,
         NEW sup, sup \subseteq Claims, sup # {}, NEW con, con \subseteq Claims,
         NEW lineage, \A p \in lineage : p[1] \in Lineages
  PROVE  Made(S, l, CreateTheme(l, id, proposal, sup, con, lineage))
<1> DEFINE e    == Theme(id, proposal, Basis(l, sup, con), lineage)
           more == <<id, sup \ The(l, id).basis.sup, con \ The(l, id).basis.con>>
           step == IF proposal # "" \/ (more[2] = {} /\ more[3] = {}) THEN <<>> ELSE <<Step("membership", more)>>
<1>1. CreateTheme(l, id, proposal, sup, con, lineage) =
        CASE Is(l, id) -> <<NewTheme(id)>> \o Emerged(id) \o step
          [] ~Is(l, id) /\ (~Authorized(l, proposal) \/ (proposal # "" /\ sup # Offered)) -> <<>>
          [] OTHER -> <<e, NewTheme(id)>> \o Emerged(id)
  BY DEF CreateTheme
<1>2. Proper(S, l, NewTheme(id)) /\ Made(S, l, Emerged(id))
  <2>1. Parent[id] = "" \/ Parent[id] \in ThemeIds
    BY ThemesAssumption
  <2>2. Proper(S, l, NewTheme(id))
    BY Said DEF Says, NewTheme, TransitionTypes
  <2>3. Parent[id] # "" => Proper(S, l, Transition(Parent[id], "SUBTHEME_EMERGED", <<id>>))
    BY <2>1, Said DEF Says, TransitionTypes
  <2>. QED BY <2>2, <2>3, MadeOne, MadeNone DEF Emerged
<1>3. ASSUME Is(l, id) PROVE Made(S, l, step)
  <2>1. more[1] = id /\ more[2] \subseteq Claims /\ more[3] \subseteq Claims
    OBVIOUS
  <2> HIDE DEF more
  <2>2. Needs(l, "membership", more)
    BY <1>3, <2>1 DEF Needs, Given, Found, Is
  <2>3. "membership" \in S
    BY DEF ThemeSteps
  <2>. QED BY <2>2, <2>3, StepProper, MadeOne, MadeNone
<1> HIDE DEF step
<1>4. Proper(S, l, e)
  <2>1. DOMAIN e = {"type", "id", "version", "status", "proposal", "basis", "lineage"} /\ e.type = T /\ e.version = 0
        /\ e.id = id /\ e.status = DerivedStatus(Basis(l, sup, con)) /\ e.basis = Basis(l, sup, con) /\ e.lineage = lineage
    BY DEF Theme
  <2>2. BasisContract(Basis(l, sup, con)) /\ Basis(l, sup, con).sup # {}
    BY BasisHolds DEF Sound
  <2>3. DerivedStatus(Basis(l, sup, con)) \in MachineStatuses
    BY DEF DerivedStatus, MachineStatuses
  <2> HIDE DEF e
  <2>. QED BY <2>1, <2>2, <2>3, ThemeProper
<1> HIDE DEF e
<1>. QED BY <1>1, <1>2, <1>3, <1>4, MadeNone, MadeOne, MadePair, MadeJoined

LEMMA RefreshThemeMade ==
  ASSUME NEW S, NEW l, Sound(l), NEW id, Is(l, id), NEW cause
  PROVE  Made(S, l, RefreshTheme(l, id, cause))
<1> DEFINE was == The(l, id)
           b   == Rebased(l, was.basis)
           to  == DerivedStatus(b)
           e   == [was EXCEPT !.basis = b, !.status = to]
           Say(condition, what) == IF condition THEN <<Transition(id, what, cause)>> ELSE <<>>
           s1  == Say(b.fam # was.basis.fam, "SOURCE_DIVERSITY_CHANGED")
           s2  == Say(to # was.status, CASE to = "CONTESTED" -> "CONTRADICTION_ADDED" [] to = "STALE" -> "STALE"
                                         [] to = "ACTIVE" -> "STRENGTHENED" [] to = "EMERGING" -> "WEAKENED")
           s3  == Say(b.obs # was.basis.obs /\ to = was.status, "EVIDENCE_UPDATED")
           s4  == Say(b.deg > was.basis.deg, "WEAKENED")
<1>1. /\ {"type", "id", "version", "status", "basis", "lineage"} \subseteq DOMAIN was
      /\ was.type = T /\ was.id = id /\ was.version \in Nat /\ id \in ThemeIds /\ was.status \in MachineStatuses \cup Retired
      /\ was.basis.sup # {} /\ BasisContract(was.basis) /\ \A p \in was.lineage : p[1] \in Lineages
  BY ThemeWas
<1>2. RefreshTheme(l, id, cause) =
        IF was.status \in Retired \/ (b = was.basis /\ to = was.status) THEN <<>> ELSE <<e>> \o s1 \o s2 \o s3 \o s4
  BY DEF RefreshTheme
<1>3. BasisContract(b) /\ b.sup # {}
  BY <1>1, Rebuilt DEF Sound
<1>4. to \in MachineStatuses
  BY DEF DerivedStatus, MachineStatuses
<1>5. \A condition, what : what \in TransitionTypes.theme => Made(S, l, Say(condition, what))
  BY <1>1, Said, MadeOne, MadeNone DEF Says
<1> HIDE DEF was, b, to, Say
<1>6. Made(S, l, s1) /\ Made(S, l, s3) /\ Made(S, l, s4)
  BY <1>5 DEF TransitionTypes
<1>7. Made(S, l, s2)
  BY <1>4, <1>5 DEF TransitionTypes, MachineStatuses
<1> HIDE DEF s1, s2, s3, s4
<1>8. /\ DOMAIN e = DOMAIN was /\ e.type = T /\ e.id = id /\ e.lineage = was.lineage /\ e.status = to
      /\ e.basis = b /\ e.version = was.version
  BY <1>1
<1> HIDE DEF e
<1>9. Proper(S, l, e)
  BY <1>1, <1>3, <1>4, <1>8, ThemeProper
<1>. QED BY <1>2, <1>6, <1>7, <1>9, MadeOne, MadeJoined, MadeNone

LEMMA ResolveThemeMade ==
  ASSUME NEW S, NEW l, Sound(l), NEW id, Is(l, id)
  PROVE  Made(S, l, ResolveTheme(l, id))
<1> DEFINE was == The(l, id)
           e   == [was EXCEPT !.status = "RESOLVED"]
           say == Transition(id, "RESOLVED", <<"analyst">>)
<1>1. /\ {"type", "id", "version", "status", "basis", "lineage"} \subseteq DOMAIN was
      /\ was.type = T /\ was.id = id /\ was.version \in Nat /\ id \in ThemeIds
      /\ was.basis.sup # {} /\ BasisContract(was.basis) /\ \A p \in was.lineage : p[1] \in Lineages
  BY ThemeWas
<1>2. ResolveTheme(l, id) = IF was.status = "RESOLVED" THEN <<>> ELSE <<e, say>>
  BY DEF ResolveTheme
<1>3. Proper(S, l, say)
  BY <1>1, Said DEF Says, TransitionTypes
<1> HIDE DEF was, say
<1>4. /\ DOMAIN e = DOMAIN was /\ e.type = T /\ e.id = id /\ e.lineage = was.lineage /\ e.status = "RESOLVED"
      /\ e.basis = was.basis /\ e.version = was.version
  BY <1>1
<1> HIDE DEF e
<1>5. Proper(S, l, e)
  BY <1>1, <1>4, ThemeProper DEF Retired
<1>. QED BY <1>2, <1>3, <1>5, MadePair, MadeNone

LEMMA MergeMade ==
  ASSUME NEW S, NEW l, Sound(l), NEW into, NEW from, Is(l, into), Is(l, from)
  PROVE  Made(S, l, ApplyMerge(l, into, from)) /\ Made(S, l, ProposeMerge(into, from))
<1> DEFINE survivor == The(l, into)
           was      == The(l, from)
           basis    == Widened(l, survivor.basis, was.basis.sup, was.basis.con)
           e        == [survivor EXCEPT !.basis = basis, !.status = DerivedStatus(basis),
                                        !.lineage = @ \cup {<<"MERGED_FROM", from>>}]
           a        == Absorbed(was, into)
           late     == IF was.status = "MERGED" THEN <<>> ELSE <<a>>
<1>1. /\ {"type", "id", "version", "status", "basis", "lineage"} \subseteq DOMAIN survivor
      /\ survivor.type = T /\ survivor.id = into /\ survivor.version \in Nat /\ into \in ThemeIds
      /\ survivor.basis.sup # {} /\ BasisContract(survivor.basis) /\ \A p \in survivor.lineage : p[1] \in Lineages
  BY ThemeWas
<1>2. /\ {"type", "id", "version", "status", "basis", "lineage"} \subseteq DOMAIN was
      /\ was.type = T /\ was.id = from /\ was.version \in Nat /\ from \in ThemeIds
      /\ was.basis.sup # {} /\ BasisContract(was.basis) /\ \A p \in was.lineage : p[1] \in Lineages
  BY ThemeWas
<1>3. ApplyMerge(l, into, from) =
        CASE <<"MERGED_FROM", from>> \in survivor.lineage -> Merged("ensure", into, from) \o late
          [] <<"MERGED_FROM", from>> \notin survivor.lineage /\ was.status = "MERGED" -> <<>>
          [] OTHER -> <<e, a>> \o Merged("transition", into, from)
  BY DEF ApplyMerge
<1>4. Made(S, l, Merged("ensure", into, from)) /\ Made(S, l, Merged("transition", into, from))
  <2>1. /\ Merged("ensure", into, from) =
             <<Ensure(into, "MERGED", <<"merge", into, from>>), Ensure(from, "MERGED", <<"merge", into, from>>)>>
        /\ Merged("transition", into, from) =
             <<Transition(into, "MERGED", <<"merge", into, from>>), Transition(from, "MERGED", <<"merge", into, from>>)>>
    BY DEF Merged, Ensure, Transition
  <2>2. \A id \in {into, from} : /\ Proper(S, l, Ensure(id, "MERGED", <<"merge", into, from>>))
                                 /\ Proper(S, l, Transition(id, "MERGED", <<"merge", into, from>>))
    BY <1>1, <1>2, Said DEF Says, TransitionTypes
  <2>. QED BY <2>1, <2>2, MadePair
<1>5. BasisContract(basis) /\ basis.sup # {}
  <2>1. was.basis.sup \subseteq Claims /\ was.basis.con \subseteq Claims
    BY <1>2 DEF BasisContract
  <2>. QED BY <1>1, <2>1, Widens DEF Sound
<1>6. DerivedStatus(basis) \in MachineStatuses
  BY DEF DerivedStatus, MachineStatuses
<1>7. Made(S, l, ProposeMerge(into, from))
  <2>1. \A id \in {into, from} : Proper(S, l, Transition(id, "MERGE_PROPOSED", <<"proposed", into, from>>))
    BY <1>1, <1>2, Said DEF Says, TransitionTypes
  <2>. QED BY <2>1, MadePair DEF ProposeMerge
<1> HIDE DEF survivor, was, basis
<1>8. /\ DOMAIN e = DOMAIN survivor /\ e.type = T /\ e.id = into /\ e.version = survivor.version
      /\ e.basis = basis /\ e.status = DerivedStatus(basis) /\ e.lineage = survivor.lineage \cup {<<"MERGED_FROM", from>>}
  BY <1>1
<1>9. /\ DOMAIN a = DOMAIN was /\ a.type = T /\ a.id = from /\ a.version = was.version
      /\ a.basis = was.basis /\ a.status = "MERGED" /\ a.lineage = was.lineage \cup {<<"MERGED_INTO", into>>}
  BY <1>2 DEF Absorbed
<1> HIDE DEF e, a
<1>10. Proper(S, l, e)
  <2>1. \A p \in e.lineage : p[1] \in Lineages
    BY <1>1, <1>8 DEF Lineages
  <2>. QED BY <1>1, <1>5, <1>6, <1>8, <2>1, ThemeProper
<1>11. Proper(S, l, a)
  <2>1. \A p \in a.lineage : p[1] \in Lineages
    BY <1>2, <1>9 DEF Lineages
  <2>. QED BY <1>2, <1>9, <2>1, ThemeProper DEF Retired
<1>12. Made(S, l, late) /\ Made(S, l, <<e, a>>)
  BY <1>10, <1>11, MadeOne, MadeNone, MadePair
<1> HIDE DEF late
<1>13. Made(S, l, ApplyMerge(l, into, from))
  BY <1>3, <1>4, <1>12, MadeNone, MadeJoined
<1>. QED BY <1>7, <1>13

LEMMA SplitMade ==
  ASSUME NEW S, ThemeSteps \subseteq S, NEW l, Sound(l), NEW id, Is(l, id)
  PROVE  Made(S, l, ApplySplit(l, id))
<1> DEFINE was   == The(l, id)
           into  == {<<"SPLIT_INTO", Parts[n][1]>> : n \in DOMAIN Parts}
           parts == [n \in DOMAIN Parts |-> Step("part", <<id, n>>)]
           e     == [was EXCEPT !.status = "SPLIT", !.lineage = @ \cup into]
           say   == Transition(id, "SPLIT", <<"analyst">>)
<1>1. /\ {"type", "id", "version", "status", "basis", "lineage"} \subseteq DOMAIN was
      /\ was.type = T /\ was.id = id /\ was.version \in Nat /\ id \in ThemeIds
      /\ was.basis.sup # {} /\ BasisContract(was.basis) /\ \A p \in was.lineage : p[1] \in Lineages
  BY ThemeWas
<1>2. ApplySplit(l, id) = IF was.status = "SPLIT" THEN <<>> ELSE parts \o <<e, say>>
  BY DEF ApplySplit
<1>3. Made(S, l, parts)
  <2>1. PICK n \in Nat : DOMAIN Parts = 1 .. n
    BY ThemesAssumption, LenProperties
  <2>2. ASSUME NEW k \in 1 .. n PROVE Proper(S, l, parts[k])
    <3>1. Needs(l, "part", <<id, k>>) /\ "part" \in S
      BY <2>1 DEF Needs, Given, Found, ThemeSteps
    <3>2. parts[k] = Step("part", <<id, k>>)
      BY <2>1
    <3>. QED BY <3>1, <3>2, StepProper
  <2>3. parts = [k \in 1 .. n |-> parts[k]]
    BY <2>1
  <2> HIDE DEF parts
  <2>. QED BY <2>2, <2>3, MadeMapped
<1>4. Proper(S, l, say)
  BY <1>1, Said DEF Says, TransitionTypes
<1>5. \A p \in into : p[1] \in Lineages
  BY DEF Lineages
<1> HIDE DEF was, say, parts, into
<1>6. /\ DOMAIN e = DOMAIN was /\ e.type = T /\ e.id = id /\ e.version = was.version
      /\ e.basis = was.basis /\ e.status = "SPLIT" /\ e.lineage = was.lineage \cup into
  BY <1>1
<1> HIDE DEF e
<1>7. Proper(S, l, e)
  <2>1. \A p \in e.lineage : p[1] \in Lineages
    BY <1>1, <1>5, <1>6
  <2>. QED BY <1>1, <1>6, <2>1, ThemeProper DEF Retired
<1>. QED BY <1>2, <1>3, <1>4, <1>7, MadePair, MadeJoined, MadeNone

LEMMA ThemeStepMade ==
  ASSUME NEW S, ThemeSteps \subseteq S, NEW l, Sound(l), NEW s, s.what \in ThemeSteps, Needs(l, s.what, s.id)
  PROVE  Made(S, l, ThemeContinue(l, s))
<1>1. CASE s.what = "part"
  <2> DEFINE n == s.id[2]
  <2>1. n \in DOMAIN Parts
    BY <1>1 DEF Needs, Given
  <2>2. Parts[n][1] \in ThemeIds /\ Parts[n][2] \subseteq Claims /\ Parts[n][2] # {}
    <3> DEFINE X == ThemeIds \X ((SUBSET Claims) \ {{}})
    <3>1. Parts \in Seq(X)
      BY ThemesAssumption
    <3> HIDE DEF X
    <3>2. DOMAIN Parts = 1 .. Len(Parts)
      BY <3>1, LenProperties
    <3>3. Parts[n] \in X
      BY <2>1, <3>1, <3>2, ElementOfSeq
    <3>. QED BY <3>3 DEF X
  <2>3. \A p \in {<<"SPLIT_FROM", s.id[1]>>} : p[1] \in Lineages
    BY DEF Lineages
  <2>4. Made(S, l, CreateTheme(l, Parts[n][1], "", Parts[n][2], {}, {<<"SPLIT_FROM", s.id[1]>>}))
    BY <2>2, <2>3, CreateThemeMade
  <2>. QED BY <1>1, <2>4 DEF ThemeContinue, Part
<1>2. CASE s.what = "membership"
  BY <1>2, MembershipMade DEF ThemeContinue, Needs, Given, Found, Is
<1>. QED BY <1>1, <1>2 DEF ThemeSteps

(***************************************************************************)
(* A finite set in an order: every place is somebody's.                    *)
(***************************************************************************)
Orders(R, m) ==
  /\ \A i, j \in 1 .. m : <<i, j>> \in R \/ <<j, i>> \in R
  /\ \A i, j \in 1 .. m : <<i, j>> \in R /\ <<j, i>> \in R => i = j
  /\ \A i, j, k \in 1 .. m : <<i, j>> \in R /\ <<j, k>> \in R => <<i, k>> \in R

LEMMA EveryRank ==
  ASSUME NEW m \in Nat, NEW R, Orders(R, m)
  PROVE  \A k \in 1 .. m : \E n \in 1 .. m : Cardinality({i \in 1 .. m : <<i, n>> \in R}) = k
<1> DEFINE Below(n) == {i \in 1 .. m : <<i, n>> \in R}
           f == [n \in 1 .. m |-> Cardinality(Below(n))]
<1>1. IsFiniteSet(1 .. m) /\ Cardinality(1 .. m) = m
  BY FS_Interval
<1>2. ASSUME NEW n \in 1 .. m
      PROVE  /\ n \in Below(n) /\ IsFiniteSet(Below(n)) /\ Cardinality(Below(n)) \in 1 .. m
  <2>1. n \in Below(n) /\ Below(n) \in SUBSET (1 .. m)
    BY DEF Orders
  <2> HIDE DEF Below
  <2>2. IsFiniteSet(Below(n)) /\ Cardinality(Below(n)) <= m
    BY <1>1, <2>1, FS_Subset
  <2>3. Cardinality(Below(n)) \in Nat /\ Cardinality(Below(n)) # 0
    BY <2>1, <2>2, FS_CardinalityType, FS_EmptySet
  <2>. QED BY <2>1, <2>2, <2>3
<1>3. ASSUME NEW i \in 1 .. m, NEW j \in 1 .. m, i # j, <<i, j>> \in R PROVE Cardinality(Below(i)) # Cardinality(Below(j))
  <2>1. Below(i) \in SUBSET Below(j) /\ j \notin Below(i) /\ j \in Below(j)
    BY <1>3 DEF Orders
  <2>2. Below(i) # Below(j)
    BY <2>1
  <2>3. IsFiniteSet(Below(j))
    BY <1>2
  <2> HIDE DEF Below
  <2>. QED BY <2>1, <2>2, <2>3, FS_Subset
<1> HIDE DEF Below
<1>4. f \in Injection(1 .. m, 1 .. m)
  <2>1. f \in [1 .. m -> 1 .. m]
    BY <1>2
  <2>2. ASSUME NEW i \in 1 .. m, NEW j \in 1 .. m, f[i] = f[j] PROVE i = j
    BY <1>3, <2>2 DEF Orders
  <2>. QED BY <2>1, <2>2 DEF Injection, IsInjective
<1> HIDE DEF f
<1>5. f \in Surjection(1 .. m, 1 .. m)
  BY <1>1, <1>4, FS_Injection
<1>6. \A k \in 1 .. m : \E n \in 1 .. m : f[n] = k
  BY <1>5 DEF Surjection
<1>. QED BY <1>6 DEF f, Below

(* Pairs in the order of their times. *)
LEMMA InTime ==
  ASSUME NEW X, IsFiniteSet(X), \A p \in X : p[1].time \in Nat /\ p[2].time \in Nat
  PROVE  LET o == Arranged(X, LAMBDA p, q : p[1].time < q[1].time \/ (p[1].time = q[1].time /\ p[2].time < q[2].time)) IN
         o = [k \in 1 .. Cardinality(X) |-> o[k]] /\ \A k \in 1 .. Cardinality(X) : o[k] \in X
<1> DEFINE o == Arranged(X, LAMBDA p, q : p[1].time < q[1].time \/ (p[1].time = q[1].time /\ p[2].time < q[2].time))
           s == SetToSeq(X)
           m == Cardinality(X)
           a == [n \in 1 .. m |-> s[n][1].time]
           b == [n \in 1 .. m |-> s[n][2].time]
           Before(i, j) == a[i] < a[j] \/ (a[i] = a[j] /\ b[i] < b[j])
           R == {r \in (1 .. m) \X (1 .. m) : Before(r[1], r[2]) \/ (r[1] <= r[2] /\ ~Before(r[2], r[1]))}
           Place(n) == Cardinality({i \in DOMAIN s :
                 \/ s[i][1].time < s[n][1].time \/ (s[i][1].time = s[n][1].time /\ s[i][2].time < s[n][2].time)
                 \/ (i <= n /\ ~(s[n][1].time < s[i][1].time \/ (s[n][1].time = s[i][1].time /\ s[n][2].time < s[i][2].time)))})
<1>1. s \in [1 .. m -> X] /\ m \in Nat
  BY SetToSeqIs
<1>2. DOMAIN s = 1 .. m /\ \A n \in 1 .. m : s[n] \in X
  BY <1>1
<1>3. o = [k \in DOMAIN s |-> s[CHOOSE n \in DOMAIN s : Place(n) = k]]
  BY DEF Arranged
<1> HIDE DEF s, m, o
<1>4. ASSUME NEW n \in 1 .. m PROVE Place(n) = Cardinality({i \in 1 .. m : <<i, n>> \in R})
  <2>1. {i \in 1 .. m : <<i, n>> \in R} =
        {i \in 1 .. m :
           \/ s[i][1].time < s[n][1].time \/ (s[i][1].time = s[n][1].time /\ s[i][2].time < s[n][2].time)
           \/ (i <= n /\ ~(s[n][1].time < s[i][1].time \/ (s[n][1].time = s[i][1].time /\ s[n][2].time < s[i][2].time)))}
    OBVIOUS
  <2> HIDE DEF R
  <2>. QED BY <1>2, <2>1
<1> HIDE DEF Place
<1>5. \A n \in 1 .. m : a[n] \in Nat /\ b[n] \in Nat
  BY <1>2
<1> HIDE DEF a, b
<1>6. \A i, j \in 1 .. m : <<i, j>> \in R <=> Before(i, j) \/ (i <= j /\ ~Before(j, i))
  OBVIOUS
<1> HIDE DEF R
<1>7. ASSUME NEW i \in 1 .. m, NEW j \in 1 .. m
      PROVE  (<<i, j>> \in R \/ <<j, i>> \in R) /\ (<<i, j>> \in R /\ <<j, i>> \in R => i = j)
  <2>1. (<<i, j>> \in R <=> Before(i, j) \/ (i <= j /\ ~Before(j, i))) /\ (<<j, i>> \in R <=> Before(j, i) \/ (j <= i /\ ~Before(i, j)))
    BY <1>6
  <2>2. a[i] \in Nat /\ b[i] \in Nat /\ a[j] \in Nat /\ b[j] \in Nat /\ i \in Nat /\ j \in Nat
    BY <1>1, <1>5
  <2>3. ~(Before(i, j) /\ Before(j, i))
    BY <2>2
  <2> HIDE DEF Before
  <2>. QED BY <2>1, <2>2, <2>3
<1>8. ASSUME NEW i \in 1 .. m, NEW j \in 1 .. m, NEW k \in 1 .. m, <<i, j>> \in R, <<j, k>> \in R PROVE <<i, k>> \in R
  <2>1. a[i] \in Nat /\ b[i] \in Nat /\ a[j] \in Nat /\ b[j] \in Nat /\ a[k] \in Nat /\ b[k] \in Nat /\ i \in Nat /\ j \in Nat /\ k \in Nat
    BY <1>1, <1>5
  <2>2. (Before(i, j) \/ (i <= j /\ ~Before(j, i))) /\ (Before(j, k) \/ (j <= k /\ ~Before(k, j)))
    BY <1>6, <1>8
  <2>3. Before(i, k) \/ (i <= k /\ ~Before(k, i))
    BY <2>1, <2>2
  <2>. QED BY <1>6, <2>3
<1>9. \A k \in 1 .. m : \E n \in 1 .. m : Place(n) = k
  <2>1. \A k \in 1 .. m : \E n \in 1 .. m : Cardinality({i \in 1 .. m : <<i, n>> \in R}) = k
    <3> HIDE DEF Before
    <3>1. \A i, j \in 1 .. m : <<i, j>> \in R \/ <<j, i>> \in R
      BY <1>7
    <3>2. \A i, j \in 1 .. m : <<i, j>> \in R /\ <<j, i>> \in R => i = j
      BY <1>7
    <3>3. \A i, j, k \in 1 .. m : <<i, j>> \in R /\ <<j, k>> \in R => <<i, k>> \in R
      BY <1>8
    <3>4. Orders(R, m)
      BY <3>1, <3>2, <3>3 DEF Orders
    <3>. QED BY <1>1, <3>4, EveryRank
  <2>. QED BY <1>4, <2>1
<1>10. \A k \in 1 .. m : o[k] \in X
  BY <1>2, <1>3, <1>9
<1>11. o = [k \in 1 .. m |-> o[k]]
  BY <1>2, <1>3
<1>. QED BY <1>10, <1>11 DEF o, m

(***************************************************************************)
(* Narratives.                                                             *)
(***************************************************************************)
Tellings == {"ACTIVE", "DORMANT", "CONTESTED", "RESOLVED", "SUPERSEDED"}

LEMMA NarrativeProper ==
  ASSUME NEW S, NEW l, NEW e, {"type", "id", "version", "status", "basis"} \subseteq DOMAIN e, e.type = N, e.version \in Nat,
         e.id \in Statements, e.status \in Tellings, e.basis.sup # {}, BasisContract(e.basis)
  PROVE  Proper(S, l, e)
<1>1. WellMade(e)
  BY DEF WellMade, Tells, Judges, Warns, Speaks, Versioned, Tellings, T, N, A, U, W, E, F
<1>. QED BY <1>1 DEF Proper, N

LEMMA NarrativeWas ==
  ASSUME NEW was, Was(was, N)
  PROVE  /\ {"type", "id", "version", "status", "basis"} \subseteq DOMAIN was
         /\ was.type = N /\ was.version \in Nat /\ was.id \in Statements /\ was.status \in Tellings
         /\ was.basis.sup # {} /\ BasisContract(was.basis)
BY DEF Was, WellMade, Tells, Versioned, Filed, Tellings, N

LEMMA ToldWas ==
  ASSUME NEW l, Sound(l), NEW s, Heard(l, s)
  PROVE  Was(Told(l, s), N) /\ Told(l, s).id = s /\ s \in Statements
<1>1. Was(Told(l, s), N) /\ Told(l, s).id = s
  BY CurrentWritten DEF Heard, Told, Was
<1>. QED BY <1>1, NarrativeWas

LEMMA CreateNarrativeMade ==
  ASSUME NEW S, NarrativeSteps \subseteq S, NEW l, Sound(l), NEW s \in Statements, NEW proposal,
         NEW sup \in SUBSET Claims, sup # {}, NEW con \in SUBSET Claims
  PROVE  Made(S, l, CreateNarrative(l, s, proposal, sup, con))
<1> DEFINE e    == Narrative(l, s, proposal, sup, con)
           was  == Told(l, s)
           p    == [was |-> was, sup |-> sup, con |-> con]
           step == IF proposal # "" \/ (sup \subseteq was.basis.sup /\ con \subseteq was.basis.con) THEN <<>>
                   ELSE <<Step("retell", p)>>
           made == Ensure(s, "CREATED", <<s>>)
<1>1. CreateNarrative(l, s, proposal, sup, con) =
        CASE Heard(l, s) -> <<made>> \o step
          [] ~Heard(l, s) /\ (~Authorized(l, proposal) \/ (proposal # "" /\ sup # Offered)) -> <<>>
          [] OTHER -> <<e, made>>
  BY DEF CreateNarrative
<1>2. Proper(S, l, made)
  BY Said DEF Says, TransitionTypes
<1>3. ASSUME Heard(l, s) PROVE Made(S, l, <<made>> \o step)
  <2>1. p.was = was /\ p.sup = sup /\ p.con = con
    OBVIOUS
  <2>2. Was(was, N)
    BY <1>3, ToldWas
  <2> HIDE DEF p, was
  <2>3. Needs(l, "retell", p) /\ "retell" \in S
    BY <2>1, <2>2 DEF Needs, Given, Found, NarrativeSteps
  <2>. QED BY <1>2, <2>3, StepProper, MadeOne, MadeNone, MadeJoined
<1> HIDE DEF step, made
<1>4. Proper(S, l, e)
  <2>1. /\ DOMAIN e = {"type", "id", "version", "status", "proposal", "basis", "origin", "variants", "counters"}
        /\ e.type = N /\ e.version = 0 /\ e.id = s /\ e.status = "ACTIVE" /\ e.basis = Basis(l, sup, con)
    BY DEF Narrative
  <2>2. BasisContract(Basis(l, sup, con)) /\ Basis(l, sup, con).sup # {}
    BY BasisHolds DEF Sound
  <2> HIDE DEF e
  <2>. QED BY <2>1, <2>2, NarrativeProper DEF Tellings
<1> HIDE DEF e
<1>. QED BY <1>1, <1>2, <1>3, <1>4, MadePair, MadeNone

LEMMA FoldNarrativeMade ==
  ASSUME NEW S, NEW l, IsSeq(l), NEW was, Was(was, N), NEW sup \in SUBSET Claims, NEW con \in SUBSET Claims
  PROVE  Made(S, l, FoldNarrative(l, was, sup, con))
<1> DEFINE b   == Widened(l, was.basis, sup, con)
           e   == [was EXCEPT !.basis = b]
           say == Transition(was.id, "EVIDENCE_UPDATED", <<"fold", sup \ was.basis.sup, con \ was.basis.con>>)
<1>1. /\ {"type", "id", "version", "status", "basis"} \subseteq DOMAIN was
      /\ was.type = N /\ was.version \in Nat /\ was.id \in Statements /\ was.status \in Tellings
      /\ was.basis.sup # {} /\ BasisContract(was.basis)
  BY NarrativeWas
<1>2. FoldNarrative(l, was, sup, con) = <<e, say>>
  BY DEF FoldNarrative
<1>3. Proper(S, l, say)
  BY <1>1, Said DEF Says, TransitionTypes
<1>4. BasisContract(b) /\ b.sup # {}
  BY <1>1, Widens
<1> HIDE DEF b, say
<1>5. DOMAIN e = DOMAIN was /\ e.type = N /\ e.id = was.id /\ e.version = was.version /\ e.status = was.status /\ e.basis = b
  BY <1>1
<1> HIDE DEF e
<1>6. Proper(S, l, e)
  BY <1>1, <1>4, <1>5, NarrativeProper
<1>. QED BY <1>2, <1>3, <1>6, MadePair

LEMMA AddVariantMade ==
  ASSUME NEW S, NarrativeSteps \subseteq S, NEW l, Sound(l), NEW s, Heard(l, s), NEW f \in DOMAIN Forms, NEW proposal
  PROVE  Made(S, l, AddVariant(l, s, f, proposal))
<1> DEFINE p == [was |-> Told(l, s), form |-> f]
           e == Variant(s, f, proposal)
<1>1. p.was = Told(l, s) /\ p.form = f /\ Was(Told(l, s), N)
  BY ToldWas
<1> HIDE DEF p
<1>2. Needs(l, "join", p) /\ "join" \in S
  BY <1>1 DEF Needs, Given, Found, NarrativeSteps
<1>3. Made(S, l, <<Step("join", p)>>)
  BY <1>2, StepProper, MadeOne
<1>4. Proper(S, l, e)
  <2>1. /\ DOMAIN e = {"type", "id", "version", "claims", "proposal"} /\ e.type = "variant" /\ e.version = 0
        /\ e.claims = Forms[f].claims /\ e.id[2] = f
    BY DEF Variant
  <2>2. Forms[f].claims \in (SUBSET Claims) \ {{}}
    BY NarrativesAssumption
  <2> HIDE DEF e
  <2>3. WellMade(e)
    BY <2>1, <2>2 DEF WellMade, Tells, Judges, Warns, Speaks, Versioned, T, N, A, U, W, E, F
  <2>. QED BY <2>1, <2>3 DEF Proper
<1> HIDE DEF e
<1>5. Made(S, l, <<e>> \o <<Step("join", p)>>)
  BY <1>3, <1>4, MadeOne, MadeJoined
<1>. QED BY <1>3, <1>5, MadeNone DEF AddVariant, p, e

LEMMA JoinMade ==
  ASSUME NEW S, NEW l, IsSeq(l), NEW was, Was(was, N), NEW f \in DOMAIN Forms
  PROVE  Made(S, l, Join(l, was, f))
<1> DEFINE claims == Forms[f].claims
           sup  == IF Forms[f].relation \in Supporting THEN claims ELSE {}
           con  == IF Forms[f].relation \in Contradicting THEN claims ELSE {}
           b    == Widened(l, was.basis, sup, con)
           e    == [was EXCEPT !.variants = @ \cup {f}, !.basis = b]
           next == IF f \in was.variants /\ b.sup = was.basis.sup /\ b.con = was.basis.con THEN <<>> ELSE <<e>>
           say  == Transition(was.id, "VARIANT_ADDED", <<"variant", f>>)
<1>1. /\ {"type", "id", "version", "status", "basis"} \subseteq DOMAIN was
      /\ was.type = N /\ was.version \in Nat /\ was.id \in Statements /\ was.status \in Tellings
      /\ was.basis.sup # {} /\ BasisContract(was.basis)
  BY NarrativeWas
<1>2. Join(l, was, f) = next \o <<say>>
  BY DEF Join
<1>3. Proper(S, l, say)
  BY <1>1, Said DEF Says, TransitionTypes
<1>4. sup \in SUBSET Claims /\ con \in SUBSET Claims
  BY NarrativesAssumption
<1> HIDE DEF sup, con, say
<1>5. BasisContract(b) /\ b.sup # {}
  BY <1>1, <1>4, Widens
<1> HIDE DEF b
<1>6. DOMAIN e = DOMAIN was /\ e.type = N /\ e.id = was.id /\ e.version = was.version /\ e.status = was.status /\ e.basis = b
  BY <1>1
<1> HIDE DEF e
<1>7. Proper(S, l, e)
  BY <1>1, <1>5, <1>6, NarrativeProper
<1>8. Made(S, l, next) /\ Made(S, l, <<say>>)
  BY <1>3, <1>7, MadeOne, MadeNone
<1>. QED BY <1>2, <1>8, MadeJoined

LEMMA LinkCounterMade ==
  ASSUME NEW S, NEW l, Sound(l), NEW this, NEW other, NEW named
  PROVE  Made(S, l, LinkCounter(l, this, other, named))
<1> DEFINE was == Told(l, this)
           e   == [was EXCEPT !.counters = @ \cup {other}]
           say == Transition(this, "COUNTER_NARRATIVE_LINKED", <<"counter", named>>)
<1>1. LinkCounter(l, this, other, named) = IF ~Heard(l, this) \/ other \in was.counters THEN <<>> ELSE <<e, say>>
  BY DEF LinkCounter
<1>2. ASSUME Heard(l, this) PROVE Proper(S, l, e) /\ Proper(S, l, say)
  <2>1. Was(was, N) /\ was.id = this /\ this \in Statements
    BY <1>2, ToldWas
  <2> HIDE DEF was
  <2>2. /\ {"type", "id", "version", "status", "basis"} \subseteq DOMAIN was
        /\ was.type = N /\ was.version \in Nat /\ was.status \in Tellings
        /\ was.basis.sup # {} /\ BasisContract(was.basis)
    BY <2>1, NarrativeWas
  <2>3. DOMAIN e = DOMAIN was /\ e.type = N /\ e.id = was.id /\ e.version = was.version /\ e.status = was.status /\ e.basis = was.basis
    BY <2>2
  <2> HIDE DEF e
  <2>4. Proper(S, l, e)
    BY <2>1, <2>2, <2>3, NarrativeProper
  <2>. QED BY <2>1, <2>4, Said DEF Says, TransitionTypes
<1> HIDE DEF e, say
<1>. QED BY <1>1, <1>2, MadePair, MadeNone

LEMMA RefreshNarrativeMade ==
  ASSUME NEW S, NEW l, Sound(l), NEW s, Heard(l, s), NEW cause
  PROVE  Made(S, l, RefreshNarrative(l, s, cause))
<1> DEFINE was == Told(l, s)
           b   == Rebased(l, was.basis)
           new == [was EXCEPT !.basis = b, !.origin = Earliest(l, b.sup), !.status = RefreshedStatus(@, b)]
           s1  == IF new.origin = was.origin THEN <<>> ELSE <<Transition(s, "ORIGIN_REVISED", cause)>>
           to  == IF new.status = "ACTIVE" THEN "REEMERGED" ELSE new.status
           s2  == IF new.status = was.status THEN <<>> ELSE <<Transition(s, to, cause)>>
<1>1. RefreshNarrative(l, s, cause) =
        IF was.status \in {"RESOLVED", "SUPERSEDED"} \/ new = was THEN <<>> ELSE <<new>> \o s1 \o s2
  BY DEF RefreshNarrative
<1>2. Was(was, N) /\ was.id = s /\ s \in Statements
  BY ToldWas
<1>3. Says(S, l, {s}, TransitionTypes.narrative)
  BY <1>2, Said DEF Says
<1> HIDE DEF was
<1>4. /\ {"type", "id", "version", "status", "basis"} \subseteq DOMAIN was
      /\ was.type = N /\ was.version \in Nat /\ was.status \in Tellings
      /\ was.basis.sup # {} /\ BasisContract(was.basis)
  BY <1>2, NarrativeWas
<1>5. BasisContract(b) /\ b.sup # {}
  BY <1>4, Rebuilt DEF Sound
<1> HIDE DEF b
<1>6. /\ DOMAIN new = DOMAIN was /\ new.type = N /\ new.id = was.id /\ new.version = was.version
      /\ new.status = RefreshedStatus(was.status, b) /\ new.basis = b
  BY <1>4
<1> HIDE DEF new
<1>7. new.status \in Tellings /\ (new.status # was.status => new.status \in {"CONTESTED", "DORMANT", "ACTIVE"})
  BY <1>4, <1>6 DEF RefreshedStatus, Tellings
<1>8. Proper(S, l, new)
  BY <1>2, <1>4, <1>5, <1>6, <1>7, NarrativeProper
<1>9. Made(S, l, s1)
  BY <1>3, MadeOne, MadeNone DEF Says, TransitionTypes
<1>10. Made(S, l, s2)
  <2>1. new.status # was.status => to \in {"CONTESTED", "DORMANT", "REEMERGED"}
    BY <1>7
  <2> HIDE DEF to
  <2>2. new.status # was.status => Proper(S, l, Transition(s, to, cause))
    BY <1>3, <2>1 DEF Says, TransitionTypes
  <2>. QED BY <2>2, MadeOne, MadeNone
<1> HIDE DEF s1, s2
<1>. QED BY <1>1, <1>8, <1>9, <1>10, MadeOne, MadeJoined, MadeNone

(* Where a claim was seen is dated. *)
LEMMA Dated ==
  ASSUME NEW l, Sound(l), NEW claims \in SUBSET Claims
  PROVE  \A m \in Manifestations(l, claims) : m.time \in Nat
<1>1. ASSUME NEW e \in Seen(l, claims) PROVE e.time \in Nat
  <2>1. PICK i \in DOMAIN l : e = l[i] /\ l[i].type = "seen"
    BY DEF Seen, Evidence
  <2>2. WellMade(e) /\ e.type = "seen"
    BY <2>1, SeqFacts DEF Sound, Written
  <2>. QED BY <2>2 DEF WellMade, Speaks
<1>2. \A c \in claims : Time[c] \in Nat
  BY NarrativesAssumption
<1>. QED BY <1>1, <1>2 DEF Manifestations

LEMMA EdgeProper ==
  ASSUME NEW S, NEW l, NEW s, NEW from, NEW to, from # to, NEW relation,
         relation = "SAME_ORIGIN_FAMILY" => from.family = to.family,
         relation \in {"INDEPENDENT_ADOPTION", "LIKELY_DERIVATIVE"} => from.family # to.family,
         NEW proposal, NEW v \in Nat
  PROVE  LET e == [type |-> "edge", id |-> <<s, from, to>>, version |-> v, relation |-> relation, proposal |-> proposal]
         IN  Proper(S, l, e)
<1> DEFINE e == [type |-> "edge", id |-> <<s, from, to>>, version |-> v, relation |-> relation, proposal |-> proposal]
<1>1. /\ {"type", "id", "version", "relation"} \subseteq DOMAIN e /\ e.type = "edge" /\ e.version = v
      /\ e.relation = relation /\ e.id[2] = from /\ e.id[3] = to
  OBVIOUS
<1> HIDE DEF e
<1>2. WellMade(e)
  BY <1>1 DEF WellMade, Tells, Judges, Warns, Speaks, Versioned, T, N, A, U, W, E, F
<1>3. Proper(S, l, e)
  BY <1>1, <1>2 DEF Proper
<1>. QED BY <1>3 DEF e

LEMMA DeriveMade ==
  ASSUME NEW S, NEW l, Sound(l), NEW s, Heard(l, s)
  PROVE  Made(S, l, DerivePropagation(l, s))
<1> DEFINE claims == Told(l, s).basis.sup \cup UNION {r.claims : r \in {v \in Evidence(l, "variant") : v.id[1] = s}}
           seen   == Manifestations(l, claims)
<1>1. IsSeq(l) /\ s \in Statements
  BY ToldWas DEF Sound
<1>2. claims \in SUBSET Claims
  <2>1. Told(l, s).basis.sup \subseteq Claims
    <3>1. BasisContract(Told(l, s).basis)
      BY ToldWas, NarrativeWas
    <3>. QED BY <3>1 DEF BasisContract
  <2>2. ASSUME NEW v \in Evidence(l, "variant") PROVE v.claims \subseteq Claims
    <3>1. PICK i \in DOMAIN l : v = l[i] /\ l[i].type = "variant"
      BY DEF Evidence
    <3>2. WellMade(v) /\ v.type = "variant"
      BY <1>1, <3>1, SeqFacts DEF Sound, Written
    <3>. QED BY <3>2 DEF WellMade, Tells
  <2>. QED BY <2>1, <2>2
<1>3. IsFiniteSet(seen) /\ \A m \in seen : m.time \in Nat
  BY <1>1, <1>2, ManifestationsFinite, Dated
<1> DEFINE pairs  == {p \in seen \X seen : p[1].time < p[2].time /\ ~Known(l, "edge", <<s, p[1], p[2]>>)}
<1>4. IsFiniteSet(pairs)
  <2> HIDE DEF seen
  <2>. QED BY <1>3, PairsFinite
<1> HIDE DEF claims, seen
<1>5. \A p \in pairs : p[1].time \in Nat /\ p[2].time \in Nat /\ p[1] # p[2]
  BY <1>3
<1> DEFINE order  == Arranged(pairs, LAMBDA p, q : p[1].time < q[1].time \/ (p[1].time = q[1].time /\ p[2].time < q[2].time))
           Drawn(p) == Edge(s, p[1], p[2], Derived(p[1], p[2]), "")
           Say(p)   == Transition(s, "PROPAGATION_OBSERVED", <<"edge", Drawn(p).id>>)
           q      == [n \in 1 .. 2 * Len(order) |-> LET p == order[(n + 1) \div 2] IN IF n % 2 = 1 THEN Drawn(p) ELSE Say(p)]
<1>6. DerivePropagation(l, s) = q
  BY DEF DerivePropagation, claims, seen
<1> HIDE DEF pairs
<1>7. /\ order = [k \in 1 .. Cardinality(pairs) |-> order[k]]
      /\ \A k \in 1 .. Cardinality(pairs) : order[k] \in pairs
  BY <1>4, <1>5, InTime
<1>8. Cardinality(pairs) \in Nat
  BY <1>4, FS_CardinalityType
<1> HIDE DEF order
<1>9. Len(order) = Cardinality(pairs)
  BY <1>7, <1>8, MapLength
<1>10. ASSUME NEW p \in pairs PROVE Proper(S, l, Drawn(p)) /\ Proper(S, l, Say(p))
  <2> DEFINE relation == Derived(p[1], p[2])
  <2>1. /\ relation = "SAME_ORIGIN_FAMILY" => p[1].family = p[2].family
        /\ relation \in {"INDEPENDENT_ADOPTION", "LIKELY_DERIVATIVE"} => p[1].family # p[2].family
    BY DEF Derived
  <2> HIDE DEF relation
  <2>2. Proper(S, l, Edge(s, p[1], p[2], relation, ""))
    BY <1>5, <2>1, EdgeProper DEF Edge
  <2>3. Proper(S, l, Say(p))
    BY <1>1, Said DEF Says, TransitionTypes
  <2>. QED BY <2>2, <2>3 DEF relation
<1> HIDE DEF Drawn, Say
<1>11. ASSUME NEW n \in 1 .. 2 * Len(order) PROVE Proper(S, l, q[n])
  <2>1. (n + 1) \div 2 \in 1 .. Cardinality(pairs)
    BY <1>8, <1>9
  <2>. QED BY <1>7, <1>10, <2>1
<1>12. 2 * Len(order) \in Nat /\ q = [n \in 1 .. 2 * Len(order) |-> q[n]]
  BY <1>8, <1>9
<1> HIDE DEF q
<1>. QED BY <1>6, <1>11, <1>12, MadeMapped

LEMMA AdoptionMade ==
  ASSUME NEW S, NEW l, Sound(l), NEW s \in Statements, NEW from, NEW to, NEW kind, NEW proposal
  PROVE  Made(S, l, AssertAdoption(l, <<s, from, to>>, kind, proposal))
<1> DEFINE id  == <<s, from, to>>
           old == IF Known(l, "edge", id) THEN <<Current(l, "edge", id)>> ELSE <<>>
           new == Edge(id[1], id[2], id[3], "INDEPENDENT_ADOPTION", proposal)
           e   == [new EXCEPT !.version = Len(old)]
           rev == IF old = <<>> THEN <<>> ELSE <<Transition(id[1], "REVISED", <<"edge", id>>)>>
<1>1. AssertAdoption(l, id, kind, proposal) =
        CASE old # <<>> /\ old[1].relation = "INDEPENDENT_ADOPTION" ->
               IF kind # "HUMAN" /\ (proposal = "" \/ proposal # old[1].proposal) THEN <<>> ELSE <<Adoption(id)>>
          [] OTHER -> IF (kind # "HUMAN" /\ (proposal = "" \/ ~Spendable(l, proposal))) \/ id[2].family = id[3].family
                      THEN <<>> ELSE <<e>> \o rev \o <<Adoption(id)>>
  BY DEF AssertAdoption
<1>2. Len(old) \in Nat
  <2>1. Len(<<Current(l, "edge", id)>>) = 1 /\ Len(<<>>) = 0
    BY Single, EmptySeq
  <2>. QED BY <2>1
<1>3. id[1] = s /\ id[2] = from /\ id[3] = to
  OBVIOUS
<1> HIDE DEF old
<1>4. ASSUME from.family # to.family PROVE Proper(S, l, e)
  <2>1. from # to
    BY <1>4
  <2>2. e = [type |-> "edge", id |-> <<s, from, to>>, version |-> Len(old), relation |-> "INDEPENDENT_ADOPTION", proposal |-> proposal]
    BY <1>3 DEF Edge
  <2> HIDE DEF e
  <2>. QED BY <1>2, <1>4, <2>1, <2>2, EdgeProper
<1>5. Proper(S, l, Adoption(id)) /\ Proper(S, l, Transition(id[1], "REVISED", <<"edge", id>>))
  BY Said DEF Says, TransitionTypes, EdgeTypes, Adoption
<1>6. Made(S, l, rev) /\ Made(S, l, <<Adoption(id)>>)
  BY <1>5, MadeOne, MadeNone
<1> HIDE DEF e, rev
<1>7. ASSUME from.family # to.family PROVE Made(S, l, <<e>> \o rev \o <<Adoption(id)>>)
  BY <1>4, <1>6, <1>7, MadeOne, MadeJoined
<1>8. Made(S, l, AssertAdoption(l, id, kind, proposal))
  <2> HIDE DEF id
  <2>. QED BY <1>1, <1>3, <1>6, <1>7, MadeNone
<1>. QED BY <1>8

LEMMA NarrativeStepMade ==
  ASSUME NEW S, NarrativeSteps \subseteq S, NEW l, Sound(l), NEW s, s.what \in NarrativeSteps, Needs(l, s.what, s.id)
  PROVE  Made(S, l, NarrativeContinue(l, s))
<1>0. IsSeq(l)
  BY DEF Sound
<1>1. CASE s.what = "retell"
  BY <1>0, <1>1, FoldNarrativeMade DEF NarrativeContinue, Needs, Given
<1>2. CASE s.what = "join"
  BY <1>0, <1>2, JoinMade DEF NarrativeContinue, Needs, Given
<1>3. CASE s.what = "counter"
  BY <1>3, LinkCounterMade DEF NarrativeContinue
<1>. QED BY <1>1, <1>2, <1>3 DEF NarrativeSteps

(***************************************************************************)
(* Stakeholders.                                                           *)
(***************************************************************************)
Takes(positions) ==
  /\ IsSeq(positions)
  /\ \A n \in 1 .. Len(positions) : positions[n][1] \in DOMAIN Offers /\ PositionContract(positions[n][1])

LEMMA HeldFacts ==
  ASSUME NEW e, IsSeq(e.positions)
  PROVE  /\ Held(e) = {e.positions[n][1] : n \in 1 .. Len(e.positions)}
         /\ Takes(e.positions) <=> \A p \in Held(e) : p \in DOMAIN Offers /\ PositionContract(p)
<1>1. ToSet(e.positions) = {e.positions[n] : n \in 1 .. Len(e.positions)}
  BY SeqFacts
<1>2. Held(e) = {e.positions[n][1] : n \in 1 .. Len(e.positions)}
  BY <1>1 DEF Held
<1>. QED BY <1>2 DEF Takes

LEMMA AssessmentProper ==
  ASSUME NEW S, NEW l, NEW e, {"type", "id", "version", "positions", "basis"} \subseteq DOMAIN e, e.type = A, e.version \in Nat,
         e.id \in Assessed, Takes(e.positions), e.positions # <<>> \/ e.basis.sup # {}, BasisContract(e.basis)
  PROVE  Proper(S, l, e) /\ Was(e, A)
<1>1. IsSeq(e.positions) /\ \A p \in Held(e) : p \in DOMAIN Offers /\ PositionContract(p)
  <2>1. IsSeq(e.positions)
    BY DEF Takes
  <2>. QED BY <2>1, HeldFacts
<1>2. WellMade(e)
  BY <1>1 DEF WellMade, Tells, Judges, Warns, Speaks, Versioned, T, N, A, U, W, E, F
<1>. QED BY <1>2 DEF Proper, Was, A

LEMMA AssessmentWas ==
  ASSUME NEW was, Was(was, A)
  PROVE  /\ {"type", "id", "version", "positions", "basis"} \subseteq DOMAIN was /\ was.type = A /\ was.version \in Nat
         /\ was.id \in Assessed /\ Takes(was.positions) /\ IsSeq(was.positions)
         /\ (was.positions # <<>> \/ was.basis.sup # {}) /\ BasisContract(was.basis)
<1>1. /\ {"type", "id", "version", "positions", "basis"} \subseteq DOMAIN was /\ was.type = A /\ was.version \in Nat
      /\ was.id \in Assessed /\ IsSeq(was.positions)
      /\ \A p \in Held(was) : p \in DOMAIN Offers /\ PositionContract(p)
      /\ (was.positions # <<>> \/ was.basis.sup # {}) /\ BasisContract(was.basis)
  BY DEF Was, WellMade, Judges, Versioned, Filed, A
<1>. QED BY <1>1, HeldFacts

LEMMA AssessedWas ==
  ASSUME NEW l, Sound(l), NEW id, Known(l, A, id)
  PROVE  Was(Assessed1(l, id), A) /\ Assessed1(l, id).id = id /\ id \in Assessed
<1>1. Was(Assessed1(l, id), A) /\ Assessed1(l, id).id = id
  BY CurrentWritten DEF Assessed1, Was
<1>. QED BY <1>1, AssessmentWas

(* A position that the evidence lets in passes its constructor. *)
LEMMA PositionMade ==
  ASSUME NEW held, NEW p \in DOMAIN Offers, PublicEvidence(held, p)
  PROVE  PositionContract(p)
BY StakeholdersAssumption DEF PublicEvidence, PositionContract

LEMMA TookMade ==
  ASSUME NEW S, NEW l, IsSeq(l), NEW was, Was(was, A), NEW positions, Takes(positions),
         NEW p \in DOMAIN Offers, NEW held, PublicEvidence(held, p)
  PROVE  LET e == Took(l, was, positions, p) IN Proper(S, l, e) /\ Was(e, A) /\ e.id = was.id
<1> DEFINE next == positions \o << <<p, FALSE>> >>
           b    == Basis(l, was.basis.sup \cup Offers[p].claims, {})
           e    == [was EXCEPT !.positions = next, !.basis = b]
<1>1. /\ {"type", "id", "version", "positions", "basis"} \subseteq DOMAIN was /\ was.type = A /\ was.version \in Nat
      /\ was.id \in Assessed /\ BasisContract(was.basis)
  BY AssessmentWas
<1>2. Took(l, was, positions, p) = e
  BY DEF Took
<1>3. BasisContract(b)
  <2>1. was.basis.sup \cup Offers[p].claims \subseteq Claims
    BY <1>1, StakeholdersAssumption DEF BasisContract
  <2>. QED BY <2>1, BasisHolds
<1>4. Takes(next) /\ next # <<>>
  <2>2. IsSeq(positions) /\ Len(positions) \in Nat
    BY SeqFacts DEF Takes
  <2>3. /\ IsSeq(next) /\ Len(next) = Len(positions) + 1
        /\ \A n \in 1 .. Len(positions) : next[n] = positions[n]
        /\ next[Len(positions) + 1] = <<p, FALSE>>
    BY <2>2, JoinedOne
  <2> HIDE DEF next
  <2>5. PositionContract(p)
    BY PositionMade
  <2>6. ASSUME NEW n \in 1 .. Len(next) PROVE next[n][1] \in DOMAIN Offers /\ PositionContract(next[n][1])
    <3>1. n \in 1 .. Len(positions) \/ n = Len(positions) + 1
      BY <2>2, <2>3
    <3>. QED BY <3>1, <2>3, <2>5 DEF Takes
  <2>7. next # <<>>
    BY <2>2, <2>3, EmptySeq
  <2>. QED BY <2>3, <2>6, <2>7 DEF Takes
<1> HIDE DEF next, b
<1>5. /\ DOMAIN e = DOMAIN was /\ e.type = A /\ e.id = was.id /\ e.version = was.version
      /\ e.positions = next /\ e.basis = b
  BY <1>1
<1> HIDE DEF e
<1>6. Proper(S, l, e) /\ Was(e, A)
  BY <1>1, <1>3, <1>4, <1>5, AssessmentProper
<1>. QED BY <1>2, <1>5, <1>6

LEMMA AddPositionMade ==
  ASSUME NEW S, NEW l, Sound(l), NEW id, Known(l, A, id), NEW p \in DOMAIN Offers, NEW cause
  PROVE  LET q == AddPosition(l, id, p, cause) IN Made(S, l, q) /\ (q # <<>> => Was(q[1], A) /\ q[1].id = id)
<1> DEFINE was == Assessed1(l, id)
           e   == Took(l, was, was.positions, p)
           say == Transition(id, IF Offers[p].kind = "INFERRED_INTEREST" THEN "INTEREST_INFERRED" ELSE "POSITION_ADDED", cause)
<1>1. Was(was, A) /\ was.id = id /\ id \in Assessed /\ IsSeq(l)
  BY AssessedWas DEF Sound
<1>2. AddPosition(l, id, p, cause) = IF ~PublicEvidence(Held(was), p) \/ p \in Held(was) THEN <<>> ELSE <<e, say>>
  BY DEF AddPosition
<1> HIDE DEF was
<1>3. PublicEvidence(Held(was), p) => Proper(S, l, e) /\ Was(e, A) /\ e.id = id
  BY <1>1, AssessmentWas, TookMade
<1> HIDE DEF e
<1>4. Proper(S, l, say)
  BY <1>1, Said DEF Says, TransitionTypes
<1> HIDE DEF say
<1>5. <<e, say>>[1] = e
  OBVIOUS
<1>. QED BY <1>2, <1>3, <1>4, <1>5, MadePair, MadeNone

LEMMA SupersedePositionMade ==
  ASSUME NEW S, NEW l, Sound(l), NEW id, Known(l, A, id), NEW old, NEW new \in DOMAIN Offers
  PROVE  Made(S, l, SupersedePosition(l, id, old, new))
<1> DEFINE was    == Assessed1(l, id)
           marked == [n \in DOMAIN was.positions |-> <<was.positions[n][1], was.positions[n][2] \/ was.positions[n][1] = old>>]
           e      == Took(l, was, marked, new)
           say    == Transition(id, "POSITION_CHANGED", <<"superseded", old, new>>)
<1>1. Was(was, A) /\ was.id = id /\ id \in Assessed /\ IsSeq(l)
  BY AssessedWas DEF Sound
<1>2. SupersedePosition(l, id, old, new) =
        IF old \notin Held(was) \/ ~PublicEvidence(Held(was), new) THEN <<>> ELSE <<e, say>>
  BY DEF SupersedePosition
<1> HIDE DEF was
<1>3. Takes(was.positions) /\ IsSeq(was.positions)
  BY <1>1, AssessmentWas
<1>4. Len(was.positions) \in Nat /\ DOMAIN was.positions = 1 .. Len(was.positions)
  BY <1>3, SeqFacts
<1>5. /\ marked = [n \in 1 .. Len(was.positions) |-> marked[n]]
      /\ \A n \in 1 .. Len(was.positions) : marked[n][1] = was.positions[n][1]
  BY <1>4
<1> HIDE DEF marked
<1>6. Takes(marked)
  <2>1. IsSeq(marked) /\ Len(marked) = Len(was.positions)
    BY <1>4, <1>5, MapLength
  <2>. QED BY <2>1, <1>3, <1>5 DEF Takes
<1>7. PublicEvidence(Held(was), new) => Proper(S, l, e)
  BY <1>1, <1>6, TookMade
<1> HIDE DEF e
<1>8. Proper(S, l, say)
  BY <1>1, Said DEF Says, TransitionTypes
<1> HIDE DEF say
<1>. QED BY <1>2, <1>7, <1>8, MadePair, MadeNone

LEMMA RecheckedMade ==
  ASSUME NEW S, NEW l, Sound(l), NEW id, Known(l, A, id)
  PROVE  LET e == Rechecked(l, id) IN Proper(S, l, e) /\ Was(e, A) /\ e.id = id /\ id \in Assessed
<1> DEFINE was == Assessed1(l, id)
           b   == Rebased(l, was.basis)
           e   == [was EXCEPT !.basis = b, !.caveats = OpenCaveats(l)]
<1>1. Was(was, A) /\ was.id = id /\ id \in Assessed /\ IsSeq(l)
  BY AssessedWas DEF Sound
<1>2. Rechecked(l, id) = e
  BY DEF Rechecked
<1> HIDE DEF was
<1>3. /\ {"type", "id", "version", "positions", "basis"} \subseteq DOMAIN was /\ was.type = A /\ was.version \in Nat
      /\ was.id \in Assessed /\ Takes(was.positions) /\ IsSeq(was.positions)
      /\ (was.positions # <<>> \/ was.basis.sup # {}) /\ BasisContract(was.basis)
  BY <1>1, AssessmentWas
<1>4. BasisContract(b) /\ b.sup = was.basis.sup
  BY <1>1, <1>3, Rebuilt
<1> HIDE DEF b
<1>5. /\ DOMAIN e = DOMAIN was /\ e.type = A /\ e.id = id /\ e.version = was.version
      /\ e.positions = was.positions /\ e.basis = b
  BY <1>1, <1>3
<1> HIDE DEF e
<1>6. Proper(S, l, e) /\ Was(e, A)
  BY <1>1, <1>3, <1>4, <1>5, AssessmentProper
<1>. QED BY <1>1, <1>2, <1>5, <1>6

LEMMA RefreshAssessmentMade ==
  ASSUME NEW S, NEW l, Sound(l), NEW id, Known(l, A, id), NEW cause
  PROVE  Made(S, l, RefreshAssessment(l, id, cause))
<1> DEFINE was == Assessed1(l, id)
           e   == Rechecked(l, id)
           s1  == IF e.basis.deg = was.basis.deg THEN <<>> ELSE <<Transition(id, "BASIS_DEGRADED", cause)>>
           s2  == IF e.caveats = was.caveats THEN <<>> ELSE <<Transition(id, "IDENTITY_CAVEAT_CHANGED", cause)>>
<1>1. RefreshAssessment(l, id, cause) = IF e = was THEN <<>> ELSE <<e>> \o s1 \o s2
  BY DEF RefreshAssessment
<1>2. Proper(S, l, e) /\ id \in Assessed
  BY RecheckedMade
<1> HIDE DEF e, was
<1>3. Proper(S, l, Transition(id, "BASIS_DEGRADED", cause)) /\ Proper(S, l, Transition(id, "IDENTITY_CAVEAT_CHANGED", cause))
  BY <1>2, Said DEF Says, TransitionTypes
<1>4. Made(S, l, s1) /\ Made(S, l, s2)
  BY <1>3, MadeOne, MadeNone
<1> HIDE DEF s1, s2
<1>5. Made(S, l, <<e>> \o s1 \o s2)
  BY <1>2, <1>4, MadeOne, MadeJoined
<1>. QED BY <1>1, <1>5, MadeNone

LEMMA CreateAssessmentMade ==
  ASSUME NEW S, StakeholderSteps \subseteq S, NEW l, Sound(l), NEW id \in Assessed, NEW proposal,
         NEW ps \in Seq(DOMAIN Offers), NEW claims \in SUBSET Claims
  PROVE  Made(S, l, CreateAssessment(l, id, proposal, ps, claims))
<1> DEFINE p     == [id |-> id, proposal |-> proposal, ps |-> ps, claims |-> claims]
           step  == Step("recheck", p)
           made  == Ensure(id, "CREATED", <<id>>)
           held  == [n \in DOMAIN ps |-> <<ps[n], FALSE>>]
           basis == Basis(l, claims \cup ClaimsOf(ToSet(ps)), {})
           e     == Assessment(l, id, proposal, held, claims \cup ClaimsOf(ToSet(ps)))
           not   == \/ proposal # "" /\ (~Spendable(l, proposal) \/ ps # <<>> \/ claims # Offered)
                    \/ \E n \in DOMAIN ps : ~PublicEvidence({ps[k] : k \in DOMAIN ps \ {n}}, ps[n])
                    \/ ps = <<>> /\ claims = {}
<1>1. CreateAssessment(l, id, proposal, ps, claims) =
        CASE Known(l, A, id) -> <<made, step>> [] OTHER -> IF not THEN <<>> ELSE <<e, made>>
  BY DEF CreateAssessment
<1>2. Proper(S, l, made)
  BY Said DEF Says, TransitionTypes
<1>3. ASSUME Known(l, A, id) PROVE Proper(S, l, step)
  <2>1. p.id = id /\ p.ps = ps /\ p.claims = claims
    OBVIOUS
  <2> HIDE DEF p
  <2>2. Needs(l, "recheck", p) /\ "recheck" \in S
    BY <1>3, <2>1 DEF Needs, Given, Found, StakeholderSteps
  <2>. QED BY <2>2, StepProper
<1>4. ASSUME ~not PROVE Proper(S, l, e)
  <2>1. IsSeq(ps) /\ Len(ps) \in Nat /\ DOMAIN ps = 1 .. Len(ps) /\ \A n \in 1 .. Len(ps) : ps[n] \in DOMAIN Offers
    <3>1. IsSeq(ps)
      BY AnySeq
    <3>2. \A n \in 1 .. Len(ps) : ps[n] \in DOMAIN Offers
      OBVIOUS
    <3>. QED BY <3>1, <3>2, SeqFacts
  <2>2. \A n \in 1 .. Len(ps) : PositionContract(ps[n])
    BY <1>4, <2>1, PositionMade
  <2>3. ps # <<>> \/ claims # {}
    BY <1>4
  <2> HIDE DEF not
  <2>4. held = [n \in 1 .. Len(ps) |-> held[n]] /\ \A n \in 1 .. Len(ps) : held[n][1] = ps[n]
    BY <2>1
  <2> HIDE DEF held
  <2>5. IsSeq(held) /\ Len(held) = Len(ps)
    BY <2>1, <2>4, MapLength
  <2>6. Takes(held)
    BY <2>1, <2>2, <2>4, <2>5 DEF Takes
  <2>7. ToSet(ps) \subseteq DOMAIN Offers
    BY <2>1, SeqFacts
  <2>8. claims \cup ClaimsOf(ToSet(ps)) \subseteq Claims
    BY <2>7, StakeholdersAssumption DEF ClaimsOf
  <2>9. BasisContract(basis)
    BY <2>8, BasisHolds DEF Sound
  <2>10. basis.sup = claims \cup ClaimsOf(ToSet(ps))
    BY BasisSup
  <2>11. held # <<>> \/ basis.sup # {}
    <3>1. CASE ps = <<>>
      BY <3>1, <2>3, <2>10
    <3>2. CASE ps # <<>>
      <4>1. Len(held) >= 1
        BY <3>2, <2>1, <2>5, SeqFacts
      <4>. QED BY <4>1, EmptySeq
    <3>. QED BY <3>1, <3>2
  <2>12. /\ DOMAIN e = {"type", "id", "version", "proposal", "positions", "basis", "influences", "caveats"}
         /\ e.type = A /\ e.id = id /\ e.version = 0 /\ e.positions = held /\ e.basis = basis
    BY DEF Assessment
  <2> HIDE DEF e, basis
  <2>. QED BY <2>6, <2>9, <2>11, <2>12, AssessmentProper
<1> HIDE DEF e, made, step, not
<1>. QED BY <1>1, <1>2, <1>3, <1>4, MadePair, MadeNone

LEMMA OnlyFrom ==
  ASSUME NEW X, NEW q \in Seq(X), NEW at
  PROVE  Only(q, at) \in Seq(X)
<1> DEFINE o == Only(q, at)
<1>1. IsSeq(q)
  BY AnySeq
<1>2. PICK h : Picks(q, at, Len(q), o, h)
  BY <1>1, OnlyPicks
<1> HIDE DEF o
<1>3. /\ IsSeq(o) /\ h \in [1 .. Len(o) -> 1 .. Len(q)] /\ \A n \in 1 .. Len(o) : o[n] = q[h[n]]
  BY <1>2 DEF Picks
<1>4. DOMAIN o = 1 .. Len(o) /\ Len(o) \in Nat
  BY <1>3, SeqFacts
<1>5. \A n \in 1 .. Len(o) : o[n] \in X
  BY <1>3
<1>6. o \in Seq(ToSet(o))
  BY <1>3 DEF IsSeq
<1>7. o = [n \in 1 .. Len(o) |-> o[n]]
  BY <1>6
<1>8. o \in Seq(X)
  BY <1>4, <1>5, <1>7
<1>. QED BY <1>8 DEF o

LEMMA RecheckMade ==
  ASSUME NEW S, StakeholderSteps \subseteq S, NEW l, Sound(l), NEW s, Known(l, A, s.id),
         s.ps \in Seq(DOMAIN Offers), s.claims \subseteq Claims
  PROVE  Made(S, l, Recheck(l, s))
<1> DEFINE was  == Assessed1(l, s.id)
           new  == Only(s.ps, {n \in DOMAIN s.ps : s.ps[n] \notin Held(was)})
           more == s.claims \ was.basis.sup
           p    == [was |-> Rechecked(l, s.id), ps |-> new, claims |-> more]
           rest == IF s.proposal # "" /\ (new # <<>> \/ ~(more \subseteq Offered)) THEN <<>> ELSE <<Step("more", p)>>
<1>1. Recheck(l, s) = IF s.proposal # "" /\ s.proposal # was.proposal THEN <<>>
                      ELSE RefreshAssessment(l, s.id, <<s.id>>) \o rest
  BY DEF Recheck
<1>2. new \in Seq(DOMAIN Offers) /\ more \subseteq Claims
  BY OnlyFrom
<1> HIDE DEF new, more
<1>3. p.was = Rechecked(l, s.id) /\ p.ps = new /\ p.claims = more /\ {"was", "ps", "claims"} \subseteq DOMAIN p
  OBVIOUS
<1> HIDE DEF p
<1>4. Was(p.was, A) /\ p.was.id = s.id
  BY <1>3, RecheckedMade
<1>5. Needs(l, "more", p) /\ "more" \in S
  BY <1>2, <1>3, <1>4 DEF Needs, Given, Found, StakeholderSteps
<1>6. Made(S, l, rest)
  BY <1>5, StepProper, MadeOne, MadeNone
<1> HIDE DEF rest
<1>7. Made(S, l, RefreshAssessment(l, s.id, <<s.id>>) \o rest)
  BY <1>6, RefreshAssessmentMade, MadeJoined
<1>. QED BY <1>1, <1>7, MadeNone

LEMMA MoreMade ==
  ASSUME NEW S, StakeholderSteps \subseteq S, NEW l, Sound(l), NEW s, Needs(l, "more", s)
  PROVE  Made(S, l, More(l, s))
<1> DEFINE id     == s.was.id
           b      == Widened(l, s.was.basis, s.claims, {})
           e      == [s.was EXCEPT !.basis = b]
           say    == Transition(id, "EVIDENCE_UPDATED", <<"fold", s.claims>>)
           events == AddPosition(l, id, Head(s.ps), <<id>>)
           p      == [s EXCEPT !.ps = Tail(@), !.was = IF events = <<>> THEN Assessed1(l, id) ELSE events[1]]
<1>1. More(l, s) = CASE s.ps = <<>> -> IF s.claims = {} THEN <<>> ELSE <<e, say>>
                     [] s.ps # <<>> /\ ~PublicEvidence(Held(Assessed1(l, id)), Head(s.ps)) -> <<>>
                     [] OTHER -> events \o <<Step("more", p)>>
  BY DEF More
<1>2. /\ {"was", "ps", "claims"} \subseteq DOMAIN s /\ Was(s.was, A) /\ Known(l, A, id)
      /\ s.ps \in Seq(DOMAIN Offers) /\ s.claims \in SUBSET Claims /\ IsSeq(l)
  BY DEF Needs, Given, Found, Sound
<1>3. /\ {"type", "id", "version", "positions", "basis"} \subseteq DOMAIN s.was /\ s.was.type = A /\ s.was.version \in Nat
      /\ id \in Assessed /\ Takes(s.was.positions) /\ IsSeq(s.was.positions)
      /\ (s.was.positions # <<>> \/ s.was.basis.sup # {}) /\ BasisContract(s.was.basis)
  BY <1>2, AssessmentWas
<1>4. BasisContract(b) /\ (s.was.basis.sup # {} => b.sup # {})
  <2>1. {} \in SUBSET Claims
    OBVIOUS
  <2>. QED BY <1>2, <1>3, <2>1, Widens
<1> HIDE DEF b
<1>5. /\ DOMAIN e = DOMAIN s.was /\ e.type = A /\ e.id = id /\ e.version = s.was.version
      /\ e.positions = s.was.positions /\ e.basis = b
  BY <1>3
<1> HIDE DEF e
<1>6. Proper(S, l, e)
  BY <1>3, <1>4, <1>5, AssessmentProper
<1>7. Proper(S, l, say)
  BY <1>3, Said DEF Says, TransitionTypes
<1> HIDE DEF say
<1>8. ASSUME s.ps # <<>> PROVE Made(S, l, events \o <<Step("more", p)>>)
  <2>1. Head(s.ps) \in DOMAIN Offers /\ Tail(s.ps) \in Seq(DOMAIN Offers)
    BY <1>2, <1>8
  <2>2. Made(S, l, events) /\ (events # <<>> => Was(events[1], A) /\ events[1].id = id)
    BY <1>2, <2>1, AddPositionMade
  <2>3. Was(Assessed1(l, id), A) /\ Assessed1(l, id).id = id
    BY <1>2, AssessedWas
  <2>4. /\ p.was = (IF events = <<>> THEN Assessed1(l, id) ELSE events[1]) /\ p.ps = Tail(s.ps) /\ p.claims = s.claims
        /\ {"was", "ps", "claims"} \subseteq DOMAIN p
    BY <1>2
  <2> HIDE DEF p, events
  <2>5. Was(p.was, A) /\ p.was.id = id
    BY <2>2, <2>3, <2>4
  <2>6. Needs(l, "more", p) /\ "more" \in S
    BY <1>2, <2>1, <2>4, <2>5 DEF Needs, Given, Found, StakeholderSteps
  <2>. QED BY <2>2, <2>6, StepProper, MadeOne, MadeJoined
<1>. QED BY <1>1, <1>6, <1>7, <1>8, MadePair, MadeNone

LEMMA CaveatsMade ==
  ASSUME NEW S, StakeholderSteps \subseteq S, NEW l, Sound(l)
  PROVE  Made(S, l, RefreshIdentityCaveats(l))
<1> DEFINE K     == {id \in Assessed : Known(l, A, id)}
           known == SetToSeq(K)
           q     == [n \in DOMAIN known |-> Step("caveats", Assessed1(l, known[n]))]
<1>1. RefreshIdentityCaveats(l) = q
  BY DEF RefreshIdentityCaveats
<1>2. IsFiniteSet(K)
  BY KnownFinite DEF Sound
<1>3. known \in [1 .. Cardinality(K) -> K] /\ Cardinality(K) \in Nat
  BY <1>2, SetToSeqIs
<1>4. \A id \in K : Proper(S, l, Step("caveats", Assessed1(l, id)))
  <2>1. ASSUME NEW id \in K PROVE Needs(l, "caveats", Assessed1(l, id))
    BY AssessedWas DEF Needs, Given, Found
  <2>2. "caveats" \in S
    BY DEF StakeholderSteps
  <2>. QED BY <2>1, <2>2, StepProper
<1> HIDE DEF known, K
<1>5. /\ q = [n \in 1 .. Cardinality(K) |-> q[n]]
      /\ \A n \in 1 .. Cardinality(K) : Proper(S, l, q[n])
  BY <1>3, <1>4
<1> HIDE DEF q
<1>. QED BY <1>1, <1>3, <1>5, MadeMapped

LEMMA CaveatMade ==
  ASSUME NEW S, NEW l, NEW was, Was(was, A)
  PROVE  Made(S, l, Caveat(l, was))
<1> DEFINE now == OpenCaveats(l)
           e   == [was EXCEPT !.caveats = now]
           say == Transition(was.id, "IDENTITY_CAVEAT_CHANGED", <<"propagate", was.id>>)
<1>1. Caveat(l, was) = IF now = was.caveats THEN <<>> ELSE <<e, say>>
  BY DEF Caveat
<1>2. /\ {"type", "id", "version", "positions", "basis"} \subseteq DOMAIN was /\ was.type = A /\ was.version \in Nat
      /\ was.id \in Assessed /\ Takes(was.positions) /\ IsSeq(was.positions)
      /\ (was.positions # <<>> \/ was.basis.sup # {}) /\ BasisContract(was.basis)
  BY AssessmentWas
<1>3. /\ DOMAIN e = DOMAIN was /\ e.type = A /\ e.id = was.id /\ e.version = was.version
      /\ e.positions = was.positions /\ e.basis = was.basis
  BY <1>2
<1> HIDE DEF e
<1>4. Proper(S, l, e)
  BY <1>2, <1>3, AssessmentProper
<1>5. Proper(S, l, say)
  BY <1>2, Said DEF Says, TransitionTypes
<1> HIDE DEF say
<1>. QED BY <1>1, <1>4, <1>5, MadePair, MadeNone

LEMMA InfluenceProper ==
  ASSUME NEW S, NEW l, NEW e, {"type", "id", "version", "status"} \subseteq DOMAIN e, e.type = U, e.version \in Nat,
         e.id \in DOMAIN Influences, e.status \in {"ACTIVE", "SUPERSEDED", "RETIRED"}
  PROVE  Proper(S, l, e)
<1>1. WellMade(e)
  BY DEF WellMade, Tells, Judges, Warns, Speaks, Versioned, T, N, A, U, W, E, F
<1>. QED BY <1>1 DEF Proper, U

LEMMA AssertInfluenceMade ==
  ASSUME NEW S, NEW l, Sound(l), NEW u \in DOMAIN Influences, NEW proposal
  PROVE  Made(S, l, AssertInfluence(l, u, proposal))
<1> DEFINE versions == Cardinality(Versions(l, U, u))
           new      == [type |-> U, id |-> u, version |-> versions, status |-> "ACTIVE", proposal |-> proposal]
           made     == Ensure(u, "ASSERTED", <<u>>)
           say      == IF versions = 0 THEN made ELSE Transition(u, "ASSERTED", <<"again", versions + 1>>)
<1>1. AssertInfluence(l, u, proposal) =
        CASE IsActive(l, u) -> IF proposal # "" /\ proposal # Influence(l, u).proposal THEN <<>> ELSE <<made>>
          [] ~IsActive(l, u) /\ ~Authorized(l, proposal) -> <<>>
          [] OTHER -> <<new, say>>
  BY DEF AssertInfluence
<1>2. versions \in Nat
  BY VersionsFacts DEF Sound
<1> HIDE DEF versions
<1>3. {"type", "id", "version", "status"} \subseteq DOMAIN new /\ new.type = U /\ new.id = u /\ new.version = versions /\ new.status = "ACTIVE"
  OBVIOUS
<1> HIDE DEF new
<1>4. Proper(S, l, new)
  BY <1>2, <1>3, InfluenceProper
<1>5. Proper(S, l, made) /\ Proper(S, l, say)
  BY Said DEF Says, TransitionTypes
<1> HIDE DEF say, made
<1>. QED BY <1>1, <1>4, <1>5, MadeOne, MadePair, MadeNone

LEMMA SupersedeInfluenceMade ==
  ASSUME NEW S, NEW l, Sound(l), NEW u, Known(l, U, u)
  PROVE  Made(S, l, SupersedeInfluence(l, u))
<1> DEFINE was  == Influence(l, u)
           e    == [was EXCEPT !.status = "SUPERSEDED"]
           say  == Transition(u, "SUPERSEDED", <<"analyst">>)
<1>1. Was(was, U) /\ was.id = u
  BY CurrentWritten DEF Influence, Was
<1>2. SupersedeInfluence(l, u) = (IF IsActive(l, u) THEN <<e>> ELSE <<>>) \o <<say>>
  BY DEF SupersedeInfluence
<1> HIDE DEF was
<1>3. {"type", "id", "version", "status"} \subseteq DOMAIN was /\ was.type = U /\ was.version \in Nat /\ u \in DOMAIN Influences
  BY <1>1 DEF Was, WellMade, Judges, Versioned, Filed, U
<1>4. DOMAIN e = DOMAIN was /\ e.type = U /\ e.id = u /\ e.version = was.version /\ e.status = "SUPERSEDED"
  BY <1>1, <1>3
<1> HIDE DEF e
<1>5. Proper(S, l, e)
  BY <1>3, <1>4, InfluenceProper
<1>6. Proper(S, l, say)
  BY <1>3, Said DEF Says, TransitionTypes
<1> HIDE DEF say
<1>. QED BY <1>2, <1>5, <1>6, MadeOne, MadeNone, MadeJoined

LEMMA LinkInfluenceMade ==
  ASSUME NEW S, NEW l, Sound(l), NEW id, NEW u
  PROVE  Made(S, l, LinkInfluence(l, id, u))
<1> DEFINE was == Assessed1(l, id)
           e   == [was EXCEPT !.influences = @ \cup {u}]
<1>1. LinkInfluence(l, id, u) = IF ~Known(l, A, id) \/ u \in was.influences THEN <<>> ELSE <<e>>
  BY DEF LinkInfluence
<1>2. ASSUME Known(l, A, id) PROVE Proper(S, l, e)
  <2>1. Was(was, A)
    BY <1>2, AssessedWas
  <2> HIDE DEF was
  <2>2. /\ {"type", "id", "version", "positions", "basis"} \subseteq DOMAIN was /\ was.type = A /\ was.version \in Nat
        /\ was.id \in Assessed /\ Takes(was.positions) /\ IsSeq(was.positions)
        /\ (was.positions # <<>> \/ was.basis.sup # {}) /\ BasisContract(was.basis)
    BY <2>1, AssessmentWas
  <2>3. /\ DOMAIN e = DOMAIN was /\ e.type = A /\ e.id = was.id /\ e.version = was.version
        /\ e.positions = was.positions /\ e.basis = was.basis
    BY <2>2
  <2> HIDE DEF e
  <2>. QED BY <2>2, <2>3, AssessmentProper
<1> HIDE DEF e
<1>. QED BY <1>1, <1>2, MadeOne, MadeNone

LEMMA DiscoverMade ==
  ASSUME NEW S, StakeholderSteps \subseteq S, NEW l, NEW u \in DOMAIN Influences, NEW p \in DOMAIN Offers
  PROVE  Made(S, l, Discover(u, p))
<1> DEFINE a == [id |-> Influences[u].of, p |-> p]
           k == [id |-> Influences[u].of, u |-> u]
<1>1. Discover(u, p) = <<Step("assess", a)>> \o IF Influences[u].derived THEN <<Step("assert", u), Step("link", k)>> ELSE <<>>
  BY DEF Discover
<1>2. a.id \in Assessed /\ a.p = p
  BY StakeholdersAssumption
<1> HIDE DEF a, k
<1>3. Needs(l, "assess", a) /\ Needs(l, "assert", u) /\ Needs(l, "link", k)
  BY <1>2 DEF Needs, Given, Found
<1>4. {"assess", "assert", "link"} \subseteq S
  BY DEF StakeholderSteps
<1>5. Proper(S, l, Step("assess", a)) /\ Proper(S, l, Step("assert", u)) /\ Proper(S, l, Step("link", k))
  BY <1>3, <1>4, StepProper
<1>. QED BY <1>1, <1>5, MadeOne, MadePair, MadeNone, MadeJoined

LEMMA StakeholderStepMade ==
  ASSUME NEW S, StakeholderSteps \subseteq S, NEW l, Sound(l), NEW s, s.what \in StakeholderSteps, Needs(l, s.what, s.id)
  PROVE  Made(S, l, StakeholderContinue(l, s))
<1>1. CASE s.what = "recheck"
  BY <1>1, RecheckMade DEF StakeholderContinue, Needs, Given, Found
<1>2. CASE s.what = "more"
  BY <1>2, MoreMade DEF StakeholderContinue
<1>3. CASE s.what = "caveats"
  BY <1>3, CaveatMade DEF StakeholderContinue, Needs, Given
<1>4. CASE s.what = "assess"
  <2>1. s.id.id \in Assessed /\ s.id.p \in DOMAIN Offers
    BY <1>4 DEF Needs, Given
  <2>2. <<s.id.p>> \in Seq(DOMAIN Offers) /\ {} \in SUBSET Claims
    BY <2>1
  <2>. QED BY <1>4, <2>1, <2>2, CreateAssessmentMade DEF StakeholderContinue
<1>5. CASE s.what = "assert"
  BY <1>5, AssertInfluenceMade DEF StakeholderContinue, Needs, Given
<1>6. CASE s.what = "link"
  BY <1>6, LinkInfluenceMade DEF StakeholderContinue
<1>. QED BY <1>1, <1>2, <1>3, <1>4, <1>5, <1>6 DEF StakeholderSteps

(***************************************************************************)
(* Impact.                                                                 *)
(***************************************************************************)
LEMMA ObjectiveProper ==
  ASSUME NEW S, NEW l, NEW e, {"type", "id", "version", "status"} \subseteq DOMAIN e, e.type = "objective", e.version \in Nat,
         e.id \in DOMAIN Objectives, e.status \in {"ACTIVE", "EXPOSED"}
  PROVE  Proper(S, l, e)
<1>1. WellMade(e)
  BY DEF WellMade, Tells, Judges, Warns, Speaks, Versioned, T, N, A, U, W, E, F
<1>. QED BY <1>1 DEF Proper

LEMMA AssumptionProper ==
  ASSUME NEW S, NEW l, NEW e, {"type", "id", "version", "status", "sup", "con", "objectives"} \subseteq DOMAIN e,
         e.type = "assumption", e.version \in Nat, e.id \in DOMAIN Assumptions, e.status \in {"HELD", "UNCERTAIN", "INVALIDATED"},
         e.sup \cup e.con \subseteq Claims, IsFiniteSet(e.objectives)
  PROVE  Proper(S, l, e)
<1>1. WellMade(e)
  BY DEF WellMade, Tells, Judges, Warns, Speaks, Versioned, T, N, A, U, W, E, F
<1>. QED BY <1>1 DEF Proper

LEMMA AssumptionWas ==
  ASSUME NEW was, Was(was, "assumption")
  PROVE  /\ {"type", "id", "version", "status", "sup", "con", "objectives"} \subseteq DOMAIN was
         /\ was.type = "assumption" /\ was.version \in Nat /\ was.id \in DOMAIN Assumptions
         /\ was.status \in {"HELD", "UNCERTAIN", "INVALIDATED"}
         /\ was.sup \cup was.con \subseteq Claims /\ IsFiniteSet(was.objectives)
BY DEF Was, WellMade, Judges, Versioned, Filed

LEMMA PathProper ==
  ASSUME NEW S, NEW l, NEW e, {"type", "id", "version", "status", "authority"} \subseteq DOMAIN e, e.type = "path", e.version \in Nat,
         e.id \in DOMAIN Paths, e.status \in {"ASSESSED", "STALE"}, e.authority = Weakest(Paths[e.id].authorities)
  PROVE  Proper(S, l, e)
<1>1. WellMade(e)
  BY DEF WellMade, Tells, Judges, Warns, Speaks, Versioned, T, N, A, U, W, E, F
<1>. QED BY <1>1 DEF Proper

LEMMA OptionProper ==
  ASSUME NEW S, NEW l, NEW e, {"type", "id", "version", "status", "actor"} \subseteq DOMAIN e, e.type = "option", e.version \in Nat,
         e.id \in DOMAIN ResponseOptions, e.status \in {"PROPOSED", "ACCEPTED", "REJECTED"}, e.status = "ACCEPTED" => e.actor # ""
  PROVE  Proper(S, l, e)
<1>1. WellMade(e)
  BY DEF WellMade, Tells, Judges, Warns, Speaks, Versioned, T, N, A, U, W, E, F
<1>. QED BY <1>1 DEF Proper

LEMMA CreateObjectiveMade ==
  ASSUME NEW S, NEW l, NEW o \in DOMAIN Objectives
  PROVE  Made(S, l, CreateObjective(l, o))
<1> DEFINE e == [type |-> "objective", id |-> o, version |-> 0, status |-> "ACTIVE"]
<1>1. CreateObjective(l, o) = (IF Known(l, "objective", o) THEN <<>> ELSE <<e>>) \o <<Ensure(o, "CREATED", <<o>>)>>
  BY DEF CreateObjective
<1>2. {"type", "id", "version", "status"} \subseteq DOMAIN e /\ e.type = "objective" /\ e.version = 0 /\ e.id = o /\ e.status = "ACTIVE"
  OBVIOUS
<1> HIDE DEF e
<1>3. Proper(S, l, e)
  BY <1>2, ObjectiveProper
<1>4. Proper(S, l, Ensure(o, "CREATED", <<o>>))
  BY Said DEF Says, TransitionTypes, WarningTypes
<1>. QED BY <1>1, <1>3, <1>4, MadeOne, MadeNone, MadeJoined

LEMMA ExposeMade ==
  ASSUME NEW S, NEW l, Sound(l), NEW o, NEW cause
  PROVE  Made(S, l, Expose(l, o, cause))
<1> DEFINE was == Current(l, "objective", o)
           e   == [was EXCEPT !.status = "EXPOSED"]
<1>1. Expose(l, o, cause) = IF ~Known(l, "objective", o) THEN <<>>
                            ELSE (IF was.status = "EXPOSED" THEN <<>> ELSE <<e>>) \o <<Transition(o, "EXPOSED", cause)>>
  BY DEF Expose
<1>2. ASSUME Known(l, "objective", o) PROVE Proper(S, l, e) /\ Proper(S, l, Transition(o, "EXPOSED", cause))
  <2>1. WellMade(was) /\ was.type = "objective" /\ was.id = o
    BY <1>2, CurrentWritten
  <2> HIDE DEF was
  <2>2. {"type", "id", "version", "status"} \subseteq DOMAIN was /\ was.version \in Nat /\ o \in DOMAIN Objectives
    BY <2>1 DEF WellMade, Judges, Versioned, Filed
  <2>3. DOMAIN e = DOMAIN was /\ e.type = "objective" /\ e.id = o /\ e.version = was.version /\ e.status = "EXPOSED"
    BY <2>1, <2>2
  <2> HIDE DEF e
  <2>4. Proper(S, l, e)
    BY <2>2, <2>3, ObjectiveProper
  <2>. QED BY <2>2, <2>4, Said DEF Says, TransitionTypes, WarningTypes
<1> HIDE DEF e
<1>. QED BY <1>1, <1>2, MadeOne, MadeNone, MadeJoined

LEMMA AssumedWas ==
  ASSUME NEW l, Sound(l), NEW a, Known(l, "assumption", a)
  PROVE  Was(Current(l, "assumption", a), "assumption") /\ Current(l, "assumption", a).id = a /\ a \in DOMAIN Assumptions
<1>1. Was(Current(l, "assumption", a), "assumption") /\ Current(l, "assumption", a).id = a
  BY CurrentWritten DEF Was
<1>. QED BY <1>1, AssumptionWas

LEMMA RecordAssumptionMade ==
  ASSUME NEW S, ImpactSteps \subseteq S, NEW l, Sound(l), NEW a \in DOMAIN Assumptions, NEW claims \in SUBSET Claims,
         NEW objectives, IsFiniteSet(objectives)
  PROVE  Made(S, l, RecordAssumption(l, a, claims, objectives))
<1> DEFINE was  == Current(l, "assumption", a)
           more == <<claims \ was.sup, objectives \ was.objectives>>
           p    == [id |-> a, claims |-> claims, objectives |-> objectives, was |-> was]
           held == Ensure(a, "HELD", <<a>>)
           step == Step("fold assumption", p)
           e    == [type |-> "assumption", id |-> a, version |-> 0, status |-> "HELD",
                    sup |-> claims, con |-> {}, objectives |-> objectives]
<1>1. RecordAssumption(l, a, claims, objectives) =
        IF ~Known(l, "assumption", a) THEN <<e, held>>
        ELSE <<held>> \o (IF more = <<{}, {}>> THEN <<>> ELSE <<step>>)
  BY DEF RecordAssumption
<1>2. /\ {"type", "id", "version", "status", "sup", "con", "objectives"} \subseteq DOMAIN e
      /\ e.type = "assumption" /\ e.version = 0 /\ e.id = a /\ e.status = "HELD"
      /\ e.sup = claims /\ e.con = {} /\ e.objectives = objectives
  OBVIOUS
<1> HIDE DEF e
<1>3. Proper(S, l, e)
  BY <1>2, AssumptionProper
<1>4. p.id = a /\ p.was = was /\ p.objectives = objectives /\ p.claims = claims
  OBVIOUS
<1> HIDE DEF p, was, more
<1>5. ASSUME Known(l, "assumption", a) PROVE Proper(S, l, step)
  <2>1. Was(was, "assumption") /\ was.id = a
    BY <1>5, AssumedWas DEF was
  <2>2. Needs(l, "fold assumption", p) /\ "fold assumption" \in S
    BY <1>4, <2>1 DEF Needs, Given, Found, ImpactSteps
  <2>. QED BY <2>2, StepProper
<1>6. Proper(S, l, held)
  BY Said DEF Says, TransitionTypes
<1> HIDE DEF held, step
<1>. QED BY <1>1, <1>3, <1>5, <1>6, MadeOne, MadePair, MadeNone, MadeJoined

LEMMA FoldAssumptionMade ==
  ASSUME NEW S, NEW l, NEW s, Needs(l, "fold assumption", s)
  PROVE  Made(S, l, FoldAssumption(s))
<1> DEFINE was == s.was
           e   == [was EXCEPT !.sup = @ \cup s.claims, !.objectives = @ \cup s.objectives]
           say == Transition(s.id, "EVIDENCE_UPDATED", <<"fold", s.claims \ s.was.sup, s.objectives \ s.was.objectives>>)
<1>1. FoldAssumption(s) = <<e, say>>
  BY DEF FoldAssumption
<1>2. Was(was, "assumption") /\ s.id = was.id /\ s.claims \subseteq Claims /\ IsFiniteSet(s.objectives)
  BY DEF Needs, Given
<1> HIDE DEF was
<1>3. /\ {"type", "id", "version", "status", "sup", "con", "objectives"} \subseteq DOMAIN was
      /\ was.type = "assumption" /\ was.version \in Nat /\ was.id \in DOMAIN Assumptions
      /\ was.status \in {"HELD", "UNCERTAIN", "INVALIDATED"}
      /\ was.sup \cup was.con \subseteq Claims /\ IsFiniteSet(was.objectives)
  BY <1>2, AssumptionWas
<1>4. IsFiniteSet(was.objectives \cup s.objectives)
  BY <1>2, <1>3, FS_Union
<1>5. /\ DOMAIN e = DOMAIN was /\ e.type = "assumption" /\ e.id = was.id /\ e.version = was.version /\ e.status = was.status
      /\ e.sup = was.sup \cup s.claims /\ e.con = was.con /\ e.objectives = was.objectives \cup s.objectives
  BY <1>3
<1> HIDE DEF e
<1>6. e.sup \cup e.con \subseteq Claims
  BY <1>2, <1>3, <1>5
<1>7. IsFiniteSet(e.objectives)
  BY <1>4, <1>5
<1>8. Proper(S, l, e)
  BY <1>3, <1>5, <1>6, <1>7, AssumptionProper
<1>9. Proper(S, l, say)
  BY <1>2, <1>3, Said DEF Says, TransitionTypes
<1> HIDE DEF say
<1>. QED BY <1>1, <1>8, <1>9, MadePair

LEMMA QuestionMade ==
  ASSUME NEW S, NEW l, Sound(l), NEW a, Known(l, "assumption", a), NEW cause
  PROVE  Made(S, l, QuestionAssumption(l, a, cause))
<1> DEFINE was == Current(l, "assumption", a)
           e   == [was EXCEPT !.status = "UNCERTAIN"]
           say == Transition(a, "QUESTIONED", cause)
<1>1. QuestionAssumption(l, a, cause) \in {<<e, say>>, <<say>>, <<>>}
  BY DEF QuestionAssumption
<1>2. Was(was, "assumption") /\ was.id = a /\ a \in DOMAIN Assumptions
  BY AssumedWas
<1> HIDE DEF was
<1>3. /\ {"type", "id", "version", "status", "sup", "con", "objectives"} \subseteq DOMAIN was
      /\ was.type = "assumption" /\ was.version \in Nat
      /\ was.sup \cup was.con \subseteq Claims /\ IsFiniteSet(was.objectives)
  BY <1>2, AssumptionWas
<1>4. /\ DOMAIN e = DOMAIN was /\ e.type = "assumption" /\ e.id = a /\ e.version = was.version /\ e.status = "UNCERTAIN"
      /\ e.sup = was.sup /\ e.con = was.con /\ e.objectives = was.objectives
  BY <1>2, <1>3
<1> HIDE DEF e
<1>5. IsFiniteSet(e.objectives) /\ e.sup \cup e.con \subseteq Claims
  BY <1>3, <1>4
<1>6. Proper(S, l, e)
  BY <1>2, <1>3, <1>4, <1>5, AssumptionProper
<1>7. Proper(S, l, say)
  BY <1>2, Said DEF Says, TransitionTypes
<1> HIDE DEF say
<1>. QED BY <1>1, <1>6, <1>7, MadePair, MadeOne, MadeNone

LEMMA InvalidateMade ==
  ASSUME NEW S, ImpactSteps \subseteq S, NEW l, Sound(l), NEW a, Known(l, "assumption", a), NEW con \in SUBSET Claims
  PROVE  Made(S, l, InvalidateAssumption(l, a, con))
<1> DEFINE was == Current(l, "assumption", a)
           e   == [was EXCEPT !.status = "INVALIDATED", !.con = @ \cup con]
           say == Transition(a, "INVALIDATED", <<"analyst">>)
           step == Step("fallout", a)
<1>1. InvalidateAssumption(l, a, con) = (IF was.status = "INVALIDATED" THEN <<>> ELSE <<e>>) \o <<say, step>>
  BY DEF InvalidateAssumption
<1>2. Was(was, "assumption") /\ was.id = a /\ a \in DOMAIN Assumptions
  BY AssumedWas
<1> HIDE DEF was
<1>3. /\ {"type", "id", "version", "status", "sup", "con", "objectives"} \subseteq DOMAIN was
      /\ was.type = "assumption" /\ was.version \in Nat
      /\ was.sup \cup was.con \subseteq Claims /\ IsFiniteSet(was.objectives)
  BY <1>2, AssumptionWas
<1>4. /\ DOMAIN e = DOMAIN was /\ e.type = "assumption" /\ e.id = a /\ e.version = was.version /\ e.status = "INVALIDATED"
      /\ e.sup = was.sup /\ e.con = was.con \cup con /\ e.objectives = was.objectives
  BY <1>2, <1>3
<1> HIDE DEF e
<1>5. IsFiniteSet(e.objectives) /\ e.sup \cup e.con \subseteq Claims
  BY <1>3, <1>4
<1>6. Proper(S, l, e)
  BY <1>2, <1>3, <1>4, <1>5, AssumptionProper
<1>7. Proper(S, l, say)
  BY <1>2, Said DEF Says, TransitionTypes
<1>8. Proper(S, l, step)
  <2>1. Needs(l, "fallout", a) /\ "fallout" \in S
    BY DEF Needs, Given, Found, ImpactSteps
  <2>. QED BY <2>1, StepProper
<1> HIDE DEF say, step
<1>. QED BY <1>1, <1>6, <1>7, <1>8, MadePair, MadeOne, MadeNone, MadeJoined

LEMMA FalloutMade ==
  ASSUME NEW S, ImpactSteps \subseteq S, NEW l, Sound(l), NEW a, Known(l, "assumption", a)
  PROVE  Made(S, l, Fallout(l, a))
<1> DEFINE hit  == AffectedBy(l, a)
           ps   == SetToSeq(hit)
           q    == [n \in DOMAIN ps |-> Step("stale", <<ps[n], a>>)]
           r    == Step("expose each", <<SetToSeq(ExposedBy(l, a)), a>>)
<1>1. Fallout(l, a) = q \o <<r>>
  BY DEF Fallout
<1>2. \A p \in hit : Known(l, "path", p)
  BY DEF AffectedBy, Built
<1>3. IsFiniteSet(hit)
  BY <1>2, KnownFinite DEF Sound
<1>4. ps \in [1 .. Cardinality(hit) -> hit] /\ Cardinality(hit) \in Nat
  BY <1>3, SetToSeqIs
<1>5. {"stale", "expose each"} \subseteq S
  BY DEF ImpactSteps
<1>6. \A p \in hit : Proper(S, l, Step("stale", <<p, a>>))
  BY <1>2, <1>5, StepProper DEF Needs, Given, Found
<1>7. Proper(S, l, r)
  BY <1>5, StepProper DEF Needs, Given, Found
<1> HIDE DEF ps, hit, r
<1>8. q = [n \in 1 .. Cardinality(hit) |-> q[n]] /\ \A n \in 1 .. Cardinality(hit) : Proper(S, l, q[n])
  BY <1>4, <1>6
<1> HIDE DEF q
<1>9. Made(S, l, q) /\ Made(S, l, <<r>>)
  BY <1>4, <1>7, <1>8, MadeMapped, MadeOne
<1>. QED BY <1>1, <1>9, MadeJoined

LEMMA ExposeEachMade ==
  ASSUME NEW S, ImpactSteps \subseteq S, NEW l, Sound(l), NEW objectives, NEW a
  PROVE  Made(S, l, ExposeEach(l, objectives, a))
<1> DEFINE one  == Expose(l, Head(objectives), <<"assumption", a>>)
           rest == Step("expose each", <<Tail(objectives), a>>)
<1>1. ExposeEach(l, objectives, a) \in {<<>>, one \o <<rest>>}
  BY DEF ExposeEach
<1>2. Made(S, l, one)
  BY ExposeMade
<1>3. Proper(S, l, rest)
  BY StepProper DEF Needs, Given, Found, ImpactSteps
<1> HIDE DEF one, rest
<1>. QED BY <1>1, <1>2, <1>3, MadeNone, MadeOne, MadeJoined

LEMMA StaleMade ==
  ASSUME NEW S, ImpactSteps \subseteq S, NEW l, Sound(l), NEW p, Known(l, "path", p)
  PROVE  /\ \A a : Made(S, l, StaleByAssumption(l, p, a))
         /\ Made(S, l, RefreshPath(l, p))
<1> DEFINE was == Current(l, "path", p)
           e   == [was EXCEPT !.status = "STALE"]
<1>1. Stale(l, p) = IF was.status = "STALE" THEN <<>> ELSE <<e>>
  BY DEF Stale
<1>2. WellMade(was) /\ was.type = "path" /\ was.id = p
  BY CurrentWritten
<1> HIDE DEF was
<1>3. /\ {"type", "id", "version", "status", "authority"} \subseteq DOMAIN was /\ was.version \in Nat
      /\ p \in DOMAIN Paths /\ was.authority = Weakest(Paths[p].authorities)
  BY <1>2 DEF WellMade, Judges, Versioned, Filed
<1>4. DOMAIN e = DOMAIN was /\ e.type = "path" /\ e.id = p /\ e.version = was.version /\ e.status = "STALE" /\ e.authority = was.authority
  BY <1>2, <1>3
<1> HIDE DEF e
<1>5. Proper(S, l, e)
  BY <1>3, <1>4, PathProper
<1>6. Made(S, l, Stale(l, p))
  BY <1>1, <1>5, MadeOne, MadeNone
<1>7. "expose" \in S /\ Says(S, l, {p}, TransitionTypes.path)
  BY <1>3, Said DEF Says, ImpactSteps
<1>8. \A o, cause, why, what : what \in {"ASSUMPTION_INVALIDATED", "STALE"}
        => Made(S, l, <<Transition(p, what, why), Step("expose", <<o, cause>>)>>)
  <2>1. \A o, cause : Proper(S, l, Step("expose", <<o, cause>>))
    BY <1>7, StepProper DEF Needs, Given, Found
  <2>2. \A what, why : what \in {"ASSUMPTION_INVALIDATED", "STALE"} => Proper(S, l, Transition(p, what, why))
    BY <1>7 DEF Says, TransitionTypes
  <2>. QED BY <2>1, <2>2, MadePair
<1>9. ASSUME NEW a PROVE Made(S, l, StaleByAssumption(l, p, a))
  BY <1>6, <1>8, MadeJoined DEF StaleByAssumption
<1>10. Made(S, l, RefreshPath(l, p))
  BY <1>6, <1>8, MadeJoined, MadeNone DEF RefreshPath
<1>. QED BY <1>9, <1>10

LEMMA BuildMade ==
  ASSUME NEW S, NEW l, NEW p \in DOMAIN Paths, NEW proposal
  PROVE  Made(S, l, BuildPath(l, p, proposal))
<1> DEFINE new   == [type |-> "path", id |-> p, version |-> 0, status |-> "ASSESSED",
                     authority |-> Weakest(Paths[p].authorities), proposal |-> proposal]
           built == <<Ensure(p, "CONSTRUCTED", <<p>>)>>
<1>1. BuildPath(l, p, proposal) \in {<<>>, built, <<new>> \o built}
  BY DEF BuildPath
<1>2. /\ {"type", "id", "version", "status", "authority"} \subseteq DOMAIN new /\ new.type = "path" /\ new.version = 0
      /\ new.id = p /\ new.status = "ASSESSED" /\ new.authority = Weakest(Paths[p].authorities)
  OBVIOUS
<1> HIDE DEF new
<1>3. Proper(S, l, new)
  BY <1>2, PathProper
<1>4. Made(S, l, built) /\ Made(S, l, <<new>>)
  BY <1>3, Said, MadeOne DEF Says, TransitionTypes
<1> HIDE DEF built
<1>5. Made(S, l, <<new>> \o built)
  BY <1>4, MadeJoined
<1>. QED BY <1>1, <1>4, <1>5, MadeNone

LEMMA ProposeOptionMade ==
  ASSUME NEW S, NEW l, NEW o \in DOMAIN ResponseOptions, NEW proposal
  PROVE  Made(S, l, ProposeOption(l, o, proposal))
<1> DEFINE new  == [type |-> "option", id |-> o, version |-> 0, status |-> "PROPOSED", actor |-> "", proposal |-> proposal]
           made == Ensure(o, "PROPOSED", <<o>>)
<1>1. ProposeOption(l, o, proposal) \in {<<>>, <<made>>, <<new, made>>}
  BY DEF ProposeOption
<1>2. {"type", "id", "version", "status", "actor"} \subseteq DOMAIN new /\ new.type = "option" /\ new.version = 0 /\ new.id = o /\ new.status = "PROPOSED"
  OBVIOUS
<1> HIDE DEF new
<1>3. Proper(S, l, new)
  <2>1. new.status \in {"PROPOSED", "ACCEPTED", "REJECTED"} /\ (new.status = "ACCEPTED" => new.actor # "") /\ new.version \in Nat
    BY <1>2
  <2>. QED BY <1>2, <2>1, OptionProper
<1>4. Proper(S, l, made)
  BY Said DEF Says, TransitionTypes
<1> HIDE DEF made
<1>. QED BY <1>1, <1>3, <1>4, MadeOne, MadePair, MadeNone

LEMMA ReviewOptionMade ==
  ASSUME NEW S, NEW l, Sound(l), NEW o, Known(l, "option", o), NEW status \in {"ACCEPTED", "REJECTED"}, NEW kind
  PROVE  Made(S, l, ReviewOption(l, o, status, kind))
<1> DEFINE was == Current(l, "option", o)
           e   == [was EXCEPT !.status = status, !.actor = IF status = "ACCEPTED" THEN kind ELSE @]
           say == Transition(o, status, <<"review", status>>)
<1>1. /\ ReviewOption(l, o, status, kind) \in {<<>>, <<say>>, <<e>> \o <<say>>}
      /\ status = "ACCEPTED" /\ kind # "HUMAN" => ReviewOption(l, o, status, kind) = <<>>
  BY DEF ReviewOption
<1>2. WellMade(was) /\ was.type = "option" /\ was.id = o
  BY CurrentWritten
<1> HIDE DEF was
<1>3. {"type", "id", "version", "status", "actor"} \subseteq DOMAIN was /\ was.version \in Nat /\ o \in DOMAIN ResponseOptions
  BY <1>2 DEF WellMade, Judges, Versioned, Filed
<1>4. /\ DOMAIN e = DOMAIN was /\ e.type = "option" /\ e.id = o /\ e.version = was.version /\ e.status = status
      /\ status = "ACCEPTED" => e.actor = kind
  BY <1>2, <1>3
<1> HIDE DEF e
<1>5. status = "ACCEPTED" => kind = "HUMAN" \/ ReviewOption(l, o, status, kind) = <<>>
  BY <1>1
<1>6. status # "ACCEPTED" \/ kind = "HUMAN" => Proper(S, l, e)
  BY <1>3, <1>4, OptionProper
<1>7. Proper(S, l, say)
  BY <1>3, Said DEF Says, TransitionTypes
<1> HIDE DEF say
<1>. QED BY <1>1, <1>5, <1>6, <1>7, MadeOne, MadeNone, MadeJoined

LEMMA ImpactStepMade ==
  ASSUME NEW S, ImpactSteps \subseteq S, NEW l, Sound(l), NEW s, s.what \in ImpactSteps, Needs(l, s.what, s.id)
  PROVE  Made(S, l, ImpactContinue(l, s))
<1>1. CASE s.what = "fold assumption"
  BY <1>1, FoldAssumptionMade DEF ImpactContinue
<1>2. CASE s.what = "fallout"
  BY <1>2, FalloutMade DEF ImpactContinue, Needs, Found
<1>3. CASE s.what = "stale"
  BY <1>3, StaleMade DEF ImpactContinue, Needs, Found
<1>4. CASE s.what = "expose"
  BY <1>4, ExposeMade DEF ImpactContinue
<1>5. CASE s.what = "expose each"
  BY <1>5, ExposeEachMade DEF ImpactContinue
<1>. QED BY <1>1, <1>2, <1>3, <1>4, <1>5 DEF ImpactSteps

(***************************************************************************)
(* Forecasts.                                                              *)
(***************************************************************************)
LEMMA ForecastProper ==
  ASSUME NEW S, NEW l, NEW e, {"type", "id", "version", "status", "p", "rule", "indicators", "basis"} \subseteq DOMAIN e,
         e.type = F, e.version \in Nat, e.status \in Statuses, e.p \in Odds, e.rule \in Rules,
         e.indicators \subseteq ToSet(Indicators), BasisContract(e.basis)
  PROVE  Proper(S, l, e)
<1>1. WellMade(e)
  BY DEF WellMade, Tells, Judges, Warns, Speaks, Versioned, T, N, A, U, W, E, F
<1>. QED BY <1>1 DEF Proper, F

LEMMA ForecastWas ==
  ASSUME NEW was, Was(was, F)
  PROVE  /\ {"type", "id", "version", "status", "p", "rule", "indicators", "basis"} \subseteq DOMAIN was
         /\ was.type = F /\ was.version \in Nat /\ was.status \in Statuses /\ was.p \in Odds /\ was.rule \in Rules
         /\ was.indicators \subseteq ToSet(Indicators) /\ BasisContract(was.basis)
BY DEF Was, WellMade, Warns, Versioned, Filed

LEMMA NowWas ==
  ASSUME NEW l, Sound(l), Exists(l)
  PROVE  Was(Now(l), F)
BY CurrentWritten DEF Was, Exists, Now

LEMMA IndicatorProper ==
  ASSUME NEW S, NEW l, NEW e, {"type", "id", "version", "status"} \subseteq DOMAIN e,
         e.type = "indicator", e.version \in Nat, e.id \in ToSet(Indicators), e.status \in IndicatorStatuses
  PROVE  Proper(S, l, e)
<1>1. WellMade(e)
  BY DEF WellMade, Tells, Judges, Warns, Speaks, Versioned, T, N, A, U, W, E, F
<1>. QED BY <1>1 DEF Proper

LEMMA IndicatorWas ==
  ASSUME NEW was, Was(was, "indicator")
  PROVE  /\ {"type", "id", "version", "status"} \subseteq DOMAIN was /\ was.type = "indicator" /\ was.version \in Nat
         /\ was.id \in ToSet(Indicators) /\ was.status \in IndicatorStatuses
BY DEF Was, WellMade, Warns, Versioned, Filed

LEMMA CloseMade ==
  ASSUME NEW S, NEW l
  PROVE  /\ \A a : Made(S, l, CloseItems(<<a>>))
         /\ \A a, b : Made(S, l, CloseItems(<<a, b>>))
<1>1. ASSUME NEW n \in Nat, NEW ids, DOMAIN ids = 1 .. n PROVE Made(S, l, CloseItems(ids))
  <2> DEFINE q == [k \in DOMAIN ids |-> Item(ids[k], "RESOLVED")]
  <2>1. q = [k \in 1 .. n |-> q[k]] /\ \A k \in 1 .. n : q[k] = Item(ids[k], "RESOLVED")
    BY <1>1
  <2>2. CloseItems(ids) = q
    BY DEF CloseItems
  <2> HIDE DEF q
  <2>3. \A k \in 1 .. n : Proper(S, l, q[k])
    BY <2>1, ItemProper
  <2>. QED BY <1>1, <2>1, <2>2, <2>3, MadeMapped
<1>2. \A a : DOMAIN <<a>> = 1 .. 1
  OBVIOUS
<1>3. \A a, b : DOMAIN <<a, b>> = 1 .. 2
  OBVIOUS
<1>. QED BY <1>1, <1>2, <1>3

LEMMA SettledMade ==
  ASSUME NEW S, NEW l, Sound(l), Exists(l), NEW status \in Terminal, NEW why
  PROVE  Made(S, l, Settled(l, status, why))
<1> DEFINE was == Now(l)
           e   == [was EXCEPT !.status = status, !.why = why]
           say == Transition(F, status, <<why>>)
<1>1. Settled(l, status, why) = <<e, say>> \o CloseItems(<<Coverage, LateMatch>>)
  BY DEF Settled
<1>2. Was(was, F)
  BY NowWas
<1> HIDE DEF was
<1>3. /\ {"type", "id", "version", "status", "p", "rule", "indicators", "basis"} \subseteq DOMAIN was
      /\ was.type = F /\ was.version \in Nat /\ was.p \in Odds /\ was.rule \in Rules
      /\ was.indicators \subseteq ToSet(Indicators) /\ BasisContract(was.basis)
  BY <1>2, ForecastWas
<1>4. /\ DOMAIN e = DOMAIN was /\ e.type = F /\ e.version = was.version /\ e.status = status /\ e.p = was.p
      /\ e.rule = was.rule /\ e.indicators = was.indicators /\ e.basis = was.basis
  BY <1>3
<1> HIDE DEF e
<1>5. status \in Statuses
  BY DEF Statuses
<1>6. Proper(S, l, e)
  BY <1>3, <1>4, <1>5, ForecastProper
<1>7. Proper(S, l, say)
  BY Said DEF Says, TransitionTypes, Terminal
<1> HIDE DEF say
<1>. QED BY <1>1, <1>6, <1>7, MadePair, CloseMade, MadeJoined

LEMMA ResolutionMade ==
  ASSUME NEW S, NEW l, Sound(l)
  PROVE  Made(S, l, TryMachineResolution(l))
<1>1. SUFFICES ASSUME Live(l) PROVE Made(S, l, TryMachineResolution(l))
  BY MadeNone DEF TryMachineResolution
<1>2. \A status \in Terminal : \A why : Made(S, l, Settled(l, status, why))
  BY <1>1, SettledMade DEF Live
<1>3. \A id : Made(S, l, <<Item(id, "OPEN")>>)
  BY ItemProper, MadeOne
<1>4. "RESOLVED_TRUE" \in Terminal /\ "RESOLVED_FALSE" \in Terminal
  BY DEF Terminal
<1>5. Made(S, l, FalseByAbsenceOrWait(l))
  BY <1>2, <1>3, <1>4 DEF FalseByAbsenceOrWait
<1>6. Made(S, l, ResolveByClaim(l))
  BY <1>2, <1>3, <1>4, <1>5, MadeNone DEF ResolveByClaim
<1>7. Made(S, l, ResolveByEvent(l))
  BY <1>2, <1>4, <1>5, MadeNone DEF ResolveByEvent
<1>. QED BY <1>6, <1>7, MadeNone DEF TryMachineResolution

LEMMA MovedMade ==
  ASSUME NEW S, NEW l, Sound(l), Exists(l), NEW p \in Odds, NEW proposal, NEW why, NEW status \in Statuses
  PROVE  Made(S, l, Moved(l, p, proposal, why, status))
<1> DEFINE was == Now(l)
           e   == [was EXCEPT !.p = p, !.proposal = proposal, !.why = why, !.status = status]
           say == Transition(F, "PROBABILITY_UPDATED", <<"version", NextVersion(l, e)>>)
<1>1. Moved(l, p, proposal, why, status) = <<e, say>>
  BY DEF Moved
<1>2. Was(was, F)
  BY NowWas
<1> HIDE DEF was
<1>3. /\ {"type", "id", "version", "status", "p", "rule", "indicators", "basis"} \subseteq DOMAIN was
      /\ was.type = F /\ was.version \in Nat /\ was.rule \in Rules
      /\ was.indicators \subseteq ToSet(Indicators) /\ BasisContract(was.basis)
  BY <1>2, ForecastWas
<1>4. /\ DOMAIN e = DOMAIN was /\ e.type = F /\ e.version = was.version /\ e.status = status /\ e.p = p
      /\ e.rule = was.rule /\ e.indicators = was.indicators /\ e.basis = was.basis
  BY <1>3
<1>5. Proper(S, l, say)
  BY Said DEF Says, TransitionTypes
<1> HIDE DEF e, say
<1>6. Proper(S, l, e)
  BY <1>3, <1>4, ForecastProper
<1>. QED BY <1>1, <1>5, <1>6, MadePair

LEMMA CreateForecastMade ==
  ASSUME NEW S, ForecastSteps \subseteq S, NEW l, Sound(l), NEW rule \in Rules, NEW p \in Odds, NEW proposal,
         NEW sup \in SUBSET Claims, NEW con \in SUBSET Claims
  PROVE  Made(S, l, CreateForecast(l, rule, p, proposal, sup, con))
<1> DEFINE e == Forecast(rule, p, proposal, Basis(l, sup, con))
           was == [was |-> Now(l), sup |-> sup, con |-> con]
<1>1. Proper(S, l, Created)
  BY Said DEF Says, TransitionTypes, Created
<1>2. /\ {"type", "id", "version", "status", "p", "rule", "indicators", "basis"} \subseteq DOMAIN e
      /\ e.type = F /\ e.version = 0 /\ e.status = "OPEN" /\ e.p = p /\ e.rule = rule /\ e.indicators = {}
      /\ e.basis = Basis(l, sup, con)
  BY DEF Forecast
<1> HIDE DEF e
<1>3. BasisContract(Basis(l, sup, con)) /\ "OPEN" \in Statuses
  BY BasisHolds DEF Sound, Statuses
<1>4. Proper(S, l, e)
  BY <1>2, <1>3, ForecastProper
<1>5. was.was = Now(l) /\ was.sup = sup /\ was.con = con
  OBVIOUS
<1>6. Fold(l, p, proposal, sup, con) \in {<<>>, <<Step("evidence", was)>>}
  BY DEF Fold
<1> HIDE DEF was
<1>7. ASSUME Exists(l) PROVE Made(S, l, Fold(l, p, proposal, sup, con))
  <2>1. Needs(l, "evidence", was) /\ "evidence" \in S
    BY <1>5, <1>7, NowWas DEF Needs, Given, Found, ForecastSteps
  <2>2. Made(S, l, <<Step("evidence", was)>>)
    BY <2>1, StepProper, MadeOne
  <2>. QED BY <1>6, <2>2, MadeNone
<1>8. CreateForecast(l, rule, p, proposal, sup, con) =
        CASE Exists(l) -> <<Created>> \o Fold(l, p, proposal, sup, con)
          [] ~Exists(l) /\ (~Authorized(l, proposal) \/ (proposal # "" /\ p # Target)) -> <<>>
          [] OTHER -> <<e, Created>>
  BY DEF CreateForecast, e
<1>9. ASSUME Exists(l) PROVE Made(S, l, <<Created>> \o Fold(l, p, proposal, sup, con))
  BY <1>1, <1>7, <1>9, MadeOne, MadeJoined
<1>10. Made(S, l, <<e, Created>>)
  BY <1>1, <1>4, MadePair
<1>. QED BY <1>8, <1>9, <1>10, MadeNone

LEMMA UpdateMade ==
  ASSUME NEW S, NEW l, Sound(l)
  PROVE  /\ \A proposal : Made(S, l, UpdateByModel(l, proposal))
         /\ \A p \in Odds : Made(S, l, UpdateByHuman(l, p))
         /\ \A status \in Outcomes : Made(S, l, ResolveByHuman(l, status))
<1>1. Live(l) => \A p \in Odds, status \in Statuses : \A proposal, why : Made(S, l, Moved(l, p, proposal, why, status))
  BY MovedMade DEF Live
<1>2. Live(l) => \A status \in Terminal : \A why : Made(S, l, Settled(l, status, why))
  BY SettledMade DEF Live
<1>3. \A cause : Made(S, l, <<Transition(F, "PROBABILITY_UPDATED", cause)>>)
  <2>1. \A cause : Proper(S, l, Transition(F, "PROBABILITY_UPDATED", cause))
    BY Said DEF Says, TransitionTypes
  <2>. QED BY <2>1, MadeOne
<1>4. Live(l) => Reviewed(l) \in Statuses
  <2>1. Live(l) => Now(l).status \in Statuses
    BY NowWas, ForecastWas DEF Live
  <2>. QED BY <2>1 DEF Reviewed, Statuses
<1>5. Target \in Odds /\ Outcomes \subseteq Terminal
  BY ForecastsAssumption DEF Terminal
<1>6. ASSUME NEW proposal PROVE Made(S, l, UpdateByModel(l, proposal))
  BY <1>1, <1>3, <1>4, <1>5, MadeNone DEF UpdateByModel
<1>7. ASSUME NEW p \in Odds PROVE Made(S, l, UpdateByHuman(l, p))
  BY <1>1, <1>4, MadeNone DEF UpdateByHuman
<1>8. ASSUME NEW status \in Outcomes PROVE Made(S, l, ResolveByHuman(l, status))
  BY <1>2, <1>5, MadeNone DEF ResolveByHuman
<1>. QED BY <1>6, <1>7, <1>8

LEMMA RefreshForecastMade ==
  ASSUME NEW S, ForecastSteps \subseteq S, NEW l, Sound(l)
  PROVE  Made(S, l, RefreshForecast(l))
<1> DEFINE was    == Now(l)
           basis  == Rebased(l, was.basis)
           status == Refreshed(l, basis)
           e      == [was EXCEPT !.basis = basis, !.status = status, !.why = "refresh"]
           try    == IF Late(l) THEN <<Step("try", F)>> ELSE <<>>
           worse  == IF Shaken(was.basis, basis)
                     THEN <<Transition(F, "BASIS_DEGRADED", <<"degraded", basis.con, basis.deg>>)>> ELSE <<>>
           passed == IF status = "HORIZON_PASSED" /\ status # was.status
                     THEN <<Transition(F, "HORIZON_PASSED", <<"horizon">>)>> ELSE <<>>
<1>1. RefreshForecast(l) = IF ~Live(l) THEN <<>>
                           ELSE IF basis = was.basis /\ status = was.status THEN try
                           ELSE <<e>> \o worse \o passed \o try
  BY DEF RefreshForecast
<1>2. SUFFICES ASSUME Live(l) PROVE Made(S, l, RefreshForecast(l))
  BY <1>1, MadeNone
<1>3. Was(was, F)
  BY <1>2, NowWas DEF Live
<1>4. status \in {"HORIZON_PASSED", "UPDATE_REQUIRED", was.status}
  BY DEF Refreshed
<1> HIDE DEF status, was
<1>5. /\ {"type", "id", "version", "status", "p", "rule", "indicators", "basis"} \subseteq DOMAIN was
      /\ was.type = F /\ was.version \in Nat /\ was.status \in Statuses /\ was.p \in Odds /\ was.rule \in Rules
      /\ was.indicators \subseteq ToSet(Indicators) /\ BasisContract(was.basis)
  BY <1>3, ForecastWas
<1>6. BasisContract(basis)
  BY <1>5, Rebuilt DEF Sound
<1> HIDE DEF basis
<1>7. status \in Statuses
  BY <1>4, <1>5 DEF Statuses
<1>8. /\ DOMAIN e = DOMAIN was /\ e.type = F /\ e.version = was.version /\ e.status = status /\ e.p = was.p
      /\ e.rule = was.rule /\ e.indicators = was.indicators /\ e.basis = basis
  BY <1>5
<1> HIDE DEF e
<1>9. Made(S, l, <<e>>)
  <2>1. Proper(S, l, e)
    BY <1>5, <1>6, <1>7, <1>8, ForecastProper
  <2>. QED BY <2>1, MadeOne
<1>10. Made(S, l, worse) /\ Made(S, l, passed)
  <2>1. \A cause : Proper(S, l, Transition(F, "BASIS_DEGRADED", cause)) /\ Proper(S, l, Transition(F, "HORIZON_PASSED", cause))
    BY Said DEF Says, TransitionTypes
  <2>. QED BY <2>1, MadeOne, MadeNone
<1>11. Made(S, l, try)
  <2>1. Needs(l, "try", F) /\ "try" \in S
    BY DEF Needs, Given, Found, ForecastSteps
  <2>. QED BY <2>1, StepProper, MadeOne, MadeNone
<1> HIDE DEF worse, passed, try
<1>12. Made(S, l, <<e>> \o worse)
  BY <1>9, <1>10, MadeJoined
<1>13. Made(S, l, <<e>> \o worse \o passed \o try)
  BY <1>10, <1>11, <1>12, MadeJoined
<1>. QED BY <1>1, <1>2, <1>11, <1>13

LEMMA EffectsMade ==
  ASSUME NEW S, NEW l, Sound(l), NEW i
  PROVE  (i \in ToSet(Indicators) => Made(S, l, FoldIn(l, i))) /\ Made(S, l, ApplyEffects(l, i))
<1> DEFINE was   == Now(l)
           fold  == [was EXCEPT !.indicators = @ \cup {i}, !.why = "indicator"]
           ask   == [was EXCEPT !.status = "UPDATE_REQUIRED", !.why = "indicator"]
           moved == IF Executed(l, i) \/ was.p = Target THEN <<>> ELSE Moved(l, Target, "", i, was.status)
           asked == IF was.status # "OPEN" THEN <<>> ELSE <<ask>>
           item  == Item(Review(i), "OPEN")
<1>1. FoldIn(l, i) = IF ~Live(l) \/ i \in was.indicators THEN <<>> ELSE <<fold>>
  BY DEF FoldIn
<1>2. ApplyEffects(l, i) = IF ~Live(l) \/ Recorded(l, Fired(i)) THEN <<>>
                           ELSE IF i \in Apply THEN moved \o <<Fired(i)>> ELSE asked \o <<item, Fired(i)>>
  BY DEF ApplyEffects
<1>3. SUFFICES ASSUME Live(l) PROVE (i \in ToSet(Indicators) => Made(S, l, FoldIn(l, i))) /\ Made(S, l, ApplyEffects(l, i))
  BY <1>1, <1>2, MadeNone
<1>4. Was(was, F)
  BY <1>3, NowWas DEF Live
<1>5. /\ {"type", "id", "version", "status", "p", "rule", "indicators", "basis"} \subseteq DOMAIN was
      /\ was.type = F /\ was.version \in Nat /\ was.status \in Statuses /\ was.p \in Odds /\ was.rule \in Rules
      /\ was.indicators \subseteq ToSet(Indicators) /\ BasisContract(was.basis)
  BY <1>4, ForecastWas
<1>6. Made(S, l, moved)
  <2>1. Target \in Odds
    BY ForecastsAssumption
  <2>2. Made(S, l, Moved(l, Target, "", i, was.status))
    BY <1>3, <1>5, <2>1, MovedMade DEF Live
  <2>. QED BY <2>2, MadeNone
<1>7. Proper(S, l, item) /\ Proper(S, l, Fired(i))
  BY ItemProper, Said DEF Says, TransitionTypes, Fired
<1> HIDE DEF was, moved, item
<1>8. /\ DOMAIN fold = DOMAIN was /\ fold.type = F /\ fold.version = was.version /\ fold.status = was.status /\ fold.p = was.p
      /\ fold.rule = was.rule /\ fold.indicators = was.indicators \cup {i} /\ fold.basis = was.basis
  BY <1>5
<1>9. /\ DOMAIN ask = DOMAIN was /\ ask.type = F /\ ask.version = was.version /\ ask.status = "UPDATE_REQUIRED" /\ ask.p = was.p
      /\ ask.rule = was.rule /\ ask.indicators = was.indicators /\ ask.basis = was.basis
  BY <1>5
<1> HIDE DEF fold, ask
<1>10. ASSUME i \in ToSet(Indicators) PROVE Made(S, l, <<fold>>)
  <2>1. fold.indicators \subseteq ToSet(Indicators)
    BY <1>5, <1>8, <1>10
  <2>2. Proper(S, l, fold)
    BY <1>5, <1>8, <2>1, ForecastProper
  <2>. QED BY <2>2, MadeOne
<1>11. Made(S, l, asked)
  <2>1. "UPDATE_REQUIRED" \in Statuses
    BY DEF Statuses
  <2>2. Proper(S, l, ask)
    BY <1>5, <1>9, <2>1, ForecastProper
  <2>. QED BY <2>2, MadeOne, MadeNone
<1> HIDE DEF asked
<1>12. Made(S, l, moved \o <<Fired(i)>>) /\ Made(S, l, asked \o <<item, Fired(i)>>)
  BY <1>6, <1>7, <1>11, MadeOne, MadePair, MadeJoined
<1>. QED BY <1>1, <1>2, <1>10, <1>12, MadeNone

LEMMA ArmMade ==
  ASSUME NEW S, ForecastSteps \subseteq S, NEW l, NEW i \in ToSet(Indicators)
  PROVE  Made(S, l, Arm(l, i))
<1> DEFINE e    == Indicator(i, "ARMED")
           step == Step("fold", i)
<1>1. Arm(l, i) \in {<<>>, <<Armed(i), step>>, <<e, Armed(i)>> \o <<step>>}
  BY TripleOf DEF Arm
<1>2. /\ {"type", "id", "version", "status"} \subseteq DOMAIN e /\ e.type = "indicator" /\ e.version = 0
      /\ e.id = i /\ e.status = "ARMED"
  BY DEF Indicator
<1>3. Proper(S, l, step)
  <2>1. Needs(l, "fold", i) /\ "fold" \in S
    BY DEF Needs, Given, Found, ForecastSteps
  <2>. QED BY <2>1, StepProper
<1> HIDE DEF e, step
<1>4. Proper(S, l, e)
  <2>1. "ARMED" \in IndicatorStatuses
    BY DEF IndicatorStatuses
  <2>. QED BY <1>2, <2>1, IndicatorProper
<1>5. Proper(S, l, Armed(i))
  BY Said DEF Says, TransitionTypes, IndicatorStatuses, Armed
<1>. QED BY <1>1, <1>3, <1>4, <1>5, MadeOne, MadePair, MadeJoined, MadeNone

LEMMA CheckMade ==
  ASSUME NEW S, ForecastSteps \subseteq S, NEW l, NEW seen, Was(seen, "indicator")
  PROVE  Made(S, l, Check(l, seen))
<1>1. ASSUME NEW status \in {"FIRED", "RETIRED", "COVERAGE_BLOCKED", "EXPIRED_UNFIRED"} PROVE Made(S, l, Change(seen, status))
  <2> DEFINE e   == [seen EXCEPT !.status = status]
             say == Transition(seen.id, status, <<seen.id>>)
  <2>1. Change(seen, status) = <<e, say>>
    BY DEF Change
  <2>2. /\ {"type", "id", "version", "status"} \subseteq DOMAIN seen /\ seen.type = "indicator" /\ seen.version \in Nat
        /\ seen.id \in ToSet(Indicators)
    BY IndicatorWas
  <2>3. DOMAIN e = DOMAIN seen /\ e.type = "indicator" /\ e.id = seen.id /\ e.version = seen.version /\ e.status = status
    BY <2>2
  <2> HIDE DEF e
  <2>4. status \in IndicatorStatuses
    BY DEF IndicatorStatuses
  <2>5. Proper(S, l, e)
    BY <2>2, <2>3, <2>4, IndicatorProper
  <2>6. Proper(S, l, say)
    BY <2>2, <2>4, Said DEF Says, TransitionTypes
  <2> HIDE DEF say
  <2>. QED BY <2>1, <2>5, <2>6, MadePair
<1>2. Made(S, l, Close(seen.id))
  BY CloseMade DEF Close
<1>3. Made(S, l, <<Step("effects", seen.id)>>)
  <2>1. Needs(l, "effects", seen.id) /\ "effects" \in S
    BY DEF Needs, Given, Found, ForecastSteps
  <2>. QED BY <2>1, StepProper, MadeOne
<1>4. \A id : Made(S, l, <<Item(id, "OPEN")>>)
  BY ItemProper, MadeOne
<1>5. Made(S, l, Fire(seen))
  BY <1>1, <1>2, <1>3, MadeJoined DEF Fire
<1>6. Made(S, l, CheckPresence(l, seen))
  BY <1>5, MadeNone DEF CheckPresence
<1>7. Made(S, l, Change(seen, "RETIRED") \o Close(seen.id))
  BY <1>1, <1>2, MadeJoined
<1>8. Made(S, l, Change(seen, "COVERAGE_BLOCKED") \o <<Item(Search(seen.id), "OPEN")>>)
  BY <1>1, <1>4, MadeJoined
<1>9. Made(S, l, CheckAbsence(l, seen))
  BY <1>5, <1>7, <1>8, MadeNone DEF CheckAbsence
<1>10. Made(S, l, <<Step("effects", seen.id)>> \o Close(seen.id))
  BY <1>2, <1>3, MadeJoined
<1>11. Made(S, l, Change(seen, "EXPIRED_UNFIRED") \o Close(seen.id))
  BY <1>1, <1>2, MadeJoined
<1>12. Check(l, seen) \in {<<>>, <<Step("effects", seen.id)>> \o Close(seen.id), Change(seen, "EXPIRED_UNFIRED") \o Close(seen.id),
                           CheckAbsence(l, seen), CheckPresence(l, seen)}
  BY DEF Check
<1>. QED BY <1>6, <1>9, <1>10, <1>11, <1>12, MadeNone

LEMMA IndicatorsMade ==
  ASSUME NEW S, ForecastSteps \subseteq S, NEW l, Sound(l)
  PROVE  Made(S, l, CheckIndicators(l))
<1> DEFINE at    == {n \in DOMAIN Indicators : Known(l, "indicator", Indicators[n])}
           known == Only(Indicators, at)
           q     == [n \in DOMAIN known |-> Step("check", Current(l, "indicator", known[n]))]
<1>1. IsSeq(Indicators)
  BY ForecastsAssumption DEF IsSeq
<1>2. CheckIndicators(l) = q
  BY DEF CheckIndicators
<1>3. PICK h : Picks(Indicators, at, Len(Indicators), known, h)
  BY <1>1, OnlyPicks
<1>4. DOMAIN known = 1 .. Len(known) /\ Len(known) \in Nat
  BY <1>3, SeqFacts DEF Picks
<1>5. \A n \in 1 .. Len(known) : Known(l, "indicator", known[n])
  BY <1>3 DEF Picks
<1> HIDE DEF known, at
<1>6. ASSUME NEW i, Known(l, "indicator", i) PROVE Proper(S, l, Step("check", Current(l, "indicator", i)))
  <2>1. Was(Current(l, "indicator", i), "indicator")
    BY <1>6, CurrentWritten DEF Was
  <2>2. Needs(l, "check", Current(l, "indicator", i)) /\ "check" \in S
    BY <2>1 DEF Needs, Given, Found, ForecastSteps
  <2>. QED BY <2>2, StepProper
<1>7. q = [n \in 1 .. Len(known) |-> q[n]] /\ \A n \in 1 .. Len(known) : Proper(S, l, q[n])
  BY <1>4, <1>5, <1>6
<1> HIDE DEF q
<1>. QED BY <1>2, <1>4, <1>7, MadeMapped

LEMMA FoldEvidenceMade ==
  ASSUME NEW S, NEW l, Sound(l), NEW was, Was(was, F), NEW sup \in SUBSET Claims, NEW con \in SUBSET Claims
  PROVE  Made(S, l, FoldEvidence(l, was, sup, con))
<1> DEFINE basis == Widened(l, was.basis, sup, con)
           e     == [was EXCEPT !.basis = basis, !.why = "fold"]
           say   == Transition(F, "EVIDENCE_UPDATED", <<"fold", sup \ was.basis.sup, con \ was.basis.con>>)
<1>1. /\ {"type", "id", "version", "status", "p", "rule", "indicators", "basis"} \subseteq DOMAIN was
      /\ was.type = F /\ was.version \in Nat /\ was.status \in Statuses /\ was.p \in Odds /\ was.rule \in Rules
      /\ was.indicators \subseteq ToSet(Indicators) /\ BasisContract(was.basis)
  BY ForecastWas
<1>2. FoldEvidence(l, was, sup, con) = <<e, say>>
  BY DEF FoldEvidence
<1>3. BasisContract(basis)
  BY <1>1, Widens DEF Sound
<1> HIDE DEF basis
<1>4. /\ DOMAIN e = DOMAIN was /\ e.type = F /\ e.version = was.version /\ e.status = was.status /\ e.p = was.p
      /\ e.rule = was.rule /\ e.indicators = was.indicators /\ e.basis = basis
  BY <1>1
<1> HIDE DEF e
<1>5. Proper(S, l, e)
  BY <1>1, <1>3, <1>4, ForecastProper
<1>6. Proper(S, l, say)
  BY Said DEF Says, TransitionTypes
<1> HIDE DEF say
<1>. QED BY <1>2, <1>5, <1>6, MadePair

LEMMA ForecastStepMade ==
  ASSUME NEW S, ForecastSteps \subseteq S, NEW l, Sound(l), NEW s, s.what \in ForecastSteps, Needs(l, s.what, s.id)
  PROVE  Made(S, l, Continue(l, s))
<1>1. CASE s.what = "try"
  BY <1>1, ResolutionMade DEF Continue
<1>2. CASE s.what = "evidence"
  BY <1>2, FoldEvidenceMade DEF Continue, Needs, Given
<1>3. CASE s.what = "fold"
  BY <1>3, EffectsMade DEF Continue, Needs, Given
<1>4. CASE s.what = "effects"
  BY <1>4, EffectsMade DEF Continue
<1>5. CASE s.what = "check"
  BY <1>5, CheckMade DEF Continue, Needs, Given
<1>. QED BY <1>1, <1>2, <1>3, <1>4, <1>5 DEF ForecastSteps

(***************************************************************************)
(* Warnings and analogues.                                                 *)
(***************************************************************************)
LEMMA WarningProper ==
  ASSUME NEW S, NEW l, NEW e, {"type", "id", "version", "status", "tier"} \subseteq DOMAIN e,
         e.type = W, e.version \in Nat, e.id \in DOMAIN Objectives, e.tier \in Tiers,
         e.status \in {"ACTIVE", "ESCALATED", "DOWNGRADED", "RESOLVED"}
  PROVE  Proper(S, l, e)
<1>1. WellMade(e)
  BY DEF WellMade, Tells, Judges, Warns, Speaks, Versioned, T, N, A, U, W, E, F
<1>. QED BY <1>1 DEF Proper, W

LEMMA WarningWas ==
  ASSUME NEW was, Was(was, W)
  PROVE  /\ {"type", "id", "version", "status", "tier"} \subseteq DOMAIN was /\ was.type = W /\ was.version \in Nat
         /\ was.id \in DOMAIN Objectives /\ was.tier \in Tiers
         /\ was.status \in {"ACTIVE", "ESCALATED", "DOWNGRADED", "RESOLVED"}
BY DEF Was, WellMade, Warns, Versioned, Filed

(* Whatever the components, the tier is one of the four. *)
LEMMA TierIsOne ==
  ASSUME NEW l, Sound(l), Exists(l), NEW o \in DOMAIN Objectives
  PROVE  Components(l, o).tier \in Tiers
<1> DEFINE pressure   == IF Late(l) THEN "PASSED" ELSE Pressure
           confidence == EvidenceConfidence(Now(l).basis)
           band       == Band[Now(l).p]
           bands      == {"REMOTE", "POSSIBLE", "LIKELY", "VERY_LIKELY"}
           ranks      == {"CRITICAL", "HIGH", "MEDIUM", "LOW"}
<1>1. Components(l, o).tier = DeriveTier(band, Objectives[o], pressure, confidence)
  BY DEF Components
<1>2. band \in bands /\ Objectives[o] \in ranks
  BY NowWas, ForecastWas, WarningsAssumption
<1> HIDE DEF pressure, confidence, band
<1>3. \A b \in bands, r \in ranks : TierTable[r][b] \in 1 .. 4
  BY DEF TierTable
<1>4. ASSUME NEW b \in bands, NEW r \in ranks PROVE DeriveTier(b, r, pressure, confidence) \in 1 .. 4
  BY <1>3 DEF DeriveTier
<1>. QED BY <1>1, <1>2, <1>4 DEF Tiers

LEMMA ProjectMade ==
  ASSUME NEW S, NEW l, Sound(l), NEW o
  PROVE  Made(S, l, ProjectWarning(l, o))
<1> DEFINE now  == Components(l, o)
           was  == Current(l, W, o)
           Next1(status) == [was EXCEPT !.is = now, !.tier = now.tier, !.status = status]
           Then1(status, what) == Transition(o, what, <<"move", NextVersion(l, Next1(status))>>)
           new  == [type |-> W, id |-> o, version |-> 0, status |-> "ACTIVE", tier |-> now.tier, is |-> now]
           say  == Transition(o, "RAISED", <<"warning">>)
<1>1. /\ Known(l, W, o) => ProjectWarning(l, o) \in {<<>>} \cup {<<Next1(sw[1]), Then1(sw[1], sw[2])>> :
             sw \in {<<"RESOLVED", "RESOLVED">>, <<"ESCALATED", "ESCALATED">>, <<"DOWNGRADED", "DOWNGRADED">>, <<was.status, "COMPONENT_CHANGED">>}}
      /\ ~Known(l, W, o) => ProjectWarning(l, o) \in {<<>>, <<new, say>>}
  BY DEF ProjectWarning
<1>2. SUFFICES ASSUME Exists(l), Known(l, "objective", o) PROVE Made(S, l, ProjectWarning(l, o))
  <2>1. ~Exists(l) \/ ~Known(l, "objective", o) => ProjectWarning(l, o) = <<>>
    BY DEF ProjectWarning
  <2>. QED BY <2>1, MadeNone
<1>3. o \in DOMAIN Objectives
  <2>1. WellMade(Current(l, "objective", o)) /\ Current(l, "objective", o).type = "objective" /\ Current(l, "objective", o).id = o
    BY <1>2, CurrentWritten
  <2>. QED BY <2>1 DEF WellMade, Judges
<1>4. now.tier \in Tiers
  BY <1>2, <1>3, TierIsOne
<1> HIDE DEF now
<1>5. /\ {"type", "id", "version", "status", "tier"} \subseteq DOMAIN new /\ new.type = W /\ new.version = 0 /\ new.id = o
      /\ new.status = "ACTIVE" /\ new.tier = now.tier
  OBVIOUS
<1> HIDE DEF new
<1>6. Proper(S, l, new)
  BY <1>3, <1>4, <1>5, WarningProper
<1>7. \A what \in WarningTypes : \A cause : Proper(S, l, Transition(o, what, cause))
  BY <1>3, Said DEF Says, TransitionTypes
<1>8. Proper(S, l, say)
  BY <1>7 DEF WarningTypes
<1>9. ASSUME Known(l, W, o), NEW status \in {"ACTIVE", "ESCALATED", "DOWNGRADED", "RESOLVED"}, NEW what \in WarningTypes
      PROVE  Made(S, l, <<Next1(status), Then1(status, what)>>)
  <2> DEFINE e == Next1(status)
  <2>1. Was(was, W) /\ was.id = o
    BY <1>9, CurrentWritten DEF Was
  <2> HIDE DEF was
  <2>2. /\ {"type", "id", "version", "status", "tier"} \subseteq DOMAIN was /\ was.type = W /\ was.version \in Nat
    BY <2>1, WarningWas
  <2>3. DOMAIN e = DOMAIN was /\ e.type = W /\ e.id = o /\ e.version = was.version /\ e.status = status /\ e.tier = now.tier
    BY <2>1, <2>2
  <2> HIDE DEF e
  <2>4. Proper(S, l, e)
    BY <1>3, <1>4, <2>2, <2>3, WarningProper
  <2>5. Proper(S, l, Then1(status, what))
    BY <1>7
  <2> USE DEF e
  <2> HIDE DEF Next1, Then1
  <2>. QED BY <2>4, <2>5, MadePair
<1>10. Known(l, W, o) => was.status \in {"ACTIVE", "ESCALATED", "DOWNGRADED", "RESOLVED"}
  <2>1. Known(l, W, o) => Was(was, W)
    BY CurrentWritten DEF Was
  <2>. QED BY <2>1, WarningWas
<1>11. {"RESOLVED", "ESCALATED", "DOWNGRADED", "COMPONENT_CHANGED"} \subseteq WarningTypes
  BY DEF WarningTypes
<1>12. Made(S, l, <<new, say>>)
  BY <1>6, <1>8, MadePair
<1> HIDE DEF Next1, Then1, was, say
<1>. QED BY <1>1, <1>9, <1>10, <1>11, <1>12, MadeNone

LEMMA WarningsMade ==
  ASSUME NEW S, WarningSteps \subseteq S, NEW l, Sound(l)
  PROVE  Made(S, l, RefreshWarnings(l))
<1> DEFINE K    == {o \in Watched : Known(l, W, o) /\ Current(l, W, o).status # "RESOLVED"}
           open == SetToSeq(K)
           q    == [n \in DOMAIN open |-> Step("project", open[n])]
<1>1. RefreshWarnings(l) = q
  BY DEF RefreshWarnings
<1>2. IsFiniteSet(K)
  BY KnownFinite DEF Sound
<1>3. open \in [1 .. Cardinality(K) -> K] /\ Cardinality(K) \in Nat
  BY <1>2, SetToSeqIs
<1>4. ASSUME NEW o PROVE Proper(S, l, Step("project", o))
  <2>1. Needs(l, "project", o) /\ "project" \in S
    BY DEF Needs, Given, Found, WarningSteps
  <2>. QED BY <2>1, StepProper
<1> HIDE DEF open, K
<1>5. q = [n \in 1 .. Cardinality(K) |-> q[n]] /\ \A n \in 1 .. Cardinality(K) : Proper(S, l, q[n])
  BY <1>3, <1>4
<1> HIDE DEF q
<1>. QED BY <1>1, <1>3, <1>5, MadeMapped

LEMMA EpisodeProper ==
  ASSUME NEW S, NEW l, NEW e, {"type", "id", "version", "claims"} \subseteq DOMAIN e,
         e.type = E, e.version \in Nat, e.id \in DOMAIN Episodes, e.claims # {}
  PROVE  Proper(S, l, e)
<1>1. WellMade(e)
  BY DEF WellMade, Tells, Judges, Warns, Speaks, Versioned, T, N, A, U, W, E, F
<1>. QED BY <1>1 DEF Proper, E

LEMMA EpisodeWas ==
  ASSUME NEW was, Was(was, E)
  PROVE  /\ {"type", "id", "version", "claims"} \subseteq DOMAIN was /\ was.type = E /\ was.version \in Nat
         /\ was.id \in DOMAIN Episodes /\ was.claims # {}
BY DEF Was, WellMade, Warns, Versioned, Filed

LEMMA EpisodeMade ==
  ASSUME NEW S, AnalogueSteps \subseteq S, NEW l, Sound(l), NEW x \in DOMAIN Episodes, NEW claims, claims # {}
  PROVE  Made(S, l, RecordEpisode(l, x, claims))
<1> DEFINE e    == [type |-> E, id |-> x, version |-> 0, claims |-> claims]
           made == Ensure(x, "RECORDED", <<x>>)
           p    == [was |-> Current(l, E, x), claims |-> claims]
           step == Step("add to episode", p)
           more == IF claims \subseteq Current(l, E, x).claims THEN <<>> ELSE <<step>>
<1>1. RecordEpisode(l, x, claims) = IF ~Known(l, E, x) THEN <<e, made>> ELSE <<made>> \o more
  BY DEF RecordEpisode
<1>2. {"type", "id", "version", "claims"} \subseteq DOMAIN e /\ e.type = E /\ e.version = 0 /\ e.id = x /\ e.claims = claims
  OBVIOUS
<1> HIDE DEF e
<1>3. Proper(S, l, e)
  BY <1>2, EpisodeProper
<1>4. Proper(S, l, made)
  BY Said DEF Says, TransitionTypes
<1>5. p.was = Current(l, E, x)
  OBVIOUS
<1> HIDE DEF made, p
<1>6. ASSUME Known(l, E, x) PROVE Made(S, l, more)
  <2>1. Was(p.was, E)
    BY <1>5, <1>6, CurrentWritten DEF Was
  <2>2. Needs(l, "add to episode", p) /\ "add to episode" \in S
    BY <2>1 DEF Needs, Given, Found, AnalogueSteps
  <2>. QED BY <2>2, StepProper, MadeOne, MadeNone
<1> HIDE DEF more
<1>. QED BY <1>1, <1>3, <1>4, <1>6, MadeOne, MadePair, MadeJoined

LEMMA RetrieveMade ==
  ASSUME NEW S, AnalogueSteps \subseteq S, NEW l, Sound(l), NEW s
  PROVE  Made(S, l, RetrieveAnalogues(l, s))
<1> DEFINE K    == {e \in DOMAIN Episodes : Known(l, E, e) /\ Cardinality(Like(s, e)) >= MinMatches}
           near == SetToSeq(K)
           q    == [n \in DOMAIN near |-> Step("analogue", <<s, near[n]>>)]
<1>1. RetrieveAnalogues(l, s) = q
  BY DEF RetrieveAnalogues
<1>2. IsFiniteSet(K)
  BY KnownFinite DEF Sound
<1>3. near \in [1 .. Cardinality(K) -> K] /\ Cardinality(K) \in Nat
  BY <1>2, SetToSeqIs
<1>4. ASSUME NEW e \in K PROVE Proper(S, l, Step("analogue", <<s, e>>))
  <2>1. Like(s, e) # {}
    <3>1. Cardinality(Like(s, e)) >= MinMatches /\ MinMatches \in Nat \ {0}
      BY AnaloguesAssumption
    <3>2. Like(s, e) = {} => Cardinality(Like(s, e)) = 0
      BY FS_EmptySet
    <3>. QED BY <3>1, <3>2
  <2>2. Needs(l, "analogue", <<s, e>>) /\ "analogue" \in S
    BY <2>1 DEF Needs, Given, Found, AnalogueSteps
  <2>. QED BY <2>2, StepProper
<1> HIDE DEF near, K
<1>5. q = [n \in 1 .. Cardinality(K) |-> q[n]] /\ \A n \in 1 .. Cardinality(K) : Proper(S, l, q[n])
  BY <1>3, <1>4
<1> HIDE DEF q
<1>. QED BY <1>1, <1>3, <1>5, MadeMapped

LEMMA AnalogueStepMade ==
  ASSUME NEW S, NEW l, NEW s, s.what \in AnalogueSteps, Needs(l, s.what, s.id)
  PROVE  Made(S, l, AnalogueContinue(l, s))
<1>1. CASE s.what = "analogue"
  <2> DEFINE id  == s.id
             e   == [type |-> "analogue", id |-> id, version |-> 0, matched |-> Like(id[1], id[2]), mismatched |-> Unlike(id[1], id[2])]
             say == Transition(id[2], "RETRIEVED", <<"retrieved", id[1]>>)
  <2>1. AnalogueContinue(l, s) \in {<<>>, <<e, say>>}
    BY <1>1 DEF AnalogueContinue, Analogue
  <2>2. /\ {"type", "id", "version", "matched"} \subseteq DOMAIN e /\ e.type = "analogue" /\ e.version = 0 /\ e.id = id
        /\ e.matched = Like(id[1], id[2])
    OBVIOUS
  <2>3. id[2] \in DOMAIN Episodes /\ Like(id[1], id[2]) # {}
    BY <1>1 DEF Needs, Given
  <2> HIDE DEF e
  <2>4. WellMade(e)
    BY <2>2, <2>3 DEF WellMade, Tells, Judges, Warns, Speaks, Versioned, T, N, A, U, W, E, F
  <2>5. Proper(S, l, e)
    BY <2>2, <2>4 DEF Proper
  <2>6. Proper(S, l, say)
    BY <2>3, Said DEF Says, TransitionTypes, AnalogueTypes
  <2> HIDE DEF say
  <2>. QED BY <2>1, <2>5, <2>6, MadePair, MadeNone
<1>2. CASE s.what = "add to episode"
  <2> DEFINE was    == s.id.was
             claims == s.id.claims
             e      == [was EXCEPT !.claims = @ \cup claims]
             say    == Transition(was.id, "EVIDENCE_UPDATED", <<"fold", claims \ was.claims>>)
  <2>1. AnalogueContinue(l, s) = <<e, say>>
    BY <1>2 DEF AnalogueContinue, AddToEpisode
  <2>2. Was(was, E)
    BY <1>2 DEF Needs, Given
  <2>3. /\ {"type", "id", "version", "claims"} \subseteq DOMAIN was /\ was.type = E /\ was.version \in Nat
        /\ was.id \in DOMAIN Episodes /\ was.claims # {}
    BY <2>2, EpisodeWas
  <2> HIDE DEF was
  <2>4. DOMAIN e = DOMAIN was /\ e.type = E /\ e.id = was.id /\ e.version = was.version /\ e.claims = was.claims \cup claims
    BY <2>3
  <2> HIDE DEF e
  <2>5. e.claims # {}
    BY <2>3, <2>4
  <2>6. Proper(S, l, e)
    BY <2>3, <2>4, <2>5, EpisodeProper
  <2>7. Proper(S, l, say)
    BY <2>3, Said DEF Says, TransitionTypes
  <2> HIDE DEF say
  <2>. QED BY <2>1, <2>6, <2>7, MadePair
<1>. QED BY <1>1, <1>2 DEF AnalogueSteps

-----------------------------------------------------------------------------
(***************************************************************************)
(* The pass.                                                               *)
(***************************************************************************)
LEMMA DegradingMade ==
  ASSUME NEW S, NEW l, NEW id, NEW what, NEW claims, NEW kind, \A cause : Proper(S, l, Transition(id, what, cause))
  PROVE  Made(S, l, Degrading(l, id, claims, what, kind))
BY MadeOne, MadeNone DEF Degrading

LEMMA ExposedMade ==
  ASSUME NEW S, ImpactSteps \subseteq S, NEW l, NEW id, NEW changes, IsFiniteSet(changes)
  PROVE  Made(S, l, Exposed(id, changes))
<1> DEFINE order == Arranged(changes, <)
           q     == [n \in DOMAIN order |-> Step("expose", <<id, <<"change", order[n]>>>>)]
<1>1. Exposed(id, changes) = q
  BY DEF Exposed
<1>2. DOMAIN order = DOMAIN SetToSeq(changes)
  BY DEF Arranged
<1>3. DOMAIN order = 1 .. Cardinality(changes) /\ Cardinality(changes) \in Nat
  BY <1>2, SetToSeqIs
<1> HIDE DEF order
<1>4. ASSUME NEW x PROVE Proper(S, l, Step("expose", x))
  <2>1. Needs(l, "expose", x) /\ "expose" \in S
    BY DEF Needs, Given, Found, ImpactSteps
  <2>. QED BY <2>1, StepProper
<1>5. q = [n \in 1 .. Cardinality(changes) |-> q[n]] /\ \A n \in 1 .. Cardinality(changes) : Proper(S, l, q[n])
  BY <1>3, <1>4
<1> HIDE DEF q
<1>. QED BY <1>1, <1>3, <1>5, MadeMapped

(* What only has it said is one of the records that this can be said of. *)
LEMMA SaidOfWhatDegrades ==
  ASSUME NEW S, NEW l, Sound(l), NEW t, NEW id, Known(l, t, id)
  PROVE  /\ t = E => \A cause : Proper(S, l, Transition(id, "EVIDENCE_DEGRADED", cause))
         /\ t = "analogue" => \A cause : Proper(S, l, Transition(id[2], "EVIDENCE_DEGRADED", cause))
         /\ t = U => \A cause : Proper(S, l, Transition(id, "WEAKENED", cause))
         /\ t = "option" => \A cause : Proper(S, l, Transition(id, "EVIDENCE_DEGRADED", cause))
<1> DEFINE r == Current(l, t, id)
<1>1. WellMade(r) /\ r.type = t /\ r.id = id
  BY CurrentWritten
<1> HIDE DEF r
<1>2. /\ t = E => id \in DOMAIN Episodes
      /\ t = "analogue" => id[2] \in DOMAIN Episodes
      /\ t = U => id \in DOMAIN Influences
      /\ t = "option" => id \in DOMAIN ResponseOptions
  BY <1>1 DEF WellMade, Judges, Warns
<1>3. /\ "EVIDENCE_DEGRADED" \in TransitionTypes.episode /\ "WEAKENED" \in TransitionTypes.influence
      /\ "EVIDENCE_DEGRADED" \in TransitionTypes.option
  BY DEF TransitionTypes
<1>. QED BY <1>2, <1>3, Said DEF Says

LEMMA RefreshOneMade ==
  ASSUME NEW S, AllSteps \subseteq S, NEW l, Sound(l), NEW o, NEW changes, IsFiniteSet(changes), NEW trusted
  PROVE  Made(S, l, RefreshOne(l, o, changes, trusted))
<1> DEFINE id == o[2]
<1>1. SUFFICES ASSUME Known(l, o[1], id) PROVE Made(S, l, RefreshOne(l, o, changes, trusted))
  BY MadeNone DEF RefreshOne
<1>2. ImpactSteps \subseteq S /\ ForecastSteps \subseteq S
  BY DEF AllSteps
<1>3. CASE o[1] = "assumption"
  <2>1. \A cause : Made(S, l, QuestionAssumption(l, id, cause))
    BY <1>1, <1>3, QuestionMade
  <2>2. Made(S, l, Questioned(l, id, changes, trusted))
    BY <2>1, MadeNone DEF Questioned
  <2>3. RefreshOne(l, o, changes, trusted) = Questioned(l, id, changes, trusted)
    BY <1>1, <1>3 DEF RefreshOne, F, N, T, A, E, U
  <2>. QED BY <2>2, <2>3
<1>4. CASE o[1] = F
  <2>1. RefreshOne(l, o, changes, trusted) = RefreshForecast(l)
    BY <1>1, <1>4 DEF RefreshOne, F, N, T, A, E, U
  <2>. QED BY <1>2, <2>1, RefreshForecastMade
<1>5. CASE o[1] = N
  <2>1. RefreshOne(l, o, changes, trusted) = RefreshNarrative(l, id, <<"changes", changes>>)
    BY <1>1, <1>5 DEF RefreshOne, F, N, T, A, E, U
  <2>2. Heard(l, id)
    BY <1>1, <1>5 DEF Heard
  <2>. QED BY <2>1, <2>2, RefreshNarrativeMade
<1>6. CASE o[1] = T
  <2>1. RefreshOne(l, o, changes, trusted) = RefreshTheme(l, id, <<"changes", changes>>)
    BY <1>1, <1>6 DEF RefreshOne, F, N, T, A, E, U
  <2>2. Is(l, id)
    BY <1>1, <1>6 DEF Is
  <2>. QED BY <2>1, <2>2, RefreshThemeMade
<1>7. CASE o[1] = A
  <2>1. RefreshOne(l, o, changes, trusted) = RefreshAssessment(l, id, <<"changes", changes>>)
    BY <1>1, <1>7 DEF RefreshOne, F, N, T, A, E, U
  <2>. QED BY <1>1, <1>7, <2>1, RefreshAssessmentMade
<1>8. CASE o[1] = "path"
  <2>1. RefreshOne(l, o, changes, trusted) = RefreshPath(l, id)
    BY <1>1, <1>8 DEF RefreshOne, F, N, T, A, E, U
  <2>. QED BY <1>1, <1>2, <1>8, <2>1, StaleMade
<1>9. CASE o[1] = "objective"
  <2>1. RefreshOne(l, o, changes, trusted) = Exposed(id, changes)
    BY <1>1, <1>9 DEF RefreshOne, F, N, T, A, E, U
  <2>. QED BY <1>2, <2>1, ExposedMade
<1>10. CASE o[1] \in {E, "analogue", U, "option"}
  <2>1. /\ o[1] = E => RefreshOne(l, o, changes, trusted) = Degrading(l, id, Current(l, E, id).claims, "EVIDENCE_DEGRADED", E)
        /\ o[1] = "analogue" =>
             RefreshOne(l, o, changes, trusted) = Degrading(l, id[2], Current(l, E, id[2]).claims, "EVIDENCE_DEGRADED", id[1])
        /\ o[1] = U => RefreshOne(l, o, changes, trusted) = Degrading(l, id, Influences[id].claims, "WEAKENED", U)
        /\ o[1] = "option" =>
             RefreshOne(l, o, changes, trusted) = Degrading(l, id, ResponseOptions[id].claims, "EVIDENCE_DEGRADED", "option")
    BY <1>1 DEF RefreshOne, F, N, T, A, E, U
  <2>2. /\ o[1] = E => \A cause : Proper(S, l, Transition(id, "EVIDENCE_DEGRADED", cause))
        /\ o[1] = "analogue" => \A cause : Proper(S, l, Transition(id[2], "EVIDENCE_DEGRADED", cause))
        /\ o[1] = U => \A cause : Proper(S, l, Transition(id, "WEAKENED", cause))
        /\ o[1] = "option" => \A cause : Proper(S, l, Transition(id, "EVIDENCE_DEGRADED", cause))
    BY <1>1, SaidOfWhatDegrades
  <2> HIDE DEF id
  <2>3. ASSUME o[1] = E PROVE Made(S, l, RefreshOne(l, o, changes, trusted))
    BY <2>1, <2>2, <2>3, DegradingMade
  <2>4. ASSUME o[1] = "analogue" PROVE Made(S, l, RefreshOne(l, o, changes, trusted))
    BY <2>1, <2>2, <2>4, DegradingMade
  <2>5. ASSUME o[1] = U PROVE Made(S, l, RefreshOne(l, o, changes, trusted))
    BY <2>1, <2>2, <2>5, DegradingMade
  <2>6. ASSUME o[1] = "option" PROVE Made(S, l, RefreshOne(l, o, changes, trusted))
    BY <2>1, <2>2, <2>6, DegradingMade
  <2>. QED BY <1>10, <2>3, <2>4, <2>5, <2>6
<1>11. CASE o[1] \notin {"assumption", F, N, T, A, "path", "objective", E, "analogue", U, "option"}
  <2>1. RefreshOne(l, o, changes, trusted) = <<>>
    BY <1>1, <1>11 DEF RefreshOne, F, N, T, A, E, U
  <2>. QED BY <2>1, MadeNone
<1>. QED BY <1>3, <1>4, <1>5, <1>6, <1>7, <1>8, <1>9, <1>10, <1>11

LEMMA AlertsMade ==
  ASSUME NEW S, NEW l, IsSeq(l), NEW since
  PROVE  Made(S, l, Alerts(l, since))
<1> DEFINE at  == {i \in since + 1 .. Len(l) : l[i].type = "transition" /\ l[i].what \in Alertable}
           new == Only(l, at)
           q   == [n \in DOMAIN new |-> Alert(new[n])]
<1>1. Alerts(l, since) = IF RaiseAlerts THEN q ELSE <<>>
  BY DEF Alerts
<1>2. IsSeq(new)
  BY OnlyPicks DEF Picks
<1>3. DOMAIN new = 1 .. Len(new) /\ Len(new) \in Nat
  BY <1>2, SeqFacts
<1> HIDE DEF new, at
<1>4. ASSUME NEW t PROVE Proper(S, l, Alert(t))
  <2> DEFINE e == Alert(t)
  <2>1. {"type", "id"} \subseteq DOMAIN e /\ e.type = "alert"
    BY DEF Alert
  <2> HIDE DEF e
  <2>2. Proper(S, l, e)
    BY <2>1, PlainProper DEF Filed, T, N, A, U, W, E, F
  <2>. QED BY <2>2 DEF e
<1>5. q = [n \in 1 .. Len(new) |-> q[n]] /\ \A n \in 1 .. Len(new) : Proper(S, l, q[n])
  BY <1>3, <1>4
<1> HIDE DEF q
<1>. QED BY <1>1, <1>3, <1>5, MadeMapped, MadeNone

(* The steps of a pass that need nothing. *)
LEMMA PassProper ==
  ASSUME NEW S, AllSteps \subseteq S, NEW l, NEW what \in {"alerts", "all caveats", "plane", "refresh forecast", "all warnings"}, NEW p
  PROVE  Proper(S, l, Step(what, p))
<1>1. Needs(l, what, p) /\ what \in S
  BY DEF Needs, Given, Found, AllSteps, PassSteps
<1>. QED BY <1>1, StepProper

LEMMA PropagateMade ==
  ASSUME NEW S, AllSteps \subseteq S, NEW l, Sound(l)
  PROVE  Made(S, l, Propagate(l))
<1> DEFINE touching == Touching(l)
           objects  == {t[1] : t \in touching}
           order    == InOrder(objects)
           on(o)    == {t[2] : t \in {u \in touching : u[1] = o}}
           q        == [n \in DOMAIN order |-> Step("object", <<order[n], on(order[n]), Trusted(l, order[n])>>)]
<1>1. Propagate(l) = q \o <<Step("all caveats", A), Step("plane", F)>>
  BY DEF Propagate
<1>2. IsSeq(l)
  BY DEF Sound
<1>3. \A t \in touching : t[1] \in All(l) /\ t[2] \in DOMAIN l
  <2>1. ASSUME NEW i \in Pending(l), NEW t \in Affected(l, {l[i].id}) \X {i} PROVE t[1] \in All(l) /\ t[2] \in DOMAIN l
    BY <1>2, AffectedWithin DEF Pending
  <2>. QED BY <2>1 DEF Touching
<1> HIDE DEF touching
<1>4. IsFiniteSet(objects)
  <2>1. objects \subseteq All(l)
    BY <1>3
  <2> HIDE DEF objects
  <2>. QED BY <1>2, <2>1, AllFinite, FS_Subset
<1>5. ASSUME NEW o PROVE IsFiniteSet(on(o))
  <2>1. on(o) \subseteq DOMAIN l
    BY <1>3
  <2> HIDE DEF on
  <2>. QED BY <1>2, <2>1, PositionsFinite
<1> HIDE DEF objects, on
<1>6. DOMAIN order = DOMAIN SetToSeq(objects)
  BY DEF InOrder, Arranged
<1>7. DOMAIN order = 1 .. Cardinality(objects) /\ Cardinality(objects) \in Nat
  BY <1>4, <1>6, SetToSeqIs
<1> HIDE DEF order
<1>8. ASSUME NEW o, NEW trusted PROVE Proper(S, l, Step("object", <<o, on(o), trusted>>))
  <2>1. Needs(l, "object", <<o, on(o), trusted>>) /\ "object" \in S
    BY <1>5 DEF Needs, Given, Found, AllSteps, PassSteps
  <2>. QED BY <2>1, StepProper
<1>9. q = [n \in 1 .. Cardinality(objects) |-> q[n]] /\ \A n \in 1 .. Cardinality(objects) : Proper(S, l, q[n])
  BY <1>7, <1>8
<1> HIDE DEF q
<1>10. Made(S, l, q)
  BY <1>7, <1>9, MadeMapped
<1>11. Made(S, l, <<Step("all caveats", A), Step("plane", F)>>)
  BY PassProper, MadePair
<1>. QED BY <1>1, <1>10, <1>11, MadeJoined

LEMMA PlaneMade ==
  ASSUME NEW S, AllSteps \subseteq S, NEW l, Sound(l)
  PROVE  Made(S, l, Plane(l))
<1> DEFINE a == Step("refresh forecast", F)
           b == Step("all warnings", W)
           c == Step("alerts", Len(l))
<1>1. Proper(S, l, a) /\ Proper(S, l, b) /\ Proper(S, l, c)
  BY PassProper
<1>2. Plane(l) = CheckIndicators(l) \o <<a, b, c>>
  BY DEF Plane
<1> HIDE DEF a, b, c
<1>3. Made(S, l, <<a, b>> \o <<c>>)
  BY <1>1, MadePair, MadeOne, MadeJoined
<1>4. Made(S, l, <<a, b, c>>)
  BY <1>3, TripleOf
<1>5. Made(S, l, CheckIndicators(l))
  BY IndicatorsMade DEF AllSteps
<1>. QED BY <1>2, <1>4, <1>5, MadeJoined

LEMMA WarningStepMade ==
  ASSUME NEW S, WarningSteps \cup ForecastSteps \cup ImpactSteps \subseteq S, NEW l, Sound(l), NEW s,
         s.what \in WarningSteps \cup ForecastSteps \cup ImpactSteps, Needs(l, s.what, s.id)
  PROVE  Made(S, l, WarningContinue(l, s))
<1>1. CASE s.what = "project"
  <2>1. WarningContinue(l, s) = ProjectWarning(l, s.id)
    BY <1>1 DEF WarningContinue, ForecastSteps
  <2>. QED BY <2>1, ProjectMade
<1>2. CASE s.what \in ForecastSteps
  <2>1. WarningContinue(l, s) = Continue(l, s)
    BY <1>2 DEF WarningContinue, ForecastSteps
  <2>. QED BY <1>2, <2>1, ForecastStepMade
<1>3. CASE s.what \in ImpactSteps
  <2>1. WarningContinue(l, s) = ImpactContinue(l, s)
    BY <1>3 DEF WarningContinue, ForecastSteps, ImpactSteps
  <2>. QED BY <1>3, <2>1, ImpactStepMade
<1>. QED BY <1>1, <1>2, <1>3 DEF WarningSteps

LEMMA PassStepMade ==
  ASSUME NEW S, AllSteps \subseteq S, NEW l, Sound(l), NEW s, s.what \in AllSteps, Needs(l, s.what, s.id)
  PROVE  Made(S, l, PropagationContinue(l, s))
<1>1. CASE s.what = "object"
  <2>1. Made(S, l, RefreshOne(l, s.id[1], s.id[2], s.id[3]))
    BY <1>1, RefreshOneMade DEF Needs, Given
  <2>2. Made(S, l, <<Step("alerts", Len(l))>>)
    BY PassProper, MadeOne
  <2>3. PropagationContinue(l, s) = RefreshOne(l, s.id[1], s.id[2], s.id[3]) \o <<Step("alerts", Len(l))>>
    BY <1>1 DEF PropagationContinue, NarrativeSteps, StakeholderSteps, AnalogueSteps
  <2>. QED BY <2>1, <2>2, <2>3, MadeJoined
<1>2. CASE s.what = "alerts"
  <2>1. PropagationContinue(l, s) = Alerts(l, s.id)
    BY <1>2 DEF PropagationContinue, NarrativeSteps, StakeholderSteps, AnalogueSteps
  <2>. QED BY <2>1, AlertsMade DEF Sound
<1>3. CASE s.what = "all caveats"
  <2>1. PropagationContinue(l, s) = RefreshIdentityCaveats(l)
    BY <1>3 DEF PropagationContinue, NarrativeSteps, StakeholderSteps, AnalogueSteps
  <2>. QED BY <2>1, CaveatsMade DEF AllSteps
<1>4. CASE s.what = "plane"
  <2>1. PropagationContinue(l, s) = Plane(l)
    BY <1>4 DEF PropagationContinue, NarrativeSteps, StakeholderSteps, AnalogueSteps
  <2>. QED BY <2>1, PlaneMade
<1>5. CASE s.what = "refresh forecast"
  <2>1. PropagationContinue(l, s) = RefreshForecast(l)
    BY <1>5 DEF PropagationContinue, NarrativeSteps, StakeholderSteps, AnalogueSteps
  <2>. QED BY <2>1, RefreshForecastMade DEF AllSteps
<1>6. CASE s.what = "all warnings"
  <2>1. PropagationContinue(l, s) = RefreshWarnings(l)
    BY <1>6 DEF PropagationContinue, NarrativeSteps, StakeholderSteps, AnalogueSteps
  <2>. QED BY <2>1, WarningsMade DEF AllSteps
<1>7. CASE s.what \in ThemeSteps
  <2>1. PropagationContinue(l, s) = ThemeContinue(l, s) /\ ThemeSteps \subseteq S
    BY <1>7 DEF PropagationContinue, NarrativeSteps, StakeholderSteps, AnalogueSteps, ThemeSteps, AllSteps
  <2>. QED BY <1>7, <2>1, ThemeStepMade
<1>8. CASE s.what \in NarrativeSteps
  <2>1. PropagationContinue(l, s) = NarrativeContinue(l, s) /\ NarrativeSteps \subseteq S
    BY <1>8 DEF PropagationContinue, NarrativeSteps, StakeholderSteps, AnalogueSteps, AllSteps
  <2>. QED BY <1>8, <2>1, NarrativeStepMade
<1>9. CASE s.what \in StakeholderSteps
  <2>1. PropagationContinue(l, s) = StakeholderContinue(l, s) /\ StakeholderSteps \subseteq S
    BY <1>9 DEF PropagationContinue, NarrativeSteps, StakeholderSteps, AnalogueSteps, AllSteps
  <2>. QED BY <1>9, <2>1, StakeholderStepMade
<1>10. CASE s.what \in AnalogueSteps
  <2>1. PropagationContinue(l, s) = AnalogueContinue(l, s)
    BY <1>10 DEF PropagationContinue, NarrativeSteps, StakeholderSteps, AnalogueSteps
  <2>. QED BY <1>10, <2>1, AnalogueStepMade
<1>11. CASE s.what \in WarningSteps \cup ForecastSteps \cup ImpactSteps
  <2>1. PropagationContinue(l, s) = WarningContinue(l, s)
    BY <1>11 DEF PropagationContinue, NarrativeSteps, StakeholderSteps, AnalogueSteps, WarningSteps, ForecastSteps, ImpactSteps
  <2>2. WarningSteps \cup ForecastSteps \cup ImpactSteps \subseteq S
    BY DEF AllSteps
  <2>. QED BY <1>11, <2>1, <2>2, WarningStepMade
<1>. QED BY <1>1, <1>2, <1>3, <1>4, <1>5, <1>6, <1>7, <1>8, <1>9, <1>10, <1>11 DEF AllSteps, PassSteps

-----------------------------------------------------------------------------
(***************************************************************************)
(* Every command, and every step of the specification.                     *)
(***************************************************************************)
LEMMA StepMade ==
  ASSUME NEW k \in Engines, NEW l, Sound(l), NEW s, s.what \in StepsOf(k), Needs(l, s.what, s.id)
  PROVE  Made(StepsOf(k), l, By(k, l, s))
<1>1. CASE k = "theme"
  <2>1. StepsOf(k) = ThemeSteps /\ By(k, l, s) = ThemeContinue(l, s)
    BY <1>1 DEF StepsOf, By
  <2>. QED BY <2>1, ThemeStepMade
<1>2. CASE k = "narrative"
  <2>1. StepsOf(k) = NarrativeSteps /\ By(k, l, s) = NarrativeContinue(l, s)
    BY <1>2 DEF StepsOf, By
  <2>. QED BY <2>1, NarrativeStepMade
<1>3. CASE k = "stakeholder"
  <2>1. StepsOf(k) = StakeholderSteps /\ By(k, l, s) = StakeholderContinue(l, s)
    BY <1>3 DEF StepsOf, By
  <2>. QED BY <2>1, StakeholderStepMade
<1>4. CASE k = "analogue"
  <2>1. StepsOf(k) = AnalogueSteps /\ By(k, l, s) = AnalogueContinue(l, s)
    BY <1>4 DEF StepsOf, By
  <2>. QED BY <2>1, AnalogueStepMade
<1>5. CASE k = "forecast"
  <2>1. StepsOf(k) = ForecastSteps /\ By(k, l, s) = Continue(l, s)
    BY <1>5 DEF StepsOf, By
  <2>. QED BY <2>1, ForecastStepMade
<1>6. CASE k = "warning"
  <2>1. StepsOf(k) = WarningSteps \cup ForecastSteps \cup ImpactSteps /\ By(k, l, s) = WarningContinue(l, s)
    BY <1>6 DEF StepsOf, By
  <2>. QED BY <2>1, WarningStepMade
<1>7. CASE k = "impact"
  <2>1. StepsOf(k) = ImpactSteps /\ By(k, l, s) = ImpactContinue(l, s)
    BY <1>7 DEF StepsOf, By
  <2>. QED BY <2>1, ImpactStepMade
<1>8. CASE k = "plane"
  <2>1. StepsOf(k) = AllSteps /\ By(k, l, s) = PropagationContinue(l, s)
    BY <1>8 DEF StepsOf, By
  <2>. QED BY <2>1, PassStepMade
<1>. QED BY <1>1, <1>2, <1>3, <1>4, <1>5, <1>6, <1>7, <1>8 DEF Engines

(* A command that runs on waits with what is proper, however many steps it *)
(* takes on the way.                                                       *)
Coming(l, d, n, q) == Waiting(StepsOf(d[1]), l, q)

LEMMA ResumedMade ==
  ASSUME NEW k \in Engines, NEW l, Sound(l), NEW q, Waiting(StepsOf(k), l, q), q # <<>>, Head(q).type = "step"
  PROVE  Made(StepsOf(k), l, By(k, l, Head(q)) \o Tail(q))
<1>1. IsSeq(q)
  BY DEF Waiting
<1>2. /\ Head(q) = q[1] /\ IsSeq(Tail(q)) /\ Len(Tail(q)) = Len(q) - 1 /\ Len(q) \in Nat
      /\ \A n \in 1 .. Len(q) - 1 : Tail(q)[n] = q[n + 1]
  BY <1>1, HeadAndTail, SeqFacts
<1>3. ASSUME NEW n \in 1 .. Len(Tail(q)) PROVE Proper(StepsOf(k), l, Tail(q)[n])
  <2>1. n + 1 \in 2 .. Len(q) /\ n \in 1 .. Len(q) - 1
    BY <1>2
  <2>. QED BY <1>2, <2>1 DEF Waiting
<1>4. Made(StepsOf(k), l, Tail(q))
  BY <1>2, <1>3 DEF Made
<1>5. Head(q).what \in StepsOf(k) /\ Needs(l, Head(q).what, Head(q).id)
  BY <1>2 DEF Waiting, Proper
<1>6. Made(StepsOf(k), l, By(k, l, Head(q)))
  BY <1>5, StepMade
<1>. QED BY <1>4, <1>6, MadeJoined

LEMMA RunWaiting ==
  ASSUME NEW k \in Engines, NEW l, Sound(l), NEW d, Made(StepsOf(k), l, d)
  PROVE  Waiting(AllSteps, l, Run("ahead", l, <<k, d>>, MaxSteps))
<1> DEFINE b == <<k, d>>
<1>1. b[1] = k /\ b[2] = d
  OBVIOUS
<1> HIDE DEF b
<1>2. IsSeq(l) /\ MaxSteps \in Nat
  BY VersionedLogAssumption DEF Sound
<1>3. Coming(l, b, 0, Opened(l, b))
  BY <1>1, <1>2, SettleWaiting DEF Coming, Opened
<1>4. ASSUME NEW n \in 1 .. MaxSteps, NEW q, Coming(l, b, n - 1, q) PROVE Coming(l, b, n, Resumed(l, b, n, q))
  <2>1. Waiting(StepsOf(k), l, q)
    BY <1>1, <1>4 DEF Coming
  <2>2. CASE q # <<>> /\ Head(q).type = "step"
    <3>1. Resumed(l, b, n, q) = Settle(l, By(k, l, Head(q)) \o Tail(q))
      BY <1>1, <2>2 DEF Resumed
    <3>2. Made(StepsOf(k), l, By(k, l, Head(q)) \o Tail(q))
      BY <2>1, <2>2, ResumedMade
    <3>. QED BY <1>1, <1>2, <3>1, <3>2, SettleWaiting DEF Coming
  <2>3. CASE ~(q # <<>> /\ Head(q).type = "step")
    BY <1>1, <2>1, <2>3 DEF Resumed, Coming
  <2>. QED BY <2>2, <2>3
<1>5. Coming(l, b, MaxSteps, Run("ahead", l, b, MaxSteps))
  <2>1. PICK f : Goes("ahead", l, b, MaxSteps, f)
    BY <1>2, RunGoes
  <2> DEFINE G == {n \in 0 .. MaxSteps : Coming(l, b, n, f[n])}
  <2>2. 0 \in G
    BY <1>2, <1>3, <2>1 DEF Goes, First
  <2>3. ASSUME NEW n \in 1 .. MaxSteps, n - 1 \in G PROVE n \in G
    BY <1>4, <1>2, <2>1, <2>3 DEF Goes, Following
  <2> HIDE DEF G
  <2>4. MaxSteps \in G
    BY <1>2, <2>2, <2>3, UpTo
  <2>. QED BY <2>1, <2>4 DEF Goes, G
<1>6. StepsOf(k) \subseteq AllSteps
  BY DEF StepsOf, Engines, AllSteps
<1>. QED BY <1>1, <1>5, <1>6, MoreWaiting DEF Coming, b

LEMMA DecisionRecords ==
  ASSUME RInv, NEW c \in Calls, NEW q, Waiting(AllSteps, log, q), log' = log, todo' = [todo EXCEPT ![c] = q]
  PROVE  RInv'
<1>1. \A d \in Calls : Waiting(AllSteps, log, todo'[d])
  BY DEF RInv
<1>2. DOMAIN todo' = Calls
  BY DEF RInv
<1>. QED BY <1>1, <1>2 DEF RInv

LEMMA RunRecords ==
  ASSUME RInv, NEW c \in Calls, NEW k \in Engines, NEW d, Made(StepsOf(k), log, d),
         Decide(c, Run("ahead", log, <<k, d>>, MaxSteps))
  PROVE  RInv'
<1>1. Waiting(AllSteps, log, Run("ahead", log, <<k, d>>, MaxSteps))
  BY RunWaiting DEF RInv
<1>. QED BY <1>1, DecisionRecords DEF Decide

LEMMA CommandRecords ==
  ASSUME RInv, NEW c \in Calls, NEW d
  PROVE  /\ ThemeDo(c, d) /\ Made(ThemeSteps, log, d) => RInv'
         /\ NarrativeDo(c, d) /\ Made(NarrativeSteps, log, d) => RInv'
         /\ StakeholderDo(c, d) /\ Made(StakeholderSteps, log, d) => RInv'
         /\ AnalogueDo(c, d) /\ Made(AnalogueSteps, log, d) => RInv'
         /\ ForecastDo(c, d) /\ Made(ForecastSteps, log, d) => RInv'
         /\ WarningDo(c, d) /\ Made(WarningSteps \cup ForecastSteps \cup ImpactSteps, log, d) => RInv'
         /\ ImpactDo(c, d) /\ Made(ImpactSteps, log, d) => RInv'
<1>1. /\ StepsOf("theme") = ThemeSteps /\ StepsOf("narrative") = NarrativeSteps /\ StepsOf("stakeholder") = StakeholderSteps
      /\ StepsOf("analogue") = AnalogueSteps /\ StepsOf("forecast") = ForecastSteps
      /\ StepsOf("warning") = WarningSteps \cup ForecastSteps \cup ImpactSteps /\ StepsOf("impact") = ImpactSteps
  BY DEF StepsOf
<1>2. {"theme", "narrative", "stakeholder", "analogue", "forecast", "warning", "impact"} \subseteq Engines
  BY DEF Engines
<1>3. \A k \in Engines : Made(StepsOf(k), log, d) /\ Decide(c, Run("ahead", log, <<k, d>>, MaxSteps)) => RInv'
  BY RunRecords
<1>4. /\ ThemeDo(c, d) => Decide(c, Run("ahead", log, <<"theme", d>>, MaxSteps))
      /\ NarrativeDo(c, d) => Decide(c, Run("ahead", log, <<"narrative", d>>, MaxSteps))
      /\ StakeholderDo(c, d) => Decide(c, Run("ahead", log, <<"stakeholder", d>>, MaxSteps))
      /\ AnalogueDo(c, d) => Decide(c, Run("ahead", log, <<"analogue", d>>, MaxSteps))
      /\ ForecastDo(c, d) => Decide(c, Run("ahead", log, <<"forecast", d>>, MaxSteps))
      /\ WarningDo(c, d) => Decide(c, Run("ahead", log, <<"warning", d>>, MaxSteps))
      /\ ImpactDo(c, d) => Decide(c, Run("ahead", log, <<"impact", d>>, MaxSteps))
  BY CommandsRun
<1>. QED BY <1>1, <1>2, <1>3, <1>4

LEMMA AppendRecords == ASSUME RInv, NEW c \in Calls, AnalyticWrite(c) PROVE RInv'
<1> DEFINE q == todo[c]
           e == Head(q)
           l == Append(log, e)
<1>1. /\ q # <<>> /\ log' = l
      /\ todo' = [todo EXCEPT ![c] = Ahead(PropagationContinue, l, Tail(q))]
  BY DEF AnalyticWrite, WriteAnd, Ready, RInv
<1>2. todo' = [todo EXCEPT ![c] = Run("ahead", l, <<"plane", Tail(q)>>, MaxSteps)]
  BY <1>1 DEF Ahead, Run, First, Following, Opened, Resumed, By
<1>3. Sound(log) /\ IsSeq(log) /\ Waiting(AllSteps, log, q) /\ IsSeq(q) /\ DOMAIN todo = Calls
  BY DEF RInv, Sound, Waiting
<1> HIDE DEF q
<1>4. /\ e = q[1] /\ IsSeq(Tail(q)) /\ Len(Tail(q)) = Len(q) - 1 /\ Len(q) \in Nat
      /\ \A n \in 1 .. Len(q) - 1 : Tail(q)[n] = q[n + 1]
  BY <1>1, <1>3, HeadAndTail, SeqFacts
<1> HIDE DEF e
<1>5. Written(e)
  BY <1>1, <1>3, <1>4 DEF Waiting
<1>6. Sound(l) /\ Extends(l, log)
  BY <1>3, <1>5, SoundAppend
<1> HIDE DEF l
<1>7. Made(AllSteps, l, Tail(q))
  <2>1. ASSUME NEW n \in 1 .. Len(Tail(q)) PROVE Proper(AllSteps, l, Tail(q)[n])
    <3>1. n + 1 \in 2 .. Len(q) /\ n \in 1 .. Len(q) - 1
      BY <1>4
    <3>2. Proper(AllSteps, log, Tail(q)[n])
      BY <1>3, <1>4, <3>1 DEF Waiting
    <3>. QED BY <1>3, <1>6, <3>2, StillProper
  <2>. QED BY <1>4, <2>1 DEF Made
<1>8. Waiting(AllSteps, l, Run("ahead", l, <<"plane", Tail(q)>>, MaxSteps))
  <2>1. StepsOf("plane") = AllSteps /\ "plane" \in Engines
    BY DEF StepsOf, Engines
  <2>. QED BY <1>6, <1>7, <2>1, RunWaiting
<1>9. ASSUME NEW d \in Calls PROVE Waiting(AllSteps, l, todo'[d])
  <2>1. CASE d = c
    BY <1>2, <1>3, <1>8, <2>1
  <2>2. CASE d # c
    <3>1. Waiting(AllSteps, log, todo[d])
      BY DEF RInv
    <3>2. Waiting(AllSteps, l, todo[d])
      BY <1>3, <1>6, <3>1, StillWaiting
    <3>. QED BY <1>2, <1>3, <2>2, <3>2
  <2>. QED BY <2>1, <2>2
<1>10. DOMAIN todo' = Calls
  BY <1>1, <1>3
<1>. QED BY <1>1, <1>6, <1>9, <1>10 DEF RInv

LEMMA HappensRecords ==
  ASSUME RInv, NEW e, Written(e), Elsewhere(e)
  PROVE  RInv'
<1> DEFINE l == Append(log, e)
<1>1. log' = l /\ todo' = todo
  BY DEF Elsewhere
<1>2. Sound(log) /\ IsSeq(log) /\ DOMAIN todo = Calls
  BY DEF RInv, Sound
<1>3. Sound(l) /\ Extends(l, log)
  BY <1>2, SoundAppend
<1> HIDE DEF l
<1>4. ASSUME NEW d \in Calls PROVE Waiting(AllSteps, l, todo[d])
  BY <1>2, <1>3, StillWaiting DEF RInv
<1>. QED BY <1>1, <1>2, <1>3, <1>4 DEF RInv

LEMMA NewsRecords ==
  ASSUME RInv, NEW e \in SeenIn("other", 3) \cup World(log), Report(e)
  PROVE  RInv'
<1>1. CASE e \in SeenIn("other", 3)
  <2>1. {"type", "id", "time"} \subseteq DOMAIN e /\ e.type = "seen" /\ e.time = 3
    BY <1>1 DEF SeenIn
  <2>2. WellMade(e)
    BY <2>1 DEF WellMade, Tells, Judges, Warns, Speaks, Filed, T, N, A, U, W, E, F
  <2>3. Written(e)
    BY <2>1, <2>2 DEF Written, Filed, T, N, A, U, W, E, F
  <2>. QED BY <2>3, HappensRecords DEF Report, Happen
<1>2. CASE e \in World(log)
  <2>1. {"type", "id"} \subseteq DOMAIN e /\ e.type \in {"state", "search", "observation", "activity", "claim", "horizon"}
    <3> DEFINE Searched == {[type |-> "search", id |-> s, source |-> s] : s \in IF Late(log) THEN Sources ELSE {}}
               Watching == {[type |-> "observation", id |-> "o", of |-> t] :
                              t \in {"earlier", "since"} \cup IF Late(log) THEN {"after"} ELSE {}}
               Activity == {[type |-> "activity", id |-> "a"]}
               Times    == IF Late(log) THEN BOOLEAN ELSE {FALSE}
               Claiming == {[type |-> "claim", id |-> "claim", value |-> v, after |-> a] : v \in {"expected", "other"}, a \in Times}
    <3>1. World(log) = ClaimNews \cup Searched \cup Watching \cup (IF "EVENT_OCCURRED" \in Rules THEN Activity ELSE {})
                         \cup (IF "CLAIM_PREDICATE" \in Rules THEN Claiming ELSE {}) \cup IF Late(log) THEN {} ELSE {Horizon}
      BY DEF World
    <3>2. CASE e \in ClaimNews
      BY <3>2 DEF ClaimNews
    <3>3. CASE e \in Searched \cup Watching \cup Activity
      BY <3>3
    <3>4. CASE e \in Claiming
      <4> HIDE DEF Times
      <4>1. PICK v \in {"expected", "other"}, a \in Times : e = [type |-> "claim", id |-> "claim", value |-> v, after |-> a]
        BY <3>4
      <4>. QED BY <4>1
    <3>5. CASE e = Horizon
      BY <3>5 DEF Horizon
    <3> HIDE DEF Searched, Watching, Activity, Claiming
    <3>. QED BY <1>2, <3>1, <3>2, <3>3, <3>4, <3>5
  <2>2. e.type \notin Filed \cup {"transition", "ensure", "step", "seen"}
    BY <2>1 DEF Filed, T, N, A, U, W, E, F
  <2>. QED BY <2>1, <2>2, PlainProper, HappensRecords DEF Report, Happen
<1>. QED BY <1>1, <1>2

LEMMA IdentityRecords == ASSUME RInv, NEW k \in Caveats, Identity(k) PROVE RInv'
<1> DEFINE i == Item(<<"identity", k>>, IF k \in OpenCaveats(log) THEN "RESOLVED" ELSE "OPEN")
           e == [i EXCEPT !.version = 1]
<1>1. Elsewhere(e)
  BY DEF Identity
<1>2. {"type", "id"} \subseteq DOMAIN i /\ i.type = "item"
  BY DEF Item
<1> HIDE DEF i
<1>3. {"type", "id"} \subseteq DOMAIN e /\ e.type = "item"
  BY <1>2
<1> HIDE DEF e
<1>4. e.type \notin Filed \cup {"transition", "ensure", "step", "seen"}
  BY <1>3 DEF Filed, T, N, A, U, W, E, F
<1>. QED BY <1>1, <1>3, <1>4, PlainProper, HappensRecords

(* Nothing that a command holds is a step or worse but the steps it made. *)
LEMMA PlainWaiting ==
  ASSUME NEW q, Made(AllSteps, log, q), q # <<>> => Written(q[1])
  PROVE  Waiting(AllSteps, log, q)
<1>1. IsSeq(q) /\ Len(q) \in Nat /\ (q # <<>> => 1 \in 1 .. Len(q))
  BY SeqFacts DEF Made
<1>2. \A n \in 2 .. Len(q) : n \in 1 .. Len(q)
  BY <1>1
<1>. QED BY <1>1, <1>2 DEF Made, Waiting

LEMMA AbandonRecords == ASSUME RInv, NEW c \in Calls, GiveUp(c) PROVE RInv'
<1>1. Waiting(AllSteps, log, <<>>)
  BY MadeNone, PlainWaiting
<1>. QED BY <1>1, DecisionRecords DEF GiveUp

LEMMA ProposalRecords == ASSUME RInv, NEW c \in Calls, NEW id, CandidateCommand(c, id) PROVE RInv'
<1>1. ASSUME NEW status PROVE LET f == Proposal(id, status) IN Proper(AllSteps, log, f) /\ Written(f)
  <2> DEFINE f == Proposal(id, status)
  <2>1. {"type", "id"} \subseteq DOMAIN f /\ f.type = "proposal"
    BY DEF Proposal
  <2> HIDE DEF f
  <2>2. Proper(AllSteps, log, f) /\ Written(f)
    BY <2>1, PlainProper DEF Filed, T, N, A, U, W, E, F
  <2>. QED BY <2>2 DEF f
<1>2. ASSUME RecordCandidate(c, id) PROVE RInv'
  <2> DEFINE f == Proposal(id, "PROPOSED")
             q == <<f>>
  <2>1. Decide(c, q)
    BY <1>2 DEF RecordCandidate
  <2>2. Proper(AllSteps, log, f) /\ Written(f)
    BY <1>1
  <2> HIDE DEF f
  <2>3. Made(AllSteps, log, q) /\ q[1] = f
    BY <2>2, MadeOne
  <2> HIDE DEF q
  <2>4. Waiting(AllSteps, log, q)
    BY <2>2, <2>3, PlainWaiting
  <2>. QED BY <2>1, <2>4, DecisionRecords DEF Decide
<1>3. ASSUME NEW kind, NEW status, ResolveCandidate(c, kind, id, status) PROVE RInv'
  <2> DEFINE e == [type |-> "action", id |-> id, status |-> status, kind |-> kind]
             f == Proposal(id, status)
             q == <<e, f>>
  <2>1. Proper(AllSteps, log, f)
    BY <1>1
  <2>2. {"type", "id"} \subseteq DOMAIN e /\ e.type = "action"
    OBVIOUS
  <2>3. Decide(c, q)
    BY <1>3 DEF ResolveCandidate
  <2> HIDE DEF e, f
  <2>4. Proper(AllSteps, log, e) /\ Written(e)
    BY <2>2, PlainProper DEF Filed, T, N, A, U, W, E, F
  <2>5. Made(AllSteps, log, q) /\ q[1] = e
    BY <2>1, <2>4, MadePair
  <2> HIDE DEF q
  <2>6. Waiting(AllSteps, log, q)
    BY <2>4, <2>5, PlainWaiting
  <2>. QED BY <2>3, <2>6, DecisionRecords DEF Decide
<1>. QED BY <1>2, <1>3 DEF CandidateCommand

(* The commands of each engine. *)
LEMMA ThemesRecord == ASSUME RInv, NEW c \in Calls, ThemeCommand(c) PROVE RInv'
<1>0. Sound(log)
  BY DEF RInv
<1>1. ASSUME NEW d, Made(ThemeSteps, log, d), ThemeDo(c, d) PROVE RInv'
  BY <1>1, CommandRecords
<1>2. CASE MakeTheme(c, {"", "candidate"})
  <2>1. PICK id \in ThemeIds, proposal \in {"", "candidate"}, sup \in SUBSET Claims, con \in SUBSET Claims :
          sup # {} /\ ThemeDo(c, CreateTheme(log, id, proposal, sup, con, {}))
    BY <1>2 DEF MakeTheme
  <2>2. Made(ThemeSteps, log, CreateTheme(log, id, proposal, sup, con, {}))
    BY <1>0, <2>1, CreateThemeMade
  <2>. QED BY <1>1, <2>1, <2>2
<1>3. CASE RecheckTheme(c) \/ EndTheme(c)
  BY <1>0, <1>1, <1>3, RefreshThemeMade, ResolveThemeMade DEF RecheckTheme, EndTheme, Themes
<1>4. CASE Propose(c) \/ Merge(c)
  BY <1>0, <1>1, <1>4, MergeMade DEF Propose, Merge, Themes
<1>5. CASE Split(c)
  BY <1>0, <1>1, <1>5, SplitMade DEF Split, Themes
<1>6. CASE CandidateCommand(c, "candidate")
  BY <1>6, ProposalRecords
<1>. QED BY <1>2, <1>3, <1>4, <1>5, <1>6 DEF ThemeCommand

LEMMA NarrativesRecord == ASSUME RInv, NEW c \in Calls, NarrativeCommand(c) PROVE RInv'
<1>0. Sound(log)
  BY DEF RInv
<1>1. ASSUME NEW d, Made(NarrativeSteps, log, d), NarrativeDo(c, d) PROVE RInv'
  BY <1>1, CommandRecords
<1>2. CASE Tell(c, {"", "candidate"})
  <2>1. PICK s \in Statements, proposal \in {"", "candidate"}, sup \in SUBSET Claims, con \in SUBSET Claims :
          sup # {} /\ NarrativeDo(c, CreateNarrative(log, s, proposal, sup, con))
    BY <1>2 DEF Tell
  <2>2. Made(NarrativeSteps, log, CreateNarrative(log, s, proposal, sup, con))
    BY <1>0, <2>1, CreateNarrativeMade
  <2>. QED BY <1>1, <2>1, <2>2
<1>3. CASE Vary(c, {"", "candidate"})
  BY <1>0, <1>1, <1>3, AddVariantMade DEF Vary, Narratives
<1>4. CASE Counter(c)
  <2>1. PICK s, o : NarrativeDo(c, <<Step("counter", <<s, o, s>>), Step("counter", <<o, s, s>>)>>)
    BY <1>4 DEF Counter
  <2>2. \A p : Proper(NarrativeSteps, log, Step("counter", p))
    <3>1. \A p : Needs(log, "counter", p) /\ "counter" \in NarrativeSteps
      BY DEF Needs, Given, Found, NarrativeSteps
    <3>. QED BY <3>1, StepProper
  <2>3. Made(NarrativeSteps, log, <<Step("counter", <<s, o, s>>), Step("counter", <<o, s, s>>)>>)
    BY <2>2, MadePair
  <2>. QED BY <1>1, <2>1, <2>3
<1>5. CASE RecheckNarrative(c)
  BY <1>0, <1>1, <1>5, RefreshNarrativeMade DEF RecheckNarrative, Narratives
<1>6. CASE Derive(c)
  BY <1>0, <1>1, <1>6, DeriveMade DEF Derive, Narratives
<1>7. CASE Adopt(c, {"", "candidate"})
  BY <1>0, <1>1, <1>7, AdoptionMade DEF Adopt, Narratives
<1>8. CASE CandidateCommand(c, "candidate")
  BY <1>8, ProposalRecords
<1>. QED BY <1>2, <1>3, <1>4, <1>5, <1>6, <1>7, <1>8 DEF NarrativeCommand

LEMMA ShortSeqs ==
  ASSUME NEW X, NEW p \in X, NEW q \in X
  PROVE  <<p>> \in Seq(X) /\ <<p, q>> \in Seq(X)
<1>1. <<p>> \in Seq(X)
  OBVIOUS
<1>2. <<p, q>> \in Seq(X)
  OBVIOUS
<1>. QED BY <1>1, <1>2

LEMMA BatchesAre ==
  ASSUME NEW ps \in Batches
  PROVE  ps \in Seq(DOMAIN Offers)
<1>1. CASE ps = <<>>
  BY <1>1
<1>2. ASSUME NEW p \in DOMAIN Offers, NEW q \in DOMAIN Offers, ps = <<p>> \/ ps = <<p, q>> PROVE ps \in Seq(DOMAIN Offers)
  BY <1>2, ShortSeqs
<1>3. ps = <<>> \/ \E p, q \in DOMAIN Offers : ps = <<p>> \/ ps = <<p, q>>
  BY DEF Batches
<1>. QED BY <1>1, <1>2, <1>3

LEMMA StakeholdersRecord == ASSUME RInv, NEW c \in Calls, StakeholderCommand(c) PROVE RInv'
<1>0. Sound(log)
  BY DEF RInv
<1>1. ASSUME NEW d, Made(StakeholderSteps, log, d), StakeholderDo(c, d) PROVE RInv'
  BY <1>1, CommandRecords
<1>2. CASE Assess(c, {"", "candidate"})
  <2>1. PICK id \in Assessed, proposal \in {"", "candidate"}, ps \in Batches, claims \in SUBSET Claims :
          StakeholderDo(c, CreateAssessment(log, id, proposal, ps, claims))
    BY <1>2 DEF Assess
  <2>2. ps \in Seq(DOMAIN Offers)
    BY <2>1, BatchesAre
  <2>3. Made(StakeholderSteps, log, CreateAssessment(log, id, proposal, ps, claims))
    BY <1>0, <2>2, CreateAssessmentMade
  <2>. QED BY <1>1, <2>1, <2>3
<1>3. CASE TakePosition(c)
  BY <1>0, <1>1, <1>3, AddPositionMade DEF TakePosition, AssessedNow
<1>4. CASE ChangePosition(c)
  BY <1>0, <1>1, <1>4, SupersedePositionMade DEF ChangePosition, AssessedNow
<1>5. CASE RecheckAssessment(c)
  BY <1>0, <1>1, <1>5, RefreshAssessmentMade DEF RecheckAssessment, AssessedNow
<1>6. CASE RecheckCaveats(c)
  BY <1>0, <1>1, <1>6, CaveatsMade DEF RecheckCaveats
<1>7. CASE SayInfluence(c, {"", "candidate"})
  BY <1>0, <1>1, <1>7, AssertInfluenceMade DEF SayInfluence
<1>8. CASE DropInfluence(c)
  BY <1>0, <1>1, <1>8, SupersedeInfluenceMade DEF DropInfluence
<1>9. CASE DiscoverStakeholders(c)
  BY <1>1, <1>9, DiscoverMade DEF DiscoverStakeholders, Roles
<1>10. CASE CandidateCommand(c, "candidate")
  BY <1>10, ProposalRecords
<1>. QED BY <1>2, <1>3, <1>4, <1>5, <1>6, <1>7, <1>8, <1>9, <1>10 DEF StakeholderCommand

LEMMA ImpactRecords == ASSUME RInv, NEW c \in Calls, ImpactCommand(c) PROVE RInv'
<1>0. Sound(log)
  BY DEF RInv
<1>1. ASSUME NEW d, Made(ImpactSteps, log, d), ImpactDo(c, d) PROVE RInv'
  BY <1>1, CommandRecords
<1>2. CASE SetObjective(c)
  BY <1>1, <1>2, CreateObjectiveMade DEF SetObjective
<1>3. CASE Assume(c)
  <2>1. PICK a \in DOMAIN Assumptions : ImpactDo(c, RecordAssumption(log, a, Assumptions[a].claims, Assumptions[a].objectives))
    BY <1>3 DEF Assume
  <2>2. IsFiniteSet(Assumptions[a].objectives) /\ Assumptions[a].claims \in SUBSET Claims
    BY ImpactAssumption
  <2>3. Made(ImpactSteps, log, RecordAssumption(log, a, Assumptions[a].claims, Assumptions[a].objectives))
    BY <1>0, <2>2, RecordAssumptionMade
  <2>. QED BY <1>1, <2>1, <2>3
<1>4. CASE Question(c)
  BY <1>0, <1>1, <1>4, QuestionMade DEF Question, Assumed
<1>5. CASE Invalidate(c)
  <2>1. PICK a \in Assumed : ImpactDo(c, InvalidateAssumption(log, a, {}))
    BY <1>5 DEF Invalidate
  <2>2. Known(log, "assumption", a) /\ {} \in SUBSET Claims
    BY DEF Assumed
  <2>. QED BY <1>0, <1>1, <2>1, <2>2, InvalidateMade
<1>6. CASE Construct(c, {"", "candidate"})
  BY <1>1, <1>6, BuildMade DEF Construct
<1>7. CASE RecheckPath(c)
  BY <1>0, <1>1, <1>7, StaleMade DEF RecheckPath, Built
<1>8. CASE Respond(c, {"", "candidate"})
  BY <1>1, <1>8, ProposeOptionMade DEF Respond
<1>9. CASE ReviewResponse(c)
  BY <1>0, <1>1, <1>9, ReviewOptionMade DEF ReviewResponse
<1>10. CASE CandidateCommand(c, "candidate")
  BY <1>10, ProposalRecords
<1>. QED BY <1>2, <1>3, <1>4, <1>5, <1>6, <1>7, <1>8, <1>9, <1>10 DEF ImpactCommand

LEMMA ForecastsRecord == ASSUME RInv, NEW c \in Calls, ForecastCommand(c) PROVE RInv'
<1>0. Sound(log)
  BY DEF RInv
<1>1. ASSUME NEW d, Made(ForecastSteps, log, d), ForecastDo(c, d) PROVE RInv'
  BY <1>1, CommandRecords
<1>2. CASE MakeForecast(c, {"", "candidate"})
  <2>1. PICK rule \in Rules, p \in Odds, proposal \in {"", "candidate"}, sup \in SUBSET Claims, con \in SUBSET Claims :
          ForecastDo(c, CreateForecast(log, rule, p, proposal, sup, con))
    BY <1>2 DEF MakeForecast
  <2>2. Made(ForecastSteps, log, CreateForecast(log, rule, p, proposal, sup, con))
    BY <1>0, CreateForecastMade
  <2>. QED BY <1>1, <2>1, <2>2
<1>3. CASE MoveForecast(c) \/ SettleForecast(c) \/ UseCandidate(c)
  BY <1>0, <1>1, <1>3, UpdateMade DEF MoveForecast, SettleForecast, UseCandidate
<1>4. CASE RecheckForecast(c)
  BY <1>0, <1>1, <1>4, RefreshForecastMade DEF RecheckForecast
<1>5. CASE \E i \in ToSet(Indicators) : Watch(c, i)
  BY <1>1, <1>5, ArmMade DEF Watch
<1>6. CASE WatchPass(c)
  BY <1>0, <1>1, <1>6, IndicatorsMade DEF WatchPass
<1>7. CASE CandidateCommand(c, "candidate")
  BY <1>7, ProposalRecords
<1>. QED BY <1>2, <1>3, <1>4, <1>5, <1>6, <1>7 DEF ForecastCommand

LEMMA PlaneRecords == ASSUME RInv, NEW c \in Calls, PlaneCommand(c) PROVE RInv'
<1>0. Sound(log)
  BY DEF RInv
<1>1. CASE ForecastCommand(c) \/ ThemeCommand(c) \/ NarrativeCommand(c) \/ StakeholderCommand(c) \/ ImpactCommand(c)
  BY <1>1, ForecastsRecord, ThemesRecord, NarrativesRecord, StakeholdersRecord, ImpactRecords
<1>2. CASE Warn(c) \/ RecheckWarnings(c)
  <2>1. ASSUME NEW d, Made(WarningSteps \cup ForecastSteps \cup ImpactSteps, log, d), WarningDo(c, d) PROVE RInv'
    BY <2>1, CommandRecords
  <2>. QED BY <1>0, <1>2, <2>1, ProjectMade, WarningsMade DEF Warn, RecheckWarnings
<1>3. CASE Remember(c) \/ Compare(c)
  <2>1. ASSUME NEW d, Made(AnalogueSteps, log, d), AnalogueDo(c, d) PROVE RInv'
    BY <2>1, CommandRecords
  <2>2. CASE Remember(c)
    BY <1>0, <2>1, <2>2, EpisodeMade DEF Remember
  <2>3. CASE Compare(c)
    BY <1>0, <2>1, <2>3, RetrieveMade DEF Compare
  <2>. QED BY <1>3, <2>2, <2>3
<1>4. CASE PropagateChanges(c)
  <2>1. Made(AllSteps, log, Propagate(log))
    BY <1>0, PropagateMade
  <2>2. Decide(c, Run("ahead", log, <<"plane", Propagate(log)>>, MaxSteps))
    BY <1>4 DEF PropagateChanges, Do, Ahead, Run, First, Following, Opened, Resumed, By
  <2>3. "plane" \in Engines /\ StepsOf("plane") = AllSteps
    BY DEF StepsOf, Engines
  <2>. QED BY <2>1, <2>2, <2>3, RunRecords
<1>. QED BY <1>1, <1>2, <1>3, <1>4 DEF PlaneCommand

LEMMA RecordInit == CommandInit => RInv
<1> SUFFICES ASSUME CommandInit PROVE RInv
  OBVIOUS
<1>1. log = <<>> /\ todo = [c \in Calls |-> <<>>]
  BY DEF CommandInit
<1>2. IsSeq(<<>>) /\ Len(<<>>) = 0
  BY EmptySeq, AnySeq
<1>3. Sound(log)
  BY <1>1, <1>2 DEF Sound
<1>4. Waiting(AllSteps, log, <<>>)
  BY MadeNone, PlainWaiting
<1>. QED BY <1>1, <1>3, <1>4 DEF RInv

LEMMA RecordStep == RInv /\ [PlaneNext]_vars => RInv'
<1> SUFFICES ASSUME RInv, [PlaneNext]_vars PROVE RInv'
  OBVIOUS
<1>1. ASSUME NEW c \in Calls, PlaneCommand(c) \/ AnalyticWrite(c) \/ GiveUp(c) PROVE RInv'
  BY <1>1, PlaneRecords, AppendRecords, AbandonRecords
<1>2. ASSUME NEW k \in Caveats, Identity(k) PROVE RInv'
  BY <1>2, IdentityRecords
<1>3. ASSUME NEW e \in SeenIn("other", 3) \cup World(log), Report(e) PROVE RInv'
  BY <1>3, NewsRecords
<1>4. ASSUME UNCHANGED vars PROVE RInv'
  BY <1>4 DEF RInv, vars
<1>. QED BY <1>1, <1>2, <1>3, <1>4 DEF PlaneNext

(* In every behaviour of the plane every record on the log is well made,   *)
(* and so is every event that a command waits to append, whatever others   *)
(* append before it; and every step it has still to take finds what it was *)
(* worked out for.                                                         *)
THEOREM RecordInvariant == PlaneSpec => []RInv
<1>1. CommandInit => RInv
  BY RecordInit
<1>2. RInv /\ [PlaneNext]_vars => RInv'
  BY RecordStep
<1>. QED BY <1>1, <1>2, PTL DEF PlaneSpec

(* No command of the analytic plane dies halfway on a record that its own  *)
(* constructor refuses (contracts.py of curunir_analytic, the              *)
(* __post_init__ of every record), whatever arrived between its check and  *)
(* its append.                                                             *)
THEOREM RecordsAlwaysHold == PlaneSpec => []RecordsHold
<1>1. RInv => RecordsHold
  BY LawRecords DEF RInv
<1>. QED BY <1>1, RecordInvariant, PTL
=============================================================================
