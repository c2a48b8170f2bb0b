----------------------------- MODULE AnalyticProofs ----------------------------
(***************************************************************************)
(* What holds of the analytic plane, for every set of calls and of objects *)
(* and however the commands interleave: first of the forecast, then of     *)
(* what people have decided, in any record.                                *)
(***************************************************************************)
EXTENDS Propagation, SequenceTheorems, FiniteSetTheorems, WellFoundedInduction, TLAPS

-----------------------------------------------------------------------------
(***************************************************************************)
(* The forecast keeps its four properties for every set of calls, odds,    *)
(* rules, sources and indicators, however the commands interleave.         *)
(*                                                                         *)
(* A command works its events out on the log of some moment, and they are  *)
(* appended later.  What saves the properties is the version: the store    *)
(* accepts a version of the forecast only if it is the next one, so none   *)
(* came between what it was worked out on and it (Grounds).  A log is      *)
(* lawful if each of its versions has a ground on such a prefix, and each  *)
(* mark of a firing comes after what it marks; each property follows from  *)
(* a lawful log (LawSettled and on).  A plan is what a command may have    *)
(* decided on and not yet appended: the invariant says that the log is     *)
(* lawful and that every plan is good for it.  A plan stays good while     *)
(* others append (StillPlanned), its first event keeps the log lawful      *)
(* (FirstFits), what follows it can rely on it (LooseBehindEvent), and     *)
(* every command and every step decides on a draft that Settle turns into  *)
(* a plan (SettleDraft, ContinueDraft, AheadPlan).                         *)
(***************************************************************************)

-----------------------------------------------------------------------------
(***************************************************************************)
(* Sequences of events, whatever the events are.                           *)
(***************************************************************************)
IsSeq(q)     == q \in Seq(ToSet(q))
Prefix(l, d) == SubSeq(l, 1, d)

(* A non-empty set of naturals has a least element. *)
LEMMA Least ==
  ASSUME NEW K, K \subseteq Nat, K # {}
  PROVE  \E m \in K : \A n \in K : m <= n
<1> DEFINE R == {ss \in Nat \X Nat : ss[1] < ss[2]}
<1>1. IsWellFoundedOn(R, Nat)
  BY NatLessThanWellFounded DEF OpToRel
<1>2. PICK m \in K : \A n \in K : ~ (<<n, m>> \in R)
  BY <1>1, WFMin, Zenon
<1>3. \A x, y \in Nat : x < y => <<x, y>> \in R
  OBVIOUS
<1>4. \A n \in K : ~ (n < m)
  BY <1>2, <1>3
<1>. QED BY <1>4

(* What Only keeps, what the index reaches, and what a command comes to.   *)
KeepNone(q, at)       == <<>>
KeepNext(q, at, n, o) == IF n \in at THEN Append(o, q[n]) ELSE o

All(l)                           == {<<l[i].type, l[i].id>> : i \in {j \in DOMAIN l : l[j].type \in ToSet(Kinds)}}
ReachFirst(l, claims)            == {o \in All(l) : ClaimsUnder(l, o[1], o[2]) \cap claims # {}}
ReachNext(l, claims, n, reached) == {o \in All(l) : o \in reached \/ \E b \in reached : RestsOn(l, o, b)}

By(k, l, s) == CASE k = "theme"       -> ThemeContinue(l, s)
                 [] k = "narrative"   -> NarrativeContinue(l, s)
                 [] k = "stakeholder" -> StakeholderContinue(l, s)
                 [] k = "analogue"    -> AnalogueContinue(l, s)
                 [] k = "forecast"    -> Continue(l, s)
                 [] k = "warning"     -> WarningContinue(l, s)
                 [] k = "impact"      -> ImpactContinue(l, s)
                 [] k = "plane"       -> PropagationContinue(l, s)
Opened(l, d)        == Settle(l, d[2])
Resumed(l, d, n, q) == IF q # <<>> /\ Head(q).type = "step" THEN Settle(l, By(d[1], l, Head(q)) \o Tail(q)) ELSE q

(* The recursive functions of the models go on from a first value, one     *)
(* number after the other.  Induction on them is over a set of numbers,    *)
(* since the library's theorems have the statement as a parameter and      *)
(* cannot be cited.                                                        *)
First(what, a, b) ==
  CASE what = "only"     -> KeepNone(a, b)
    [] what = "affected" -> ReachFirst(a, b)
    [] what = "ahead"    -> Opened(a, b)
Following(what, a, b, n, v) ==
  CASE what = "only"     -> KeepNext(a, b, n, v)
    [] what = "affected" -> ReachNext(a, b, n, v)
    [] what = "ahead"    -> Resumed(a, b, n, v)
Run(what, a, b, m) ==
  LET f[n \in 0 .. m] == IF n = 0 THEN First(what, a, b) ELSE Following(what, a, b, n, f[n - 1]) IN f[m]

IsRun(what, a, b, m, f) ==
  f = [n \in 0 .. m |-> IF n = 0 THEN First(what, a, b) ELSE Following(what, a, b, n, f[n - 1])]
Goes(what, a, b, m, f) ==
  /\ f[0] = First(what, a, b) /\ \A n \in 1 .. m : f[n] = Following(what, a, b, n, f[n - 1])
  /\ f[m] = Run(what, a, b, m)

LEMMA UpTo ==
  ASSUME NEW m \in Nat, NEW G, 0 \in G, \A n \in 1 .. m : n - 1 \in G => n \in G
  PROVE  m \in G
<1> DEFINE Miss == {n \in 0 .. m : n \notin G}
<1>1. SUFFICES ASSUME Miss # {} PROVE FALSE
  OBVIOUS
<1>2. Miss \subseteq Nat
  OBVIOUS
<1> HIDE DEF Miss
<1>3. PICK n \in Miss : \A k \in Miss : n <= k
  BY <1>1, <1>2, Least
<1> USE DEF Miss
<1>4. n \in 1 .. m /\ n \notin G
  OBVIOUS
<1>5. n - 1 \in 0 .. m /\ n - 1 \notin Miss
  BY <1>3, <1>4
<1>. QED BY <1>4, <1>5

(* The function exists, and its last value is the one that counts.         *)
LEMMA RunExists ==
  ASSUME NEW what, NEW a, NEW b, NEW m \in Nat
  PROVE  \E f : IsRun(what, a, b, m, f)
<1> DEFINE G == {n \in Nat : \E f : IsRun(what, a, b, n, f)}
<1>1. 0 \in G
  <2> DEFINE f == [n \in 0 .. 0 |-> First(what, a, b)]
  <2>1. IsRun(what, a, b, 0, f)
    BY DEF IsRun
  <2>. QED BY <2>1
<1>2. ASSUME NEW k \in 1 .. m, k - 1 \in G PROVE k \in G
  <2>1. PICK g : IsRun(what, a, b, k - 1, g)
    BY <1>2
  <2> DEFINE f == [n \in 0 .. k |-> IF n = k THEN Following(what, a, b, k, g[k - 1]) ELSE g[n]]
  <2>2. \A n \in 0 .. k - 1 : f[n] = g[n]
    OBVIOUS
  <2>3. \A n \in 0 .. k - 1 : g[n] = IF n = 0 THEN First(what, a, b) ELSE Following(what, a, b, n, g[n - 1])
    BY <2>1 DEF IsRun
  <2>4. ASSUME NEW n \in 0 .. k
        PROVE  f[n] = IF n = 0 THEN First(what, a, b) ELSE Following(what, a, b, n, f[n - 1])
    <3>1. CASE n = k
      <4>1. k - 1 \in 0 .. k - 1 /\ f[k] = Following(what, a, b, k, g[k - 1])
        OBVIOUS
      <4>. QED BY <3>1, <4>1, <2>2
    <3>2. CASE n # k /\ n # 0
      <4>1. n \in 0 .. k - 1 /\ n - 1 \in 0 .. k - 1
        BY <3>2
      <4>. QED BY <4>1, <2>2, <2>3, <3>2
    <3>3. CASE n # k /\ n = 0
      <4>1. n \in 0 .. k - 1
        BY <3>3
      <4>. QED BY <4>1, <2>2, <2>3, <3>3
    <3>. QED BY <3>1, <3>2, <3>3
  <2> HIDE DEF f
  <2>5. f = [n \in 0 .. k |-> f[n]]
    BY DEF f
  <2>6. IsRun(what, a, b, k, f)
    BY <2>4, <2>5 DEF IsRun
  <2>. QED BY <2>6
<1> HIDE DEF G
<1>3. m \in G
  BY <1>1, <1>2, UpTo
<1>. QED BY <1>3 DEF G

LEMMA RunGoes ==
  ASSUME NEW what, NEW a, NEW b, NEW m \in Nat
  PROVE  \E f : Goes(what, a, b, m, f)
<1> DEFINE f == CHOOSE f : IsRun(what, a, b, m, f)
<1>1. IsRun(what, a, b, m, f)
  BY RunExists
<1>2. Run(what, a, b, m) = f[m]
  BY DEF Run, IsRun
<1> HIDE DEF f
<1>3. \A n \in 0 .. m : f[n] = IF n = 0 THEN First(what, a, b) ELSE Following(what, a, b, n, f[n - 1])
  BY <1>1 DEF IsRun
<1>. QED BY <1>2, <1>3 DEF Goes

LEMMA MaxOf ==
  ASSUME NEW n \in Nat, NEW K, K \subseteq 1 .. n, K # {}
  PROVE  Max(K) \in K /\ \A x \in K : x <= Max(K)
<1> DEFINE D == {n - x : x \in K}
<1>1. D \subseteq Nat /\ D # {}
  OBVIOUS
<1>2. PICK d \in D : \A e \in D : d <= e
  BY <1>1, Least
<1>3. PICK x \in K : d = n - x
  OBVIOUS
<1>4. ASSUME NEW y \in K PROVE x >= y
  <2>1. n - y \in D
    OBVIOUS
  <2>2. n - x <= n - y
    BY <1>2, <1>3, <2>1
  <2>3. x \in Nat /\ y \in Nat
    OBVIOUS
  <2> HIDE DEF D
  <2>. QED BY ONLY <2>2, <2>3, n \in Nat, SMT
<1>5. \E z \in K : \A y \in K : z >= y
  BY <1>4
<1>. QED BY <1>5 DEF Max

LEMMA SeqFacts ==
  ASSUME NEW q, IsSeq(q)
  PROVE  /\ Len(q) \in Nat /\ DOMAIN q = 1 .. Len(q)
         /\ q # <<>> => Len(q) >= 1
         /\ q = <<>> => Len(q) = 0
         /\ ToSet(q) = {q[n] : n \in 1 .. Len(q)}
<1>1. Len(q) \in Nat /\ DOMAIN q = 1 .. Len(q)
  BY LenProperties DEF IsSeq
<1>2. q # <<>> => Len(q) \in Nat \ {0}
  BY EmptySeq DEF IsSeq
<1>. QED BY <1>1, <1>2, EmptySeq DEF ToSet

LEMMA AnySeq ==
  ASSUME NEW S, NEW q \in Seq(S)
  PROVE  IsSeq(q)
<1>1. Len(q) \in Nat /\ DOMAIN q = 1 .. Len(q) /\ q \in [1 .. Len(q) -> S]
  BY LenProperties
<1>2. q \in [1 .. Len(q) -> ToSet(q)]
  BY <1>1 DEF ToSet
<1>. QED BY <1>1, <1>2, SeqDef DEF IsSeq

(* Appending, joining and cutting. *)
LEMMA Appended ==
  ASSUME NEW q, IsSeq(q), NEW e
  PROVE  /\ IsSeq(Append(q, e)) /\ Len(Append(q, e)) = Len(q) + 1
         /\ DOMAIN Append(q, e) = 1 .. Len(q) + 1
         /\ \A n \in 1 .. Len(q) : Append(q, e)[n] = q[n]
         /\ Append(q, e)[Len(q) + 1] = e
<1> DEFINE S == ToSet(q) \cup {e}
<1>1. q \in Seq(S) /\ e \in S
  BY SeqMonotonic DEF IsSeq
<1>2. Append(q, e) \in Seq(S)
  BY <1>1, AppendProperties
<1>3. /\ Len(Append(q, e)) = Len(q) + 1
      /\ \A n \in 1 .. Len(q) : Append(q, e)[n] = q[n]
      /\ Append(q, e)[Len(q) + 1] = e
  BY <1>1, AppendProperties
<1>. QED BY <1>2, <1>3, AnySeq, SeqFacts

LEMMA Joined ==
  ASSUME NEW q, IsSeq(q), NEW r, IsSeq(r)
  PROVE  /\ IsSeq(q \o r) /\ Len(q \o r) = Len(q) + Len(r)
         /\ DOMAIN (q \o r) = 1 .. Len(q) + Len(r)
         /\ \A n \in 1 .. Len(q) : (q \o r)[n] = q[n]
         /\ \A n \in 1 .. Len(r) : (q \o r)[Len(q) + n] = r[n]
<1> DEFINE S == ToSet(q) \cup ToSet(r)
<1>1. q \in Seq(S) /\ r \in Seq(S)
  BY SeqMonotonic DEF IsSeq
<1>2. Len(q) \in Nat /\ Len(r) \in Nat
  BY SeqFacts
<1>3. q \o r \in Seq(S)
  BY <1>1, ConcatProperties
<1>4. /\ Len(q \o r) = Len(q) + Len(r)
      /\ \A i \in 1 .. Len(q) + Len(r) : (q \o r)[i] = IF i <= Len(q) THEN q[i] ELSE r[i - Len(q)]
  BY <1>1, ConcatProperties
<1>5. \A n \in 1 .. Len(q) : (q \o r)[n] = q[n]
  BY <1>2, <1>4
<1>6. \A n \in 1 .. Len(r) : (q \o r)[Len(q) + n] = r[n]
  BY <1>2, <1>4
<1>. QED BY <1>3, <1>4, <1>5, <1>6, AnySeq, SeqFacts

LEMMA HeadAndTail ==
  ASSUME NEW q, IsSeq(q), q # <<>>
  PROVE  /\ Head(q) = q[1]
         /\ IsSeq(Tail(q)) /\ Len(Tail(q)) = Len(q) - 1
         /\ DOMAIN Tail(q) = 1 .. Len(q) - 1
         /\ \A n \in 1 .. Len(q) - 1 : Tail(q)[n] = q[n + 1]
<1>1. q \in Seq(ToSet(q))
  BY DEF IsSeq
<1>2. Tail(q) \in Seq(ToSet(q)) /\ Head(q) = q[1] /\ Len(Tail(q)) = Len(q) - 1
      /\ \A n \in 1 .. Len(Tail(q)) : Tail(q)[n] = q[n + 1]
  BY <1>1, HeadTailProperties
<1>. QED BY <1>2, AnySeq, SeqFacts

LEMMA Single ==
  ASSUME NEW e
  PROVE  IsSeq(<<e>>) /\ Len(<<e>>) = 1 /\ <<e>>[1] = e
<1>1. <<e>> \in Seq({e}) /\ Len(<<e>>) = 1 /\ <<e>>[1] = e
  OBVIOUS
<1>. QED BY <1>1, AnySeq

LEMMA Prepended ==
  ASSUME NEW t, IsSeq(t), NEW e
  PROVE  /\ IsSeq(<<e>> \o t) /\ Len(<<e>> \o t) = 1 + Len(t)
         /\ (<<e>> \o t)[1] = e
         /\ \A n \in 1 .. Len(t) : (<<e>> \o t)[1 + n] = t[n]
<1> DEFINE S == {e} \cup ToSet(t)
           a == <<e>>
<1>1. a \in Seq(S) /\ t \in Seq(S) /\ Len(a) = 1 /\ a[1] = e
  BY SeqMonotonic DEF IsSeq
<1>2. Len(t) \in Nat
  BY SeqFacts
<1> HIDE DEF a, S
<1>3. a \o t \in Seq(S)
  BY <1>1, ConcatProperties
<1>4. /\ Len(a \o t) = Len(a) + Len(t)
      /\ \A i \in 1 .. Len(a) + Len(t) : (a \o t)[i] = IF i <= Len(a) THEN a[i] ELSE t[i - Len(a)]
  BY <1>1, ConcatProperties
<1>5. (a \o t)[1] = e
  BY <1>1, <1>2, <1>4
<1>6. \A n \in 1 .. Len(t) : (a \o t)[1 + n] = t[n]
  BY <1>1, <1>2, <1>4
<1>. QED BY <1>1, <1>3, <1>4, <1>5, <1>6, AnySeq DEF a

LEMMA JoinedOne ==
  ASSUME NEW r, IsSeq(r), NEW e
  PROVE  /\ IsSeq(r \o <<e>>) /\ Len(r \o <<e>>) = Len(r) + 1
         /\ \A n \in 1 .. Len(r) : (r \o <<e>>)[n] = r[n]
         /\ (r \o <<e>>)[Len(r) + 1] = e
<1> DEFINE S == {e} \cup ToSet(r)
           a == <<e>>
<1>1. a \in Seq(S) /\ r \in Seq(S) /\ Len(a) = 1 /\ a[1] = e
  BY SeqMonotonic DEF IsSeq
<1>2. Len(r) \in Nat
  BY SeqFacts
<1> HIDE DEF a, S
<1>3. r \o a \in Seq(S)
  BY <1>1, ConcatProperties
<1>4. /\ Len(r \o a) = Len(r) + Len(a)
      /\ \A i \in 1 .. Len(r) + Len(a) : (r \o a)[i] = IF i <= Len(r) THEN r[i] ELSE a[i - Len(r)]
  BY <1>1, ConcatProperties
<1>5. (r \o a)[Len(r) + 1] = e
  BY <1>1, <1>2, <1>4
<1>6. \A n \in 1 .. Len(r) : (r \o a)[n] = r[n]
  BY <1>1, <1>2, <1>4
<1>. QED BY <1>1, <1>3, <1>4, <1>5, <1>6, AnySeq DEF a

LEMMA PrefixFacts ==
  ASSUME NEW l, IsSeq(l), NEW d \in 0 .. Len(l)
  PROVE  /\ IsSeq(Prefix(l, d)) /\ Len(Prefix(l, d)) = d /\ DOMAIN Prefix(l, d) = 1 .. d
         /\ \A i \in 1 .. d : Prefix(l, d)[i] = l[i]
<1>1. l \in Seq(ToSet(l)) /\ Len(l) \in Nat
  BY SeqFacts DEF IsSeq
<1>2. /\ Prefix(l, d) \in Seq(ToSet(l)) /\ Len(Prefix(l, d)) = d
      /\ \A i \in 1 .. d : Prefix(l, d)[i] = l[i]
  BY <1>1, SubSeqProperties DEF Prefix
<1>. QED BY <1>2, AnySeq, SeqFacts

LEMMA SameSeq ==
  ASSUME NEW q, IsSeq(q), NEW r, IsSeq(r), Len(q) = Len(r), \A n \in 1 .. Len(q) : q[n] = r[n]
  PROVE  q = r
<1> DEFINE S == ToSet(q) \cup ToSet(r)
<1>1. q \in Seq(S) /\ r \in Seq(S)
  BY SeqMonotonic DEF IsSeq
<1>. QED BY <1>1, SeqEqual

(* A log that goes on from another. *)
Extends(m, l) == IsSeq(m) /\ Len(l) <= Len(m) /\ \A i \in 1 .. Len(l) : m[i] = l[i]

LEMMA SamePrefix ==
  ASSUME NEW l, IsSeq(l), NEW m, Extends(m, l), NEW d \in 0 .. Len(l)
  PROVE  Prefix(m, d) = Prefix(l, d)
<1>1. Len(l) \in Nat /\ Len(m) \in Nat /\ d \in 0 .. Len(m) /\ Len(l) <= Len(m) /\ IsSeq(m)
  BY SeqFacts DEF Extends
<1>2. \A i \in 1 .. d : Prefix(m, d)[i] = Prefix(l, d)[i]
  BY <1>1, PrefixFacts DEF Extends
<1>. QED BY <1>1, <1>2, PrefixFacts, SameSeq

LEMMA PrefixPart ==
  ASSUME NEW l, IsSeq(l), NEW d \in 0 .. Len(l)
  PROVE  Extends(l, Prefix(l, d))
BY PrefixFacts, SeqFacts DEF Extends

LEMMA PrefixWhole ==
  ASSUME NEW l, IsSeq(l)
  PROVE  Prefix(l, Len(l)) = l
<1>1. Len(l) \in Nat
  BY SeqFacts
<1>. QED BY <1>1, PrefixFacts, SameSeq

LEMMA AppendExtends ==
  ASSUME NEW l, IsSeq(l), NEW e
  PROVE  Extends(Append(l, e), l) /\ Extends(l, l)
BY Appended, SeqFacts DEF Extends

(***************************************************************************)
(* Only keeps what it is told to keep, in its order.                       *)
(***************************************************************************)
(* The positions that are kept, in their order. *)
Picks(q, at, m, o, h) ==
  /\ IsSeq(o) /\ Len(o) <= m /\ h \in [1 .. Len(o) -> 1 .. m]
  /\ \A n \in 1 .. Len(o) : h[n] \in at /\ o[n] = q[h[n]]
  /\ \A n, k \in 1 .. Len(o) : n < k => h[n] < h[k]
  /\ \A j \in 1 .. m : j \in at => \E n \in 1 .. Len(o) : h[n] = j

(* Only picks the positions one by one. *)
LEMMA PickNone ==
  ASSUME NEW q, NEW at
  PROVE  \E h : Picks(q, at, 0, <<>>, h)
<1>1. IsSeq(<<>>) /\ Len(<<>>) = 0
  BY EmptySeq, AnySeq
<1>2. Picks(q, at, 0, <<>>, [n \in 1 .. 0 |-> n])
  BY <1>1 DEF Picks
<1>. QED BY <1>2

LEMMA PickNext ==
  ASSUME NEW q, NEW at, NEW m \in Nat, NEW o, NEW h, Picks(q, at, m, o, h), m + 1 \in at
  PROVE  \E g : Picks(q, at, m + 1, Append(o, q[m + 1]), g)
<1> DEFINE p == Append(o, q[m + 1])
           g == [n \in 1 .. Len(o) + 1 |-> IF n = Len(o) + 1 THEN m + 1 ELSE h[n]]
<1>1. /\ IsSeq(o) /\ Len(o) \in Nat /\ Len(o) <= m
      /\ h \in [1 .. Len(o) -> 1 .. m]
      /\ \A n \in 1 .. Len(o) : h[n] \in at /\ o[n] = q[h[n]]
      /\ \A n, k \in 1 .. Len(o) : n < k => h[n] < h[k]
      /\ \A j \in 1 .. m : j \in at => \E n \in 1 .. Len(o) : h[n] = j
  BY SeqFacts DEF Picks
<1>2. /\ IsSeq(p) /\ Len(p) = Len(o) + 1
      /\ \A n \in 1 .. Len(o) : p[n] = o[n]
      /\ p[Len(o) + 1] = q[m + 1]
  BY <1>1, Appended
<1>3. \A n \in 1 .. Len(o) : g[n] = h[n] /\ h[n] \in 1 .. m
  BY <1>1
<1>4. g[Len(o) + 1] = m + 1 /\ Len(o) + 1 \in 1 .. Len(o) + 1
  BY <1>1
<1>5. g \in [1 .. Len(p) -> 1 .. m + 1] /\ Len(p) <= m + 1
  BY <1>1, <1>2, <1>3, <1>4
<1> HIDE DEF p, g
<1>6. ASSUME NEW n \in 1 .. Len(p) PROVE g[n] \in at /\ p[n] = q[g[n]]
  BY <1>1, <1>2, <1>3, <1>4, <1>6
<1>7. ASSUME NEW n \in 1 .. Len(p), NEW k \in 1 .. Len(p), n < k PROVE g[n] < g[k]
  <2>1. n \in 1 .. Len(o) /\ (k \in 1 .. Len(o) \/ k = Len(o) + 1)
    BY <1>1, <1>2, <1>7
  <2>. QED BY <2>1, <1>1, <1>3, <1>4, <1>7
<1>8. ASSUME NEW j \in 1 .. m + 1, j \in at PROVE \E n \in 1 .. Len(p) : g[n] = j
  <2>1. CASE j \in 1 .. m
    <3>1. PICK n \in 1 .. Len(o) : h[n] = j
      BY <2>1, <1>1, <1>8
    <3>2. n \in 1 .. Len(p) /\ g[n] = j
      BY <3>1, <1>1, <1>2, <1>3
    <3>. QED BY <3>2
  <2>2. CASE j = m + 1
    BY <2>2, <1>2, <1>4
  <2>. QED BY <2>1, <2>2
<1>9. Picks(q, at, m + 1, p, g)
  BY <1>2, <1>5, <1>6, <1>7, <1>8 DEF Picks
<1>. QED BY <1>9 DEF p

LEMMA PickNot ==
  ASSUME NEW q, NEW at, NEW m \in Nat, NEW o, NEW h, Picks(q, at, m, o, h), m + 1 \notin at
  PROVE  Picks(q, at, m + 1, o, h)
<1>1. /\ IsSeq(o) /\ Len(o) \in Nat /\ Len(o) <= m /\ h \in [1 .. Len(o) -> 1 .. m]
  BY SeqFacts DEF Picks
<1>2. h \in [1 .. Len(o) -> 1 .. m + 1]
  BY <1>1
<1>3. \A j \in 1 .. m + 1 : j \in at => j \in 1 .. m
  OBVIOUS
<1>. QED BY <1>1, <1>2, <1>3 DEF Picks

(* What Only keeps is what it picks. *)
Picked(q, at, n, o) == \E h : Picks(q, at, n, o, h)

LEMMA OnlyPicks ==
  ASSUME NEW q, IsSeq(q), NEW at
  PROVE  \E h : Picks(q, at, Len(q), Only(q, at), h)
<1>1. Len(q) \in Nat /\ Picked(q, at, 0, KeepNone(q, at))
  BY SeqFacts, PickNone DEF Picked, KeepNone
<1>2. ASSUME NEW n \in 1 .. Len(q), NEW o, Picked(q, at, n - 1, o)
      PROVE  Picked(q, at, n, KeepNext(q, at, n, o))
  <2>1. PICK k \in Nat : k = n - 1 /\ n = k + 1
    BY <1>1
  <2>2. PICK h : Picks(q, at, k, o, h)
    BY <1>2, <2>1 DEF Picked
  <2>3. \E g : Picks(q, at, k + 1, KeepNext(q, at, k + 1, o), g)
    BY <2>2, PickNext, PickNot DEF KeepNext
  <2>. QED BY <2>1, <2>3 DEF Picked
<1>3. Picked(q, at, Len(q), Run("only", q, at, Len(q)))
  <2>1. PICK f : Goes("only", q, at, Len(q), f)
    BY <1>1, RunGoes
  <2> DEFINE G == {n \in 0 .. Len(q) : Picked(q, at, n, f[n])}
  <2>2. 0 \in G
    BY <1>1, <2>1 DEF Goes, First
  <2>3. ASSUME NEW n \in 1 .. Len(q), n - 1 \in G PROVE n \in G
    BY <1>2, <1>1, <2>1, <2>3 DEF Goes, Following
  <2> HIDE DEF G
  <2>4. Len(q) \in G
    BY <1>1, <2>2, <2>3, UpTo
  <2>. QED BY <2>1, <2>4 DEF Goes, G
<1>4. Only(q, at) = Run("only", q, at, Len(q))
  BY DEF Only, Run, First, Following, KeepNone, KeepNext
<1>. QED BY <1>3, <1>4 DEF Picked

-----------------------------------------------------------------------------
(***************************************************************************)
(* What the events say.                                                    *)
(***************************************************************************)
ForecastRecord(e) ==
  e \in [type : {F}, id : {F}, version : Nat, status : Statuses, rule : Rules, p : Odds,
         proposal : {"", "candidate"}, basis : {e.basis}, indicators : SUBSET ToSet(Indicators), why : {e.why}]
IndicatorRecord(e) ==
  e \in [type : {"indicator"}, id : ToSet(Indicators), version : Nat, status : IndicatorStatuses]
StepNames == {"try", "evidence", "fold", "effects", "check"}

Event(e) ==
  /\ "type" \in DOMAIN e
  /\ e.type = F => ForecastRecord(e)
  /\ e.type = "indicator" => IndicatorRecord(e)
  /\ e.type = "proposal" => e = Proposal("candidate", e.status)
  /\ e.type = "transition" => e = Transition(e.id, e.what, e.cause)
  /\ e.type = "ensure" => e = Ensure(e.id, e.what, e.cause) /\ e.what \in {"CREATED", "ARMED"}
  /\ e.type = "item" => e \in [type : {"item"}, id : {e.id}, status : {e.status}, version : Nat]
  /\ e.type = "step" => e = Step(e.what, e.id) /\ e.what \in StepNames

(***************************************************************************)
(* Why a version of the forecast may come after the log l.                 *)
(***************************************************************************)
(* It is a version that was live, read when the mark was missing. *)
BeforeMark(l, r) == \E i \in Versions(l, F, F) :
  l[i] = r /\ r.status \notin Terminal /\ ~Marked(Prefix(l, i), F, "CREATED")
Repeats(e, r) == e = [r EXCEPT !.version = e.version, !.basis = e.basis, !.why = "fold"]

(* Somebody looked, after the horizon. *)
Looked(l) == Late(l) /\ (Covered(l) \/ \E e \in Evidence(l, "claim") : e.value = "other" /\ e.after)

HasFired(l, i) == \E f \in Versions(l, "indicator", i) : l[f].status = "FIRED"

(* Who moved the number. *)
ByCandidate(l, e) == /\ e.why = "model" /\ e.p = Target
                     /\ \A i \in Versions(l, F, F) : l[i].proposal = ""
                     /\ \E i \in DOMAIN l : l[i] = Proposal("candidate", "ACCEPTED")
ByFiring(l, e) == /\ e.why \in Apply /\ e.p = Target
                  /\ \E f \in Versions(l, "indicator", e.why) :
                       l[f].status = "FIRED" /\ \A i \in Versions(l, F, F) : f < i => l[i].p # Target

Justified(l, e) ==
  \/ ~Exists(l) /\ e.status = "OPEN"
  \/ /\ Live(l)
     /\ e.status = "RESOLVED_FALSE" /\ e.why = "machine" => Looked(l)
     /\ e.p # Now(l).p => e.why = "human" \/ ByCandidate(l, e) \/ ByFiring(l, e)
  \/ \E i \in Versions(l, F, F) : BeforeMark(l, l[i]) /\ Repeats(e, l[i])

(* It was worked out on some prefix of the log, for the version after it. *)
NextOf(l, t, id) == Cardinality(Versions(l, t, id)) + 1
NextF(l)      == NextOf(l, F, F)
Founded(l, e) == \E d \in 0 .. Len(l) : e.version = NextF(Prefix(l, d)) /\ Justified(Prefix(l, d), e)

(* A firing is carried out. *)
CarriedOut(l, i) == IF i \in Apply THEN \E v \in Versions(l, F, F) : l[v].p = Target
                    ELSE Known(l, "item", Review(i))

Lawful(l) ==
  /\ IsSeq(l)
  /\ \A n \in 1 .. Len(l) :
       /\ Event(l[n])
       /\ l[n].type = F => l[n].version = NextF(Prefix(l, n - 1)) /\ Founded(Prefix(l, n - 1), l[n])
       /\ l[n].type = "claim" /\ l[n].after = TRUE => Late(Prefix(l, n))
       /\ \A i \in ToSet(Indicators) : l[n] = Fired(i) => CarriedOut(Prefix(l, n), i)

(***************************************************************************)
(* What a command may have planned on the log l.                           *)
(***************************************************************************)
Waits(l, s) ==
  /\ s.what = "evidence" => BeforeMark(l, s.id.was)
  /\ s.what \in {"fold", "effects"} => s.id \in ToSet(Indicators)
  /\ s.what = "effects" => HasFired(l, s.id)
  /\ s.what = "check" => \E i \in DOMAIN l : l[i] = s.id /\ l[i].type = "indicator"

(* A step is behind the firing that it carries out. *)
AfterFiring(q, n) ==
  /\ n > 1 /\ q[n].what = "effects" /\ q[n].id \in ToSet(Indicators)
  /\ q[1].type = "indicator" /\ q[1].id = q[n].id /\ q[1].status = "FIRED"

(* A firing's mark is behind what it marks. *)
Opens(e, i) == e.type = "item" /\ e.id = Review(i) /\ e.status = "OPEN"
AfterMove(q, n, i)   == n > 1 /\ i \in Apply /\ q[1].type = F /\ q[1].p = Target
AfterReview(q, n, i) == i \notin Apply /\ \E k \in 1 .. n - 1 : Opens(q[k], i)

Plain(l, q) ==
  /\ IsSeq(q)
  /\ \A n \in 1 .. Len(q) :
       /\ Event(q[n]) /\ q[n].type # "claim"
       /\ q[n].type \in {F, "indicator"} => n = 1
       /\ \A i \in ToSet(Indicators) :
            q[n] = Fired(i) => CarriedOut(l, i) \/ AfterMove(q, n, i) \/ AfterReview(q, n, i)

Plan(l, q) ==
  /\ Plain(l, q)
  /\ q # <<>> /\ q[1].type = F => Founded(l, q[1])
  /\ \A n \in 2 .. Len(q) : q[n].type = "step" => Waits(l, q[n]) \/ AfterFiring(q, n)

IInv == Lawful(log) /\ DOMAIN todo = Calls /\ \A c \in Calls : Plan(log, todo[c])

-----------------------------------------------------------------------------
(***************************************************************************)
(* Versions in a log and in its prefixes.                                  *)
(***************************************************************************)
LEMMA VersionsFacts ==
  ASSUME NEW l, IsSeq(l), NEW t, NEW id
  PROVE  /\ Versions(l, t, id) = {i \in 1 .. Len(l) : l[i].type = t /\ l[i].id = id}
         /\ IsFiniteSet(Versions(l, t, id)) /\ Cardinality(Versions(l, t, id)) \in Nat
<1>1. Len(l) \in Nat /\ DOMAIN l = 1 .. Len(l)
  BY SeqFacts
<1>2. Versions(l, t, id) = {i \in 1 .. Len(l) : l[i].type = t /\ l[i].id = id}
  BY <1>1 DEF Versions
<1>3. IsFiniteSet(1 .. Len(l)) /\ Versions(l, t, id) \in SUBSET (1 .. Len(l))
  BY <1>1, <1>2, FS_Interval
<1>. QED BY <1>2, <1>3, FS_Subset, FS_CardinalityType

(* The current record is the last of its versions. *)
LEMMA CurrentFacts ==
  ASSUME NEW l, IsSeq(l), NEW t, NEW id, Known(l, t, id)
  PROVE  \E i \in Versions(l, t, id) : Current(l, t, id) = l[i] /\ \A j \in Versions(l, t, id) : j <= i
<1> DEFINE V == Versions(l, t, id)
<1>1. Len(l) \in Nat /\ V \subseteq 1 .. Len(l) /\ V # {}
  BY SeqFacts, VersionsFacts DEF Known
<1>2. Max(V) \in V /\ \A x \in V : x <= Max(V)
  BY <1>1, MaxOf
<1>. QED BY <1>2 DEF Current

(* A prefix holds the versions up to its end. *)
LEMMA PrefixVersions ==
  ASSUME NEW l, IsSeq(l), NEW d \in 0 .. Len(l), NEW t, NEW id
  PROVE  Versions(Prefix(l, d), t, id) = {i \in Versions(l, t, id) : i <= d}
<1>1. Len(l) \in Nat /\ IsSeq(Prefix(l, d)) /\ Len(Prefix(l, d)) = d /\ \A i \in 1 .. d : Prefix(l, d)[i] = l[i]
  BY SeqFacts, PrefixFacts
<1>2. /\ Versions(l, t, id) = {i \in 1 .. Len(l) : l[i].type = t /\ l[i].id = id}
      /\ Versions(Prefix(l, d), t, id) = {i \in 1 .. d : Prefix(l, d)[i].type = t /\ Prefix(l, d)[i].id = id}
  BY <1>1, VersionsFacts
<1>. QED BY <1>1, <1>2

LEMMA PrefixOfPrefix ==
  ASSUME NEW l, IsSeq(l), NEW d \in 0 .. Len(l), NEW i \in 0 .. d
  PROVE  Prefix(Prefix(l, d), i) = Prefix(l, i)
<1>1. IsSeq(Prefix(l, d)) /\ Len(Prefix(l, d)) = d /\ Extends(l, Prefix(l, d))
  BY PrefixFacts, PrefixPart
<1>. QED BY <1>1, SamePrefix

(* Two prefixes that hold equally many versions hold the same. *)
LEMMA SameVersions ==
  ASSUME NEW l, IsSeq(l), NEW t, NEW id, NEW d \in 0 .. Len(l), NEW k \in 0 .. d, NextOf(Prefix(l, k), t, id) = NextOf(Prefix(l, d), t, id)
  PROVE  \A i \in Versions(l, t, id) : i <= d => i <= k
<1> DEFINE V(n) == Versions(Prefix(l, n), t, id)
<1>1. Len(l) \in Nat /\ k \in 0 .. Len(l) /\ IsSeq(Prefix(l, d)) /\ IsSeq(Prefix(l, k))
  BY SeqFacts, PrefixFacts
<1>2. V(d) = {i \in Versions(l, t, id) : i <= d} /\ V(k) = {i \in Versions(l, t, id) : i <= k}
  BY <1>1, PrefixVersions
<1>3. IsFiniteSet(V(d)) /\ Cardinality(V(d)) \in Nat /\ Cardinality(V(k)) \in Nat
  BY <1>1, VersionsFacts
<1>4. Versions(l, t, id) \subseteq 1 .. Len(l)
  BY VersionsFacts
<1>5. V(k) \in SUBSET V(d)
  BY <1>1, <1>2, <1>4
<1>6. Cardinality(V(k)) = Cardinality(V(d))
  BY <1>3 DEF NextOf
<1>7. V(k) = V(d)
  BY <1>3, <1>5, <1>6, FS_Subset
<1>. QED BY <1>2, <1>7

(* A shorter prefix holds no more versions. *)
LEMMA FewerVersions ==
  ASSUME NEW l, IsSeq(l), NEW t, NEW id, NEW d \in 0 .. Len(l), NEW k \in 0 .. d
  PROVE  NextOf(Prefix(l, k), t, id) <= NextOf(Prefix(l, d), t, id) /\ NextOf(Prefix(l, d), t, id) \in Nat
<1> DEFINE V(n) == Versions(Prefix(l, n), t, id)
<1>1. Len(l) \in Nat /\ k \in 0 .. Len(l) /\ IsSeq(Prefix(l, d)) /\ IsSeq(Prefix(l, k))
  BY SeqFacts, PrefixFacts
<1>2. V(d) = {i \in Versions(l, t, id) : i <= d} /\ V(k) = {i \in Versions(l, t, id) : i <= k}
  BY <1>1, PrefixVersions
<1>3. IsFiniteSet(V(d)) /\ Cardinality(V(d)) \in Nat /\ Cardinality(V(k)) \in Nat
  BY <1>1, VersionsFacts
<1>4. Versions(l, t, id) \subseteq 1 .. Len(l)
  BY VersionsFacts
<1>5. V(k) \in SUBSET V(d)
  BY <1>1, <1>2, <1>4
<1>6. Cardinality(V(k)) <= Cardinality(V(d))
  BY <1>3, <1>5, FS_Subset
<1>. QED BY <1>3, <1>6 DEF NextOf

(* A version is one more than the versions before it. *)
LEMMA OneMore ==
  ASSUME NEW l, IsSeq(l), NEW t, NEW id, NEW n \in Versions(l, t, id)
  PROVE  NextOf(Prefix(l, n), t, id) = NextOf(Prefix(l, n - 1), t, id) + 1
<1> DEFINE V(k) == Versions(Prefix(l, k), t, id)
           m == n - 1
<1>1. /\ Len(l) \in Nat /\ n \in 1 .. Len(l) /\ n \in 0 .. Len(l)
      /\ m \in 0 .. Len(l) /\ n = m + 1 /\ m \in Nat
  BY SeqFacts, VersionsFacts
<1> HIDE DEF m
<1>2. V(n) = {i \in Versions(l, t, id) : i <= n} /\ V(m) = {i \in Versions(l, t, id) : i <= m}
  BY <1>1, PrefixVersions
<1>3. IsFiniteSet(V(m)) /\ Cardinality(V(m)) \in Nat
  BY <1>1, PrefixFacts, VersionsFacts
<1>4. Versions(l, t, id) \subseteq 1 .. Len(l)
  BY VersionsFacts
<1>5. V(n) = V(m) \cup {n} /\ n \notin V(m)
  BY <1>1, <1>2, <1>4
<1>6. Cardinality(V(n)) = Cardinality(V(m)) + 1
  BY <1>3, <1>5, FS_AddElement
<1>7. NextOf(Prefix(l, n), t, id) = NextOf(Prefix(l, m), t, id) + 1
  BY <1>3, <1>6 DEF NextOf
<1>. QED BY <1>7 DEF m

(* The version before is the last one before. *)
LEMMA Previous ==
  ASSUME NEW l, IsSeq(l), NEW t, NEW id,
         \A n \in Versions(l, t, id) : l[n].version = NextOf(Prefix(l, n - 1), t, id),
         NEW k \in Versions(l, t, id), NEW n \in Versions(l, t, id), l[n].version = l[k].version + 1
  PROVE  k < n /\ \A i \in Versions(l, t, id) : i < n => i <= k
<1>1. /\ n \in 1 .. Len(l) /\ k \in 1 .. Len(l) /\ Len(l) \in Nat
      /\ l[n].version = NextOf(Prefix(l, n - 1), t, id) /\ l[k].version = NextOf(Prefix(l, k - 1), t, id)
  BY SeqFacts, VersionsFacts
<1>2. NextOf(Prefix(l, k), t, id) = NextOf(Prefix(l, k - 1), t, id) + 1
  BY <1>1, OneMore
<1>3. NextOf(Prefix(l, n - 1), t, id) = NextOf(Prefix(l, k), t, id)
  BY <1>1, <1>2
<1>4. k < n
  <2>1. SUFFICES ASSUME n <= k PROVE FALSE
    BY <1>1
  <2>2. n - 1 \in 0 .. k - 1 /\ k - 1 \in 0 .. Len(l)
    BY <1>1, <2>1
  <2>3. NextOf(Prefix(l, n - 1), t, id) <= NextOf(Prefix(l, k - 1), t, id) /\ NextOf(Prefix(l, k - 1), t, id) \in Nat
    BY <1>1, <2>2, FewerVersions
  <2>. QED BY <1>2, <1>3, <2>3
<1>5. k \in 0 .. n - 1 /\ n - 1 \in 0 .. Len(l)
  BY <1>1, <1>4
<1>6. \A i \in Versions(l, t, id) : i <= n - 1 => i <= k
  BY <1>1, <1>3, <1>5, SameVersions
<1>7. Versions(l, t, id) \subseteq 1 .. Len(l)
  BY <1>1, VersionsFacts
<1>. QED BY <1>1, <1>4, <1>6, <1>7

-----------------------------------------------------------------------------
(***************************************************************************)
(* What a lawful log says of a version.                                    *)
(***************************************************************************)
LEMMA LawfulVersion ==
  ASSUME NEW l, Lawful(l), NEW n \in Versions(l, F, F)
  PROVE  /\ n \in 1 .. Len(l) /\ Len(l) \in Nat /\ IsSeq(l)
         /\ ForecastRecord(l[n]) /\ l[n].type = F
         /\ l[n].version = NextF(Prefix(l, n - 1))
         /\ Founded(Prefix(l, n - 1), l[n])
<1>1. IsSeq(l)
  BY DEF Lawful
<1>2. n \in 1 .. Len(l) /\ Len(l) \in Nat /\ l[n].type = F
  BY <1>1, SeqFacts, VersionsFacts
<1>. QED BY <1>1, <1>2 DEF Lawful, Event

(* Nothing came between what a version was worked out on and the version.  *)
LEMMA Grounds ==
  ASSUME NEW l, Lawful(l), NEW n \in Versions(l, F, F)
  PROVE  \E d \in 0 .. n - 1 : /\ Justified(Prefix(l, d), l[n])
                               /\ \A i \in Versions(l, F, F) : i < n => i <= d
<1>1. /\ n \in 1 .. Len(l) /\ Len(l) \in Nat /\ IsSeq(l)
      /\ l[n].version = NextF(Prefix(l, n - 1)) /\ Founded(Prefix(l, n - 1), l[n])
  BY LawfulVersion
<1>2. n - 1 \in 0 .. Len(l)
  BY <1>1
<1>3. IsSeq(Prefix(l, n - 1)) /\ Len(Prefix(l, n - 1)) = n - 1
  BY <1>1, <1>2, PrefixFacts
<1>4. PICK d \in 0 .. n - 1 : /\ l[n].version = NextF(Prefix(Prefix(l, n - 1), d))
                              /\ Justified(Prefix(Prefix(l, n - 1), d), l[n])
  BY <1>1, <1>3 DEF Founded
<1>5. Prefix(Prefix(l, n - 1), d) = Prefix(l, d)
  BY <1>1, <1>2, PrefixOfPrefix
<1>6. \A i \in Versions(l, F, F) : i <= n - 1 => i <= d
  BY <1>1, <1>2, <1>4, <1>5, SameVersions DEF NextF
<1>7. Versions(l, F, F) \subseteq 1 .. Len(l)
  BY <1>1, VersionsFacts
<1>8. \A i \in Versions(l, F, F) : i < n => i <= d
  BY <1>1, <1>6, <1>7
<1>. QED BY <1>4, <1>5, <1>8

(* Of two successive versions, the first is what the second was worked out *)
(* on.                                                                     *)
LEMMA WorkedOutOn ==
  ASSUME NEW l, Lawful(l), NEW k \in Versions(l, F, F), NEW n \in Versions(l, F, F), l[n].version = l[k].version + 1
  PROVE  \E d \in 0 .. n - 1 :
           /\ Justified(Prefix(l, d), l[n])
           /\ Exists(Prefix(l, d)) /\ Now(Prefix(l, d)) = l[k]
           /\ Versions(Prefix(l, d), F, F) = {i \in Versions(l, F, F) : i < n}
<1>1. PICK d \in 0 .. n - 1 : /\ Justified(Prefix(l, d), l[n])
                              /\ \A i \in Versions(l, F, F) : i < n => i <= d
  BY Grounds
<1>2. k < n /\ \A i \in Versions(l, F, F) : i < n => i <= k
  <2>1. IsSeq(l) /\ \A i \in Versions(l, F, F) : l[i].version = NextOf(Prefix(l, i - 1), F, F)
    BY LawfulVersion DEF Lawful, NextF
  <2>. QED BY <2>1, Previous
<1>3. n \in 1 .. Len(l) /\ Len(l) \in Nat /\ IsSeq(l) /\ Versions(l, F, F) \subseteq 1 .. Len(l)
  BY LawfulVersion, VersionsFacts
<1>4. d \in 0 .. Len(l) /\ IsSeq(Prefix(l, d)) /\ \A i \in 1 .. d : Prefix(l, d)[i] = l[i]
  BY <1>3, PrefixFacts
<1>5. Versions(Prefix(l, d), F, F) = {i \in Versions(l, F, F) : i <= d}
  BY <1>3, <1>4, PrefixVersions
<1>6. Versions(Prefix(l, d), F, F) = {i \in Versions(l, F, F) : i < n}
  BY <1>1, <1>3, <1>5
<1>7. k \in Versions(Prefix(l, d), F, F)
  BY <1>2, <1>6
<1>8. Known(Prefix(l, d), F, F)
  BY <1>7 DEF Known
<1>9. PICK i \in Versions(Prefix(l, d), F, F) :
         /\ Current(Prefix(l, d), F, F) = Prefix(l, d)[i]
         /\ \A j \in Versions(Prefix(l, d), F, F) : j <= i
  BY <1>4, <1>8, CurrentFacts
<1>10. i = k /\ k \in 1 .. d
  BY <1>2, <1>3, <1>5, <1>6, <1>7, <1>9
<1>11. Now(Prefix(l, d)) = l[k]
  BY <1>4, <1>9, <1>10 DEF Now
<1>. QED BY <1>1, <1>6, <1>8, <1>11 DEF Exists

-----------------------------------------------------------------------------
(***************************************************************************)
(* What a lawful log says of forecasts.                                    *)
(***************************************************************************)
LEMMA RevisionsOfForecast ==
  ASSUME Lawful(log), NEW r \in Revisions(F)
  PROVE  /\ r[1] \in Versions(log, F, F) /\ r[2] \in Versions(log, F, F)
         /\ log[r[2]].version = log[r[1]].version + 1
<1>1. IsSeq(log) /\ \A n \in 1 .. Len(log) : Event(log[n])
  BY DEF Lawful
<1>2. r[1] \in Of(F) /\ r[2] \in Of(F) /\ log[r[2]].version = log[r[1]].version + 1
  BY DEF Revisions
<1>3. \A n \in Of(F) : n \in 1 .. Len(log) /\ log[n].type = F /\ log[n].id = F
  BY <1>1 DEF Of, Event, ForecastRecord
<1>. QED BY <1>1, <1>2, <1>3, VersionsFacts

LEMMA RefoldedVersion ==
  ASSUME Lawful(log), NEW n \in Versions(log, F, F), NEW d \in 0 .. n - 1,
         NEW i \in Versions(Prefix(log, d), F, F),
         BeforeMark(Prefix(log, d), Prefix(log, d)[i]), Repeats(log[n], Prefix(log, d)[i])
  PROVE  Refolded(n)
<1> DEFINE s == Prefix(log, d)
<1>1. n \in 1 .. Len(log) /\ Len(log) \in Nat /\ IsSeq(log)
  BY LawfulVersion
<1>2. d \in 0 .. Len(log) /\ IsSeq(s) /\ \A k \in 1 .. d : s[k] = log[k]
  BY <1>1, PrefixFacts
<1>3. Versions(s, F, F) = {k \in Versions(log, F, F) : k <= d} /\ Versions(log, F, F) \subseteq 1 .. Len(log)
  BY <1>1, <1>2, PrefixVersions, VersionsFacts
<1>4. PICK k \in Versions(s, F, F) : s[k] = s[i] /\ ~Marked(Prefix(s, k), F, "CREATED")
  BY DEF BeforeMark
<1>5. k \in Versions(log, F, F) /\ k < n /\ k \in 1 .. d
  BY <1>1, <1>3, <1>4
<1>6. Prefix(s, k) = SubSeq(log, 1, k)
  BY <1>1, <1>2, <1>5, PrefixOfPrefix DEF Prefix
<1>7. Repeats(log[n], log[k])
  BY <1>2, <1>4, <1>5
<1>. QED BY <1>4, <1>5, <1>6, <1>7 DEF Refolded, Repeats

(* A settled forecast stands in a lawful log. *)
LEMMA LawSettled == Lawful(log) => SettledStands
<1> SUFFICES ASSUME Lawful(log), NEW r \in Revisions(F)
             PROVE  log[r[1]].status \notin Terminal \/ Refolded(r[2])
  BY DEF SettledStands
<1> DEFINE k == r[1]
           n == r[2]
<1>1. k \in Versions(log, F, F) /\ n \in Versions(log, F, F) /\ log[n].version = log[k].version + 1
  BY RevisionsOfForecast
<1>2. PICK d \in 0 .. n - 1 : /\ Justified(Prefix(log, d), log[n])
                              /\ Exists(Prefix(log, d)) /\ Now(Prefix(log, d)) = log[k]
  BY <1>1, WorkedOutOn
<1>3. CASE Live(Prefix(log, d))
  BY <1>2, <1>3 DEF Live
<1>4. CASE \E i \in Versions(Prefix(log, d), F, F) :
             BeforeMark(Prefix(log, d), Prefix(log, d)[i]) /\ Repeats(log[n], Prefix(log, d)[i])
  BY <1>1, <1>2, <1>4, RefoldedVersion
<1>. QED BY <1>2, <1>3, <1>4 DEF Justified

(* The number moves by authority in a lawful log. *)
LEMMA LawMoves == Lawful(log) => MovesAreAuthorized
<1> SUFFICES ASSUME Lawful(log), NEW r \in Revisions(F), log[r[2]].p # log[r[1]].p
             PROVE  LET after   == log[r[2]]
                        earlier == {i \in Versions(log, F, F) : i < r[2]}
                    IN  \/ after.why = "human"
                        \/ /\ after.why = "model" /\ after.p = Target
                           /\ \A i \in earlier : log[i].proposal = ""
                           /\ \E i \in 1 .. r[2] : log[i] = Proposal("candidate", "ACCEPTED")
                        \/ /\ after.why \in Apply /\ after.p = Target
                           /\ \E f \in Versions(log, "indicator", after.why) :
                                /\ f < r[2] /\ log[f].status = "FIRED"
                                /\ \A i \in earlier : f < i => log[i].p # Target
                        \/ Refolded(r[2])
  BY DEF MovesAreAuthorized
<1> DEFINE k == r[1]
           n == r[2]
           earlier == {i \in Versions(log, F, F) : i < n}
<1>1. k \in Versions(log, F, F) /\ n \in Versions(log, F, F) /\ log[n].version = log[k].version + 1
  BY RevisionsOfForecast
<1>2. PICK d \in 0 .. n - 1 : /\ Justified(Prefix(log, d), log[n])
                              /\ Exists(Prefix(log, d)) /\ Now(Prefix(log, d)) = log[k]
                              /\ Versions(Prefix(log, d), F, F) = earlier
  BY <1>1, WorkedOutOn
<1> DEFINE s == Prefix(log, d)
<1>3. n \in 1 .. Len(log) /\ Len(log) \in Nat /\ IsSeq(log)
  BY <1>1, LawfulVersion
<1>4. d \in 0 .. Len(log) /\ IsSeq(s) /\ DOMAIN s = 1 .. d /\ \A i \in 1 .. d : s[i] = log[i]
  BY <1>3, PrefixFacts
<1>5. \A i \in earlier : s[i] = log[i]
  <2>1. Versions(s, F, F) \subseteq 1 .. d
    BY <1>4, VersionsFacts, PrefixFacts, <1>3
  <2>. QED BY <2>1, <1>2, <1>4
<1>6. CASE log[n].why = "human"
  BY <1>6
<1>7. CASE ByCandidate(s, log[n])
  <2>1. \A i \in earlier : log[i].proposal = ""
    BY <1>2, <1>5, <1>7 DEF ByCandidate
  <2>2. PICK i \in 1 .. d : s[i] = Proposal("candidate", "ACCEPTED")
    BY <1>4, <1>7 DEF ByCandidate
  <2>3. i \in 1 .. n /\ log[i] = Proposal("candidate", "ACCEPTED")
    BY <1>3, <1>4, <2>2
  <2>. QED BY <1>7, <2>1, <2>3 DEF ByCandidate
<1>8. CASE ByFiring(s, log[n])
  <2>1. PICK f \in Versions(s, "indicator", log[n].why) :
           s[f].status = "FIRED" /\ \A i \in Versions(s, F, F) : f < i => s[i].p # Target
    BY <1>8 DEF ByFiring
  <2>2. f \in Versions(log, "indicator", log[n].why) /\ f \in 1 .. d
    BY <1>3, <1>4, <2>1, PrefixVersions, VersionsFacts, PrefixFacts
  <2>3. f < n /\ log[f].status = "FIRED"
    BY <1>3, <1>4, <2>1, <2>2
  <2>4. \A i \in earlier : f < i => log[i].p # Target
    BY <1>2, <1>5, <2>1
  <2>. QED BY <1>8, <2>2, <2>3, <2>4 DEF ByFiring
<1>9. CASE \E i \in Versions(s, F, F) : BeforeMark(s, s[i]) /\ Repeats(log[n], s[i])
  BY <1>1, <1>2, <1>9, RefoldedVersion
<1>10. log[n].p # Now(s).p
  BY <1>2
<1>. QED BY <1>2, <1>6, <1>7, <1>8, <1>9, <1>10 DEF Justified

(* A longer log has seen more. *)
LEMMA StillLooked ==
  ASSUME NEW l, IsSeq(l), NEW m, Extends(m, l), Looked(l)
  PROVE  Looked(m)
<1>1. /\ IsSeq(m) /\ Len(l) \in Nat /\ Len(m) \in Nat /\ Len(l) <= Len(m) /\ \A i \in 1 .. Len(l) : m[i] = l[i]
      /\ DOMAIN l = 1 .. Len(l) /\ DOMAIN m = 1 .. Len(m)
  BY SeqFacts DEF Extends
<1>2. \A t : Evidence(l, t) \subseteq Evidence(m, t)
  <2>. TAKE t
  <2>. SUFFICES ASSUME NEW e \in Evidence(l, t) PROVE e \in Evidence(m, t)
    OBVIOUS
  <2>1. PICK i \in 1 .. Len(l) : l[i].type = t /\ e = l[i]
    BY <1>1 DEF Evidence
  <2>2. i \in 1 .. Len(m) /\ m[i].type = t /\ e = m[i]
    BY <1>1, <2>1
  <2>. QED BY <1>1, <2>2 DEF Evidence
<1>3. Covered(l) => Covered(m)
  BY <1>2 DEF Covered
<1>4. Late(l) => Late(m)
  <2>1. Versions(l, "horizon", F) \subseteq Versions(m, "horizon", F)
    BY <1>1, VersionsFacts
  <2>. QED BY <2>1 DEF Late, Known
<1>. QED BY <1>2, <1>3, <1>4 DEF Looked

(* No version of a lawful log is false for silence. *)
LEMMA LawSilence == Lawful(log) => SilenceIsNotFalse
<1> SUFFICES ASSUME Lawful(log), NEW n \in Versions(log, F, F),
                    log[n].status = "RESOLVED_FALSE", log[n].why = "machine"
             PROVE  Looked(SubSeq(log, 1, n))
  BY DEF SilenceIsNotFalse, Looked
<1>1. n \in 1 .. Len(log) /\ Len(log) \in Nat /\ IsSeq(log)
  BY LawfulVersion
<1>2. PICK d \in 0 .. n - 1 : Justified(Prefix(log, d), log[n])
  BY Grounds
<1> DEFINE s == Prefix(log, d)
<1>3. /\ d \in 0 .. Len(log) /\ n \in 0 .. Len(log) /\ d \in 0 .. n
      /\ IsSeq(s) /\ IsSeq(Prefix(log, n)) /\ Len(Prefix(log, n)) = n
  BY <1>1, PrefixFacts
<1>4. ~ \E i \in Versions(s, F, F) : Repeats(log[n], s[i])
  <2>. SUFFICES ASSUME NEW i \in Versions(s, F, F), Repeats(log[n], s[i]) PROVE FALSE
    OBVIOUS
  <2>1. i \in Versions(log, F, F) /\ s[i] = log[i]
    BY <1>1, <1>3, PrefixVersions, PrefixFacts, VersionsFacts
  <2>2. ForecastRecord(log[i])
    BY <2>1, LawfulVersion
  <2>3. log[n].why = "fold"
    BY <2>1, <2>2 DEF Repeats, ForecastRecord
  <2>. QED BY <2>3
<1>5. Looked(s)
  BY <1>2, <1>4 DEF Justified
<1>6. Prefix(Prefix(log, n), d) = s
  BY <1>1, <1>3, PrefixOfPrefix
<1>7. Extends(Prefix(log, n), s)
  BY <1>3, <1>6, PrefixPart
<1>. QED BY <1>3, <1>5, <1>7, StillLooked DEF Prefix

(* Marks of firings come after what they mark in a lawful log. *)
LEMMA LawFirings == Lawful(log) => FiringsAreComplete
<1> SUFFICES ASSUME Lawful(log), NEW m \in DOMAIN log, NEW i \in ToSet(Indicators), log[m] = Fired(i)
             PROVE  LET seen == SubSeq(log, 1, m)
                    IN  IF i \in Apply THEN \E v \in Versions(seen, F, F) : log[v].p = Target
                        ELSE Known(seen, "item", Review(i))
  BY DEF FiringsAreComplete
<1>1. IsSeq(log) /\ m \in 1 .. Len(log) /\ m \in 0 .. Len(log) /\ CarriedOut(Prefix(log, m), i)
  BY SeqFacts DEF Lawful
<1>2. CASE i \in Apply
  <2>1. PICK v \in Versions(Prefix(log, m), F, F) : Prefix(log, m)[v].p = Target
    BY <1>1, <1>2 DEF CarriedOut
  <2>2. v \in 1 .. m
    BY <1>1, <2>1, PrefixFacts, VersionsFacts
  <2>3. Prefix(log, m)[v] = log[v]
    BY <1>1, <2>2, PrefixFacts
  <2>. QED BY <1>2, <2>1, <2>3 DEF Prefix
<1>3. CASE i \notin Apply
  BY <1>1, <1>3 DEF CarriedOut, Prefix
<1>. QED BY <1>2, <1>3

-----------------------------------------------------------------------------
(***************************************************************************)
(* A plan stays good while others append.                                  *)
(***************************************************************************)
(* A log that goes on keeps its versions. *)
LEMMA MoreVersions ==
  ASSUME NEW l, IsSeq(l), NEW m, Extends(m, l), NEW t, NEW id
  PROVE  /\ Versions(l, t, id) \subseteq Versions(m, t, id)
         /\ \A i \in Versions(l, t, id) : i \in 1 .. Len(l) /\ m[i] = l[i]
<1>1. /\ IsSeq(m) /\ Len(l) \in Nat /\ Len(m) \in Nat /\ Len(l) <= Len(m) /\ \A i \in 1 .. Len(l) : m[i] = l[i]
  BY SeqFacts DEF Extends
<1>. QED BY <1>1, VersionsFacts

LEMMA StillFounded ==
  ASSUME NEW l, IsSeq(l), NEW m, Extends(m, l), NEW e, Founded(l, e)
  PROVE  Founded(m, e)
<1>1. PICK d \in 0 .. Len(l) : e.version = NextF(Prefix(l, d)) /\ Justified(Prefix(l, d), e)
  BY DEF Founded
<1>2. Prefix(m, d) = Prefix(l, d)
  BY SamePrefix
<1>3. d \in 0 .. Len(m)
  BY SeqFacts DEF Extends
<1>. QED BY <1>1, <1>2, <1>3 DEF Founded

LEMMA StillBeforeMark ==
  ASSUME NEW l, IsSeq(l), NEW m, Extends(m, l), NEW r, BeforeMark(l, r)
  PROVE  BeforeMark(m, r)
<1>1. PICK i \in Versions(l, F, F) : l[i] = r /\ r.status \notin Terminal /\ ~Marked(Prefix(l, i), F, "CREATED")
  BY DEF BeforeMark
<1>2. i \in 0 .. Len(l) /\ i \in Versions(m, F, F) /\ m[i] = l[i]
  BY MoreVersions, SeqFacts
<1>3. Prefix(m, i) = Prefix(l, i)
  BY <1>2, SamePrefix
<1>. QED BY <1>1, <1>2, <1>3 DEF BeforeMark

LEMMA StillFired ==
  ASSUME NEW l, IsSeq(l), NEW m, Extends(m, l), NEW i, HasFired(l, i)
  PROVE  HasFired(m, i)
<1>1. PICK f \in Versions(l, "indicator", i) : l[f].status = "FIRED"
  BY DEF HasFired
<1>2. f \in Versions(m, "indicator", i) /\ m[f] = l[f]
  BY MoreVersions
<1>. QED BY <1>1, <1>2 DEF HasFired

LEMMA StillCarriedOut ==
  ASSUME NEW l, IsSeq(l), NEW m, Extends(m, l), NEW i, CarriedOut(l, i)
  PROVE  CarriedOut(m, i)
<1>1. CASE i \in Apply
  <2>1. PICK v \in Versions(l, F, F) : l[v].p = Target
    BY <1>1 DEF CarriedOut
  <2>2. v \in Versions(m, F, F) /\ m[v] = l[v]
    BY MoreVersions
  <2>. QED BY <1>1, <2>1, <2>2 DEF CarriedOut
<1>2. CASE i \notin Apply
  <2>1. Versions(l, "item", Review(i)) \subseteq Versions(m, "item", Review(i))
    BY MoreVersions
  <2>. QED BY <1>2, <2>1 DEF CarriedOut, Known
<1>. QED BY <1>1, <1>2

LEMMA StillWaits ==
  ASSUME NEW l, IsSeq(l), NEW m, Extends(m, l), NEW s, Waits(l, s)
  PROVE  Waits(m, s)
<1>1. s.what = "evidence" => BeforeMark(m, s.id.was)
  BY StillBeforeMark DEF Waits
<1>2. s.what \in {"fold", "effects"} => s.id \in ToSet(Indicators)
  BY DEF Waits
<1>3. s.what = "effects" => HasFired(m, s.id)
  BY StillFired DEF Waits
<1>4. ASSUME s.what = "check" PROVE \E i \in DOMAIN m : m[i] = s.id /\ m[i].type = "indicator"
  <2>1. PICK i \in DOMAIN l : l[i] = s.id /\ l[i].type = "indicator"
    BY <1>4 DEF Waits
  <2>2. i \in DOMAIN m /\ m[i] = l[i]
    BY SeqFacts DEF Extends
  <2>. QED BY <2>1, <2>2
<1>. QED BY <1>1, <1>2, <1>3, <1>4 DEF Waits

(* Every part of a plan stays, and so does the plan. *)
LEMMA StillPlanned ==
  ASSUME NEW l, IsSeq(l), NEW m, Extends(m, l), NEW q, Plan(l, q)
  PROVE  Plan(m, q)
<1>1. Plain(m, q)
  BY StillCarriedOut DEF Plan, Plain
<1>2. q # <<>> /\ q[1].type = F => Founded(m, q[1])
  BY StillFounded DEF Plan
<1>3. \A n \in 2 .. Len(q) : q[n].type = "step" => Waits(m, q[n]) \/ AfterFiring(q, n)
  BY StillWaits DEF Plan
<1>. QED BY <1>1, <1>2, <1>3 DEF Plan

-----------------------------------------------------------------------------
(***************************************************************************)
(* What a command decides on, before Settle brings it up to the log; what  *)
(* Settle leaves of it; and what is planned when no step stands first.     *)
(***************************************************************************)
(* A revision says the version it was made from, a first one says none. *)
Fresh(l, e) == Justified(l, e) /\ (e.version = 0 => ~Exists(l))

(* The creation goes on with what it read, if it has its mark to write. *)
AfterMark(l, q, n) ==
  /\ n = 2 /\ q[1] = Created /\ q[n].what = "evidence" /\ Live(l) /\ q[n].id.was = Now(l)

Draft(l, q) ==
  /\ Plain(l, q)
  /\ q # <<>> /\ q[1].type = F => Fresh(l, q[1])
  /\ \A n \in 1 .. Len(q) :
       q[n].type = "step" => Waits(l, q[n]) \/ AfterFiring(q, n) \/ AfterMark(l, q, n)

(* A step that stands first has what it needs. *)
Set(l, q) ==
  q # <<>> /\ q[1].type = "step" =>
    Waits(l, q[1]) \/ (q[1].what = "evidence" /\ Live(l) /\ q[1].id.was = Now(l))

(* What follows a step. *)
Loose(l, q) ==
  /\ IsSeq(q)
  /\ \A n \in 1 .. Len(q) :
       /\ Event(q[n]) /\ q[n].type \notin {"claim", F, "indicator"}
       /\ q[n].type = "step" => Waits(l, q[n])
       /\ \A i \in ToSet(Indicators) : q[n] = Fired(i) => CarriedOut(l, i) \/ AfterReview(q, n, i)

-----------------------------------------------------------------------------
(* What a stamp counts. *)
LEMMA NextFacts ==
  ASSUME NEW l, IsSeq(l)
  PROVE  /\ NextF(l) \in Nat /\ (~Exists(l) => NextF(l) = 1)
         /\ \A e : NextVersion(l, e) \in Nat
         /\ \A e : e.type = F /\ e.id = F => NextVersion(l, e) = NextF(l)
<1>1. \A t, id : Cardinality(Versions(l, t, id)) \in Nat
  BY VersionsFacts
<1>2. ~Exists(l) => NextF(l) = 1
  BY FS_EmptySet DEF Exists, Known, NextF, NextOf
<1>. QED BY <1>1, <1>2 DEF NextF, NextOf, NextVersion

LEMMA StampVersion ==
  ASSUME NEW l, NEW e, Versioned(e), e.type # "ensure"
  PROVE  Stamp(l, e) = [e EXCEPT !.version = IF e.version = 0 THEN 1 ELSE NextVersion(l, e)]
BY DEF Stamp

LEMMA StampForecast ==
  ASSUME NEW l, IsSeq(l), NEW e, e.type = F, ForecastRecord(e)
  PROVE  /\ Stamp(l, e) = [e EXCEPT !.version = IF e.version = 0 THEN 1 ELSE NextF(l)]
         /\ ForecastRecord(Stamp(l, e)) /\ Stamp(l, e).type = F /\ Stamp(l, e).p = e.p
<1>1. Versioned(e) /\ e.id = F
  BY DEF Versioned, ForecastRecord
<1>2. Stamp(l, e) = [e EXCEPT !.version = IF e.version = 0 THEN 1 ELSE NextVersion(l, e)]
  BY <1>1, StampVersion DEF F
<1>3. NextVersion(l, e) = NextF(l) /\ NextF(l) \in Nat
  BY <1>1, NextFacts
<1>4. Stamp(l, e) = [e EXCEPT !.version = IF e.version = 0 THEN 1 ELSE NextF(l)]
  BY <1>2, <1>3
<1>5. ForecastRecord([e EXCEPT !.version = IF e.version = 0 THEN 1 ELSE NextF(l)])
  BY <1>3 DEF ForecastRecord
<1>. QED BY <1>4, <1>5 DEF ForecastRecord

LEMMA StampIndicator ==
  ASSUME NEW l, IsSeq(l), NEW e, e.type = "indicator", IndicatorRecord(e)
  PROVE  /\ IndicatorRecord(Stamp(l, e)) /\ Stamp(l, e).type = "indicator"
         /\ Stamp(l, e).id = e.id /\ Stamp(l, e).status = e.status
<1>1. Versioned(e)
  BY DEF Versioned, IndicatorRecord
<1>2. Stamp(l, e) = [e EXCEPT !.version = IF e.version = 0 THEN 1 ELSE NextVersion(l, e)]
  BY <1>1, StampVersion
<1>3. NextVersion(l, e) \in Nat
  BY NextFacts
<1>. QED BY <1>2, <1>3 DEF IndicatorRecord

LEMMA StampItem ==
  ASSUME NEW l, IsSeq(l), NEW e, e.type = "item", Event(e)
  PROVE  Event(Stamp(l, e)) /\ Stamp(l, e).type = "item" /\ Stamp(l, e).id = e.id /\ Stamp(l, e).status = e.status
<1>0. e \in [type : {"item"}, id : {e.id}, status : {e.status}, version : Nat]
  BY DEF Event
<1>1. Versioned(e)
  BY <1>0 DEF Versioned
<1>2. Stamp(l, e) = [e EXCEPT !.version = IF e.version = 0 THEN 1 ELSE NextVersion(l, e)]
  BY <1>1, StampVersion
<1>3. NextVersion(l, e) \in Nat
  BY NextFacts
<1> DEFINE s == [e EXCEPT !.version = IF e.version = 0 THEN 1 ELSE NextVersion(l, e)]
<1>4. s \in [type : {"item"}, id : {e.id}, status : {e.status}, version : Nat]
  BY <1>0, <1>3
<1>5. s.type = "item" /\ s.id = e.id /\ s.status = e.status
  BY <1>4
<1> HIDE DEF s
<1>6. "type" \in DOMAIN s
  BY <1>4
<1>7. Event(s)
  BY <1>4, <1>5, <1>6 DEF Event, F
<1>. QED BY <1>2, <1>5, <1>7 DEF s

(* The rest says no version, or is of another component. *)
LEMMA StampOther ==
  ASSUME NEW l, IsSeq(l), NEW e, Event(e), e.type \notin {F, "indicator", "item"}
  PROVE  /\ Event(Stamp(l, e))
         /\ Stamp(l, e).type = IF e.type = "ensure" THEN "transition" ELSE e.type
         /\ e.type = "step" => Stamp(l, e) = e
         /\ \A i : Stamp(l, e) = Fired(i) => e = Fired(i)
<1>1. CASE e.type = "ensure"
  <2>1. e = Ensure(e.id, e.what, e.cause) /\ e.what \in {"CREATED", "ARMED"}
    BY <1>1 DEF Event
  <2>2. ~Versioned(e)
    BY <2>1 DEF Versioned, Ensure
  <2>3. Stamp(l, e) = Transition(e.id, e.what, e.cause)
    BY <1>1, <2>2 DEF Stamp
  <2>4. Event(Transition(e.id, e.what, e.cause)) /\ Transition(e.id, e.what, e.cause).type = "transition"
    BY DEF Event, Transition, F
  <2>5. \A i : Transition(e.id, e.what, e.cause) # Fired(i)
    BY <2>1 DEF Transition, Fired
  <2>. QED BY <1>1, <2>3, <2>4, <2>5
<1>2. CASE e.type \in {"transition", "step", "proposal"}
  <2>1. ~Versioned(e)
    <3>1. CASE e.type = "transition"
      BY <3>1 DEF Event, Versioned, Transition
    <3>2. CASE e.type = "step"
      BY <3>2 DEF Event, Versioned, Step
    <3>3. CASE e.type = "proposal"
      BY <3>3 DEF Event, Versioned, Proposal
    <3>. QED BY <1>2, <3>1, <3>2, <3>3
  <2>2. Stamp(l, e) = e
    BY <1>2, <2>1 DEF Stamp
  <2>. QED BY <1>2, <2>2
<1>3. CASE e.type \notin {"ensure", "transition", "step", "proposal"}
  <2>1. "type" \in DOMAIN e
    BY DEF Event
  <2>2. CASE Versioned(e)
    <3> DEFINE v == IF e.version = 0 THEN 1 ELSE NextVersion(l, e)
               s == [e EXCEPT !.version = v]
    <3>1. Stamp(l, e) = s
      BY <1>3, <2>2, StampVersion
    <3>2. "type" \in DOMAIN s /\ s.type = e.type
      BY <2>1
    <3> HIDE DEF s
    <3>3. Event(s)
      BY <3>2, <1>3 DEF Event
    <3>4. \A i : s # Fired(i)
      BY <3>2, <1>3 DEF Fired, Transition
    <3>. QED BY <1>3, <3>1, <3>2, <3>3, <3>4
  <2>3. CASE ~Versioned(e)
    <3>1. Stamp(l, e) = e
      BY <1>3, <2>3 DEF Stamp
    <3>. QED BY <1>3, <3>1
  <2>. QED BY <2>2, <2>3
<1>. QED BY <1>1, <1>2, <1>3

(* What a stamp leaves as it is. *)
LEMMA StampFacts ==
  ASSUME NEW l, IsSeq(l), NEW e, Event(e)
  PROVE  /\ Event(Stamp(l, e))
         /\ Stamp(l, e).type = IF e.type = "ensure" THEN "transition" ELSE e.type
         /\ e.type = "step" => Stamp(l, e) = e
         /\ e.type \in {"indicator", "item"} => Stamp(l, e).id = e.id /\ Stamp(l, e).status = e.status
         /\ e.type = F => Stamp(l, e).p = e.p
         /\ \A i : Stamp(l, e) = Fired(i) => e = Fired(i)
<1>1. CASE e.type = F
  <2>1. ForecastRecord(Stamp(l, e)) /\ Stamp(l, e).type = F /\ Stamp(l, e).p = e.p
    BY <1>1, StampForecast DEF Event
  <2>2. "type" \in DOMAIN Stamp(l, e)
    BY <2>1 DEF ForecastRecord
  <2>3. Event(Stamp(l, e))
    BY <2>1, <2>2 DEF Event, F
  <2>4. \A i : Stamp(l, e) # Fired(i)
    BY <2>1 DEF Fired, Transition, F
  <2>. QED BY <1>1, <2>1, <2>3, <2>4 DEF F
<1>2. CASE e.type = "indicator"
  <2>1. /\ IndicatorRecord(Stamp(l, e)) /\ Stamp(l, e).type = "indicator"
        /\ Stamp(l, e).id = e.id /\ Stamp(l, e).status = e.status
    BY <1>2, StampIndicator DEF Event
  <2>2. Event(Stamp(l, e)) /\ \A i : Stamp(l, e) # Fired(i)
    BY <2>1 DEF Event, IndicatorRecord, Fired, Transition, F
  <2>. QED BY <1>2, <2>1, <2>2 DEF F
<1>3. CASE e.type = "item"
  <2>1. Event(Stamp(l, e)) /\ Stamp(l, e).type = "item" /\ Stamp(l, e).id = e.id /\ Stamp(l, e).status = e.status
    BY <1>3, StampItem
  <2>2. \A i : Stamp(l, e) # Fired(i)
    BY <2>1 DEF Fired, Transition
  <2>. QED BY <1>3, <2>1, <2>2 DEF F
<1>4. CASE e.type \notin {F, "indicator", "item"}
  BY <1>4, StampOther
<1>. QED BY <1>1, <1>2, <1>3, <1>4

(* What Settle leaves of the events: those that are not superfluous, in    *)
(* their order, the first one stamped.                                     *)
Left(l, d, q, h) ==
  /\ IsSeq(q) /\ Len(q) <= Len(d) /\ h \in [1 .. Len(q) -> 1 .. Len(d)]
  /\ q # <<>> => q[1] = Stamp(l, d[h[1]])
  /\ \A n \in 2 .. Len(q) : q[n] = d[h[n]]
  /\ \A n, k \in 1 .. Len(q) : n < k => h[n] < h[k]
  /\ \A n \in 1 .. Len(q) : ~Superfluous(l, d[h[n]])
  /\ \A j \in 1 .. Len(d) : ~Superfluous(l, d[j]) => \E n \in 1 .. Len(q) : h[n] = j

LEMMA SettleLeaves ==
  ASSUME NEW l, NEW d, IsSeq(d)
  PROVE  \E h : Left(l, d, Settle(l, d), h)
<1> DEFINE at == {n \in DOMAIN d : ~Superfluous(l, d[n])}
           o  == Only(d, at)
           q  == IF o = <<>> THEN <<>> ELSE <<Stamp(l, Head(o))>> \o Tail(o)
<1>1. Settle(l, d) = q
  BY DEF Settle, StampFirst
<1>2. PICK h : Picks(d, at, Len(d), o, h)
  BY OnlyPicks
<1>3. Len(d) \in Nat /\ DOMAIN d = 1 .. Len(d) /\ \A n \in 1 .. Len(d) : n \in at <=> ~Superfluous(l, d[n])
  BY SeqFacts
<1> HIDE DEF at, o
<1>4. /\ IsSeq(o) /\ Len(o) \in Nat /\ Len(o) <= Len(d) /\ h \in [1 .. Len(o) -> 1 .. Len(d)]
      /\ \A n \in 1 .. Len(o) : h[n] \in at /\ o[n] = d[h[n]]
      /\ \A n, k \in 1 .. Len(o) : n < k => h[n] < h[k]
      /\ \A j \in 1 .. Len(d) : j \in at => \E n \in 1 .. Len(o) : h[n] = j
  BY <1>2, SeqFacts DEF Picks
<1>5. CASE o = <<>>
  <2>1. q = o /\ Len(o) = 0
    BY <1>4, <1>5, SeqFacts
  <2> HIDE DEF q
  <2>2. Left(l, d, q, h)
    BY <1>3, <1>4, <1>5, <2>1 DEF Left
  <2>. QED BY <1>1, <2>2
<1>6. CASE o # <<>>
  <2> DEFINE t == Tail(o)
  <2>1. Len(o) >= 1 /\ Head(o) = o[1] /\ Len(t) = Len(o) - 1 /\ \A n \in 1 .. Len(o) - 1 : t[n] = o[n + 1]
    BY <1>4, <1>6, SeqFacts, HeadAndTail
  <2>2. IsSeq(t)
    BY <1>4, <1>6, HeadAndTail
  <2>3. q = <<Stamp(l, Head(o))>> \o t
    BY <1>6
  <2> HIDE DEF t, q
  <2>4. IsSeq(q) /\ Len(q) = 1 + Len(t) /\ q[1] = Stamp(l, Head(o)) /\ \A n \in 1 .. Len(t) : q[1 + n] = t[n]
    BY <2>2, <2>3, Prepended
  <2>5. Len(q) = Len(o) /\ q[1] = Stamp(l, o[1])
    BY <1>4, <2>1, <2>4
  <2>6. ASSUME NEW n \in 2 .. Len(q) PROVE q[n] = o[n]
    <3>1. n - 1 \in 1 .. Len(t) /\ 1 + (n - 1) = n /\ n - 1 \in 1 .. Len(o) - 1 /\ (n - 1) + 1 = n
      BY <1>4, <2>1, <2>5
    <3>2. q[1 + (n - 1)] = t[n - 1] /\ t[n - 1] = o[(n - 1) + 1]
      BY <2>1, <2>4, <3>1
    <3>. QED BY <3>1, <3>2
  <2>7. h[1] \in 1 .. Len(d) /\ o[1] = d[h[1]]
    BY <1>4, <2>1
  <2>8. \A n \in 2 .. Len(q) : q[n] = d[h[n]]
    BY <1>4, <2>5, <2>6
  <2>9. \A n \in 1 .. Len(q) : ~Superfluous(l, d[h[n]])
    BY <1>3, <1>4, <2>5
  <2>10. \A j \in 1 .. Len(d) : ~Superfluous(l, d[j]) => \E n \in 1 .. Len(q) : h[n] = j
    BY <1>3, <1>4, <2>5
  <2>11. Left(l, d, q, h)
    BY <1>4, <2>4, <2>5, <2>7, <2>8, <2>9, <2>10 DEF Left
  <2>. QED BY <1>1, <2>11
<1>. QED BY <1>5, <1>6

(* Left, event by event. *)
LEMMA LeftFacts ==
  ASSUME NEW l, NEW d, IsSeq(d), NEW q, NEW h, Left(l, d, q, h)
  PROVE  /\ IsSeq(q) /\ Len(q) \in Nat /\ Len(d) \in Nat
         /\ \A n \in 1 .. Len(q) : h[n] \in 1 .. Len(d) /\ ~Superfluous(l, d[h[n]])
         /\ \A n \in 1 .. Len(q) : q[n] = IF n = 1 THEN Stamp(l, d[h[n]]) ELSE d[h[n]]
         /\ \A n, k \in 1 .. Len(q) : h[n] < h[k] => n < k
         /\ \A n \in 2 .. Len(q) : h[n] >= 2
<1>1. /\ IsSeq(q) /\ Len(q) \in Nat /\ Len(d) \in Nat
      /\ h \in [1 .. Len(q) -> 1 .. Len(d)]
      /\ q # <<>> => q[1] = Stamp(l, d[h[1]])
      /\ \A n \in 2 .. Len(q) : q[n] = d[h[n]]
      /\ \A n, k \in 1 .. Len(q) : n < k => h[n] < h[k]
      /\ \A n \in 1 .. Len(q) : ~Superfluous(l, d[h[n]])
  BY SeqFacts DEF Left
<1>2. \A n \in 1 .. Len(q) : h[n] \in 1 .. Len(d)
  BY <1>1
<1>3. ASSUME NEW n \in 1 .. Len(q)
      PROVE  q[n] = IF n = 1 THEN Stamp(l, d[h[n]]) ELSE d[h[n]]
  <2>1. q # <<>>
    BY <1>1, <1>3, SeqFacts
  <2>2. n = 1 \/ n \in 2 .. Len(q)
    BY <1>1
  <2>. QED BY <1>1, <2>1, <2>2
<1>4. ASSUME NEW n \in 1 .. Len(q), NEW k \in 1 .. Len(q), h[n] < h[k] PROVE n < k
  <2>1. CASE n = k
    BY <1>1, <1>2, <1>4, <2>1
  <2>2. CASE k < n
    <3>1. h[k] < h[n]
      BY <1>1, <2>2
    <3>. QED BY <1>1, <1>2, <1>4, <3>1
  <2>. QED BY <1>1, <2>1, <2>2
<1>5. ASSUME NEW n \in 2 .. Len(q) PROVE h[n] >= 2
  <2>1. 1 \in 1 .. Len(q) /\ n \in 1 .. Len(q) /\ 1 < n
    BY <1>1
  <2>2. h[1] < h[n] /\ h[1] \in 1 .. Len(d) /\ h[n] \in 1 .. Len(d)
    BY <1>1, <1>2, <2>1
  <2>. QED BY <1>1, <2>2
<1>. QED BY <1>1, <1>2, <1>3, <1>4, <1>5

(* A first event that is not superfluous stays the first. *)
LEMMA FirstStays ==
  ASSUME NEW l, NEW d, IsSeq(d), NEW q, NEW h, Left(l, d, q, h), 1 \in 1 .. Len(d), ~Superfluous(l, d[1])
  PROVE  1 \in 1 .. Len(q) /\ h[1] = 1 /\ q[1] = Stamp(l, d[1])
<1>1. PICK k \in 1 .. Len(q) : h[k] = 1
  BY DEF Left
<1>2. Len(q) \in Nat /\ (k = 1 \/ k \in 2 .. Len(q))
  BY LeftFacts
<1>3. ~(k \in 2 .. Len(q))
  BY <1>1, LeftFacts
<1>4. k = 1 /\ 1 \in 1 .. Len(q)
  BY <1>2, <1>3
<1>5. q[1] = Stamp(l, d[h[1]])
  BY <1>4, LeftFacts
<1>. QED BY <1>1, <1>4, <1>5

(* Versions, indicator records and steps are never dropped. *)
LEMMA NeverSuperfluous ==
  ASSUME NEW l, NEW e, e.type \in {F, "indicator", "step"}
  PROVE  ~Superfluous(l, e)
BY DEF Superfluous, F

(* What stands now is a version of the log. *)
LEMMA NowFacts ==
  ASSUME NEW l, Lawful(l), Exists(l)
  PROVE  \E i \in Versions(l, F, F) : /\ Now(l) = l[i] /\ (\A j \in Versions(l, F, F) : j <= i)
                                      /\ i \in 1 .. Len(l) /\ ForecastRecord(l[i]) /\ l[i].type = F
<1>1. IsSeq(l) /\ Known(l, F, F)
  BY DEF Lawful, Exists
<1>2. PICK i \in Versions(l, F, F) : Current(l, F, F) = l[i] /\ \A j \in Versions(l, F, F) : j <= i
  BY <1>1, CurrentFacts
<1>. QED BY <1>2, LawfulVersion DEF Now

(* What stands live while the mark is missing. *)
LEMMA NowBeforeMark ==
  ASSUME NEW l, Lawful(l), Live(l), ~Marked(l, F, "CREATED")
  PROVE  BeforeMark(l, Now(l))
<1>1. IsSeq(l) /\ Exists(l) /\ Now(l).status \notin Terminal
  BY DEF Lawful, Live
<1>2. PICK i \in Versions(l, F, F) : Now(l) = l[i] /\ i \in 1 .. Len(l)
  BY <1>1, NowFacts
<1>3. Len(l) \in Nat /\ i \in 0 .. Len(l)
  BY <1>1, <1>2, SeqFacts
<1>4. ASSUME NEW k \in Versions(Prefix(l, i), "transition", F), Prefix(l, i)[k].what = "CREATED" PROVE FALSE
  <2>1. k \in Versions(l, "transition", F) /\ k <= i
    BY <1>1, <1>3, PrefixVersions
  <2>2. k \in 1 .. i
    BY <1>1, <1>3, <2>1, VersionsFacts
  <2>3. Prefix(l, i)[k] = l[k]
    BY <1>1, <1>3, <2>2, PrefixFacts
  <2>. QED BY <1>4, <2>1, <2>3 DEF Marked
<1>5. ~Marked(Prefix(l, i), F, "CREATED")
  BY <1>4 DEF Marked
<1>. QED BY <1>1, <1>2, <1>5 DEF BeforeMark

(* The ground of a version does not ask for its number. *)
LEMMA JustifiedVersion ==
  ASSUME NEW l, NEW e, ForecastRecord(e), Justified(l, e), NEW v
  PROVE  Justified(l, [e EXCEPT !.version = v])
<1> DEFINE s == [e EXCEPT !.version = v]
<1>1. s.status = e.status /\ s.p = e.p /\ s.why = e.why /\ s.basis = e.basis /\ s.version = v
  BY DEF ForecastRecord
<1>2. ASSUME NEW r, Repeats(e, r) PROVE Repeats(s, r)
  <2>1. e = [r EXCEPT !.version = e.version, !.basis = e.basis, !.why = "fold"]
    BY <1>2 DEF Repeats
  <2>2. s = [r EXCEPT !.version = v, !.basis = e.basis, !.why = "fold"]
    BY <2>1
  <2>. QED BY <1>1, <2>2 DEF Repeats
<1> SUFFICES Justified(l, s)
  OBVIOUS
<1> HIDE DEF s
<1>3. CASE ~Exists(l) /\ e.status = "OPEN"
  BY <1>1, <1>3 DEF Justified
<1>4. CASE /\ Live(l)
           /\ e.status = "RESOLVED_FALSE" /\ e.why = "machine" => Looked(l)
           /\ e.p # Now(l).p => e.why = "human" \/ ByCandidate(l, e) \/ ByFiring(l, e)
  <2>1. ByCandidate(l, e) => ByCandidate(l, s)
    BY <1>1 DEF ByCandidate
  <2>2. ByFiring(l, e) => ByFiring(l, s)
    BY <1>1 DEF ByFiring
  <2>. QED BY <1>1, <1>4, <2>1, <2>2 DEF Justified
<1>5. CASE \E i \in Versions(l, F, F) : BeforeMark(l, l[i]) /\ Repeats(e, l[i])
  BY <1>2, <1>5 DEF Justified
<1>. QED BY <1>3, <1>4, <1>5 DEF Justified

(* What Settle makes of a draft is a plan. *)
LEMMA SettleDraft ==
  ASSUME NEW l, Lawful(l), NEW d, Draft(l, d)
  PROVE  Plan(l, Settle(l, d)) /\ Set(l, Settle(l, d))
<1>1. SUFFICES ASSUME NEW q, NEW h, Left(l, d, q, h) PROVE Plan(l, q) /\ Set(l, q)
  <2>1. IsSeq(d)
    BY DEF Draft, Plain
  <2>. QED BY <1>1, <2>1, SettleLeaves
<1>2. /\ IsSeq(l) /\ IsSeq(d)
      /\ \A n \in 1 .. Len(d) : /\ Event(d[n]) /\ d[n].type # "claim"
                                /\ d[n].type \in {F, "indicator"} => n = 1
      /\ d # <<>> /\ d[1].type = F => Fresh(l, d[1])
      /\ \A n \in 1 .. Len(d) :
           d[n].type = "step" => Waits(l, d[n]) \/ AfterFiring(d, n) \/ AfterMark(l, d, n)
  BY DEF Lawful, Draft, Plain
<1>3. /\ IsSeq(q) /\ Len(q) \in Nat /\ Len(d) \in Nat
      /\ \A n \in 1 .. Len(q) : h[n] \in 1 .. Len(d) /\ ~Superfluous(l, d[h[n]])
      /\ \A n \in 1 .. Len(q) : q[n] = IF n = 1 THEN Stamp(l, d[h[n]]) ELSE d[h[n]]
      /\ \A n, k \in 1 .. Len(q) : h[n] < h[k] => n < k
      /\ \A n \in 2 .. Len(q) : h[n] >= 2
  BY <1>1, <1>2, LeftFacts
<1>4. ASSUME 1 \in 1 .. Len(d), ~Superfluous(l, d[1])
      PROVE  1 \in 1 .. Len(q) /\ h[1] = 1 /\ q[1] = Stamp(l, d[1])
  BY <1>1, <1>2, <1>4, FirstStays
<1>5. ASSUME NEW n \in 1 .. Len(q)
      PROVE  /\ Event(q[n]) /\ q[n].type # "claim"
             /\ q[n].type \in {F, "indicator", "step"} => d[h[n]].type = q[n].type
             /\ q[n].type = "step" => q[n] = d[h[n]]
             /\ q[n].type \in {F, "indicator"} => n = 1 /\ h[n] = 1
             /\ \A i : q[n] = Fired(i) => d[h[n]] = Fired(i)
             /\ \A i : Opens(d[h[n]], i) => Opens(q[n], i)
  <2> DEFINE e == d[h[n]]
  <2>1. Event(e) /\ e.type # "claim" /\ (e.type \in {F, "indicator"} => h[n] = 1) /\ h[n] \in 1 .. Len(d)
    BY <1>2, <1>3
  <2>2. n \in 2 .. Len(q) => h[n] # 1
    BY <1>3
  <2> HIDE DEF e
  <2>3. CASE n = 1
    <3>1. q[n] = Stamp(l, e)
      BY <1>3, <2>3 DEF e
    <3>2. /\ Event(Stamp(l, e))
          /\ Stamp(l, e).type = IF e.type = "ensure" THEN "transition" ELSE e.type
          /\ e.type = "step" => Stamp(l, e) = e
          /\ e.type \in {"indicator", "item"} => Stamp(l, e).id = e.id /\ Stamp(l, e).status = e.status
          /\ \A i : Stamp(l, e) = Fired(i) => e = Fired(i)
      BY <1>2, <2>1, StampFacts
    <3>3. \A i : Opens(e, i) => Opens(q[n], i)
      BY <3>1, <3>2 DEF Opens
    <3>. QED BY <2>1, <2>3, <3>1, <3>2, <3>3 DEF e, F
  <2>4. CASE n # 1
    <3>1. q[n] = e /\ n \in 2 .. Len(q)
      BY <1>3, <2>4 DEF e
    <3>. QED BY <2>1, <2>2, <3>1 DEF e
  <2>. QED BY <2>3, <2>4
<1>6. ASSUME NEW n \in 1 .. Len(q), NEW i \in ToSet(Indicators), q[n] = Fired(i)
      PROVE  CarriedOut(l, i) \/ AfterMove(q, n, i) \/ AfterReview(q, n, i)
  <2>1. h[n] \in 1 .. Len(d) /\ d[h[n]] = Fired(i)
    BY <1>3, <1>5, <1>6
  <2>2. CarriedOut(l, i) \/ AfterMove(d, h[n], i) \/ AfterReview(d, h[n], i)
    BY <2>1 DEF Draft, Plain
  <2>3. CASE AfterMove(d, h[n], i)
    <3>1. h[n] > 1 /\ i \in Apply /\ d[1].type = F /\ d[1].p = Target /\ 1 \in 1 .. Len(d)
      BY <1>3, <2>1, <2>3 DEF AfterMove
    <3>2. h[1] = 1 /\ q[1] = Stamp(l, d[1])
      BY <1>4, <3>1, NeverSuperfluous
    <3>3. q[1].type = F /\ q[1].p = Target
      BY <1>2, <3>1, <3>2, StampFacts DEF F
    <3>4. n > 1
      BY <1>3, <3>1, <3>2
    <3>. QED BY <3>1, <3>3, <3>4 DEF AfterMove
  <2>4. CASE AfterReview(d, h[n], i)
    <3>1. PICK k \in 1 .. h[n] - 1 : i \notin Apply /\ Opens(d[k], i)
      BY <2>4 DEF AfterReview
    <3>2. k \in 1 .. Len(d)
      BY <1>3, <2>1, <3>1
    <3>3. CASE Superfluous(l, d[k])
      <4>1. d[k].type = "item" /\ d[k].status = "OPEN" /\ d[k].id = Review(i)
        BY <3>1 DEF Opens
      <4>2. Known(l, "item", Review(i))
        BY <3>3, <4>1 DEF Superfluous
      <4>. QED BY <3>1, <4>2 DEF CarriedOut
    <3>4. CASE ~Superfluous(l, d[k])
      <4>1. PICK m \in 1 .. Len(q) : h[m] = k
        BY <1>1, <3>2, <3>4 DEF Left
      <4>2. m < n
        BY <1>3, <2>1, <3>1, <4>1
      <4>3. Opens(q[m], i)
        BY <1>5, <3>1, <4>1
      <4>4. m \in 1 .. n - 1
        BY <4>1, <4>2
      <4>. QED BY <3>1, <4>3, <4>4 DEF AfterReview
    <3>. QED BY <3>3, <3>4
  <2>. QED BY <2>2, <2>3, <2>4
<1>7. Plain(l, q)
  BY <1>3, <1>5, <1>6 DEF Plain
<1>8. ASSUME q # <<>>, q[1].type = F PROVE Founded(l, q[1])
  <2>1. 1 \in 1 .. Len(q)
    BY <1>3, <1>8, SeqFacts
  <2>2. d[1].type = F /\ q[1] = Stamp(l, d[1]) /\ 1 \in 1 .. Len(d)
    BY <1>3, <1>5, <1>8, <2>1
  <2>3. d # <<>> /\ ForecastRecord(d[1])
    BY <1>2, <2>2, SeqFacts DEF Event
  <2>4. Justified(l, d[1]) /\ (d[1].version = 0 => ~Exists(l))
    BY <1>2, <2>2, <2>3 DEF Fresh
  <2>5. q[1] = [d[1] EXCEPT !.version = IF d[1].version = 0 THEN 1 ELSE NextF(l)]
    <3>1. IsSeq(l)
      BY <1>2
    <3>2. Stamp(l, d[1]) = [d[1] EXCEPT !.version = IF d[1].version = 0 THEN 1 ELSE NextF(l)]
      BY <3>1, <2>2, <2>3, StampForecast
    <3>. QED BY <2>2, <3>2
  <2>6. q[1] = [d[1] EXCEPT !.version = NextF(l)]
    BY <1>2, <2>4, <2>5, NextFacts
  <2>7. Justified(l, q[1])
    BY <2>3, <2>4, <2>6, JustifiedVersion
  <2>8. q[1].version = NextF(l)
    BY <2>3, <2>6 DEF ForecastRecord
  <2>9. Prefix(l, Len(l)) = l /\ Len(l) \in 0 .. Len(l)
    BY <1>2, PrefixWhole, SeqFacts
  <2>. QED BY <2>7, <2>8, <2>9 DEF Founded
<1>9. ASSUME NEW n \in 2 .. Len(q), q[n].type = "step" PROVE Waits(l, q[n]) \/ AfterFiring(q, n)
  <2>1. n \in 1 .. Len(q) /\ h[n] \in 1 .. Len(d) /\ h[n] >= 2 /\ n > 1
    BY <1>3
  <2>2. d[h[n]].type = "step" /\ q[n] = d[h[n]]
    BY <1>5, <1>9, <2>1
  <2>3. 1 \in 1 .. Len(d)
    BY <1>3, <2>1
  <2>4. CASE AfterFiring(d, h[n])
    <3>1. /\ d[1].type = "indicator" /\ d[1].id = d[h[n]].id /\ d[1].status = "FIRED"
          /\ d[h[n]].what = "effects" /\ d[h[n]].id \in ToSet(Indicators)
      BY <2>4 DEF AfterFiring
    <3>2. q[1] = Stamp(l, d[1])
      BY <1>4, <2>3, <3>1, NeverSuperfluous
    <3>3. q[1].type = "indicator" /\ q[1].id = d[1].id /\ q[1].status = d[1].status
      BY <1>2, <2>3, <3>1, <3>2, StampFacts
    <3>. QED BY <2>1, <2>2, <3>1, <3>3 DEF AfterFiring
  <2>5. CASE AfterMark(l, d, h[n])
    <3>1. h[n] = 2 /\ d[1] = Created /\ d[h[n]].what = "evidence" /\ Live(l) /\ d[h[n]].id.was = Now(l)
      BY <2>5 DEF AfterMark
    <3>2. 1 \in 1 .. Len(q) /\ h[1] < h[n]
      BY <1>1, <2>1, <1>3 DEF Left
    <3>3. h[1] = 1
      BY <1>3, <3>1, <3>2
    <3>4. ~Superfluous(l, Created)
      BY <1>3, <3>1, <3>2, <3>3
    <3>5. ~Marked(l, F, "CREATED")
      BY <3>4 DEF Superfluous, Created, Ensure
    <3>6. BeforeMark(l, d[h[n]].id.was)
      BY <3>1, <3>5, NowBeforeMark
    <3>. QED BY <2>2, <3>1, <3>6 DEF Waits
  <2>. QED BY <1>2, <2>1, <2>2, <2>4, <2>5
<1>10. ASSUME q # <<>>, q[1].type = "step"
       PROVE  Waits(l, q[1]) \/ (q[1].what = "evidence" /\ Live(l) /\ q[1].id.was = Now(l))
  <2>1. 1 \in 1 .. Len(q) /\ h[1] \in 1 .. Len(d)
    BY <1>3, <1>10, SeqFacts
  <2>2. d[h[1]].type = "step" /\ q[1] = d[h[1]]
    BY <1>5, <1>10, <2>1
  <2>3. ~AfterFiring(d, h[1])
    <3>1. SUFFICES ASSUME AfterFiring(d, h[1]) PROVE FALSE
      OBVIOUS
    <3>2. h[1] > 1 /\ d[1].type = "indicator" /\ 1 \in 1 .. Len(d)
      BY <1>3, <2>1, <3>1 DEF AfterFiring
    <3>. QED BY <1>4, <3>2, NeverSuperfluous
  <2>. QED BY <1>2, <2>1, <2>2, <2>3 DEF AfterMark
<1>. QED BY <1>7, <1>8, <1>9, <1>10 DEF Plan, Set

-----------------------------------------------------------------------------
(***************************************************************************)
(* What a step comes to is put before what followed it.                    *)
(***************************************************************************)
(* A draft goes on with what needs nothing of it. *)
LEMMA DraftJoined ==
  ASSUME NEW l, NEW r, Draft(l, r), NEW t, Loose(l, t)
  PROVE  Draft(l, r \o t)
<1> DEFINE q == r \o t
<1>1. IsSeq(r) /\ IsSeq(t) /\ Len(r) \in Nat /\ Len(t) \in Nat
  BY SeqFacts DEF Draft, Plain, Loose
<1>2. /\ IsSeq(q) /\ Len(q) = Len(r) + Len(t)
      /\ \A n \in 1 .. Len(r) : q[n] = r[n]
      /\ \A n \in 1 .. Len(t) : q[Len(r) + n] = t[n]
  BY <1>1, Joined
<1> HIDE DEF q
<1>3. /\ \A n \in 1 .. Len(r) : /\ Event(r[n]) /\ r[n].type # "claim"
                                /\ r[n].type \in {F, "indicator"} => n = 1
      /\ \A n \in 1 .. Len(r), i \in ToSet(Indicators) :
           r[n] = Fired(i) => CarriedOut(l, i) \/ AfterMove(r, n, i) \/ AfterReview(r, n, i)
      /\ r # <<>> /\ r[1].type = F => Fresh(l, r[1])
      /\ \A n \in 1 .. Len(r) :
           r[n].type = "step" => Waits(l, r[n]) \/ AfterFiring(r, n) \/ AfterMark(l, r, n)
  BY DEF Draft, Plain
<1>4. /\ \A n \in 1 .. Len(t) : /\ Event(t[n]) /\ t[n].type \notin {"claim", F, "indicator"}
                                /\ t[n].type = "step" => Waits(l, t[n])
      /\ \A n \in 1 .. Len(t), i \in ToSet(Indicators) :
           t[n] = Fired(i) => CarriedOut(l, i) \/ AfterReview(t, n, i)
  BY DEF Loose
<1>5. ASSUME NEW n \in 1 .. Len(q) PROVE n \in 1 .. Len(r) \/ \E m \in 1 .. Len(t) : n = Len(r) + m
  <2>1. n \in 1 .. Len(r) \/ (n - Len(r) \in 1 .. Len(t) /\ n = Len(r) + (n - Len(r)))
    BY <1>1, <1>2
  <2>. QED BY <2>1
<1>6. ASSUME NEW n \in 1 .. Len(q)
      PROVE  /\ Event(q[n]) /\ q[n].type # "claim"
             /\ q[n].type \in {F, "indicator"} => n = 1
             /\ q[n].type = F => n \in 1 .. Len(r)
  <2>1. CASE n \in 1 .. Len(r)
    BY <1>2, <1>3, <2>1
  <2>2. ASSUME NEW m \in 1 .. Len(t), n = Len(r) + m
        PROVE  Event(q[n]) /\ q[n].type \notin {"claim", F, "indicator"}
    BY <1>2, <1>4, <2>2
  <2>. QED BY <1>5, <2>1, <2>2
<1>7. ASSUME NEW n \in 1 .. Len(q), NEW i \in ToSet(Indicators), q[n] = Fired(i)
      PROVE  CarriedOut(l, i) \/ AfterMove(q, n, i) \/ AfterReview(q, n, i)
  <2>1. CASE n \in 1 .. Len(r)
    <3>1. CarriedOut(l, i) \/ AfterMove(r, n, i) \/ AfterReview(r, n, i)
      BY <1>2, <1>3, <1>7, <2>1
    <3>2. AfterMove(r, n, i) => AfterMove(q, n, i)
      <4>1. 1 \in 1 .. Len(r)
        BY <1>1, <2>1
      <4>. QED BY <1>2, <4>1 DEF AfterMove
    <3>3. AfterReview(r, n, i) => AfterReview(q, n, i)
      <4>1. \A k \in 1 .. n - 1 : q[k] = r[k]
        BY <1>1, <1>2, <2>1
      <4>. QED BY <4>1 DEF AfterReview
    <3>. QED BY <3>1, <3>2, <3>3
  <2>2. ASSUME NEW m \in 1 .. Len(t), n = Len(r) + m
        PROVE  CarriedOut(l, i) \/ AfterReview(q, n, i)
    <3>1. CarriedOut(l, i) \/ AfterReview(t, m, i)
      BY <1>2, <1>4, <1>7, <2>2
    <3>2. ASSUME AfterReview(t, m, i) PROVE AfterReview(q, n, i)
      <4>1. PICK k \in 1 .. m - 1 : i \notin Apply /\ Opens(t[k], i)
        BY <3>2 DEF AfterReview
      <4>2. k \in 1 .. Len(t) /\ Len(r) + k \in 1 .. n - 1
        BY <1>1, <2>2, <4>1
      <4>3. Opens(q[Len(r) + k], i)
        BY <1>2, <4>1, <4>2
      <4>. QED BY <4>1, <4>2, <4>3 DEF AfterReview
    <3>. QED BY <3>1, <3>2
  <2>. QED BY <1>5, <2>1, <2>2
<1>8. ASSUME q # <<>>, q[1].type = F PROVE Fresh(l, q[1])
  <2>1. 1 \in 1 .. Len(q)
    BY <1>1, <1>2, <1>8, SeqFacts
  <2>2. 1 \in 1 .. Len(r)
    BY <1>6, <1>8, <2>1
  <2>3. r # <<>> /\ q[1] = r[1]
    BY <1>1, <1>2, <2>2, SeqFacts
  <2>. QED BY <1>3, <1>8, <2>3
<1>9. ASSUME NEW n \in 1 .. Len(q), q[n].type = "step"
      PROVE  Waits(l, q[n]) \/ AfterFiring(q, n) \/ AfterMark(l, q, n)
  <2>1. CASE n \in 1 .. Len(r)
    <3>1. 1 \in 1 .. Len(r) /\ q[1] = r[1] /\ q[n] = r[n]
      BY <1>1, <1>2, <2>1
    <3>2. Waits(l, r[n]) \/ AfterFiring(r, n) \/ AfterMark(l, r, n)
      BY <1>3, <1>9, <2>1, <3>1
    <3>. QED BY <3>1, <3>2 DEF AfterFiring, AfterMark
  <2>2. ASSUME NEW m \in 1 .. Len(t), n = Len(r) + m PROVE Waits(l, q[n])
    BY <1>2, <1>4, <1>9, <2>2
  <2>. QED BY <1>5, <2>1, <2>2
<1>10. Plain(l, q)
  BY <1>2, <1>6, <1>7 DEF Plain
<1>11. Draft(l, q)
  BY <1>8, <1>9, <1>10 DEF Draft
<1>. QED BY <1>11 DEF q

(* What needs nothing of its first event is a draft. *)
LEMMA LooseDraft ==
  ASSUME NEW l, NEW t, Loose(l, t)
  PROVE  Draft(l, t)
<1>1. IsSeq(t) /\ Len(t) \in Nat /\ (t # <<>> => 1 \in 1 .. Len(t))
  BY SeqFacts DEF Loose
<1>2. Plain(l, t)
  BY <1>1 DEF Loose, Plain
<1>. QED BY <1>1, <1>2 DEF Loose, Draft

(* What followed a step needs nothing of it. *)
LEMMA LooseBehindStep ==
  ASSUME NEW l, NEW q, Plan(l, q), q # <<>>, q[1].type = "step"
  PROVE  Loose(l, Tail(q))
<1> DEFINE t == Tail(q)
<1>1. IsSeq(q) /\ Len(q) \in Nat /\ Len(q) >= 1
  BY SeqFacts DEF Plan, Plain
<1>2. IsSeq(t) /\ Len(t) = Len(q) - 1 /\ \A n \in 1 .. Len(q) - 1 : t[n] = q[n + 1]
  BY <1>1, HeadAndTail
<1> HIDE DEF t
<1>3. ASSUME NEW n \in 1 .. Len(t)
      PROVE  /\ n + 1 \in 2 .. Len(q) /\ n + 1 \in 1 .. Len(q) /\ t[n] = q[n + 1] /\ n \in Nat
             /\ Event(t[n]) /\ t[n].type \notin {"claim", F, "indicator"}
  <2>1. n + 1 \in 2 .. Len(q) /\ n + 1 \in 1 .. Len(q) /\ t[n] = q[n + 1] /\ n \in Nat /\ n + 1 # 1
    BY <1>1, <1>2
  <2>. QED BY <2>1 DEF Plan, Plain
<1>4. ASSUME NEW n \in 1 .. Len(t), t[n].type = "step" PROVE Waits(l, t[n])
  <2>1. Waits(l, q[n + 1]) \/ AfterFiring(q, n + 1)
    BY <1>3, <1>4 DEF Plan
  <2>. QED BY <1>3, <2>1 DEF AfterFiring
<1>5. ASSUME NEW n \in 1 .. Len(t), NEW i \in ToSet(Indicators), t[n] = Fired(i)
      PROVE  CarriedOut(l, i) \/ AfterReview(t, n, i)
  <2>1. CarriedOut(l, i) \/ AfterMove(q, n + 1, i) \/ AfterReview(q, n + 1, i)
    BY <1>3, <1>5 DEF Plan, Plain
  <2>2. ~AfterMove(q, n + 1, i)
    BY DEF AfterMove, F
  <2>3. ASSUME AfterReview(q, n + 1, i) PROVE AfterReview(t, n, i)
    <3>1. PICK k \in 1 .. (n + 1) - 1 : i \notin Apply /\ Opens(q[k], i)
      BY <2>3 DEF AfterReview
    <3>2. k # 1
      BY <3>1 DEF Opens
    <3>3. k - 1 \in 1 .. n - 1 /\ k - 1 \in 1 .. Len(q) - 1 /\ (k - 1) + 1 = k
      BY <1>1, <1>2, <3>1, <3>2
    <3>4. t[k - 1] = q[k]
      BY <1>2, <3>3
    <3>. QED BY <3>1, <3>3, <3>4 DEF AfterReview
  <2>. QED BY <2>1, <2>2, <2>3
<1>. QED BY <1>2, <1>3, <1>4, <1>5 DEF Loose, t

(* When the first event is in the log, what depended on it has it. *)
LEMMA LooseBehindEvent ==
  ASSUME NEW l, IsSeq(l), NEW q, Plan(l, q), q # <<>>
  PROVE  Loose(Append(l, q[1]), Tail(q))
<1> DEFINE t == Tail(q)
           m == Append(l, q[1])
<1>1. IsSeq(q) /\ Len(q) \in Nat /\ Len(q) >= 1 /\ Len(l) \in Nat /\ Event(q[1])
  BY SeqFacts DEF Plan, Plain
<1>2. IsSeq(t) /\ Len(t) = Len(q) - 1 /\ \A n \in 1 .. Len(q) - 1 : t[n] = q[n + 1]
  BY <1>1, HeadAndTail
<1>3. /\ IsSeq(m) /\ Extends(m, l) /\ Len(m) = Len(l) + 1 /\ m[Len(l) + 1] = q[1]
      /\ Len(l) + 1 \in 1 .. Len(m)
  BY <1>1, Appended, AppendExtends
<1> HIDE DEF t, m
<1>4. Len(l) + 1 \in Versions(m, q[1].type, q[1].id)
  BY <1>3, VersionsFacts
<1>5. ASSUME NEW n \in 1 .. Len(t)
      PROVE  /\ n + 1 \in 2 .. Len(q) /\ n + 1 \in 1 .. Len(q) /\ t[n] = q[n + 1] /\ n \in Nat
             /\ Event(t[n]) /\ t[n].type \notin {"claim", F, "indicator"}
  <2>1. n + 1 \in 2 .. Len(q) /\ n + 1 \in 1 .. Len(q) /\ t[n] = q[n + 1] /\ n \in Nat /\ n + 1 # 1
    BY <1>1, <1>2
  <2>. QED BY <2>1 DEF Plan, Plain
<1>6. ASSUME NEW n \in 1 .. Len(t), t[n].type = "step" PROVE Waits(m, t[n])
  <2>1. Waits(l, q[n + 1]) \/ AfterFiring(q, n + 1)
    BY <1>5, <1>6 DEF Plan
  <2>2. CASE Waits(l, q[n + 1])
    BY <1>3, <1>5, <2>2, StillWaits
  <2>3. CASE AfterFiring(q, n + 1)
    <3>1. /\ t[n].what = "effects" /\ t[n].id \in ToSet(Indicators)
          /\ q[1].type = "indicator" /\ q[1].id = t[n].id /\ q[1].status = "FIRED"
      BY <1>5, <2>3 DEF AfterFiring
    <3>2. HasFired(m, t[n].id)
      BY <1>3, <1>4, <3>1 DEF HasFired
    <3>. QED BY <3>1, <3>2 DEF Waits
  <2>. QED BY <2>1, <2>2, <2>3
<1>7. ASSUME NEW n \in 1 .. Len(t), NEW i \in ToSet(Indicators), t[n] = Fired(i)
      PROVE  CarriedOut(m, i) \/ AfterReview(t, n, i)
  <2>1. CarriedOut(l, i) \/ AfterMove(q, n + 1, i) \/ AfterReview(q, n + 1, i)
    BY <1>5, <1>7 DEF Plan, Plain
  <2>2. CASE CarriedOut(l, i)
    BY <1>3, <2>2, StillCarriedOut
  <2>3. CASE AfterMove(q, n + 1, i)
    <3>1. i \in Apply /\ q[1].type = F /\ q[1].p = Target
      BY <2>3 DEF AfterMove
    <3>2. q[1].id = F
      BY <1>1, <3>1 DEF Event, ForecastRecord
    <3>. QED BY <1>3, <1>4, <3>1, <3>2 DEF CarriedOut
  <2>4. CASE AfterReview(q, n + 1, i)
    <3>1. PICK k \in 1 .. (n + 1) - 1 : i \notin Apply /\ Opens(q[k], i)
      BY <2>4 DEF AfterReview
    <3>2. CASE k = 1
      <4>1. q[1].type = "item" /\ q[1].id = Review(i)
        BY <3>1, <3>2 DEF Opens
      <4>. QED BY <1>4, <3>1, <4>1 DEF CarriedOut, Known
    <3>3. CASE k # 1
      <4>1. k - 1 \in 1 .. n - 1 /\ k - 1 \in 1 .. Len(q) - 1 /\ (k - 1) + 1 = k
        BY <1>1, <1>2, <3>1, <3>3
      <4>2. t[k - 1] = q[k]
        BY <1>2, <4>1
      <4>. QED BY <3>1, <4>1, <4>2 DEF AfterReview
    <3>. QED BY <3>2, <3>3
  <2>. QED BY <2>1, <2>2, <2>3, <2>4
<1>. QED BY <1>2, <1>5, <1>6, <1>7 DEF Loose, t, m

-----------------------------------------------------------------------------
(***************************************************************************)
(* Drafts are put together from their events.                              *)
(***************************************************************************)
(* Pairs and triples as joined sequences. *)
LEMMA Pair ==
  ASSUME NEW a, NEW b
  PROVE  /\ IsSeq(<<a, b>>) /\ Len(<<a, b>>) = 2 /\ <<a, b>>[1] = a /\ <<a, b>>[2] = b
         /\ \A n \in 1 .. Len(<<a, b>>) : n = 1 \/ n = 2
<1>1. <<a, b>> \in Seq({a, b}) /\ Len(<<a, b>>) = 2 /\ <<a, b>>[1] = a /\ <<a, b>>[2] = b
  OBVIOUS
<1>2. \A k : k = 2 => \A n \in 1 .. k : n = 1 \/ n = 2
  OBVIOUS
<1>3. IsSeq(<<a, b>>)
  BY <1>1, AnySeq
<1>. QED BY <1>1, <1>2, <1>3

LEMMA TripleOf ==
  ASSUME NEW a, NEW b, NEW c
  PROVE  <<a, b>> \o <<c>> = <<a, b, c>>
<1>1. /\ <<a, b, c>> \in Seq({a, b, c}) /\ Len(<<a, b, c>>) = 3
      /\ <<a, b, c>>[1] = a /\ <<a, b, c>>[2] = b /\ <<a, b, c>>[3] = c
  OBVIOUS
<1>2. ASSUME NEW p, IsSeq(p), Len(p) = 2, p[1] = a, p[2] = b
      PROVE  p \o <<c>> = <<a, b, c>>
  <2>1. /\ IsSeq(p \o <<c>>) /\ Len(p \o <<c>>) = Len(p) + 1
        /\ \A n \in 1 .. Len(p) : (p \o <<c>>)[n] = p[n]
        /\ (p \o <<c>>)[Len(p) + 1] = c
    BY <1>2, JoinedOne
  <2>2. IsSeq(<<a, b, c>>)
    BY <1>1, AnySeq
  <2> DEFINE q == p \o <<c>>
             r == <<a, b, c>>
  <2>3. IsSeq(q) /\ Len(q) = 3 /\ q[1] = a /\ q[2] = b /\ q[3] = c
    BY <1>2, <2>1
  <2>4. IsSeq(r) /\ Len(r) = 3 /\ r[1] = a /\ r[2] = b /\ r[3] = c
    BY <1>1, <2>2
  <2> HIDE DEF q, r
  <2>5. \A n \in 1 .. Len(q) : q[n] = r[n]
    BY <2>3, <2>4
  <2>6. q = r
    BY <2>3, <2>4, <2>5, SameSeq
  <2>. QED BY <2>6 DEF q, r
<1>. QED BY <1>2, Pair

LEMMA PairOf ==
  ASSUME NEW a, NEW b
  PROVE  <<a, b>> = <<a>> \o <<b>>
<1>1. /\ IsSeq(<<a>>) /\ Len(<<a>>) = 1 /\ <<a>>[1] = a
      /\ IsSeq(<<b>>) /\ Len(<<b>>) = 1 /\ <<b>>[1] = b
  BY Single
<1>2. IsSeq(<<a, b>>) /\ Len(<<a, b>>) = 2 /\ <<a, b>>[1] = a /\ <<a, b>>[2] = b
  BY Pair
<1> DEFINE q == <<a>> \o <<b>>
           p == <<a, b>>
<1>4. IsSeq(q) /\ Len(q) = 2 /\ q[1] = a /\ q[2] = b
  BY <1>1, Prepended
<1>5. IsSeq(p) /\ Len(p) = 2 /\ p[1] = a /\ p[2] = b
  BY <1>2
<1> HIDE DEF p, q
<1>6. \A n \in 1 .. Len(p) : p[n] = q[n]
  BY <1>4, <1>5
<1>7. p = q
  BY <1>4, <1>5, <1>6, SameSeq
<1>. QED BY <1>7 DEF p, q

(* Events that need nothing of what stands first. *)
LEMMA LooseNone ==
  ASSUME NEW l
  PROVE  Loose(l, <<>>)
<1>1. IsSeq(<<>>) /\ Len(<<>>) = 0
  BY EmptySeq, AnySeq
<1>. QED BY <1>1 DEF Loose

LEMMA LooseEvent ==
  ASSUME NEW l, NEW e, Event(e), e.type \notin {"claim", F, "indicator"},
         e.type = "step" => Waits(l, e),
         \A i \in ToSet(Indicators) : e = Fired(i) => CarriedOut(l, i)
  PROVE  Loose(l, <<e>>)
<1>1. SUFFICES ASSUME NEW q, q = <<e>> PROVE Loose(l, q)
  OBVIOUS
<1>2. IsSeq(q) /\ Len(q) = 1 /\ q[1] = e
  BY <1>1, Single
<1>3. \A n \in 1 .. Len(q) : q[n] = e
  BY <1>2
<1>. QED BY <1>2, <1>3 DEF Loose

LEMMA LooseJoined ==
  ASSUME NEW l, NEW r, Loose(l, r), NEW t, Loose(l, t)
  PROVE  Loose(l, r \o t)
<1> DEFINE q == r \o t
<1>1. IsSeq(r) /\ IsSeq(t) /\ Len(r) \in Nat /\ Len(t) \in Nat
  BY SeqFacts DEF Loose
<1>2. /\ IsSeq(q) /\ Len(q) = Len(r) + Len(t)
      /\ \A n \in 1 .. Len(r) : q[n] = r[n]
      /\ \A n \in 1 .. Len(t) : q[Len(r) + n] = t[n]
  BY <1>1, Joined
<1> HIDE DEF q
<1>3. ASSUME NEW n \in 1 .. Len(q) PROVE n \in 1 .. Len(r) \/ \E m \in 1 .. Len(t) : n = Len(r) + m
  <2>1. n \in 1 .. Len(r) \/ (n - Len(r) \in 1 .. Len(t) /\ n = Len(r) + (n - Len(r)))
    BY <1>1, <1>2
  <2>. QED BY <2>1
<1>4. ASSUME NEW n \in 1 .. Len(q)
      PROVE  /\ Event(q[n]) /\ q[n].type \notin {"claim", F, "indicator"}
             /\ q[n].type = "step" => Waits(l, q[n])
  <2>1. CASE n \in 1 .. Len(r)
    BY <1>2, <2>1 DEF Loose
  <2>2. ASSUME NEW m \in 1 .. Len(t), n = Len(r) + m
        PROVE  /\ Event(q[n]) /\ q[n].type \notin {"claim", F, "indicator"}
               /\ q[n].type = "step" => Waits(l, q[n])
    BY <1>2, <2>2 DEF Loose
  <2>. QED BY <1>3, <2>1, <2>2
<1>5. ASSUME NEW n \in 1 .. Len(q), NEW i \in ToSet(Indicators), q[n] = Fired(i)
      PROVE  CarriedOut(l, i) \/ AfterReview(q, n, i)
  <2>1. CASE n \in 1 .. Len(r)
    <3>1. CarriedOut(l, i) \/ AfterReview(r, n, i)
      BY <1>2, <1>5, <2>1 DEF Loose
    <3>2. \A k \in 1 .. n - 1 : q[k] = r[k]
      BY <1>1, <1>2, <2>1
    <3>. QED BY <3>1, <3>2 DEF AfterReview
  <2>2. ASSUME NEW m \in 1 .. Len(t), n = Len(r) + m
        PROVE  CarriedOut(l, i) \/ AfterReview(q, n, i)
    <3>1. CarriedOut(l, i) \/ AfterReview(t, m, i)
      BY <1>2, <1>5, <2>2 DEF Loose
    <3>2. ASSUME AfterReview(t, m, i) PROVE AfterReview(q, n, i)
      <4>1. PICK k \in 1 .. m - 1 : i \notin Apply /\ Opens(t[k], i)
        BY <3>2 DEF AfterReview
      <4>2. k \in 1 .. Len(t) /\ Len(r) + k \in 1 .. n - 1
        BY <1>1, <2>2, <4>1
      <4>3. Opens(q[Len(r) + k], i)
        BY <1>2, <4>1, <4>2
      <4>. QED BY <4>1, <4>2, <4>3 DEF AfterReview
    <3>. QED BY <3>1, <3>2
  <2>. QED BY <1>3, <2>1, <2>2
<1>. QED BY <1>2, <1>4, <1>5 DEF Loose, q

LEMMA LooseItem ==
  ASSUME NEW l, NEW id, NEW status
  PROVE  Loose(l, <<Item(id, status)>>)
<1> DEFINE e == Item(id, status)
<1>1. e \in [type : {"item"}, id : {e.id}, status : {e.status}, version : Nat] /\ "type" \in DOMAIN e /\ e.type = "item"
  BY DEF Item
<1>2. Event(e) /\ \A i : e # Fired(i)
  BY <1>1 DEF Event, F, Fired, Transition
<1>. QED BY <1>1, <1>2, LooseEvent DEF F

LEMMA LooseEnsure ==
  ASSUME NEW l, NEW id, NEW what \in {"CREATED", "ARMED"}, NEW cause
  PROVE  Loose(l, <<Ensure(id, what, cause)>>)
<1> DEFINE e == Ensure(id, what, cause)
<1>1. "type" \in DOMAIN e /\ e.type = "ensure" /\ e = Ensure(e.id, e.what, e.cause) /\ e.what = what
  BY DEF Ensure
<1>2. Event(e) /\ \A i : e # Fired(i)
  BY <1>1 DEF Event, F, Fired, Transition
<1>. QED BY <1>1, <1>2, LooseEvent DEF F

LEMMA LooseTransition ==
  ASSUME NEW l, NEW id, NEW what, NEW cause,
         \A i \in ToSet(Indicators) : Transition(id, what, cause) = Fired(i) => CarriedOut(l, i)
  PROVE  Loose(l, <<Transition(id, what, cause)>>)
<1> DEFINE e == Transition(id, what, cause)
<1>1. "type" \in DOMAIN e /\ e.type = "transition" /\ e = Transition(e.id, e.what, e.cause)
  BY DEF Transition
<1>2. Event(e)
  BY <1>1 DEF Event, F
<1>. QED BY <1>1, <1>2, LooseEvent DEF F

LEMMA LooseStep ==
  ASSUME NEW l, NEW what \in StepNames, NEW id, Waits(l, Step(what, id))
  PROVE  Loose(l, <<Step(what, id)>>)
<1> DEFINE e == Step(what, id)
<1>1. "type" \in DOMAIN e /\ e.type = "step" /\ e = Step(e.what, e.id) /\ e.what = what
  BY DEF Step
<1>2. Event(e) /\ \A i : e # Fired(i)
  BY <1>1 DEF Event, F, Fired, Transition
<1>. QED BY <1>1, <1>2, LooseEvent DEF F

LEMMA LooseClose ==
  ASSUME NEW l, NEW ids, IsSeq(ids)
  PROVE  Loose(l, CloseItems(ids))
<1> DEFINE q == CloseItems(ids)
           S == {Item(ids[n], "RESOLVED") : n \in 1 .. Len(ids)}
<1>1. Len(ids) \in Nat /\ DOMAIN ids = 1 .. Len(ids)
  BY SeqFacts
<1>2. q \in [1 .. Len(ids) -> S] /\ \A n \in 1 .. Len(ids) : q[n] = Item(ids[n], "RESOLVED")
  BY <1>1 DEF CloseItems
<1> HIDE DEF q, S
<1>3. q \in Seq(S)
  BY <1>1, <1>2
<1>4. Len(q) = Len(ids)
  BY <1>1, <1>2, <1>3, LenProperties
<1>5. ASSUME NEW n \in 1 .. Len(q)
      PROVE  /\ Event(q[n]) /\ q[n].type \notin {"claim", F, "indicator", "step"}
             /\ \A i : q[n] # Fired(i)
  <2>1. q[n] = Item(ids[n], "RESOLVED")
    BY <1>2, <1>4
  <2>2. /\ q[n] \in [type : {"item"}, id : {q[n].id}, status : {q[n].status}, version : Nat]
        /\ "type" \in DOMAIN q[n] /\ q[n].type = "item"
    BY <2>1 DEF Item
  <2>. QED BY <2>2 DEF Event, F, Fired, Transition
<1>6. IsSeq(q)
  BY <1>3, AnySeq
<1>. QED BY <1>5, <1>6 DEF Loose, q

(* A version or an indicator record stands first. *)
LEMMA DraftOne ==
  ASSUME NEW l, NEW e, Event(e), e.type \in {F, "indicator"}, e.type = F => Fresh(l, e)
  PROVE  Draft(l, <<e>>)
<1>1. SUFFICES ASSUME NEW q, q = <<e>> PROVE Draft(l, q)
  OBVIOUS
<1>2. IsSeq(q) /\ Len(q) = 1 /\ q[1] = e
  BY <1>1, Single
<1>3. \A n \in 1 .. Len(q) : n = 1 /\ q[n] = e
  BY <1>2
<1>4. e.type \notin {"claim", "step"} /\ \A i : e # Fired(i)
  BY DEF F, Fired, Transition
<1>. QED BY <1>2, <1>3, <1>4 DEF Draft, Plain

(* What depends on the first event is put behind it. *)
LEMMA DraftThen ==
  ASSUME NEW l, NEW r, Draft(l, r), r # <<>>, NEW e, Event(e), e.type \notin {"claim", F, "indicator"},
         e.type = "step" => /\ e.what = "effects" /\ e.id \in ToSet(Indicators)
                            /\ r[1].type = "indicator" /\ r[1].id = e.id /\ r[1].status = "FIRED",
         \A i \in ToSet(Indicators) : e = Fired(i) => i \in Apply /\ r[1].type = F /\ r[1].p = Target
  PROVE  Draft(l, r \o <<e>>)
<1>0. IsSeq(r)
  BY DEF Draft, Plain
<1>1. Len(r) \in Nat /\ Len(r) >= 1
  BY <1>0, SeqFacts
<1>2. /\ IsSeq(r \o <<e>>) /\ Len(r \o <<e>>) = Len(r) + 1
      /\ \A n \in 1 .. Len(r) : (r \o <<e>>)[n] = r[n]
      /\ (r \o <<e>>)[Len(r) + 1] = e
  BY <1>0, JoinedOne
<1> DEFINE s == r \o <<e>>
<1> HIDE DEF s
<1> SUFFICES Draft(l, s)
  BY DEF s
<1>3. s[Len(r) + 1] = e /\ 1 \in 1 .. Len(r) /\ s[1] = r[1] /\ Len(s) = Len(r) + 1
  BY <1>1, <1>2 DEF s
<1>a. IsSeq(s) /\ \A n \in 1 .. Len(r) : s[n] = r[n]
  BY <1>2 DEF s
<1>4. ASSUME NEW n \in 1 .. Len(s) PROVE n \in 1 .. Len(r) \/ (n = Len(r) + 1 /\ n > 1 /\ s[n] = e)
  BY <1>1, <1>3
<1>5. ASSUME NEW n \in 1 .. Len(s)
      PROVE  Event(s[n]) /\ s[n].type # "claim" /\ (s[n].type \in {F, "indicator"} => n = 1)
  BY <1>a, <1>4 DEF Draft, Plain
<1>6. ASSUME NEW n \in 1 .. Len(s), NEW i \in ToSet(Indicators), s[n] = Fired(i)
      PROVE  CarriedOut(l, i) \/ AfterMove(s, n, i) \/ AfterReview(s, n, i)
  <2>1. CASE n \in 1 .. Len(r)
    <3>1. CarriedOut(l, i) \/ AfterMove(r, n, i) \/ AfterReview(r, n, i)
      BY <1>a, <1>6, <2>1 DEF Draft, Plain
    <3>2. \A k \in 1 .. n - 1 : s[k] = r[k]
      BY <1>1, <1>a, <2>1
    <3>. QED BY <1>3, <3>1, <3>2 DEF AfterMove, AfterReview
  <2>2. CASE n > 1 /\ s[n] = e
    BY <1>3, <1>6, <2>2 DEF AfterMove
  <2>. QED BY <1>4, <2>1, <2>2
<1>7. ASSUME NEW n \in 1 .. Len(s), s[n].type = "step"
      PROVE  Waits(l, s[n]) \/ AfterFiring(s, n) \/ AfterMark(l, s, n)
  <2>1. CASE n \in 1 .. Len(r)
    <3>1. s[n] = r[n] /\ (Waits(l, r[n]) \/ AfterFiring(r, n) \/ AfterMark(l, r, n))
      BY <1>a, <1>7, <2>1 DEF Draft
    <3>. QED BY <1>3, <3>1 DEF AfterFiring, AfterMark
  <2>2. CASE n > 1 /\ s[n] = e
    BY <1>3, <1>7, <2>2 DEF AfterFiring
  <2>. QED BY <1>4, <2>1, <2>2
<1>8. s[1].type = F => Fresh(l, s[1])
  BY <1>3 DEF Draft
<1>9. Plain(l, s)
  BY <1>a, <1>5, <1>6 DEF Plain
<1>. QED BY <1>7, <1>8, <1>9 DEF Draft

(* What stands live is a version, and not a first draft of one. *)
LEMMA NowRecord ==
  ASSUME NEW l, Lawful(l), Live(l)
  PROVE  /\ Exists(l) /\ ForecastRecord(Now(l)) /\ Now(l).type = F
         /\ Now(l).version # 0 /\ Now(l).status \in Statuses \ Terminal
         /\ \E i \in Versions(l, F, F) : Now(l) = l[i]
<1>1. IsSeq(l) /\ Exists(l) /\ Now(l).status \notin Terminal
  BY DEF Lawful, Live
<1>2. PICK i \in Versions(l, F, F) : Now(l) = l[i] /\ ForecastRecord(l[i]) /\ l[i].type = F
  BY <1>1, NowFacts
<1>3. l[i].version = NextF(Prefix(l, i - 1)) /\ i \in 1 .. Len(l) /\ Len(l) \in Nat
  BY LawfulVersion
<1>4. IsSeq(Prefix(l, i - 1))
  BY <1>1, <1>3, PrefixFacts
<1>5. Cardinality(Versions(Prefix(l, i - 1), F, F)) \in Nat
  BY <1>4, VersionsFacts
<1>6. l[i].version # 0
  BY <1>3, <1>5 DEF NextF, NextOf
<1>7. l[i].status \in Statuses
  BY <1>2 DEF ForecastRecord
<1>. QED BY <1>1, <1>2, <1>6, <1>7

(* A forecast record is an event. *)
LEMMA ForecastEvent ==
  ASSUME NEW e, ForecastRecord(e)
  PROVE  Event(e) /\ e.type = F
<1>1. e.type = F /\ "type" \in DOMAIN e
  BY DEF ForecastRecord
<1>. QED BY <1>1 DEF Event, F

(* A revision of what stands live. *)
LEMMA DraftRevision ==
  ASSUME NEW l, Lawful(l), Live(l), NEW e, ForecastRecord(e), e.version = Now(l).version,
         e.status = "RESOLVED_FALSE" /\ e.why = "machine" => Looked(l),
         e.p # Now(l).p => e.why = "human" \/ ByCandidate(l, e) \/ ByFiring(l, e)
  PROVE  Draft(l, <<e>>)
<1>1. Now(l).version # 0
  BY NowRecord
<1>2. Fresh(l, e)
  BY <1>1 DEF Fresh, Justified
<1>. QED BY <1>2, ForecastEvent, DraftOne

(* A settlement, by a person or by a rule that may. *)
LEMMA DraftSettled ==
  ASSUME NEW l, Lawful(l), Live(l), NEW status \in Terminal, NEW why,
         status = "RESOLVED_FALSE" /\ why = "machine" => Looked(l)
  PROVE  Draft(l, Settled(l, status, why))
<1> DEFINE e == [Now(l) EXCEPT !.status = status, !.why = why]
           t == Transition(F, status, <<why>>)
<1>1. ForecastRecord(Now(l))
  BY NowRecord
<1>2. ForecastRecord(e) /\ e.version = Now(l).version /\ e.status = status /\ e.why = why /\ e.p = Now(l).p
  BY <1>1 DEF ForecastRecord, Statuses
<1> HIDE DEF e
<1>3. Draft(l, <<e>>)
  BY <1>2, DraftRevision
<1>4. \A i : t # Fired(i)
  BY DEF Terminal, Fired, Transition
<1>5. Loose(l, <<t>>)
  BY <1>4, LooseTransition
<1>6. Loose(l, CloseItems(<<Coverage, LateMatch>>))
  <2>1. <<Coverage, LateMatch>> \in Seq({Coverage, LateMatch})
    OBVIOUS
  <2>. QED BY <2>1, AnySeq, LooseClose
<1> HIDE DEF t
<1>7. Draft(l, <<e, t>>)
  BY <1>3, <1>5, DraftJoined, PairOf
<1>8. Draft(l, <<e, t>> \o CloseItems(<<Coverage, LateMatch>>))
  BY <1>6, <1>7, DraftJoined
<1>. QED BY <1>8 DEF Settled, e, t

-----------------------------------------------------------------------------
(***************************************************************************)
(* What each step comes to is a draft.                                     *)
(***************************************************************************)
(* The rule that the forecast was made with. *)
LEMMA TryDraft ==
  ASSUME NEW l, Lawful(l)
  PROVE  Draft(l, TryMachineResolution(l))
<1>1. Draft(l, <<>>) /\ Draft(l, <<Item(Coverage, "OPEN")>>) /\ Draft(l, <<Item(LateMatch, "OPEN")>>)
  BY LooseNone, LooseItem, LooseDraft
<1>2. ASSUME Live(l) PROVE Draft(l, Settled(l, "RESOLVED_TRUE", "machine"))
  BY <1>2, DraftSettled DEF Terminal
<1>3. ASSUME Live(l), Looked(l) PROVE Draft(l, Settled(l, "RESOLVED_FALSE", "machine"))
  BY <1>3, DraftSettled DEF Terminal
<1>4. ASSUME Live(l), Late(l) PROVE Draft(l, FalseByAbsenceOrWait(l))
  <2>1. Covered(l) => Looked(l)
    BY <1>4 DEF Looked
  <2>. QED BY <1>1, <1>3, <1>4, <2>1 DEF FalseByAbsenceOrWait
<1>5. ASSUME ClaimIs(l, "other", TRUE) PROVE Looked(l)
  <2>1. /\ Known(l, "claim", "claim") /\ Current(l, "claim", "claim").value = "other"
        /\ Current(l, "claim", "claim").after = TRUE
    BY <1>5 DEF ClaimIs
  <2>2. IsSeq(l)
    BY DEF Lawful
  <2>3. PICK i \in Versions(l, "claim", "claim") : Current(l, "claim", "claim") = l[i]
    BY <2>1, <2>2, CurrentFacts
  <2>4. i \in 1 .. Len(l) /\ DOMAIN l = 1 .. Len(l) /\ Len(l) \in Nat /\ l[i].type = "claim"
    BY <2>2, SeqFacts, VersionsFacts
  <2>5. l[i] \in Evidence(l, "claim")
    BY <2>4 DEF Evidence
  <2>6. Late(Prefix(l, i))
    BY <2>1, <2>3, <2>4 DEF Lawful
  <2>7. Versions(Prefix(l, i), "horizon", F) \subseteq Versions(l, "horizon", F)
    BY <2>2, <2>4, PrefixVersions
  <2>8. Late(l)
    BY <2>6, <2>7 DEF Late, Known
  <2>. QED BY <2>1, <2>3, <2>5, <2>8 DEF Looked
<1>6. ASSUME Live(l) PROVE Draft(l, ResolveByClaim(l))
  BY <1>1, <1>2, <1>3, <1>4, <1>5, <1>6 DEF ResolveByClaim
<1>7. ASSUME Live(l) PROVE Draft(l, ResolveByEvent(l))
  BY <1>1, <1>2, <1>4, <1>7 DEF ResolveByEvent
<1>. QED BY <1>1, <1>6, <1>7 DEF TryMachineResolution

(* More evidence for what stood when the creation was repeated. *)
LEMMA FoldEvidenceDraft ==
  ASSUME NEW l, Lawful(l), NEW was, NEW sup, NEW con,
         BeforeMark(l, was) \/ (Live(l) /\ was = Now(l))
  PROVE  Draft(l, FoldEvidence(l, was, sup, con))
<1> DEFINE b == Widened(l, was.basis, sup, con)
           e == [was EXCEPT !.basis = b, !.why = "fold"]
           t == Transition(F, "EVIDENCE_UPDATED", <<"fold", sup \ was.basis.sup, con \ was.basis.con>>)
<1>1. FoldEvidence(l, was, sup, con) = <<e, t>>
  BY DEF FoldEvidence
<1> HIDE DEF b
<1>2. \A i : t # Fired(i)
  BY DEF Fired, Transition
<1>3. Loose(l, <<t>>)
  BY <1>2, LooseTransition
<1>4. ForecastRecord(was) /\ was.version # 0
  <2>1. CASE BeforeMark(l, was)
    <3>1. PICK i \in Versions(l, F, F) : l[i] = was
      BY <2>1 DEF BeforeMark
    <3>2. ForecastRecord(was) /\ was.version = NextF(Prefix(l, i - 1)) /\ i \in 1 .. Len(l) /\ Len(l) \in Nat /\ IsSeq(l)
      BY <3>1, LawfulVersion
    <3>3. IsSeq(Prefix(l, i - 1))
      BY <3>2, PrefixFacts
    <3>4. Cardinality(Versions(Prefix(l, i - 1), F, F)) \in Nat
      BY <3>3, VersionsFacts
    <3>. QED BY <3>2, <3>4 DEF NextF, NextOf
  <2>2. CASE Live(l) /\ was = Now(l)
    BY <2>2, NowRecord
  <2>. QED BY <2>1, <2>2
<1>5. /\ ForecastRecord(e) /\ e.version = was.version /\ e.p = was.p /\ e.why = "fold"
      /\ e.basis = b /\ e.status = was.status
  BY <1>4 DEF ForecastRecord
<1>6. Repeats(e, was)
  BY <1>4, <1>5 DEF Repeats, ForecastRecord
<1> HIDE DEF e, t
<1>7. Draft(l, <<e>>)
  <2>1. CASE BeforeMark(l, was)
    <3>1. PICK i \in Versions(l, F, F) : l[i] = was
      BY <2>1 DEF BeforeMark
    <3>2. Justified(l, e)
      BY <1>6, <2>1, <3>1 DEF Justified
    <3>3. Fresh(l, e)
      BY <1>4, <1>5, <3>2 DEF Fresh
    <3>. QED BY <1>5, <3>3, ForecastEvent, DraftOne
  <2>2. CASE Live(l) /\ was = Now(l)
    BY <1>5, <2>2, DraftRevision
  <2>. QED BY <2>1, <2>2
<1>8. Draft(l, <<e, t>>)
  BY <1>3, <1>7, DraftJoined, PairOf
<1>. QED BY <1>1, <1>8

(* An indicator is linked to the forecast. *)
LEMMA FoldInDraft ==
  ASSUME NEW l, Lawful(l), NEW i \in ToSet(Indicators)
  PROVE  Draft(l, FoldIn(l, i))
<1>1. Draft(l, <<>>)
  BY LooseNone, LooseDraft
<1>2. ASSUME Live(l) PROVE Draft(l, <<[Now(l) EXCEPT !.indicators = @ \cup {i}, !.why = "indicator"]>>)
  <2> DEFINE e == [Now(l) EXCEPT !.indicators = @ \cup {i}, !.why = "indicator"]
  <2>1. ForecastRecord(Now(l))
    BY <1>2, NowRecord
  <2>2. ForecastRecord(e) /\ e.version = Now(l).version /\ e.p = Now(l).p /\ e.why = "indicator"
    BY <2>1 DEF ForecastRecord
  <2> HIDE DEF e
  <2>3. Draft(l, <<e>>)
    BY <1>2, <2>2, DraftRevision
  <2>. QED BY <2>3 DEF e
<1>. QED BY <1>1, <1>2 DEF FoldIn

(* A move of the number by who may. *)
MayMove(l, p, why) == \A e : e.why = why /\ e.p = p => why = "human" \/ ByCandidate(l, e) \/ ByFiring(l, e)
MoveDraft(l, q, p) == Draft(l, q) /\ q # <<>> /\ q[1].type = F /\ q[1].p = p

LEMMA MovedDraft ==
  ASSUME NEW l, Lawful(l), Live(l), NEW p \in Odds, NEW proposal \in {"", "candidate"}, NEW why,
         NEW status \in Statuses \ Terminal, MayMove(l, p, why)
  PROVE  MoveDraft(l, Moved(l, p, proposal, why, status), p)
<1> DEFINE e == [Now(l) EXCEPT !.p = p, !.proposal = proposal, !.why = why, !.status = status]
           t == Transition(F, "PROBABILITY_UPDATED", <<"version", NextVersion(l, e)>>)
<1>1. Moved(l, p, proposal, why, status) = <<e, t>>
  BY DEF Moved
<1>2. ForecastRecord(Now(l))
  BY NowRecord
<1>3. ForecastRecord(e) /\ e.version = Now(l).version /\ e.p = p /\ e.why = why /\ e.status = status /\ e.type = F
  BY <1>2 DEF ForecastRecord
<1>4. \A i : t # Fired(i)
  BY DEF Fired, Transition
<1>5. Loose(l, <<t>>)
  BY <1>4, LooseTransition
<1> HIDE DEF e, t
<1>6. Draft(l, <<e>>)
  <2>1. e.status # "RESOLVED_FALSE"
    BY <1>3 DEF Terminal
  <2>2. why = "human" \/ ByCandidate(l, e) \/ ByFiring(l, e)
    BY <1>3 DEF MayMove
  <2>. QED BY <1>3, <2>1, <2>2, DraftRevision
<1>7. Draft(l, <<e, t>>)
  BY <1>5, <1>6, DraftJoined, PairOf
<1>8. <<e, t>> # <<>> /\ <<e, t>>[1] = e
  OBVIOUS
<1> DEFINE q == <<e, t>>
<1> HIDE DEF q
<1>9. Draft(l, q) /\ q # <<>> /\ q[1] = e /\ Moved(l, p, proposal, why, status) = q
  BY <1>1, <1>7, <1>8 DEF q
<1>. QED BY <1>3, <1>9 DEF MoveDraft

(* The effects of a firing, and its mark behind them. *)
LEMMA EffectsDraft ==
  ASSUME NEW l, Lawful(l), NEW i \in ToSet(Indicators), HasFired(l, i)
  PROVE  Draft(l, ApplyEffects(l, i))
<1>1. Draft(l, <<>>)
  BY LooseNone, LooseDraft
<1>2. IsSeq(l)
  BY DEF Lawful
<1>3. Event(Fired(i)) /\ Fired(i).type = "transition"
  BY DEF Fired, Transition, Event, F
<1>4. ASSUME NEW k, Fired(i) = Fired(k) PROVE i = k
  BY <1>4 DEF Fired, Transition
<1>5. ASSUME Live(l), i \in Apply, Executed(l, i) \/ Now(l).p = Target
      PROVE  Draft(l, <<>> \o <<Fired(i)>>)
  <2>1. CarriedOut(l, i)
    BY <1>5, NowRecord DEF Executed, CarriedOut
  <2>2. Loose(l, <<Fired(i)>>)
    BY <1>3, <1>4, <2>1, LooseEvent DEF F
  <2>. QED BY <1>1, <2>2, DraftJoined
<1>6. ASSUME Live(l), i \in Apply, ~Executed(l, i)
      PROVE  Draft(l, Moved(l, Target, "", i, Now(l).status) \o <<Fired(i)>>)
  <2> DEFINE K == {n \in Versions(l, "indicator", i) : l[n].status = "FIRED"}
             f == FiredAt(l, i)
  <2>1. K # {} /\ K \subseteq 1 .. Len(l) /\ Len(l) \in Nat
    BY <1>2, SeqFacts, VersionsFacts DEF HasFired
  <2>2. f \in K
    BY <2>1, MaxOf DEF FiredAt
  <2>3. \A v \in Versions(l, F, F) : f < v => l[v].p # Target
    BY <1>6 DEF Executed
  <2>4. \A e : e.why = i /\ e.p = Target => ByFiring(l, e)
    BY <1>6, <2>2, <2>3 DEF ByFiring
  <2>5. Live(l) /\ Target \in Odds /\ "" \in {"", "candidate"} /\ Now(l).status \in Statuses \ Terminal
    BY <1>6, ForecastsAssumption, NowRecord
  <2> DEFINE r == Moved(l, Target, "", i, Now(l).status)
  <2>a. MayMove(l, Target, i)
    BY <2>4 DEF MayMove
  <2>b. MoveDraft(l, r, Target)
    BY <2>5, <2>a, MovedDraft
  <2>6. Draft(l, r) /\ r # <<>> /\ r[1].type = F /\ r[1].p = Target
    BY <2>b DEF MoveDraft
  <2> HIDE DEF r
  <2>7. Draft(l, r \o <<Fired(i)>>)
    BY <1>3, <1>4, <1>6, <2>6, DraftThen DEF F
  <2>. QED BY <2>7 DEF r
<1>7. ASSUME i \notin Apply
      PROVE  Loose(l, <<Item(Review(i), "OPEN"), Fired(i)>>)
  <2>1. SUFFICES ASSUME NEW q, q = <<Item(Review(i), "OPEN"), Fired(i)>> PROVE Loose(l, q)
    OBVIOUS
  <2>2. q \in Seq({Item(Review(i), "OPEN"), Fired(i)}) /\ Len(q) = 2 /\ q[1] = Item(Review(i), "OPEN") /\ q[2] = Fired(i)
    BY <2>1
  <2>3. IsSeq(q)
    BY <2>2, AnySeq
  <2>4. /\ q[1] \in [type : {"item"}, id : {q[1].id}, status : {q[1].status}, version : Nat]
        /\ "type" \in DOMAIN q[1] /\ q[1].type = "item" /\ Opens(q[1], i)
    BY <2>2 DEF Item, Opens
  <2>5. Event(q[1]) /\ \A k : q[1] # Fired(k)
    BY <2>4 DEF Event, F, Fired, Transition
  <2>6. AfterReview(q, 2, i)
    BY <1>7, <2>4 DEF AfterReview
  <2>7. \A n \in 1 .. Len(q) : n = 1 \/ n = 2
    BY <2>2
  <2>8. \A n \in 1 .. Len(q), k \in ToSet(Indicators) : q[n] = Fired(k) => AfterReview(q, n, k)
    BY <1>4, <2>2, <2>5, <2>6, <2>7
  <2>9. \A n \in 1 .. Len(q) : Event(q[n]) /\ q[n].type \notin {"claim", F, "indicator", "step"}
    BY <1>3, <2>2, <2>4, <2>5, <2>7 DEF F
  <2>. QED BY <2>3, <2>8, <2>9 DEF Loose
<1>8. ASSUME Live(l) PROVE Draft(l, <<[Now(l) EXCEPT !.status = "UPDATE_REQUIRED", !.why = "indicator"]>>)
  <2> DEFINE e == [Now(l) EXCEPT !.status = "UPDATE_REQUIRED", !.why = "indicator"]
  <2>1. ForecastRecord(Now(l))
    BY <1>8, NowRecord
  <2>2. ForecastRecord(e) /\ e.version = Now(l).version /\ e.p = Now(l).p /\ e.status = "UPDATE_REQUIRED"
    BY <2>1 DEF ForecastRecord, Statuses
  <2> HIDE DEF e
  <2>3. Draft(l, <<e>>)
    BY <1>8, <2>2, DraftRevision
  <2>. QED BY <2>3 DEF e
<1>9. ASSUME Live(l), i \notin Apply
      PROVE  Draft(l, (IF Now(l).status # "OPEN" THEN <<>>
                       ELSE <<[Now(l) EXCEPT !.status = "UPDATE_REQUIRED", !.why = "indicator"]>>)
                      \o <<Item(Review(i), "OPEN"), Fired(i)>>)
  <2> DEFINE r == IF Now(l).status # "OPEN" THEN <<>>
                  ELSE <<[Now(l) EXCEPT !.status = "UPDATE_REQUIRED", !.why = "indicator"]>>
             t == <<Item(Review(i), "OPEN"), Fired(i)>>
  <2>1. Draft(l, r) /\ Loose(l, t)
    BY <1>1, <1>7, <1>8, <1>9
  <2> HIDE DEF r, t
  <2>2. Draft(l, r \o t)
    BY <2>1, DraftJoined
  <2>. QED BY <2>2 DEF r, t
<1>10. CASE ~Live(l) \/ Recorded(l, Fired(i))
  BY <1>1, <1>10 DEF ApplyEffects
<1>11. CASE ~(~Live(l) \/ Recorded(l, Fired(i))) /\ i \in Apply
  BY <1>5, <1>6, <1>11 DEF ApplyEffects
<1>12. CASE ~(~Live(l) \/ Recorded(l, Fired(i))) /\ i \notin Apply
  BY <1>9, <1>12 DEF ApplyEffects
<1>. QED BY <1>10, <1>11, <1>12

(* A change of an indicator that a pass saw. *)
LEMMA ChangeDraft ==
  ASSUME NEW l, NEW seen, IndicatorRecord(seen),
         NEW status \in {"FIRED", "RETIRED", "EXPIRED_UNFIRED", "COVERAGE_BLOCKED"}
  PROVE  /\ Draft(l, Change(seen, status)) /\ Change(seen, status) # <<>>
         /\ Change(seen, status)[1].type = "indicator" /\ Change(seen, status)[1].id = seen.id
         /\ Change(seen, status)[1].status = status
<1> DEFINE e == [seen EXCEPT !.status = status]
           t == Transition(seen.id, status, <<seen.id>>)
<1>1. Change(seen, status) = <<e, t>>
  BY DEF Change
<1>2. IndicatorRecord(e) /\ e.type = "indicator" /\ e.id = seen.id /\ e.status = status /\ "type" \in DOMAIN e
  BY DEF IndicatorRecord, IndicatorStatuses
<1>3. \A i : t # Fired(i)
  BY DEF Fired, Transition
<1>4. Loose(l, <<t>>)
  BY <1>3, LooseTransition
<1> HIDE DEF e, t
<1>5. Event(e)
  BY <1>2 DEF Event, F
<1>6. Draft(l, <<e>>)
  BY <1>2, <1>5, DraftOne DEF F
<1>7. Draft(l, <<e, t>>)
  BY <1>4, <1>6, DraftJoined, PairOf
<1>8. <<e, t>> # <<>> /\ <<e, t>>[1] = e
  OBVIOUS
<1> DEFINE q == <<e, t>>
<1> HIDE DEF q
<1>9. Draft(l, q) /\ q # <<>> /\ q[1] = e /\ Change(seen, status) = q
  BY <1>1, <1>7, <1>8 DEF q
<1>. QED BY <1>2, <1>9

(* One indicator of a pass. *)
LEMMA CheckDraft ==
  ASSUME NEW l, Lawful(l), NEW seen, \E k \in DOMAIN l : l[k] = seen /\ l[k].type = "indicator"
  PROVE  Draft(l, Check(l, seen))
<1>1. IsSeq(l) /\ DOMAIN l = 1 .. Len(l)
  BY SeqFacts DEF Lawful
<1>2. PICK k \in 1 .. Len(l) : l[k] = seen /\ seen.type = "indicator"
  BY <1>1
<1>3. IndicatorRecord(seen)
  BY <1>2 DEF Lawful, Event
<1>4. seen.id \in ToSet(Indicators) /\ k \in Versions(l, "indicator", seen.id)
  BY <1>1, <1>2, <1>3, VersionsFacts DEF IndicatorRecord
<1>5. Draft(l, <<>>)
  BY LooseNone, LooseDraft
<1>6. Loose(l, Close(seen.id))
  <2>1. <<Search(seen.id)>> \in Seq({Search(seen.id)})
    OBVIOUS
  <2>. QED BY <2>1, AnySeq, LooseClose DEF Close
<1>7. ASSUME NEW status \in {"FIRED", "RETIRED", "EXPIRED_UNFIRED", "COVERAGE_BLOCKED"}
      PROVE  Draft(l, Change(seen, status)) /\ Draft(l, Change(seen, status) \o Close(seen.id))
  BY <1>3, <1>6, ChangeDraft, DraftJoined
<1>8. Draft(l, Fire(seen))
  <2> DEFINE r == Change(seen, "FIRED")
             s == Step("effects", seen.id)
  <2>1. Draft(l, r) /\ r # <<>> /\ r[1].type = "indicator" /\ r[1].id = seen.id /\ r[1].status = "FIRED"
    BY <1>3, ChangeDraft
  <2>2. /\ "type" \in DOMAIN s /\ s.type = "step" /\ s = Step(s.what, s.id) /\ s.what = "effects" /\ s.id = seen.id
        /\ \A i : s # Fired(i)
    BY DEF Step, Fired, Transition
  <2>3. Event(s)
    BY <2>2 DEF Event, F, StepNames
  <2> HIDE DEF r, s
  <2>4. Draft(l, r \o <<s>>)
    BY <1>4, <2>1, <2>2, <2>3, DraftThen DEF F
  <2>5. Draft(l, r \o <<s>> \o Close(seen.id))
    BY <1>6, <2>4, DraftJoined
  <2>. QED BY <2>5 DEF Fire, r, s
<1>9. ASSUME seen.status = "FIRED" PROVE Draft(l, <<Step("effects", seen.id)>> \o Close(seen.id))
  <2>1. HasFired(l, seen.id)
    BY <1>2, <1>4, <1>9 DEF HasFired
  <2>2. Waits(l, Step("effects", seen.id))
    BY <1>4, <2>1 DEF Waits, Step
  <2>3. Loose(l, <<Step("effects", seen.id)>>)
    BY <2>2, LooseStep DEF StepNames
  <2>. QED BY <1>6, <2>3, LooseDraft, DraftJoined
<1>10. Draft(l, Change(seen, "COVERAGE_BLOCKED") \o <<Item(Search(seen.id), "OPEN")>>)
  BY <1>7, LooseItem, DraftJoined
<1>11. Draft(l, CheckPresence(l, seen))
  BY <1>5, <1>8 DEF CheckPresence
<1>12. Draft(l, CheckAbsence(l, seen))
  BY <1>5, <1>7, <1>8, <1>10 DEF CheckAbsence
<1>. QED BY <1>5, <1>7, <1>9, <1>11, <1>12 DEF Check

(* Every step. *)
LEMMA ContinueDraft ==
  ASSUME NEW l, Lawful(l), NEW s, Event(s), s.type = "step",
         Waits(l, s) \/ (s.what = "evidence" /\ Live(l) /\ s.id.was = Now(l))
  PROVE  Draft(l, Continue(l, s))
<1>1. s.what \in StepNames
  BY DEF Event
<1>2. CASE s.what = "try"
  BY <1>2, TryDraft DEF Continue
<1>3. CASE s.what = "evidence"
  <2>1. BeforeMark(l, s.id.was) \/ (Live(l) /\ s.id.was = Now(l))
    BY <1>3 DEF Waits
  <2>. QED BY <1>3, <2>1, FoldEvidenceDraft DEF Continue
<1>4. CASE s.what = "fold"
  BY <1>4, FoldInDraft DEF Continue, Waits
<1>5. CASE s.what = "effects"
  BY <1>5, EffectsDraft DEF Continue, Waits
<1>6. CASE s.what = "check"
  BY <1>6, CheckDraft DEF Continue, Waits
<1>. QED BY <1>1, <1>2, <1>3, <1>4, <1>5, <1>6 DEF StepNames

-----------------------------------------------------------------------------
(***************************************************************************)
(* A command goes on until no step stands first, or MaxSteps times.        *)
(***************************************************************************)
(* What is true of a queue as the command goes on. *)
Rolling(l, q) == Plan(l, q) /\ Set(l, q)

(* A step that stands first is replaced by a draft. *)
LEMMA StepPlan ==
  ASSUME NEW l, Lawful(l), NEW q, Plan(l, q), Set(l, q), q # <<>>, Head(q).type = "step"
  PROVE  LET r == Settle(l, Continue(l, Head(q)) \o Tail(q)) IN Plan(l, r) /\ Set(l, r)
<1>1. IsSeq(q)
  BY DEF Plan, Plain
<1>2. Head(q) = q[1] /\ 1 \in 1 .. Len(q)
  BY <1>1, HeadAndTail, SeqFacts
<1>3. Event(q[1]) /\ q[1].type = "step"
  BY <1>2 DEF Plan, Plain
<1>4. Waits(l, q[1]) \/ (q[1].what = "evidence" /\ Live(l) /\ q[1].id.was = Now(l))
  BY <1>3 DEF Set
<1>5. Draft(l, Continue(l, q[1]))
  BY <1>3, <1>4, ContinueDraft
<1>6. Loose(l, Tail(q))
  BY <1>3, LooseBehindStep
<1>7. Draft(l, Continue(l, q[1]) \o Tail(q))
  BY <1>5, <1>6, DraftJoined
<1>. QED BY <1>2, <1>7, SettleDraft

(* What a command has come to is a plan. *)
LEMMA AheadPlan ==
  ASSUME NEW l, Lawful(l), NEW d, Draft(l, d)
  PROVE  Plan(l, Ahead(Continue, l, d))
<1> DEFINE b == <<"forecast", d>>
<1>0. b[1] = "forecast" /\ b[2] = d /\ MaxSteps \in Nat
  BY VersionedLogAssumption
<1>4. Ahead(Continue, l, d) = Run("ahead", l, b, MaxSteps)
  BY DEF Ahead, Run, First, Following, Opened, Resumed, By
<1> HIDE DEF b
<1>1. Rolling(l, Opened(l, b))
  BY <1>0, SettleDraft DEF Rolling, Opened
<1>2. \A n \in 1 .. MaxSteps : \A q : Rolling(l, q) => Rolling(l, Resumed(l, b, n, q))
  BY <1>0, StepPlan DEF Rolling, Resumed, By
<1>3. Rolling(l, Run("ahead", l, b, MaxSteps))
  <2>1. PICK f : Goes("ahead", l, b, MaxSteps, f)
    BY <1>0, RunGoes
  <2> DEFINE G == {n \in 0 .. MaxSteps : Rolling(l, f[n])}
  <2>2. 0 \in G
    BY <1>0, <1>1, <2>1 DEF Goes, First
  <2>3. ASSUME NEW n \in 1 .. MaxSteps, n - 1 \in G PROVE n \in G
    BY <1>2, <1>0, <2>1, <2>3 DEF Goes, Following
  <2> HIDE DEF G
  <2>4. MaxSteps \in G
    BY <1>0, <2>2, <2>3, UpTo
  <2>. QED BY <2>1, <2>4 DEF Goes, G
<1>. QED BY <1>3, <1>4 DEF Rolling

-----------------------------------------------------------------------------
(***************************************************************************)
(* Every step keeps the log lawful and the plans good.                     *)
(***************************************************************************)
(* What an append must bring for the log to stay lawful. *)
LEMMA AppendLawful ==
  ASSUME NEW l, Lawful(l), NEW e, Event(e),
         e.type = F => e.version = NextF(l) /\ Founded(l, e),
         e.type = "claim" /\ e.after = TRUE => Late(l),
         \A i \in ToSet(Indicators) : e = Fired(i) => CarriedOut(l, i)
  PROVE  Lawful(Append(l, e))
<1> DEFINE m == Append(l, e)
           k == Len(l) + 1
<1>1. IsSeq(l) /\ Len(l) \in Nat
  BY SeqFacts DEF Lawful
<1>2. /\ IsSeq(m) /\ Len(m) = Len(l) + 1 /\ Extends(m, l)
      /\ \A n \in 1 .. Len(l) : m[n] = l[n]
      /\ m[Len(l) + 1] = e
  BY <1>1, Appended, AppendExtends
<1> HIDE DEF m
<1>3. Prefix(m, Len(l)) = l
  BY <1>1, <1>2, SamePrefix, PrefixWhole
<1>4. Prefix(m, k) = m
  BY <1>2, PrefixWhole
<1>5. ASSUME NEW n \in 1 .. Len(m)
      PROVE  /\ Event(m[n])
             /\ m[n].type = F => m[n].version = NextF(Prefix(m, n - 1)) /\ Founded(Prefix(m, n - 1), m[n])
             /\ m[n].type = "claim" /\ m[n].after = TRUE => Late(Prefix(m, n))
             /\ \A i \in ToSet(Indicators) : m[n] = Fired(i) => CarriedOut(Prefix(m, n), i)
  <2>1. CASE n \in 1 .. Len(l)
    <3>1. n - 1 \in 0 .. Len(l) /\ n \in 0 .. Len(l)
      BY <1>1, <2>1
    <3>2. Prefix(m, n - 1) = Prefix(l, n - 1) /\ Prefix(m, n) = Prefix(l, n) /\ m[n] = l[n]
      BY <1>1, <1>2, <2>1, <3>1, SamePrefix
    <3>. QED BY <2>1, <3>2 DEF Lawful
  <2>2. CASE n \notin 1 .. Len(l)
    <3>1. n = k /\ n - 1 = Len(l)
      BY <1>1, <1>2, <2>2
    <3>2. m[n] = e /\ Prefix(m, n - 1) = l /\ Prefix(m, n) = m
      BY <1>2, <1>3, <1>4, <3>1
    <3>3. Late(l) => Late(m)
      <4>1. Versions(l, "horizon", F) \subseteq Versions(m, "horizon", F)
        BY <1>1, <1>2, MoreVersions
      <4>. QED BY <4>1 DEF Late, Known
    <3>4. \A i \in ToSet(Indicators) : e = Fired(i) => CarriedOut(m, i)
      BY <1>1, <1>2, StillCarriedOut
    <3>. QED BY <3>2, <3>3, <3>4
  <2>. QED BY <2>1, <2>2
<1>. QED BY <1>2, <1>5 DEF Lawful, m

(* The first event of a plan brings it, if the store accepts it. *)
LEMMA FirstFits ==
  ASSUME IInv, NEW c \in Calls, todo[c] # <<>>, Fits(Head(todo[c]))
  PROVE  Lawful(Append(log, Head(todo[c])))
<1> DEFINE q == todo[c]
           e == q[1]
<1>1. Lawful(log) /\ Plan(log, q) /\ IsSeq(q) /\ IsSeq(log)
  BY DEF IInv, Plan, Plain, Lawful
<1>2. Head(q) = e /\ 1 \in 1 .. Len(q)
  BY <1>1, HeadAndTail, SeqFacts
<1> HIDE DEF q
<1>3. Event(e) /\ e.type # "claim"
  BY <1>1, <1>2 DEF Plan, Plain
<1>4. ASSUME e.type = F PROVE e.version = NextF(log) /\ Founded(log, e)
  <2>1. ForecastRecord(e)
    BY <1>3, <1>4 DEF Event
  <2>2. Versioned(e) /\ e.id = F
    BY <2>1 DEF Versioned, ForecastRecord
  <2>3. e.version = NextVersion(log, e)
    BY <1>2, <2>2 DEF Fits, q
  <2>4. NextVersion(log, e) = NextF(log)
    BY <1>1, <1>4, <2>2, NextFacts
  <2>5. q # <<>>
    BY DEF q
  <2>. QED BY <1>1, <1>4, <2>3, <2>4, <2>5 DEF Plan
<1>5. ASSUME NEW i \in ToSet(Indicators), e = Fired(i) PROVE CarriedOut(log, i)
  <2>1. CarriedOut(log, i) \/ AfterMove(q, 1, i) \/ AfterReview(q, 1, i)
    BY <1>1, <1>2, <1>5 DEF Plan, Plain
  <2>. QED BY <2>1 DEF AfterMove, AfterReview
<1>6. Lawful(Append(log, e))
  BY <1>1, <1>3, <1>4, <1>5, AppendLawful
<1>. QED BY <1>2, <1>6 DEF q

(* What was decided on all at once is a plan. *)
LEMMA LoosePlan ==
  ASSUME NEW l, NEW t, Loose(l, t)
  PROVE  Plan(l, t)
<1>1. IsSeq(t) /\ Len(t) \in Nat /\ (t # <<>> => 1 \in 1 .. Len(t)) /\ \A n \in 2 .. Len(t) : n \in 1 .. Len(t)
  BY SeqFacts DEF Loose
<1>2. Plain(l, t)
  BY <1>1 DEF Loose, Plain
<1>. QED BY <1>1, <1>2 DEF Loose, Plan

(* Each kind of action keeps the invariant. *)
LEMMA DecideKeeps ==
  ASSUME IInv, NEW c \in Calls, NEW q, Plan(log, q), Decide(c, q)
  PROVE  IInv'
<1>1. log' = log /\ todo' = [todo EXCEPT ![c] = q]
  BY DEF Decide
<1>2. DOMAIN todo' = Calls /\ \A d \in Calls : todo'[d] = IF d = c THEN q ELSE todo[d]
  BY <1>1 DEF IInv
<1>. QED BY <1>1, <1>2 DEF IInv

LEMMA DoKeeps ==
  ASSUME IInv, NEW c \in Calls, NEW events, Draft(log, events), ForecastDo(c, events)
  PROVE  IInv'
<1>1. Decide(c, Ahead(Continue, log, events))
  BY DEF ForecastDo, Do
<1>2. Plan(log, Ahead(Continue, log, events))
  BY AheadPlan DEF IInv
<1>. QED BY <1>1, <1>2, DecideKeeps

LEMMA WriteKeeps ==
  ASSUME IInv, NEW c \in Calls, ForecastWrite(c)
  PROVE  IInv'
<1> DEFINE q == todo[c]
           l == Append(log, Head(q))
<1>1. /\ q # <<>> /\ Fits(Head(q))
      /\ log' = l /\ todo' = [todo EXCEPT ![c] = Ahead(Continue, l, Tail(q))]
  BY DEF ForecastWrite, WriteAnd, Ready, IInv
<1>2. Lawful(log) /\ IsSeq(log) /\ Plan(log, q) /\ IsSeq(q)
  BY DEF IInv, Lawful, Plan, Plain
<1>3. Lawful(l)
  BY <1>1, FirstFits
<1>4. Head(q) = q[1]
  BY <1>1, <1>2, HeadAndTail
<1>5. Loose(l, Tail(q))
  BY <1>1, <1>2, <1>4, LooseBehindEvent
<1>6. Plan(l, Ahead(Continue, l, Tail(q)))
  BY <1>3, <1>5, LooseDraft, AheadPlan
<1>7. ASSUME NEW d \in Calls PROVE Plan(l, todo[d])
  <2>1. Extends(l, log)
    BY <1>2, AppendExtends
  <2>. QED BY <1>2, <2>1, StillPlanned DEF IInv
<1>8. DOMAIN todo' = Calls /\ \A d \in Calls : todo'[d] = IF d = c THEN Ahead(Continue, l, Tail(q)) ELSE todo[d]
  BY <1>1 DEF IInv
<1> HIDE DEF q, l
<1>. QED BY <1>1, <1>3, <1>6, <1>7, <1>8 DEF IInv

LEMMA GiveUpKeeps ==
  ASSUME IInv, NEW c \in Calls, GiveUp(c)
  PROVE  IInv'
<1>1. log' = log /\ todo' = [todo EXCEPT ![c] = <<>>]
  BY DEF GiveUp
<1>2. DOMAIN todo' = Calls /\ \A d \in Calls : todo'[d] = IF d = c THEN <<>> ELSE todo[d]
  BY <1>1 DEF IInv
<1>3. Plan(log, <<>>)
  BY LooseNone, LoosePlan
<1>. QED BY <1>1, <1>2, <1>3 DEF IInv

(* What the world reports. *)
Searches(S) == {[type |-> "search", id |-> s, source |-> s] : s \in S}
Observed(K) == {[type |-> "observation", id |-> "o", of |-> t] : t \in K}
Claimed(B)  == {[type |-> "claim", id |-> "claim", value |-> v, after |-> a] : v \in {"expected", "other"}, a \in B}

LEMMA WorldKinds ==
  /\ \A e \in ClaimNews : "type" \in DOMAIN e /\ e.type = "state"
  /\ \A S : \A e \in Searches(S) : "type" \in DOMAIN e /\ e.type = "search"
  /\ \A K : \A e \in Observed(K) : "type" \in DOMAIN e /\ e.type = "observation"
  /\ \A B : \A e \in Claimed(B) : "type" \in DOMAIN e /\ e.type = "claim" /\ e.after \in B
  /\ LET e == [type |-> "activity", id |-> "a"] IN "type" \in DOMAIN e /\ e.type = "activity"
  /\ "type" \in DOMAIN Horizon /\ Horizon.type = "horizon"
<1>1. \A e \in ClaimNews : "type" \in DOMAIN e /\ e.type = "state"
  BY DEF ClaimNews
<1>2. \A S : \A e \in Searches(S) : "type" \in DOMAIN e /\ e.type = "search"
  BY DEF Searches
<1>3. \A K : \A e \in Observed(K) : "type" \in DOMAIN e /\ e.type = "observation"
  BY DEF Observed
<1>4. ASSUME NEW B, NEW e \in Claimed(B) PROVE "type" \in DOMAIN e /\ e.type = "claim" /\ e.after \in B
  BY DEF Claimed
<1>. QED BY <1>1, <1>2, <1>3, <1>4 DEF Horizon

LEMMA ReportKeeps ==
  ASSUME IInv, NEW e \in World(log), Report(e)
  PROVE  IInv'
<1>1. log' = Append(log, e) /\ todo' = todo
  BY DEF Report, Happen, Elsewhere
<1>2. Lawful(log) /\ IsSeq(log)
  BY DEF IInv, Lawful
<1>3. /\ "type" \in DOMAIN e
      /\ e.type \in {"state", "search", "observation", "activity", "claim", "horizon"}
      /\ e.type = "claim" /\ e.after = TRUE => Late(log)
  <2>1. World(log) = ClaimNews \cup Searches(IF Late(log) THEN Sources ELSE {})
          \cup Observed({"earlier", "since"} \cup IF Late(log) THEN {"after"} ELSE {})
          \cup (IF "EVENT_OCCURRED" \in Rules THEN {[type |-> "activity", id |-> "a"]} ELSE {})
          \cup (IF "CLAIM_PREDICATE" \in Rules THEN Claimed(IF Late(log) THEN BOOLEAN ELSE {FALSE}) ELSE {})
          \cup IF Late(log) THEN {} ELSE {Horizon}
    BY DEF World, Searches, Observed, Claimed
  <2>2. \/ e \in ClaimNews
        \/ e \in Searches(IF Late(log) THEN Sources ELSE {})
        \/ e \in Observed({"earlier", "since"} \cup IF Late(log) THEN {"after"} ELSE {})
        \/ e = [type |-> "activity", id |-> "a"]
        \/ e \in Claimed(IF Late(log) THEN BOOLEAN ELSE {FALSE})
        \/ e = Horizon
    BY <2>1
  <2>3. /\ \A S : e \in Searches(S) => "type" \in DOMAIN e /\ e.type = "search"
        /\ \A S : e \in Observed(S) => "type" \in DOMAIN e /\ e.type = "observation"
        /\ \A S : e \in Claimed(S) => "type" \in DOMAIN e /\ e.type = "claim" /\ e.after \in S
        /\ e \in ClaimNews => "type" \in DOMAIN e /\ e.type = "state"
        /\ e = [type |-> "activity", id |-> "a"] => "type" \in DOMAIN e /\ e.type = "activity"
        /\ e = Horizon => "type" \in DOMAIN e /\ e.type = "horizon"
    BY WorldKinds
  <2>4. CASE e \in Claimed(IF Late(log) THEN BOOLEAN ELSE {FALSE})
    <3>1. "type" \in DOMAIN e /\ e.type = "claim" /\ e.after \in IF Late(log) THEN BOOLEAN ELSE {FALSE}
      BY <2>3, <2>4
    <3>2. e.after = TRUE => Late(log)
      BY <3>1
    <3>. QED BY <3>1, <3>2
  <2>. QED BY <2>2, <2>3, <2>4
<1>4. Event(e)
  BY <1>3 DEF Event, F
<1>5. \A i : e # Fired(i)
  BY <1>3 DEF Fired, Transition
<1>6. Lawful(Append(log, e))
  BY <1>2, <1>3, <1>4, <1>5, AppendLawful DEF F
<1>7. ASSUME NEW d \in Calls PROVE Plan(Append(log, e), todo[d])
  <2>1. Extends(Append(log, e), log)
    BY <1>2, AppendExtends
  <2>. QED BY <1>2, <2>1, StillPlanned DEF IInv
<1>. QED BY <1>1, <1>6, <1>7 DEF IInv

-----------------------------------------------------------------------------
(***************************************************************************)
(* What each command decides on is a draft.                                *)
(***************************************************************************)
(* The creation, first or repeated. *)
LEMMA CreateDraft ==
  ASSUME NEW l, Lawful(l), NEW rule \in Rules, NEW p \in Odds, NEW proposal \in {"", "candidate"}, NEW sup, NEW con
  PROVE  Draft(l, CreateForecast(l, rule, p, proposal, sup, con))
<1>1. Loose(l, <<Created>>) /\ Loose(l, <<>>) /\ Draft(l, <<>>)
  BY LooseEnsure, LooseNone, LooseDraft DEF Created
<1>2. ASSUME Live(l) PROVE Draft(l, <<Created>> \o <<Step("evidence", [was |-> Now(l), sup |-> sup, con |-> con])>>)
  <2> DEFINE s == Step("evidence", [was |-> Now(l), sup |-> sup, con |-> con])
             e == Created
  <2>1. /\ "type" \in DOMAIN s /\ s.type = "step" /\ s = Step(s.what, s.id)
        /\ s.what = "evidence" /\ s.id.was = Now(l)
        /\ \A i : s # Fired(i)
    BY DEF Step, Fired, Transition
  <2>2. Event(s)
    BY <2>1 DEF Event, F, StepNames
  <2>3. /\ "type" \in DOMAIN e /\ e.type = "ensure" /\ e = Ensure(e.id, e.what, e.cause) /\ e.what = "CREATED"
        /\ \A i : e # Fired(i)
    BY DEF Created, Ensure, Fired, Transition
  <2>4. Event(e)
    BY <2>3 DEF Event, F
  <2> HIDE DEF s, e
  <2>5. SUFFICES ASSUME NEW q, q = <<e, s>> PROVE Draft(l, q)
    BY PairOf DEF s, e
  <2>6. IsSeq(q) /\ Len(q) = 2 /\ q[1] = e /\ q[2] = s
    BY <2>5, Pair
  <2>7. IsSeq(q) /\ Len(q) = 2
    BY <2>6
  <2>8. \A n \in 1 .. Len(q) : n = 1 \/ n = 2
    BY <2>5, Pair
  <2>9. AfterMark(l, q, 2)
    BY <1>2, <2>1, <2>6 DEF AfterMark, e
  <2>10. \A n \in 1 .. Len(q) : Event(q[n]) /\ q[n].type \notin {"claim", F, "indicator"} /\ \A i : q[n] # Fired(i)
    BY <2>1, <2>2, <2>3, <2>4, <2>6, <2>8 DEF F
  <2>11. Plain(l, q)
    BY <2>7, <2>10 DEF Plain
  <2>12. \A n \in 1 .. Len(q) : q[n].type = "step" => AfterMark(l, q, n)
    BY <2>3, <2>6, <2>8, <2>9
  <2>13. q[1].type # F
    BY <2>3, <2>6 DEF F
  <2>. QED BY <2>11, <2>12, <2>13 DEF Draft
<1>3. Draft(l, <<Created>> \o Fold(l, p, proposal, sup, con))
  <2>1. Draft(l, <<Created>> \o <<>>)
    BY <1>1, LooseDraft, DraftJoined
  <2>. QED BY <1>2, <2>1 DEF Fold
<1>4. ASSUME ~Exists(l) PROVE Draft(l, <<Forecast(rule, p, proposal, Basis(l, sup, con)), Created>>)
  <2> DEFINE b == Basis(l, sup, con)
             e == Forecast(rule, p, proposal, b)
  <2> HIDE DEF b
  <2>1. ForecastRecord(e) /\ e.status = "OPEN"
    BY DEF Forecast, ForecastRecord, Statuses
  <2> HIDE DEF e
  <2>2. Fresh(l, e)
    BY <1>4, <2>1 DEF Fresh, Justified
  <2>3. Draft(l, <<e>>)
    BY <2>1, <2>2, ForecastEvent, DraftOne
  <2>4. Draft(l, <<e, Created>>)
    BY <1>1, <2>3, DraftJoined, PairOf
  <2>. QED BY <2>4 DEF b, e
<1>5. CASE Exists(l)
  BY <1>3, <1>5 DEF CreateForecast
<1>6. CASE ~Exists(l)
  BY <1>1, <1>4, <1>6 DEF CreateForecast
<1>. QED BY <1>5, <1>6

LEMMA ReviewedStatus ==
  ASSUME NEW l, Lawful(l), Live(l)
  PROVE  Reviewed(l) \in Statuses \ Terminal
<1>1. Now(l).status \in Statuses \ Terminal
  BY NowRecord
<1>. QED BY <1>1 DEF Reviewed, Statuses, Terminal

(* A person moves the number. *)
LEMMA HumanDraft ==
  ASSUME NEW l, Lawful(l), NEW p \in Odds
  PROVE  Draft(l, UpdateByHuman(l, p))
<1>1. CASE Live(l)
  <2>1. MayMove(l, p, "human")
    BY DEF MayMove
  <2>2. "" \in {"", "candidate"} /\ Reviewed(l) \in Statuses \ Terminal
    BY <1>1, ReviewedStatus
  <2>3. MoveDraft(l, Moved(l, p, "", "human", Reviewed(l)), p)
    BY <1>1, <2>1, <2>2, MovedDraft
  <2>. QED BY <1>1, <2>3 DEF MoveDraft, UpdateByHuman
<1>2. CASE ~Live(l)
  BY <1>2, LooseNone, LooseDraft DEF UpdateByHuman
<1>. QED BY <1>1, <1>2

(* An accepted candidate moves the number. *)
LEMMA ModelDraft ==
  ASSUME NEW l, Lawful(l)
  PROVE  Draft(l, UpdateByModel(l, "candidate"))
<1>1. Draft(l, <<>>)
  BY LooseNone, LooseDraft
<1>2. Draft(l, <<Transition(F, "PROBABILITY_UPDATED", <<"version", Now(l).version>>)>>)
  <2>1. \A i : Transition(F, "PROBABILITY_UPDATED", <<"version", Now(l).version>>) # Fired(i)
    BY DEF Fired, Transition
  <2>. QED BY <2>1, LooseTransition, LooseDraft
<1>3. ASSUME Live(l), Spendable(l, "candidate")
      PROVE  Draft(l, Moved(l, Target, "candidate", "model", Reviewed(l)))
  <2>1. IsSeq(l) /\ DOMAIN l = 1 .. Len(l)
    BY SeqFacts DEF Lawful
  <2>2. PICK k \in Versions(l, "proposal", "candidate") : Current(l, "proposal", "candidate") = l[k]
    BY <1>3, <2>1, CurrentFacts DEF Spendable
  <2>3. k \in DOMAIN l /\ l[k].type = "proposal" /\ l[k].status = "ACCEPTED"
    BY <1>3, <2>1, <2>2, VersionsFacts DEF Spendable
  <2>4. l[k] = Proposal("candidate", "ACCEPTED")
    BY <2>1, <2>3 DEF Lawful, Event, F
  <2>5. ASSUME NEW i \in Versions(l, F, F) PROVE l[i].proposal = ""
    <3>1. ForecastRecord(l[i]) /\ i \in 1 .. Len(l)
      BY LawfulVersion
    <3>2. "proposal" \in DOMAIN l[i] /\ l[i].proposal \in {"", "candidate"}
      BY <3>1 DEF ForecastRecord
    <3>3. l[i].proposal # "candidate"
      BY <1>3, <2>1, <3>1, <3>2 DEF Spendable, Spent
    <3>. QED BY <3>2, <3>3
  <2>6. MayMove(l, Target, "model")
    BY <2>3, <2>4, <2>5 DEF MayMove, ByCandidate
  <2>7. "candidate" \in {"", "candidate"} /\ Reviewed(l) \in Statuses \ Terminal /\ Target \in Odds
    BY <1>3, ReviewedStatus, ForecastsAssumption
  <2>8. MoveDraft(l, Moved(l, Target, "candidate", "model", Reviewed(l)), Target)
    BY <1>3, <2>6, <2>7, MovedDraft
  <2>. QED BY <2>8 DEF MoveDraft
<1>. QED BY <1>1, <1>2, <1>3 DEF UpdateByModel

(* The basis is refreshed, and the rule is tried after the horizon. *)
LEMMA RefreshDraft ==
  ASSUME NEW l, Lawful(l)
  PROVE  Draft(l, RefreshForecast(l))
<1> DEFINE basis  == Rebased(l, Now(l).basis)
           status == Refreshed(l, basis)
           try    == IF Late(l) THEN <<Step("try", F)>> ELSE <<>>
           e      == [Now(l) EXCEPT !.basis = basis, !.status = status, !.why = "refresh"]
           bad    == IF Shaken(Now(l).basis, basis)
                     THEN <<Transition(F, "BASIS_DEGRADED", <<"degraded", basis.con, basis.deg>>)>> ELSE <<>>
           late   == IF status = "HORIZON_PASSED" /\ status # Now(l).status
                     THEN <<Transition(F, "HORIZON_PASSED", <<"horizon">>)>> ELSE <<>>
<1>1. RefreshForecast(l) = IF ~Live(l) THEN <<>>
                           ELSE IF basis = Now(l).basis /\ status = Now(l).status THEN try
                           ELSE <<e>> \o bad \o late \o try
  BY DEF RefreshForecast
<1>2. Loose(l, <<>>)
  BY LooseNone
<1>3. Loose(l, try)
  <2>1. Waits(l, Step("try", F))
    BY DEF Waits, Step
  <2>2. Loose(l, <<Step("try", F)>>)
    BY <2>1, LooseStep DEF StepNames
  <2>. QED BY <1>2, <2>2
<1> HIDE DEF try
<1>4. Loose(l, bad)
  <2>1. \A cause, i : Transition(F, "BASIS_DEGRADED", cause) # Fired(i)
    BY DEF Fired, Transition
  <2>2. \A cause : Loose(l, <<Transition(F, "BASIS_DEGRADED", cause)>>)
    BY <2>1, LooseTransition
  <2>. QED BY <1>2, <2>2
<1>5. Loose(l, late)
  <2>1. \A cause, i : Transition(F, "HORIZON_PASSED", cause) # Fired(i)
    BY DEF Fired, Transition
  <2>2. \A cause : Loose(l, <<Transition(F, "HORIZON_PASSED", cause)>>)
    BY <2>1, LooseTransition
  <2>. QED BY <1>2, <2>2
<1> HIDE DEF bad, late
<1>6. ASSUME Live(l) PROVE Draft(l, <<e>>)
  <2>1. ForecastRecord(Now(l)) /\ Now(l).status \in Statuses \ Terminal
    BY <1>6, NowRecord
  <2>2. status \in Statuses \ Terminal
    BY <2>1 DEF Refreshed, Statuses, Terminal
  <2> HIDE DEF basis, status
  <2>3. ForecastRecord(e) /\ e.version = Now(l).version /\ e.p = Now(l).p /\ e.status = status
    BY <2>1, <2>2 DEF ForecastRecord
  <2>4. e.status # "RESOLVED_FALSE"
    BY <2>2, <2>3 DEF Terminal
  <2> HIDE DEF e
  <2>5. Draft(l, <<e>>)
    BY <1>6, <2>3, <2>4, DraftRevision
  <2>. QED BY <2>5
<1> HIDE DEF e, basis, status
<1>7. Live(l) => Draft(l, <<e>> \o bad \o late \o try)
  BY <1>3, <1>4, <1>5, <1>6, DraftJoined
<1>8. Draft(l, <<>>) /\ Draft(l, try)
  BY <1>2, <1>3, LooseDraft
<1>. QED BY <1>1, <1>7, <1>8

(* A person settles the forecast. *)
LEMMA SettleByHumanDraft ==
  ASSUME NEW l, Lawful(l), NEW status \in Outcomes
  PROVE  Draft(l, ResolveByHuman(l, status))
<1>1. status \in Terminal
  BY ForecastsAssumption DEF Terminal
<1>. QED BY <1>1, DraftSettled, LooseNone, LooseDraft DEF ResolveByHuman

(* An indicator is armed. *)
LEMMA ArmDraft ==
  ASSUME NEW l, Lawful(l), NEW i \in ToSet(Indicators)
  PROVE  Draft(l, Arm(l, i))
<1>1. Draft(l, <<>>)
  BY LooseNone, LooseDraft
<1>2. Loose(l, <<Armed(i)>>)
  BY LooseEnsure DEF Armed
<1>3. Loose(l, <<Step("fold", i)>>)
  <2>1. Waits(l, Step("fold", i))
    BY DEF Waits, Step
  <2>. QED BY <2>1, LooseStep DEF StepNames
<1>4. Draft(l, <<Armed(i), Step("fold", i)>>)
  BY <1>2, <1>3, LooseDraft, DraftJoined, PairOf
<1>5. Draft(l, <<Indicator(i, "ARMED"), Armed(i), Step("fold", i)>>)
  <2> DEFINE e == Indicator(i, "ARMED")
  <2>1. IndicatorRecord(e) /\ e.type = "indicator" /\ "type" \in DOMAIN e
    BY DEF Indicator, IndicatorRecord, IndicatorStatuses
  <2>2. Event(e)
    BY <2>1 DEF Event, F
  <2> HIDE DEF e
  <2>3. Draft(l, <<e>>)
    BY <2>1, <2>2, DraftOne DEF F
  <2> DEFINE a == Armed(i)
             b == Step("fold", i)
  <2>4. Loose(l, <<a>>) /\ Loose(l, <<b>>)
    BY <1>2, <1>3
  <2> HIDE DEF a, b
  <2>5. Draft(l, <<e, a>> \o <<b>>)
    BY <2>3, <2>4, DraftJoined, PairOf
  <2>6. <<e, a>> \o <<b>> = <<e, a, b>>
    BY TripleOf
  <2>. QED BY <2>5, <2>6 DEF a, b, e
<1>. QED BY <1>1, <1>4, <1>5 DEF Arm

(* A pass over the indicators. *)
LEMMA PassDraft ==
  ASSUME NEW l, Lawful(l)
  PROVE  Draft(l, CheckIndicators(l))
<1> DEFINE at    == {n \in DOMAIN Indicators : Known(l, "indicator", Indicators[n])}
           known == Only(Indicators, at)
           q     == [n \in DOMAIN known |-> Step("check", Current(l, "indicator", known[n]))]
           S     == {q[n] : n \in DOMAIN known}
<1>1. IsSeq(Indicators) /\ IsSeq(l) /\ DOMAIN l = 1 .. Len(l)
  BY ForecastsAssumption, SeqFacts DEF IsSeq, Lawful
<1>2. PICK h : Picks(Indicators, at, Len(Indicators), known, h)
  BY <1>1, OnlyPicks
<1>3. CheckIndicators(l) = q
  BY DEF CheckIndicators
<1> HIDE DEF known
<1>4. IsSeq(known) /\ \A n \in 1 .. Len(known) : h[n] \in at /\ known[n] = Indicators[h[n]]
  BY <1>2 DEF Picks
<1>5. Len(known) \in Nat /\ DOMAIN known = 1 .. Len(known)
  BY <1>4, SeqFacts
<1>6. q \in [1 .. Len(known) -> S] /\ \A n \in 1 .. Len(known) : q[n] = Step("check", Current(l, "indicator", known[n]))
  BY <1>5
<1> HIDE DEF q, S
<1>7. q \in Seq(S) /\ Len(q) = Len(known)
  <2>1. q \in Seq(S)
    BY <1>5, <1>6
  <2>. QED BY <2>1, <1>5, <1>6, LenProperties
<1>8. ASSUME NEW n \in 1 .. Len(q)
      PROVE  /\ Event(q[n]) /\ q[n].type = "step" /\ Waits(l, q[n])
             /\ \A i : q[n] # Fired(i)
  <2> DEFINE seen == Current(l, "indicator", known[n])
  <2>1. q[n] = Step("check", seen) /\ Known(l, "indicator", known[n])
    BY <1>4, <1>6, <1>7
  <2>2. PICK k \in Versions(l, "indicator", known[n]) : seen = l[k]
    BY <1>1, <2>1, CurrentFacts
  <2>3. k \in DOMAIN l /\ l[k] = seen /\ l[k].type = "indicator"
    BY <1>1, <2>2, VersionsFacts
  <2> HIDE DEF seen
  <2>4. Waits(l, Step("check", seen))
    BY <2>3 DEF Waits, Step
  <2>5. Event(Step("check", seen)) /\ Step("check", seen).type = "step" /\ \A i : Step("check", seen) # Fired(i)
    BY DEF Event, Step, StepNames, F, Fired, Transition
  <2>. QED BY <2>1, <2>4, <2>5
<1>9. Loose(l, q)
  BY <1>7, <1>8, AnySeq DEF Loose, F
<1>. QED BY <1>3, <1>9, LooseDraft

(* A candidate is recorded or resolved. *)
LEMMA CandidateKeeps ==
  ASSUME IInv, NEW c \in Calls, CandidateCommand(c, "candidate")
  PROVE  IInv'
<1>1. ASSUME NEW status PROVE Loose(log, <<Proposal("candidate", status)>>)
  <2> DEFINE e == Proposal("candidate", status)
  <2>1. "type" \in DOMAIN e /\ e.type = "proposal" /\ e = Proposal("candidate", e.status)
    BY DEF Proposal
  <2>2. Event(e) /\ \A i : e # Fired(i)
    BY <2>1 DEF Event, F, Fired, Transition
  <2>. QED BY <2>1, <2>2, LooseEvent DEF F
<1>2. ASSUME NEW status, NEW kind
      PROVE  Loose(log, <<[type |-> "action", id |-> "candidate", status |-> status, kind |-> kind],
                          Proposal("candidate", status)>>)
  <2> DEFINE e == [type |-> "action", id |-> "candidate", status |-> status, kind |-> kind]
             f == Proposal("candidate", status)
  <2>1. "type" \in DOMAIN e /\ e.type = "action"
    OBVIOUS
  <2>2. Event(e) /\ \A i : e # Fired(i)
    BY <2>1 DEF Event, F, Fired, Transition
  <2>3. Loose(log, <<e>>) /\ Loose(log, <<f>>)
    BY <1>1, <2>1, <2>2, LooseEvent DEF F
  <2> HIDE DEF e, f
  <2>4. Loose(log, <<e, f>>)
    BY <2>3, LooseJoined, PairOf
  <2>. QED BY <2>4 DEF e, f
<1>3. CASE RecordCandidate(c, "candidate")
  <2>1. Decide(c, <<Proposal("candidate", "PROPOSED")>>)
    BY <1>3 DEF RecordCandidate
  <2>. QED BY <1>1, <2>1, LoosePlan, DecideKeeps
<1>4. CASE \E kind \in {"HUMAN", "SERVICE"}, status \in {"ACCEPTED", "REJECTED"} :
             ResolveCandidate(c, kind, "candidate", status)
  <2>1. PICK kind, status : ResolveCandidate(c, kind, "candidate", status)
    BY <1>4
  <2> DEFINE q == <<[type |-> "action", id |-> "candidate", status |-> status, kind |-> kind],
                    Proposal("candidate", status)>>
  <2>2. Decide(c, q)
    BY <2>1 DEF ResolveCandidate
  <2>3. Plan(log, q)
    BY <1>2, LoosePlan
  <2> HIDE DEF q
  <2>. QED BY <2>2, <2>3, DecideKeeps
<1>. QED BY <1>3, <1>4 DEF CandidateCommand

-----------------------------------------------------------------------------
(***************************************************************************)
(* The theorems.                                                           *)
(***************************************************************************)
(* The empty log, and nothing planned. *)
LEMMA InitInvariant == CommandInit => IInv
<1> SUFFICES ASSUME CommandInit PROVE IInv
  OBVIOUS
<1>1. log = <<>> /\ todo = [c \in Calls |-> <<>>]
  BY DEF CommandInit
<1>2. IsSeq(<<>>) /\ Len(<<>>) = 0
  BY EmptySeq, AnySeq
<1>3. Lawful(log)
  BY <1>1, <1>2 DEF Lawful
<1>4. \A c \in Calls : Plan(log, todo[c])
  BY <1>1, LooseNone, LoosePlan
<1>. QED BY <1>1, <1>3, <1>4 DEF IInv

(* Every action, one by one. *)
LEMMA StepInvariant == IInv /\ [ForecastNext]_vars => IInv'
<1> SUFFICES ASSUME IInv, [ForecastNext]_vars PROVE IInv'
  OBVIOUS
<1>0. Lawful(log)
  BY DEF IInv
<1>1. ASSUME NEW c \in Calls, MakeForecast(c, {"", "candidate"}) PROVE IInv'
  <2>1. PICK rule \in Rules, p \in Odds, proposal \in {"", "candidate"}, sup \in SUBSET Claims, con \in SUBSET Claims :
               ForecastDo(c, CreateForecast(log, rule, p, proposal, sup, con))
    BY <1>1 DEF MakeForecast
  <2>. QED BY <1>0, <2>1, CreateDraft, DoKeeps
<1>2. ASSUME NEW c \in Calls, MoveForecast(c) PROVE IInv'
  <2>1. PICK p \in Odds : ForecastDo(c, UpdateByHuman(log, p))
    BY <1>2 DEF MoveForecast
  <2>. QED BY <1>0, <2>1, HumanDraft, DoKeeps
<1>3. ASSUME NEW c \in Calls, RecheckForecast(c) PROVE IInv'
  BY <1>0, <1>3, RefreshDraft, DoKeeps DEF RecheckForecast
<1>4. ASSUME NEW c \in Calls, SettleForecast(c) PROVE IInv'
  <2>1. PICK status \in Outcomes : ForecastDo(c, ResolveByHuman(log, status))
    BY <1>4 DEF SettleForecast
  <2>. QED BY <1>0, <2>1, SettleByHumanDraft, DoKeeps
<1>5. ASSUME NEW c \in Calls, NEW i \in ToSet(Indicators), Watch(c, i) PROVE IInv'
  BY <1>0, <1>5, ArmDraft, DoKeeps DEF Watch
<1>6. ASSUME NEW c \in Calls, WatchPass(c) PROVE IInv'
  BY <1>0, <1>6, PassDraft, DoKeeps DEF WatchPass
<1>7. ASSUME NEW c \in Calls, UseCandidate(c) PROVE IInv'
  BY <1>0, <1>7, ModelDraft, DoKeeps DEF UseCandidate
<1>8. ASSUME NEW c \in Calls, ForecastCommand(c) \/ ForecastWrite(c) \/ GiveUp(c) PROVE IInv'
  BY <1>1, <1>2, <1>3, <1>4, <1>5, <1>6, <1>7, <1>8, CandidateKeeps, WriteKeeps, GiveUpKeeps DEF ForecastCommand
<1>9. ASSUME NEW e \in World(log), Report(e) PROVE IInv'
  BY <1>9, ReportKeeps
<1>10. CASE UNCHANGED vars
  <2>1. log' = log /\ todo' = todo
    BY <1>10 DEF vars
  <2>. QED BY <2>1 DEF IInv
<1>. QED BY <1>8, <1>9, <1>10 DEF ForecastNext

(* Whatever the commands of forecasts.py and indicators.py do, and in      *)
(* whatever order their appends come, the log stays lawful and every plan  *)
(* is good for it.                                                         *)
THEOREM ForecastInvariant == ForecastSpec => []IInv
<1>. QED BY InitInvariant, StepInvariant, PTL DEF ForecastSpec

(* No command that read the forecast live revises it once it is settled,   *)
(* but for a creation that comes late to its mark (forecasts.py 54-103).   *)
THEOREM ForecastsSettledStand == ForecastSpec => []SettledStands
<1>1. IInv => SettledStands
  BY LawSettled DEF IInv
<1>. QED BY <1>1, ForecastInvariant, PTL

(* The number moves only by a person, by the first use of an accepted      *)
(* candidate or by a firing that nothing has carried out yet, but for the  *)
(* same creation.                                                          *)
THEOREM ForecastsMoveByAuthority == ForecastSpec => []MovesAreAuthorized
<1>1. IInv => MovesAreAuthorized
  BY LawMoves DEF IInv
<1>. QED BY <1>1, ForecastInvariant, PTL

(* A rule settles the forecast as false only on a log that holds a search  *)
(* of every declared source, or the claim seen different, after the        *)
(* horizon.                                                                *)
THEOREM ForecastsNeedALook == ForecastSpec => []SilenceIsNotFalse
<1>1. IInv => SilenceIsNotFalse
  BY LawSilence DEF IInv
<1>. QED BY <1>1, ForecastInvariant, PTL

(* A firing is recorded as carried out only when its effect is in the log. *)
THEOREM ForecastsFiringsAreComplete == ForecastSpec => []FiringsAreComplete
<1>1. IInv => FiringsAreComplete
  BY LawFirings DEF IInv
<1>. QED BY <1>1, ForecastInvariant, PTL

-----------------------------------------------------------------------------
(***************************************************************************)
(* What people have decided stands, in the whole of the analytic plane:    *)
(* for every set of calls and of objects, with every engine and the        *)
(* propagation at work on one log, however their commands interleave.      *)
(*                                                                         *)
(* The records that people decide on are themes, edges, assumptions,       *)
(* paths, objectives and response options.  A version of one stands on a   *)
(* log if it is the next and does not take back what the one before it     *)
(* says (Stands); a log is orderly if each version stood on the log before *)
(* it, and JudgmentStands follows (LawJudgments).  A command that has such *)
(* a version still to append has worked it out on an earlier log           *)
(* (Grounded), and the store accepts it only if no other came since, so it *)
(* still stands (StandsStill).  What waits behind it in the queue was read *)
(* earlier still and is stamped with whatever version is next by then; so  *)
(* it must be harmless wherever it lands (Steady): a first version, or one *)
(* that only says what a person has decided.                               *)
(***************************************************************************)

Judged == {T, "edge", "assumption", "path", "objective", "option"}

(* What the proof needs to know of the records. *)
Shaped(e) ==
  /\ {"type", "id"} \subseteq DOMAIN e
  /\ e.type = "ensure" => ~Versioned(e)
  /\ e.type \in Judged => Versioned(e)
  /\ e.type = T => {"status", "lineage"} \subseteq DOMAIN e
  /\ e.type = "edge" => "relation" \in DOMAIN e
  /\ e.type \in {"assumption", "path", "objective", "option"} => "status" \in DOMAIN e
  /\ e.type = "assumption" => {"sup", "objectives"} \subseteq DOMAIN e /\ IsFiniteSet(e.objectives)
  /\ e.type = "path" => e.status \in {"ASSESSED", "STALE"}
  /\ e.type = N => "basis" \in DOMAIN e /\ e.basis.sup \subseteq Claims
  /\ e.type = "variant" => "claims" \in DOMAIN e /\ e.claims \subseteq Claims

(* An assumption that goes on with a version from before its mark. *)
Unmarked(l, was, id) == \E i \in Versions(l, "assumption", id) : was = l[i] /\ ~Marked(Prefix(l, i), id, "HELD")
Resumes(l, e) == \E i \in Versions(l, "assumption", e.id) :
  /\ ~Marked(Prefix(l, i), e.id, "HELD")
  /\ e = [l[i] EXCEPT !.version = e.version, !.sup = e.sup, !.objectives = e.objectives]

(* A version may come after another. *)
Follows(l, e, was) ==
  /\ e.type = T => (was.status \in Retired /\ e.status \notin Retired => \E p \in e.lineage \ was.lineage : p[1] = "MERGED_FROM")
  /\ e.type = "edge" => e.relation = "INDEPENDENT_ADOPTION"
  /\ e.type = "assumption" => (was.status = "INVALIDATED" => e.status = "INVALIDATED" \/ Resumes(l, e))
  /\ e.type = "path" => was.status = "ASSESSED" /\ e.status = "STALE"
  /\ e.type = "objective" => e.status = "EXPOSED"
  /\ e.type = "option" => was.status = "PROPOSED"

Stands(l, e)   == e.version = NextOf(l, e.type, e.id) /\ (Known(l, e.type, e.id) => Follows(l, e, Current(l, e.type, e.id)))
Grounded(l, e) == \E d \in 0 .. Len(l) : Stands(Prefix(l, d), e)

Orderly(l) ==
  /\ IsSeq(l)
  /\ \A n \in 1 .. Len(l) : Shaped(l[n]) /\ (l[n].type \in Judged => Stands(Prefix(l, n - 1), l[n]))

(***************************************************************************)
(* Queues.                                                                 *)
(***************************************************************************)
(* Harmless whatever comes before it. *)
Settling(e) == \/ e.type = T /\ e.status \in Retired
               \/ e.type = "edge" /\ e.relation = "INDEPENDENT_ADOPTION"
               \/ e.type = "objective" /\ e.status = "EXPOSED"
               \/ e.type = "assumption" /\ e.status = "INVALIDATED"

(* What a step needs to find. *)
Asks(l, what, p) ==
  /\ what = "membership" => Known(l, T, p[1])
  /\ what = "retell" => Shaped(p.was) /\ p.was.type = N /\ p.sup \subseteq Claims
  /\ what = "join" => Shaped(p.was) /\ p.was.type = N /\ p.form \in DOMAIN Forms
  /\ what = "recheck" => Known(l, A, p.id)
  /\ what = "more" => {"was", "ps"} \subseteq DOMAIN p /\ Shaped(p.was) /\ p.was.type = A /\ Known(l, A, p.was.id)
  /\ what = "caveats" => Shaped(p) /\ p.type = A
  /\ what = "fold assumption" => Unmarked(l, p.was, p.id) /\ IsFiniteSet(p.objectives)
  /\ what = "fallout" => Known(l, "assumption", p)
  /\ what = "stale" => Known(l, "path", p[1])
  /\ what = "object" => IsFiniteSet(p[2])
  /\ what = "evidence" => Shaped(p.was) /\ p.was.type = F
  /\ what = "check" => Shaped(p) /\ p.type = "indicator"
  /\ what = "add to episode" => Shaped(p.was) /\ p.was.type = E

IsStep(S, e) == e.type = "step" /\ {"what", "id"} \subseteq DOMAIN e /\ e.what \in S
Steady(S, l, e) ==
  /\ Shaped(e)
  /\ e.type \in Judged => e.version = 0 \/ Settling(e)
  /\ e.type = "step" => IsStep(S, e) /\ Asks(l, e.what, e.id)

(* Right on the log of the moment. *)
Restamped(l, e) == [e EXCEPT !.version = NextVersion(l, e)]
Apt(S, l, e) ==
  /\ Shaped(e)
  /\ \/ e.type \in Judged /\ Stands(l, Restamped(l, e))
     \/ /\ IsStep(S, e) /\ e.what = "fold assumption" /\ Known(l, "assumption", e.id.id)
        /\ e.id.was = Current(l, "assumption", e.id.id) /\ IsFiniteSet(e.id.objectives)

(* What a command decides on, and what it has come to. *)
Drafted(S, l, q) ==
  /\ IsSeq(q)
  /\ \A n \in 1 .. Len(q) : Steady(S, l, q[n]) \/ (Apt(S, l, q[n]) /\ \A k \in 1 .. n - 1 : Superfluous(l, q[k]))
Calm(S, l, q) == IsSeq(q) /\ \A n \in 1 .. Len(q) : Steady(S, l, q[n])
Queued(S, l, q) ==
  /\ IsSeq(q)
  /\ \A n \in 2 .. Len(q) : Steady(S, l, q[n])
  /\ q # <<>> => Shaped(q[1]) /\ (q[1].type \in Judged => Grounded(l, q[1]))
Leads(S, l, q) == q # <<>> /\ q[1].type = "step" => Steady(S, l, q[1]) \/ Apt(S, l, q[1])

ThemeSteps == {"part", "membership"}
ImpactSteps == {"fold assumption", "fallout", "stale", "expose", "expose each"}
WarningSteps == {"project"}
PassSteps == {"object", "alerts", "all caveats", "plane", "refresh forecast", "all warnings"}
AllSteps == PassSteps \cup ThemeSteps \cup NarrativeSteps \cup StakeholderSteps \cup AnalogueSteps
              \cup ForecastSteps \cup WarningSteps \cup ImpactSteps

JInv == Orderly(log) /\ DOMAIN todo = Calls /\ \A c \in Calls : Queued(AllSteps, log, todo[c])

-----------------------------------------------------------------------------
(***************************************************************************)
(* Orderly logs.                                                           *)
(***************************************************************************)
(* A prefix that holds all versions of a record ends with the same one.    *)
LEMMA SameCurrent ==
  ASSUME NEW l, IsSeq(l), NEW d \in 0 .. Len(l), NEW t, NEW id, \A i \in Versions(l, t, id) : i <= d
  PROVE  /\ Versions(Prefix(l, d), t, id) = Versions(l, t, id)
         /\ Known(Prefix(l, d), t, id) <=> Known(l, t, id)
         /\ Known(l, t, id) => Current(Prefix(l, d), t, id) = Current(l, t, id)
<1>1. Versions(Prefix(l, d), t, id) = Versions(l, t, id)
  BY PrefixVersions
<1>2. ASSUME Known(l, t, id) PROVE Current(Prefix(l, d), t, id) = Current(l, t, id)
  <2> DEFINE i == Max(Versions(l, t, id))
  <2>1. i \in Versions(l, t, id) /\ Len(l) \in Nat /\ Versions(l, t, id) \subseteq 1 .. Len(l)
    BY <1>2, SeqFacts, VersionsFacts, MaxOf DEF Known
  <2>2. i \in 1 .. d
    BY <2>1
  <2>3. Prefix(l, d)[i] = l[i]
    BY <2>2, PrefixFacts
  <2>. QED BY <1>1, <2>3 DEF Current
<1>. QED BY <1>1, <1>2 DEF Known

LEMMA StillResumes ==
  ASSUME NEW l, IsSeq(l), NEW m, Extends(m, l), NEW e, Resumes(l, e)
  PROVE  Resumes(m, e)
<1>1. PICK i \in Versions(l, "assumption", e.id) :
         /\ ~Marked(Prefix(l, i), e.id, "HELD")
         /\ e = [l[i] EXCEPT !.version = e.version, !.sup = e.sup, !.objectives = e.objectives]
  BY DEF Resumes
<1>2. i \in 1 .. Len(l) /\ m[i] = l[i] /\ i \in Versions(m, "assumption", e.id)
  BY MoreVersions
<1>3. Prefix(m, i) = Prefix(l, i)
  BY <1>2, SamePrefix, SeqFacts
<1>. QED BY <1>1, <1>2, <1>3 DEF Resumes

(* What was right on a prefix is right as long as no version came since.   *)
LEMMA StandsStill ==
  ASSUME NEW l, IsSeq(l), NEW e, Grounded(l, e), e.version = NextOf(l, e.type, e.id)
  PROVE  Stands(l, e)
<1>1. PICK d \in 0 .. Len(l) : Stands(Prefix(l, d), e)
  BY DEF Grounded
<1>2. Len(l) \in Nat /\ Prefix(l, Len(l)) = l
  BY SeqFacts, PrefixWhole
<1>3. NextOf(Prefix(l, d), e.type, e.id) = NextOf(Prefix(l, Len(l)), e.type, e.id)
  BY <1>1, <1>2 DEF Stands
<1>4. \A i \in Versions(l, e.type, e.id) : i <= Len(l)
  BY <1>2, VersionsFacts
<1>5. \A i \in Versions(l, e.type, e.id) : i <= d
  BY <1>2, <1>3, <1>4, SameVersions
<1>6. ASSUME Known(l, e.type, e.id) PROVE Follows(l, e, Current(l, e.type, e.id))
  <2>1. Follows(Prefix(l, d), e, Current(l, e.type, e.id))
    BY <1>1, <1>5, <1>6, SameCurrent DEF Stands
  <2>2. Resumes(Prefix(l, d), e) => Resumes(l, e)
    BY PrefixPart, PrefixFacts, StillResumes
  <2>. QED BY <2>1, <2>2 DEF Follows
<1>. QED BY <1>6 DEF Stands

(* Of two successive versions, the second follows the first. *)
LEMMA Succeeds ==
  ASSUME NEW l, Orderly(l), NEW t \in Judged, NEW id, NEW k \in Versions(l, t, id), NEW n \in Versions(l, t, id),
         l[n].version = l[k].version + 1
  PROVE  n \in 1 .. Len(l) /\ Follows(Prefix(l, n - 1), l[n], l[k])
<1>1. IsSeq(l) /\ Len(l) \in Nat
  BY SeqFacts DEF Orderly
<1>2. Versions(l, t, id) = {i \in 1 .. Len(l) : l[i].type = t /\ l[i].id = id}
  BY <1>1, VersionsFacts
<1>3. \A i \in Versions(l, t, id) : Stands(Prefix(l, i - 1), l[i])
  BY <1>2 DEF Orderly
<1>4. \A i \in Versions(l, t, id) : l[i].version = NextOf(Prefix(l, i - 1), t, id)
  BY <1>2, <1>3 DEF Stands
<1>5. k < n /\ \A i \in Versions(l, t, id) : i < n => i <= k
  BY <1>1, <1>4, Previous
<1> DEFINE p == Prefix(l, n - 1)
<1>6. n - 1 \in 0 .. Len(l) /\ k \in 1 .. n - 1 /\ n - 1 \in Nat
  BY <1>1, <1>2, <1>5
<1>7. IsSeq(p) /\ p[k] = l[k] /\ Versions(p, t, id) = {i \in Versions(l, t, id) : i <= n - 1}
  <2> DEFINE d == n - 1
  <2>1. d \in 0 .. Len(l) /\ k \in 1 .. d
    BY <1>6
  <2> HIDE DEF d
  <2>2. IsSeq(Prefix(l, d)) /\ Prefix(l, d)[k] = l[k]
    BY <1>1, <2>1, PrefixFacts
  <2>3. Versions(Prefix(l, d), t, id) = {i \in Versions(l, t, id) : i <= d}
    BY <1>1, <2>1, PrefixVersions
  <2>. QED BY <2>2, <2>3 DEF d
<1>8. k \in Versions(p, t, id) /\ \A i \in Versions(p, t, id) : i <= k
  BY <1>1, <1>2, <1>5, <1>6, <1>7
<1>9. Known(p, t, id)
  BY <1>8 DEF Known
<1>10. PICK i \in Versions(p, t, id) : Current(p, t, id) = p[i] /\ \A j \in Versions(p, t, id) : j <= i
  BY <1>7, <1>9, CurrentFacts
<1>11. i = k
  BY <1>1, <1>2, <1>7, <1>8, <1>10
<1>12. Current(p, t, id) = l[k]
  BY <1>7, <1>10, <1>11
<1>13. l[n].type = t /\ l[n].id = id
  BY <1>2
<1> HIDE DEF p
<1>14. Follows(p, l[n], l[k])
  BY <1>3, <1>9, <1>12, <1>13 DEF Stands, p
<1>. QED BY <1>2, <1>14 DEF p

LEMMA RevisionFollows ==
  ASSUME Orderly(log), NEW t \in Judged, NEW r \in Revisions(t)
  PROVE  /\ r[2] \in 1 .. Len(log) /\ log[r[2]].type = t
         /\ Follows(Prefix(log, r[2] - 1), log[r[2]], log[r[1]])
<1>1. r[1] \in Of(t) /\ r[2] \in Of(t) /\ log[r[1]].id = log[r[2]].id /\ log[r[2]].version = log[r[1]].version + 1
  BY DEF Revisions
<1>2. IsSeq(log)
  BY DEF Orderly
<1>3. r[1] \in Versions(log, t, log[r[2]].id) /\ r[2] \in Versions(log, t, log[r[2]].id)
  BY <1>1, <1>2, VersionsFacts DEF Of
<1>4. log[r[2]].type = t
  BY <1>1 DEF Of
<1>. QED BY <1>1, <1>3, <1>4, Succeeds

(* On an orderly log, what people have decided stands. *)
LEMMA LawJudgments == Orderly(log) => JudgmentStands
<1> SUFFICES ASSUME Orderly(log) PROVE JudgmentStands
  OBVIOUS
<1>1. IsSeq(log) /\ Len(log) \in Nat
  BY SeqFacts DEF Orderly
<1>2. AdoptionStands
  <2>1. ASSUME NEW r \in Revisions("edge") PROVE log[r[2]].relation = "INDEPENDENT_ADOPTION"
    BY RevisionFollows DEF Follows, Judged
  <2>. QED BY <2>1 DEF AdoptionStands
<1>3. RetiredStays
  <2>1. ASSUME NEW r \in Revisions(T), log[r[1]].status \in Retired, log[r[2]].status \notin Retired
        PROVE  \E p \in log[r[2]].lineage \ log[r[1]].lineage : p[1] = "MERGED_FROM"
    BY <2>1, RevisionFollows DEF Follows, Judged
  <2>. QED BY <2>1 DEF RetiredStays
<1>4. ASSUME NEW r \in Revisions("assumption"), log[r[1]].status = "INVALIDATED"
      PROVE  log[r[2]].status = "INVALIDATED" \/ Reheld(r[2])
  <2> DEFINE n == r[2]
  <2>1. n \in 1 .. Len(log) /\ log[n].type = "assumption" /\ Follows(Prefix(log, n - 1), log[n], log[r[1]])
    BY <1>4, RevisionFollows DEF Judged
  <2> HIDE DEF n
  <2>2. CASE log[n].status = "INVALIDATED"
    BY <2>2 DEF n
  <2>3. CASE Resumes(Prefix(log, n - 1), log[n])
    <3> DEFINE p == Prefix(log, n - 1)
    <3>1. n - 1 \in 0 .. Len(log) /\ n \in Nat
      BY <1>1, <2>1
    <3>2. PICK i \in Versions(p, "assumption", log[n].id) :
            /\ ~Marked(Prefix(p, i), log[n].id, "HELD")
            /\ log[n] = [p[i] EXCEPT !.version = log[n].version, !.sup = log[n].sup, !.objectives = log[n].objectives]
      BY <2>3 DEF Resumes
    <3>3. IsSeq(p) /\ Len(p) = n - 1 /\ Extends(log, p)
      BY <1>1, <3>1, PrefixFacts, PrefixPart
    <3>4. i \in Versions(log, "assumption", log[n].id) /\ i \in 1 .. n - 1 /\ p[i] = log[i]
      BY <3>3, MoreVersions
    <3>5. i \in 0 .. n - 1 /\ i < n
      BY <3>1, <3>4
    <3>6. Prefix(p, i) = Prefix(log, i)
      BY <1>1, <3>1, <3>5, PrefixOfPrefix
    <3> HIDE DEF p
    <3>7. Reheld(n)
      BY <3>2, <3>4, <3>5, <3>6 DEF Reheld, Prefix
    <3>. QED BY <3>7 DEF n
  <2>. QED BY <1>4, <2>1, <2>2, <2>3 DEF Follows
<1>5. ASSUME NEW r \in Revisions("path") PROVE log[r[1]].status = "ASSESSED" /\ log[r[2]].status = "STALE"
  BY RevisionFollows DEF Follows, Judged
<1>6. ASSUME NEW r \in Revisions("objective") PROVE log[r[2]].status = "EXPOSED"
  BY RevisionFollows DEF Follows, Judged
<1>7. ASSUME NEW r \in Revisions("option") PROVE log[r[1]].status = "PROPOSED"
  BY RevisionFollows DEF Follows, Judged
<1>8. FallenStays
  BY <1>4, <1>5, <1>6, <1>7 DEF FallenStays
<1>. QED BY <1>2, <1>3, <1>8 DEF JudgmentStands

-----------------------------------------------------------------------------
(***************************************************************************)
(* Queues stay good while others append.                                   *)
(***************************************************************************)
LEMMA StillKnown ==
  ASSUME NEW l, IsSeq(l), NEW m, Extends(m, l), NEW t, NEW id, Known(l, t, id)
  PROVE  Known(m, t, id)
BY MoreVersions DEF Known

LEMMA StillUnmarked ==
  ASSUME NEW l, IsSeq(l), NEW m, Extends(m, l), NEW was, NEW id, Unmarked(l, was, id)
  PROVE  Unmarked(m, was, id)
<1>1. PICK i \in Versions(l, "assumption", id) : was = l[i] /\ ~Marked(Prefix(l, i), id, "HELD")
  BY DEF Unmarked
<1>2. i \in 1 .. Len(l) /\ m[i] = l[i] /\ i \in Versions(m, "assumption", id)
  BY MoreVersions
<1>3. Prefix(m, i) = Prefix(l, i)
  BY <1>2, SamePrefix, SeqFacts
<1>. QED BY <1>1, <1>2, <1>3 DEF Unmarked

LEMMA StillAsks ==
  ASSUME NEW l, IsSeq(l), NEW m, Extends(m, l), NEW what, NEW p, Asks(l, what, p)
  PROVE  Asks(m, what, p)
BY StillKnown, StillUnmarked DEF Asks

LEMMA StillSteady ==
  ASSUME NEW S, NEW l, IsSeq(l), NEW m, Extends(m, l), NEW e, Steady(S, l, e)
  PROVE  Steady(S, m, e)
BY StillAsks DEF Steady

LEMMA StillGrounded ==
  ASSUME NEW l, IsSeq(l), NEW m, Extends(m, l), NEW e, Grounded(l, e)
  PROVE  Grounded(m, e)
<1>1. PICK d \in 0 .. Len(l) : Stands(Prefix(l, d), e)
  BY DEF Grounded
<1>2. Len(l) \in Nat /\ Len(m) \in Nat /\ Len(l) <= Len(m)
  BY SeqFacts DEF Extends
<1>3. d \in 0 .. Len(m) /\ Prefix(m, d) = Prefix(l, d)
  BY <1>2, SamePrefix
<1>. QED BY <1>1, <1>3 DEF Grounded

LEMMA StillQueued ==
  ASSUME NEW S, NEW l, IsSeq(l), NEW m, Extends(m, l), NEW q, Queued(S, l, q)
  PROVE  Queued(S, m, q)
BY StillSteady, StillGrounded DEF Queued

(* More kinds of steps. *)
LEMMA MoreSteps ==
  ASSUME NEW S, NEW R, S \subseteq R, NEW l, NEW q, Queued(S, l, q)
  PROVE  Queued(R, l, q)
<1>1. \A e : Steady(S, l, e) => Steady(R, l, e)
  BY DEF Steady, IsStep
<1>. QED BY <1>1 DEF Queued

(***************************************************************************)
(* How drafts are put together.                                            *)
(***************************************************************************)
LEMMA CalmDrafted ==
  ASSUME NEW S, NEW l, NEW q, Calm(S, l, q)
  PROVE  Drafted(S, l, q)
BY DEF Calm, Drafted

LEMMA CalmNone ==
  ASSUME NEW S, NEW l
  PROVE  Calm(S, l, <<>>)
<1>1. IsSeq(<<>>) /\ Len(<<>>) = 0
  BY EmptySeq, AnySeq
<1>. QED BY <1>1 DEF Calm

LEMMA CalmOne ==
  ASSUME NEW S, NEW l, NEW e, Steady(S, l, e)
  PROVE  Calm(S, l, <<e>>)
<1> DEFINE q == <<e>>
<1>1. IsSeq(q) /\ Len(q) = 1 /\ q[1] = e
  BY Single
<1> HIDE DEF q
<1>2. Calm(S, l, q)
  BY <1>1 DEF Calm
<1>. QED BY <1>2 DEF q

LEMMA DraftedOne ==
  ASSUME NEW S, NEW l, NEW e, Apt(S, l, e)
  PROVE  Drafted(S, l, <<e>>)
<1> DEFINE q == <<e>>
<1>1. IsSeq(q) /\ Len(q) = 1 /\ q[1] = e
  BY Single
<1> HIDE DEF q
<1>2. Drafted(S, l, q)
  BY <1>1 DEF Drafted
<1>. QED BY <1>2 DEF q

LEMMA CalmJoined ==
  ASSUME NEW S, NEW l, NEW q, Calm(S, l, q), NEW r, Calm(S, l, r)
  PROVE  Calm(S, l, q \o r)
<1> DEFINE p == q \o r
<1>1. IsSeq(q) /\ IsSeq(r) /\ Len(q) \in Nat /\ Len(r) \in Nat
  BY SeqFacts DEF Calm
<1>2. /\ IsSeq(p) /\ Len(p) = Len(q) + Len(r)
      /\ \A n \in 1 .. Len(q) : p[n] = q[n]
      /\ \A n \in 1 .. Len(r) : p[Len(q) + n] = r[n]
  BY <1>1, Joined
<1> HIDE DEF p
<1>3. ASSUME NEW n \in 1 .. Len(p) PROVE Steady(S, l, p[n])
  <2>1. CASE n \in 1 .. Len(q)
    BY <2>1, <1>2 DEF Calm
  <2>2. CASE n \notin 1 .. Len(q)
    <3>1. n - Len(q) \in 1 .. Len(r) /\ n = Len(q) + (n - Len(q))
      BY <2>2, <1>1, <1>2
    <3>. QED BY <3>1, <1>2 DEF Calm
  <2>. QED BY <2>1, <2>2
<1>4. Calm(S, l, p)
  BY <1>2, <1>3 DEF Calm
<1>. QED BY <1>4 DEF p

LEMMA DraftedJoined ==
  ASSUME NEW S, NEW l, NEW q, Drafted(S, l, q), NEW r, Calm(S, l, r)
  PROVE  Drafted(S, l, q \o r)
<1> DEFINE p == q \o r
<1>1. IsSeq(q) /\ IsSeq(r) /\ Len(q) \in Nat /\ Len(r) \in Nat
  BY SeqFacts DEF Calm, Drafted
<1>2. /\ IsSeq(p) /\ Len(p) = Len(q) + Len(r)
      /\ \A n \in 1 .. Len(q) : p[n] = q[n]
      /\ \A n \in 1 .. Len(r) : p[Len(q) + n] = r[n]
  BY <1>1, Joined
<1> HIDE DEF p
<1>3. ASSUME NEW n \in 1 .. Len(p)
      PROVE  Steady(S, l, p[n]) \/ (Apt(S, l, p[n]) /\ \A k \in 1 .. n - 1 : Superfluous(l, p[k]))
  <2>1. CASE n \in 1 .. Len(q)
    <3>1. \A k \in 1 .. n - 1 : p[k] = q[k]
      BY <2>1, <1>1, <1>2
    <3>. QED BY <2>1, <3>1, <1>2 DEF Drafted
  <2>2. CASE n \notin 1 .. Len(q)
    <3>1. n - Len(q) \in 1 .. Len(r) /\ n = Len(q) + (n - Len(q))
      BY <2>2, <1>1, <1>2
    <3>. QED BY <3>1, <1>2 DEF Calm
  <2>. QED BY <2>1, <2>2
<1>4. Drafted(S, l, p)
  BY <1>2, <1>3 DEF Drafted
<1>. QED BY <1>4 DEF p

(* A first event, which need not be steady, and what comes behind it. *)
LEMMA DraftedPair ==
  ASSUME NEW S, NEW l, NEW a, Steady(S, l, a) \/ Apt(S, l, a), NEW b, Steady(S, l, b)
  PROVE  Drafted(S, l, <<a>>) /\ Drafted(S, l, <<a, b>>)
<1>1. Drafted(S, l, <<a>>)
  BY CalmOne, CalmDrafted, DraftedOne
<1>2. Drafted(S, l, <<a>> \o <<b>>)
  BY <1>1, CalmOne, DraftedJoined
<1>. QED BY <1>1, <1>2, PairOf

LEMMA CalmPair ==
  ASSUME NEW S, NEW l, NEW a, Steady(S, l, a), NEW b, Steady(S, l, b)
  PROVE  Calm(S, l, <<a, b>>)
<1>1. Calm(S, l, <<a>> \o <<b>>)
  BY CalmOne, CalmJoined
<1>. QED BY <1>1, PairOf

LEMMA MapLength ==
  ASSUME NEW n \in Nat, NEW f, f = [k \in 1 .. n |-> f[k]]
  PROVE  IsSeq(f) /\ Len(f) = n
<1> DEFINE R == {f[k] : k \in 1 .. n}
<1>1. f \in [1 .. n -> R]
  OBVIOUS
<1> HIDE DEF R
<1>2. f \in Seq(R)
  BY <1>1
<1>3. Len(f) = n
  BY <1>1, <1>2, LenProperties
<1>. QED BY <1>2, <1>3, AnySeq

LEMMA CalmMapped ==
  ASSUME NEW S, NEW l, NEW n \in Nat, NEW f, f = [k \in 1 .. n |-> f[k]], \A k \in 1 .. n : Steady(S, l, f[k])
  PROVE  Calm(S, l, f)
BY MapLength DEF Calm

(***************************************************************************)
(* What Settle makes of a draft is a queue.                                *)
(***************************************************************************)
LEMMA ShapedVersion ==
  ASSUME NEW e, Shaped(e), Versioned(e), NEW v
  PROVE  LET f == [e EXCEPT !.version = v] IN
         /\ Shaped(f) /\ Versioned(f) /\ f.version = v /\ f.type = e.type /\ f.id = e.id
         /\ Settling(e) => Settling(f)
<1> DEFINE f == [e EXCEPT !.version = v]
<1>1. DOMAIN f = DOMAIN e /\ "version" \in DOMAIN e /\ f.version = v
  BY DEF Versioned
<1>2. \A x \in DOMAIN e : x # "version" => f[x] = e[x]
  OBVIOUS
<1> HIDE DEF f
<1>3. f.type = e.type /\ f.id = e.id
  BY <1>2 DEF Shaped
<1>4. Versioned(f)
  BY <1>1 DEF Versioned
<1>5. /\ e.type = T => f.status = e.status
      /\ e.type = "edge" => f.relation = e.relation
      /\ e.type \in {"assumption", "path", "objective", "option"} => f.status = e.status
      /\ e.type = "assumption" => f.objectives = e.objectives
      /\ e.type = N => f.basis = e.basis
      /\ e.type = "variant" => f.claims = e.claims
  BY <1>2 DEF Shaped
<1>6. Shaped(f)
  BY <1>1, <1>3, <1>4, <1>5 DEF Shaped
<1>7. Settling(e) => Settling(f)
  BY <1>3, <1>5 DEF Settling
<1>. QED BY <1>1, <1>3, <1>4, <1>6, <1>7 DEF f

LEMMA NextIs ==
  ASSUME NEW l, IsSeq(l), NEW e
  PROVE  /\ NextVersion(l, e) = NextOf(l, e.type, e.id)
         /\ NextOf(l, e.type, e.id) \in Nat
BY PrefixWhole, FewerVersions, SeqFacts DEF NextVersion, NextOf

(* A first version stands on the empty log. *)
LEMMA FirstVersion ==
  ASSUME NEW l, IsSeq(l), NEW e, e.version = 1
  PROVE  Grounded(l, e)
<1>1. 0 \in 0 .. Len(l) /\ IsSeq(Prefix(l, 0)) /\ Len(Prefix(l, 0)) = 0
  BY SeqFacts, PrefixFacts
<1>2. Versions(Prefix(l, 0), e.type, e.id) = {}
  BY <1>1, VersionsFacts
<1>3. Stands(Prefix(l, 0), e)
  BY <1>2, FS_EmptySet DEF Stands, NextOf, Known
<1>. QED BY <1>1, <1>3 DEF Grounded

(* What stands on the log of the moment is grounded. *)
LEMMA StandsNow ==
  ASSUME NEW l, IsSeq(l), NEW e, Stands(l, e)
  PROVE  Grounded(l, e)
<1>1. Len(l) \in 0 .. Len(l) /\ Prefix(l, Len(l)) = l
  BY SeqFacts, PrefixWhole
<1>. QED BY <1>1 DEF Grounded

(* A steady event is stamped so that it can come first. *)
LEMMA StampSteady ==
  ASSUME NEW S, NEW l, IsSeq(l), NEW e, Steady(S, l, e)
  PROVE  LET f == Stamp(l, e) IN
         Shaped(f) /\ (f.type \in Judged => Grounded(l, f)) /\ (f.type = "step" => Steady(S, l, f))
<1> DEFINE f == Stamp(l, e)
<1>1. Shaped(e)
  BY DEF Steady
<1>2. CASE Versioned(e)
  <2>1. e.type # "ensure"
    BY <1>1, <1>2 DEF Shaped
  <2>2. f = [e EXCEPT !.version = IF e.version = 0 THEN 1 ELSE NextVersion(l, e)]
    BY <1>2, <2>1, StampVersion
  <2>3. Shaped(f) /\ f.type = e.type /\ f.id = e.id /\ (Settling(e) => Settling(f))
        /\ f.version = IF e.version = 0 THEN 1 ELSE NextVersion(l, e)
    BY <1>1, <1>2, <2>2, ShapedVersion
  <2> HIDE DEF f
  <2>4. ASSUME e.type \in Judged PROVE Grounded(l, f)
    <3>1. CASE e.version = 0
      BY <3>1, <2>3, FirstVersion
    <3>2. CASE e.version # 0
      <4>1. Settling(f) /\ f.version = NextOf(l, f.type, f.id)
        BY <3>2, <2>3, <2>4, NextIs DEF Steady
      <4>2. Stands(l, f)
        BY <4>1 DEF Stands, Settling, Follows, T
      <4>. QED BY <4>2, StandsNow
    <3>. QED BY <3>1, <3>2
  <2>5. ASSUME e.type = "step" PROVE Steady(S, l, f)
    <3>1. IsStep(S, e) /\ Asks(l, e.what, e.id)
      BY <2>5 DEF Steady
    <3>2. f.what = e.what /\ "what" \in DOMAIN f /\ "id" \in DOMAIN f
      BY <3>1, <2>2 DEF IsStep
    <3>. QED BY <2>3, <2>5, <3>1, <3>2 DEF Steady, IsStep, Judged, T
  <2>. QED BY <2>3, <2>4, <2>5 DEF f
<1>3. CASE ~Versioned(e) /\ e.type = "ensure"
  <2>1. f = Transition(e.id, e.what, e.cause)
    BY <1>3 DEF Stamp
  <2>2. Shaped(f) /\ f.type = "transition"
    BY <2>1 DEF Transition, Shaped, Judged, T, N
  <2>. QED BY <2>2 DEF Judged, T
<1>4. CASE ~Versioned(e) /\ e.type # "ensure"
  <2>1. f = e
    BY <1>4 DEF Stamp
  <2>2. e.type \notin Judged
    BY <1>1, <1>4 DEF Shaped
  <2>. QED BY <1>1, <2>1, <2>2
<1>. QED BY <1>2, <1>3, <1>4

LEMMA StampApt ==
  ASSUME NEW S, NEW l, IsSeq(l), NEW e, Apt(S, l, e)
  PROVE  LET f == Stamp(l, e) IN
         Shaped(f) /\ (f.type \in Judged => Grounded(l, f)) /\ (f.type = "step" => Apt(S, l, f))
<1> DEFINE f == Stamp(l, e)
<1>1. Shaped(e)
  BY DEF Apt
<1>2. CASE e.type \in Judged /\ e.version # 0
  <2>1. Versioned(e) /\ e.type # "ensure"
    BY <1>1, <1>2 DEF Shaped
  <2>2. f = Restamped(l, e)
    BY <1>2, <2>1, StampVersion DEF Restamped
  <2>3. Shaped(f) /\ f.type = e.type
    BY <1>1, <2>1, <2>2, ShapedVersion DEF Restamped
  <2>4. Stands(l, f)
    BY <1>2, <2>2 DEF Apt, IsStep, Judged, T
  <2>. QED BY <1>2, <2>3, <2>4, StandsNow DEF Judged, T
<1>3. CASE e.type \in Judged /\ e.version = 0
  <2>1. Steady(S, l, e)
    BY <1>1, <1>3 DEF Steady, Judged, T
  <2>2. f.type = e.type
    <3>1. Versioned(e) /\ e.type # "ensure"
      BY <1>1, <1>3 DEF Shaped
    <3>2. f = [e EXCEPT !.version = IF e.version = 0 THEN 1 ELSE NextVersion(l, e)]
      BY <3>1, StampVersion
    <3>. QED BY <1>1, <3>1, <3>2, ShapedVersion
  <2>. QED BY <1>3, <2>1, <2>2, StampSteady DEF Judged, T
<1>4. CASE e.type \notin Judged
  <2>1. e.type = "step"
    BY <1>4 DEF Apt, IsStep
  <2>2. ~Versioned(e) => f = e
    BY <2>1 DEF Stamp
  <2>3. ASSUME Versioned(e) PROVE f = [e EXCEPT !.version = IF e.version = 0 THEN 1 ELSE NextVersion(l, e)]
    BY <2>1, <2>3, StampVersion
  <2>4. ASSUME Versioned(e)
        PROVE  Shaped(f) /\ f.type = "step" /\ f.id = e.id /\ f.what = e.what /\ {"what", "id"} \subseteq DOMAIN f
    <3>1. "what" \in DOMAIN e /\ "id" \in DOMAIN e
      BY <1>4 DEF Apt, IsStep
    <3>2. f.what = e.what /\ {"what", "id"} \subseteq DOMAIN f
      BY <2>3, <2>4, <3>1
    <3>3. f = [e EXCEPT !.version = IF e.version = 0 THEN 1 ELSE NextVersion(l, e)]
      BY <2>3, <2>4
    <3>4. Shaped(f) /\ f.type = e.type /\ f.id = e.id
      BY <1>1, <2>4, <3>3, ShapedVersion
    <3>. QED BY <2>1, <3>2, <3>4
  <2>5. Apt(S, l, e) => Apt(S, l, f)
    BY <1>4, <2>1, <2>2, <2>4 DEF Apt, IsStep
  <2>. QED BY <1>1, <1>4, <2>1, <2>2, <2>4, <2>5
<1>. QED BY <1>2, <1>3, <1>4

LEMMA SettleQueued ==
  ASSUME NEW S, NEW l, IsSeq(l), NEW d, Drafted(S, l, d)
  PROVE  Queued(S, l, Settle(l, d)) /\ Leads(S, l, Settle(l, d))
<1>1. IsSeq(d)
  BY DEF Drafted
<1>2. SUFFICES ASSUME NEW q, NEW h, Left(l, d, q, h) PROVE Queued(S, l, q) /\ Leads(S, l, q)
  BY <1>1, <1>2, SettleLeaves
<1>3. /\ IsSeq(q) /\ Len(q) \in Nat /\ Len(d) \in Nat
      /\ \A n \in 1 .. Len(q) : h[n] \in 1 .. Len(d) /\ ~Superfluous(l, d[h[n]])
      /\ \A n \in 1 .. Len(q) : q[n] = IF n = 1 THEN Stamp(l, d[h[n]]) ELSE d[h[n]]
      /\ \A n, k \in 1 .. Len(q) : h[n] < h[k] => n < k
      /\ \A n \in 2 .. Len(q) : h[n] >= 2
  BY <1>1, <1>2, LeftFacts
<1>4. /\ h \in [1 .. Len(q) -> 1 .. Len(d)] /\ Len(d) \in Nat
      /\ \A n, k \in 1 .. Len(q) : n < k => h[n] < h[k]
      /\ \A n \in 1 .. Len(q) : ~Superfluous(l, d[h[n]])
  BY <1>1, <1>2, SeqFacts DEF Left
<1>5. ASSUME NEW n \in 2 .. Len(q) PROVE Steady(S, l, q[n])
  <2>1. n \in 1 .. Len(q) /\ 1 \in 1 .. Len(q) /\ n # 1 /\ 1 < n
    BY <1>3
  <2>2. h[1] \in 1 .. Len(d) /\ h[n] \in 1 .. Len(d) /\ h[1] < h[n]
    BY <1>4, <2>1
  <2>3. h[1] \in 1 .. h[n] - 1 /\ ~Superfluous(l, d[h[1]])
    BY <1>4, <2>1, <2>2
  <2>4. q[n] = d[h[n]]
    BY <1>3, <2>1
  <2>. QED BY <2>2, <2>3, <2>4 DEF Drafted
<1>6. ASSUME q # <<>>
      PROVE  /\ Shaped(q[1]) /\ (q[1].type \in Judged => Grounded(l, q[1]))
             /\ q[1].type = "step" => Steady(S, l, q[1]) \/ Apt(S, l, q[1])
  <2>1. 1 \in 1 .. Len(q)
    BY <1>3, <1>6, SeqFacts
  <2>2. q[1] = Stamp(l, d[h[1]]) /\ h[1] \in 1 .. Len(d)
    BY <1>3, <1>4, <2>1
  <2>3. Steady(S, l, d[h[1]]) \/ Apt(S, l, d[h[1]])
    BY <2>2 DEF Drafted
  <2>. QED BY <2>2, <2>3, StampSteady, StampApt
<1>. QED BY <1>3, <1>5, <1>6 DEF Queued, Leads

-----------------------------------------------------------------------------
(***************************************************************************)
(* What the commands draft, event by event.                                *)
(***************************************************************************)
LEMMA PlainSteady ==
  ASSUME NEW S, NEW l, NEW e, {"type", "id"} \subseteq DOMAIN e, e.type \notin Judged \cup {"step", "ensure", N, "variant"}
  PROVE  Steady(S, l, e)
BY DEF Steady, Shaped, Judged, T

LEMMA SaidSteady ==
  ASSUME NEW S, NEW l
  PROVE  /\ \A id, what, cause : Steady(S, l, Transition(id, what, cause)) /\ Steady(S, l, Ensure(id, what, cause))
         /\ \A id, status : Steady(S, l, Item(id, status)) /\ Steady(S, l, Proposal(id, status))
<1>1. ASSUME NEW id, NEW what, NEW cause
      PROVE  Steady(S, l, Transition(id, what, cause)) /\ Steady(S, l, Ensure(id, what, cause))
  <2> DEFINE e == Transition(id, what, cause)
             f == Ensure(id, what, cause)
  <2>1. {"type", "id"} \subseteq DOMAIN e /\ e.type = "transition"
    BY DEF Transition
  <2>2. {"type", "id"} \subseteq DOMAIN f /\ f.type = "ensure" /\ ~Versioned(f)
    BY DEF Ensure, Versioned
  <2> HIDE DEF e, f
  <2>3. Steady(S, l, e)
    BY <2>1, PlainSteady DEF Judged, T, N
  <2>4. Steady(S, l, f)
    BY <2>2 DEF Steady, Shaped, Judged, T, N
  <2>. QED BY <2>3, <2>4 DEF e, f
<1>2. ASSUME NEW id, NEW status PROVE Steady(S, l, Item(id, status)) /\ Steady(S, l, Proposal(id, status))
  <2> DEFINE e == Item(id, status)
             f == Proposal(id, status)
  <2>1. {"type", "id"} \subseteq DOMAIN e /\ e.type = "item"
    BY DEF Item
  <2>2. {"type", "id"} \subseteq DOMAIN f /\ f.type = "proposal"
    BY DEF Proposal
  <2> HIDE DEF e, f
  <2>3. Steady(S, l, e) /\ Steady(S, l, f)
    BY <2>1, <2>2, PlainSteady DEF Judged, T, N
  <2>. QED BY <2>3 DEF e, f
<1>. QED BY <1>1, <1>2

LEMMA StepSteady ==
  ASSUME NEW S, NEW l, NEW what \in S, NEW id, Asks(l, what, id)
  PROVE  Steady(S, l, Step(what, id))
<1> DEFINE e == Step(what, id)
<1>1. {"type", "id", "what"} \subseteq DOMAIN e /\ e.type = "step" /\ e.what = what /\ e.id = id
  BY DEF Step
<1> HIDE DEF e
<1>2. Steady(S, l, e)
  BY <1>1 DEF Steady, Shaped, IsStep, Judged, T, N
<1>. QED BY <1>2 DEF e

(* What is recorded. *)
LEMMA CurrentOf ==
  ASSUME NEW l, Orderly(l), NEW t, NEW id, Known(l, t, id)
  PROVE  /\ Shaped(Current(l, t, id)) /\ Current(l, t, id).type = t /\ Current(l, t, id).id = id
         /\ \E i \in Versions(l, t, id) : Current(l, t, id) = l[i] /\ (\A j \in Versions(l, t, id) : j <= i)
<1>1. IsSeq(l)
  BY DEF Orderly
<1>2. PICK i \in Versions(l, t, id) : Current(l, t, id) = l[i] /\ \A j \in Versions(l, t, id) : j <= i
  BY <1>1, CurrentFacts
<1>3. i \in 1 .. Len(l) /\ l[i].type = t /\ l[i].id = id
  BY <1>1, <1>2, VersionsFacts
<1>. QED BY <1>2, <1>3 DEF Orderly

(* A version that may come after the current one. *)
LEMMA FollowsVersion ==
  ASSUME NEW l, NEW e, Shaped(e), Versioned(e), NEW was, Follows(l, e, was), NEW v
  PROVE  Follows(l, [e EXCEPT !.version = v], was)
<1> DEFINE f == [e EXCEPT !.version = v]
<1>1. \A x \in DOMAIN e : x # "version" => f[x] = e[x]
  OBVIOUS
<1>2. Resumes(l, e) /\ e.type = "assumption" => Resumes(l, f)
  <2> SUFFICES ASSUME Resumes(l, e), e.type = "assumption" PROVE Resumes(l, f)
    OBVIOUS
  <2>1. PICK i \in Versions(l, "assumption", e.id) :
          /\ ~Marked(Prefix(l, i), e.id, "HELD")
          /\ e = [l[i] EXCEPT !.version = e.version, !.sup = e.sup, !.objectives = e.objectives]
    BY DEF Resumes
  <2>2. f.id = e.id /\ f.sup = e.sup /\ f.objectives = e.objectives /\ f.version = v
    BY <1>1 DEF Shaped, Versioned
  <2>3. f = [l[i] EXCEPT !.version = f.version, !.sup = f.sup, !.objectives = f.objectives]
    BY <2>1, <2>2
  <2> HIDE DEF f
  <2>. QED BY <2>1, <2>2, <2>3 DEF Resumes
<1> HIDE DEF f
<1>3. /\ f.type = e.type
      /\ e.type = T => f.status = e.status /\ f.lineage = e.lineage
      /\ e.type = "edge" => f.relation = e.relation
      /\ e.type \in {"assumption", "path", "objective"} => f.status = e.status
  BY <1>1 DEF Shaped
<1>4. Follows(l, f, was)
  BY <1>2, <1>3 DEF Follows
<1>. QED BY <1>4 DEF f

LEMMA AptRevision ==
  ASSUME NEW S, NEW l, Orderly(l), NEW e, Shaped(e), e.type \in Judged,
         Known(l, e.type, e.id) => Follows(l, e, Current(l, e.type, e.id))
  PROVE  Apt(S, l, e)
<1> DEFINE f == Restamped(l, e)
<1>1. Versioned(e) /\ IsSeq(l)
  BY DEF Shaped, Orderly
<1>2. f.type = e.type /\ f.id = e.id /\ f.version = NextOf(l, e.type, e.id)
  BY <1>1, ShapedVersion, NextIs DEF Restamped
<1>3. Known(l, e.type, e.id) => Follows(l, f, Current(l, e.type, e.id))
  BY <1>1, FollowsVersion DEF Restamped
<1> HIDE DEF f
<1>4. Stands(l, f)
  BY <1>2, <1>3 DEF Stands
<1>. QED BY <1>4 DEF Apt, f

(***************************************************************************)
(* Themes.                                                                 *)
(***************************************************************************)
LEMMA UpdateMembershipDraft ==
  ASSUME NEW S, NEW l, Orderly(l), NEW id, Is(l, id), NEW sup, NEW con, NEW cause
  PROVE  Drafted(S, l, UpdateMembership(l, id, sup, con, cause))
<1> DEFINE was   == The(l, id)
           basis == Widened(l, was.basis, sup, con)
           e     == [was EXCEPT !.basis = basis, !.status = IF @ \in MachineStatuses THEN DerivedStatus(basis) ELSE @]
           say   == IF con = {} THEN <<>> ELSE <<Transition(id, "CONTRADICTION_ADDED", cause)>>
<1>1. Shaped(was) /\ was.type = T /\ was.id = id
  BY CurrentOf DEF Is, The
<1>2. UpdateMembership(l, id, sup, con, cause) =
        IF basis = was.basis THEN <<>> ELSE <<e, Transition(id, "MEMBERSHIP_CHANGED", cause)>> \o say
  BY DEF UpdateMembership
<1>3. Calm(S, l, say)
  BY SaidSteady, CalmOne, CalmNone
<1> HIDE DEF basis, say
<1>4. /\ DOMAIN e = DOMAIN was /\ e.type = T /\ e.id = id /\ e.lineage = was.lineage
      /\ e.status = IF was.status \in MachineStatuses THEN DerivedStatus(basis) ELSE was.status
      /\ e.version = was.version
  BY <1>1 DEF Shaped, Versioned, Judged, T
<1> HIDE DEF e
<1>5. Shaped(e)
  BY <1>1, <1>4 DEF Shaped, Versioned, Judged, T, N
<1>6. Follows(l, e, was)
  BY <1>4 DEF Follows, T, MachineStatuses, Retired
<1>7. Apt(S, l, e)
  BY <1>4, <1>5, <1>6, AptRevision DEF The, Judged
<1>8. Drafted(S, l, <<e, Transition(id, "MEMBERSHIP_CHANGED", cause)>>)
  BY <1>7, SaidSteady, DraftedPair
<1>9. Drafted(S, l, <<e, Transition(id, "MEMBERSHIP_CHANGED", cause)>> \o say)
  BY <1>3, <1>8, DraftedJoined
<1>. QED BY <1>2, <1>9, CalmNone, CalmDrafted

LEMMA CreateThemeDraft ==
  ASSUME NEW S, ThemeSteps \subseteq S, NEW l, NEW id, NEW proposal, NEW sup, NEW con, NEW lineage
  PROVE  Drafted(S, l, CreateTheme(l, id, proposal, sup, con, lineage))
<1> DEFINE e    == Theme(id, proposal, Basis(l, sup, con), lineage)
           more == <<id, sup \ The(l, id).basis.sup, con \ The(l, id).basis.con>>
           step == IF proposal # "" \/ (more[2] = {} /\ more[3] = {}) THEN <<>> ELSE <<Step("membership", more)>>
<1>1. CreateTheme(l, id, proposal, sup, con, lineage) =
        CASE Is(l, id) -> <<NewTheme(id)>> \o Emerged(id) \o step
          [] ~Is(l, id) /\ (~Authorized(l, proposal) \/ (proposal # "" /\ sup # Offered)) -> <<>>
          [] OTHER -> <<e, NewTheme(id)>> \o Emerged(id)
  BY DEF CreateTheme
<1>2. Steady(S, l, NewTheme(id)) /\ Calm(S, l, Emerged(id))
  BY SaidSteady, CalmOne, CalmNone DEF NewTheme, Emerged
<1>3. ASSUME Is(l, id) PROVE Calm(S, l, step)
  <2>1. more[1] = id
    OBVIOUS
  <2> HIDE DEF more
  <2>2. Asks(l, "membership", more)
    BY <1>3, <2>1 DEF Asks, Is
  <2>3. Calm(S, l, <<Step("membership", more)>>)
    BY <2>2, StepSteady, CalmOne DEF ThemeSteps
  <2>. QED BY <2>3, CalmNone
<1> HIDE DEF step
<1>4. ASSUME Is(l, id) PROVE Calm(S, l, <<NewTheme(id)>> \o Emerged(id) \o step)
  BY <1>2, <1>3, <1>4, CalmOne, CalmJoined
<1>5. Steady(S, l, e)
  <2>1. {"type", "id", "version", "status", "lineage"} \subseteq DOMAIN e /\ e.type = T /\ e.version = 0
    BY DEF Theme
  <2> HIDE DEF e
  <2>. QED BY <2>1 DEF Steady, Shaped, Versioned, Judged, T, N
<1> HIDE DEF e
<1>6. Calm(S, l, <<e, NewTheme(id)>> \o Emerged(id))
  BY <1>2, <1>5, CalmPair, CalmJoined
<1>. QED BY <1>1, <1>4, <1>6, CalmNone, CalmDrafted

LEMMA RefreshThemeDraft ==
  ASSUME NEW S, NEW l, Orderly(l), NEW id, Is(l, id), NEW cause
  PROVE  Drafted(S, l, RefreshTheme(l, id, cause))
<1> DEFINE was == The(l, id)
           b   == Rebased(l, was.basis)
           to  == DerivedStatus(b)
           e   == [was EXCEPT !.basis = b, !.status = to]
           Say(condition, what) == IF condition THEN <<Transition(id, what, cause)>> ELSE <<>>
           s1  == Say(b.fam # was.basis.fam, "SOURCE_DIVERSITY_CHANGED")
           s2  == Say(to # was.status, CASE to = "CONTESTED" -> "CONTRADICTION_ADDED" [] to = "STALE" -> "STALE"
                                         [] to = "ACTIVE" -> "STRENGTHENED" [] to = "EMERGING" -> "WEAKENED")
           s3  == Say(b.obs # was.basis.obs /\ to = was.status, "EVIDENCE_UPDATED")
           s4  == Say(b.deg > was.basis.deg, "WEAKENED")
<1>1. Shaped(was) /\ was.type = T /\ was.id = id
  BY CurrentOf DEF Is, The
<1>2. RefreshTheme(l, id, cause) =
        IF was.status \in Retired \/ (b = was.basis /\ to = was.status) THEN <<>> ELSE <<e>> \o s1 \o s2 \o s3 \o s4
  BY DEF RefreshTheme
<1>3. \A condition, what : Calm(S, l, Say(condition, what))
  BY SaidSteady, CalmOne, CalmNone
<1> HIDE DEF b, to, Say
<1>4. Calm(S, l, s1) /\ Calm(S, l, s2) /\ Calm(S, l, s3) /\ Calm(S, l, s4)
  BY <1>3
<1> HIDE DEF s1, s2, s3, s4
<1>5. DOMAIN e = DOMAIN was /\ e.type = T /\ e.id = id /\ e.lineage = was.lineage /\ e.status = to
  BY <1>1 DEF Shaped
<1> HIDE DEF e
<1>6. Shaped(e)
  BY <1>1, <1>5 DEF Shaped, Versioned, Judged, T, N
<1>7. ASSUME was.status \notin Retired PROVE Apt(S, l, e)
  <2>1. Follows(l, e, was)
    BY <1>5, <1>7 DEF Follows, T
  <2>. QED BY <1>5, <1>6, <2>1, AptRevision DEF The, Judged
<1>8. ASSUME was.status \notin Retired PROVE Drafted(S, l, <<e>> \o s1 \o s2 \o s3 \o s4)
  BY <1>4, <1>7, <1>8, DraftedOne, DraftedJoined
<1>. QED BY <1>2, <1>8, CalmNone, CalmDrafted

LEMMA ResolveThemeDraft ==
  ASSUME NEW S, NEW l, Orderly(l), NEW id, Is(l, id)
  PROVE  Drafted(S, l, ResolveTheme(l, id))
<1> DEFINE was == The(l, id)
           e   == [was EXCEPT !.status = "RESOLVED"]
<1>1. Shaped(was) /\ was.type = T /\ was.id = id
  BY CurrentOf DEF Is, The
<1>2. DOMAIN e = DOMAIN was /\ e.type = T /\ e.id = id /\ e.status = "RESOLVED"
  BY <1>1 DEF Shaped
<1>3. Steady(S, l, e)
  BY <1>1, <1>2 DEF Steady, Shaped, Versioned, Judged, Settling, Retired, T, N
<1>. QED BY <1>3, SaidSteady, CalmPair, CalmNone, CalmDrafted DEF ResolveTheme

(* The absorbed theme is appended as it was read, and as merged. *)
LEMMA AbsorbedSteady ==
  ASSUME NEW S, NEW l, NEW was, Shaped(was), was.type = T, NEW into
  PROVE  Steady(S, l, Absorbed(was, into))
<1> DEFINE e == Absorbed(was, into)
<1>1. DOMAIN e = DOMAIN was /\ e.type = T /\ e.status = "MERGED"
  BY DEF Shaped, Absorbed
<1> HIDE DEF e
<1>2. Steady(S, l, e)
  BY <1>1 DEF Steady, Shaped, Versioned, Judged, Settling, Retired, T, N
<1>. QED BY <1>2 DEF e

LEMMA MergeDraft ==
  ASSUME NEW S, NEW l, Orderly(l), NEW into, NEW from, Is(l, into), Is(l, from)
  PROVE  Drafted(S, l, ApplyMerge(l, into, from)) /\ Drafted(S, l, ProposeMerge(into, from))
<1> DEFINE survivor == The(l, into)
           was      == The(l, from)
           basis    == Widened(l, survivor.basis, was.basis.sup, was.basis.con)
           e        == [survivor EXCEPT !.basis = basis, !.status = DerivedStatus(basis),
                                        !.lineage = @ \cup {<<"MERGED_FROM", from>>}]
           late     == IF was.status = "MERGED" THEN <<>> ELSE <<Absorbed(was, into)>>
           a        == Absorbed(was, into)
<1>1. /\ Shaped(survivor) /\ survivor.type = T /\ survivor.id = into
      /\ Shaped(was) /\ was.type = T
  BY CurrentOf DEF Is, The
<1>2. ApplyMerge(l, into, from) =
        CASE <<"MERGED_FROM", from>> \in survivor.lineage -> Merged("ensure", into, from) \o late
          [] <<"MERGED_FROM", from>> \notin survivor.lineage /\ was.status = "MERGED" -> <<>>
          [] OTHER -> <<e, a>> \o Merged("transition", into, from)
  BY DEF ApplyMerge
<1>3. Steady(S, l, a)
  BY <1>1, AbsorbedSteady
<1>4. Calm(S, l, Merged("ensure", into, from)) /\ Calm(S, l, Merged("transition", into, from))
  <2>1. /\ Merged("ensure", into, from) =
             <<Ensure(into, "MERGED", <<"merge", into, from>>), Ensure(from, "MERGED", <<"merge", into, from>>)>>
        /\ Merged("transition", into, from) =
             <<Transition(into, "MERGED", <<"merge", into, from>>), Transition(from, "MERGED", <<"merge", into, from>>)>>
    BY DEF Merged, Ensure, Transition
  <2>. QED BY <2>1, SaidSteady, CalmPair
<1>5. Calm(S, l, late)
  BY <1>3, CalmOne, CalmNone
<1>6. Drafted(S, l, Merged("ensure", into, from) \o late)
  BY <1>4, <1>5, CalmJoined, CalmDrafted
<1>7. /\ DOMAIN e = DOMAIN survivor /\ e.type = T /\ e.id = into
      /\ e.lineage = survivor.lineage \cup {<<"MERGED_FROM", from>>}
  BY <1>1 DEF Shaped
<1> HIDE DEF e, a, late
<1>8. Shaped(e)
  BY <1>1, <1>7 DEF Shaped, Versioned, Judged, T, N
<1>9. ASSUME <<"MERGED_FROM", from>> \notin survivor.lineage PROVE Apt(S, l, e)
  <2>1. Follows(l, e, survivor)
    <3> DEFINE p == <<"MERGED_FROM", from>>
    <3>1. p \in e.lineage \ survivor.lineage /\ p[1] = "MERGED_FROM"
      BY <1>7, <1>9
    <3> HIDE DEF p
    <3>. QED BY <1>7, <3>1 DEF Follows, T
  <2>. QED BY <1>7, <1>8, <2>1, AptRevision DEF The, Judged
<1>10. ASSUME <<"MERGED_FROM", from>> \notin survivor.lineage
       PROVE  Drafted(S, l, <<e, a>> \o Merged("transition", into, from))
  BY <1>3, <1>4, <1>9, <1>10, DraftedPair, DraftedJoined
<1>11. Drafted(S, l, ApplyMerge(l, into, from))
  BY <1>2, <1>6, <1>10, CalmNone, CalmDrafted
<1>. QED BY <1>11, SaidSteady, CalmPair, CalmDrafted DEF ProposeMerge

(* The parts come one by one, then the theme as it was read. *)
LEMMA SplitDraft ==
  ASSUME NEW S, ThemeSteps \subseteq S, NEW l, Orderly(l), NEW id, Is(l, id)
  PROVE  Drafted(S, l, ApplySplit(l, id))
<1> DEFINE was   == The(l, id)
           into  == {<<"SPLIT_INTO", Parts[n][1]>> : n \in DOMAIN Parts}
           parts == [n \in DOMAIN Parts |-> Step("part", <<id, n>>)]
           e     == [was EXCEPT !.status = "SPLIT", !.lineage = @ \cup into]
           say   == Transition(id, "SPLIT", <<"analyst">>)
<1>1. Shaped(was) /\ was.type = T /\ was.id = id
  BY CurrentOf DEF Is, The
<1>2. ApplySplit(l, id) = IF was.status = "SPLIT" THEN <<>> ELSE parts \o <<e, say>>
  BY DEF ApplySplit
<1>3. Calm(S, l, parts)
  <2>1. PICK n \in Nat : DOMAIN Parts = 1 .. n
    BY ThemesAssumption, LenProperties
  <2>2. \A k \in 1 .. n : parts[k] = Step("part", <<id, k>>)
    BY <2>1
  <2>3. \A k : Steady(S, l, Step("part", <<id, k>>))
    BY StepSteady DEF Asks, ThemeSteps
  <2>4. parts = [k \in 1 .. n |-> parts[k]]
    BY <2>1
  <2> HIDE DEF parts
  <2>. QED BY <2>2, <2>3, <2>4, CalmMapped
<1>4. DOMAIN e = DOMAIN was /\ e.type = T /\ e.status = "SPLIT"
  BY <1>1 DEF Shaped
<1> HIDE DEF parts, e, into
<1>5. Steady(S, l, e)
  BY <1>1, <1>4 DEF Steady, Shaped, Versioned, Judged, Settling, Retired, T, N
<1>6. Steady(S, l, say)
  BY SaidSteady
<1> HIDE DEF say
<1>7. Calm(S, l, parts \o <<e, say>>)
  BY <1>3, <1>5, <1>6, CalmPair, CalmJoined
<1>. QED BY <1>2, <1>7, CalmNone, CalmDrafted

LEMMA ThemeStepDraft ==
  ASSUME NEW S, ThemeSteps \subseteq S, NEW l, Orderly(l), NEW s, s.what \in ThemeSteps, Asks(l, s.what, s.id)
  PROVE  Drafted(S, l, ThemeContinue(l, s))
<1>1. CASE s.what = "part"
  BY <1>1, CreateThemeDraft DEF ThemeContinue, Part
<1>2. CASE s.what = "membership"
  BY <1>2, UpdateMembershipDraft DEF ThemeContinue, Asks, Is
<1>. QED BY <1>1, <1>2 DEF ThemeSteps

(***************************************************************************)
(* Finite sets, and the sequences that are made of them.                   *)
(***************************************************************************)
LEMMA ImageFinite ==
  ASSUME NEW D, IsFiniteSet(D), NEW f, f = [x \in D |-> f[x]]
  PROVE  IsFiniteSet({f[x] : x \in D})
<1> DEFINE R == {f[x] : x \in D}
<1>1. f \in [D -> R] /\ \A y \in R : \E x \in D : f[x] = y
  OBVIOUS
<1> HIDE DEF R
<1>2. f \in Surjection(D, R)
  BY <1>1 DEF Surjection
<1>3. IsFiniteSet(R)
  BY <1>2, FS_Surjection
<1>. QED BY <1>3 DEF R

LEMMA SetToSeqIs ==
  ASSUME NEW S, IsFiniteSet(S)
  PROVE  SetToSeq(S) \in [1 .. Cardinality(S) -> S] /\ Cardinality(S) \in Nat
<1>1. Cardinality(S) \in Nat /\ ExistsBijection(1 .. Cardinality(S), S)
  BY FS_CardinalityType
<1>2. PICK f : f \in [1 .. Cardinality(S) -> S] /\ IsInjective(f)
  BY <1>1 DEF ExistsBijection, Bijection, Injection
<1>. QED BY <1>1, <1>2 DEF SetToSeq

LEMMA PositionsFinite ==
  ASSUME NEW l, IsSeq(l), NEW S, S \subseteq DOMAIN l
  PROVE  IsFiniteSet(S)
<1>1. Len(l) \in Nat /\ S \subseteq 1 .. Len(l)
  BY SeqFacts
<1>2. IsFiniteSet(1 .. Len(l))
  BY <1>1, FS_Interval
<1>. QED BY <1>1, <1>2, FS_Subset

LEMMA EvidenceFinite ==
  ASSUME NEW l, IsSeq(l), NEW t
  PROVE  IsFiniteSet(Evidence(l, t))
<1> DEFINE D == {j \in DOMAIN l : l[j].type = t}
           f == [i \in D |-> l[i]]
<1>1. IsFiniteSet(D) /\ f = [i \in D |-> f[i]] /\ {f[i] : i \in D} = {l[i] : i \in D}
  BY PositionsFinite
<1>2. Evidence(l, t) = {l[i] : i \in D}
  BY DEF Evidence
<1> HIDE DEF D, f
<1>. QED BY <1>1, <1>2, ImageFinite

(* What is on record of any set is finite. *)
LEMMA KnownFinite ==
  ASSUME NEW l, IsSeq(l), NEW t, NEW S, \A x \in S : Known(l, t, x)
  PROVE  IsFiniteSet(S)
<1> DEFINE D == {i \in DOMAIN l : l[i].type = t /\ l[i].id \in S}
           f == [i \in D |-> l[i].id]
<1>1. IsFiniteSet(D) /\ f = [i \in D |-> f[i]]
  BY PositionsFinite
<1>2. {f[i] : i \in D} = S
  BY DEF Known, Versions
<1> HIDE DEF D, f
<1>. QED BY <1>1, <1>2, ImageFinite

(***************************************************************************)
(* Narratives.                                                             *)
(***************************************************************************)
LEMMA NarrativeSteady ==
  ASSUME NEW S, NEW l, NEW e, e.type = N, {"type", "id", "basis"} \subseteq DOMAIN e, e.basis.sup \subseteq Claims
  PROVE  Steady(S, l, e)
BY DEF Steady, Shaped, Judged, T, N

(* A later version of a narrative, however its basis is widened. *)
LEMMA BasisSup ==
  /\ \A l, sup, con : Basis(l, sup, con).sup = sup
  /\ \A l, b, sup, con : Widened(l, b, sup, con).sup = b.sup \cup sup
  /\ \A l, b : Rebased(l, b).sup = b.sup
BY DEF Basis, Widened, Rebased

LEMMA CreateNarrativeDraft ==
  ASSUME NEW S, NarrativeSteps \subseteq S, NEW l, Orderly(l), NEW s, NEW proposal,
         NEW sup \in SUBSET Claims, NEW con \in SUBSET Claims
  PROVE  Drafted(S, l, CreateNarrative(l, s, proposal, sup, con))
<1> DEFINE e    == Narrative(l, s, proposal, sup, con)
           was  == Told(l, s)
           p    == [was |-> was, sup |-> sup, con |-> con]
           step == IF proposal # "" \/ (sup \subseteq was.basis.sup /\ con \subseteq was.basis.con) THEN <<>>
                   ELSE <<Step("retell", p)>>
           made == Ensure(s, "CREATED", <<s>>)
<1>1. CreateNarrative(l, s, proposal, sup, con) =
        CASE Heard(l, s) -> <<made>> \o step
          [] ~Heard(l, s) /\ (~Authorized(l, proposal) \/ (proposal # "" /\ sup # Offered)) -> <<>>
          [] OTHER -> <<e, made>>
  BY DEF CreateNarrative
<1>2. Steady(S, l, made)
  BY SaidSteady
<1>3. ASSUME Heard(l, s) PROVE Calm(S, l, <<made>> \o step)
  <2>1. p.was = was /\ p.sup = sup
    OBVIOUS
  <2>2. Shaped(was) /\ was.type = N
    BY <1>3, CurrentOf DEF Heard, Told
  <2> HIDE DEF p, was
  <2>3. Asks(l, "retell", p)
    BY <2>1, <2>2 DEF Asks
  <2>4. Calm(S, l, <<Step("retell", p)>>)
    BY <2>3, StepSteady, CalmOne DEF NarrativeSteps
  <2>5. Calm(S, l, step)
    BY <2>4, CalmNone
  <2>. QED BY <1>2, <2>5, CalmOne, CalmJoined
<1> HIDE DEF step, made
<1>4. Steady(S, l, e)
  <2>1. {"type", "id", "basis"} \subseteq DOMAIN e /\ e.type = N /\ e.basis.sup = sup
    BY BasisSup DEF Narrative
  <2> HIDE DEF e
  <2>. QED BY <2>1, NarrativeSteady
<1> HIDE DEF e
<1>. QED BY <1>1, <1>2, <1>3, <1>4, CalmPair, CalmNone, CalmDrafted

LEMMA FoldNarrativeDraft ==
  ASSUME NEW S, NEW l, NEW was, Shaped(was), was.type = N, NEW sup \in SUBSET Claims, NEW con
  PROVE  Drafted(S, l, FoldNarrative(l, was, sup, con))
<1> DEFINE e == [was EXCEPT !.basis = Widened(l, @, sup, con)]
<1>1. was.basis.sup \subseteq Claims /\ {"type", "id", "basis"} \subseteq DOMAIN was
  BY DEF Shaped
<1>2. DOMAIN e = DOMAIN was /\ e.type = N /\ e.basis.sup = was.basis.sup \cup sup
  BY <1>1, BasisSup
<1> HIDE DEF e
<1>3. Steady(S, l, e)
  BY <1>1, <1>2, NarrativeSteady
<1>. QED BY <1>3, SaidSteady, CalmPair, CalmDrafted DEF FoldNarrative, e

LEMMA AddVariantDraft ==
  ASSUME NEW S, NarrativeSteps \subseteq S, NEW l, Orderly(l), NEW s, Heard(l, s), NEW f \in DOMAIN Forms, NEW proposal
  PROVE  Drafted(S, l, AddVariant(l, s, f, proposal))
<1> DEFINE p == [was |-> Told(l, s), form |-> f]
           e == Variant(s, f, proposal)
<1>1. p.was = Told(l, s) /\ p.form = f
  OBVIOUS
<1>2. Shaped(Told(l, s)) /\ Told(l, s).type = N
  BY CurrentOf DEF Heard, Told
<1> HIDE DEF p
<1>3. Asks(l, "join", p)
  BY <1>1, <1>2 DEF Asks
<1>4. Calm(S, l, <<Step("join", p)>>)
  BY <1>3, StepSteady, CalmOne DEF NarrativeSteps
<1>5. Steady(S, l, e)
  <2>1. {"type", "id", "claims"} \subseteq DOMAIN e /\ e.type = "variant" /\ e.claims \subseteq Claims
    BY NarrativesAssumption DEF Variant
  <2> HIDE DEF e
  <2>. QED BY <2>1 DEF Steady, Shaped, Judged, T, N
<1> HIDE DEF e
<1>6. Calm(S, l, <<e>> \o <<Step("join", p)>>)
  BY <1>4, <1>5, CalmOne, CalmJoined
<1>. QED BY <1>4, <1>6, CalmNone, CalmDrafted DEF AddVariant, p, e

LEMMA JoinDraft ==
  ASSUME NEW S, NEW l, NEW was, Shaped(was), was.type = N, NEW f \in DOMAIN Forms
  PROVE  Drafted(S, l, Join(l, was, f))
<1> DEFINE claims == Forms[f].claims
           b    == Widened(l, was.basis, IF Forms[f].relation \in Supporting THEN claims ELSE {},
                                         IF Forms[f].relation \in Contradicting THEN claims ELSE {})
           e    == [was EXCEPT !.variants = @ \cup {f}, !.basis = b]
           next == IF f \in was.variants /\ b.sup = was.basis.sup /\ b.con = was.basis.con THEN <<>> ELSE <<e>>
           say  == Transition(was.id, "VARIANT_ADDED", <<"variant", f>>)
<1>1. Join(l, was, f) = next \o <<say>>
  BY DEF Join
<1>2. was.basis.sup \subseteq Claims /\ {"type", "id", "basis"} \subseteq DOMAIN was /\ claims \subseteq Claims
  BY NarrativesAssumption DEF Shaped
<1>3. b.sup \subseteq Claims
  BY <1>2, BasisSup
<1> HIDE DEF b
<1>4. DOMAIN e = DOMAIN was /\ e.type = N /\ e.basis = b
  BY <1>2
<1> HIDE DEF e
<1>5. Steady(S, l, e)
  BY <1>2, <1>3, <1>4, NarrativeSteady
<1>6. Calm(S, l, next)
  BY <1>5, CalmOne, CalmNone
<1>7. Steady(S, l, say)
  BY SaidSteady
<1> HIDE DEF next, say
<1>8. Calm(S, l, next \o <<say>>)
  BY <1>6, <1>7, CalmOne, CalmJoined
<1>. QED BY <1>1, <1>8, CalmDrafted

LEMMA LinkCounterDraft ==
  ASSUME NEW S, NEW l, Orderly(l), NEW this, NEW other, NEW named
  PROVE  Drafted(S, l, LinkCounter(l, this, other, named))
<1> DEFINE was == Told(l, this)
           e   == [was EXCEPT !.counters = @ \cup {other}]
           say == Transition(this, "COUNTER_NARRATIVE_LINKED", <<"counter", named>>)
<1>1. LinkCounter(l, this, other, named) = IF ~Heard(l, this) \/ other \in was.counters THEN <<>> ELSE <<e, say>>
  BY DEF LinkCounter
<1>2. Steady(S, l, say)
  BY SaidSteady
<1>3. ASSUME Heard(l, this) PROVE Steady(S, l, e)
  <2>1. Shaped(was) /\ was.type = N
    BY <1>3, CurrentOf DEF Heard, Told
  <2>2. was.basis.sup \subseteq Claims /\ {"type", "id", "basis"} \subseteq DOMAIN was
    BY <2>1 DEF Shaped
  <2>3. DOMAIN e = DOMAIN was /\ e.type = N /\ e.basis = was.basis
    BY <2>1, <2>2
  <2> HIDE DEF e
  <2>. QED BY <2>2, <2>3, NarrativeSteady
<1> HIDE DEF e, say
<1>. QED BY <1>1, <1>2, <1>3, CalmPair, CalmNone, CalmDrafted

LEMMA RefreshNarrativeDraft ==
  ASSUME NEW S, NEW l, Orderly(l), NEW s, Heard(l, s), NEW cause
  PROVE  Drafted(S, l, RefreshNarrative(l, s, cause))
<1> DEFINE was == Told(l, s)
           b   == Rebased(l, was.basis)
           new == [was EXCEPT !.basis = b, !.origin = Earliest(l, b.sup), !.status = RefreshedStatus(@, b)]
           s1  == IF new.origin = was.origin THEN <<>> ELSE <<Transition(s, "ORIGIN_REVISED", cause)>>
           s2  == IF new.status = was.status THEN <<>>
                  ELSE <<Transition(s, IF new.status = "ACTIVE" THEN "REEMERGED" ELSE new.status, cause)>>
<1>1. RefreshNarrative(l, s, cause) =
        IF was.status \in {"RESOLVED", "SUPERSEDED"} \/ new = was THEN <<>> ELSE <<new>> \o s1 \o s2
  BY DEF RefreshNarrative
<1>2. Shaped(was) /\ was.type = N
  BY CurrentOf DEF Heard, Told
<1>3. b.sup \subseteq Claims /\ {"type", "id", "basis"} \subseteq DOMAIN was
  BY <1>2, BasisSup DEF Shaped
<1> HIDE DEF b
<1>4. DOMAIN new = DOMAIN was /\ new.type = N /\ new.basis = b
  BY <1>2, <1>3
<1> HIDE DEF new
<1>5. Steady(S, l, new)
  BY <1>3, <1>4, NarrativeSteady
<1>6. Calm(S, l, s1) /\ Calm(S, l, s2)
  BY SaidSteady, CalmOne, CalmNone
<1> HIDE DEF s1, s2
<1>7. Calm(S, l, <<new>> \o s1 \o s2)
  BY <1>5, <1>6, CalmOne, CalmJoined
<1>. QED BY <1>1, <1>7, CalmNone, CalmDrafted

LEMMA ManifestationsFinite ==
  ASSUME NEW l, IsSeq(l), NEW claims \in SUBSET Claims
  PROVE  IsFiniteSet(Manifestations(l, claims))
<1> DEFINE f == [c \in claims |-> [claim |-> c, family |-> Family[c], time |-> Time[c]]]
           D == Seen(l, claims)
           g == [e \in D |-> [claim |-> e.id, family |-> e.family, time |-> e.time]]
<1>1. IsFiniteSet(claims)
  BY AnalyticAssumption, FS_Subset
<1>2. IsFiniteSet(D)
  BY EvidenceFinite, FS_Subset DEF Seen
<1>3. Manifestations(l, claims) = {f[c] : c \in claims} \cup {g[e] : e \in D}
  BY DEF Manifestations
<1>4. f = [c \in claims |-> f[c]] /\ g = [e \in D |-> g[e]]
  OBVIOUS
<1> HIDE DEF f, g, D
<1>5. IsFiniteSet({f[c] : c \in claims}) /\ IsFiniteSet({g[e] : e \in D})
  BY <1>1, <1>2, <1>4, ImageFinite
<1>. QED BY <1>3, <1>5, FS_Union

LEMMA PairsFinite ==
  ASSUME NEW l, NEW s, NEW seen, IsFiniteSet(seen)
  PROVE  IsFiniteSet({p \in seen \X seen : p[1].time < p[2].time /\ ~Known(l, "edge", <<s, p[1], p[2]>>)})
<1> DEFINE pairs == {p \in seen \X seen : p[1].time < p[2].time /\ ~Known(l, "edge", <<s, p[1], p[2]>>)}
<1>1. IsFiniteSet(seen \X seen) /\ pairs \subseteq seen \X seen
  BY FS_Product
<1> HIDE DEF pairs
<1>2. IsFiniteSet(pairs)
  BY <1>1, FS_Subset
<1>. QED BY <1>2 DEF pairs

(* The edges that are derived at once come as first versions. *)
LEMMA DeriveDraft ==
  ASSUME NEW S, NEW l, Orderly(l), NEW s, Heard(l, s)
  PROVE  Drafted(S, l, DerivePropagation(l, s))
<1> DEFINE claims == Told(l, s).basis.sup \cup UNION {r.claims : r \in {v \in Evidence(l, "variant") : v.id[1] = s}}
           seen   == Manifestations(l, claims)
<1>1. IsSeq(l)
  BY DEF Orderly
<1>2. claims \subseteq Claims
  <2>1. Told(l, s).basis.sup \subseteq Claims
    BY CurrentOf DEF Heard, Told, Shaped
  <2>2. ASSUME NEW v \in Evidence(l, "variant") PROVE v.claims \subseteq Claims
    BY <1>1, SeqFacts DEF Evidence, Orderly, Shaped
  <2>. QED BY <2>1, <2>2
<1>3. IsFiniteSet(seen)
  BY <1>1, <1>2, ManifestationsFinite
<1> DEFINE pairs  == {p \in seen \X seen : p[1].time < p[2].time /\ ~Known(l, "edge", <<s, p[1], p[2]>>)}
<1>4. IsFiniteSet(pairs)
  <2> HIDE DEF seen
  <2>. QED BY <1>3, PairsFinite
<1> DEFINE order  == Arranged(pairs, LAMBDA p, q : p[1].time < q[1].time \/ (p[1].time = q[1].time /\ p[2].time < q[2].time))
           Drawn(p) == Edge(s, p[1], p[2], Derived(p[1], p[2]), "")
           Said(p)  == Transition(s, "PROPAGATION_OBSERVED", <<"edge", Drawn(p).id>>)
           q      == [n \in 1 .. 2 * Len(order) |-> LET p == order[(n + 1) \div 2] IN IF n % 2 = 1 THEN Drawn(p) ELSE Said(p)]
<1>5. DerivePropagation(l, s) = q
  BY DEF DerivePropagation
<1> HIDE DEF claims, seen, pairs, Drawn, Said, q
<1>6. DOMAIN order = DOMAIN SetToSeq(pairs) /\ order = [k \in DOMAIN SetToSeq(pairs) |-> order[k]]
  BY DEF Arranged
<1>7. DOMAIN SetToSeq(pairs) = 1 .. Cardinality(pairs) /\ Cardinality(pairs) \in Nat
  BY <1>4, SetToSeqIs
<1> HIDE DEF order
<1>8. Len(order) \in Nat
  BY <1>6, <1>7, MapLength
<1>9. \A p : Steady(S, l, Drawn(p)) /\ Steady(S, l, Said(p))
  <2>1. ASSUME NEW from, NEW to, NEW relation PROVE Steady(S, l, Edge(s, from, to, relation, ""))
    BY DEF Edge, Steady, Shaped, Versioned, Judged, T, N
  <2>. QED BY <2>1, SaidSteady DEF Drawn, Said
<1>10. 2 * Len(order) \in Nat
  BY <1>8
<1>11. \A n \in 1 .. 2 * Len(order) : Steady(S, l, q[n])
  BY <1>9 DEF q
<1>12. q = [n \in 1 .. 2 * Len(order) |-> q[n]]
  BY DEF q
<1>. QED BY <1>5, <1>10, <1>11, <1>12, CalmMapped, CalmDrafted

(* A judgment of adoption is harmless wherever it lands. *)
LEMMA AdoptionDraft ==
  ASSUME NEW S, NEW l, NEW id, NEW kind, NEW proposal
  PROVE  Drafted(S, l, AssertAdoption(l, id, kind, proposal))
<1> DEFINE old == IF Known(l, "edge", id) THEN <<Current(l, "edge", id)>> ELSE <<>>
           new == Edge(id[1], id[2], id[3], "INDEPENDENT_ADOPTION", proposal)
           e   == [new EXCEPT !.version = Len(old)]
           rev == IF old = <<>> THEN <<>> ELSE <<Transition(id[1], "REVISED", <<"edge", id>>)>>
<1>1. AssertAdoption(l, id, kind, proposal) =
        CASE old # <<>> /\ old[1].relation = "INDEPENDENT_ADOPTION" ->
               IF kind # "HUMAN" /\ (proposal = "" \/ proposal # old[1].proposal) THEN <<>> ELSE <<Adoption(id)>>
          [] OTHER -> IF (kind # "HUMAN" /\ (proposal = "" \/ ~Spendable(l, proposal))) \/ id[2].family = id[3].family
                      THEN <<>> ELSE <<e>> \o rev \o <<Adoption(id)>>
  BY DEF AssertAdoption
<1> HIDE DEF old
<1>2. Steady(S, l, e)
  <2>1. {"type", "id", "version", "relation"} \subseteq DOMAIN e /\ e.type = "edge" /\ e.relation = "INDEPENDENT_ADOPTION"
    BY DEF Edge
  <2> HIDE DEF e
  <2>. QED BY <2>1 DEF Steady, Shaped, Versioned, Settling, Judged, T, N
<1> HIDE DEF e
<1>3. Calm(S, l, rev) /\ Calm(S, l, <<Adoption(id)>>)
  BY SaidSteady, CalmOne, CalmNone DEF Adoption
<1> HIDE DEF rev
<1>4. Calm(S, l, <<e>> \o rev \o <<Adoption(id)>>)
  BY <1>2, <1>3, CalmOne, CalmJoined
<1>. QED BY <1>1, <1>3, <1>4, CalmNone, CalmDrafted

LEMMA NarrativeStepDraft ==
  ASSUME NEW S, NarrativeSteps \subseteq S, NEW l, Orderly(l), NEW s, s.what \in NarrativeSteps, Asks(l, s.what, s.id)
  PROVE  Drafted(S, l, NarrativeContinue(l, s))
<1>1. CASE s.what = "retell"
  BY <1>1, FoldNarrativeDraft DEF NarrativeContinue, Asks
<1>2. CASE s.what = "join"
  BY <1>2, JoinDraft DEF NarrativeContinue, Asks
<1>3. CASE s.what = "counter"
  BY <1>3, LinkCounterDraft DEF NarrativeContinue
<1>. QED BY <1>1, <1>2, <1>3 DEF NarrativeSteps

(***************************************************************************)
(* Stakeholders.                                                           *)
(***************************************************************************)
(* A later version of what nobody decides on. *)
LEMMA LaterSteady ==
  ASSUME NEW S, NEW l, NEW was, Shaped(was), was.type \notin Judged \cup {"step", "ensure", N, "variant"},
         NEW e, DOMAIN e = DOMAIN was, e.type = was.type
  PROVE  Steady(S, l, e) /\ Shaped(e)
BY PlainSteady DEF Shaped, Steady

LEMMA TookIs ==
  ASSUME NEW l, NEW was, Shaped(was), was.type = A, NEW positions, NEW p
  PROVE  LET e == Took(l, was, positions, p) IN DOMAIN e = DOMAIN was /\ e.type = A /\ e.id = was.id
BY DEF Took, Shaped, A

LEMMA AddPositionDraft ==
  ASSUME NEW S, NEW l, Orderly(l), NEW id, Known(l, A, id), NEW p, NEW cause
  PROVE  LET q == AddPosition(l, id, p, cause) IN
         Calm(S, l, q) /\ (q # <<>> => Shaped(q[1]) /\ q[1].type = A /\ q[1].id = id)
<1> DEFINE was == Assessed1(l, id)
           e   == Took(l, was, was.positions, p)
           say == Transition(id, IF Offers[p].kind = "INFERRED_INTEREST" THEN "INTEREST_INFERRED" ELSE "POSITION_ADDED", cause)
<1>1. Shaped(was) /\ was.type = A /\ was.id = id
  BY CurrentOf DEF Assessed1
<1>2. DOMAIN e = DOMAIN was /\ e.type = A /\ e.id = id
  BY <1>1, TookIs
<1>3. AddPosition(l, id, p, cause) = IF ~PublicEvidence(Held(was), p) \/ p \in Held(was) THEN <<>> ELSE <<e, say>>
  BY DEF AddPosition
<1> HIDE DEF e, was
<1>4. Steady(S, l, e) /\ Shaped(e)
  BY <1>1, <1>2, LaterSteady DEF A, Judged, T, N
<1>5. Steady(S, l, say)
  BY SaidSteady
<1> HIDE DEF say
<1>6. Calm(S, l, <<e, say>>) /\ <<e, say>>[1] = e
  BY <1>4, <1>5, CalmPair
<1>. QED BY <1>2, <1>3, <1>4, <1>6, CalmNone

LEMMA SupersedePositionDraft ==
  ASSUME NEW S, NEW l, Orderly(l), NEW id, Known(l, A, id), NEW old, NEW new
  PROVE  Calm(S, l, SupersedePosition(l, id, old, new))
<1> DEFINE was    == Assessed1(l, id)
           marked == [n \in DOMAIN was.positions |-> <<was.positions[n][1], was.positions[n][2] \/ was.positions[n][1] = old>>]
           e      == Took(l, was, marked, new)
           say    == Transition(id, "POSITION_CHANGED", <<"superseded", old, new>>)
<1>1. Shaped(was) /\ was.type = A /\ was.id = id
  BY CurrentOf DEF Assessed1
<1>2. SupersedePosition(l, id, old, new) =
        IF old \notin Held(was) \/ ~PublicEvidence(Held(was), new) THEN <<>> ELSE <<e, say>>
  BY DEF SupersedePosition
<1> HIDE DEF marked
<1>3. DOMAIN e = DOMAIN was /\ e.type = A /\ e.id = id
  BY <1>1, TookIs
<1> HIDE DEF e, was
<1>4. Steady(S, l, e)
  BY <1>1, <1>3, LaterSteady DEF A, Judged, T, N
<1>5. Steady(S, l, say)
  BY SaidSteady
<1> HIDE DEF say
<1>. QED BY <1>2, <1>4, <1>5, CalmPair, CalmNone

LEMMA RecheckedIs ==
  ASSUME NEW l, Orderly(l), NEW id, Known(l, A, id)
  PROVE  LET e == Rechecked(l, id) IN Shaped(e) /\ e.type = A /\ e.id = id
<1> DEFINE was == Assessed1(l, id)
           e   == Rechecked(l, id)
<1>1. Shaped(was) /\ was.type = A /\ was.id = id
  BY CurrentOf DEF Assessed1
<1>2. DOMAIN e = DOMAIN was /\ e.type = A /\ e.id = id
  BY <1>1 DEF Rechecked, Shaped
<1> HIDE DEF e, was
<1>3. Shaped(e)
  BY <1>1, <1>2, LaterSteady DEF A, Judged, T, N
<1>. QED BY <1>2, <1>3 DEF e

LEMMA RefreshAssessmentDraft ==
  ASSUME NEW S, NEW l, Orderly(l), NEW id, Known(l, A, id), NEW cause
  PROVE  Calm(S, l, RefreshAssessment(l, id, cause))
<1> DEFINE was == Assessed1(l, id)
           e   == Rechecked(l, id)
           s1  == IF e.basis.deg = was.basis.deg THEN <<>> ELSE <<Transition(id, "BASIS_DEGRADED", cause)>>
           s2  == IF e.caveats = was.caveats THEN <<>> ELSE <<Transition(id, "IDENTITY_CAVEAT_CHANGED", cause)>>
<1>1. RefreshAssessment(l, id, cause) = IF e = was THEN <<>> ELSE <<e>> \o s1 \o s2
  BY DEF RefreshAssessment
<1>2. Shaped(e) /\ e.type = A
  BY RecheckedIs
<1> HIDE DEF e, was
<1>3. Steady(S, l, e)
  BY <1>2, LaterSteady DEF A, Judged, T, N
<1>4. Calm(S, l, s1) /\ Calm(S, l, s2)
  BY SaidSteady, CalmOne, CalmNone
<1> HIDE DEF s1, s2
<1>5. Calm(S, l, <<e>> \o s1 \o s2)
  BY <1>3, <1>4, CalmOne, CalmJoined
<1>. QED BY <1>1, <1>5, CalmNone

LEMMA CreateAssessmentDraft ==
  ASSUME NEW S, StakeholderSteps \subseteq S, NEW l, NEW id, NEW proposal, NEW ps, NEW claims
  PROVE  Calm(S, l, CreateAssessment(l, id, proposal, ps, claims))
<1> DEFINE p    == [id |-> id, proposal |-> proposal, ps |-> ps, claims |-> claims]
           step == Step("recheck", p)
           made == Ensure(id, "CREATED", <<id>>)
           e    == Assessment(l, id, proposal, [n \in DOMAIN ps |-> <<ps[n], FALSE>>], claims \cup ClaimsOf(ToSet(ps)))
           not  == \/ proposal # "" /\ (~Spendable(l, proposal) \/ ps # <<>> \/ claims # Offered)
                   \/ \E n \in DOMAIN ps : ~PublicEvidence({ps[k] : k \in DOMAIN ps \ {n}}, ps[n])
                   \/ ps = <<>> /\ claims = {}
<1>1. CreateAssessment(l, id, proposal, ps, claims) =
        CASE Known(l, A, id) -> <<made, step>> [] OTHER -> IF not THEN <<>> ELSE <<e, made>>
  BY DEF CreateAssessment
<1> HIDE DEF not
<1>2. Steady(S, l, made)
  BY SaidSteady
<1>3. ASSUME Known(l, A, id) PROVE Steady(S, l, step)
  <2>1. p.id = id
    OBVIOUS
  <2> HIDE DEF p
  <2>. QED BY <1>3, <2>1, StepSteady DEF Asks, StakeholderSteps
<1>4. Steady(S, l, e)
  <2>1. {"type", "id"} \subseteq DOMAIN e /\ e.type = A
    BY DEF Assessment
  <2> HIDE DEF e
  <2>. QED BY <2>1, PlainSteady DEF A, Judged, T, N
<1> HIDE DEF e, made, step
<1>. QED BY <1>1, <1>2, <1>3, <1>4, CalmPair, CalmNone

LEMMA RecheckDraft ==
  ASSUME NEW S, StakeholderSteps \subseteq S, NEW l, Orderly(l), NEW s, Known(l, A, s.id)
  PROVE  Calm(S, l, Recheck(l, s))
<1> DEFINE was  == Assessed1(l, s.id)
           new  == Only(s.ps, {n \in DOMAIN s.ps : s.ps[n] \notin Held(was)})
           more == s.claims \ was.basis.sup
           p    == [was |-> Rechecked(l, s.id), ps |-> new, claims |-> more]
           rest == IF s.proposal # "" /\ (new # <<>> \/ ~(more \subseteq Offered)) THEN <<>> ELSE <<Step("more", p)>>
<1>1. Recheck(l, s) = IF s.proposal # "" /\ s.proposal # was.proposal THEN <<>>
                      ELSE RefreshAssessment(l, s.id, <<s.id>>) \o rest
  BY DEF Recheck
<1> HIDE DEF new, more
<1>2. p.was = Rechecked(l, s.id) /\ {"was", "ps"} \subseteq DOMAIN p
  OBVIOUS
<1> HIDE DEF p
<1>3. Asks(l, "more", p)
  BY <1>2, RecheckedIs DEF Asks
<1>4. Calm(S, l, rest)
  BY <1>3, StepSteady, CalmOne, CalmNone DEF StakeholderSteps
<1> HIDE DEF rest
<1>5. Calm(S, l, RefreshAssessment(l, s.id, <<s.id>>) \o rest)
  BY <1>4, RefreshAssessmentDraft, CalmJoined
<1>. QED BY <1>1, <1>5, CalmNone

LEMMA MoreDraft ==
  ASSUME NEW S, StakeholderSteps \subseteq S, NEW l, Orderly(l), NEW s,
         {"was", "ps"} \subseteq DOMAIN s, Shaped(s.was), s.was.type = A, Known(l, A, s.was.id)
  PROVE  Calm(S, l, More(l, s))
<1> DEFINE id     == s.was.id
           e      == [s.was EXCEPT !.basis = Widened(l, @, s.claims, {})]
           say    == Transition(id, "EVIDENCE_UPDATED", <<"fold", s.claims>>)
           events == AddPosition(l, id, Head(s.ps), <<id>>)
           p      == [s EXCEPT !.ps = Tail(@), !.was = IF events = <<>> THEN Assessed1(l, id) ELSE events[1]]
<1>1. More(l, s) = CASE s.ps = <<>> -> IF s.claims = {} THEN <<>> ELSE <<e, say>>
                     [] s.ps # <<>> /\ ~PublicEvidence(Held(Assessed1(l, id)), Head(s.ps)) -> <<>>
                     [] OTHER -> events \o <<Step("more", p)>>
  BY DEF More
<1>2. DOMAIN e = DOMAIN s.was /\ e.type = A
  BY DEF Shaped
<1> HIDE DEF e
<1>3. Steady(S, l, e)
  BY <1>2, LaterSteady DEF A, Judged, T, N
<1>4. Steady(S, l, say)
  BY SaidSteady
<1> HIDE DEF say
<1>5. Calm(S, l, events) /\ (events # <<>> => Shaped(events[1]) /\ events[1].type = A /\ events[1].id = id)
  BY AddPositionDraft
<1>6. Shaped(Assessed1(l, id)) /\ Assessed1(l, id).type = A /\ Assessed1(l, id).id = id
  BY CurrentOf DEF Assessed1
<1>7. p.was = (IF events = <<>> THEN Assessed1(l, id) ELSE events[1]) /\ {"was", "ps"} \subseteq DOMAIN p
  OBVIOUS
<1> HIDE DEF p, events
<1>9. Asks(l, "more", p)
  BY <1>5, <1>6, <1>7 DEF Asks
<1>10. Calm(S, l, events \o <<Step("more", p)>>)
  BY <1>5, <1>9, StepSteady, CalmOne, CalmJoined DEF StakeholderSteps
<1>. QED BY <1>1, <1>3, <1>4, <1>10, CalmPair, CalmNone

LEMMA CaveatsDraft ==
  ASSUME NEW S, StakeholderSteps \subseteq S, NEW l, Orderly(l)
  PROVE  Calm(S, l, RefreshIdentityCaveats(l))
<1> DEFINE K     == {id \in Assessed : Known(l, A, id)}
           known == SetToSeq(K)
           q     == [n \in DOMAIN known |-> Step("caveats", Assessed1(l, known[n]))]
<1>1. RefreshIdentityCaveats(l) = q
  BY DEF RefreshIdentityCaveats
<1>2. IsFiniteSet(K)
  BY KnownFinite DEF Orderly
<1>3. known \in [1 .. Cardinality(K) -> K] /\ Cardinality(K) \in Nat
  BY <1>2, SetToSeqIs
<1>4. \A id \in K : Steady(S, l, Step("caveats", Assessed1(l, id)))
  <2>1. ASSUME NEW id \in K PROVE Asks(l, "caveats", Assessed1(l, id))
    BY CurrentOf DEF Asks, Assessed1
  <2>. QED BY <2>1, StepSteady DEF StakeholderSteps
<1> HIDE DEF known, K
<1>5. /\ q = [n \in 1 .. Cardinality(K) |-> q[n]]
      /\ \A n \in 1 .. Cardinality(K) : Steady(S, l, q[n])
  BY <1>3, <1>4
<1> HIDE DEF q
<1>. QED BY <1>1, <1>3, <1>5, CalmMapped

LEMMA CaveatDraft ==
  ASSUME NEW S, NEW l, NEW was, Shaped(was), was.type = A
  PROVE  Calm(S, l, Caveat(l, was))
<1> DEFINE now == OpenCaveats(l)
           e   == [was EXCEPT !.caveats = now]
           say == Transition(was.id, "IDENTITY_CAVEAT_CHANGED", <<"propagate", was.id>>)
<1>1. Caveat(l, was) = IF now = was.caveats THEN <<>> ELSE <<e, say>>
  BY DEF Caveat
<1>2. DOMAIN e = DOMAIN was /\ e.type = A
  BY DEF Shaped
<1> HIDE DEF e
<1>3. Steady(S, l, e)
  BY <1>2, LaterSteady DEF A, Judged, T, N
<1>4. Steady(S, l, say)
  BY SaidSteady
<1> HIDE DEF say
<1>. QED BY <1>1, <1>3, <1>4, CalmPair, CalmNone

LEMMA InfluenceDraft ==
  ASSUME NEW S, NEW l, Orderly(l), NEW u, NEW proposal, NEW id
  PROVE  /\ Calm(S, l, AssertInfluence(l, u, proposal))
         /\ Known(l, U, u) => Calm(S, l, SupersedeInfluence(l, u))
         /\ Calm(S, l, LinkInfluence(l, id, u))
<1>1. Calm(S, l, AssertInfluence(l, u, proposal))
  <2> DEFINE versions == Cardinality(Versions(l, U, u))
             new      == [type |-> U, id |-> u, version |-> versions, status |-> "ACTIVE", proposal |-> proposal]
             made     == Ensure(u, "ASSERTED", <<u>>)
             say      == IF versions = 0 THEN made ELSE Transition(u, "ASSERTED", <<"again", versions + 1>>)
  <2>1. AssertInfluence(l, u, proposal) =
          CASE IsActive(l, u) -> IF proposal # "" /\ proposal # Influence(l, u).proposal THEN <<>> ELSE <<made>>
            [] ~IsActive(l, u) /\ ~Authorized(l, proposal) -> <<>>
            [] OTHER -> <<new, say>>
    BY DEF AssertInfluence
  <2>2. {"type", "id"} \subseteq DOMAIN new /\ new.type = U
    OBVIOUS
  <2> HIDE DEF new
  <2>3. Steady(S, l, new)
    BY <2>2, PlainSteady DEF U, Judged, T, N
  <2>4. Steady(S, l, made) /\ Steady(S, l, say)
    BY SaidSteady
  <2> HIDE DEF say, made
  <2>. QED BY <2>1, <2>3, <2>4, CalmOne, CalmPair, CalmNone
<1>2. ASSUME Known(l, U, u) PROVE Calm(S, l, SupersedeInfluence(l, u))
  <2> DEFINE was  == Influence(l, u)
             e    == [was EXCEPT !.status = "SUPERSEDED"]
             say  == Transition(u, "SUPERSEDED", <<"analyst">>)
  <2>1. Shaped(was) /\ was.type = U
    BY <1>2, CurrentOf DEF Influence
  <2>2. DOMAIN e = DOMAIN was /\ e.type = U
    BY <2>1 DEF Shaped
  <2> HIDE DEF was
  <2>3. Steady(S, l, e)
    BY <2>1, <2>2, LaterSteady DEF U, Judged, T, N
  <2>4. Steady(S, l, say)
    BY SaidSteady
  <2>5. SupersedeInfluence(l, u) = (IF IsActive(l, u) THEN <<e>> ELSE <<>>) \o <<say>>
    BY DEF SupersedeInfluence, was
  <2> HIDE DEF e, say
  <2>. QED BY <2>3, <2>4, <2>5, CalmOne, CalmNone, CalmJoined
<1>3. Calm(S, l, LinkInfluence(l, id, u))
  <2> DEFINE was == Assessed1(l, id)
             e   == [was EXCEPT !.influences = @ \cup {u}]
  <2>1. ASSUME Known(l, A, id) PROVE Steady(S, l, e)
    <3>1. Shaped(was) /\ was.type = A
      BY <2>1, CurrentOf DEF Assessed1
    <3>2. DOMAIN e = DOMAIN was /\ e.type = A
      BY <3>1 DEF Shaped
    <3> HIDE DEF was, e
    <3>. QED BY <3>1, <3>2, LaterSteady DEF A, Judged, T, N
  <2>2. LinkInfluence(l, id, u) = IF ~Known(l, A, id) \/ u \in was.influences THEN <<>> ELSE <<e>>
    BY DEF LinkInfluence
  <2> HIDE DEF e
  <2>. QED BY <2>1, <2>2, CalmOne, CalmNone
<1>. QED BY <1>1, <1>2, <1>3

LEMMA DiscoverDraft ==
  ASSUME NEW S, StakeholderSteps \subseteq S, NEW l, NEW u, NEW p
  PROVE  Calm(S, l, Discover(u, p))
<1>1. \A id : Steady(S, l, Step("assess", id)) /\ Steady(S, l, Step("assert", id)) /\ Steady(S, l, Step("link", id))
  BY StepSteady DEF Asks, StakeholderSteps
<1>2. Calm(S, l, IF Influences[u].derived
                 THEN <<Step("assert", u), Step("link", [id |-> Influences[u].of, u |-> u])>> ELSE <<>>)
  BY <1>1, CalmPair, CalmNone
<1>. QED BY <1>1, <1>2, CalmOne, CalmJoined DEF Discover

LEMMA StakeholderStepDraft ==
  ASSUME NEW S, StakeholderSteps \subseteq S, NEW l, Orderly(l), NEW s, s.what \in StakeholderSteps, Asks(l, s.what, s.id)
  PROVE  Calm(S, l, StakeholderContinue(l, s))
<1>1. CASE s.what = "recheck"
  BY <1>1, RecheckDraft DEF StakeholderContinue, Asks
<1>2. CASE s.what = "more"
  BY <1>2, MoreDraft DEF StakeholderContinue, Asks
<1>3. CASE s.what = "caveats"
  BY <1>3, CaveatDraft DEF StakeholderContinue, Asks
<1>4. CASE s.what = "assess"
  BY <1>4, CreateAssessmentDraft DEF StakeholderContinue
<1>5. CASE s.what = "assert"
  BY <1>5, InfluenceDraft DEF StakeholderContinue
<1>6. CASE s.what = "link"
  BY <1>6, InfluenceDraft DEF StakeholderContinue
<1>. QED BY <1>1, <1>2, <1>3, <1>4, <1>5, <1>6 DEF StakeholderSteps

(***************************************************************************)
(* Impact.                                                                 *)
(***************************************************************************)
(* A later version with another status. *)
LEMMA Restated ==
  ASSUME NEW was, Shaped(was), was.type \in {"assumption", "path", "objective", "option"},
         NEW e, DOMAIN e = DOMAIN was, e.type = was.type, e.status \in {"STALE", "EXPOSED", "INVALIDATED"} \/ e.type # "path",
         e.type = "path" => e.status = "STALE",
         e.type = "assumption" => IsFiniteSet(e.objectives)
  PROVE  Shaped(e)
BY DEF Shaped, Versioned, Judged, T, N

LEMMA CreateObjectiveDraft ==
  ASSUME NEW S, NEW l, NEW o
  PROVE  Drafted(S, l, CreateObjective(l, o))
<1> DEFINE e == [type |-> "objective", id |-> o, version |-> 0, status |-> "ACTIVE"]
<1>1. CreateObjective(l, o) = (IF Known(l, "objective", o) THEN <<>> ELSE <<e>>) \o <<Ensure(o, "CREATED", <<o>>)>>
  BY DEF CreateObjective
<1>2. {"type", "id", "version", "status"} \subseteq DOMAIN e /\ e.type = "objective" /\ e.version = 0
  OBVIOUS
<1> HIDE DEF e
<1>3. Steady(S, l, e)
  BY <1>2 DEF Steady, Shaped, Versioned, Judged, T, N
<1>. QED BY <1>1, <1>3, SaidSteady, CalmOne, CalmNone, CalmJoined, CalmDrafted

LEMMA ExposeDraft ==
  ASSUME NEW S, NEW l, Orderly(l), NEW o, NEW cause
  PROVE  Calm(S, l, Expose(l, o, cause))
<1> DEFINE was == Current(l, "objective", o)
           e   == [was EXCEPT !.status = "EXPOSED"]
<1>1. Expose(l, o, cause) = IF ~Known(l, "objective", o) THEN <<>>
                            ELSE (IF was.status = "EXPOSED" THEN <<>> ELSE <<e>>) \o <<Transition(o, "EXPOSED", cause)>>
  BY DEF Expose
<1>2. ASSUME Known(l, "objective", o) PROVE Steady(S, l, e)
  <2>1. Shaped(was) /\ was.type = "objective"
    BY <1>2, CurrentOf
  <2>2. DOMAIN e = DOMAIN was /\ e.type = "objective" /\ e.status = "EXPOSED"
    BY <2>1 DEF Shaped
  <2> HIDE DEF was, e
  <2>3. Shaped(e)
    BY <2>1, <2>2, Restated
  <2>. QED BY <2>2, <2>3 DEF Steady, Settling
<1> HIDE DEF e
<1>. QED BY <1>1, <1>2, SaidSteady, CalmOne, CalmNone, CalmJoined

(* What is recorded again goes on with the version of the moment, or, if   *)
(* its mark is missing, with the one it has found.                         *)
LEMMA MarkedOrNot ==
  ASSUME NEW l, Orderly(l), NEW a, Known(l, "assumption", a), ~Marked(l, a, "HELD")
  PROVE  Unmarked(l, Current(l, "assumption", a), a)
<1>1. IsSeq(l)
  BY DEF Orderly
<1>2. PICK i \in Versions(l, "assumption", a) : Current(l, "assumption", a) = l[i]
  BY CurrentOf
<1>3. i \in 0 .. Len(l) /\ Len(l) \in Nat
  BY <1>1, <1>2, VersionsFacts, SeqFacts
<1>4. ~Marked(Prefix(l, i), a, "HELD")
  <2> SUFFICES ASSUME Marked(Prefix(l, i), a, "HELD") PROVE FALSE
    OBVIOUS
  <2>1. PICK j \in Versions(Prefix(l, i), "transition", a) : Prefix(l, i)[j].what = "HELD"
    BY DEF Marked
  <2>2. j \in 1 .. i /\ Prefix(l, i)[j] = l[j] /\ l[j].type = "transition" /\ l[j].id = a
    BY <1>1, <1>3, <2>1, PrefixFacts, VersionsFacts
  <2>3. j \in Versions(l, "transition", a) /\ l[j].what = "HELD"
    BY <1>1, <1>3, <2>1, <2>2, VersionsFacts
  <2>. QED BY <2>3 DEF Marked
<1>. QED BY <1>2, <1>4 DEF Unmarked

LEMMA DraftedBehind ==
  ASSUME NEW S, NEW l, NEW a, Steady(S, l, a), Superfluous(l, a), NEW b, Apt(S, l, b)
  PROVE  Drafted(S, l, <<a>> \o <<b>>)
<1> DEFINE q == <<a>> \o <<b>>
<1>1. IsSeq(q) /\ Len(q) = 2 /\ q[1] = a /\ q[2] = b
  BY Single, JoinedOne
<1> HIDE DEF q
<1>2. ASSUME NEW n \in 1 .. Len(q)
      PROVE  Steady(S, l, q[n]) \/ (Apt(S, l, q[n]) /\ \A k \in 1 .. n - 1 : Superfluous(l, q[k]))
  <2>1. n = 1 \/ (n = 2 /\ \A k \in 1 .. n - 1 : k = 1)
    BY <1>1
  <2>. QED BY <1>1, <2>1
<1>3. Drafted(S, l, q)
  BY <1>1, <1>2 DEF Drafted
<1>. QED BY <1>3 DEF q

LEMMA RecordAssumptionDraft ==
  ASSUME NEW S, ImpactSteps \subseteq S, NEW l, Orderly(l), NEW a, NEW claims, NEW objectives, IsFiniteSet(objectives)
  PROVE  Drafted(S, l, RecordAssumption(l, a, claims, objectives))
<1> DEFINE was  == Current(l, "assumption", a)
           more == <<claims \ was.sup, objectives \ was.objectives>>
           p    == [id |-> a, claims |-> claims, objectives |-> objectives, was |-> was]
           held == Ensure(a, "HELD", <<a>>)
           step == Step("fold assumption", p)
           e    == [type |-> "assumption", id |-> a, version |-> 0, status |-> "HELD",
                    sup |-> claims, con |-> {}, objectives |-> objectives]
<1>1. RecordAssumption(l, a, claims, objectives) =
        IF ~Known(l, "assumption", a) THEN <<e, held>>
        ELSE <<held>> \o (IF more = <<{}, {}>> THEN <<>> ELSE <<step>>)
  BY DEF RecordAssumption
<1>2. /\ {"type", "id", "version", "status", "sup", "objectives"} \subseteq DOMAIN e
      /\ e.type = "assumption" /\ e.version = 0 /\ e.objectives = objectives
  OBVIOUS
<1>3. p.id = a /\ p.was = was /\ p.objectives = objectives
  OBVIOUS
<1>4. {"type", "id", "what"} \subseteq DOMAIN step /\ step.type = "step" /\ step.what = "fold assumption" /\ step.id = p
  BY DEF Step
<1>5. Steady(S, l, held)
  BY SaidSteady
<1>6. Marked(l, a, "HELD") => Superfluous(l, held)
  BY DEF Superfluous, Ensure
<1> HIDE DEF e, p, step, held, more
<1>7. Steady(S, l, e)
  BY <1>2 DEF Steady, Shaped, Versioned, Judged, T, N
<1>8. ASSUME Known(l, "assumption", a), ~Marked(l, a, "HELD") PROVE Steady(S, l, step)
  <2>1. Asks(l, "fold assumption", p)
    BY <1>3, <1>8, MarkedOrNot DEF Asks
  <2>2. "fold assumption" \in S
    BY DEF ImpactSteps
  <2>. QED BY <2>1, <2>2, StepSteady DEF step
<1>9. ASSUME Known(l, "assumption", a) PROVE Apt(S, l, step)
  <2>1. Shaped(step)
    BY <1>4 DEF Shaped, Judged, T, N
  <2>2. IsStep(S, step)
    BY <1>4 DEF IsStep, ImpactSteps
  <2>. QED BY <1>3, <1>4, <1>9, <2>1, <2>2 DEF Apt
<1>10. CASE ~Known(l, "assumption", a)
  BY <1>1, <1>5, <1>7, <1>10, CalmPair, CalmDrafted
<1>11. CASE Known(l, "assumption", a) /\ Marked(l, a, "HELD")
  <2>1. Drafted(S, l, <<held>> \o <<step>>)
    BY <1>5, <1>6, <1>9, <1>11, DraftedBehind
  <2>2. Drafted(S, l, <<held>> \o <<>>)
    BY <1>5, CalmOne, CalmNone, CalmJoined, CalmDrafted
  <2>. QED BY <1>1, <1>11, <2>1, <2>2
<1>12. CASE Known(l, "assumption", a) /\ ~Marked(l, a, "HELD")
  BY <1>1, <1>5, <1>8, <1>12, CalmOne, CalmNone, CalmJoined, CalmDrafted
<1>. QED BY <1>10, <1>11, <1>12

LEMMA FoldAssumptionDraft ==
  ASSUME NEW S, NEW l, Orderly(l), NEW s, IsFiniteSet(s.objectives),
         Unmarked(l, s.was, s.id) \/ (Known(l, "assumption", s.id) /\ s.was = Current(l, "assumption", s.id))
  PROVE  Drafted(S, l, FoldAssumption(s))
<1> DEFINE was == s.was
           e   == [was EXCEPT !.sup = @ \cup s.claims, !.objectives = @ \cup s.objectives]
           say == Transition(s.id, "EVIDENCE_UPDATED", <<"fold", s.claims \ s.was.sup, s.objectives \ s.was.objectives>>)
<1>1. FoldAssumption(s) = <<e, say>>
  BY DEF FoldAssumption
<1>2. IsSeq(l)
  BY DEF Orderly
<1>3. Known(l, "assumption", s.id) /\ Shaped(was) /\ was.type = "assumption" /\ was.id = s.id
  <2>1. CASE Unmarked(l, was, s.id)
    <3>1. PICK i \in Versions(l, "assumption", s.id) : was = l[i]
      BY <2>1 DEF Unmarked
    <3>2. i \in 1 .. Len(l) /\ l[i].type = "assumption" /\ l[i].id = s.id
      BY <1>2, <3>1, VersionsFacts
    <3>. QED BY <3>1, <3>2 DEF Orderly, Known
  <2>2. CASE Known(l, "assumption", s.id) /\ was = Current(l, "assumption", s.id)
    BY <2>2, CurrentOf
  <2>. QED BY <2>1, <2>2
<1>4. /\ DOMAIN e = DOMAIN was /\ e.type = "assumption" /\ e.id = s.id /\ e.status = was.status
      /\ e.version = was.version /\ e.objectives = was.objectives \cup s.objectives
      /\ e = [was EXCEPT !.version = e.version, !.sup = e.sup, !.objectives = e.objectives]
  BY <1>3 DEF Shaped, Versioned, Judged
<1> HIDE DEF e
<1>5. IsFiniteSet(e.objectives)
  <2>1. IsFiniteSet(was.objectives)
    BY <1>3 DEF Shaped
  <2> HIDE DEF was
  <2>2. IsFiniteSet(was.objectives \cup s.objectives)
    BY <2>1, FS_Union
  <2>. QED BY <1>4, <2>2
<1>6. Shaped(e)
  BY <1>3, <1>4, <1>5, Restated
<1>7. Follows(l, e, Current(l, "assumption", s.id))
  <2>1. CASE Unmarked(l, was, s.id)
    <3>1. Resumes(l, e)
      BY <1>4, <2>1 DEF Unmarked, Resumes
    <3>. QED BY <1>4, <3>1 DEF Follows, T
  <2>2. CASE was = Current(l, "assumption", s.id)
    BY <1>4, <2>2 DEF Follows, T
  <2>. QED BY <2>1, <2>2
<1>8. Apt(S, l, e)
  BY <1>4, <1>6, <1>7, AptRevision DEF Judged
<1>. QED BY <1>1, <1>8, SaidSteady, DraftedPair

LEMMA QuestionDraft ==
  ASSUME NEW S, NEW l, Orderly(l), NEW a, Known(l, "assumption", a), NEW cause
  PROVE  Drafted(S, l, QuestionAssumption(l, a, cause))
<1> DEFINE was == Current(l, "assumption", a)
           e   == [was EXCEPT !.status = "UNCERTAIN"]
           say == Transition(a, "QUESTIONED", cause)
<1>1. QuestionAssumption(l, a, cause) = CASE was.status = "HELD" -> <<e, say>>
                                          [] was.status = "UNCERTAIN" -> <<say>>
                                          [] OTHER -> <<>>
  BY DEF QuestionAssumption
<1>2. Shaped(was) /\ was.type = "assumption" /\ was.id = a
  BY CurrentOf
<1>3. DOMAIN e = DOMAIN was /\ e.type = "assumption" /\ e.id = a /\ e.status = "UNCERTAIN" /\ e.objectives = was.objectives
  BY <1>2 DEF Shaped
<1> HIDE DEF e
<1>4. Steady(S, l, say) 
  BY SaidSteady
<1> HIDE DEF say
<1>5. Shaped(e)
  BY <1>2, <1>3, Restated DEF Shaped
<1>6. ASSUME was.status = "HELD" PROVE Apt(S, l, e)
  <2>1. Follows(l, e, was)
    BY <1>3, <1>6 DEF Follows, T
  <2>. QED BY <1>3, <1>5, <2>1, AptRevision DEF Judged
<1> HIDE DEF was
<1>7. was.status # "HELD" /\ was.status # "UNCERTAIN" => QuestionAssumption(l, a, cause) = <<>>
  BY <1>1
<1>. QED BY <1>1, <1>4, <1>6, <1>7, DraftedPair, CalmNone, CalmDrafted

LEMMA InvalidateDraft ==
  ASSUME NEW S, ImpactSteps \subseteq S, NEW l, Orderly(l), NEW a, Known(l, "assumption", a), NEW con
  PROVE  Calm(S, l, InvalidateAssumption(l, a, con))
<1> DEFINE was == Current(l, "assumption", a)
           e   == [was EXCEPT !.status = "INVALIDATED", !.con = @ \cup con]
           say == Transition(a, "INVALIDATED", <<"analyst">>)
           step == Step("fallout", a)
<1>1. InvalidateAssumption(l, a, con) = (IF was.status = "INVALIDATED" THEN <<>> ELSE <<e>>) \o <<say, step>>
  BY DEF InvalidateAssumption
<1>2. Shaped(was) /\ was.type = "assumption"
  BY CurrentOf
<1>3. DOMAIN e = DOMAIN was /\ e.type = "assumption" /\ e.status = "INVALIDATED" /\ e.objectives = was.objectives
  BY <1>2 DEF Shaped
<1> HIDE DEF e, was
<1>4. Shaped(e)
  BY <1>2, <1>3, Restated DEF Shaped
<1>5. Steady(S, l, e)
  BY <1>3, <1>4 DEF Steady, Settling
<1>6. Steady(S, l, say) /\ Steady(S, l, step)
  BY SaidSteady, StepSteady DEF Asks, ImpactSteps
<1> HIDE DEF say, step
<1>7. Calm(S, l, <<say, step>>) /\ Calm(S, l, IF was.status = "INVALIDATED" THEN <<>> ELSE <<e>>)
  BY <1>5, <1>6, CalmPair, CalmOne, CalmNone
<1>. QED BY <1>1, <1>7, CalmJoined

LEMMA FalloutDraft ==
  ASSUME NEW S, ImpactSteps \subseteq S, NEW l, Orderly(l), NEW a, Known(l, "assumption", a)
  PROVE  Calm(S, l, Fallout(l, a))
<1> DEFINE hit  == AffectedBy(l, a)
           ps   == SetToSeq(hit)
           q    == [n \in DOMAIN ps |-> Step("stale", <<ps[n], a>>)]
           r    == Step("expose each", <<SetToSeq(ExposedBy(l, a)), a>>)
<1>1. Fallout(l, a) = q \o <<r>>
  BY DEF Fallout
<1>2. \A p \in hit : Known(l, "path", p)
  BY DEF AffectedBy, Built
<1>3. IsFiniteSet(hit)
  BY <1>2, KnownFinite DEF Orderly
<1>4. ps \in [1 .. Cardinality(hit) -> hit] /\ Cardinality(hit) \in Nat
  BY <1>3, SetToSeqIs
<1>5. \A p \in hit : Steady(S, l, Step("stale", <<p, a>>))
  BY <1>2, StepSteady DEF Asks, ImpactSteps
<1>6. Steady(S, l, r)
  BY StepSteady DEF Asks, ImpactSteps
<1> HIDE DEF ps, hit, r
<1>7. q = [n \in 1 .. Cardinality(hit) |-> q[n]] /\ \A n \in 1 .. Cardinality(hit) : Steady(S, l, q[n])
  BY <1>4, <1>5
<1> HIDE DEF q
<1>8. Calm(S, l, q) /\ Calm(S, l, <<r>>)
  BY <1>4, <1>6, <1>7, CalmMapped, CalmOne
<1>. QED BY <1>1, <1>8, CalmJoined

LEMMA ExposeEachDraft ==
  ASSUME NEW S, ImpactSteps \subseteq S, NEW l, Orderly(l), NEW objectives, NEW a
  PROVE  Calm(S, l, ExposeEach(l, objectives, a))
<1> DEFINE one  == Expose(l, Head(objectives), <<"assumption", a>>)
           rest == Step("expose each", <<Tail(objectives), a>>)
<1>1. ExposeEach(l, objectives, a) \in {<<>>, one \o <<rest>>}
  BY DEF ExposeEach
<1>2. Calm(S, l, one)
  BY ExposeDraft
<1>3. Steady(S, l, rest)
  BY StepSteady DEF Asks, ImpactSteps
<1> HIDE DEF one, rest
<1>. QED BY <1>1, <1>2, <1>3, CalmNone, CalmOne, CalmJoined

(* A path goes stale once. *)
LEMMA StaleDraft ==
  ASSUME NEW S, ImpactSteps \subseteq S, NEW l, Orderly(l), NEW p, Known(l, "path", p)
  PROVE  /\ Drafted(S, l, Stale(l, p))
         /\ \A a : Drafted(S, l, StaleByAssumption(l, p, a))
         /\ Drafted(S, l, RefreshPath(l, p))
<1> DEFINE was == Current(l, "path", p)
           e   == [was EXCEPT !.status = "STALE"]
<1>1. Stale(l, p) = IF was.status = "STALE" THEN <<>> ELSE <<e>>
  BY DEF Stale
<1>2. Shaped(was) /\ was.type = "path" /\ was.id = p
  BY CurrentOf
<1>3. DOMAIN e = DOMAIN was /\ e.type = "path" /\ e.id = p /\ e.status = "STALE"
  BY <1>2 DEF Shaped
<1> HIDE DEF e
<1>4. Shaped(e)
  BY <1>2, <1>3, Restated
<1>5. ASSUME was.status # "STALE" PROVE Apt(S, l, e)
  <2>1. Follows(l, e, was)
    BY <1>2, <1>3, <1>5 DEF Follows, Shaped, T
  <2>. QED BY <1>3, <1>4, <2>1, AptRevision DEF Judged
<1> HIDE DEF was
<1>6. Drafted(S, l, Stale(l, p))
  BY <1>1, <1>5, DraftedOne, CalmNone, CalmDrafted
<1>7. \A o, cause, what, id, why : Calm(S, l, <<Transition(id, what, why), Step("expose", <<o, cause>>)>>)
  BY SaidSteady, StepSteady, CalmPair DEF Asks, ImpactSteps
<1>8. ASSUME NEW a PROVE Drafted(S, l, StaleByAssumption(l, p, a))
  BY <1>6, <1>7, DraftedJoined DEF StaleByAssumption
<1>9. Drafted(S, l, RefreshPath(l, p))
  BY <1>6, <1>7, DraftedJoined, CalmNone, CalmDrafted DEF RefreshPath
<1>. QED BY <1>6, <1>8, <1>9

LEMMA BuildDraft ==
  ASSUME NEW S, NEW l, NEW p, NEW proposal
  PROVE  Drafted(S, l, BuildPath(l, p, proposal))
<1> DEFINE new   == [type |-> "path", id |-> p, version |-> 0, status |-> "ASSESSED",
                     authority |-> Weakest(Paths[p].authorities), proposal |-> proposal]
           built == <<Ensure(p, "CONSTRUCTED", <<p>>)>>
<1>1. BuildPath(l, p, proposal) \in {<<>>, built, <<new>> \o built}
  BY DEF BuildPath
<1>2. {"type", "id", "version", "status"} \subseteq DOMAIN new /\ new.type = "path" /\ new.version = 0 /\ new.status = "ASSESSED"
  OBVIOUS
<1> HIDE DEF new
<1>3. Steady(S, l, new)
  BY <1>2 DEF Steady, Shaped, Versioned, Judged, T, N
<1>4. Calm(S, l, built) /\ Calm(S, l, <<new>>)
  BY <1>3, SaidSteady, CalmOne
<1> HIDE DEF built
<1>5. Calm(S, l, <<new>> \o built)
  BY <1>4, CalmJoined
<1>. QED BY <1>1, <1>4, <1>5, CalmNone, CalmDrafted

LEMMA OptionDraft ==
  ASSUME NEW S, NEW l, Orderly(l), NEW o
  PROVE  /\ \A proposal : Drafted(S, l, ProposeOption(l, o, proposal))
         /\ Known(l, "option", o) => \A status, kind : Drafted(S, l, ReviewOption(l, o, status, kind))
<1>1. ASSUME NEW proposal PROVE Drafted(S, l, ProposeOption(l, o, proposal))
  <2> DEFINE new  == [type |-> "option", id |-> o, version |-> 0, status |-> "PROPOSED", actor |-> "", proposal |-> proposal]
             made == Ensure(o, "PROPOSED", <<o>>)
  <2>1. ProposeOption(l, o, proposal) \in {<<>>, <<made>>, <<new, made>>}
    BY DEF ProposeOption
  <2>2. {"type", "id", "version", "status"} \subseteq DOMAIN new /\ new.type = "option" /\ new.version = 0
    OBVIOUS
  <2> HIDE DEF new
  <2>3. Steady(S, l, new)
    BY <2>2 DEF Steady, Shaped, Versioned, Judged, T, N
  <2>4. Steady(S, l, made)
    BY SaidSteady
  <2> HIDE DEF made
  <2>. QED BY <2>1, <2>3, <2>4, CalmOne, CalmPair, CalmNone, CalmDrafted
<1>2. ASSUME Known(l, "option", o), NEW status, NEW kind PROVE Drafted(S, l, ReviewOption(l, o, status, kind))
  <2> DEFINE was == Current(l, "option", o)
             e   == [was EXCEPT !.status = status, !.actor = IF status = "ACCEPTED" THEN kind ELSE @]
             say == Transition(o, status, <<"review", status>>)
  <2>1. /\ was.status # "PROPOSED" => ReviewOption(l, o, status, kind) \in {<<>>, <<say>>}
        /\ was.status = "PROPOSED" => ReviewOption(l, o, status, kind) \in {<<>>, <<e>> \o <<say>>}
    BY DEF ReviewOption
  <2>2. Shaped(was) /\ was.type = "option" /\ was.id = o
    BY <1>2, CurrentOf
  <2>3. DOMAIN e = DOMAIN was /\ e.type = "option" /\ e.id = o
    BY <2>2 DEF Shaped
  <2> HIDE DEF e
  <2>4. Shaped(e)
    BY <2>2, <2>3, Restated
  <2>5. ASSUME was.status = "PROPOSED" PROVE Apt(S, l, e)
    <3>1. Follows(l, e, was)
      BY <2>3, <2>5 DEF Follows, T
    <3>. QED BY <2>3, <2>4, <3>1, AptRevision DEF Judged
  <2>6. Calm(S, l, <<say>>)
    BY SaidSteady, CalmOne
  <2> HIDE DEF say, was
  <2>7. was.status = "PROPOSED" => Drafted(S, l, <<e>> \o <<say>>)
    BY <2>5, <2>6, DraftedOne, DraftedJoined
  <2>. QED BY <2>1, <2>6, <2>7, CalmNone, CalmDrafted
<1>. QED BY <1>1, <1>2

LEMMA ImpactStepDraft ==
  ASSUME NEW S, ImpactSteps \subseteq S, NEW l, Orderly(l), NEW s, s.what \in ImpactSteps, s.type = "step",
         Steady(S, l, s) \/ Apt(S, l, s)
  PROVE  Drafted(S, l, ImpactContinue(l, s))
<1>1. CASE s.what = "fold assumption"
  <2>1. /\ IsFiniteSet(s.id.objectives)
        /\ \/ Unmarked(l, s.id.was, s.id.id)
           \/ Known(l, "assumption", s.id.id) /\ s.id.was = Current(l, "assumption", s.id.id)
    BY <1>1 DEF Steady, Asks, Apt, Judged, T
  <2>. QED BY <1>1, <2>1, FoldAssumptionDraft DEF ImpactContinue
<1>2. ASSUME s.what # "fold assumption" PROVE Asks(l, s.what, s.id)
  BY <1>2 DEF Steady, Apt, Judged, T
<1>3. CASE s.what = "fallout"
  BY <1>2, <1>3, FalloutDraft, CalmDrafted DEF ImpactContinue, Asks
<1>4. CASE s.what = "stale"
  BY <1>2, <1>4, StaleDraft DEF ImpactContinue, Asks
<1>5. CASE s.what = "expose"
  BY <1>5, ExposeDraft, CalmDrafted DEF ImpactContinue
<1>6. CASE s.what = "expose each"
  BY <1>6, ExposeEachDraft, CalmDrafted DEF ImpactContinue
<1>. QED BY <1>1, <1>3, <1>4, <1>5, <1>6 DEF ImpactSteps

(***************************************************************************)
(* Forecasts, warnings and analogues, which nobody's judgment is on.       *)
(***************************************************************************)
LEMMA NowIs ==
  ASSUME NEW S, NEW l, Orderly(l), Exists(l)
  PROVE  /\ Shaped(Now(l)) /\ Now(l).type = F
         /\ \A e : DOMAIN e = DOMAIN Now(l) /\ e.type = F => Steady(S, l, e)
<1>1. Shaped(Now(l)) /\ Now(l).type = F
  BY CurrentOf DEF Exists, Now
<1>2. \A e : DOMAIN e = DOMAIN Now(l) /\ e.type = F => Steady(S, l, e)
  BY <1>1, LaterSteady DEF F, Judged, T, N
<1>. QED BY <1>1, <1>2

LEMMA CloseDraft ==
  ASSUME NEW S, NEW l
  PROVE  /\ \A a : Calm(S, l, CloseItems(<<a>>))
         /\ \A a, b : Calm(S, l, CloseItems(<<a, b>>))
<1>1. ASSUME NEW n \in Nat, NEW ids, DOMAIN ids = 1 .. n PROVE Calm(S, l, CloseItems(ids))
  <2> DEFINE q == [k \in DOMAIN ids |-> Item(ids[k], "RESOLVED")]
  <2>1. q = [k \in 1 .. n |-> q[k]] /\ \A k \in 1 .. n : q[k] = Item(ids[k], "RESOLVED")
    BY <1>1
  <2>2. CloseItems(ids) = q
    BY DEF CloseItems
  <2> HIDE DEF q
  <2>3. \A k \in 1 .. n : Steady(S, l, q[k])
    BY <2>1, SaidSteady
  <2>. QED BY <1>1, <2>1, <2>2, <2>3, CalmMapped
<1>2. \A a : DOMAIN <<a>> = 1 .. 1
  OBVIOUS
<1>3. \A a, b : DOMAIN <<a, b>> = 1 .. 2
  OBVIOUS
<1>. QED BY <1>1, <1>2, <1>3

LEMMA SettledDraft ==
  ASSUME NEW S, NEW l, Orderly(l), Exists(l), NEW status, NEW why
  PROVE  Calm(S, l, Settled(l, status, why))
<1> DEFINE e   == [Now(l) EXCEPT !.status = status, !.why = why]
           say == Transition(F, status, <<why>>)
<1>1. Settled(l, status, why) = <<e, say>> \o CloseItems(<<Coverage, LateMatch>>)
  BY DEF Settled
<1>2. DOMAIN e = DOMAIN Now(l) /\ e.type = F
  BY NowIs DEF Shaped
<1> HIDE DEF e
<1>3. Steady(S, l, e) /\ Steady(S, l, say)
  BY <1>2, NowIs, SaidSteady
<1> HIDE DEF say
<1>. QED BY <1>1, <1>3, CalmPair, CloseDraft, CalmJoined

LEMMA ResolutionDraft ==
  ASSUME NEW S, NEW l, Orderly(l)
  PROVE  Calm(S, l, TryMachineResolution(l))
<1>1. SUFFICES ASSUME Live(l) PROVE Calm(S, l, TryMachineResolution(l))
  BY CalmNone DEF TryMachineResolution
<1>2. \A status, why : Calm(S, l, Settled(l, status, why))
  BY <1>1, SettledDraft DEF Live
<1>3. \A id : Calm(S, l, <<Item(id, "OPEN")>>)
  BY SaidSteady, CalmOne
<1>4. Calm(S, l, FalseByAbsenceOrWait(l))
  BY <1>2, <1>3 DEF FalseByAbsenceOrWait
<1>5. Calm(S, l, ResolveByClaim(l))
  BY <1>2, <1>3, <1>4, CalmNone DEF ResolveByClaim
<1>6. Calm(S, l, ResolveByEvent(l))
  BY <1>2, <1>4, CalmNone DEF ResolveByEvent
<1>. QED BY <1>5, <1>6, CalmNone DEF TryMachineResolution

LEMMA MovedCalm ==
  ASSUME NEW S, NEW l, Orderly(l), Exists(l), NEW p, NEW proposal, NEW why, NEW status
  PROVE  Calm(S, l, Moved(l, p, proposal, why, status))
<1> DEFINE e   == [Now(l) EXCEPT !.p = p, !.proposal = proposal, !.why = why, !.status = status]
           say == Transition(F, "PROBABILITY_UPDATED", <<"version", NextVersion(l, e)>>)
<1>1. Moved(l, p, proposal, why, status) = <<e, say>>
  BY DEF Moved
<1>2. DOMAIN e = DOMAIN Now(l) /\ e.type = F
  BY NowIs DEF Shaped
<1>3. Steady(S, l, say)
  BY SaidSteady
<1> HIDE DEF e, say
<1>4. Steady(S, l, e)
  BY <1>2, NowIs
<1>. QED BY <1>1, <1>3, <1>4, CalmPair

LEMMA CreateForecastDraft ==
  ASSUME NEW S, ForecastSteps \subseteq S, NEW l, Orderly(l), NEW rule, NEW p, NEW proposal, NEW sup, NEW con
  PROVE  Calm(S, l, CreateForecast(l, rule, p, proposal, sup, con))
<1> DEFINE e == Forecast(rule, p, proposal, Basis(l, sup, con))
           was == [was |-> Now(l), sup |-> sup, con |-> con]
<1>1. Steady(S, l, Created)
  BY SaidSteady DEF Created
<1>2. {"type", "id"} \subseteq DOMAIN e /\ e.type = F
  BY DEF Forecast
<1> HIDE DEF e
<1>3. Steady(S, l, e)
  BY <1>2, PlainSteady DEF F, Judged, T, N
<1>4. ASSUME Exists(l) PROVE Calm(S, l, Fold(l, p, proposal, sup, con))
  <2>1. Asks(l, "evidence", was)
    BY <1>4, NowIs DEF Asks
  <2>2. Calm(S, l, <<Step("evidence", was)>>)
    BY <2>1, StepSteady, CalmOne DEF ForecastSteps
  <2>. QED BY <2>2, CalmNone DEF Fold
<1>5. CreateForecast(l, rule, p, proposal, sup, con) =
        CASE Exists(l) -> <<Created>> \o Fold(l, p, proposal, sup, con)
          [] ~Exists(l) /\ (~Authorized(l, proposal) \/ (proposal # "" /\ p # Target)) -> <<>>
          [] OTHER -> <<e, Created>>
  BY DEF CreateForecast, e
<1>6. ASSUME Exists(l) PROVE Calm(S, l, <<Created>> \o Fold(l, p, proposal, sup, con))
  BY <1>1, <1>4, <1>6, CalmOne, CalmJoined
<1>7. Calm(S, l, <<e, Created>>)
  BY <1>1, <1>3, CalmPair
<1>. QED BY <1>5, <1>6, <1>7, CalmNone

LEMMA UpdateDraft ==
  ASSUME NEW S, NEW l, Orderly(l)
  PROVE  /\ \A proposal : Calm(S, l, UpdateByModel(l, proposal))
         /\ \A p : Calm(S, l, UpdateByHuman(l, p))
         /\ \A status : Calm(S, l, ResolveByHuman(l, status))
<1>1. Live(l) => \A p, proposal, why, status : Calm(S, l, Moved(l, p, proposal, why, status))
  BY MovedCalm DEF Live
<1>2. Live(l) => \A status, why : Calm(S, l, Settled(l, status, why))
  BY SettledDraft DEF Live
<1>3. \A id, what, cause : Calm(S, l, <<Transition(id, what, cause)>>)
  BY SaidSteady, CalmOne
<1>4. ASSUME NEW proposal PROVE Calm(S, l, UpdateByModel(l, proposal))
  BY <1>1, <1>3, CalmNone DEF UpdateByModel
<1>5. ASSUME NEW p PROVE Calm(S, l, UpdateByHuman(l, p))
  BY <1>1, CalmNone DEF UpdateByHuman
<1>6. ASSUME NEW status PROVE Calm(S, l, ResolveByHuman(l, status))
  BY <1>2, CalmNone DEF ResolveByHuman
<1>. QED BY <1>4, <1>5, <1>6

LEMMA RefreshForecastDraft ==
  ASSUME NEW S, ForecastSteps \subseteq S, NEW l, Orderly(l)
  PROVE  Calm(S, l, RefreshForecast(l))
<1> DEFINE basis  == Rebased(l, Now(l).basis)
           status == Refreshed(l, basis)
           e      == [Now(l) EXCEPT !.basis = basis, !.status = status, !.why = "refresh"]
           try    == IF Late(l) THEN <<Step("try", F)>> ELSE <<>>
           worse  == IF Shaken(Now(l).basis, basis)
                     THEN <<Transition(F, "BASIS_DEGRADED", <<"degraded", basis.con, basis.deg>>)>> ELSE <<>>
           passed == IF status = "HORIZON_PASSED" /\ status # Now(l).status
                     THEN <<Transition(F, "HORIZON_PASSED", <<"horizon">>)>> ELSE <<>>
<1>1. RefreshForecast(l) = IF ~Live(l) THEN <<>>
                           ELSE IF basis = Now(l).basis /\ status = Now(l).status THEN try
                           ELSE <<e>> \o worse \o passed \o try
  BY DEF RefreshForecast
<1>2. SUFFICES ASSUME Live(l) PROVE Calm(S, l, RefreshForecast(l))
  BY <1>1, CalmNone
<1>3. DOMAIN e = DOMAIN Now(l) /\ e.type = F
  BY <1>2, NowIs DEF Shaped, Live
<1>4. Calm(S, l, worse) /\ Calm(S, l, passed)
  BY SaidSteady, CalmOne, CalmNone
<1>5. Calm(S, l, try)
  BY StepSteady, CalmOne, CalmNone DEF Asks, ForecastSteps
<1> HIDE DEF e, worse, passed, try, status, basis
<1>6. Calm(S, l, <<e>>)
  BY <1>2, <1>3, NowIs, CalmOne DEF Live
<1>7. Calm(S, l, <<e>> \o worse \o passed \o try)
  BY <1>4, <1>5, <1>6, CalmJoined
<1>. QED BY <1>1, <1>5, <1>7, CalmNone

LEMMA EffectsCalm ==
  ASSUME NEW S, NEW l, Orderly(l), NEW i
  PROVE  Calm(S, l, FoldIn(l, i)) /\ Calm(S, l, ApplyEffects(l, i))
<1> DEFINE fold  == [Now(l) EXCEPT !.indicators = @ \cup {i}, !.why = "indicator"]
           ask   == [Now(l) EXCEPT !.status = "UPDATE_REQUIRED", !.why = "indicator"]
           moved == IF Executed(l, i) \/ Now(l).p = Target THEN <<>> ELSE Moved(l, Target, "", i, Now(l).status)
           asked == IF Now(l).status # "OPEN" THEN <<>> ELSE <<ask>>
           item  == Item(Review(i), "OPEN")
<1>1. FoldIn(l, i) = IF ~Live(l) \/ i \in Now(l).indicators THEN <<>> ELSE <<fold>>
  BY DEF FoldIn
<1>2. ApplyEffects(l, i) = IF ~Live(l) \/ Recorded(l, Fired(i)) THEN <<>>
                           ELSE IF i \in Apply THEN moved \o <<Fired(i)>> ELSE asked \o <<item, Fired(i)>>
  BY DEF ApplyEffects
<1>3. Live(l) => DOMAIN fold = DOMAIN Now(l) /\ fold.type = F /\ DOMAIN ask = DOMAIN Now(l) /\ ask.type = F
  BY NowIs DEF Shaped, Live
<1>4. Live(l) => Calm(S, l, moved)
  BY MovedCalm, CalmNone DEF Live
<1>5. Steady(S, l, item) /\ Steady(S, l, Fired(i))
  BY SaidSteady DEF Fired
<1> HIDE DEF fold, ask, moved, item
<1>6. Live(l) => Calm(S, l, <<fold>>) /\ Calm(S, l, <<ask>>)
  BY <1>3, NowIs, CalmOne DEF Live
<1>7. Live(l) => Calm(S, l, asked)
  BY <1>6, CalmNone
<1> HIDE DEF asked
<1>8. Live(l) => Calm(S, l, moved \o <<Fired(i)>>) /\ Calm(S, l, asked \o <<item, Fired(i)>>)
  BY <1>4, <1>5, <1>7, CalmOne, CalmPair, CalmJoined
<1>. QED BY <1>1, <1>2, <1>6, <1>8, CalmNone

LEMMA ArmCalm ==
  ASSUME NEW S, ForecastSteps \subseteq S, NEW l, NEW i
  PROVE  Calm(S, l, Arm(l, i))
<1> DEFINE e    == Indicator(i, "ARMED")
           step == Step("fold", i)
<1>1. Arm(l, i) \in {<<>>, <<Armed(i), step>>, <<e, Armed(i)>> \o <<step>>}
  BY TripleOf DEF Arm
<1>2. {"type", "id"} \subseteq DOMAIN e /\ e.type = "indicator"
  BY DEF Indicator
<1>3. Steady(S, l, step)
  BY StepSteady DEF Asks, ForecastSteps
<1> HIDE DEF e, step
<1>4. Steady(S, l, e) /\ Steady(S, l, Armed(i))
  BY <1>2, PlainSteady, SaidSteady DEF Armed, Judged, T, N
<1>. QED BY <1>1, <1>3, <1>4, CalmOne, CalmPair, CalmJoined, CalmNone

LEMMA CheckCalm ==
  ASSUME NEW S, ForecastSteps \subseteq S, NEW l, NEW seen, Shaped(seen), seen.type = "indicator"
  PROVE  Calm(S, l, Check(l, seen))
<1>1. \A status : Calm(S, l, Change(seen, status))
  <2> SUFFICES ASSUME NEW status PROVE Calm(S, l, Change(seen, status))
    OBVIOUS
  <2> DEFINE e   == [seen EXCEPT !.status = status]
             say == Transition(seen.id, status, <<seen.id>>)
  <2>1. Change(seen, status) = <<e, say>>
    BY DEF Change
  <2>2. DOMAIN e = DOMAIN seen /\ e.type = "indicator"
    BY DEF Shaped
  <2> HIDE DEF e
  <2>3. Steady(S, l, e)
    BY <2>2, LaterSteady DEF Judged, T, N
  <2>4. Steady(S, l, say)
    BY SaidSteady
  <2> HIDE DEF say
  <2>. QED BY <2>1, <2>3, <2>4, CalmPair
<1>2. Calm(S, l, Close(seen.id))
  BY CloseDraft DEF Close
<1>3. Calm(S, l, <<Step("effects", seen.id)>>)
  BY StepSteady, CalmOne DEF Asks, ForecastSteps
<1>4. \A id : Calm(S, l, <<Item(id, "OPEN")>>)
  BY SaidSteady, CalmOne
<1>5. Calm(S, l, Fire(seen))
  BY <1>1, <1>2, <1>3, CalmJoined DEF Fire
<1>6. Calm(S, l, CheckPresence(l, seen))
  BY <1>5, CalmNone DEF CheckPresence
<1>7. Calm(S, l, Change(seen, "RETIRED") \o Close(seen.id))
  BY <1>1, <1>2, CalmJoined
<1>8. Calm(S, l, Change(seen, "COVERAGE_BLOCKED") \o <<Item(Search(seen.id), "OPEN")>>)
  BY <1>1, <1>4, CalmJoined
<1>9. Calm(S, l, CheckAbsence(l, seen))
  BY <1>5, <1>7, <1>8, CalmNone DEF CheckAbsence
<1>10. Calm(S, l, <<Step("effects", seen.id)>> \o Close(seen.id))
  BY <1>2, <1>3, CalmJoined
<1>11. Calm(S, l, Change(seen, "EXPIRED_UNFIRED") \o Close(seen.id))
  BY <1>1, <1>2, CalmJoined
<1>12. Check(l, seen) \in {<<>>, <<Step("effects", seen.id)>> \o Close(seen.id), Change(seen, "EXPIRED_UNFIRED") \o Close(seen.id),
                           CheckAbsence(l, seen), CheckPresence(l, seen)}
  BY DEF Check
<1>. QED BY <1>6, <1>9, <1>10, <1>11, <1>12, CalmNone

LEMMA IndicatorsDraft ==
  ASSUME NEW S, ForecastSteps \subseteq S, NEW l, Orderly(l)
  PROVE  Calm(S, l, CheckIndicators(l))
<1> DEFINE at    == {n \in DOMAIN Indicators : Known(l, "indicator", Indicators[n])}
           known == Only(Indicators, at)
           q     == [n \in DOMAIN known |-> Step("check", Current(l, "indicator", known[n]))]
<1>1. IsSeq(Indicators)
  BY ForecastsAssumption DEF IsSeq
<1>2. CheckIndicators(l) = q
  BY DEF CheckIndicators
<1>3. PICK h : Picks(Indicators, at, Len(Indicators), known, h)
  BY <1>1, OnlyPicks
<1>4. DOMAIN known = 1 .. Len(known) /\ Len(known) \in Nat
  BY <1>3, SeqFacts DEF Picks
<1>5. \A n \in 1 .. Len(known) : Known(l, "indicator", known[n])
  BY <1>3 DEF Picks
<1> HIDE DEF known, at
<1>6. ASSUME NEW i, Known(l, "indicator", i) PROVE Steady(S, l, Step("check", Current(l, "indicator", i)))
  <2>1. Asks(l, "check", Current(l, "indicator", i))
    BY <1>6, CurrentOf DEF Asks
  <2>. QED BY <2>1, StepSteady DEF ForecastSteps
<1>7. q = [n \in 1 .. Len(known) |-> q[n]] /\ \A n \in 1 .. Len(known) : Steady(S, l, q[n])
  BY <1>4, <1>5, <1>6
<1> HIDE DEF q
<1>. QED BY <1>2, <1>4, <1>7, CalmMapped

LEMMA ForecastStepDraft ==
  ASSUME NEW S, ForecastSteps \subseteq S, NEW l, Orderly(l), NEW s, s.what \in ForecastSteps, Asks(l, s.what, s.id)
  PROVE  Calm(S, l, Continue(l, s))
<1>1. CASE s.what = "try"
  BY <1>1, ResolutionDraft DEF Continue
<1>2. CASE s.what = "evidence"
  <2> DEFINE was == s.id.was
             sup == s.id.sup
             con == s.id.con
             e   == [was EXCEPT !.basis = Widened(l, @, sup, con), !.why = "fold"]
             say == Transition(F, "EVIDENCE_UPDATED", <<"fold", sup \ was.basis.sup, con \ was.basis.con>>)
  <2>1. Continue(l, s) = <<e, say>>
    BY <1>2 DEF Continue, FoldEvidence
  <2>2. Shaped(was) /\ was.type = F
    BY <1>2 DEF Asks
  <2>3. DOMAIN e = DOMAIN was /\ e.type = F
    BY <2>2 DEF Shaped
  <2>4. Steady(S, l, say)
    BY SaidSteady
  <2> HIDE DEF was, e, say
  <2>5. Steady(S, l, e)
    BY <2>2, <2>3, LaterSteady DEF F, Judged, T, N
  <2>. QED BY <2>1, <2>4, <2>5, CalmPair
<1>3. CASE s.what = "fold"
  BY <1>3, EffectsCalm DEF Continue
<1>4. CASE s.what = "effects"
  BY <1>4, EffectsCalm DEF Continue
<1>5. CASE s.what = "check"
  BY <1>5, CheckCalm DEF Continue, Asks
<1>. QED BY <1>1, <1>2, <1>3, <1>4, <1>5 DEF ForecastSteps

LEMMA ProjectDraft ==
  ASSUME NEW S, NEW l, Orderly(l), NEW o
  PROVE  Calm(S, l, ProjectWarning(l, o))
<1> DEFINE now  == Components(l, o)
           was  == Current(l, W, o)
           Next1(status) == [was EXCEPT !.is = now, !.tier = now.tier, !.status = status]
           Then1(status, what) == Transition(o, what, <<"move", NextVersion(l, Next1(status))>>)
           new  == [type |-> W, id |-> o, version |-> 0, status |-> "ACTIVE", tier |-> now.tier, is |-> now]
           say  == Transition(o, "RAISED", <<"warning">>)
<1>1. /\ Known(l, W, o) => ProjectWarning(l, o) \in {<<>>} \cup {<<Next1(sw[1]), Then1(sw[1], sw[2])>> :
             sw \in {<<"RESOLVED", "RESOLVED">>, <<"ESCALATED", "ESCALATED">>, <<"DOWNGRADED", "DOWNGRADED">>, <<was.status, "COMPONENT_CHANGED">>}}
      /\ ~Known(l, W, o) => ProjectWarning(l, o) \in {<<>>, <<new, say>>}
  BY DEF ProjectWarning
<1>2. {"type", "id"} \subseteq DOMAIN new /\ new.type = W
  OBVIOUS
<1> HIDE DEF new
<1>3. Calm(S, l, <<new, say>>)
  BY <1>2, PlainSteady, SaidSteady, CalmPair DEF W, Judged, T, N
<1>4. ASSUME Known(l, W, o), NEW status, NEW what PROVE Calm(S, l, <<Next1(status), Then1(status, what)>>)
  <2> DEFINE e == Next1(status)
  <2>1. Shaped(was) /\ was.type = W
    BY <1>4, CurrentOf
  <2>2. DOMAIN e = DOMAIN was /\ e.type = W
    BY <2>1 DEF Shaped
  <2> HIDE DEF e, was
  <2>3. Steady(S, l, e)
    BY <2>1, <2>2, LaterSteady DEF W, Judged, T, N
  <2>4. Steady(S, l, Then1(status, what))
    BY SaidSteady
  <2> USE DEF e
  <2> HIDE DEF Next1, Then1
  <2>. QED BY <2>3, <2>4, CalmPair
<1> HIDE DEF Next1, Then1, was, say
<1>. QED BY <1>1, <1>3, <1>4, CalmNone

LEMMA WarningsDraft ==
  ASSUME NEW S, WarningSteps \subseteq S, NEW l, Orderly(l)
  PROVE  Calm(S, l, RefreshWarnings(l))
<1> DEFINE K    == {o \in Watched : Known(l, W, o) /\ Current(l, W, o).status # "RESOLVED"}
           open == SetToSeq(K)
           q    == [n \in DOMAIN open |-> Step("project", open[n])]
<1>1. RefreshWarnings(l) = q
  BY DEF RefreshWarnings
<1>2. IsFiniteSet(K)
  BY KnownFinite DEF Orderly
<1>3. open \in [1 .. Cardinality(K) -> K] /\ Cardinality(K) \in Nat
  BY <1>2, SetToSeqIs
<1>4. \A o : Steady(S, l, Step("project", o))
  BY StepSteady DEF Asks, WarningSteps
<1> HIDE DEF open, K
<1>5. q = [n \in 1 .. Cardinality(K) |-> q[n]] /\ \A n \in 1 .. Cardinality(K) : Steady(S, l, q[n])
  BY <1>3, <1>4
<1> HIDE DEF q
<1>. QED BY <1>1, <1>3, <1>5, CalmMapped

LEMMA EpisodeDraft ==
  ASSUME NEW S, AnalogueSteps \subseteq S, NEW l, Orderly(l), NEW x, NEW claims
  PROVE  Calm(S, l, RecordEpisode(l, x, claims))
<1> DEFINE e    == [type |-> E, id |-> x, version |-> 0, claims |-> claims]
           made == Ensure(x, "RECORDED", <<x>>)
           p    == [was |-> Current(l, E, x), claims |-> claims]
           more == IF claims \subseteq Current(l, E, x).claims THEN <<>> ELSE <<Step("add to episode", p)>>
<1>1. RecordEpisode(l, x, claims) = IF ~Known(l, E, x) THEN <<e, made>> ELSE <<made>> \o more
  BY DEF RecordEpisode
<1>2. {"type", "id"} \subseteq DOMAIN e /\ e.type = E
  OBVIOUS
<1> HIDE DEF e
<1>3. Steady(S, l, e) /\ Steady(S, l, made)
  BY <1>2, PlainSteady, SaidSteady DEF E, Judged, T, N
<1> HIDE DEF made
<1>4. ASSUME Known(l, E, x) PROVE Calm(S, l, more)
  <2>1. Asks(l, "add to episode", p)
    BY <1>4, CurrentOf DEF Asks
  <2>. QED BY <2>1, StepSteady, CalmOne, CalmNone DEF AnalogueSteps
<1> HIDE DEF more
<1>. QED BY <1>1, <1>3, <1>4, CalmOne, CalmPair, CalmJoined

LEMMA RetrieveDraft ==
  ASSUME NEW S, AnalogueSteps \subseteq S, NEW l, Orderly(l), NEW s
  PROVE  Calm(S, l, RetrieveAnalogues(l, s))
<1> DEFINE K    == {e \in DOMAIN Episodes : Known(l, E, e) /\ Cardinality(Like(s, e)) >= MinMatches}
           near == SetToSeq(K)
           q    == [n \in DOMAIN near |-> Step("analogue", <<s, near[n]>>)]
<1>1. RetrieveAnalogues(l, s) = q
  BY DEF RetrieveAnalogues
<1>2. IsFiniteSet(K)
  BY KnownFinite DEF Orderly
<1>3. near \in [1 .. Cardinality(K) -> K] /\ Cardinality(K) \in Nat
  BY <1>2, SetToSeqIs
<1>4. \A e : Steady(S, l, Step("analogue", <<s, e>>))
  BY StepSteady DEF Asks, AnalogueSteps
<1> HIDE DEF near, K
<1>5. q = [n \in 1 .. Cardinality(K) |-> q[n]] /\ \A n \in 1 .. Cardinality(K) : Steady(S, l, q[n])
  BY <1>3, <1>4
<1> HIDE DEF q
<1>. QED BY <1>1, <1>3, <1>5, CalmMapped

LEMMA AnalogueStepDraft ==
  ASSUME NEW S, NEW l, NEW s, s.what \in AnalogueSteps, Asks(l, s.what, s.id)
  PROVE  Calm(S, l, AnalogueContinue(l, s))
<1>1. CASE s.what = "analogue"
  <2> DEFINE id  == s.id
             e   == [type |-> "analogue", id |-> id, version |-> 0, matched |-> Like(id[1], id[2]), mismatched |-> Unlike(id[1], id[2])]
             say == Transition(id[2], "RETRIEVED", <<"retrieved", id[1]>>)
  <2>1. AnalogueContinue(l, s) \in {<<>>, <<e, say>>}
    BY <1>1 DEF AnalogueContinue, Analogue
  <2>2. {"type", "id"} \subseteq DOMAIN e /\ e.type = "analogue"
    OBVIOUS
  <2> HIDE DEF e
  <2>3. Steady(S, l, e) /\ Steady(S, l, say)
    BY <2>2, PlainSteady, SaidSteady DEF Judged, T, N
  <2> HIDE DEF say
  <2>. QED BY <2>1, <2>3, CalmPair, CalmNone
<1>2. CASE s.what = "add to episode"
  <2> DEFINE was    == s.id.was
             claims == s.id.claims
             e      == [was EXCEPT !.claims = @ \cup claims]
             say    == Transition(was.id, "EVIDENCE_UPDATED", <<"fold", claims \ was.claims>>)
  <2>1. AnalogueContinue(l, s) = <<e, say>>
    BY <1>2 DEF AnalogueContinue, AddToEpisode
  <2>2. Shaped(was) /\ was.type = E
    BY <1>2 DEF Asks
  <2>3. DOMAIN e = DOMAIN was /\ e.type = E
    BY <2>2 DEF Shaped, E
  <2>4. Steady(S, l, say)
    BY SaidSteady
  <2> HIDE DEF was, e, say
  <2>5. Steady(S, l, e)
    BY <2>2, <2>3, LaterSteady DEF E, Judged, T, N
  <2>. QED BY <2>1, <2>4, <2>5, CalmPair
<1>. QED BY <1>1, <1>2 DEF AnalogueSteps

-----------------------------------------------------------------------------
(***************************************************************************)
(* The pass.                                                               *)
(***************************************************************************)
(* The index reaches nothing that is not on record. *)
Within(l, claims, n, reached) == reached \subseteq All(l)

LEMMA AllFinite ==
  ASSUME NEW l, IsSeq(l)
  PROVE  IsFiniteSet(All(l)) /\ Cardinality(All(l)) \in Nat
<1> DEFINE D == {j \in DOMAIN l : l[j].type \in ToSet(Kinds)}
           f == [i \in D |-> <<l[i].type, l[i].id>>]
<1>1. IsFiniteSet(D) /\ f = [i \in D |-> f[i]]
  BY PositionsFinite
<1>2. {f[i] : i \in D} = All(l)
  BY DEF All
<1> HIDE DEF D, f
<1>3. IsFiniteSet(All(l))
  BY <1>1, <1>2, ImageFinite
<1>. QED BY <1>3, FS_CardinalityType

LEMMA AffectedWithin ==
  ASSUME NEW l, IsSeq(l), NEW claims
  PROVE  Affected(l, claims) \subseteq All(l)
<1>1. Within(l, claims, 0, ReachFirst(l, claims))
  BY DEF Within, ReachFirst
<1>2. \A n \in 1 .. Cardinality(All(l)) : \A r : Within(l, claims, n - 1, r) => Within(l, claims, n, ReachNext(l, claims, n, r))
  BY DEF Within, ReachNext
<1>3. Cardinality(All(l)) \in Nat
  BY AllFinite
<1>4. Within(l, claims, Cardinality(All(l)), Run("affected", l, claims, Cardinality(All(l))))
  <2>1. PICK f : Goes("affected", l, claims, Cardinality(All(l)), f)
    BY <1>3, RunGoes
  <2> DEFINE G == {n \in 0 .. Cardinality(All(l)) : Within(l, claims, n, f[n])}
  <2>2. 0 \in G
    BY <1>1, <1>3, <2>1 DEF Goes, First
  <2>3. ASSUME NEW n \in 1 .. Cardinality(All(l)), n - 1 \in G PROVE n \in G
    BY <1>2, <1>3, <2>1, <2>3 DEF Goes, Following
  <2> HIDE DEF G
  <2>4. Cardinality(All(l)) \in G
    BY <1>3, <2>2, <2>3, UpTo
  <2>. QED BY <2>1, <2>4 DEF Goes, G
<1>5. Affected(l, claims) = Run("affected", l, claims, Cardinality(All(l)))
  BY DEF Affected, Run, First, Following, ReachFirst, ReachNext, All
<1>. QED BY <1>4, <1>5 DEF Within

LEMMA ExposedDraft ==
  ASSUME NEW S, ImpactSteps \subseteq S, NEW l, NEW id, NEW changes, IsFiniteSet(changes)
  PROVE  Calm(S, l, Exposed(id, changes))
<1> DEFINE order == Arranged(changes, <)
           q     == [n \in DOMAIN order |-> Step("expose", <<id, <<"change", order[n]>>>>)]
<1>1. Exposed(id, changes) = q
  BY DEF Exposed
<1>2. DOMAIN order = DOMAIN SetToSeq(changes)
  BY DEF Arranged
<1>3. DOMAIN order = 1 .. Cardinality(changes) /\ Cardinality(changes) \in Nat
  BY <1>2, SetToSeqIs
<1> HIDE DEF order
<1>4. \A n : Steady(S, l, Step("expose", <<id, <<"change", order[n]>>>>))
  BY StepSteady DEF Asks, ImpactSteps
<1>5. q = [n \in 1 .. Cardinality(changes) |-> q[n]] /\ \A n \in 1 .. Cardinality(changes) : Steady(S, l, q[n])
  BY <1>3, <1>4
<1> HIDE DEF q
<1>. QED BY <1>1, <1>3, <1>5, CalmMapped

LEMMA RefreshOneDraft ==
  ASSUME NEW S, AllSteps \subseteq S, NEW l, Orderly(l), NEW o, NEW changes, IsFiniteSet(changes), NEW trusted
  PROVE  Drafted(S, l, RefreshOne(l, o, changes, trusted))
<1> DEFINE id == o[2]
<1>1. \A x, claims, what, kind : Calm(S, l, Degrading(l, x, claims, what, kind))
  BY SaidSteady, CalmOne, CalmNone DEF Degrading
<1>2. SUFFICES ASSUME Known(l, o[1], id) PROVE Drafted(S, l, RefreshOne(l, o, changes, trusted))
  BY CalmNone, CalmDrafted DEF RefreshOne
<1>3. ImpactSteps \subseteq S /\ ForecastSteps \subseteq S
  BY DEF AllSteps
<1>4. CASE o[1] = "assumption"
  <2>1. \A cause : Drafted(S, l, QuestionAssumption(l, id, cause))
    BY <1>2, <1>4, QuestionDraft
  <2>2. Drafted(S, l, Questioned(l, id, changes, trusted))
    BY <2>1, CalmNone, CalmDrafted DEF Questioned
  <2>3. RefreshOne(l, o, changes, trusted) = Questioned(l, id, changes, trusted)
    BY <1>2, <1>4 DEF RefreshOne, F, N, T, A, E, U
  <2>. QED BY <2>2, <2>3
<1>5. CASE o[1] = F
  <2>1. RefreshOne(l, o, changes, trusted) = RefreshForecast(l)
    BY <1>2, <1>5 DEF RefreshOne, F, N, T, A, E, U
  <2>. QED BY <1>3, <2>1, RefreshForecastDraft, CalmDrafted
<1>6. CASE o[1] = N
  <2>1. RefreshOne(l, o, changes, trusted) = RefreshNarrative(l, id, <<"changes", changes>>)
    BY <1>2, <1>6 DEF RefreshOne, F, N, T, A, E, U
  <2>2. Heard(l, id)
    BY <1>2, <1>6 DEF Heard
  <2>. QED BY <2>1, <2>2, RefreshNarrativeDraft
<1>7. CASE o[1] = T
  <2>1. RefreshOne(l, o, changes, trusted) = RefreshTheme(l, id, <<"changes", changes>>)
    BY <1>2, <1>7 DEF RefreshOne, F, N, T, A, E, U
  <2>2. Is(l, id)
    BY <1>2, <1>7 DEF Is
  <2>. QED BY <2>1, <2>2, RefreshThemeDraft
<1>8. CASE o[1] = A
  <2>1. RefreshOne(l, o, changes, trusted) = RefreshAssessment(l, id, <<"changes", changes>>)
    BY <1>2, <1>8 DEF RefreshOne, F, N, T, A, E, U
  <2>. QED BY <1>2, <1>8, <2>1, RefreshAssessmentDraft, CalmDrafted
<1>9. CASE o[1] = "path"
  <2>1. RefreshOne(l, o, changes, trusted) = RefreshPath(l, id)
    BY <1>2, <1>9 DEF RefreshOne, F, N, T, A, E, U
  <2>. QED BY <1>2, <1>3, <1>9, <2>1, StaleDraft
<1>10. CASE o[1] = "objective"
  <2>1. RefreshOne(l, o, changes, trusted) = Exposed(id, changes)
    BY <1>2, <1>10 DEF RefreshOne, F, N, T, A, E, U
  <2>. QED BY <1>3, <2>1, ExposedDraft, CalmDrafted
<1>11. CASE o[1] \notin {"assumption", F, N, T, A, "path", "objective"}
  <2>1. RefreshOne(l, o, changes, trusted) \in
          {<<>>, Degrading(l, id, Current(l, E, id).claims, "EVIDENCE_DEGRADED", E),
           Degrading(l, id[2], Current(l, E, id[2]).claims, "EVIDENCE_DEGRADED", id[1]),
           Degrading(l, id, Influences[id].claims, "WEAKENED", U),
           Degrading(l, id, ResponseOptions[id].claims, "EVIDENCE_DEGRADED", "option")}
    BY <1>2, <1>11 DEF RefreshOne, F, N, T, A, E, U
  <2>. QED BY <1>1, <2>1, CalmNone, CalmDrafted
<1>. QED BY <1>4, <1>5, <1>6, <1>7, <1>8, <1>9, <1>10, <1>11

LEMMA AlertsDraft ==
  ASSUME NEW S, NEW l, IsSeq(l), NEW since
  PROVE  Calm(S, l, Alerts(l, since))
<1> DEFINE at  == {i \in since + 1 .. Len(l) : l[i].type = "transition" /\ l[i].what \in Alertable}
           new == Only(l, at)
           q   == [n \in DOMAIN new |-> Alert(new[n])]
<1>1. Alerts(l, since) = IF RaiseAlerts THEN q ELSE <<>>
  BY DEF Alerts
<1>2. IsSeq(new)
  BY OnlyPicks DEF Picks
<1>3. DOMAIN new = 1 .. Len(new) /\ Len(new) \in Nat
  BY <1>2, SeqFacts
<1> HIDE DEF new, at
<1>4. ASSUME NEW t PROVE Steady(S, l, Alert(t))
  <2> DEFINE e == Alert(t)
  <2>1. {"type", "id"} \subseteq DOMAIN e /\ e.type = "alert"
    BY DEF Alert
  <2> HIDE DEF e
  <2>2. Steady(S, l, e)
    BY <2>1, PlainSteady DEF Judged, T, N
  <2>. QED BY <2>2 DEF e
<1>5. q = [n \in 1 .. Len(new) |-> q[n]] /\ \A n \in 1 .. Len(new) : Steady(S, l, q[n])
  BY <1>3, <1>4
<1> HIDE DEF q
<1>. QED BY <1>1, <1>3, <1>5, CalmMapped, CalmNone

LEMMA PropagateDraft ==
  ASSUME NEW S, AllSteps \subseteq S, NEW l, Orderly(l)
  PROVE  Calm(S, l, Propagate(l))
<1> DEFINE touching == Touching(l)
           objects  == {t[1] : t \in touching}
           order    == InOrder(objects)
           on(o)    == {t[2] : t \in {u \in touching : u[1] = o}}
           q        == [n \in DOMAIN order |-> Step("object", <<order[n], on(order[n]), Trusted(l, order[n])>>)]
<1>1. Propagate(l) = q \o <<Step("all caveats", A), Step("plane", F)>>
  BY DEF Propagate
<1>2. IsSeq(l)
  BY DEF Orderly
<1>3. \A t \in touching : t[1] \in All(l) /\ t[2] \in DOMAIN l
  <2>1. ASSUME NEW i \in Pending(l), NEW t \in Affected(l, {l[i].id}) \X {i} PROVE t[1] \in All(l) /\ t[2] \in DOMAIN l
    BY <1>2, AffectedWithin DEF Pending
  <2>. QED BY <2>1 DEF Touching
<1> HIDE DEF touching
<1>4. IsFiniteSet(objects)
  <2>1. objects \subseteq All(l)
    BY <1>3
  <2> HIDE DEF objects
  <2>. QED BY <1>2, <2>1, AllFinite, FS_Subset
<1>5. ASSUME NEW o PROVE IsFiniteSet(on(o))
  <2>1. on(o) \subseteq DOMAIN l
    BY <1>3
  <2> HIDE DEF on
  <2>. QED BY <1>2, <2>1, PositionsFinite
<1> HIDE DEF objects, on
<1>6. DOMAIN order = DOMAIN SetToSeq(objects)
  BY DEF InOrder, Arranged
<1>7. DOMAIN order = 1 .. Cardinality(objects) /\ Cardinality(objects) \in Nat
  BY <1>4, <1>6, SetToSeqIs
<1> HIDE DEF order
<1>8. ASSUME NEW o, NEW trusted PROVE Steady(S, l, Step("object", <<o, on(o), trusted>>))
  <2>1. Asks(l, "object", <<o, on(o), trusted>>)
    BY <1>5 DEF Asks
  <2>. QED BY <2>1, StepSteady DEF AllSteps, PassSteps
<1>9. q = [n \in 1 .. Cardinality(objects) |-> q[n]] /\ \A n \in 1 .. Cardinality(objects) : Steady(S, l, q[n])
  BY <1>7, <1>8
<1> HIDE DEF q
<1>10. Calm(S, l, q)
  BY <1>7, <1>9, CalmMapped
<1>11. Calm(S, l, <<Step("all caveats", A), Step("plane", F)>>)
  BY StepSteady, CalmPair DEF Asks, AllSteps, PassSteps
<1>. QED BY <1>1, <1>10, <1>11, CalmJoined

LEMMA PlaneDraft ==
  ASSUME NEW S, AllSteps \subseteq S, NEW l, Orderly(l)
  PROVE  Calm(S, l, Plane(l))
<1> DEFINE a == Step("refresh forecast", F)
           b == Step("all warnings", W)
           c == Step("alerts", Len(l))
<1>1. Steady(S, l, a) /\ Steady(S, l, b) /\ Steady(S, l, c)
  BY StepSteady DEF Asks, AllSteps, PassSteps
<1>2. Plane(l) = CheckIndicators(l) \o <<a, b, c>>
  BY DEF Plane
<1> HIDE DEF a, b, c
<1>3. Calm(S, l, <<a, b>> \o <<c>>)
  BY <1>1, CalmPair, CalmOne, CalmJoined
<1>4. Calm(S, l, <<a, b, c>>)
  BY <1>3, TripleOf
<1>5. Calm(S, l, CheckIndicators(l))
  BY IndicatorsDraft DEF AllSteps
<1>. QED BY <1>2, <1>4, <1>5, CalmJoined

LEMMA WarningStepDraft ==
  ASSUME NEW S, WarningSteps \cup ForecastSteps \cup ImpactSteps \subseteq S, NEW l, Orderly(l), NEW s, s.type = "step",
         s.what \in WarningSteps \cup ForecastSteps \cup ImpactSteps, Steady(S, l, s) \/ Apt(S, l, s)
  PROVE  Drafted(S, l, WarningContinue(l, s))
<1>1. s.what # "fold assumption" => Asks(l, s.what, s.id)
  BY DEF Steady, Apt, Judged, T
<1>2. CASE s.what = "project"
  <2>1. WarningContinue(l, s) = ProjectWarning(l, s.id)
    BY <1>2 DEF WarningContinue, ForecastSteps
  <2>. QED BY <2>1, ProjectDraft, CalmDrafted
<1>3. CASE s.what \in ForecastSteps
  <2>1. WarningContinue(l, s) = Continue(l, s) /\ s.what # "fold assumption"
    BY <1>3 DEF WarningContinue, ForecastSteps
  <2>. QED BY <1>1, <1>3, <2>1, ForecastStepDraft, CalmDrafted
<1>4. CASE s.what \in ImpactSteps
  <2>1. WarningContinue(l, s) = ImpactContinue(l, s)
    BY <1>4 DEF WarningContinue, ForecastSteps, ImpactSteps
  <2>. QED BY <1>4, <2>1, ImpactStepDraft
<1>. QED BY <1>2, <1>3, <1>4 DEF WarningSteps

LEMMA PassStepDraft ==
  ASSUME NEW S, AllSteps \subseteq S, NEW l, Orderly(l), NEW s, s.type = "step", s.what \in AllSteps,
         Steady(S, l, s) \/ Apt(S, l, s)
  PROVE  Drafted(S, l, PropagationContinue(l, s))
<1>1. s.what # "fold assumption" => Asks(l, s.what, s.id)
  BY DEF Steady, Apt, Judged, T
<1>2. CASE s.what = "object"
  <2>1. Drafted(S, l, RefreshOne(l, s.id[1], s.id[2], s.id[3]))
    BY <1>1, <1>2, RefreshOneDraft DEF Asks
  <2>2. Calm(S, l, <<Step("alerts", Len(l))>>)
    BY StepSteady, CalmOne DEF Asks, AllSteps, PassSteps
  <2>3. PropagationContinue(l, s) = RefreshOne(l, s.id[1], s.id[2], s.id[3]) \o <<Step("alerts", Len(l))>>
    BY <1>2 DEF PropagationContinue, NarrativeSteps, StakeholderSteps, AnalogueSteps
  <2>. QED BY <2>1, <2>2, <2>3, DraftedJoined
<1>3. CASE s.what = "alerts"
  <2>1. PropagationContinue(l, s) = Alerts(l, s.id)
    BY <1>3 DEF PropagationContinue, NarrativeSteps, StakeholderSteps, AnalogueSteps
  <2>. QED BY <2>1, AlertsDraft, CalmDrafted DEF Orderly
<1>4. CASE s.what = "all caveats"
  <2>1. PropagationContinue(l, s) = RefreshIdentityCaveats(l)
    BY <1>4 DEF PropagationContinue, NarrativeSteps, StakeholderSteps, AnalogueSteps
  <2>. QED BY <2>1, CaveatsDraft, CalmDrafted DEF AllSteps
<1>5. CASE s.what = "plane"
  <2>1. PropagationContinue(l, s) = Plane(l)
    BY <1>5 DEF PropagationContinue, NarrativeSteps, StakeholderSteps, AnalogueSteps
  <2>. QED BY <2>1, PlaneDraft, CalmDrafted
<1>6. CASE s.what = "refresh forecast"
  <2>1. PropagationContinue(l, s) = RefreshForecast(l)
    BY <1>6 DEF PropagationContinue, NarrativeSteps, StakeholderSteps, AnalogueSteps
  <2>. QED BY <2>1, RefreshForecastDraft, CalmDrafted DEF AllSteps
<1>7. CASE s.what = "all warnings"
  <2>1. PropagationContinue(l, s) = RefreshWarnings(l)
    BY <1>7 DEF PropagationContinue, NarrativeSteps, StakeholderSteps, AnalogueSteps
  <2>. QED BY <2>1, WarningsDraft, CalmDrafted DEF AllSteps
<1>8. CASE s.what \in ThemeSteps
  <2>1. PropagationContinue(l, s) = ThemeContinue(l, s) /\ s.what # "fold assumption" /\ ThemeSteps \subseteq S
    BY <1>8 DEF PropagationContinue, NarrativeSteps, StakeholderSteps, AnalogueSteps, ThemeSteps, AllSteps
  <2>. QED BY <1>1, <1>8, <2>1, ThemeStepDraft
<1>9. CASE s.what \in NarrativeSteps
  <2>1. PropagationContinue(l, s) = NarrativeContinue(l, s) /\ s.what # "fold assumption" /\ NarrativeSteps \subseteq S
    BY <1>9 DEF PropagationContinue, NarrativeSteps, StakeholderSteps, AnalogueSteps, AllSteps
  <2>. QED BY <1>1, <1>9, <2>1, NarrativeStepDraft
<1>10. CASE s.what \in StakeholderSteps
  <2>1. PropagationContinue(l, s) = StakeholderContinue(l, s) /\ s.what # "fold assumption" /\ StakeholderSteps \subseteq S
    BY <1>10 DEF PropagationContinue, NarrativeSteps, StakeholderSteps, AnalogueSteps, AllSteps
  <2>. QED BY <1>1, <1>10, <2>1, StakeholderStepDraft, CalmDrafted
<1>11. CASE s.what \in AnalogueSteps
  <2>1. PropagationContinue(l, s) = AnalogueContinue(l, s) /\ s.what # "fold assumption"
    BY <1>11 DEF PropagationContinue, NarrativeSteps, StakeholderSteps, AnalogueSteps
  <2>. QED BY <1>1, <1>11, <2>1, AnalogueStepDraft, CalmDrafted
<1>12. CASE s.what \in WarningSteps \cup ForecastSteps \cup ImpactSteps
  <2>1. PropagationContinue(l, s) = WarningContinue(l, s)
    BY <1>12 DEF PropagationContinue, NarrativeSteps, StakeholderSteps, AnalogueSteps, WarningSteps, ForecastSteps, ImpactSteps
  <2>. QED BY <1>12, <2>1, WarningStepDraft DEF AllSteps
<1>. QED BY <1>2, <1>3, <1>4, <1>5, <1>6, <1>7, <1>8, <1>9, <1>10, <1>11, <1>12 DEF AllSteps, PassSteps

-----------------------------------------------------------------------------
(***************************************************************************)
(* What a command comes to, however many steps it takes on the way.        *)
(***************************************************************************)
Engines == {"theme", "narrative", "stakeholder", "analogue", "forecast", "warning", "impact", "plane"}
StepsOf(k) == CASE k = "theme"       -> ThemeSteps
                [] k = "narrative"   -> NarrativeSteps
                [] k = "stakeholder" -> StakeholderSteps
                [] k = "analogue"    -> AnalogueSteps
                [] k = "forecast"    -> ForecastSteps
                [] k = "warning"     -> WarningSteps \cup ForecastSteps \cup ImpactSteps
                [] k = "impact"      -> ImpactSteps
                [] k = "plane"       -> AllSteps
Queueing(l, d, n, q) == Queued(StepsOf(d[1]), l, q) /\ Leads(StepsOf(d[1]), l, q)

LEMMA StepDraft ==
  ASSUME NEW k \in Engines, NEW l, Orderly(l), NEW s, s.type = "step",
         Steady(StepsOf(k), l, s) \/ Apt(StepsOf(k), l, s)
  PROVE  Drafted(StepsOf(k), l, By(k, l, s))
<1>1. s.what \in StepsOf(k)
  BY DEF Steady, Apt, IsStep, Judged, T
<1>2. s.what # "fold assumption" => Asks(l, s.what, s.id)
  BY DEF Steady, Apt, Judged, T
<1>3. CASE k = "theme"
  <2>1. StepsOf(k) = ThemeSteps /\ By(k, l, s) = ThemeContinue(l, s)
    BY <1>3 DEF StepsOf, By
  <2>2. s.what # "fold assumption"
    BY <1>1, <2>1 DEF ThemeSteps
  <2>. QED BY <1>1, <1>2, <2>1, <2>2, ThemeStepDraft
<1>4. CASE k = "narrative"
  <2>1. StepsOf(k) = NarrativeSteps /\ By(k, l, s) = NarrativeContinue(l, s)
    BY <1>4 DEF StepsOf, By
  <2>2. s.what # "fold assumption"
    BY <1>1, <2>1 DEF NarrativeSteps
  <2>. QED BY <1>1, <1>2, <2>1, <2>2, NarrativeStepDraft
<1>5. CASE k = "stakeholder"
  <2>1. StepsOf(k) = StakeholderSteps /\ By(k, l, s) = StakeholderContinue(l, s)
    BY <1>5 DEF StepsOf, By
  <2>2. s.what # "fold assumption"
    BY <1>1, <2>1 DEF StakeholderSteps
  <2>. QED BY <1>1, <1>2, <2>1, <2>2, StakeholderStepDraft, CalmDrafted
<1>6. CASE k = "analogue"
  <2>1. StepsOf(k) = AnalogueSteps /\ By(k, l, s) = AnalogueContinue(l, s)
    BY <1>6 DEF StepsOf, By
  <2>2. s.what # "fold assumption"
    BY <1>1, <2>1 DEF AnalogueSteps
  <2>. QED BY <1>1, <1>2, <2>1, <2>2, AnalogueStepDraft, CalmDrafted
<1>7. CASE k = "forecast"
  <2>1. StepsOf(k) = ForecastSteps /\ By(k, l, s) = Continue(l, s)
    BY <1>7 DEF StepsOf, By
  <2>2. s.what # "fold assumption"
    BY <1>1, <2>1 DEF ForecastSteps
  <2>. QED BY <1>1, <1>2, <2>1, <2>2, ForecastStepDraft, CalmDrafted
<1>8. CASE k = "warning"
  <2>1. StepsOf(k) = WarningSteps \cup ForecastSteps \cup ImpactSteps /\ By(k, l, s) = WarningContinue(l, s)
    BY <1>8 DEF StepsOf, By
  <2>. QED BY <1>1, <2>1, WarningStepDraft
<1>9. CASE k = "impact"
  <2>1. StepsOf(k) = ImpactSteps /\ By(k, l, s) = ImpactContinue(l, s)
    BY <1>9 DEF StepsOf, By
  <2>. QED BY <1>1, <2>1, ImpactStepDraft
<1>10. CASE k = "plane"
  <2>1. StepsOf(k) = AllSteps /\ By(k, l, s) = PropagationContinue(l, s)
    BY <1>10 DEF StepsOf, By
  <2>. QED BY <1>1, <2>1, PassStepDraft
<1>. QED BY <1>3, <1>4, <1>5, <1>6, <1>7, <1>8, <1>9, <1>10 DEF Engines

LEMMA ResumedQueued ==
  ASSUME NEW k \in Engines, NEW l, Orderly(l), NEW q, Queued(StepsOf(k), l, q), Leads(StepsOf(k), l, q),
         q # <<>>, Head(q).type = "step"
  PROVE  Drafted(StepsOf(k), l, By(k, l, Head(q)) \o Tail(q))
<1>1. IsSeq(q)
  BY DEF Queued
<1>2. /\ Head(q) = q[1] /\ IsSeq(Tail(q)) /\ Len(Tail(q)) = Len(q) - 1 /\ Len(q) \in Nat
      /\ \A n \in 1 .. Len(q) - 1 : Tail(q)[n] = q[n + 1]
  BY <1>1, HeadAndTail, SeqFacts
<1>3. ASSUME NEW n \in 1 .. Len(Tail(q)) PROVE Steady(StepsOf(k), l, Tail(q)[n])
  <2>1. n + 1 \in 2 .. Len(q) /\ n \in 1 .. Len(q) - 1
    BY <1>2
  <2>. QED BY <1>2, <2>1 DEF Queued
<1>4. Calm(StepsOf(k), l, Tail(q))
  BY <1>2, <1>3 DEF Calm
<1>5. Drafted(StepsOf(k), l, By(k, l, Head(q)))
  BY <1>2, StepDraft DEF Leads
<1>. QED BY <1>4, <1>5, DraftedJoined

LEMMA RunQueued ==
  ASSUME NEW k \in Engines, NEW l, Orderly(l), NEW d, Drafted(StepsOf(k), l, d)
  PROVE  Queued(AllSteps, l, Run("ahead", l, <<k, d>>, MaxSteps))
<1> DEFINE b == <<k, d>>
<1>1. b[1] = k /\ b[2] = d
  OBVIOUS
<1> HIDE DEF b
<1>2. IsSeq(l) /\ MaxSteps \in Nat
  BY VersionedLogAssumption DEF Orderly
<1>3. Queueing(l, b, 0, Opened(l, b))
  BY <1>1, <1>2, SettleQueued DEF Queueing, Opened
<1>4. ASSUME NEW n \in 1 .. MaxSteps, NEW q, Queueing(l, b, n - 1, q) PROVE Queueing(l, b, n, Resumed(l, b, n, q))
  <2>1. Queued(StepsOf(k), l, q) /\ Leads(StepsOf(k), l, q)
    BY <1>1, <1>4 DEF Queueing
  <2>2. CASE q # <<>> /\ Head(q).type = "step"
    <3>1. Resumed(l, b, n, q) = Settle(l, By(k, l, Head(q)) \o Tail(q))
      BY <1>1, <2>2 DEF Resumed
    <3>2. Drafted(StepsOf(k), l, By(k, l, Head(q)) \o Tail(q))
      BY <2>1, <2>2, ResumedQueued
    <3>. QED BY <1>1, <1>2, <3>1, <3>2, SettleQueued DEF Queueing
  <2>3. CASE ~(q # <<>> /\ Head(q).type = "step")
    BY <1>1, <2>1, <2>3 DEF Resumed, Queueing
  <2>. QED BY <2>2, <2>3
<1>5. Queueing(l, b, MaxSteps, Run("ahead", l, b, MaxSteps))
  <2>1. PICK f : Goes("ahead", l, b, MaxSteps, f)
    BY <1>2, RunGoes
  <2> DEFINE G == {n \in 0 .. MaxSteps : Queueing(l, b, n, f[n])}
  <2>2. 0 \in G
    BY <1>2, <1>3, <2>1 DEF Goes, First
  <2>3. ASSUME NEW n \in 1 .. MaxSteps, n - 1 \in G PROVE n \in G
    BY <1>4, <1>2, <2>1, <2>3 DEF Goes, Following
  <2> HIDE DEF G
  <2>4. MaxSteps \in G
    BY <1>2, <2>2, <2>3, UpTo
  <2>. QED BY <2>1, <2>4 DEF Goes, G
<1>6. StepsOf(k) \subseteq AllSteps
  BY DEF StepsOf, Engines, AllSteps
<1>. QED BY <1>1, <1>5, <1>6, MoreSteps DEF Queueing, b

LEMMA CommandsRun ==
  ASSUME NEW c, NEW d
  PROVE  /\ ThemeDo(c, d) => Decide(c, Run("ahead", log, <<"theme", d>>, MaxSteps))
         /\ NarrativeDo(c, d) => Decide(c, Run("ahead", log, <<"narrative", d>>, MaxSteps))
         /\ StakeholderDo(c, d) => Decide(c, Run("ahead", log, <<"stakeholder", d>>, MaxSteps))
         /\ AnalogueDo(c, d) => Decide(c, Run("ahead", log, <<"analogue", d>>, MaxSteps))
         /\ ForecastDo(c, d) => Decide(c, Run("ahead", log, <<"forecast", d>>, MaxSteps))
         /\ WarningDo(c, d) => Decide(c, Run("ahead", log, <<"warning", d>>, MaxSteps))
         /\ ImpactDo(c, d) => Decide(c, Run("ahead", log, <<"impact", d>>, MaxSteps))
<1>1. ASSUME ThemeDo(c, d) PROVE Decide(c, Run("ahead", log, <<"theme", d>>, MaxSteps))
  BY <1>1 DEF ThemeDo, Do, Ahead, Run, First, Following, Opened, Resumed, By
<1>2. ASSUME NarrativeDo(c, d) PROVE Decide(c, Run("ahead", log, <<"narrative", d>>, MaxSteps))
  BY <1>2 DEF NarrativeDo, Do, Ahead, Run, First, Following, Opened, Resumed, By
<1>3. ASSUME StakeholderDo(c, d) PROVE Decide(c, Run("ahead", log, <<"stakeholder", d>>, MaxSteps))
  BY <1>3 DEF StakeholderDo, Do, Ahead, Run, First, Following, Opened, Resumed, By
<1>4. ASSUME AnalogueDo(c, d) PROVE Decide(c, Run("ahead", log, <<"analogue", d>>, MaxSteps))
  BY <1>4 DEF AnalogueDo, Do, Ahead, Run, First, Following, Opened, Resumed, By
<1>5. ASSUME ForecastDo(c, d) PROVE Decide(c, Run("ahead", log, <<"forecast", d>>, MaxSteps))
  BY <1>5 DEF ForecastDo, Do, Ahead, Run, First, Following, Opened, Resumed, By
<1>6. ASSUME WarningDo(c, d) PROVE Decide(c, Run("ahead", log, <<"warning", d>>, MaxSteps))
  BY <1>6 DEF WarningDo, Do, Ahead, Run, First, Following, Opened, Resumed, By
<1>7. ASSUME ImpactDo(c, d) PROVE Decide(c, Run("ahead", log, <<"impact", d>>, MaxSteps))
  BY <1>7 DEF ImpactDo, Do, Ahead, Run, First, Following, Opened, Resumed, By
<1>. QED BY <1>1, <1>2, <1>3, <1>4, <1>5, <1>6, <1>7

-----------------------------------------------------------------------------
(***************************************************************************)
(* The steps of the specification.                                         *)
(***************************************************************************)
LEMMA CalmQueued ==
  ASSUME NEW S, NEW l, NEW q, Calm(S, l, q), q # <<>> => q[1].type \notin Judged
  PROVE  Queued(S, l, q)
<1>1. IsSeq(q) /\ Len(q) \in Nat /\ (q # <<>> => 1 \in 1 .. Len(q))
  BY SeqFacts DEF Calm
<1>2. \A n \in 2 .. Len(q) : n \in 1 .. Len(q)
  BY <1>1
<1>. QED BY <1>1, <1>2 DEF Calm, Queued, Steady

LEMMA DecisionKeeps ==
  ASSUME JInv, NEW c \in Calls, NEW q, Queued(AllSteps, log, q), log' = log, todo' = [todo EXCEPT ![c] = q]
  PROVE  JInv'
<1>1. \A d \in Calls : Queued(AllSteps, log, todo'[d])
  BY DEF JInv
<1>2. DOMAIN todo' = Calls
  BY DEF JInv
<1>. QED BY <1>1, <1>2 DEF JInv

LEMMA RunOnKeeps ==
  ASSUME JInv, NEW c \in Calls, NEW k \in Engines, NEW d, Drafted(StepsOf(k), log, d),
         Decide(c, Run("ahead", log, <<k, d>>, MaxSteps))
  PROVE  JInv'
<1>1. Queued(AllSteps, log, Run("ahead", log, <<k, d>>, MaxSteps))
  BY RunQueued DEF JInv
<1>. QED BY <1>1, DecisionKeeps DEF Decide

LEMMA CommandKeeps ==
  ASSUME JInv, NEW c \in Calls, NEW d
  PROVE  /\ ThemeDo(c, d) /\ Drafted(ThemeSteps, log, d) => JInv'
         /\ NarrativeDo(c, d) /\ Drafted(NarrativeSteps, log, d) => JInv'
         /\ StakeholderDo(c, d) /\ Drafted(StakeholderSteps, log, d) => JInv'
         /\ AnalogueDo(c, d) /\ Drafted(AnalogueSteps, log, d) => JInv'
         /\ ForecastDo(c, d) /\ Drafted(ForecastSteps, log, d) => JInv'
         /\ WarningDo(c, d) /\ Drafted(WarningSteps \cup ForecastSteps \cup ImpactSteps, log, d) => JInv'
         /\ ImpactDo(c, d) /\ Drafted(ImpactSteps, log, d) => JInv'
<1>1. ASSUME ThemeDo(c, d), Drafted(ThemeSteps, log, d) PROVE JInv'
  <2>1. "theme" \in Engines /\ StepsOf("theme") = ThemeSteps
    BY DEF StepsOf, Engines
  <2>2. Decide(c, Run("ahead", log, <<"theme", d>>, MaxSteps))
    BY <1>1, CommandsRun
  <2>. QED BY <1>1, <2>1, <2>2, RunOnKeeps
<1>2. ASSUME NarrativeDo(c, d), Drafted(NarrativeSteps, log, d) PROVE JInv'
  <2>1. "narrative" \in Engines /\ StepsOf("narrative") = NarrativeSteps
    BY DEF StepsOf, Engines
  <2>2. Decide(c, Run("ahead", log, <<"narrative", d>>, MaxSteps))
    BY <1>2, CommandsRun
  <2>. QED BY <1>2, <2>1, <2>2, RunOnKeeps
<1>3. ASSUME StakeholderDo(c, d), Drafted(StakeholderSteps, log, d) PROVE JInv'
  <2>1. "stakeholder" \in Engines /\ StepsOf("stakeholder") = StakeholderSteps
    BY DEF StepsOf, Engines
  <2>2. Decide(c, Run("ahead", log, <<"stakeholder", d>>, MaxSteps))
    BY <1>3, CommandsRun
  <2>. QED BY <1>3, <2>1, <2>2, RunOnKeeps
<1>4. ASSUME AnalogueDo(c, d), Drafted(AnalogueSteps, log, d) PROVE JInv'
  <2>1. "analogue" \in Engines /\ StepsOf("analogue") = AnalogueSteps
    BY DEF StepsOf, Engines
  <2>2. Decide(c, Run("ahead", log, <<"analogue", d>>, MaxSteps))
    BY <1>4, CommandsRun
  <2>. QED BY <1>4, <2>1, <2>2, RunOnKeeps
<1>5. ASSUME ForecastDo(c, d), Drafted(ForecastSteps, log, d) PROVE JInv'
  <2>1. "forecast" \in Engines /\ StepsOf("forecast") = ForecastSteps
    BY DEF StepsOf, Engines
  <2>2. Decide(c, Run("ahead", log, <<"forecast", d>>, MaxSteps))
    BY <1>5, CommandsRun
  <2>. QED BY <1>5, <2>1, <2>2, RunOnKeeps
<1>6. ASSUME WarningDo(c, d), Drafted(WarningSteps \cup ForecastSteps \cup ImpactSteps, log, d) PROVE JInv'
  <2>1. "warning" \in Engines /\ StepsOf("warning") = WarningSteps \cup ForecastSteps \cup ImpactSteps
    BY DEF StepsOf, Engines
  <2>2. Decide(c, Run("ahead", log, <<"warning", d>>, MaxSteps))
    BY <1>6, CommandsRun
  <2>. QED BY <1>6, <2>1, <2>2, RunOnKeeps
<1>7. ASSUME ImpactDo(c, d), Drafted(ImpactSteps, log, d) PROVE JInv'
  <2>1. "impact" \in Engines /\ StepsOf("impact") = ImpactSteps
    BY DEF StepsOf, Engines
  <2>2. Decide(c, Run("ahead", log, <<"impact", d>>, MaxSteps))
    BY <1>7, CommandsRun
  <2>. QED BY <1>7, <2>1, <2>2, RunOnKeeps
<1>. QED BY <1>1, <1>2, <1>3, <1>4, <1>5, <1>6, <1>7

(* What a version rests on has not moved when the store takes it.          *)
LEMMA AppendOrderly ==
  ASSUME NEW l, Orderly(l), NEW e, Shaped(e), e.type \in Judged => Stands(l, e)
  PROVE  Orderly(Append(l, e)) /\ Extends(Append(l, e), l)
<1> DEFINE m == Append(l, e)
<1>1. IsSeq(l) /\ Len(l) \in Nat
  BY SeqFacts DEF Orderly
<1>2. /\ IsSeq(m) /\ Len(m) = Len(l) + 1 /\ m[Len(l) + 1] = e /\ Extends(m, l)
      /\ \A n \in 1 .. Len(l) : m[n] = l[n]
  BY <1>1, Appended, AppendExtends
<1> HIDE DEF m
<1>3. ASSUME NEW n \in 1 .. Len(m) PROVE Shaped(m[n]) /\ (m[n].type \in Judged => Stands(Prefix(m, n - 1), m[n]))
  <2>1. CASE n = Len(l) + 1
    <3>1. n - 1 = Len(l) /\ Len(l) \in 0 .. Len(l)
      BY <1>1, <2>1
    <3>2. Prefix(m, n - 1) = l
      BY <1>1, <1>2, <3>1, SamePrefix, PrefixWhole
    <3>. QED BY <1>2, <2>1, <3>2
  <2>2. CASE n \in 1 .. Len(l)
    <3>1. n - 1 \in 0 .. Len(l)
      BY <1>1, <2>2
    <3>2. Prefix(m, n - 1) = Prefix(l, n - 1)
      BY <1>1, <1>2, <3>1, SamePrefix
    <3>. QED BY <1>2, <2>2, <3>2 DEF Orderly
  <2>. QED BY <1>1, <1>2, <2>1, <2>2
<1>. QED BY <1>2, <1>3 DEF Orderly, m

LEMMA AppendKeeps == ASSUME JInv, NEW c \in Calls, AnalyticWrite(c) PROVE JInv'
<1> DEFINE q == todo[c]
           e == Head(q)
           l == Append(log, e)
<1>1. /\ q # <<>> /\ Fits(e) /\ log' = l
      /\ todo' = [todo EXCEPT ![c] = Ahead(PropagationContinue, l, Tail(q))]
  BY DEF AnalyticWrite, WriteAnd, Ready, JInv
<1>2. todo' = [todo EXCEPT ![c] = Run("ahead", l, <<"plane", Tail(q)>>, MaxSteps)]
  BY <1>1 DEF Ahead, Run, First, Following, Opened, Resumed, By
<1>3. Orderly(log) /\ IsSeq(log) /\ Queued(AllSteps, log, q) /\ IsSeq(q) /\ DOMAIN todo = Calls
  BY DEF JInv, Orderly, Queued
<1> HIDE DEF q
<1>4. /\ e = q[1] /\ IsSeq(Tail(q)) /\ Len(Tail(q)) = Len(q) - 1 /\ Len(q) \in Nat
      /\ \A n \in 1 .. Len(q) - 1 : Tail(q)[n] = q[n + 1]
  BY <1>1, <1>3, HeadAndTail, SeqFacts
<1> HIDE DEF e
<1>5. Shaped(e) /\ (e.type \in Judged => Grounded(log, e))
  BY <1>1, <1>3, <1>4 DEF Queued
<1>6. e.type \in Judged => Stands(log, e)
  <2> SUFFICES ASSUME e.type \in Judged PROVE Stands(log, e)
    OBVIOUS
  <2>1. e.version = NextOf(log, e.type, e.id)
    BY <1>1, <1>3, <1>5, NextIs DEF Fits, Shaped
  <2>. QED BY <1>3, <1>5, <2>1, StandsStill
<1>7. Orderly(l) /\ Extends(l, log)
  BY <1>3, <1>5, <1>6, AppendOrderly
<1> HIDE DEF l
<1>8. Calm(AllSteps, l, Tail(q))
  <2>1. ASSUME NEW n \in 1 .. Len(Tail(q)) PROVE Steady(AllSteps, l, Tail(q)[n])
    <3>1. n + 1 \in 2 .. Len(q) /\ n \in 1 .. Len(q) - 1
      BY <1>4
    <3>2. Steady(AllSteps, log, Tail(q)[n])
      BY <1>3, <1>4, <3>1 DEF Queued
    <3>. QED BY <1>3, <1>7, <3>2, StillSteady
  <2>. QED BY <1>4, <2>1 DEF Calm
<1>9. Queued(AllSteps, l, Run("ahead", l, <<"plane", Tail(q)>>, MaxSteps))
  <2>1. StepsOf("plane") = AllSteps /\ "plane" \in Engines
    BY DEF StepsOf, Engines
  <2>. QED BY <1>7, <1>8, <2>1, CalmDrafted, RunQueued
<1>10. ASSUME NEW d \in Calls PROVE Queued(AllSteps, l, todo'[d])
  <2>1. CASE d = c
    BY <1>3, <1>2, <1>9, <2>1
  <2>2. CASE d # c
    <3>1. Queued(AllSteps, log, todo[d])
      BY DEF JInv
    <3>2. Queued(AllSteps, l, todo[d])
      BY <1>3, <1>7, <3>1, StillQueued
    <3>. QED BY <1>3, <1>2, <2>2, <3>2
  <2>. QED BY <2>1, <2>2
<1>11. DOMAIN todo' = Calls
  BY <1>1, <1>3
<1>. QED BY <1>1, <1>7, <1>10, <1>11 DEF JInv

(* What the semantic plane and the world report. *)
LEMMA HappensKeeps ==
  ASSUME JInv, NEW e, Shaped(e), e.type \notin Judged, Elsewhere(e)
  PROVE  JInv'
<1> DEFINE l == Append(log, e)
<1>1. log' = l /\ todo' = todo
  BY DEF Elsewhere
<1>2. Orderly(log) /\ IsSeq(log) /\ DOMAIN todo = Calls
  BY DEF JInv, Orderly
<1>3. Orderly(l) /\ Extends(l, log)
  BY <1>2, AppendOrderly
<1> HIDE DEF l
<1>4. ASSUME NEW d \in Calls PROVE Queued(AllSteps, l, todo[d])
  BY <1>2, <1>3, StillQueued DEF JInv
<1>. QED BY <1>1, <1>2, <1>3, <1>4 DEF JInv

LEMMA NewsKeeps ==
  ASSUME JInv, NEW e \in SeenIn("other", 3) \cup World(log), Report(e)
  PROVE  JInv'
<1>1. {"type", "id"} \subseteq DOMAIN e /\ e.type \in {"state", "seen", "search", "observation", "activity", "claim", "horizon"}
  <2>1. CASE e \in SeenIn("other", 3)
    BY <2>1 DEF SeenIn
  <2>2. CASE e \in World(log)
    <3> DEFINE Searched == {[type |-> "search", id |-> s, source |-> s] : s \in IF Late(log) THEN Sources ELSE {}}
               Watching == {[type |-> "observation", id |-> "o", of |-> t] :
                              t \in {"earlier", "since"} \cup IF Late(log) THEN {"after"} ELSE {}}
               Activity == {[type |-> "activity", id |-> "a"]}
               Times    == IF Late(log) THEN BOOLEAN ELSE {FALSE}
               Said     == {[type |-> "claim", id |-> "claim", value |-> v, after |-> a] : v \in {"expected", "other"}, a \in Times}
    <3>1. World(log) = ClaimNews \cup Searched \cup Watching \cup (IF "EVENT_OCCURRED" \in Rules THEN Activity ELSE {})
                         \cup (IF "CLAIM_PREDICATE" \in Rules THEN Said ELSE {}) \cup IF Late(log) THEN {} ELSE {Horizon}
      BY DEF World
    <3>2. CASE e \in ClaimNews
      BY <3>2 DEF ClaimNews
    <3>3. CASE e \in Searched \cup Watching \cup Activity
      BY <3>3
    <3>4. CASE e \in Said
      <4> HIDE DEF Times
      <4>1. PICK v \in {"expected", "other"}, a \in Times : e = [type |-> "claim", id |-> "claim", value |-> v, after |-> a]
        BY <3>4
      <4>. QED BY <4>1
    <3>5. CASE e = Horizon
      BY <3>5 DEF Horizon
    <3> HIDE DEF Searched, Watching, Activity, Said
    <3>. QED BY <2>2, <3>1, <3>2, <3>3, <3>4, <3>5
  <2>. QED BY <2>1, <2>2
<1>2. Shaped(e) /\ e.type \notin Judged
  BY <1>1 DEF Shaped, Judged, T, N
<1>. QED BY <1>2, HappensKeeps DEF Report, Happen

LEMMA IdentityKeeps == ASSUME JInv, NEW k \in Caveats, Identity(k) PROVE JInv'
<1> DEFINE i == Item(<<"identity", k>>, IF k \in OpenCaveats(log) THEN "RESOLVED" ELSE "OPEN")
           e == [i EXCEPT !.version = 1]
<1>1. Elsewhere(e)
  BY DEF Identity
<1>2. {"type", "id"} \subseteq DOMAIN i /\ i.type = "item"
  BY DEF Item
<1> HIDE DEF i
<1>3. {"type", "id"} \subseteq DOMAIN e /\ e.type = "item"
  BY <1>2
<1> HIDE DEF e
<1>4. Shaped(e) /\ e.type \notin Judged
  BY <1>3 DEF Shaped, Judged, T, N
<1>. QED BY <1>1, <1>4, HappensKeeps

LEMMA AbandonKeeps == ASSUME JInv, NEW c \in Calls, GiveUp(c) PROVE JInv'
<1>1. Queued(AllSteps, log, <<>>)
  BY CalmNone, CalmQueued
<1>. QED BY <1>1, DecisionKeeps DEF GiveUp

LEMMA ProposalKeeps == ASSUME JInv, NEW c \in Calls, NEW id, CandidateCommand(c, id) PROVE JInv'
<1>1. ASSUME RecordCandidate(c, id) PROVE JInv'
  <2> DEFINE e == Proposal(id, "PROPOSED")
             q == <<e>>
  <2>1. Steady(AllSteps, log, e) /\ e.type = "proposal"
    BY SaidSteady DEF Proposal
  <2>2. Decide(c, q)
    BY <1>1 DEF RecordCandidate
  <2> HIDE DEF e
  <2>3. Calm(AllSteps, log, q) /\ q[1] = e
    BY <2>1, CalmOne
  <2> HIDE DEF q
  <2>4. Queued(AllSteps, log, q)
    BY <2>1, <2>3, CalmQueued DEF Judged, T
  <2>. QED BY <2>2, <2>4, DecisionKeeps DEF Decide
<1>2. ASSUME NEW kind, NEW status, ResolveCandidate(c, kind, id, status) PROVE JInv'
  <2> DEFINE e == [type |-> "action", id |-> id, status |-> status, kind |-> kind]
             f == Proposal(id, status)
             q == <<e, f>>
  <2>1. Steady(AllSteps, log, f)
    BY SaidSteady
  <2>2. {"type", "id"} \subseteq DOMAIN e /\ e.type = "action"
    OBVIOUS
  <2>3. Decide(c, q)
    BY <1>2 DEF ResolveCandidate
  <2> HIDE DEF e, f
  <2>4. Steady(AllSteps, log, e)
    BY <2>2, PlainSteady DEF Judged, T, N
  <2>5. Calm(AllSteps, log, q) /\ q[1] = e
    BY <2>1, <2>4, CalmPair
  <2> HIDE DEF q
  <2>6. Queued(AllSteps, log, q)
    BY <2>2, <2>5, CalmQueued DEF Judged, T
  <2>. QED BY <2>3, <2>6, DecisionKeeps DEF Decide
<1>. QED BY <1>1, <1>2 DEF CandidateCommand

(* The commands of each engine. *)
LEMMA ThemesKeep == ASSUME JInv, NEW c \in Calls, ThemeCommand(c) PROVE JInv'
<1>0. Orderly(log)
  BY DEF JInv
<1>1. ASSUME NEW id, NEW proposal, NEW sup, NEW con, ThemeDo(c, CreateTheme(log, id, proposal, sup, con, {})) PROVE JInv'
  BY <1>1, CreateThemeDraft, CommandKeeps
<1>2. ASSUME NEW id, Is(log, id), NEW cause, ThemeDo(c, RefreshTheme(log, id, cause)) PROVE JInv'
  BY <1>0, <1>2, RefreshThemeDraft, CommandKeeps
<1>3. ASSUME NEW id, Is(log, id), ThemeDo(c, ResolveTheme(log, id)) PROVE JInv'
  BY <1>0, <1>3, ResolveThemeDraft, CommandKeeps
<1>4. ASSUME NEW into, NEW from, Is(log, into), Is(log, from),
             ThemeDo(c, ProposeMerge(into, from)) \/ ThemeDo(c, ApplyMerge(log, into, from))
      PROVE  JInv'
  BY <1>0, <1>4, MergeDraft, CommandKeeps
<1>5. ASSUME NEW id, Is(log, id), ThemeDo(c, ApplySplit(log, id)) PROVE JInv'
  BY <1>0, <1>5, SplitDraft, CommandKeeps
<1>6. CASE MakeTheme(c, {"", "candidate"})
  BY <1>1, <1>6 DEF MakeTheme
<1>7. CASE RecheckTheme(c) \/ EndTheme(c)
  BY <1>2, <1>3, <1>7 DEF RecheckTheme, EndTheme, Themes
<1>8. CASE Propose(c) \/ Merge(c)
  BY <1>4, <1>8 DEF Propose, Merge, Themes
<1>9. CASE Split(c)
  BY <1>5, <1>9 DEF Split, Themes
<1>10. CASE CandidateCommand(c, "candidate")
  BY <1>10, ProposalKeeps
<1>. QED BY <1>6, <1>7, <1>8, <1>9, <1>10 DEF ThemeCommand

LEMMA NarrativesKeep == ASSUME JInv, NEW c \in Calls, NarrativeCommand(c) PROVE JInv'
<1>0. Orderly(log)
  BY DEF JInv
<1>1. ASSUME NEW s, NEW proposal, NEW sup \in SUBSET Claims, NEW con \in SUBSET Claims,
             NarrativeDo(c, CreateNarrative(log, s, proposal, sup, con))
      PROVE  JInv'
  BY <1>0, <1>1, CreateNarrativeDraft, CommandKeeps
<1>2. ASSUME NEW s, Heard(log, s), NEW f \in DOMAIN Forms, NEW proposal, NarrativeDo(c, AddVariant(log, s, f, proposal)) PROVE JInv'
  BY <1>0, <1>2, AddVariantDraft, CommandKeeps
<1>3. ASSUME NEW s, NEW o, NarrativeDo(c, <<Step("counter", <<s, o, s>>), Step("counter", <<o, s, s>>)>>) PROVE JInv'
  <2> DEFINE a == Step("counter", <<s, o, s>>)
             b == Step("counter", <<o, s, s>>)
  <2>1. Steady(NarrativeSteps, log, a) /\ Steady(NarrativeSteps, log, b)
    BY StepSteady DEF Asks, NarrativeSteps
  <2> HIDE DEF a, b
  <2>2. Drafted(NarrativeSteps, log, <<a, b>>)
    BY <2>1, CalmPair, CalmDrafted
  <2>. QED BY <1>3, <2>2, CommandKeeps DEF a, b
<1>4. ASSUME NEW s, Heard(log, s), NEW cause, NarrativeDo(c, RefreshNarrative(log, s, cause)) PROVE JInv'
  BY <1>0, <1>4, RefreshNarrativeDraft, CommandKeeps
<1>5. ASSUME NEW s, Heard(log, s), NarrativeDo(c, DerivePropagation(log, s)) PROVE JInv'
  BY <1>0, <1>5, DeriveDraft, CommandKeeps
<1>6. ASSUME NEW id, NEW kind, NEW proposal, NarrativeDo(c, AssertAdoption(log, id, kind, proposal)) PROVE JInv'
  BY <1>0, <1>6, AdoptionDraft, CommandKeeps
<1>7. CASE Tell(c, {"", "candidate"})
  BY <1>1, <1>7 DEF Tell
<1>8. CASE Vary(c, {"", "candidate"})
  BY <1>2, <1>8 DEF Vary, Narratives
<1>9. CASE Counter(c)
  BY <1>3, <1>9 DEF Counter
<1>10. CASE RecheckNarrative(c)
  BY <1>4, <1>10 DEF RecheckNarrative, Narratives
<1>11. CASE Derive(c)
  BY <1>5, <1>11 DEF Derive, Narratives
<1>12. CASE Adopt(c, {"", "candidate"})
  BY <1>6, <1>12 DEF Adopt
<1>13. CASE CandidateCommand(c, "candidate")
  BY <1>13, ProposalKeeps
<1>. QED BY <1>7, <1>8, <1>9, <1>10, <1>11, <1>12, <1>13 DEF NarrativeCommand

LEMMA StakeholdersKeep == ASSUME JInv, NEW c \in Calls, StakeholderCommand(c) PROVE JInv'
<1>0. Orderly(log)
  BY DEF JInv
<1>1. ASSUME NEW d, Calm(StakeholderSteps, log, d), StakeholderDo(c, d) PROVE JInv'
  BY <1>1, CalmDrafted, CommandKeeps
<1>2. CASE Assess(c, {"", "candidate"})
  BY <1>1, <1>2, CreateAssessmentDraft DEF Assess
<1>3. CASE TakePosition(c)
  BY <1>0, <1>1, <1>3, AddPositionDraft DEF TakePosition, AssessedNow
<1>4. CASE ChangePosition(c)
  BY <1>0, <1>1, <1>4, SupersedePositionDraft DEF ChangePosition, AssessedNow
<1>5. CASE RecheckAssessment(c)
  BY <1>0, <1>1, <1>5, RefreshAssessmentDraft DEF RecheckAssessment, AssessedNow
<1>6. CASE RecheckCaveats(c)
  BY <1>0, <1>1, <1>6, CaveatsDraft DEF RecheckCaveats
<1>7. CASE SayInfluence(c, {"", "candidate"})
  BY <1>0, <1>1, <1>7, InfluenceDraft DEF SayInfluence
<1>8. CASE DropInfluence(c)
  BY <1>0, <1>1, <1>8, InfluenceDraft DEF DropInfluence
<1>9. CASE DiscoverStakeholders(c)
  BY <1>1, <1>9, DiscoverDraft DEF DiscoverStakeholders
<1>10. CASE CandidateCommand(c, "candidate")
  BY <1>10, ProposalKeeps
<1>. QED BY <1>2, <1>3, <1>4, <1>5, <1>6, <1>7, <1>8, <1>9, <1>10 DEF StakeholderCommand

LEMMA ImpactKeeps == ASSUME JInv, NEW c \in Calls, ImpactCommand(c) PROVE JInv'
<1>0. Orderly(log)
  BY DEF JInv
<1>1. ASSUME NEW d, Drafted(ImpactSteps, log, d), ImpactDo(c, d) PROVE JInv'
  BY <1>1, CommandKeeps
<1>2. CASE SetObjective(c)
  BY <1>1, <1>2, CreateObjectiveDraft DEF SetObjective
<1>3. CASE Assume(c)
  <2>1. PICK a \in DOMAIN Assumptions : ImpactDo(c, RecordAssumption(log, a, Assumptions[a].claims, Assumptions[a].objectives))
    BY <1>3 DEF Assume
  <2>2. IsFiniteSet(Assumptions[a].objectives)
    BY ImpactAssumption
  <2>3. Drafted(ImpactSteps, log, RecordAssumption(log, a, Assumptions[a].claims, Assumptions[a].objectives))
    BY <1>0, <2>2, RecordAssumptionDraft
  <2>. QED BY <1>1, <2>1, <2>3
<1>4. CASE Question(c)
  BY <1>0, <1>1, <1>4, QuestionDraft DEF Question, Assumed
<1>5. CASE Invalidate(c)
  BY <1>0, <1>1, <1>5, InvalidateDraft, CalmDrafted DEF Invalidate, Assumed
<1>6. CASE Construct(c, {"", "candidate"})
  BY <1>1, <1>6, BuildDraft DEF Construct
<1>7. CASE RecheckPath(c)
  BY <1>0, <1>1, <1>7, StaleDraft DEF RecheckPath, Built
<1>8. CASE Respond(c, {"", "candidate"})
  BY <1>0, <1>1, <1>8, OptionDraft DEF Respond
<1>9. CASE ReviewResponse(c)
  BY <1>0, <1>1, <1>9, OptionDraft DEF ReviewResponse
<1>10. CASE CandidateCommand(c, "candidate")
  BY <1>10, ProposalKeeps
<1>. QED BY <1>2, <1>3, <1>4, <1>5, <1>6, <1>7, <1>8, <1>9, <1>10 DEF ImpactCommand

LEMMA ForecastsKeep == ASSUME JInv, NEW c \in Calls, ForecastCommand(c) PROVE JInv'
<1>0. Orderly(log)
  BY DEF JInv
<1>1. ASSUME NEW d, Calm(ForecastSteps, log, d), ForecastDo(c, d) PROVE JInv'
  BY <1>1, CalmDrafted, CommandKeeps
<1>2. CASE MakeForecast(c, {"", "candidate"})
  BY <1>0, <1>1, <1>2, CreateForecastDraft DEF MakeForecast
<1>3. CASE MoveForecast(c) \/ SettleForecast(c) \/ UseCandidate(c)
  BY <1>0, <1>1, <1>3, UpdateDraft DEF MoveForecast, SettleForecast, UseCandidate
<1>4. CASE RecheckForecast(c)
  BY <1>0, <1>1, <1>4, RefreshForecastDraft DEF RecheckForecast
<1>5. CASE \E i \in ToSet(Indicators) : Watch(c, i)
  BY <1>0, <1>1, <1>5, ArmCalm DEF Watch
<1>6. CASE WatchPass(c)
  BY <1>0, <1>1, <1>6, IndicatorsDraft DEF WatchPass
<1>7. CASE CandidateCommand(c, "candidate")
  BY <1>7, ProposalKeeps
<1>. QED BY <1>2, <1>3, <1>4, <1>5, <1>6, <1>7 DEF ForecastCommand

LEMMA PlaneKeeps == ASSUME JInv, NEW c \in Calls, PlaneCommand(c) PROVE JInv'
<1>0. Orderly(log)
  BY DEF JInv
<1>1. CASE ForecastCommand(c) \/ ThemeCommand(c) \/ NarrativeCommand(c) \/ StakeholderCommand(c) \/ ImpactCommand(c)
  BY <1>1, ForecastsKeep, ThemesKeep, NarrativesKeep, StakeholdersKeep, ImpactKeeps
<1>2. CASE Warn(c) \/ RecheckWarnings(c)
  <2>1. ASSUME NEW d, Calm(WarningSteps \cup ForecastSteps \cup ImpactSteps, log, d), WarningDo(c, d) PROVE JInv'
    BY <2>1, CalmDrafted, CommandKeeps
  <2>. QED BY <1>0, <1>2, <2>1, ProjectDraft, WarningsDraft DEF Warn, RecheckWarnings
<1>3. CASE Remember(c) \/ Compare(c)
  <2>1. ASSUME NEW d, Calm(AnalogueSteps, log, d), AnalogueDo(c, d) PROVE JInv'
    BY <2>1, CalmDrafted, CommandKeeps
  <2>. QED BY <1>0, <1>3, <2>1, EpisodeDraft, RetrieveDraft DEF Remember, Compare
<1>4. CASE PropagateChanges(c)
  <2>1. Drafted(AllSteps, log, Propagate(log))
    BY <1>0, PropagateDraft, CalmDrafted
  <2>2. Decide(c, Run("ahead", log, <<"plane", Propagate(log)>>, MaxSteps))
    BY <1>4 DEF PropagateChanges, Do, Ahead, Run, First, Following, Opened, Resumed, By
  <2>3. "plane" \in Engines /\ StepsOf("plane") = AllSteps
    BY DEF StepsOf, Engines
  <2>. QED BY <2>1, <2>2, <2>3, RunOnKeeps
<1>. QED BY <1>1, <1>2, <1>3, <1>4 DEF PlaneCommand

LEMMA JudgmentInit == CommandInit => JInv
<1> SUFFICES ASSUME CommandInit PROVE JInv
  OBVIOUS
<1>1. log = <<>> /\ todo = [c \in Calls |-> <<>>]
  BY DEF CommandInit
<1>2. IsSeq(<<>>) /\ Len(<<>>) = 0
  BY EmptySeq, AnySeq
<1>3. Orderly(log)
  BY <1>1, <1>2 DEF Orderly
<1>4. Queued(AllSteps, log, <<>>)
  BY CalmNone, CalmQueued
<1>. QED BY <1>1, <1>3, <1>4 DEF JInv

LEMMA JudgmentStep == JInv /\ [PlaneNext]_vars => JInv'
<1> SUFFICES ASSUME JInv, [PlaneNext]_vars PROVE JInv'
  OBVIOUS
<1>1. ASSUME NEW c \in Calls, PlaneCommand(c) \/ AnalyticWrite(c) \/ GiveUp(c) PROVE JInv'
  BY <1>1, PlaneKeeps, AppendKeeps, AbandonKeeps
<1>2. ASSUME NEW k \in Caveats, Identity(k) PROVE JInv'
  BY <1>2, IdentityKeeps
<1>3. ASSUME NEW e \in SeenIn("other", 3) \cup World(log), Report(e) PROVE JInv'
  BY <1>3, NewsKeeps
<1>4. ASSUME UNCHANGED vars PROVE JInv'
  BY <1>4 DEF JInv, vars
<1>. QED BY <1>1, <1>2, <1>3, <1>4 DEF PlaneNext

(* In every behaviour of the plane the log is orderly, and every command   *)
(* holds a version that stood on the log it was worked out on, and behind  *)
(* it only what is harmless wherever it lands.                             *)
THEOREM JudgmentInvariant == PlaneSpec => []JInv
<1>1. CommandInit => JInv
  BY JudgmentInit
<1>2. JInv /\ [PlaneNext]_vars => JInv'
  BY JudgmentStep
<1>. QED BY <1>1, <1>2, PTL DEF PlaneSpec

(* No refresh, fold, propagation or late command takes back what a person  *)
(* has decided: a judgment of independent adoption (narrative.py), a theme *)
(* that was ended (theme.py), an assumption that has fallen, a path that   *)
(* went stale, an exposed objective and a response that was decided on     *)
(* (impact.py).                                                            *)
THEOREM JudgmentsStand == PlaneSpec => []JudgmentStands
<1>1. JInv => JudgmentStands
  BY LawJudgments DEF JInv
<1>. QED BY <1>1, JudgmentInvariant, PTL
=============================================================================
