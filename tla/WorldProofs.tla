------------------------------ MODULE WorldProofs -----------------------------
(***************************************************************************)
(* What holds of the semantic plane, of hypotheses and collection and of   *)
(* the fabric, for every set of calls, readings, topics, questions and     *)
(* watches, however the commands interleave and wherever they are cut off. *)
(*                                                                         *)
(* A command decides on events and on steps yet to take, on the log of     *)
(* some moment; they are appended later, one by one, and what other        *)
(* commands have appended lies between.  The inductive invariant IInv says *)
(* that the log is lawful and that every queue is owed to it.              *)
(*                                                                         *)
(* A log is lawful if each event is sound on what was there before it:     *)
(* what it names is on record (Sound), and a claim or a standing, which    *)
(* says what holds now, was worked out on a prefix of the log (Founded).   *)
(* The store checks the version of a claim, so its prefix holds every      *)
(* version before it; a standing has no version to check, so that only a   *)
(* command that is alone knows what it takes back (Fresh).                 *)
(*                                                                         *)
(* A queue is owed to a log if each of its events is sound on that log and *)
(* on what stands right before it in the queue, up to the last step        *)
(* (Near): only the first may be a claim or a standing.  A queue stays     *)
(* owed while others append (OwedMore); its first event keeps the log      *)
(* lawful (EventTail, LawfulAppend); and whatever a command or a step      *)
(* decides on is a draft, which Settle turns into a queue that is owed     *)
(* (SettleOwed), however many steps are taken (RunOwed).  Most of what     *)
(* follows shows that of each operation (...Free, ...Draft, ...Calm).  At  *)
(* the end, what a lawful log says, and that a pass which leaves nothing   *)
(* to do has brought every change before people.                           *)
(***************************************************************************)
EXTENDS Fabric, SequenceTheorems, FiniteSetTheorems, WellFoundedInduction, TLAPS

-----------------------------------------------------------------------------
(***************************************************************************)
(* Sequences of events, whatever the events are.                           *)
(***************************************************************************)
IsSeq(q)     == q \in Seq(ToSet(q))
Prefix(l, d) == SubSeq(l, 1, d)

(* A non-empty set of naturals has a least element. *)
LEMMA Least ==
  ASSUME NEW K, K \subseteq Nat, K # {}
  PROVE  \E m \in K : \A n \in K : m <= n
<1> DEFINE R == {ss \in Nat \X Nat : ss[1] < ss[2]}
<1>1. IsWellFoundedOn(R, Nat)
  BY NatLessThanWellFounded DEF OpToRel
<1>2. PICK m \in K : \A n \in K : ~ (<<n, m>> \in R)
  BY <1>1, WFMin, Zenon
<1>3. \A x, y \in Nat : x < y => <<x, y>> \in R
  OBVIOUS
<1>4. \A n \in K : ~ (n < m)
  BY <1>2, <1>3
<1>. QED BY <1>4

(* What Only keeps, what Flat joins, and what a command comes to.          *)
KeepNone(q, at)       == <<>>
KeepNext(q, at, n, o) == IF n \in at THEN Append(o, q[n]) ELSE o

JoinNone(parts, b)       == <<>>
JoinNext(parts, b, n, o) == o \o parts[n]

By(k, l, s) == CASE k = "once"       -> AllAtOnce(l, s)
                 [] k = "semantic"   -> SemanticContinue(l, s)
                 [] k = "collection" -> CollectionContinue(l, s)
                 [] k = "fabric"     -> FabricContinue(l, s)
Opened(l, d)        == Settle(l, d[2])
Resumed(l, d, n, q) == IF q # <<>> /\ Head(q).type = "step" THEN Settle(l, By(d[1], l, Head(q)) \o Tail(q)) ELSE q

(* The recursive functions of the models go on from a first value, one     *)
(* number after the other.  Induction on them is over a set of numbers,    *)
(* since the library's theorems have the statement as a parameter and      *)
(* cannot be cited.                                                        *)
First(what, a, b) ==
  CASE what = "only"  -> KeepNone(a, b)
    [] what = "flat"  -> JoinNone(a, b)
    [] what = "ahead" -> Opened(a, b)
Following(what, a, b, n, v) ==
  CASE what = "only"  -> KeepNext(a, b, n, v)
    [] what = "flat"  -> JoinNext(a, b, n, v)
    [] what = "ahead" -> Resumed(a, b, n, v)
Run(what, a, b, m) ==
  LET f[n \in 0 .. m] == IF n = 0 THEN First(what, a, b) ELSE Following(what, a, b, n, f[n - 1]) IN f[m]

IsRun(what, a, b, m, f) ==
  f = [n \in 0 .. m |-> IF n = 0 THEN First(what, a, b) ELSE Following(what, a, b, n, f[n - 1])]
Goes(what, a, b, m, f) ==
  /\ f[0] = First(what, a, b) /\ \A n \in 1 .. m : f[n] = Following(what, a, b, n, f[n - 1])
  /\ f[m] = Run(what, a, b, m)

LEMMA UpTo ==
  ASSUME NEW m \in Nat, NEW G, 0 \in G, \A n \in 1 .. m : n - 1 \in G => n \in G
  PROVE  m \in G
<1> DEFINE Miss == {n \in 0 .. m : n \notin G}
<1>1. SUFFICES ASSUME Miss # {} PROVE FALSE
  OBVIOUS
<1>2. Miss \subseteq Nat
  OBVIOUS
<1> HIDE DEF Miss
<1>3. PICK n \in Miss : \A k \in Miss : n <= k
  BY <1>1, <1>2, Least
<1> USE DEF Miss
<1>4. n \in 1 .. m /\ n \notin G
  OBVIOUS
<1>5. n - 1 \in 0 .. m /\ n - 1 \notin Miss
  BY <1>3, <1>4
<1>. QED BY <1>4, <1>5

(* The function exists, and its last value is the one that counts.         *)
LEMMA RunExists ==
  ASSUME NEW what, NEW a, NEW b, NEW m \in Nat
  PROVE  \E f : IsRun(what, a, b, m, f)
<1> DEFINE G == {n \in Nat : \E f : IsRun(what, a, b, n, f)}
<1>1. 0 \in G
  <2> DEFINE f == [n \in 0 .. 0 |-> First(what, a, b)]
  <2>1. IsRun(what, a, b, 0, f)
    BY DEF IsRun
  <2>. QED BY <2>1
<1>2. ASSUME NEW k \in 1 .. m, k - 1 \in G PROVE k \in G
  <2>1. PICK g : IsRun(what, a, b, k - 1, g)
    BY <1>2
  <2> DEFINE f == [n \in 0 .. k |-> IF n = k THEN Following(what, a, b, k, g[k - 1]) ELSE g[n]]
  <2>2. \A n \in 0 .. k - 1 : f[n] = g[n]
    OBVIOUS
  <2>3. \A n \in 0 .. k - 1 : g[n] = IF n = 0 THEN First(what, a, b) ELSE Following(what, a, b, n, g[n - 1])
    BY <2>1 DEF IsRun
  <2>4. ASSUME NEW n \in 0 .. k
        PROVE  f[n] = IF n = 0 THEN First(what, a, b) ELSE Following(what, a, b, n, f[n - 1])
    <3>1. CASE n = k
      <4>1. k - 1 \in 0 .. k - 1 /\ f[k] = Following(what, a, b, k, g[k - 1])
        OBVIOUS
      <4>. QED BY <3>1, <4>1, <2>2
    <3>2. CASE n # k /\ n # 0
      <4>1. n \in 0 .. k - 1 /\ n - 1 \in 0 .. k - 1
        BY <3>2
      <4>. QED BY <4>1, <2>2, <2>3, <3>2
    <3>3. CASE n # k /\ n = 0
      <4>1. n \in 0 .. k - 1
        BY <3>3
      <4>. QED BY <4>1, <2>2, <2>3, <3>3
    <3>. QED BY <3>1, <3>2, <3>3
  <2> HIDE DEF f
  <2>5. f = [n \in 0 .. k |-> f[n]]
    BY DEF f
  <2>6. IsRun(what, a, b, k, f)
    BY <2>4, <2>5 DEF IsRun
  <2>. QED BY <2>6
<1> HIDE DEF G
<1>3. m \in G
  BY <1>1, <1>2, UpTo
<1>. QED BY <1>3 DEF G

LEMMA RunGoes ==
  ASSUME NEW what, NEW a, NEW b, NEW m \in Nat
  PROVE  \E f : Goes(what, a, b, m, f)
<1> DEFINE f == CHOOSE f : IsRun(what, a, b, m, f)
<1>1. IsRun(what, a, b, m, f)
  BY RunExists
<1>2. Run(what, a, b, m) = f[m]
  BY DEF Run, IsRun
<1> HIDE DEF f
<1>3. \A n \in 0 .. m : f[n] = IF n = 0 THEN First(what, a, b) ELSE Following(what, a, b, n, f[n - 1])
  BY <1>1 DEF IsRun
<1>. QED BY <1>2, <1>3 DEF Goes

LEMMA MaxOf ==
  ASSUME NEW n \in Nat, NEW K, K \subseteq 1 .. n, K # {}
  PROVE  Max(K) \in K /\ \A x \in K : x <= Max(K)
<1> DEFINE D == {n - x : x \in K}
<1>1. D \subseteq Nat /\ D # {}
  OBVIOUS
<1>2. PICK d \in D : \A e \in D : d <= e
  BY <1>1, Least
<1>3. PICK x \in K : d = n - x
  OBVIOUS
<1>4. ASSUME NEW y \in K PROVE x >= y
  <2>1. n - y \in D
    OBVIOUS
  <2>2. n - x <= n - y
    BY <1>2, <1>3, <2>1
  <2>3. x \in Nat /\ y \in Nat
    OBVIOUS
  <2> HIDE DEF D
  <2>. QED BY ONLY <2>2, <2>3, n \in Nat, SMT
<1>5. \E z \in K : \A y \in K : z >= y
  BY <1>4
<1>. QED BY <1>5 DEF Max

LEMMA SeqFacts ==
  ASSUME NEW q, IsSeq(q)
  PROVE  /\ Len(q) \in Nat /\ DOMAIN q = 1 .. Len(q)
         /\ q # <<>> => Len(q) >= 1
         /\ q = <<>> => Len(q) = 0
         /\ ToSet(q) = {q[n] : n \in 1 .. Len(q)}
<1>1. Len(q) \in Nat /\ DOMAIN q = 1 .. Len(q)
  BY LenProperties DEF IsSeq
<1>2. q # <<>> => Len(q) \in Nat \ {0}
  BY EmptySeq DEF IsSeq
<1>. QED BY <1>1, <1>2, EmptySeq DEF ToSet

LEMMA AnySeq ==
  ASSUME NEW S, NEW q \in Seq(S)
  PROVE  IsSeq(q)
<1>1. Len(q) \in Nat /\ DOMAIN q = 1 .. Len(q) /\ q \in [1 .. Len(q) -> S]
  BY LenProperties
<1>2. q \in [1 .. Len(q) -> ToSet(q)]
  BY <1>1 DEF ToSet
<1>. QED BY <1>1, <1>2, SeqDef DEF IsSeq

(* Appending, joining and cutting. *)
LEMMA Appended ==
  ASSUME NEW q, IsSeq(q), NEW e
  PROVE  /\ IsSeq(Append(q, e)) /\ Len(Append(q, e)) = Len(q) + 1
         /\ DOMAIN Append(q, e) = 1 .. Len(q) + 1
         /\ \A n \in 1 .. Len(q) : Append(q, e)[n] = q[n]
         /\ Append(q, e)[Len(q) + 1] = e
<1> DEFINE S == ToSet(q) \cup {e}
<1>1. q \in Seq(S) /\ e \in S
  BY SeqMonotonic DEF IsSeq
<1>2. Append(q, e) \in Seq(S)
  BY <1>1, AppendProperties
<1>3. /\ Len(Append(q, e)) = Len(q) + 1
      /\ \A n \in 1 .. Len(q) : Append(q, e)[n] = q[n]
      /\ Append(q, e)[Len(q) + 1] = e
  BY <1>1, AppendProperties
<1>. QED BY <1>2, <1>3, AnySeq, SeqFacts

LEMMA Concatenated ==
  ASSUME NEW q, IsSeq(q), NEW r, IsSeq(r)
  PROVE  /\ IsSeq(q \o r) /\ Len(q \o r) = Len(q) + Len(r)
         /\ DOMAIN (q \o r) = 1 .. Len(q) + Len(r)
         /\ \A n \in 1 .. Len(q) : (q \o r)[n] = q[n]
         /\ \A n \in 1 .. Len(r) : (q \o r)[Len(q) + n] = r[n]
<1> DEFINE S == ToSet(q) \cup ToSet(r)
<1>1. q \in Seq(S) /\ r \in Seq(S)
  BY SeqMonotonic DEF IsSeq
<1>2. Len(q) \in Nat /\ Len(r) \in Nat
  BY SeqFacts
<1>3. q \o r \in Seq(S)
  BY <1>1, ConcatProperties
<1>4. /\ Len(q \o r) = Len(q) + Len(r)
      /\ \A i \in 1 .. Len(q) + Len(r) : (q \o r)[i] = IF i <= Len(q) THEN q[i] ELSE r[i - Len(q)]
  BY <1>1, ConcatProperties
<1>5. \A n \in 1 .. Len(q) : (q \o r)[n] = q[n]
  BY <1>2, <1>4
<1>6. \A n \in 1 .. Len(r) : (q \o r)[Len(q) + n] = r[n]
  BY <1>2, <1>4
<1>. QED BY <1>3, <1>4, <1>5, <1>6, AnySeq, SeqFacts

LEMMA HeadAndTail ==
  ASSUME NEW q, IsSeq(q), q # <<>>
  PROVE  /\ Head(q) = q[1]
         /\ IsSeq(Tail(q)) /\ Len(Tail(q)) = Len(q) - 1
         /\ DOMAIN Tail(q) = 1 .. Len(q) - 1
         /\ \A n \in 1 .. Len(q) - 1 : Tail(q)[n] = q[n + 1]
<1>1. q \in Seq(ToSet(q))
  BY DEF IsSeq
<1>2. Tail(q) \in Seq(ToSet(q)) /\ Head(q) = q[1] /\ Len(Tail(q)) = Len(q) - 1
      /\ \A n \in 1 .. Len(Tail(q)) : Tail(q)[n] = q[n + 1]
  BY <1>1, HeadTailProperties
<1>. QED BY <1>2, AnySeq, SeqFacts

LEMMA Single ==
  ASSUME NEW e
  PROVE  IsSeq(<<e>>) /\ Len(<<e>>) = 1 /\ <<e>>[1] = e
<1>1. <<e>> \in Seq({e}) /\ Len(<<e>>) = 1 /\ <<e>>[1] = e
  OBVIOUS
<1>. QED BY <1>1, AnySeq

LEMMA Prepended ==
  ASSUME NEW t, IsSeq(t), NEW e
  PROVE  /\ IsSeq(<<e>> \o t) /\ Len(<<e>> \o t) = 1 + Len(t)
         /\ (<<e>> \o t)[1] = e
         /\ \A n \in 1 .. Len(t) : (<<e>> \o t)[1 + n] = t[n]
<1> DEFINE S == {e} \cup ToSet(t)
           a == <<e>>
<1>1. a \in Seq(S) /\ t \in Seq(S) /\ Len(a) = 1 /\ a[1] = e
  BY SeqMonotonic DEF IsSeq
<1>2. Len(t) \in Nat
  BY SeqFacts
<1> HIDE DEF a, S
<1>3. a \o t \in Seq(S)
  BY <1>1, ConcatProperties
<1>4. /\ Len(a \o t) = Len(a) + Len(t)
      /\ \A i \in 1 .. Len(a) + Len(t) : (a \o t)[i] = IF i <= Len(a) THEN a[i] ELSE t[i - Len(a)]
  BY <1>1, ConcatProperties
<1>5. (a \o t)[1] = e
  BY <1>1, <1>2, <1>4
<1>6. \A n \in 1 .. Len(t) : (a \o t)[1 + n] = t[n]
  BY <1>1, <1>2, <1>4
<1>. QED BY <1>1, <1>3, <1>4, <1>5, <1>6, AnySeq DEF a

LEMMA JoinedOne ==
  ASSUME NEW r, IsSeq(r), NEW e
  PROVE  /\ IsSeq(r \o <<e>>) /\ Len(r \o <<e>>) = Len(r) + 1
         /\ \A n \in 1 .. Len(r) : (r \o <<e>>)[n] = r[n]
         /\ (r \o <<e>>)[Len(r) + 1] = e
<1> DEFINE S == {e} \cup ToSet(r)
           a == <<e>>
<1>1. a \in Seq(S) /\ r \in Seq(S) /\ Len(a) = 1 /\ a[1] = e
  BY SeqMonotonic DEF IsSeq
<1>2. Len(r) \in Nat
  BY SeqFacts
<1> HIDE DEF a, S
<1>3. r \o a \in Seq(S)
  BY <1>1, ConcatProperties
<1>4. /\ Len(r \o a) = Len(r) + Len(a)
      /\ \A i \in 1 .. Len(r) + Len(a) : (r \o a)[i] = IF i <= Len(r) THEN r[i] ELSE a[i - Len(r)]
  BY <1>1, ConcatProperties
<1>5. (r \o a)[Len(r) + 1] = e
  BY <1>1, <1>2, <1>4
<1>6. \A n \in 1 .. Len(r) : (r \o a)[n] = r[n]
  BY <1>1, <1>2, <1>4
<1>. QED BY <1>1, <1>3, <1>4, <1>5, <1>6, AnySeq DEF a

LEMMA PrefixFacts ==
  ASSUME NEW l, IsSeq(l), NEW d \in 0 .. Len(l)
  PROVE  /\ IsSeq(Prefix(l, d)) /\ Len(Prefix(l, d)) = d /\ DOMAIN Prefix(l, d) = 1 .. d
         /\ \A i \in 1 .. d : Prefix(l, d)[i] = l[i]
<1>1. l \in Seq(ToSet(l)) /\ Len(l) \in Nat
  BY SeqFacts DEF IsSeq
<1>2. /\ Prefix(l, d) \in Seq(ToSet(l)) /\ Len(Prefix(l, d)) = d
      /\ \A i \in 1 .. d : Prefix(l, d)[i] = l[i]
  BY <1>1, SubSeqProperties DEF Prefix
<1>. QED BY <1>2, AnySeq, SeqFacts

LEMMA SameSeq ==
  ASSUME NEW q, IsSeq(q), NEW r, IsSeq(r), Len(q) = Len(r), \A n \in 1 .. Len(q) : q[n] = r[n]
  PROVE  q = r
<1> DEFINE S == ToSet(q) \cup ToSet(r)
<1>1. q \in Seq(S) /\ r \in Seq(S)
  BY SeqMonotonic DEF IsSeq
<1>. QED BY <1>1, SeqEqual

(* A log that goes on from another. *)
Extends(m, l) == IsSeq(m) /\ Len(l) <= Len(m) /\ \A i \in 1 .. Len(l) : m[i] = l[i]

LEMMA SamePrefix ==
  ASSUME NEW l, IsSeq(l), NEW m, Extends(m, l), NEW d \in 0 .. Len(l)
  PROVE  Prefix(m, d) = Prefix(l, d)
<1>1. Len(l) \in Nat /\ Len(m) \in Nat /\ d \in 0 .. Len(m) /\ Len(l) <= Len(m) /\ IsSeq(m)
  BY SeqFacts DEF Extends
<1>2. \A i \in 1 .. d : Prefix(m, d)[i] = Prefix(l, d)[i]
  BY <1>1, PrefixFacts DEF Extends
<1>. QED BY <1>1, <1>2, PrefixFacts, SameSeq

LEMMA PrefixPart ==
  ASSUME NEW l, IsSeq(l), NEW d \in 0 .. Len(l)
  PROVE  Extends(l, Prefix(l, d))
BY PrefixFacts, SeqFacts DEF Extends

LEMMA PrefixWhole ==
  ASSUME NEW l, IsSeq(l)
  PROVE  Prefix(l, Len(l)) = l
<1>1. Len(l) \in Nat
  BY SeqFacts
<1>. QED BY <1>1, PrefixFacts, SameSeq

LEMMA AppendExtends ==
  ASSUME NEW l, IsSeq(l), NEW e
  PROVE  Extends(Append(l, e), l) /\ Extends(l, l)
BY Appended, SeqFacts DEF Extends

(***************************************************************************)
(* Only keeps what it is told to keep, in its order.                       *)
(***************************************************************************)
(* The positions that are kept, in their order. *)
Picks(q, at, m, o, h) ==
  /\ IsSeq(o) /\ Len(o) <= m /\ h \in [1 .. Len(o) -> 1 .. m]
  /\ \A n \in 1 .. Len(o) : h[n] \in at /\ o[n] = q[h[n]]
  /\ \A n, k \in 1 .. Len(o) : n < k => h[n] < h[k]
  /\ \A j \in 1 .. m : j \in at => \E n \in 1 .. Len(o) : h[n] = j

(* Only picks the positions one by one. *)
LEMMA PickNone ==
  ASSUME NEW q, NEW at
  PROVE  \E h : Picks(q, at, 0, <<>>, h)
<1>1. IsSeq(<<>>) /\ Len(<<>>) = 0
  BY EmptySeq, AnySeq
<1>2. Picks(q, at, 0, <<>>, [n \in 1 .. 0 |-> n])
  BY <1>1 DEF Picks
<1>. QED BY <1>2

LEMMA PickNext ==
  ASSUME NEW q, NEW at, NEW m \in Nat, NEW o, NEW h, Picks(q, at, m, o, h), m + 1 \in at
  PROVE  \E g : Picks(q, at, m + 1, Append(o, q[m + 1]), g)
<1> DEFINE p == Append(o, q[m + 1])
           g == [n \in 1 .. Len(o) + 1 |-> IF n = Len(o) + 1 THEN m + 1 ELSE h[n]]
<1>1. /\ IsSeq(o) /\ Len(o) \in Nat /\ Len(o) <= m
      /\ h \in [1 .. Len(o) -> 1 .. m]
      /\ \A n \in 1 .. Len(o) : h[n] \in at /\ o[n] = q[h[n]]
      /\ \A n, k \in 1 .. Len(o) : n < k => h[n] < h[k]
      /\ \A j \in 1 .. m : j \in at => \E n \in 1 .. Len(o) : h[n] = j
  BY SeqFacts DEF Picks
<1>2. /\ IsSeq(p) /\ Len(p) = Len(o) + 1
      /\ \A n \in 1 .. Len(o) : p[n] = o[n]
      /\ p[Len(o) + 1] = q[m + 1]
  BY <1>1, Appended
<1>3. \A n \in 1 .. Len(o) : g[n] = h[n] /\ h[n] \in 1 .. m
  BY <1>1
<1>4. g[Len(o) + 1] = m + 1 /\ Len(o) + 1 \in 1 .. Len(o) + 1
  BY <1>1
<1>5. g \in [1 .. Len(p) -> 1 .. m + 1] /\ Len(p) <= m + 1
  BY <1>1, <1>2, <1>3, <1>4
<1> HIDE DEF p, g
<1>6. ASSUME NEW n \in 1 .. Len(p) PROVE g[n] \in at /\ p[n] = q[g[n]]
  BY <1>1, <1>2, <1>3, <1>4, <1>6
<1>7. ASSUME NEW n \in 1 .. Len(p), NEW k \in 1 .. Len(p), n < k PROVE g[n] < g[k]
  <2>1. n \in 1 .. Len(o) /\ (k \in 1 .. Len(o) \/ k = Len(o) + 1)
    BY <1>1, <1>2, <1>7
  <2>2. CASE k \in 1 .. Len(o)
    <3>1. h[n] < h[k]
      BY <1>1, <1>7, <2>1, <2>2
    <3>. QED BY <1>3, <2>1, <2>2, <3>1
  <2>3. CASE k = Len(o) + 1
    <3>1. h[n] \in 1 .. m /\ g[n] = h[n] /\ g[k] = m + 1
      BY <1>3, <1>4, <2>1, <2>3
    <3>. QED BY <1>1, <3>1
  <2>. QED BY <2>1, <2>2, <2>3
<1>8. ASSUME NEW j \in 1 .. m + 1, j \in at PROVE \E n \in 1 .. Len(p) : g[n] = j
  <2>1. CASE j \in 1 .. m
    <3>1. PICK n \in 1 .. Len(o) : h[n] = j
      BY <2>1, <1>1, <1>8
    <3>2. n \in 1 .. Len(p) /\ g[n] = j
      BY <3>1, <1>1, <1>2, <1>3
    <3>. QED BY <3>2
  <2>2. CASE j = m + 1
    BY <2>2, <1>2, <1>4
  <2>. QED BY <2>1, <2>2
<1>9. Picks(q, at, m + 1, p, g)
  BY <1>2, <1>5, <1>6, <1>7, <1>8 DEF Picks
<1>. QED BY <1>9 DEF p

LEMMA PickNot ==
  ASSUME NEW q, NEW at, NEW m \in Nat, NEW o, NEW h, Picks(q, at, m, o, h), m + 1 \notin at
  PROVE  Picks(q, at, m + 1, o, h)
<1>1. /\ IsSeq(o) /\ Len(o) \in Nat /\ Len(o) <= m /\ h \in [1 .. Len(o) -> 1 .. m]
  BY SeqFacts DEF Picks
<1>2. h \in [1 .. Len(o) -> 1 .. m + 1]
  BY <1>1
<1>3. \A j \in 1 .. m + 1 : j \in at => j \in 1 .. m
  OBVIOUS
<1>. QED BY <1>1, <1>2, <1>3 DEF Picks

(* What Only keeps is what it picks. *)
Picked(q, at, n, o) == \E h : Picks(q, at, n, o, h)

LEMMA OnlyPicks ==
  ASSUME NEW q, IsSeq(q), NEW at
  PROVE  \E h : Picks(q, at, Len(q), Only(q, at), h)
<1>1. Len(q) \in Nat /\ Picked(q, at, 0, KeepNone(q, at))
  BY SeqFacts, PickNone DEF Picked, KeepNone
<1>2. ASSUME NEW n \in 1 .. Len(q), NEW o, Picked(q, at, n - 1, o)
      PROVE  Picked(q, at, n, KeepNext(q, at, n, o))
  <2>1. PICK k \in Nat : k = n - 1 /\ n = k + 1
    BY <1>1
  <2>2. PICK h : Picks(q, at, k, o, h)
    BY <1>2, <2>1 DEF Picked
  <2>3. \E g : Picks(q, at, k + 1, KeepNext(q, at, k + 1, o), g)
    BY <2>2, PickNext, PickNot DEF KeepNext
  <2>. QED BY <2>1, <2>3 DEF Picked
<1>3. Picked(q, at, Len(q), Run("only", q, at, Len(q)))
  <2>1. PICK f : Goes("only", q, at, Len(q), f)
    BY <1>1, RunGoes
  <2> DEFINE G == {n \in 0 .. Len(q) : Picked(q, at, n, f[n])}
  <2>2. 0 \in G
    BY <1>1, <2>1 DEF Goes, First
  <2>3. ASSUME NEW n \in 1 .. Len(q), n - 1 \in G PROVE n \in G
    BY <1>2, <1>1, <2>1, <2>3 DEF Goes, Following
  <2> HIDE DEF G
  <2>4. Len(q) \in G
    BY <1>1, <2>2, <2>3, UpTo
  <2>. QED BY <2>1, <2>4 DEF Goes, G
<1>4. Only(q, at) = Run("only", q, at, Len(q))
  BY DEF Only, Run, First, Following, KeepNone, KeepNext
<1>. QED BY <1>3, <1>4 DEF Picked

NextOf(l, t, id) == Cardinality(Versions(l, t, id)) + 1

-----------------------------------------------------------------------------
(***************************************************************************)
(* Versions in a log and in its prefixes.                                  *)
(***************************************************************************)
LEMMA VersionsFacts ==
  ASSUME NEW l, IsSeq(l), NEW t, NEW id
  PROVE  /\ Versions(l, t, id) = {i \in 1 .. Len(l) : l[i].type = t /\ l[i].id = id}
         /\ IsFiniteSet(Versions(l, t, id)) /\ Cardinality(Versions(l, t, id)) \in Nat
<1>1. Len(l) \in Nat /\ DOMAIN l = 1 .. Len(l)
  BY SeqFacts
<1>2. Versions(l, t, id) = {i \in 1 .. Len(l) : l[i].type = t /\ l[i].id = id}
  BY <1>1 DEF Versions
<1>3. IsFiniteSet(1 .. Len(l)) /\ Versions(l, t, id) \in SUBSET (1 .. Len(l))
  BY <1>1, <1>2, FS_Interval
<1>. QED BY <1>2, <1>3, FS_Subset, FS_CardinalityType

(* The current record is the last of its versions. *)
LEMMA CurrentFacts ==
  ASSUME NEW l, IsSeq(l), NEW t, NEW id, Known(l, t, id)
  PROVE  \E i \in Versions(l, t, id) : Current(l, t, id) = l[i] /\ \A j \in Versions(l, t, id) : j <= i
<1> DEFINE V == Versions(l, t, id)
<1>1. Len(l) \in Nat /\ V \subseteq 1 .. Len(l) /\ V # {}
  BY SeqFacts, VersionsFacts DEF Known
<1>2. Max(V) \in V /\ \A x \in V : x <= Max(V)
  BY <1>1, MaxOf
<1>. QED BY <1>2 DEF Current

(* A prefix holds the versions up to its end. *)
LEMMA PrefixVersions ==
  ASSUME NEW l, IsSeq(l), NEW d \in 0 .. Len(l), NEW t, NEW id
  PROVE  Versions(Prefix(l, d), t, id) = {i \in Versions(l, t, id) : i <= d}
<1>1. Len(l) \in Nat /\ IsSeq(Prefix(l, d)) /\ Len(Prefix(l, d)) = d /\ \A i \in 1 .. d : Prefix(l, d)[i] = l[i]
  BY SeqFacts, PrefixFacts
<1>2. /\ Versions(l, t, id) = {i \in 1 .. Len(l) : l[i].type = t /\ l[i].id = id}
      /\ Versions(Prefix(l, d), t, id) = {i \in 1 .. d : Prefix(l, d)[i].type = t /\ Prefix(l, d)[i].id = id}
  BY <1>1, VersionsFacts
<1>. QED BY <1>1, <1>2

LEMMA PrefixOfPrefix ==
  ASSUME NEW l, IsSeq(l), NEW d \in 0 .. Len(l), NEW i \in 0 .. d
  PROVE  Prefix(Prefix(l, d), i) = Prefix(l, i)
<1>1. IsSeq(Prefix(l, d)) /\ Len(Prefix(l, d)) = d /\ Extends(l, Prefix(l, d))
  BY PrefixFacts, PrefixPart
<1>. QED BY <1>1, SamePrefix

(* Two prefixes that hold equally many versions hold the same. *)
LEMMA SameVersions ==
  ASSUME NEW l, IsSeq(l), NEW t, NEW id, NEW d \in 0 .. Len(l), NEW k \in 0 .. d, NextOf(Prefix(l, k), t, id) = NextOf(Prefix(l, d), t, id)
  PROVE  \A i \in Versions(l, t, id) : i <= d => i <= k
<1> DEFINE V(n) == Versions(Prefix(l, n), t, id)
<1>1. Len(l) \in Nat /\ k \in 0 .. Len(l) /\ IsSeq(Prefix(l, d)) /\ IsSeq(Prefix(l, k))
  BY SeqFacts, PrefixFacts
<1>2. V(d) = {i \in Versions(l, t, id) : i <= d} /\ V(k) = {i \in Versions(l, t, id) : i <= k}
  BY <1>1, PrefixVersions
<1>3. IsFiniteSet(V(d)) /\ Cardinality(V(d)) \in Nat /\ Cardinality(V(k)) \in Nat
  BY <1>1, VersionsFacts
<1>4. Versions(l, t, id) \subseteq 1 .. Len(l)
  BY VersionsFacts
<1>5. V(k) \in SUBSET V(d)
  BY <1>1, <1>2, <1>4
<1>6. Cardinality(V(k)) = Cardinality(V(d))
  BY <1>3 DEF NextOf
<1>7. V(k) = V(d)
  BY <1>3, <1>5, <1>6, FS_Subset
<1>. QED BY <1>2, <1>7

(* A shorter prefix holds no more versions. *)
LEMMA FewerVersions ==
  ASSUME NEW l, IsSeq(l), NEW t, NEW id, NEW d \in 0 .. Len(l), NEW k \in 0 .. d
  PROVE  NextOf(Prefix(l, k), t, id) <= NextOf(Prefix(l, d), t, id) /\ NextOf(Prefix(l, d), t, id) \in Nat
<1> DEFINE V(n) == Versions(Prefix(l, n), t, id)
<1>1. Len(l) \in Nat /\ k \in 0 .. Len(l) /\ IsSeq(Prefix(l, d)) /\ IsSeq(Prefix(l, k))
  BY SeqFacts, PrefixFacts
<1>2. V(d) = {i \in Versions(l, t, id) : i <= d} /\ V(k) = {i \in Versions(l, t, id) : i <= k}
  BY <1>1, PrefixVersions
<1>3. IsFiniteSet(V(d)) /\ Cardinality(V(d)) \in Nat /\ Cardinality(V(k)) \in Nat
  BY <1>1, VersionsFacts
<1>4. Versions(l, t, id) \subseteq 1 .. Len(l)
  BY VersionsFacts
<1>5. V(k) \in SUBSET V(d)
  BY <1>1, <1>2, <1>4
<1>6. Cardinality(V(k)) <= Cardinality(V(d))
  BY <1>3, <1>5, FS_Subset
<1>. QED BY <1>3, <1>6 DEF NextOf

(* A version is one more than the versions before it. *)
LEMMA OneMore ==
  ASSUME NEW l, IsSeq(l), NEW t, NEW id, NEW n \in Versions(l, t, id)
  PROVE  NextOf(Prefix(l, n), t, id) = NextOf(Prefix(l, n - 1), t, id) + 1
<1> DEFINE V(k) == Versions(Prefix(l, k), t, id)
           m == n - 1
<1>1. /\ Len(l) \in Nat /\ n \in 1 .. Len(l) /\ n \in 0 .. Len(l)
      /\ m \in 0 .. Len(l) /\ n = m + 1 /\ m \in Nat
  BY SeqFacts, VersionsFacts
<1> HIDE DEF m
<1>2. V(n) = {i \in Versions(l, t, id) : i <= n} /\ V(m) = {i \in Versions(l, t, id) : i <= m}
  BY <1>1, PrefixVersions
<1>3. IsFiniteSet(V(m)) /\ Cardinality(V(m)) \in Nat
  BY <1>1, PrefixFacts, VersionsFacts
<1>4. Versions(l, t, id) \subseteq 1 .. Len(l)
  BY VersionsFacts
<1>5. V(n) = V(m) \cup {n} /\ n \notin V(m)
  BY <1>1, <1>2, <1>4
<1>6. Cardinality(V(n)) = Cardinality(V(m)) + 1
  BY <1>3, <1>5, FS_AddElement
<1>7. NextOf(Prefix(l, n), t, id) = NextOf(Prefix(l, m), t, id) + 1
  BY <1>3, <1>6 DEF NextOf
<1>. QED BY <1>7 DEF m

(* The version before is the last one before. *)
LEMMA Previous ==
  ASSUME NEW l, IsSeq(l), NEW t, NEW id,
         \A n \in Versions(l, t, id) : l[n].version = NextOf(Prefix(l, n - 1), t, id),
         NEW k \in Versions(l, t, id), NEW n \in Versions(l, t, id), l[n].version = l[k].version + 1
  PROVE  k < n /\ \A i \in Versions(l, t, id) : i < n => i <= k
<1>1. /\ n \in 1 .. Len(l) /\ k \in 1 .. Len(l) /\ Len(l) \in Nat
      /\ l[n].version = NextOf(Prefix(l, n - 1), t, id) /\ l[k].version = NextOf(Prefix(l, k - 1), t, id)
  BY SeqFacts, VersionsFacts
<1>2. NextOf(Prefix(l, k), t, id) = NextOf(Prefix(l, k - 1), t, id) + 1
  BY <1>1, OneMore
<1>3. NextOf(Prefix(l, n - 1), t, id) = NextOf(Prefix(l, k), t, id)
  BY <1>1, <1>2
<1>4. k < n
  <2>1. SUFFICES ASSUME n <= k PROVE FALSE
    BY <1>1
  <2>2. n - 1 \in 0 .. k - 1 /\ k - 1 \in 0 .. Len(l)
    BY <1>1, <2>1
  <2>3. NextOf(Prefix(l, n - 1), t, id) <= NextOf(Prefix(l, k - 1), t, id) /\ NextOf(Prefix(l, k - 1), t, id) \in Nat
    BY <1>1, <2>2, FewerVersions
  <2>. QED BY <1>2, <1>3, <2>3
<1>5. k \in 0 .. n - 1 /\ n - 1 \in 0 .. Len(l)
  BY <1>1, <1>4
<1>6. \A i \in Versions(l, t, id) : i <= n - 1 => i <= k
  BY <1>1, <1>3, <1>5, SameVersions
<1>7. Versions(l, t, id) \subseteq 1 .. Len(l)
  BY <1>1, VersionsFacts
<1>. QED BY <1>1, <1>4, <1>6, <1>7

(* What Settle leaves of the events: those that are not superfluous, in    *)
(* their order, the first one stamped.                                     *)
Left(l, d, q, h) ==
  /\ IsSeq(q) /\ Len(q) <= Len(d) /\ h \in [1 .. Len(q) -> 1 .. Len(d)]
  /\ q # <<>> => q[1] = Stamp(l, d[h[1]])
  /\ \A n \in 2 .. Len(q) : q[n] = d[h[n]]
  /\ \A n, k \in 1 .. Len(q) : n < k => h[n] < h[k]
  /\ \A n \in 1 .. Len(q) : ~Superfluous(l, d[h[n]])
  /\ \A j \in 1 .. Len(d) : ~Superfluous(l, d[j]) => \E n \in 1 .. Len(q) : h[n] = j

LEMMA SettleLeaves ==
  ASSUME NEW l, NEW d, IsSeq(d)
  PROVE  \E h : Left(l, d, Settle(l, d), h)
<1> DEFINE at == {n \in DOMAIN d : ~Superfluous(l, d[n])}
           o  == Only(d, at)
           q  == IF o = <<>> THEN <<>> ELSE <<Stamp(l, Head(o))>> \o Tail(o)
<1>1. Settle(l, d) = q
  BY DEF Settle, StampFirst
<1>2. PICK h : Picks(d, at, Len(d), o, h)
  BY OnlyPicks
<1>3. Len(d) \in Nat /\ DOMAIN d = 1 .. Len(d) /\ \A n \in 1 .. Len(d) : n \in at <=> ~Superfluous(l, d[n])
  BY SeqFacts
<1> HIDE DEF at, o
<1>4. /\ IsSeq(o) /\ Len(o) \in Nat /\ Len(o) <= Len(d) /\ h \in [1 .. Len(o) -> 1 .. Len(d)]
      /\ \A n \in 1 .. Len(o) : h[n] \in at /\ o[n] = d[h[n]]
      /\ \A n, k \in 1 .. Len(o) : n < k => h[n] < h[k]
      /\ \A j \in 1 .. Len(d) : j \in at => \E n \in 1 .. Len(o) : h[n] = j
  BY <1>2, SeqFacts DEF Picks
<1>5. CASE o = <<>>
  <2>1. q = o /\ Len(o) = 0
    BY <1>4, <1>5, SeqFacts
  <2> HIDE DEF q
  <2>2. Left(l, d, q, h)
    BY <1>3, <1>4, <1>5, <2>1 DEF Left
  <2>. QED BY <1>1, <2>2
<1>6. CASE o # <<>>
  <2> DEFINE t == Tail(o)
  <2>1. Len(o) >= 1 /\ Head(o) = o[1] /\ Len(t) = Len(o) - 1 /\ \A n \in 1 .. Len(o) - 1 : t[n] = o[n + 1]
    BY <1>4, <1>6, SeqFacts, HeadAndTail
  <2>2. IsSeq(t)
    BY <1>4, <1>6, HeadAndTail
  <2>3. q = <<Stamp(l, Head(o))>> \o t
    BY <1>6
  <2> HIDE DEF t, q
  <2>4. IsSeq(q) /\ Len(q) = 1 + Len(t) /\ q[1] = Stamp(l, Head(o)) /\ \A n \in 1 .. Len(t) : q[1 + n] = t[n]
    BY <2>2, <2>3, Prepended
  <2>5. Len(q) = Len(o) /\ q[1] = Stamp(l, o[1])
    BY <1>4, <2>1, <2>4
  <2>6. ASSUME NEW n \in 2 .. Len(q) PROVE q[n] = o[n]
    <3>1. n - 1 \in 1 .. Len(t) /\ 1 + (n - 1) = n /\ n - 1 \in 1 .. Len(o) - 1 /\ (n - 1) + 1 = n
      BY <1>4, <2>1, <2>5
    <3>2. q[1 + (n - 1)] = t[n - 1] /\ t[n - 1] = o[(n - 1) + 1]
      BY <2>1, <2>4, <3>1
    <3>. QED BY <3>1, <3>2
  <2>7. h[1] \in 1 .. Len(d) /\ o[1] = d[h[1]]
    BY <1>4, <2>1
  <2>8. \A n \in 2 .. Len(q) : q[n] = d[h[n]]
    BY <1>4, <2>5, <2>6
  <2>9. \A n \in 1 .. Len(q) : ~Superfluous(l, d[h[n]])
    BY <1>3, <1>4, <2>5
  <2>10. \A j \in 1 .. Len(d) : ~Superfluous(l, d[j]) => \E n \in 1 .. Len(q) : h[n] = j
    BY <1>3, <1>4, <2>5
  <2>11. Left(l, d, q, h)
    BY <1>4, <2>4, <2>5, <2>7, <2>8, <2>9, <2>10 DEF Left
  <2>. QED BY <1>1, <2>11
<1>. QED BY <1>5, <1>6

(* Left, event by event. *)
LEMMA LeftFacts ==
  ASSUME NEW l, NEW d, IsSeq(d), NEW q, NEW h, Left(l, d, q, h)
  PROVE  /\ IsSeq(q) /\ Len(q) \in Nat /\ Len(d) \in Nat
         /\ \A n \in 1 .. Len(q) : h[n] \in 1 .. Len(d) /\ ~Superfluous(l, d[h[n]])
         /\ \A n \in 1 .. Len(q) : q[n] = IF n = 1 THEN Stamp(l, d[h[n]]) ELSE d[h[n]]
         /\ \A n, k \in 1 .. Len(q) : h[n] < h[k] => n < k
         /\ \A n \in 2 .. Len(q) : h[n] >= 2
<1>1. /\ IsSeq(q) /\ Len(q) \in Nat /\ Len(d) \in Nat
      /\ h \in [1 .. Len(q) -> 1 .. Len(d)]
      /\ q # <<>> => q[1] = Stamp(l, d[h[1]])
      /\ \A n \in 2 .. Len(q) : q[n] = d[h[n]]
      /\ \A n, k \in 1 .. Len(q) : n < k => h[n] < h[k]
      /\ \A n \in 1 .. Len(q) : ~Superfluous(l, d[h[n]])
  BY SeqFacts DEF Left
<1>2. \A n \in 1 .. Len(q) : h[n] \in 1 .. Len(d)
  BY <1>1
<1>3. ASSUME NEW n \in 1 .. Len(q)
      PROVE  q[n] = IF n = 1 THEN Stamp(l, d[h[n]]) ELSE d[h[n]]
  <2>1. q # <<>>
    BY <1>1, <1>3, SeqFacts
  <2>2. n = 1 \/ n \in 2 .. Len(q)
    BY <1>1
  <2>. QED BY <1>1, <2>1, <2>2
<1>4. ASSUME NEW n \in 1 .. Len(q), NEW k \in 1 .. Len(q), h[n] < h[k] PROVE n < k
  <2>1. CASE n = k
    BY <1>1, <1>2, <1>4, <2>1
  <2>2. CASE k < n
    <3>1. h[k] < h[n]
      BY <1>1, <2>2
    <3>. QED BY <1>1, <1>2, <1>4, <3>1
  <2>. QED BY <1>1, <2>1, <2>2
<1>5. ASSUME NEW n \in 2 .. Len(q) PROVE h[n] >= 2
  <2>1. 1 \in 1 .. Len(q) /\ n \in 1 .. Len(q) /\ 1 < n
    BY <1>1
  <2>2. h[1] < h[n] /\ h[1] \in 1 .. Len(d) /\ h[n] \in 1 .. Len(d)
    BY <1>1, <1>2, <2>1
  <2>. QED BY <1>1, <2>2
<1>. QED BY <1>1, <1>2, <1>3, <1>4, <1>5

(* A first event that is not superfluous stays the first. *)
LEMMA FirstStays ==
  ASSUME NEW l, NEW d, IsSeq(d), NEW q, NEW h, Left(l, d, q, h), 1 \in 1 .. Len(d), ~Superfluous(l, d[1])
  PROVE  1 \in 1 .. Len(q) /\ h[1] = 1 /\ q[1] = Stamp(l, d[1])
<1>1. PICK k \in 1 .. Len(q) : h[k] = 1
  BY DEF Left
<1>2. Len(q) \in Nat /\ (k = 1 \/ k \in 2 .. Len(q))
  BY LeftFacts
<1>3. ~(k \in 2 .. Len(q))
  BY <1>1, LeftFacts
<1>4. k = 1 /\ 1 \in 1 .. Len(q)
  BY <1>2, <1>3
<1>5. q[1] = Stamp(l, d[h[1]])
  BY <1>4, LeftFacts
<1>. QED BY <1>1, <1>4, <1>5

(***************************************************************************)
(* Finite sets, and the sequences that are made of them.                   *)
(***************************************************************************)
LEMMA ImageFinite ==
  ASSUME NEW D, IsFiniteSet(D), NEW f, f = [x \in D |-> f[x]]
  PROVE  IsFiniteSet({f[x] : x \in D})
<1> DEFINE R == {f[x] : x \in D}
<1>1. f \in [D -> R] /\ \A y \in R : \E x \in D : f[x] = y
  OBVIOUS
<1> HIDE DEF R
<1>2. f \in Surjection(D, R)
  BY <1>1 DEF Surjection
<1>3. IsFiniteSet(R)
  BY <1>2, FS_Surjection
<1>. QED BY <1>3 DEF R

LEMMA SetToSeqIs ==
  ASSUME NEW S, IsFiniteSet(S)
  PROVE  SetToSeq(S) \in [1 .. Cardinality(S) -> S] /\ Cardinality(S) \in Nat
<1>1. Cardinality(S) \in Nat /\ ExistsBijection(1 .. Cardinality(S), S)
  BY FS_CardinalityType
<1>2. PICK f : f \in [1 .. Cardinality(S) -> S] /\ IsInjective(f)
  BY <1>1 DEF ExistsBijection, Bijection, Injection
<1>. QED BY <1>1, <1>2 DEF SetToSeq

LEMMA PositionsFinite ==
  ASSUME NEW l, IsSeq(l), NEW S, S \subseteq DOMAIN l
  PROVE  IsFiniteSet(S)
<1>1. Len(l) \in Nat /\ S \subseteq 1 .. Len(l)
  BY SeqFacts
<1>2. IsFiniteSet(1 .. Len(l))
  BY <1>1, FS_Interval
<1>. QED BY <1>1, <1>2, FS_Subset

(* What is on record of any set is finite. *)
LEMMA KnownFinite ==
  ASSUME NEW l, IsSeq(l), NEW t, NEW S, \A x \in S : Known(l, t, x)
  PROVE  IsFiniteSet(S)
<1> DEFINE D == {i \in DOMAIN l : l[i].type = t /\ l[i].id \in S}
           f == [i \in D |-> l[i].id]
<1>1. IsFiniteSet(D) /\ f = [i \in D |-> f[i]]
  BY PositionsFinite
<1>2. {f[i] : i \in D} = S
  BY DEF Known, Versions
<1> HIDE DEF D, f
<1>. QED BY <1>1, <1>2, ImageFinite

(***************************************************************************)
(* Functions on 1 .. n, what Only keeps and what Flat joins.               *)
(***************************************************************************)
LEMMA FunctionIsSeq ==
  ASSUME NEW n \in Nat, NEW g, g = [k \in 1 .. n |-> g[k]]
  PROVE  IsSeq(g) /\ Len(g) = n
<1>1. \A k \in 1 .. n : g[k] \in ToSet(g)
  BY DEF ToSet
<1>2. g \in [1 .. n -> ToSet(g)]
  BY <1>1
<1>3. g \in Seq(ToSet(g))
  BY <1>2, SeqDef
<1>4. Len(g) = n
  BY <1>2, <1>3, LenProperties
<1>. QED BY <1>3, <1>4 DEF IsSeq

LEMMA Mapped ==
  ASSUME NEW s, IsSeq(s), NEW g, g = [k \in DOMAIN s |-> g[k]]
  PROVE  IsSeq(g) /\ Len(g) = Len(s) /\ DOMAIN g = 1 .. Len(s)
BY SeqFacts, FunctionIsSeq

LEMMA OnlyAll ==
  ASSUME NEW q, IsSeq(q), NEW at
  PROVE  \A j \in DOMAIN q : j \in at => \E n \in DOMAIN Only(q, at) : Only(q, at)[n] = q[j]
<1> DEFINE o == Only(q, at)
<1>1. PICK h : Picks(q, at, Len(q), o, h)
  BY OnlyPicks
<1> HIDE DEF o
<1>2. /\ IsSeq(o) /\ DOMAIN o = 1 .. Len(o) /\ DOMAIN q = 1 .. Len(q)
      /\ \A n \in 1 .. Len(o) : o[n] = q[h[n]]
      /\ \A j \in 1 .. Len(q) : j \in at => \E n \in 1 .. Len(o) : h[n] = j
  BY <1>1, SeqFacts DEF Picks
<1>3. \A j \in DOMAIN q : j \in at => \E n \in DOMAIN o : o[n] = q[j]
  BY <1>2
<1>. QED BY <1>3 DEF o

LEMMA OnlyKeeps ==
  ASSUME NEW q, IsSeq(q), NEW at
  PROVE  /\ IsSeq(Only(q, at))
         /\ \A n \in DOMAIN Only(q, at) : \E j \in DOMAIN q : j \in at /\ Only(q, at)[n] = q[j]
<1>1. PICK h : Picks(q, at, Len(q), Only(q, at), h)
  BY OnlyPicks
<1> DEFINE o == Only(q, at)
<1> HIDE DEF o
<1>2. /\ IsSeq(o) /\ h \in [1 .. Len(o) -> 1 .. Len(q)]
      /\ \A n \in 1 .. Len(o) : h[n] \in at /\ o[n] = q[h[n]]
  BY <1>1 DEF Picks, o
<1>3. DOMAIN o = 1 .. Len(o) /\ DOMAIN q = 1 .. Len(q)
  BY <1>2, SeqFacts
<1>4. \A n \in 1 .. Len(o) : h[n] \in 1 .. Len(q)
  BY <1>2
<1>. QED BY <1>2, <1>3, <1>4 DEF o

Drawn(parts, b, n, o) == IsSeq(o) /\ \A k \in 1 .. Len(o) : \E p \in 1 .. n : \E j \in DOMAIN parts[p] : o[k] = parts[p][j]

LEMMA FlatFacts ==
  ASSUME NEW parts, IsSeq(parts), \A p \in DOMAIN parts : IsSeq(parts[p])
  PROVE  /\ IsSeq(Flat(parts))
         /\ \A k \in DOMAIN Flat(parts) : \E p \in DOMAIN parts : \E j \in DOMAIN parts[p] : Flat(parts)[k] = parts[p][j]
<1>1. Len(parts) \in Nat /\ DOMAIN parts = 1 .. Len(parts)
  BY SeqFacts
<1>2. Drawn(parts, 0, 0, JoinNone(parts, 0))
  <2>1. IsSeq(<<>>) /\ Len(<<>>) = 0
    BY EmptySeq, AnySeq
  <2>. QED BY <2>1 DEF Drawn, JoinNone
<1>3. ASSUME NEW n \in 1 .. Len(parts), NEW o, Drawn(parts, 0, n - 1, o)
      PROVE  Drawn(parts, 0, n, JoinNext(parts, 0, n, o))
  <2> DEFINE r == parts[n]
             w == o \o r
  <2>1. IsSeq(o) /\ IsSeq(r) /\ Len(o) \in Nat /\ Len(r) \in Nat /\ DOMAIN r = 1 .. Len(r)
    BY <1>1, <1>3, SeqFacts DEF Drawn
  <2>2. /\ IsSeq(w) /\ Len(w) = Len(o) + Len(r)
        /\ \A k \in 1 .. Len(o) : w[k] = o[k]
        /\ \A k \in 1 .. Len(r) : w[Len(o) + k] = r[k]
    BY <2>1, Concatenated
  <2> HIDE DEF w
  <2>3. ASSUME NEW k \in 1 .. Len(w) PROVE \E p \in 1 .. n : \E j \in DOMAIN parts[p] : w[k] = parts[p][j]
    <3>1. CASE k \in 1 .. Len(o)
      <4>1. PICK p \in 1 .. n - 1 : \E j \in DOMAIN parts[p] : o[k] = parts[p][j]
        BY <1>3, <3>1 DEF Drawn
      <4>2. p \in 1 .. n
        BY <1>1
      <4>. QED BY <2>2, <3>1, <4>1, <4>2
    <3>2. CASE k \notin 1 .. Len(o)
      <4>1. PICK i \in 1 .. Len(r) : k = Len(o) + i
        <5>1. k - Len(o) \in 1 .. Len(r) /\ k = Len(o) + (k - Len(o))
          BY <2>1, <2>2, <3>2
        <5>. QED BY <5>1
      <4>2. w[k] = parts[n][i] /\ i \in DOMAIN parts[n] /\ n \in 1 .. n
        BY <1>1, <2>1, <2>2, <4>1
      <4>. QED BY <4>2
    <3>. QED BY <3>1, <3>2
  <2>. QED BY <2>2, <2>3 DEF Drawn, JoinNext, w
<1>4. Drawn(parts, 0, Len(parts), Run("flat", parts, 0, Len(parts)))
  <2>1. PICK f : Goes("flat", parts, 0, Len(parts), f)
    BY <1>1, RunGoes
  <2> DEFINE G == {n \in 0 .. Len(parts) : Drawn(parts, 0, n, f[n])}
  <2>2. 0 \in G
    BY <1>1, <1>2, <2>1 DEF Goes, First
  <2>3. ASSUME NEW n \in 1 .. Len(parts), n - 1 \in G PROVE n \in G
    BY <1>3, <1>1, <2>1, <2>3 DEF Goes, Following
  <2> HIDE DEF G
  <2>4. Len(parts) \in G
    BY <1>1, <2>2, <2>3, UpTo
  <2>. QED BY <2>1, <2>4 DEF Goes, G
<1>5. Flat(parts) = Run("flat", parts, 0, Len(parts))
  BY DEF Flat, Run, First, Following, JoinNone, JoinNext
<1> DEFINE f == Flat(parts)
<1> HIDE DEF f
<1>6. IsSeq(f) /\ \A k \in 1 .. Len(f) : \E p \in 1 .. Len(parts) : \E j \in DOMAIN parts[p] : f[k] = parts[p][j]
  BY <1>4, <1>5 DEF Drawn, f
<1>. QED BY <1>1, <1>6, SeqFacts DEF f

(* None or one part. *)
Alone(parts, b, n, o) ==
  (n = 0 => o = <<>>) /\ (n = 1 => IsSeq(o) /\ Len(o) = Len(parts[1]) /\ \A k \in 1 .. Len(o) : o[k] = parts[1][k])

LEMMA FlatOne ==
  ASSUME NEW parts, IsSeq(parts), Len(parts) <= 1, \A p \in DOMAIN parts : IsSeq(parts[p])
  PROVE  IF Len(parts) = 1 THEN Flat(parts) = parts[1] ELSE Flat(parts) = <<>>
<1>1. Len(parts) \in Nat /\ DOMAIN parts = 1 .. Len(parts)
  BY SeqFacts
<1>2. Alone(parts, 0, 0, JoinNone(parts, 0))
  BY DEF Alone, JoinNone
<1>3. ASSUME NEW n \in 1 .. Len(parts), NEW o, Alone(parts, 0, n - 1, o)
      PROVE  Alone(parts, 0, n, JoinNext(parts, 0, n, o))
  <2>1. n = 1 /\ o = <<>> /\ IsSeq(parts[1])
    BY <1>1, <1>3 DEF Alone
  <2>2. IsSeq(<<>>) /\ Len(<<>>) = 0 /\ Len(parts[1]) \in Nat
    BY <2>1, EmptySeq, AnySeq, SeqFacts
  <2> DEFINE e == <<>>
             r == parts[1]
             w == e \o r
  <2> HIDE DEF e, r
  <2>3. IsSeq(w) /\ Len(w) = Len(e) + Len(r) /\ \A k \in 1 .. Len(r) : w[Len(e) + k] = r[k]
    BY <2>1, <2>2, Concatenated DEF e, r
  <2>4. Len(e) = 0 /\ Len(r) \in Nat
    BY <2>2 DEF e, r
  <2> HIDE DEF w
  <2>5. IsSeq(w) /\ Len(w) = Len(r) /\ \A k \in 1 .. Len(w) : w[k] = r[k]
    BY <2>3, <2>4
  <2>. QED BY <2>1, <2>5 DEF Alone, JoinNext, w, e, r
<1>4. Alone(parts, 0, Len(parts), Run("flat", parts, 0, Len(parts)))
  <2>1. PICK f : Goes("flat", parts, 0, Len(parts), f)
    BY <1>1, RunGoes
  <2> DEFINE G == {n \in 0 .. Len(parts) : Alone(parts, 0, n, f[n])}
  <2>2. 0 \in G
    BY <1>1, <1>2, <2>1 DEF Goes, First
  <2>3. ASSUME NEW n \in 1 .. Len(parts), n - 1 \in G PROVE n \in G
    BY <1>3, <1>1, <2>1, <2>3 DEF Goes, Following
  <2> HIDE DEF G
  <2>4. Len(parts) \in G
    BY <1>1, <2>2, <2>3, UpTo
  <2>. QED BY <2>1, <2>4 DEF Goes, G
<1>5. Flat(parts) = Run("flat", parts, 0, Len(parts))
  BY DEF Flat, Run, First, Following, JoinNone, JoinNext
<1> DEFINE f == Flat(parts)
<1> HIDE DEF f
<1>6. Alone(parts, 0, Len(parts), f)
  BY <1>4, <1>5 DEF f
<1>7. CASE Len(parts) = 1
  <2>1. IsSeq(f) /\ Len(f) = Len(parts[1]) /\ (\A k \in 1 .. Len(f) : f[k] = parts[1][k]) /\ IsSeq(parts[1])
    BY <1>1, <1>6, <1>7 DEF Alone
  <2>2. f = parts[1]
    BY <2>1, SameSeq
  <2>. QED BY <1>7, <2>2 DEF f
<1>8. CASE Len(parts) # 1
  BY <1>1, <1>6, <1>8 DEF Alone, f
<1>. QED BY <1>7, <1>8

(***************************************************************************)
(* A log that goes on keeps what it holds.                                 *)
(***************************************************************************)
LEMMA MoreVersions ==
  ASSUME NEW l, IsSeq(l), NEW m, Extends(m, l)
  PROVE  /\ DOMAIN l \subseteq DOMAIN m /\ \A i \in DOMAIN l : m[i] = l[i]
         /\ \A t, id : Versions(l, t, id) \subseteq Versions(m, t, id)
         /\ \A t, id : \A i \in Versions(l, t, id) : m[i] = l[i]
         /\ \A t, id : Known(l, t, id) => Known(m, t, id)
<1>1. /\ Len(l) \in Nat /\ Len(m) \in Nat /\ Len(l) <= Len(m) /\ DOMAIN l = 1 .. Len(l) /\ DOMAIN m = 1 .. Len(m)
      /\ \A i \in 1 .. Len(l) : m[i] = l[i]
  BY SeqFacts DEF Extends
<1>2. \A t, id : Versions(l, t, id) \subseteq Versions(m, t, id)
  BY <1>1 DEF Versions
<1>. QED BY <1>1, <1>2 DEF Known, Versions

LEMMA AppendPrefix ==
  ASSUME NEW l, IsSeq(l), NEW e
  PROVE  /\ Prefix(Append(l, e), Len(l)) = l
         /\ \A d \in 0 .. Len(l) : Prefix(Append(l, e), d) = Prefix(l, d)
         /\ Len(l) \in 0 .. Len(l)
<1>1. Extends(Append(l, e), l) /\ Len(l) \in Nat
  BY AppendExtends, SeqFacts
<1>. QED BY <1>1, SamePrefix, PrefixWhole

(***************************************************************************)
(* What a stamp leaves as it is: all but the version.                      *)
(***************************************************************************)
LEMMA StampKeeps ==
  ASSUME NEW l, NEW e, e.type # "ensure"
  PROVE  /\ DOMAIN Stamp(l, e) = DOMAIN e
         /\ \A f \in DOMAIN e \ {"version"} : Stamp(l, e)[f] = e[f]
         /\ ~Versioned(e) => Stamp(l, e) = e
         /\ Versioned(e) => Stamp(l, e).version = IF e.version = 0 THEN 1 ELSE NextVersion(l, e)
<1>1. CASE Versioned(e)
  <2>1. Stamp(l, e) = [e EXCEPT !.version = IF e.version = 0 THEN 1 ELSE NextVersion(l, e)]
    BY <1>1 DEF Stamp
  <2>. QED BY <1>1, <2>1 DEF Versioned
<1>2. CASE ~Versioned(e)
  <2>1. Stamp(l, e) = e
    BY <1>2 DEF Stamp
  <2>. QED BY <1>2, <2>1
<1>. QED BY <1>1, <1>2

-----------------------------------------------------------------------------
(***************************************************************************)
(* What the events say and what they rest on, in a log and in a queue.     *)
(***************************************************************************)
(* What an event shows to those right behind it. *)
Facts(e) ==
  IF e.type \in {"manifestation", "execution", "claim", "change"} THEN {<<e.type, e.id>>}
  ELSE IF e.type = "resolution" /\ e.resolution = "ACCEPTED" /\ e.kind = "HUMAN" THEN {<<"accepted", e.id>>} ELSE {}

Has(l, F, t, id)     == <<t, id>> \in F \/ Known(l, t, id)
Approved(l, F, pair) ==
  \/ <<"accepted", pair>> \in F
  \/ \E i \in DOMAIN l : l[i].type = "resolution" /\ l[i].id = pair /\ l[i].resolution = "ACCEPTED" /\ l[i].kind = "HUMAN"

IsReading(o) == o = <<o[1], o[2]>> /\ o[1] \in DOMAIN Readings /\ o[2] \in DOMAIN Readings[o[1]].says
Dated(obs)   == obs # {} /\ (\A o \in obs : Time(o) \in Nat) /\ \E n \in Nat : \A o \in obs : Time(o) <= n

(* What a pass looks at: what a watch has found, or an older state of what *)
(* has arrived.                                                            *)
Origin(l, p, m) ==
  \/ \E i \in DOMAIN l : /\ l[i].type = "fabric change" /\ l[i].failed = FALSE /\ Known(l, "manifestation", m)
                         /\ l[i].id = <<p, m>>
  \/ p = "" /\ Readings[m].historical /\ Known(l, "manifestation", m)

(* A change is of something that a pass looks at, and one that cut content *)
(* cannot show is not made of it.                                          *)
Shows(l, id) ==
  /\ Origin(l, id[1], id[2])
  /\ id[3] \in DOMAIN StateFor /\ Readings[id[2]].truncated =>
       id[3] = "SOURCE_CORRECTION" /\ Known(l, "observation", <<id[2], id[4]>>)
Lowered == {"CORRECTED", "RETRACTED", "STALE", "SUPERSEDED"}
Lowers(l, e) == e.state \in Lowered /\ Readings[e.cause[2]].truncated =>
                  e.state = "CORRECTED" /\ Known(l, "observation", <<e.cause[2], e.id>>)

(* Two publishers stand behind a hypothesis; another origin has answered.  *)
Voices(l, e) == \E i, j \in DOMAIN l :
  /\ l[i].type = "claim" /\ l[i].id \in e.linked["supporting"]
  /\ l[j].type = "claim" /\ l[j].id \in e.linked["supporting"]
  /\ \E o \in l[i].obs, p \in l[j].obs : Group(o) # Group(p)
Replied(l, e) == \E k \in Versions(l, "question", e.id), j \in DOMAIN l :
  /\ k < j /\ l[j].type = "observation"
  /\ l[j].id[2] = Questions[e.id].topic /\ Group(l[j].id) \notin e.basis
SupportIs(l, e) == e.is.status = "SUPPORTED" =>
  Voices(l, e) \/ \E j \in Versions(l, "hypothesis", e.id) : l[j].is = e.is
AnswerIs(l, e) == e.status = "SATISFIED" =>
  Replied(l, e) \/ \E j \in Versions(l, "question", e.id) : l[j].status = "SATISFIED" /\ SameBasis(l[j], e)

(* The state before was kept before the state that is found. *)
InOrder(l, F, p, m) ==
  \/ \E j \in Versions(l, "manifestation", p), k \in Versions(l, "manifestation", m) : j < k
  \/ Known(l, "manifestation", p) /\ <<"manifestation", m>> \in F

StepIs(l, F, s) ==
  /\ s = Step(s.what, s.id)
  /\ s.what = "manifestation" => s.id[1] \in DOMAIN Readings
  /\ s.what = "extract" => s.id \in DOMAIN Readings
  /\ s.what = "claim" => IsReading(s.id)
  /\ s.what \in {"target", "relate"} => s.id[2] \in DOMAIN Topics
  /\ s.what = "standing" => Has(l, F, "claim", s.id[2])
  /\ s.what = "pair" =>
       /\ s.id[1][2] \in DOMAIN Readings /\ (s.id[3] => s.id[1][1] \in DOMAIN Readings)
       /\ Origin(l, IF s.id[3] THEN s.id[1][1] ELSE "", s.id[1][2])
  /\ s.what = "discovery" => s.id[1] \in DOMAIN Readings /\ Origin(l, "", s.id[1])
  /\ s.what = "interpret" => Origin(l, s.id[1], s.id[2])
  /\ s.what = "change" => Shows(l, s.id[1])
  /\ s.what = "propagate" => s.id \in DOMAIN l /\ l[s.id].type = "change"
  /\ s.what = "recorded" => Has(l, F, "change", s.id)
  /\ s.what = "take effect" => (s.id[2] = "ACCEPTED" => IsSeq(s.id[1]) /\ Approved(l, F, s.id[1]))
  /\ s.what = "evaluate" => IsSeq(s.id)
  /\ s.what = "hypothesis" => Known(l, "hypothesis", s.id)
  /\ s.what = "account" => Known(l, "question", s.id[1][1])
  /\ s.what \in {"single", "watch"} => Truthful(s.id[3])

Unversioned == {"manifestation", "observation", "standing", "proposal", "resolution", "change", "execution",
                "run", "fabric change", "plan", "pivot", "step"}

Sound(l, F, e) ==
  /\ {"type", "id"} \subseteq DOMAIN e /\ e.type # "ensure"
  /\ e.type \in Unversioned => ~Versioned(e)
  /\ e.type = "manifestation" => e.id \in DOMAIN Readings
  /\ e.type = "observation" => IsReading(e.id)
  /\ e.type = "claim" => {"version", "value", "obs"} \subseteq DOMAIN e /\ e.version \in Nat \ {0} /\ Dated(e.obs)
  /\ e.type = "standing" => Lowers(l, e)
  /\ e.type = "relation" => "status" \in DOMAIN e /\ (e.id[1] = "SAME_AS" /\ e.status = "ACTIVE" => Approved(l, F, Tail(e.id)))
  /\ e.type = "proposal" => IsSeq(e.id)
  /\ e.type = "change" => Shows(l, e.id) /\ e.claims \subseteq {e.id[4]}
  /\ e.type = "hypothesis" => {"linked", "is"} \subseteq DOMAIN e /\ e.linked = [s \in Stances |-> e.linked[s]] /\ SupportIs(l, e)
  /\ e.type = "question" => {"status", "independent", "basis"} \subseteq DOMAIN e /\ (e.independent \/ e.basis = {}) /\ AnswerIs(l, e)
  /\ e.type = "route" => Known(l, "question", e.id[1])
  /\ e.type = "execution" => ("manifestations" \in DOMAIN e => \A m \in e.manifestations : Has(l, F, "manifestation", m))
  /\ e.type = "run" =>
       /\ Has(l, F, "execution", <<<<e.id, e.run>>, Watches[e.id].source>>)
       /\ e.body # None => Has(l, F, "manifestation", e.body) /\ e.seen = Readings[e.body].says
       /\ IsFiniteSet(DOMAIN e.records)
  /\ e.type = "fabric change" => ("class" \in DOMAIN e /\ e.class = "CONTENT_CHANGED" =>
       /\ Has(l, F, "manifestation", e.id[2])
       /\ e.id[1] # None => Readings[e.id[1]].says # Readings[e.id[2]].says /\ InOrder(l, F, e.id[1], e.id[2]))
  /\ e.type = "fabric change" =>
       /\ e.id = <<e.id[1], e.id[2]>>
       /\ e.failed = FALSE => e.id[1] \in {None, e.id[2]} \/ e.id[2] = None \/ Has(l, F, "manifestation", e.id[1])
  /\ e.type = "plan" => e.queries \in Seq(DOMAIN Queries)
  /\ e.type = "pivot" => e.id \in DOMAIN Queries
  /\ e.type = "step" => StepIs(l, F, e)

(***************************************************************************)
(* A claim is worked out on its last version, and a standing on what stood *)
(* then: on a prefix of the log that they are appended to.                 *)
(***************************************************************************)
Judged == {"claim", "standing"}

Later(now, e) == Groups(e) \subseteq Groups(now) /\ \A o \in now.obs, p \in e.obs : Time(p) > Time(o)
Fair(l, e) ==
  /\ e.type = "claim" => (Known(l, "claim", e.id) => LET now == Current(l, "claim", e.id) IN now.value = e.value \/ Later(now, e))
  /\ e.type = "standing" => (e.state # "DISPUTED" =>
       /\ Standing(l, e.id) \in Bookkeeping
       /\ IF e.state = "CURRENT" THEN Known(l, "claim", e.id) ELSE Known(l, "change", e.cause))
Founded(l, e) == \E d \in 0 .. Len(l) :
  Fair(Prefix(l, d), e) /\ (e.type = "claim" => e.version = NextOf(Prefix(l, d), "claim", e.id))

Lawful(l) ==
  /\ IsSeq(l)
  /\ \A n \in 1 .. Len(l) :
       /\ Sound(Prefix(l, n - 1), {}, l[n])
       /\ l[n].type \in Judged => Founded(Prefix(l, n - 1), l[n])
       /\ l[n].type = "claim" => l[n].version = NextOf(Prefix(l, n - 1), "claim", l[n].id)

(***************************************************************************)
(* What a command may have before it.  An event may rest on those before   *)
(* it, up to the last step; only the first may be a claim or a standing.   *)
(***************************************************************************)
Near(q, n) == UNION {Facts(q[k]) : k \in {j \in 1 .. n - 1 : \A i \in j .. n - 1 : q[i].type # "step"}}

SemanticSteps ==
  {"manifestation", "extract", "integrate", "understood", "failed", "entity", "stub", "target", "relate", "hearsay",
   "claim", "standing", "cross", "evaluate", "pair", "discovery", "interpret", "change", "propagate", "recorded",
   "take effect", "retire"}
CollectionSteps == SemanticSteps \cup {"hypothesis", "pose", "process", "account", "touched", "accounted"}
AllSteps        == CollectionSteps \cup FabricSteps

Queue(S, l, q) ==
  IsSeq(q) /\ \A n \in 1 .. Len(q) : Sound(l, Near(q, n), q[n]) /\ (q[n].type = "step" => q[n].what \in S)
Calm(S, l, q)  == Queue(S, l, q) /\ \A n \in 1 .. Len(q) : q[n].type \notin Judged
Draft(S, l, q) == Queue(S, l, q) /\ \A n \in 1 .. Len(q) : q[n].type \in Judged => n = 1 /\ Fair(l, q[1])
Owed(S, l, q)  == Queue(S, l, q) /\ \A n \in 1 .. Len(q) : q[n].type \in Judged => n = 1 /\ Founded(l, q[1])

(* Alone, a command judges what stands now, not what has stood.            *)
OnlyOne        == \A c, d \in Calls : c = d
Fresh(l, q)    == q # <<>> /\ q[1].type = "standing" => Fair(l, q[1])
AllFresh(l)    == \A n \in 1 .. Len(l) : l[n].type = "standing" => Fair(Prefix(l, n - 1), l[n])
Undisturbed(l, queues) == OnlyOne => AllFresh(l) /\ \A c \in Calls : Fresh(l, queues[c])

IInv ==
  /\ Lawful(log) /\ DOMAIN todo = Calls /\ \A c \in Calls : Owed(AllSteps, log, todo[c])
  /\ Undisturbed(log, todo)

-----------------------------------------------------------------------------
(***************************************************************************)
(* What an event rests on stays, and what was promised comes.              *)
(***************************************************************************)
Shown == {"manifestation", "execution", "claim", "change"}

(* The log m and the facts G say all that l and F do. *)
Carries(l, F, m, G) ==
  /\ IsSeq(l) /\ Extends(m, l)
  /\ \A t \in Shown : \A id : Has(l, F, t, id) => Has(m, G, t, id)
  /\ \A pair : Approved(l, F, pair) => Approved(m, G, pair)
  /\ \A p, c : InOrder(l, F, p, c) => InOrder(m, G, p, c)

LEMMA MoreCarries ==
  ASSUME NEW l, IsSeq(l), NEW m, Extends(m, l), NEW F, NEW G, F \subseteq G
  PROVE  Carries(l, F, m, G)
BY MoreVersions DEF Carries, Has, Approved, InOrder

LEMMA WrittenKnown ==
  ASSUME NEW l, IsSeq(l), NEW x
  PROVE  /\ Len(l) + 1 \in Versions(Append(l, x), x.type, x.id)
         /\ Len(l) + 1 \in DOMAIN Append(l, x) /\ Append(l, x)[Len(l) + 1] = x
         /\ Known(Append(l, x), x.type, x.id)
<1>1. Len(l) \in Nat /\ DOMAIN Append(l, x) = 1 .. Len(l) + 1 /\ Append(l, x)[Len(l) + 1] = x
  BY Appended, SeqFacts
<1>. QED BY <1>1 DEF Known, Versions

LEMMA WrittenCarries ==
  ASSUME NEW l, IsSeq(l), NEW x, NEW F
  PROVE  Carries(l, F \cup Facts(x), Append(l, x), F)
<1> DEFINE m == Append(l, x)
<1>1. Extends(m, l)
  BY AppendExtends
<1>2. Len(l) + 1 \in Versions(m, x.type, x.id) /\ Known(m, x.type, x.id) /\ Len(l) + 1 \in DOMAIN m /\ m[Len(l) + 1] = x
  BY WrittenKnown
<1>3. DOMAIN l = 1 .. Len(l) /\ Len(l) \in Nat
  BY SeqFacts
<1> HIDE DEF m
<1>4. ASSUME NEW t \in Shown, NEW id, Has(l, F \cup Facts(x), t, id) PROVE Has(m, F, t, id)
  <2>1. CASE <<t, id>> \in Facts(x)
    <3>1. x.type = t /\ x.id = id
      BY <2>1 DEF Facts, Shown
    <3>. QED BY <1>2, <3>1 DEF Has
  <2>2. CASE <<t, id>> \notin Facts(x)
    BY <1>1, <1>4, <2>2, MoreVersions DEF Has
  <2>. QED BY <2>1, <2>2
<1>5. ASSUME NEW pair, Approved(l, F \cup Facts(x), pair) PROVE Approved(m, F, pair)
  <2>1. CASE <<"accepted", pair>> \in Facts(x)
    <3>1. x.type = "resolution" /\ x.id = pair /\ x.resolution = "ACCEPTED" /\ x.kind = "HUMAN"
      BY <2>1 DEF Facts
    <3>. QED BY <1>2, <3>1 DEF Approved
  <2>2. CASE <<"accepted", pair>> \notin Facts(x)
    BY <1>1, <1>5, <2>2, MoreVersions DEF Approved
  <2>. QED BY <2>1, <2>2
<1>6. ASSUME NEW p, NEW c, InOrder(l, F \cup Facts(x), p, c) PROVE InOrder(m, F, p, c)
  <2>1. CASE Known(l, "manifestation", p) /\ <<"manifestation", c>> \in Facts(x)
    <3>1. x.type = "manifestation" /\ x.id = c
      BY <2>1 DEF Facts
    <3>2. PICK j \in Versions(l, "manifestation", p) : TRUE
      BY <2>1 DEF Known
    <3>3. j < Len(l) + 1 /\ j \in Versions(m, "manifestation", p)
      BY <1>1, <1>3, MoreVersions DEF Versions
    <3>. QED BY <1>2, <3>1, <3>3 DEF InOrder
  <2>2. CASE ~(Known(l, "manifestation", p) /\ <<"manifestation", c>> \in Facts(x))
    BY <1>1, <1>6, <2>2, MoreVersions DEF InOrder
  <2>. QED BY <2>1, <2>2
<1>7. Carries(l, F \cup Facts(x), m, F)
  BY <1>1, <1>4, <1>5, <1>6 DEF Carries
<1>. QED BY <1>7 DEF m

LEMMA ShowsMore ==
  ASSUME NEW l, IsSeq(l), NEW m, Extends(m, l)
  PROVE  /\ \A id : Shows(l, id) => Shows(m, id)
         /\ \A e : Lowers(l, e) => Lowers(m, e)
         /\ \A e : SupportIs(l, e) => SupportIs(m, e)
         /\ \A e : AnswerIs(l, e) => AnswerIs(m, e)
         /\ \A p, c : Origin(l, p, c) => Origin(m, p, c)
<1>1. /\ DOMAIN l \subseteq DOMAIN m /\ \A i \in DOMAIN l : m[i] = l[i]
      /\ \A t, id : Versions(l, t, id) \subseteq Versions(m, t, id)
      /\ \A t, id : \A i \in Versions(l, t, id) : m[i] = l[i]
      /\ \A t, id : Known(l, t, id) => Known(m, t, id)
  BY MoreVersions
<1>0. \A p, c : Origin(l, p, c) => Origin(m, p, c)
  BY <1>1, Zenon DEF Origin
<1>2. \A e : Voices(l, e) => Voices(m, e)
  BY <1>1 DEF Voices
<1>3. \A e : Replied(l, e) => Replied(m, e)
  BY <1>1 DEF Replied
<1>4. ASSUME NEW e, SupportIs(l, e) PROVE SupportIs(m, e)
  BY <1>1, <1>2, <1>4 DEF SupportIs
<1>5. ASSUME NEW e, AnswerIs(l, e) PROVE AnswerIs(m, e)
  BY <1>1, <1>3, <1>5 DEF AnswerIs
<1>. QED BY <1>0, <1>1, <1>4, <1>5 DEF Shows, Lowers

LEMMA SoundCarried ==
  ASSUME NEW l, NEW F, NEW m, NEW G, Carries(l, F, m, G), NEW e, Sound(l, F, e)
  PROVE  Sound(m, G, e)
<1>1. IsSeq(l) /\ Extends(m, l) /\ \A t, id : Known(l, t, id) => Known(m, t, id)
  BY MoreVersions DEF Carries
<1>2. /\ \A id : Shows(l, id) => Shows(m, id)
      /\ \A x : Lowers(l, x) => Lowers(m, x)
      /\ \A x : SupportIs(l, x) => SupportIs(m, x)
      /\ \A x : AnswerIs(l, x) => AnswerIs(m, x)
      /\ \A p, c : Origin(l, p, c) => Origin(m, p, c)
      /\ DOMAIN l \subseteq DOMAIN m /\ \A i \in DOMAIN l : m[i] = l[i]
  BY <1>1, ShowsMore, MoreVersions
<1>3. /\ \A t \in Shown : \A id : Has(l, F, t, id) => Has(m, G, t, id)
      /\ \A pair : Approved(l, F, pair) => Approved(m, G, pair)
      /\ \A p, c : InOrder(l, F, p, c) => InOrder(m, G, p, c)
  BY DEF Carries
<1>4. ASSUME StepIs(l, F, e) PROVE StepIs(m, G, e)
  BY <1>1, <1>2, <1>3, <1>4, Zenon DEF StepIs, Shown
<1>5. CASE e.type = "step"
  BY <1>4, <1>5 DEF Sound
<1>6. CASE e.type \in {"execution", "run", "fabric change"}
  BY <1>3, <1>6, Zenon DEF Sound, Shown
<1>7. CASE e.type \notin {"step", "execution", "run", "fabric change"}
  BY <1>1, <1>2, <1>3, <1>7, Zenon DEF Sound
<1>. QED BY <1>5, <1>6, <1>7, Zenon

LEMMA SoundMore ==
  ASSUME NEW l, IsSeq(l), NEW m, Extends(m, l), NEW F, NEW G, F \subseteq G, NEW e, Sound(l, F, e)
  PROVE  Sound(m, G, e)
BY MoreCarries, SoundCarried

LEMMA SoundSame ==
  ASSUME NEW l, IsSeq(l), NEW F, NEW G, F \subseteq G, NEW e, Sound(l, F, e)
  PROVE  Sound(l, G, e)
BY SoundMore, AppendExtends

LEMMA SoundWritten ==
  ASSUME NEW l, IsSeq(l), NEW x, NEW F, NEW e, Sound(l, F \cup Facts(x), e)
  PROVE  Sound(Append(l, x), F, e)
BY WrittenCarries, SoundCarried

(* A stamp changes nothing but the version. *)
LEMMA SoundStamped ==
  ASSUME NEW l, IsSeq(l), NEW F, NEW e, Sound(l, F, e)
  PROVE  /\ Sound(l, F, Stamp(l, e)) /\ Facts(Stamp(l, e)) = Facts(e)
         /\ Stamp(l, e).type = e.type /\ Stamp(l, e).id = e.id
         /\ e.type \in Unversioned => Stamp(l, e) = e
<1> DEFINE s == Stamp(l, e)
<1>1. {"type", "id"} \subseteq DOMAIN e /\ e.type # "ensure" /\ (e.type \in Unversioned => ~Versioned(e))
  BY Zenon DEF Sound
<1>2. /\ DOMAIN s = DOMAIN e /\ \A f \in DOMAIN e \ {"version"} : s[f] = e[f]
      /\ ~Versioned(e) => s = e
      /\ Versioned(e) => s.version = IF e.version = 0 THEN 1 ELSE NextVersion(l, e)
  BY <1>1, StampKeeps
<1> HIDE DEF s
<1>3. s.type = e.type /\ s.id = e.id
  BY <1>1, <1>2
<1>4. CASE e.type \in Unversioned
  BY <1>1, <1>2, <1>3, <1>4 DEF s
<1>5. CASE e.type \notin Unversioned
  <2>1. Facts(s) = Facts(e)
    <3>1. CASE e.type = "claim"
      BY <1>3, <3>1 DEF Facts
    <3>2. CASE e.type # "claim"
      BY <1>3, <1>5, <3>2, Zenon DEF Facts, Unversioned
    <3>. QED BY <3>1, <3>2
  <2>2. CASE e.type = "claim"
    <3>1. {"version", "value", "obs"} \subseteq DOMAIN e /\ Dated(e.obs) /\ e.version \in Nat \ {0}
      BY <2>2 DEF Sound
    <3>2. s.obs = e.obs /\ s.version = NextVersion(l, e)
      BY <1>2, <3>1 DEF Versioned
    <3>3. NextVersion(l, e) \in Nat \ {0}
      BY VersionsFacts DEF NextVersion
    <3>4. Sound(l, F, s)
      BY <1>1, <1>2, <1>3, <2>2, <3>1, <3>2, <3>3 DEF Sound, Unversioned
    <3>. QED BY <1>3, <1>5, <2>1, <3>4 DEF s
  <2>3. CASE e.type = "relation"
    <3>1. "status" \in DOMAIN e /\ s.status = e.status
      BY <1>2, <2>3 DEF Sound
    <3>2. Sound(l, F, s)
      BY <1>1, <1>2, <1>3, <2>3, <3>1 DEF Sound, Unversioned
    <3>. QED BY <1>3, <1>5, <2>1, <3>2 DEF s
  <2>4. CASE e.type = "hypothesis"
    <3>1. {"linked", "is"} \subseteq DOMAIN e /\ s.linked = e.linked /\ s.is = e.is
      BY <1>2, <2>4 DEF Sound
    <3>2. SupportIs(l, e) => SupportIs(l, s)
      BY <1>3, <3>1 DEF SupportIs, Voices
    <3>3. Sound(l, F, s)
      BY <1>1, <1>2, <1>3, <2>4, <3>1, <3>2 DEF Sound, Unversioned
    <3>. QED BY <1>3, <1>5, <2>1, <3>3 DEF s
  <2>5. CASE e.type = "question"
    <3>1. {"status", "independent", "basis"} \subseteq DOMAIN e /\ s.status = e.status /\ s.independent = e.independent /\ s.basis = e.basis
      BY <1>2, <2>5 DEF Sound
    <3>2. AnswerIs(l, e) => AnswerIs(l, s)
      BY <1>3, <3>1 DEF AnswerIs, Replied, SameBasis
    <3>3. Sound(l, F, s)
      BY <1>1, <1>2, <1>3, <2>5, <3>1, <3>2 DEF Sound, Unversioned
    <3>. QED BY <1>3, <1>5, <2>1, <3>3 DEF s
  <2>6. CASE e.type \notin {"claim", "relation", "hypothesis", "question"}
    <3>1. Sound(l, F, s)
      BY <1>1, <1>2, <1>3, <1>5, <2>6, Zenon DEF Sound, Unversioned
    <3>. QED BY <1>3, <1>5, <2>1, <3>1 DEF s
  <2>. QED BY <2>2, <2>3, <2>4, <2>5, <2>6
<1>. QED BY <1>4, <1>5

-----------------------------------------------------------------------------
(***************************************************************************)
(* Queues of events.                                                       *)
(***************************************************************************)
LEMMA NearIs ==
  ASSUME NEW q, NEW n, NEW f
  PROVE  f \in Near(q, n) <=> \E k \in 1 .. n - 1 : f \in Facts(q[k]) /\ \A i \in k .. n - 1 : q[i].type # "step"
BY DEF Near

LEMMA NearFirst ==
  ASSUME NEW q
  PROVE  Near(q, 1) = {}
BY DEF Near

LEMMA CalmNone ==
  ASSUME NEW S, NEW l
  PROVE  Calm(S, l, <<>>)
<1>1. IsSeq(<<>>) /\ Len(<<>>) = 0
  BY EmptySeq, AnySeq
<1>. QED BY <1>1 DEF Calm, Queue

(* Events that rest on nothing near by. *)
Loose(S, l, e) == Sound(l, {}, e) /\ e.type \notin Judged /\ (e.type = "step" => e.what \in S)

LEMMA LooseCalm ==
  ASSUME NEW S, NEW l, IsSeq(l), NEW q, IsSeq(q), \A n \in DOMAIN q : Loose(S, l, q[n])
  PROVE  Calm(S, l, q)
<1>1. DOMAIN q = 1 .. Len(q)
  BY SeqFacts
<1>2. ASSUME NEW n \in 1 .. Len(q) PROVE Sound(l, Near(q, n), q[n]) /\ q[n].type \notin Judged /\ (q[n].type = "step" => q[n].what \in S)
  BY <1>1, SoundSame DEF Loose
<1>. QED BY <1>2 DEF Calm, Queue

LEMMA OneQueued ==
  ASSUME NEW S, NEW l, NEW e, Sound(l, {}, e), e.type = "step" => e.what \in S
  PROVE  Queue(S, l, <<e>>)
<1> DEFINE q == <<e>>
<1>1. IsSeq(q) /\ Len(q) = 1 /\ q[1] = e
  BY Single
<1> HIDE DEF q
<1>2. \A n \in 1 .. Len(q) : n = 1
  BY <1>1
<1>3. Queue(S, l, q)
  BY <1>1, <1>2, NearFirst DEF Queue
<1>. QED BY <1>3 DEF q

LEMMA CalmOne ==
  ASSUME NEW S, NEW l, NEW e, Loose(S, l, e)
  PROVE  Calm(S, l, <<e>>)
<1>1. Queue(S, l, <<e>>)
  BY OneQueued DEF Loose
<1> DEFINE q == <<e>>
<1>2. Len(q) = 1 /\ q[1] = e
  OBVIOUS
<1> HIDE DEF q
<1>3. \A n \in 1 .. Len(q) : n = 1
  BY <1>2
<1>4. Calm(S, l, q)
  BY <1>1, <1>2, <1>3 DEF Calm, Loose, q
<1>. QED BY <1>4 DEF q

(* An event rests on what is near in a part, and so it does in the whole.  *)
LEMMA NearInFront ==
  ASSUME NEW a, IsSeq(a), NEW b, IsSeq(b), NEW n \in 1 .. Len(a)
  PROVE  Near(a, n) \subseteq Near(a \o b, n)
<1>1. Len(a) \in Nat /\ \A k \in 1 .. Len(a) : (a \o b)[k] = a[k]
  BY SeqFacts, Concatenated
<1> DEFINE w == a \o b
<1> HIDE DEF w
<1>2. ASSUME NEW f \in Near(a, n) PROVE f \in Near(w, n)
  <2>1. PICK k \in 1 .. n - 1 : f \in Facts(a[k]) /\ \A i \in k .. n - 1 : a[i].type # "step"
    BY NearIs
  <2>2. \A i \in k .. n - 1 : w[i] = a[i]
    BY <1>1 DEF w
  <2>3. w[k] = a[k]
    BY <1>1 DEF w
  <2>4. f \in Facts(w[k]) /\ \A i \in k .. n - 1 : w[i].type # "step"
    BY <2>1, <2>2, <2>3
  <2>. QED BY <2>4, NearIs
<1>. QED BY <1>2 DEF w

LEMMA NearBehind ==
  ASSUME NEW a, IsSeq(a), NEW b, IsSeq(b), NEW n \in 1 .. Len(b)
  PROVE  /\ Near(b, n) \subseteq Near(a \o b, Len(a) + n)
         /\ (\A k \in 1 .. Len(a) : a[k].type # "step") /\ (\A k \in 1 .. n - 1 : b[k].type # "step")
              => \A k \in 1 .. Len(a) : Facts(a[k]) \subseteq Near(a \o b, Len(a) + n)
<1> DEFINE w == a \o b
<1>1. /\ Len(a) \in Nat /\ Len(b) \in Nat
      /\ \A k \in 1 .. Len(a) : w[k] = a[k]
      /\ \A k \in 1 .. Len(b) : w[Len(a) + k] = b[k]
  BY SeqFacts, Concatenated
<1> HIDE DEF w
<1>0. \A j \in 1 .. Len(a) + n - 1 : j \in 1 .. Len(a) \/ (j - Len(a) \in 1 .. n - 1 /\ w[j] = b[j - Len(a)])
  <2>1. ASSUME NEW j \in 1 .. Len(a) + n - 1, j \notin 1 .. Len(a) PROVE j - Len(a) \in 1 .. n - 1 /\ w[j] = b[j - Len(a)]
    <3>1. j - Len(a) \in 1 .. n - 1 /\ Len(a) + (j - Len(a)) = j /\ j - Len(a) \in 1 .. Len(b)
      BY <1>1, <2>1
    <3>. QED BY <1>1, <3>1
  <2>. QED BY <2>1
<1>2. ASSUME NEW f \in Near(b, n) PROVE f \in Near(w, Len(a) + n)
  <2>1. PICK k \in 1 .. n - 1 : f \in Facts(b[k]) /\ \A i \in k .. n - 1 : b[i].type # "step"
    BY NearIs
  <2>2. Len(a) + k \in 1 .. Len(a) + n - 1 /\ w[Len(a) + k] = b[k]
    BY <1>1
  <2>3. ASSUME NEW j \in Len(a) + k .. Len(a) + n - 1 PROVE w[j].type # "step"
    <3>1. j \in 1 .. Len(a) + n - 1 /\ j \notin 1 .. Len(a) /\ j - Len(a) \in k .. n - 1
      BY <1>1
    <3>2. w[j] = b[j - Len(a)]
      BY <1>0, <3>1
    <3>. QED BY <2>1, <3>1, <3>2
  <2>. QED BY <2>1, <2>2, <2>3, NearIs
<1>3. ASSUME \A k \in 1 .. Len(a) : a[k].type # "step", \A k \in 1 .. n - 1 : b[k].type # "step",
             NEW k \in 1 .. Len(a), NEW f \in Facts(a[k])
      PROVE  f \in Near(w, Len(a) + n)
  <2>1. k \in 1 .. Len(a) + n - 1 /\ w[k] = a[k]
    BY <1>1
  <2>2. ASSUME NEW j \in k .. Len(a) + n - 1 PROVE w[j].type # "step"
    <3>1. j \in 1 .. Len(a) + n - 1
      BY <1>1
    <3>2. CASE j \in 1 .. Len(a)
      BY <1>1, <1>3, <3>2
    <3>3. CASE j \notin 1 .. Len(a)
      BY <1>0, <1>3, <3>1, <3>3
    <3>. QED BY <3>2, <3>3
  <2>. QED BY <1>3, <2>1, <2>2, NearIs
<1>. QED BY <1>2, <1>3 DEF w

LEMMA QueueJoined ==
  ASSUME NEW S, NEW l, IsSeq(l), NEW a, Queue(S, l, a), NEW b, Queue(S, l, b)
  PROVE  Queue(S, l, a \o b)
<1> DEFINE w == a \o b
<1>1. IsSeq(a) /\ IsSeq(b)
  BY DEF Queue
<1>2. /\ Len(a) \in Nat /\ Len(b) \in Nat /\ IsSeq(w) /\ Len(w) = Len(a) + Len(b)
      /\ \A k \in 1 .. Len(a) : w[k] = a[k]
      /\ \A k \in 1 .. Len(b) : w[Len(a) + k] = b[k]
  BY <1>1, SeqFacts, Concatenated
<1>3. /\ \A n \in 1 .. Len(a) : Near(a, n) \subseteq Near(w, n)
      /\ \A n \in 1 .. Len(b) : Near(b, n) \subseteq Near(w, Len(a) + n)
  BY <1>1, NearInFront, NearBehind
<1> HIDE DEF w
<1>4. ASSUME NEW n \in 1 .. Len(w) PROVE Sound(l, Near(w, n), w[n]) /\ (w[n].type = "step" => w[n].what \in S)
  <2>1. CASE n \in 1 .. Len(a)
    <3>1. Sound(l, Near(a, n), a[n]) /\ (a[n].type = "step" => a[n].what \in S)
      BY <2>1 DEF Queue
    <3>. QED BY <1>2, <1>3, <2>1, <3>1, SoundSame
  <2>2. CASE n \notin 1 .. Len(a)
    <3>1. PICK k \in 1 .. Len(b) : n = Len(a) + k
      <4>1. n - Len(a) \in 1 .. Len(b) /\ n = Len(a) + (n - Len(a))
        BY <1>2, <2>2
      <4>. QED BY <4>1
    <3>2. Sound(l, Near(b, k), b[k]) /\ (b[k].type = "step" => b[k].what \in S)
      BY DEF Queue
    <3>. QED BY <1>2, <1>3, <3>1, <3>2, SoundSame
  <2>. QED BY <2>1, <2>2
<1>5. Queue(S, l, w)
  BY <1>2, <1>4 DEF Queue
<1>. QED BY <1>5 DEF w

(* What follows may rest on what stands before it, up to its first step.   *)
LEMMA Chained ==
  ASSUME NEW S, NEW l, IsSeq(l), NEW F, NEW a, Queue(S, l, a), \A k \in 1 .. Len(a) : a[k].type # "step",
         \A f \in F : \E k \in 1 .. Len(a) : f \in Facts(a[k]),
         NEW b, IsSeq(b), \A n \in 1 .. Len(b) : Sound(l, F, b[n]) /\ (b[n].type = "step" => n = Len(b) /\ b[n].what \in S)
  PROVE  Queue(S, l, a \o b)
<1> DEFINE w == a \o b
<1>1. IsSeq(a) /\ IsSeq(b)
  BY DEF Queue
<1>2. /\ Len(a) \in Nat /\ Len(b) \in Nat /\ IsSeq(w) /\ Len(w) = Len(a) + Len(b)
      /\ \A k \in 1 .. Len(a) : w[k] = a[k]
      /\ \A k \in 1 .. Len(b) : w[Len(a) + k] = b[k]
  BY <1>1, SeqFacts, Concatenated
<1>3. \A n \in 1 .. Len(a) : Near(a, n) \subseteq Near(w, n)
  BY <1>1, NearInFront
<1>4. ASSUME NEW n \in 1 .. Len(b) PROVE F \subseteq Near(w, Len(a) + n)
  <2>1. \A k \in 1 .. n - 1 : b[k].type # "step"
    BY <1>2
  <2>2. \A k \in 1 .. Len(a) : Facts(a[k]) \subseteq Near(w, Len(a) + n)
    BY <1>1, <2>1, NearBehind
  <2>. QED BY <2>2
<1> HIDE DEF w
<1>5. ASSUME NEW n \in 1 .. Len(w) PROVE Sound(l, Near(w, n), w[n]) /\ (w[n].type = "step" => w[n].what \in S)
  <2>1. CASE n \in 1 .. Len(a)
    <3>1. Sound(l, Near(a, n), a[n]) /\ (a[n].type = "step" => a[n].what \in S)
      BY <2>1 DEF Queue
    <3>. QED BY <1>2, <1>3, <2>1, <3>1, SoundSame
  <2>2. CASE n \notin 1 .. Len(a)
    <3>1. PICK k \in 1 .. Len(b) : n = Len(a) + k
      <4>1. n - Len(a) \in 1 .. Len(b) /\ n = Len(a) + (n - Len(a))
        BY <1>2, <2>2
      <4>. QED BY <4>1
    <3>. QED BY <1>2, <1>4, <3>1, SoundSame
  <2>. QED BY <2>1, <2>2
<1>6. Queue(S, l, w)
  BY <1>2, <1>5 DEF Queue
<1>. QED BY <1>6 DEF w

LEMMA CalmJoined ==
  ASSUME NEW S, NEW l, IsSeq(l), NEW a, Calm(S, l, a), NEW b, Calm(S, l, b)
  PROVE  Calm(S, l, a \o b)
<1> DEFINE w == a \o b
<1>1. Queue(S, l, w) /\ IsSeq(a) /\ IsSeq(b)
  BY QueueJoined DEF Calm, Queue
<1>2. \A n \in 1 .. Len(w) : w[n].type \notin Judged
  <2>1. /\ Len(a) \in Nat /\ Len(b) \in Nat /\ Len(w) = Len(a) + Len(b)
        /\ \A k \in 1 .. Len(a) : w[k] = a[k]
        /\ \A k \in 1 .. Len(b) : w[Len(a) + k] = b[k]
    BY <1>1, SeqFacts, Concatenated
  <2> HIDE DEF w
  <2>2. ASSUME NEW n \in 1 .. Len(w), n \notin 1 .. Len(a) PROVE \E k \in 1 .. Len(b) : w[n] = b[k]
    <3>1. n - Len(a) \in 1 .. Len(b) /\ n = Len(a) + (n - Len(a))
      BY <2>1, <2>2
    <3>. QED BY <2>1, <3>1
  <2>. QED BY <2>1, <2>2 DEF Calm
<1>. QED BY <1>1, <1>2 DEF Calm

LEMMA DraftJoined ==
  ASSUME NEW S, NEW l, IsSeq(l), NEW a, Draft(S, l, a), NEW b, Calm(S, l, b)
  PROVE  Draft(S, l, a \o b)
<1> DEFINE w == a \o b
<1>1. Queue(S, l, w) /\ IsSeq(a) /\ IsSeq(b)
  BY QueueJoined DEF Calm, Draft, Queue
<1>2. ASSUME NEW n \in 1 .. Len(w), w[n].type \in Judged PROVE n = 1 /\ Fair(l, w[1])
  <2>1. /\ Len(a) \in Nat /\ Len(b) \in Nat /\ Len(w) = Len(a) + Len(b)
        /\ \A k \in 1 .. Len(a) : w[k] = a[k]
        /\ \A k \in 1 .. Len(b) : w[Len(a) + k] = b[k]
    BY <1>1, SeqFacts, Concatenated
  <2> HIDE DEF w
  <2>2. CASE n \in 1 .. Len(a)
    <3>1. n = 1 /\ Fair(l, a[1])
      BY <1>2, <2>1, <2>2 DEF Draft
    <3>. QED BY <2>1, <2>2, <3>1
  <2>3. CASE n \notin 1 .. Len(a)
    <3>1. n - Len(a) \in 1 .. Len(b) /\ n = Len(a) + (n - Len(a))
      BY <2>1, <2>3
    <3>. QED BY <1>2, <2>1, <3>1 DEF Calm
  <2>. QED BY <2>2, <2>3
<1>. QED BY <1>1, <1>2 DEF Draft

LEMMA CalmDraft ==
  ASSUME NEW S, NEW l, NEW q, Calm(S, l, q)
  PROVE  Draft(S, l, q) /\ Owed(S, l, q)
BY DEF Calm, Draft, Owed

(* One more step name does no harm. *)
LEMMA MoreNames ==
  ASSUME NEW S, NEW T, S \subseteq T, NEW l, NEW q, Owed(S, l, q)
  PROVE  Owed(T, l, q)
BY DEF Owed, Queue

-----------------------------------------------------------------------------
(***************************************************************************)
(* Settling a draft, taking off what stands first, a longer log.           *)
(***************************************************************************)
Kept1 == {"manifestation", "execution", "claim", "change", "resolution", "standing", "step"}

LEMMA NotSuperfluous ==
  ASSUME NEW l, NEW e, e.type \in Kept1
  PROVE  ~Superfluous(l, e)
<1>1. e.type # "transition" /\ e.type # "ensure" /\ e.type # "item" /\ e.type # "alert"
  BY DEF Kept1
<1>. QED BY <1>1 DEF Superfluous

LEMMA FactsKept ==
  ASSUME NEW e, NEW f \in Facts(e)
  PROVE  e.type \in Kept1
BY DEF Facts, Kept1

LEMMA StampedFair ==
  ASSUME NEW l, IsSeq(l), NEW F, NEW e, Sound(l, F, e), e.type \in Judged, Fair(l, e)
  PROVE  Founded(l, Stamp(l, e))
<1> DEFINE s == Stamp(l, e)
<1>1. s.type = e.type /\ s.id = e.id /\ (e.type \in Unversioned => s = e)
  BY SoundStamped
<1>2. Prefix(l, Len(l)) = l /\ Len(l) \in 0 .. Len(l)
  BY PrefixWhole, SeqFacts
<1>3. CASE e.type = "standing"
  <2>1. s = e
    BY <1>1, <1>3 DEF Unversioned
  <2>. QED BY <1>2, <1>3, <2>1 DEF Founded
<1>4. CASE e.type = "claim"
  <2>1. {"type", "id", "version", "value", "obs"} \subseteq DOMAIN e /\ e.version \in Nat \ {0}
    BY <1>4 DEF Sound
  <2>2. s.value = e.value /\ s.obs = e.obs /\ s.version = NextVersion(l, e)
    BY <1>4, <2>1, StampKeeps DEF Versioned
  <2>3. s.version = NextOf(l, "claim", s.id)
    BY <1>1, <1>4, <2>2 DEF NextVersion, NextOf
  <2> HIDE DEF s
  <2>4. \A c : Later(c, e) => Later(c, s)
    BY <2>2 DEF Later, Groups
  <2>5. Fair(l, s)
    BY <1>1, <1>4, <2>2, <2>4 DEF Fair
  <2>6. Founded(l, s)
    BY <1>2, <2>3, <2>5 DEF Founded
  <2>. QED BY <2>6 DEF s
<1>. QED BY <1>3, <1>4 DEF Judged

LEMMA NearStays ==
  ASSUME NEW l, NEW d, IsSeq(d), NEW q, NEW h, Left(l, d, q, h), NEW n \in 1 .. Len(q),
         \A k \in 1 .. Len(d) : Facts(Stamp(l, d[k])) = Facts(d[k]) /\ Stamp(l, d[k]).type = d[k].type
  PROVE  Near(d, h[n]) \subseteq Near(q, n)
<1>1. /\ Len(q) \in Nat /\ Len(d) \in Nat
      /\ \A i \in 1 .. Len(q) : h[i] \in 1 .. Len(d)
      /\ \A i \in 1 .. Len(q) : q[i] = IF i = 1 THEN Stamp(l, d[h[i]]) ELSE d[h[i]]
      /\ \A i, k \in 1 .. Len(q) : h[i] < h[k] => i < k
      /\ \A i, k \in 1 .. Len(q) : i < k => h[i] < h[k]
  <2>1. \A i, k \in 1 .. Len(q) : i < k => h[i] < h[k]
    BY DEF Left
  <2>2. /\ IsSeq(q) /\ Len(q) \in Nat /\ Len(d) \in Nat
        /\ \A i \in 1 .. Len(q) : h[i] \in 1 .. Len(d) /\ ~Superfluous(l, d[h[i]])
        /\ \A i \in 1 .. Len(q) : q[i] = IF i = 1 THEN Stamp(l, d[h[i]]) ELSE d[h[i]]
        /\ \A i, k \in 1 .. Len(q) : h[i] < h[k] => i < k
        /\ \A i \in 2 .. Len(q) : h[i] >= 2
    BY LeftFacts
  <2>. QED BY <2>1, <2>2
<1>2. SUFFICES ASSUME NEW f \in Near(d, h[n]) PROVE f \in Near(q, n)
  OBVIOUS
<1>3. PICK k \in 1 .. h[n] - 1 : f \in Facts(d[k]) /\ \A i \in k .. h[n] - 1 : d[i].type # "step"
  BY NearIs
<1>4. k \in 1 .. Len(d) /\ k < h[n]
  BY <1>1
<1>5. ~Superfluous(l, d[k])
  BY <1>3, FactsKept, NotSuperfluous
<1>6. PICK j \in 1 .. Len(q) : h[j] = k
  BY <1>4, <1>5 DEF Left
<1>7. j \in 1 .. n - 1
  BY <1>1, <1>4, <1>6
<1>8. f \in Facts(q[j])
  BY <1>1, <1>3, <1>4, <1>6
<1>9. ASSUME NEW i \in j .. n - 1 PROVE q[i].type # "step"
  <2>1. i \in 1 .. Len(q) /\ i < n /\ (i = j \/ j < i)
    BY <1>1, <1>7
  <2>2. h[i] < h[n] /\ (h[i] = k \/ k < h[i]) /\ h[i] \in 1 .. Len(d)
    BY <1>1, <1>6, <2>1
  <2>3. h[i] \in k .. h[n] - 1
    BY <1>1, <1>4, <2>2
  <2>4. d[h[i]].type # "step"
    BY <1>3, <2>3
  <2>. QED BY <1>1, <2>1, <2>2, <2>4
<1>. QED BY <1>7, <1>8, <1>9, NearIs

LEMMA SettleOwed ==
  ASSUME NEW S, NEW l, IsSeq(l), NEW d, Draft(S, l, d)
  PROVE  Owed(S, l, Settle(l, d)) /\ Fresh(l, Settle(l, d))
<1>1. IsSeq(d)
  BY DEF Draft, Queue
<1>2. PICK h : Left(l, d, Settle(l, d), h)
  BY <1>1, SettleLeaves
<1> DEFINE q == Settle(l, d)
<1>3. Left(l, d, q, h)
  BY <1>2
<1> HIDE DEF q
<1>4. /\ IsSeq(q) /\ Len(q) \in Nat /\ Len(d) \in Nat
      /\ \A n \in 1 .. Len(q) : h[n] \in 1 .. Len(d)
      /\ \A n \in 1 .. Len(q) : q[n] = IF n = 1 THEN Stamp(l, d[h[n]]) ELSE d[h[n]]
      /\ \A n \in 2 .. Len(q) : h[n] >= 2
  <2>1. /\ IsSeq(q) /\ Len(q) \in Nat /\ Len(d) \in Nat
        /\ \A n \in 1 .. Len(q) : h[n] \in 1 .. Len(d) /\ ~Superfluous(l, d[h[n]])
        /\ \A n \in 1 .. Len(q) : q[n] = IF n = 1 THEN Stamp(l, d[h[n]]) ELSE d[h[n]]
        /\ \A n, k \in 1 .. Len(q) : h[n] < h[k] => n < k
        /\ \A n \in 2 .. Len(q) : h[n] >= 2
    BY <1>1, <1>3, LeftFacts
  <2>. QED BY <2>1
<1>5. \A k \in 1 .. Len(d) : Sound(l, Near(d, k), d[k]) /\ (d[k].type = "step" => d[k].what \in S)
  BY DEF Draft, Queue
<1>6. ASSUME NEW k \in 1 .. Len(d)
      PROVE  /\ Facts(Stamp(l, d[k])) = Facts(d[k]) /\ Stamp(l, d[k]).type = d[k].type
             /\ Sound(l, Near(d, k), Stamp(l, d[k]))
             /\ d[k].type = "step" => Stamp(l, d[k]) = d[k]
  <2>1. Sound(l, Near(d, k), d[k])
    BY <1>5
  <2>2. /\ Sound(l, Near(d, k), Stamp(l, d[k])) /\ Facts(Stamp(l, d[k])) = Facts(d[k])
        /\ Stamp(l, d[k]).type = d[k].type /\ Stamp(l, d[k]).id = d[k].id
        /\ d[k].type \in Unversioned => Stamp(l, d[k]) = d[k]
    BY <2>1, SoundStamped
  <2>. QED BY <2>2, Zenon DEF Unversioned
<1>7. \A n \in 1 .. Len(q) : Near(d, h[n]) \subseteq Near(q, n)
  BY <1>1, <1>3, <1>6, NearStays
<1>8. ASSUME NEW n \in 1 .. Len(q)
      PROVE  Sound(l, Near(q, n), q[n]) /\ (q[n].type = "step" => q[n].what \in S)
  <2>1. Sound(l, Near(d, h[n]), q[n])
    BY <1>4, <1>5, <1>6
  <2>2. Sound(l, Near(q, n), q[n])
    BY <1>7, <2>1, SoundSame
  <2>. QED BY <1>4, <1>5, <1>6, <2>2
<1>9. ASSUME NEW n \in 1 .. Len(q), q[n].type \in Judged
      PROVE  n = 1 /\ Founded(l, q[1]) /\ (q[1].type = "standing" => Fair(l, q[1]))
  <2>1. d[h[n]].type \in Judged /\ h[n] \in 1 .. Len(d)
    BY <1>4, <1>6, <1>9
  <2>2. h[n] = 1 /\ Fair(l, d[1])
    BY <2>1 DEF Draft
  <2>3. n = 1
    BY <1>4, <2>2
  <2>4. q[1] = Stamp(l, d[1]) /\ 1 \in 1 .. Len(d) /\ d[1].type \in Judged
    BY <1>4, <2>1, <2>2, <2>3
  <2>5. Founded(l, q[1])
    BY <1>5, <2>2, <2>4, StampedFair
  <2>6. ASSUME q[1].type = "standing" PROVE q[1] = d[1]
    <3>1. Sound(l, Near(d, 1), d[1])
      BY <1>5, <2>4
    <3>2. Stamp(l, d[1]).type = d[1].type /\ (d[1].type \in Unversioned => Stamp(l, d[1]) = d[1])
      BY <3>1, SoundStamped
    <3>. QED BY <2>4, <2>6, <3>2, Zenon DEF Unversioned
  <2>. QED BY <2>2, <2>3, <2>5, <2>6
<1>10. Owed(S, l, q)
  BY <1>4, <1>8, <1>9 DEF Owed, Queue
<1>11. Fresh(l, q)
  <2>1. q # <<>> => 1 \in 1 .. Len(q)
    BY <1>4, SeqFacts
  <2>2. q # <<>> /\ q[1].type = "standing" => Fair(l, q[1])
    BY <1>9, <2>1 DEF Judged
  <2>. QED BY <2>2 DEF Fresh
<1>. QED BY <1>10, <1>11 DEF q

(* Without its head, which the rest may have rested on. *)
LEMMA NearTail ==
  ASSUME NEW q, IsSeq(q), q # <<>>, NEW n \in 1 .. Len(q) - 1
  PROVE  /\ Near(q, n + 1) \subseteq Near(Tail(q), n) \cup Facts(q[1])
         /\ q[1].type = "step" => Near(q, n + 1) \subseteq Near(Tail(q), n)
<1> DEFINE t == Tail(q)
<1>1. Len(q) \in Nat /\ \A k \in 1 .. Len(q) - 1 : t[k] = q[k + 1]
  BY SeqFacts, HeadAndTail
<1> HIDE DEF t
<1>2. ASSUME NEW f \in Near(q, n + 1) PROVE f \in Near(t, n) \/ (f \in Facts(q[1]) /\ q[1].type # "step")
  <2>1. PICK k \in 1 .. n + 1 - 1 : f \in Facts(q[k]) /\ \A i \in k .. n + 1 - 1 : q[i].type # "step"
    BY NearIs
  <2>2. CASE k = 1
    <3>1. k \in k .. n + 1 - 1
      BY <1>1
    <3>. QED BY <2>1, <2>2, <3>1
  <2>3. CASE k # 1
    <3>1. k - 1 \in 1 .. n - 1 /\ t[k - 1] = q[k]
      BY <1>1, <2>3
    <3>2. ASSUME NEW i \in k - 1 .. n - 1 PROVE t[i].type # "step"
      <4>1. i + 1 \in k .. n + 1 - 1 /\ t[i] = q[i + 1]
        BY <1>1, <2>3
      <4>. QED BY <2>1, <4>1
    <3>. QED BY <2>1, <3>1, <3>2, NearIs
  <2>. QED BY <2>2, <2>3
<1>. QED BY <1>2 DEF t

LEMMA StepTail ==
  ASSUME NEW S, NEW l, IsSeq(l), NEW q, Owed(S, l, q), q # <<>>, q[1].type = "step"
  PROVE  Sound(l, {}, q[1]) /\ q[1].what \in S /\ Calm(S, l, Tail(q))
<1>1. IsSeq(q)
  BY DEF Owed, Queue
<1> DEFINE t == Tail(q)
<1>2. Len(q) \in Nat /\ Len(q) >= 1 /\ IsSeq(t) /\ Len(t) = Len(q) - 1 /\ \A n \in 1 .. Len(q) - 1 : t[n] = q[n + 1]
  BY <1>1, SeqFacts, HeadAndTail
<1>3. \A n \in 1 .. Len(q) - 1 : Near(q, n + 1) \subseteq Near(t, n)
  BY <1>1, NearTail
<1> HIDE DEF t
<1>4. 1 \in 1 .. Len(q) /\ Near(q, 1) = {}
  BY <1>2, NearFirst
<1>5. Sound(l, {}, q[1]) /\ q[1].what \in S
  BY <1>4 DEF Owed, Queue
<1>6. ASSUME NEW n \in 1 .. Len(t)
      PROVE  Sound(l, Near(t, n), t[n]) /\ (t[n].type = "step" => t[n].what \in S) /\ t[n].type \notin Judged
  <2>1. n \in 1 .. Len(q) - 1 /\ n + 1 \in 1 .. Len(q) /\ n + 1 # 1 /\ t[n] = q[n + 1]
    BY <1>2
  <2>2. Sound(l, Near(q, n + 1), t[n]) /\ (t[n].type = "step" => t[n].what \in S) /\ t[n].type \notin Judged
    BY <2>1 DEF Owed, Queue
  <2>. QED BY <1>3, <2>1, <2>2, SoundSame
<1>7. Calm(S, l, t)
  BY <1>2, <1>6 DEF Calm, Queue
<1>. QED BY <1>5, <1>7 DEF t

LEMMA EventTail ==
  ASSUME NEW S, NEW l, IsSeq(l), NEW q, Owed(S, l, q), q # <<>>
  PROVE  Sound(l, {}, q[1]) /\ (q[1].type \in Judged => Founded(l, q[1])) /\ Calm(S, Append(l, q[1]), Tail(q))
<1>1. IsSeq(q)
  BY DEF Owed, Queue
<1> DEFINE t == Tail(q)  m == Append(l, q[1])
<1>2. Len(q) \in Nat /\ Len(q) >= 1 /\ IsSeq(t) /\ Len(t) = Len(q) - 1 /\ \A n \in 1 .. Len(q) - 1 : t[n] = q[n + 1]
  BY <1>1, SeqFacts, HeadAndTail
<1>3. \A n \in 1 .. Len(q) - 1 : Near(q, n + 1) \subseteq Near(t, n) \cup Facts(q[1])
  BY <1>1, NearTail
<1>4. \A G : \A e : Sound(l, G \cup Facts(q[1]), e) => Sound(m, G, e)
  BY SoundWritten
<1> HIDE DEF t, m
<1>5. 1 \in 1 .. Len(q) /\ Near(q, 1) = {}
  BY <1>2, NearFirst
<1>6. Sound(l, {}, q[1]) /\ (q[1].type \in Judged => Founded(l, q[1]))
  BY <1>5 DEF Owed, Queue
<1>7. ASSUME NEW n \in 1 .. Len(t)
      PROVE  Sound(m, Near(t, n), t[n]) /\ (t[n].type = "step" => t[n].what \in S) /\ t[n].type \notin Judged
  <2>1. n \in 1 .. Len(q) - 1 /\ n + 1 \in 1 .. Len(q) /\ n + 1 # 1 /\ t[n] = q[n + 1]
    BY <1>2
  <2>2. Sound(l, Near(q, n + 1), t[n]) /\ (t[n].type = "step" => t[n].what \in S) /\ t[n].type \notin Judged
    BY <2>1 DEF Owed, Queue
  <2>3. Sound(l, Near(t, n) \cup Facts(q[1]), t[n])
    BY <1>3, <2>1, <2>2, SoundSame
  <2>. QED BY <1>4, <2>2, <2>3
<1>8. Calm(S, m, t)
  BY <1>2, <1>7 DEF Calm, Queue
<1>. QED BY <1>6, <1>8 DEF t, m

(* A longer log takes nothing away. *)
LEMMA OwedMore ==
  ASSUME NEW S, NEW l, IsSeq(l), NEW m, Extends(m, l), NEW q, Owed(S, l, q)
  PROVE  Owed(S, m, q)
<1>1. \A n \in 1 .. Len(q) : Sound(m, Near(q, n), q[n])
  BY SoundMore DEF Owed, Queue
<1>2. ASSUME NEW e, Founded(l, e) PROVE Founded(m, e)
  <2>1. PICK d \in 0 .. Len(l) : Fair(Prefix(l, d), e) /\ (e.type = "claim" => e.version = NextOf(Prefix(l, d), "claim", e.id))
    BY <1>2 DEF Founded
  <2>2. Prefix(m, d) = Prefix(l, d)
    BY SamePrefix
  <2>3. Len(l) \in Nat /\ Len(m) \in Nat /\ Len(l) <= Len(m)
    BY SeqFacts DEF Extends
  <2>4. d \in 0 .. Len(m)
    BY <2>3
  <2>. QED BY <2>1, <2>2, <2>4 DEF Founded
<1>. QED BY <1>1, <1>2 DEF Owed, Queue

LEMMA CalmMore ==
  ASSUME NEW S, NEW l, IsSeq(l), NEW m, Extends(m, l), NEW q, Calm(S, l, q)
  PROVE  Calm(S, m, q)
BY SoundMore DEF Calm, Queue

(* What is appended keeps the log as it should be. *)
LEMMA LawfulAppend ==
  ASSUME NEW l, Lawful(l), NEW e, Sound(l, {}, e), e.type \in Judged => Founded(l, e),
         e.type = "claim" => e.version = NextOf(l, "claim", e.id)
  PROVE  Lawful(Append(l, e))
<1> DEFINE m == Append(l, e)
<1>1. IsSeq(l) /\ Len(l) \in Nat
  BY SeqFacts DEF Lawful
<1>2. IsSeq(m) /\ Len(m) = Len(l) + 1 /\ m[Len(l) + 1] = e /\ \A n \in 1 .. Len(l) : m[n] = l[n]
  BY <1>1, Appended
<1>3. Prefix(m, Len(l)) = l /\ \A d \in 0 .. Len(l) : Prefix(m, d) = Prefix(l, d)
  BY <1>1, AppendPrefix
<1> HIDE DEF m
<1>4. ASSUME NEW n \in 1 .. Len(m)
      PROVE  /\ Sound(Prefix(m, n - 1), {}, m[n])
             /\ m[n].type \in Judged => Founded(Prefix(m, n - 1), m[n])
             /\ m[n].type = "claim" => m[n].version = NextOf(Prefix(m, n - 1), "claim", m[n].id)
  <2>1. CASE n = Len(l) + 1
    <3>1. n - 1 = Len(l)
      BY <1>1, <2>1
    <3>. QED BY <1>2, <1>3, <2>1, <3>1
  <2>2. CASE n # Len(l) + 1
    <3>1. n \in 1 .. Len(l) /\ n - 1 \in 0 .. Len(l)
      BY <1>1, <1>2, <2>2
    <3>. QED BY <1>2, <1>3, <3>1 DEF Lawful
  <2>. QED BY <2>1, <2>2
<1>5. Lawful(m)
  BY <1>2, <1>4 DEF Lawful
<1>. QED BY <1>5 DEF m

-----------------------------------------------------------------------------
(***************************************************************************)
(* What a lawful log says, and what may be queued on its own.              *)
(***************************************************************************)
LEMMA LawfulSound ==
  ASSUME NEW l, Lawful(l), NEW i \in DOMAIN l
  PROVE  Sound(l, {}, l[i])
<1>1. IsSeq(l) /\ Len(l) \in Nat /\ i \in 1 .. Len(l)
  BY SeqFacts DEF Lawful
<1>2. i - 1 \in 0 .. Len(l)
  BY <1>1
<1>3. IsSeq(Prefix(l, i - 1)) /\ Extends(l, Prefix(l, i - 1))
  BY <1>1, <1>2, PrefixFacts, PrefixPart
<1>4. Sound(Prefix(l, i - 1), {}, l[i])
  BY <1>1 DEF Lawful
<1>. QED BY <1>3, <1>4, SoundMore

LEMMA VersionSound ==
  ASSUME NEW l, Lawful(l), NEW t, NEW id
  PROVE  \A i \in Versions(l, t, id) : i \in DOMAIN l /\ Sound(l, {}, l[i]) /\ l[i].type = t /\ l[i].id = id
BY LawfulSound DEF Versions

LEMMA CurrentSound ==
  ASSUME NEW l, Lawful(l), NEW t, NEW id, Known(l, t, id)
  PROVE  Sound(l, {}, Current(l, t, id)) /\ Current(l, t, id).type = t /\ Current(l, t, id).id = id
<1>1. \E i \in Versions(l, t, id) : Current(l, t, id) = l[i]
  BY CurrentFacts DEF Lawful
<1>. QED BY <1>1, VersionSound

LEMMA StepLoose ==
  ASSUME NEW S, NEW l, NEW what \in S, NEW id, StepIs(l, {}, Step(what, id))
  PROVE  Loose(S, l, Step(what, id))
BY DEF Loose, Sound, Step, Judged, Unversioned, Versioned

Plain == {"document", "object", "failure", "activity", "item", "alert", "requirement", "task", "route failure",
          "descriptor", "profile", "status", "coverage", "watch"}

LEMMA PlainLoose ==
  ASSUME NEW S, NEW l, NEW e, {"type", "id"} \subseteq DOMAIN e, e.type \in Plain
  PROVE  Loose(S, l, e)
BY Zenon DEF Loose, Sound, Plain, Judged, Unversioned

(* Events of which none rests on another. *)
Free(S, l, q) == IsSeq(q) /\ \A n \in DOMAIN q : Loose(S, l, q[n])

LEMMA FreeCalm ==
  ASSUME NEW S, NEW l, IsSeq(l), NEW q, Free(S, l, q)
  PROVE  Calm(S, l, q)
BY LooseCalm DEF Free

LEMMA FreeNone ==
  ASSUME NEW S, NEW l
  PROVE  Free(S, l, <<>>)
<1>1. IsSeq(<<>>) /\ Len(<<>>) = 0
  BY EmptySeq, AnySeq
<1>2. DOMAIN <<>> = 1 .. 0
  BY <1>1, SeqFacts
<1>. QED BY <1>1, <1>2 DEF Free

LEMMA FreeOne ==
  ASSUME NEW S, NEW l, NEW e, Loose(S, l, e)
  PROVE  Free(S, l, <<e>>)
<1> DEFINE q == <<e>>
<1>1. IsSeq(q) /\ Len(q) = 1 /\ q[1] = e
  BY Single
<1> HIDE DEF q
<1>2. DOMAIN q = 1 .. 1
  BY <1>1, SeqFacts
<1>3. Free(S, l, q)
  BY <1>1, <1>2 DEF Free
<1>. QED BY <1>3 DEF q

LEMMA FreeJoined ==
  ASSUME NEW S, NEW l, NEW a, Free(S, l, a), NEW b, Free(S, l, b)
  PROVE  Free(S, l, a \o b)
<1> DEFINE w == a \o b
<1>1. /\ IsSeq(a) /\ IsSeq(b) /\ Len(a) \in Nat /\ Len(b) \in Nat
      /\ DOMAIN a = 1 .. Len(a) /\ DOMAIN b = 1 .. Len(b)
  BY SeqFacts DEF Free
<1>2. /\ IsSeq(w) /\ DOMAIN w = 1 .. Len(a) + Len(b)
      /\ \A n \in 1 .. Len(a) : w[n] = a[n]
      /\ \A n \in 1 .. Len(b) : w[Len(a) + n] = b[n]
  BY <1>1, Concatenated
<1> HIDE DEF w
<1>3. ASSUME NEW n \in DOMAIN w PROVE Loose(S, l, w[n])
  <2>1. CASE n \in 1 .. Len(a)
    BY <1>1, <1>2, <2>1 DEF Free
  <2>2. CASE n \notin 1 .. Len(a)
    <3>1. n - Len(a) \in 1 .. Len(b) /\ Len(a) + (n - Len(a)) = n
      BY <1>1, <1>2, <2>2
    <3>2. w[n] = b[n - Len(a)]
      BY <1>2, <3>1
    <3>. QED BY <1>1, <3>1, <3>2 DEF Free
  <2>. QED BY <2>1, <2>2
<1>4. Free(S, l, w)
  BY <1>2, <1>3 DEF Free
<1>. QED BY <1>4 DEF w

LEMMA FreeFlat ==
  ASSUME NEW S, NEW l, NEW parts, IsSeq(parts), \A p \in DOMAIN parts : Free(S, l, parts[p])
  PROVE  Free(S, l, Flat(parts))
<1>1. /\ IsSeq(Flat(parts))
      /\ \A k \in DOMAIN Flat(parts) : \E p \in DOMAIN parts : \E j \in DOMAIN parts[p] : Flat(parts)[k] = parts[p][j]
  BY FlatFacts DEF Free
<1>. QED BY <1>1 DEF Free

LEMMA FreeOnly ==
  ASSUME NEW S, NEW l, NEW q, Free(S, l, q), NEW at
  PROVE  Free(S, l, Only(q, at))
<1>1. IsSeq(Only(q, at)) /\ \A n \in DOMAIN Only(q, at) : \E j \in DOMAIN q : j \in at /\ Only(q, at)[n] = q[j]
  BY OnlyKeeps DEF Free
<1>. QED BY <1>1 DEF Free

LEMMA MappedFree ==
  ASSUME NEW S, NEW l, IsSeq(l), NEW s, IsSeq(s), NEW g, g = [n \in DOMAIN s |-> g[n]], \A n \in DOMAIN s : Loose(S, l, g[n])
  PROVE  Free(S, l, g)
<1>1. IsSeq(g) /\ DOMAIN g = DOMAIN s
  BY Mapped, SeqFacts
<1>. QED BY <1>1 DEF Free

LEMMA ItemLoose ==
  ASSUME NEW S, NEW l, NEW id, NEW status
  PROVE  Loose(S, l, Item(id, status))
<1>1. {"type", "id"} \subseteq DOMAIN Item(id, status) /\ Item(id, status).type \in Plain
  BY DEF Item, Plain
<1>. QED BY <1>1, PlainLoose

LEMMA OrderedFacts ==
  ASSUME NEW topics
  PROVE  /\ IsSeq(Ordered(topics))
         /\ \A n \in DOMAIN Ordered(topics) : Ordered(topics)[n] \in topics /\ Ordered(topics)[n] \in DOMAIN Topics
<1> DEFINE at == {n \in DOMAIN TopicOrder : TopicOrder[n] \in topics}
<1>1. IsSeq(TopicOrder) /\ \A n \in DOMAIN TopicOrder : TopicOrder[n] \in DOMAIN Topics
  BY SemanticAssumption, AnySeq
<1>3. Ordered(topics) = Only(TopicOrder, at)
  BY DEF Ordered
<1>4. \A j \in at : TopicOrder[j] \in topics
  OBVIOUS
<1> HIDE DEF at
<1>2. /\ IsSeq(Only(TopicOrder, at))
      /\ \A n \in DOMAIN Only(TopicOrder, at) : \E j \in DOMAIN TopicOrder : j \in at /\ Only(TopicOrder, at)[n] = TopicOrder[j]
  BY <1>1, OnlyKeeps
<1>. QED BY <1>1, <1>2, <1>3, <1>4

LEMMA ObservedFacts ==
  ASSUME NEW l, Lawful(l), NEW m, NEW k \in Observed(l, m)
  PROVE  Known(l, "observation", <<m, k>>) /\ IsReading(<<m, k>>)
<1>1. PICK i \in DOMAIN l : l[i].type = "observation" /\ l[i].id[1] = m /\ l[i].id[2] = k
  BY DEF Observed
<1>2. IsReading(l[i].id)
  BY <1>1, LawfulSound, Zenon DEF Sound
<1>3. l[i].id = <<m, k>>
  BY <1>1, <1>2 DEF IsReading
<1>. QED BY <1>1, <1>2, <1>3 DEF Known, Versions

(* Steps for topics in their order. *)
LEMMA StepsFree ==
  ASSUME NEW S, NEW l, IsSeq(l), NEW what \in S, NEW m, NEW topics,
         \A k \in DOMAIN Topics : k \in topics => StepIs(l, {}, Step(what, <<m, k>>))
  PROVE  Free(S, l, Steps(what, m, topics))
<1> DEFINE order == Ordered(topics)  g == [n \in DOMAIN order |-> Step(what, <<m, order[n]>>)]
<1>1. IsSeq(order) /\ \A n \in DOMAIN order : order[n] \in topics /\ order[n] \in DOMAIN Topics
  BY OrderedFacts
<1>2. Steps(what, m, topics) = g
  BY DEF Steps
<1> HIDE DEF order
<1>3. \A n \in DOMAIN order : Loose(S, l, g[n])
  BY <1>1, StepLoose
<1>4. g = [n \in DOMAIN order |-> g[n]]
  OBVIOUS
<1> HIDE DEF g
<1>. QED BY <1>1, <1>2, <1>3, <1>4, MappedFree

(***************************************************************************)
(* The steps of the semantic plane.                                        *)
(***************************************************************************)
LEMMA FailureFree ==
  ASSUME NEW S, NEW l, IsSeq(l), NEW m, NEW status
  PROVE  Free(S, l, <<Failure(m, status)>>)
<1>1. {"type", "id"} \subseteq DOMAIN Failure(m, status) /\ Failure(m, status).type \in Plain
  BY DEF Failure, Plain
<1>. QED BY <1>1, PlainLoose, FreeOne

LEMMA RecordFailureFree ==
  ASSUME NEW S, NEW l, IsSeq(l), NEW m
  PROVE  Free(S, l, RecordFailure(l, m)) /\ Free(S, l, ResolveFailure(l, m))
BY FailureFree, FreeNone DEF RecordFailure, ResolveFailure

LEMMA UnderstandFree ==
  ASSUME NEW S, SemanticSteps \subseteq S, NEW l, IsSeq(l), NEW m \in DOMAIN Readings
  PROVE  Free(S, l, Understand(m))
<1> DEFINE u == Understand(m)
<1>1. {"extract", "integrate", "understood"} \subseteq S
  BY Zenon DEF SemanticSteps
<1>2. StepIs(l, {}, Step("extract", m)) /\ StepIs(l, {}, Step("integrate", m)) /\ StepIs(l, {}, Step("understood", m))
  BY DEF StepIs, Step
<1>3. Loose(S, l, Step("extract", m)) /\ Loose(S, l, Step("integrate", m)) /\ Loose(S, l, Step("understood", m))
  BY <1>1, <1>2, StepLoose
<1>4. u \in Seq({Step("extract", m), Step("integrate", m), Step("understood", m)})
  BY DEF Understand
<1> HIDE DEF u
<1>5. IsSeq(u) /\ \A n \in DOMAIN u : Loose(S, l, u[n])
  BY <1>3, <1>4, AnySeq
<1>6. Free(S, l, u)
  BY <1>5 DEF Free
<1>. QED BY <1>6 DEF u

LEMMA NormalizeFree ==
  ASSUME NEW S, SemanticSteps \subseteq S, NEW l, IsSeq(l), NEW m \in DOMAIN Readings, NEW readable
  PROVE  Free(S, l, Normalize(l, m, readable))
<1> DEFINE d == [type |-> "document", id |-> m]
<1>1. Free(S, l, Understand(m)) /\ Free(S, l, RecordFailure(l, m))
  BY UnderstandFree, RecordFailureFree
<1>2. Loose(S, l, d)
  <2>1. {"type", "id"} \subseteq DOMAIN d /\ d.type \in Plain
    BY DEF Plain
  <2>. QED BY <2>1, PlainLoose
<1>3. Free(S, l, <<d>> \o Understand(m))
  BY <1>1, <1>2, FreeOne, FreeJoined
<1>. QED BY <1>1, <1>3 DEF Normalize

LEMMA ExtractFree ==
  ASSUME NEW S, NEW l, Lawful(l), NEW m \in DOMAIN Readings
  PROVE  Free(S, l, ExtractObservations(l, m))
<1> DEFINE new == Ordered(DOMAIN Readings[m].says \ Observed(l, m))
           g   == [n \in DOMAIN new |-> [type |-> "observation", id |-> <<m, new[n]>>]]
<1>1. IsSeq(new) /\ \A n \in DOMAIN new : new[n] \in DOMAIN Readings[m].says
  BY OrderedFacts
<1>2. ExtractObservations(l, m) = g
  BY DEF ExtractObservations
<1> HIDE DEF new
<1>3. \A n \in DOMAIN new : Loose(S, l, g[n])
  <2>1. ASSUME NEW n \in DOMAIN new PROVE Loose(S, l, g[n])
    <3>1. IsReading(<<m, new[n]>>)
      BY <1>1 DEF IsReading
    <3>2. g[n].type = "observation" /\ g[n].id = <<m, new[n]>> /\ DOMAIN g[n] = {"type", "id"}
      OBVIOUS
    <3> HIDE DEF g
    <3>. QED BY <3>1, <3>2 DEF Loose, Sound, Judged, Versioned, Unversioned
  <2>. QED BY <2>1
<1>4. g = [n \in DOMAIN new |-> g[n]] /\ IsSeq(l)
  BY DEF Lawful
<1> HIDE DEF g
<1>. QED BY <1>1, <1>2, <1>3, <1>4, MappedFree

LEMMA ObjectFree ==
  ASSUME NEW S, NEW l, NEW s, NEW evidence
  PROVE  Free(S, l, <<Object(s, evidence)>>)
<1>1. {"type", "id"} \subseteq DOMAIN Object(s, evidence) /\ Object(s, evidence).type \in Plain
  BY DEF Object, Plain
<1>. QED BY <1>1, PlainLoose, FreeOne

LEMMA EntityFree ==
  ASSUME NEW S, SemanticSteps \subseteq S, NEW l, IsSeq(l), NEW m, NEW s, NEW topics, NEW k
  PROVE  Free(S, l, IntegrateEntity(l, m, s, topics)) /\ Free(S, l, EnsureStub(l, m, k, s))
<1> DEFINE at == {x \in topics : Topics[x].kind = "IDENTIFIER"}
<1>1. \A x \in DOMAIN Topics : StepIs(l, {}, Step("hearsay", <<m, x>>))
  BY DEF StepIs, Step
<1>2. "hearsay" \in S
  BY Zenon DEF SemanticSteps
<1>3. Free(S, l, Steps("hearsay", m, at))
  BY <1>1, <1>2, StepsFree
<1>4. Free(S, l, <<Object(s, {m} \X topics)>>) /\ Free(S, l, <<Object(s, {<<m, k>>})>>)
  BY ObjectFree
<1>5. Free(S, l, <<Object(s, {m} \X topics)>> \o Steps("hearsay", m, at))
  BY <1>3, <1>4, FreeJoined
<1>6. Free(S, l, <<>>)
  BY FreeNone
<1>7. Free(S, l, IntegrateEntity(l, m, s, topics))
  BY <1>5, <1>6 DEF IntegrateEntity
<1>8. Free(S, l, EnsureStub(l, m, k, s))
  BY <1>4, <1>6 DEF EnsureStub
<1>. QED BY <1>7, <1>8

-----------------------------------------------------------------------------
(* Relations: the name of one is its kind before the pair. *)
LEMMA PairNamed ==
  ASSUME NEW kind, NEW pair, IsSeq(pair)
  PROVE  (<<kind>> \o pair)[1] = kind /\ Tail(<<kind>> \o pair) = pair
<1> DEFINE w == <<kind>> \o pair
<1>1. IsSeq(w) /\ Len(w) = 1 + Len(pair) /\ w[1] = kind /\ \A n \in 1 .. Len(pair) : w[1 + n] = pair[n]
  BY Prepended
<1>2. Len(pair) \in Nat
  BY SeqFacts
<1> HIDE DEF w
<1>3. w # <<>>
  BY <1>1, <1>2, SeqFacts
<1>4. /\ IsSeq(Tail(w)) /\ Len(Tail(w)) = Len(w) - 1
      /\ \A n \in 1 .. Len(w) - 1 : Tail(w)[n] = w[n + 1]
  BY <1>1, <1>3, HeadAndTail
<1>5. Len(Tail(w)) = Len(pair) /\ \A n \in 1 .. Len(pair) : Tail(w)[n] = w[1 + n]
  BY <1>1, <1>2, <1>4
<1>6. \A n \in 1 .. Len(Tail(w)) : Tail(w)[n] = pair[n]
  BY <1>1, <1>5
<1>7. Tail(w) = pair
  BY <1>4, <1>5, <1>6, SameSeq
<1>. QED BY <1>1, <1>7 DEF w

LEMMA RelationLoose ==
  ASSUME NEW S, NEW l, NEW kind, NEW pair, NEW status, NEW cites,
         \/ status # "ACTIVE"
         \/ IsSeq(pair) /\ (kind # "SAME_AS" \/ Approved(l, {}, pair))
  PROVE  Loose(S, l, Relation(kind, pair, status, cites))
<1> DEFINE e == Relation(kind, pair, status, cites)  w == <<kind>> \o pair
<1>1. e.type = "relation" /\ e.id = w /\ e.status = status /\ {"type", "id", "status"} \subseteq DOMAIN e
  BY DEF Relation
<1>0. IsSeq(pair) => w[1] = kind /\ Tail(w) = pair
  BY PairNamed
<1> HIDE DEF e, w
<1>2. e.id[1] = "SAME_AS" /\ e.status = "ACTIVE" => Approved(l, {}, Tail(e.id))
  BY <1>0, <1>1
<1>3. Loose(S, l, e)
  BY <1>1, <1>2 DEF Loose, Sound, Judged, Unversioned
<1>. QED BY <1>3 DEF e

LEMMA EvaluateFree ==
  ASSUME NEW S, NEW l, NEW pair, IsSeq(pair), NEW against
  PROVE  Free(S, l, Evaluate(pair, against, FALSE))
<1> DEFINE outcome == Withheld(Outcome(pair[1], pair[2], against), FALSE)
           e == [type |-> "proposal", id |-> pair, outcome |-> outcome]
           r == Relation("POSSIBLY_SAME_AS", pair, "PROPOSED", {})
           rest == CASE outcome = "AUTO_ASSOCIATE" -> <<Resolution(pair, "ACCEPTED", "SERVICE"), Step("take effect", <<pair, "ACCEPTED">>)>>
                     [] outcome = "PROPOSE_ASSOCIATION" -> <<r>>
                     [] OTHER -> <<>>
<1>1. outcome # "AUTO_ASSOCIATE"
  BY DEF Withheld
<1>2. Evaluate(pair, against, FALSE) = <<e>> \o rest
  BY DEF Evaluate
<1> HIDE DEF outcome
<1>3. Loose(S, l, e)
  <2>1. e.type = "proposal" /\ e.id = pair /\ DOMAIN e = {"type", "id", "outcome"}
    OBVIOUS
  <2> HIDE DEF e
  <2>. QED BY <2>1 DEF Loose, Sound, Judged, Versioned, Unversioned
<1>4. Loose(S, l, r)
  BY RelationLoose
<1> HIDE DEF r, e
<1>5. rest = <<r>> \/ rest = <<>>
  BY <1>1
<1>6. Free(S, l, rest)
  BY <1>4, <1>5, FreeOne, FreeNone, Zenon
<1> HIDE DEF rest
<1>. QED BY <1>2, <1>3, <1>6, FreeOne, FreeJoined

LEMMA HearsayFree ==
  ASSUME NEW S, NEW l, NEW m, NEW k
  PROVE  Free(S, l, Hearsay(l, m, k))
<1> DEFINE pair == <<Topics[k].subject, Topics[k].other>>
<1>1. IsSeq(pair)
  <2>1. pair \in Seq({Topics[k].subject, Topics[k].other})
    OBVIOUS
  <2>. QED BY <2>1, AnySeq
<1>2. Hearsay(l, m, k) = <<>> \/ Hearsay(l, m, k) = Evaluate(pair, FALSE, FALSE) \o <<Ambiguity(pair)>>
  BY DEF Hearsay
<1> HIDE DEF pair
<1>3. Free(S, l, <<Ambiguity(pair)>>)
  BY ItemLoose, FreeOne DEF Ambiguity
<1>4. Free(S, l, Evaluate(pair, FALSE, FALSE))
  BY <1>1, EvaluateFree, Zenon
<1>. QED BY <1>2, <1>3, <1>4, FreeNone, FreeJoined

LEMMA EvaluationFree ==
  ASSUME NEW S, NEW l, NEW pair, IsSeq(pair)
  PROVE  Free(S, l, Evaluate(pair, FALSE, FALSE) \o <<Ambiguity(pair)>>)
<1>1. Free(S, l, <<Ambiguity(pair)>>)
  BY ItemLoose, FreeOne DEF Ambiguity
<1>2. Free(S, l, Evaluate(pair, FALSE, FALSE))
  BY EvaluateFree, Zenon
<1>. QED BY <1>1, <1>2, FreeJoined

LEMMA TargetFree ==
  ASSUME NEW S, SemanticSteps \subseteq S, NEW l, IsSeq(l), NEW m, NEW k \in DOMAIN Topics, NEW x
  PROVE  Free(S, l, EnsureStub(l, m, k, x) \o <<Step("relate", <<m, k>>)>>)
<1>1. StepIs(l, {}, Step("relate", <<m, k>>)) /\ "relate" \in S
  BY Zenon DEF StepIs, Step, SemanticSteps
<1>2. Free(S, l, <<Step("relate", <<m, k>>)>>)
  BY <1>1, StepLoose, FreeOne
<1>3. Free(S, l, EnsureStub(l, m, k, x))
  BY EntityFree
<1>. QED BY <1>2, <1>3, FreeJoined

LEMMA IntegrateRelationFree ==
  ASSUME NEW S, NEW l, NEW m, NEW k \in DOMAIN Topics
  PROVE  Free(S, l, IntegrateRelation(l, m, k))
<1> DEFINE pair == <<Topics[k].subject, Topics[k].other>>  r == Relation(k, pair, "ACTIVE", {<<m, k>>})
<1>1. IsSeq(pair)
  <2>1. pair \in Seq({Topics[k].subject, Topics[k].other})
    OBVIOUS
  <2>. QED BY <2>1, AnySeq
<1>2. IntegrateRelation(l, m, k) = <<>> \/ IntegrateRelation(l, m, k) = <<r>>
  BY DEF IntegrateRelation
<1> HIDE DEF pair
<1>3. k # "SAME_AS"
  BY SemanticAssumption
<1>4. Loose(S, l, r)
  BY <1>1, <1>3, RelationLoose
<1>. QED BY <1>2, <1>4, FreeNone, FreeOne

LEMMA TakeEffectFree ==
  ASSUME NEW S, SemanticSteps \subseteq S, NEW l, IsSeq(l), NEW pair, NEW resolution,
         resolution = "ACCEPTED" => IsSeq(pair) /\ Approved(l, {}, pair)
  PROVE  Free(S, l, TakeEffect(pair, resolution))
<1> DEFINE r == Relation("SAME_AS", pair, "ACTIVE", {})
           a == Step("retire", <<"SAME_AS", pair, resolution>>)
           b == Step("retire", <<"POSSIBLY_SAME_AS", pair, resolution>>)
<1>1. CASE resolution = "ACCEPTED"
  <2>1. Loose(S, l, r)
    BY <1>1, RelationLoose
  <2>2. TakeEffect(pair, resolution) = <<r>>
    BY <1>1 DEF TakeEffect
  <2>. QED BY <2>1, <2>2, FreeOne
<1>2. CASE resolution # "ACCEPTED"
  <2>1. StepIs(l, {}, a) /\ StepIs(l, {}, b) /\ "retire" \in S
    BY Zenon DEF StepIs, Step, SemanticSteps
  <2>2. Free(S, l, <<a>>) /\ Free(S, l, <<b>>)
    BY <2>1, StepLoose, FreeOne
  <2>3. TakeEffect(pair, resolution) = <<a>> \o <<b>>
    BY <1>2 DEF TakeEffect
  <2>. QED BY <2>2, <2>3, FreeJoined
<1>. QED BY <1>1, <1>2

LEMMA RetiredFree ==
  ASSUME NEW S, NEW l, NEW kind, NEW pair, NEW resolution
  PROVE  Free(S, l, Retired(l, kind, pair, resolution))
<1> DEFINE status == IF resolution = "REVERSED" THEN "RETIRED" ELSE "REJECTED"
           r == Relation(kind, pair, status, {})
<1>1. Loose(S, l, r)
  <2>1. status # "ACTIVE"
    OBVIOUS
  <2> HIDE DEF status
  <2>. QED BY <2>1, RelationLoose
<1>2. Retired(l, kind, pair, resolution) = <<>> \/ Retired(l, kind, pair, resolution) = <<r>>
  BY DEF Retired
<1>. QED BY <1>1, <1>2, FreeNone, FreeOne

(* Every two objects that share an identifier. *)
LEMMA CrossFree ==
  ASSUME NEW S, SemanticSteps \subseteq S, NEW l, Lawful(l)
  PROVE  Free(S, l, CrossScheme(l))
<1> DEFINE objects == {l[i].id : i \in {j \in DOMAIN l : l[j].type = "object"}}
           known   == {l[i].id : i \in {j \in DOMAIN l : l[j].type = "proposal"}}
           Rank(s) == CHOOSE n \in DOMAIN SubjectOrder : SubjectOrder[n] = s
           new     == {p \in objects \X objects :
                         /\ Rank(p[1]) < Rank(p[2]) /\ Things[p[1]].refs \cap Things[p[2]].refs # {}
                         /\ {p, <<p[2], p[1]>>} \cap known = {}}
           again   == SetToSeq(known)
           pairs   == SetToSeq(new)
           g       == [n \in DOMAIN again |-> Ambiguity(again[n])]
           h       == [n \in DOMAIN pairs |-> Step("evaluate", pairs[n])]
<1>1. CrossScheme(l) = g \o h
  BY DEF CrossScheme
<1>2. IsSeq(l)
  BY DEF Lawful
<1>3. IsFiniteSet(objects) /\ IsFiniteSet(known)
  <2>1. \A x \in objects : Known(l, "object", x)
    BY DEF Known, Versions
  <2>2. \A x \in known : Known(l, "proposal", x)
    BY DEF Known, Versions
  <2> HIDE DEF objects, known
  <2>. QED BY <1>2, <2>1, <2>2, KnownFinite
<1>4. new \subseteq objects \X objects
  OBVIOUS
<1> HIDE DEF objects, known, new
<1>5. IsFiniteSet(new)
  BY <1>3, <1>4, FS_Product, FS_Subset
<1>6. IsSeq(again) /\ IsSeq(pairs) /\ \A n \in DOMAIN pairs : pairs[n] \in new
  <2>1. again \in [1 .. Cardinality(known) -> known] /\ Cardinality(known) \in Nat
    BY <1>3, SetToSeqIs
  <2>2. pairs \in [1 .. Cardinality(new) -> new] /\ Cardinality(new) \in Nat
    BY <1>5, SetToSeqIs
  <2> HIDE DEF again, pairs
  <2>3. again = [k \in 1 .. Cardinality(known) |-> again[k]] /\ pairs = [k \in 1 .. Cardinality(new) |-> pairs[k]]
    BY <2>1, <2>2
  <2>. QED BY <2>1, <2>2, <2>3, FunctionIsSeq
<1> HIDE DEF again, pairs
<1>7. \A n \in DOMAIN again : Loose(S, l, g[n])
  BY ItemLoose DEF Ambiguity
<1>8. ASSUME NEW n \in DOMAIN pairs PROVE Loose(S, l, h[n])
  <2>1. PICK x \in objects, y \in objects : pairs[n] = <<x, y>>
    BY <1>4, <1>6
  <2>2. pairs[n] \in Seq({x, y})
    BY <2>1
  <2>3. IsSeq(pairs[n])
    BY <2>2, AnySeq
  <2>4. StepIs(l, {}, Step("evaluate", pairs[n])) /\ "evaluate" \in S
    BY <2>3, Zenon DEF StepIs, Step, SemanticSteps
  <2>. QED BY <2>4, StepLoose
<1>9. g = [n \in DOMAIN again |-> g[n]] /\ h = [n \in DOMAIN pairs |-> h[n]]
  OBVIOUS
<1> HIDE DEF g, h
<1>10. Free(S, l, g) /\ Free(S, l, h)
  BY <1>2, <1>6, <1>7, <1>8, <1>9, MappedFree
<1>. QED BY <1>1, <1>10, FreeJoined

-----------------------------------------------------------------------------
(* The steps of a document. *)
LEMMA SubjectFree ==
  ASSUME NEW S, SemanticSteps \subseteq S, NEW l, Lawful(l), NEW m, NEW x
  PROVE  Free(S, l, IntegrateSubject(l, m, x))
<1> DEFINE About(kinds) == {k \in Observed(l, m) : Topics[k].subject = x /\ Topics[k].kind \in kinds}
           anchors == Ordered(About({"RELATION"})) \o Ordered(About({"EVENT"})) \o Ordered(About({"STATEMENT", "ROLE"}))
           new     == {k \in About({"EVENT"}) : ~Known(l, "activity", <<k, Value(<<m, k>>)>>)}
           events  == Ordered(new)
           a == Step("entity", <<m, x, About(Attributes)>>)
           b == Step("stub", <<m, Head(anchors), x>>)
           first == IF About(Attributes) # {} THEN <<a>> ELSE IF anchors # <<>> THEN <<b>> ELSE <<>>
           g == [n \in DOMAIN events |-> Activity(m, events[n])]
           t == Steps("target", m, About({"RELATION"}))
           u == Steps("claim", m, About({"NAME"}))
           v == Steps("claim", m, About({"STATEMENT", "ROLE"}))
<1>1. IntegrateSubject(l, m, x) = first \o t \o g \o u \o v
  BY DEF IntegrateSubject
<1>2. IsSeq(l) /\ \A kinds : About(kinds) \subseteq Observed(l, m)
  BY DEF Lawful
<1>3. {"entity", "stub", "target", "claim"} \subseteq S
  BY Zenon DEF SemanticSteps
<1>4. Free(S, l, first)
  <2>1. StepIs(l, {}, a) /\ StepIs(l, {}, b)
    BY DEF StepIs, Step
  <2>2. Loose(S, l, a) /\ Loose(S, l, b)
    BY <1>3, <2>1, StepLoose
  <2> HIDE DEF a, b, anchors, About
  <2>3. first = <<a>> \/ first = <<b>> \/ first = <<>>
    OBVIOUS
  <2>. QED BY <2>2, <2>3, FreeOne, FreeNone
<1>5. Free(S, l, t)
  <2>1. \A k \in DOMAIN Topics : StepIs(l, {}, Step("target", <<m, k>>))
    BY DEF StepIs, Step
  <2> HIDE DEF About
  <2>. QED BY <1>2, <1>3, <2>1, StepsFree
<1>6. ASSUME NEW kinds PROVE Free(S, l, Steps("claim", m, About(kinds)))
  <2> DEFINE topics == About(kinds)
  <2>1. \A k \in topics : IsReading(<<m, k>>)
    BY <1>2, ObservedFacts
  <2> HIDE DEF topics
  <2>2. \A k \in DOMAIN Topics : k \in topics => StepIs(l, {}, Step("claim", <<m, k>>))
    BY <2>1 DEF StepIs, Step
  <2>3. Free(S, l, Steps("claim", m, topics))
    BY <1>2, <1>3, <2>2, StepsFree
  <2>. QED BY <2>3 DEF topics
<1>7. Free(S, l, u) /\ Free(S, l, v)
  BY <1>6
<1>8. Free(S, l, g)
  <2> HIDE DEF new
  <2>1. IsSeq(events)
    BY OrderedFacts
  <2> HIDE DEF events
  <2>2. \A n \in DOMAIN events : Loose(S, l, g[n])
    <3>1. ASSUME NEW k PROVE Loose(S, l, Activity(m, k))
      <4>1. {"type", "id"} \subseteq DOMAIN Activity(m, k) /\ Activity(m, k).type \in Plain
        BY DEF Activity, Plain
      <4>. QED BY <4>1, PlainLoose
    <3>. QED BY <3>1
  <2>3. g = [n \in DOMAIN events |-> g[n]]
    OBVIOUS
  <2> HIDE DEF g
  <2>. QED BY <1>2, <2>1, <2>2, <2>3, MappedFree
<1> HIDE DEF first, t, g, u, v
<1>9. Free(S, l, first \o t)
  BY <1>4, <1>5, FreeJoined
<1>10. Free(S, l, first \o t \o g)
  BY <1>8, <1>9, FreeJoined
<1>11. Free(S, l, first \o t \o g \o u)
  BY <1>7, <1>10, FreeJoined
<1>12. Free(S, l, first \o t \o g \o u \o v)
  BY <1>7, <1>11, FreeJoined
<1>. QED BY <1>1, <1>12

LEMMA DocumentFree ==
  ASSUME NEW S, SemanticSteps \subseteq S, NEW l, Lawful(l), NEW m
  PROVE  Free(S, l, IntegrateDocument(l, m))
<1> DEFINE parts == [n \in DOMAIN SubjectOrder |-> IntegrateSubject(l, m, SubjectOrder[n])]
<1>1. IsSeq(SubjectOrder)
  BY SemanticAssumption, AnySeq
<1>2. parts = [n \in DOMAIN SubjectOrder |-> parts[n]]
  OBVIOUS
<1>3. \A n \in DOMAIN SubjectOrder : Free(S, l, parts[n])
  BY SubjectFree
<1>4. IntegrateDocument(l, m) = Flat(parts)
  BY DEF IntegrateDocument
<1> HIDE DEF parts
<1>5. IsSeq(parts) /\ DOMAIN parts = DOMAIN SubjectOrder
  BY <1>1, <1>2, Mapped, SeqFacts
<1>. QED BY <1>3, <1>4, <1>5, FreeFlat

LEMMA ArrivedFacts ==
  ASSUME NEW l, Lawful(l)
  PROVE  /\ IsSeq(Arrived(l))
         /\ \A n \in DOMAIN Arrived(l) : Arrived(l)[n] \in DOMAIN Readings /\ Known(l, "manifestation", Arrived(l)[n])
         /\ \A m : Known(l, "manifestation", m) => \E n \in DOMAIN Arrived(l) : Arrived(l)[n] = m
<1> DEFINE at == {i \in DOMAIN l : l[i].type = "manifestation"}
           all == Only(l, at)
           g == [n \in DOMAIN all |-> all[n].id]
<1>1. Arrived(l) = g
  BY DEF Arrived
<1>2. \A i \in at : i \in DOMAIN l /\ l[i].type = "manifestation"
  OBVIOUS
<1>3. IsSeq(l)
  BY DEF Lawful
<1>a. \A m : \A i \in Versions(l, "manifestation", m) : i \in at /\ i \in DOMAIN l /\ l[i].id = m
  BY DEF Versions
<1>b. \A i \in at : Known(l, "manifestation", l[i].id)
  BY DEF Known, Versions
<1> HIDE DEF at
<1>4. IsSeq(all) /\ \A n \in DOMAIN all : \E j \in DOMAIN l : j \in at /\ all[n] = l[j]
  BY <1>3, OnlyKeeps
<1>c. \A j \in DOMAIN l : j \in at => \E n \in DOMAIN all : all[n] = l[j]
  BY <1>3, OnlyAll
<1> HIDE DEF all
<1>5. \A n \in DOMAIN all : g[n] \in DOMAIN Readings
  <2>1. \A i \in DOMAIN l : l[i].type = "manifestation" => l[i].id \in DOMAIN Readings
    <3>1. ASSUME NEW i \in DOMAIN l, l[i].type = "manifestation" PROVE l[i].id \in DOMAIN Readings
      <4>1. Sound(l, {}, l[i])
        BY LawfulSound
      <4>. QED BY <3>1, <4>1 DEF Sound
    <3>. QED BY <3>1
  <2>2. \A n \in DOMAIN all : all[n].id \in DOMAIN Readings
    BY <1>2, <1>4, <2>1
  <2>. QED BY <2>2
<1>6. g = [n \in DOMAIN all |-> g[n]] /\ \A n \in DOMAIN all : g[n] = all[n].id
  OBVIOUS
<1> HIDE DEF g
<1>7. IsSeq(g) /\ DOMAIN g = DOMAIN all
  BY <1>4, <1>6, Mapped, SeqFacts
<1>8. \A n \in DOMAIN g : g[n] \in DOMAIN Readings /\ Known(l, "manifestation", g[n])
  BY <1>b, <1>4, <1>5, <1>6, <1>7
<1>9. ASSUME NEW m, Known(l, "manifestation", m) PROVE \E n \in DOMAIN g : g[n] = m
  <2>1. PICK i \in Versions(l, "manifestation", m) : TRUE
    BY <1>9 DEF Known
  <2>. QED BY <1>a, <1>c, <1>6, <1>7, <2>1
<1>. QED BY <1>1, <1>7, <1>8, <1>9

LEMMA ProcessLoose ==
  ASSUME NEW S, SemanticSteps \subseteq S, NEW l, NEW m \in DOMAIN Readings, NEW bad
  PROVE  Loose(S, l, Process(m, bad))
<1>1. StepIs(l, {}, Step("manifestation", <<m, m \notin bad>>)) /\ "manifestation" \in S
  BY Zenon DEF StepIs, Step, SemanticSteps
<1>. QED BY <1>1, StepLoose DEF Process

LEMMA EvidenceFree ==
  ASSUME NEW S, SemanticSteps \subseteq S, NEW l, Lawful(l), NEW bad
  PROVE  Free(S, l, ProcessNewEvidence(l, bad))
<1> DEFINE all == Arrived(l)
           at  == {n \in DOMAIN all : Unfinished(l, all[n])}
           new == Only(all, at)
           g   == [n \in DOMAIN new |-> Process(new[n], bad)]
<1>1. ProcessNewEvidence(l, bad) = g \o <<Step("cross", "")>>
  BY DEF ProcessNewEvidence
<1>2. IsSeq(all) /\ \A n \in DOMAIN all : all[n] \in DOMAIN Readings
  BY ArrivedFacts
<1>3. IsSeq(l)
  BY DEF Lawful
<1> HIDE DEF all, at
<1>4. IsSeq(new) /\ \A n \in DOMAIN new : \E j \in DOMAIN all : j \in at /\ new[n] = all[j]
  BY <1>2, OnlyKeeps
<1> HIDE DEF new
<1>5. \A n \in DOMAIN new : Loose(S, l, g[n])
  BY <1>2, <1>4, ProcessLoose
<1>6. g = [n \in DOMAIN new |-> g[n]]
  OBVIOUS
<1> HIDE DEF g
<1>7. Free(S, l, g)
  BY <1>3, <1>4, <1>5, <1>6, MappedFree
<1>8. Free(S, l, <<Step("cross", "")>>)
  <2>1. StepIs(l, {}, Step("cross", "")) /\ "cross" \in S
    BY Zenon DEF StepIs, Step, SemanticSteps
  <2>. QED BY <2>1, StepLoose, FreeOne, Zenon
<1>. QED BY <1>1, <1>7, <1>8, FreeJoined, Zenon

(***************************************************************************)
(* Claims and standings: what is worked out on the log of the moment.      *)
(***************************************************************************)
LEMMA OneDraft ==
  ASSUME NEW S, NEW l, NEW e, Sound(l, {}, e), e.type \in Judged, Fair(l, e)
  PROVE  Draft(S, l, <<e>>)
<1>1. e.type # "step"
  BY DEF Judged
<1>2. Queue(S, l, <<e>>)
  BY <1>1, OneQueued
<1> DEFINE q == <<e>>
<1>3. Len(q) = 1 /\ q[1] = e
  OBVIOUS
<1> HIDE DEF q
<1>4. \A n \in 1 .. Len(q) : n = 1
  BY <1>3
<1>5. Draft(S, l, q)
  BY <1>2, <1>3, <1>4 DEF Draft, q
<1>. QED BY <1>5 DEF q

LEMMA FreeDraft ==
  ASSUME NEW S, NEW l, IsSeq(l), NEW q, Free(S, l, q)
  PROVE  Draft(S, l, q)
BY FreeCalm, CalmDraft

LEMMA Latest1 ==
  ASSUME NEW obs, Dated(obs)
  PROVE  LatestTime(obs) \in Nat /\ (\E o \in obs : Time(o) = LatestTime(obs)) /\ \A o \in obs : Time(o) <= LatestTime(obs)
<1>1. PICK n \in Nat : \A o \in obs : Time(o) <= n
  BY DEF Dated
<1> DEFINE K == {Time(o) : o \in obs}  J == {t + 1 : t \in K}
<1>2. K \subseteq Nat /\ K # {} /\ \A t \in K : t <= n
  BY <1>1 DEF Dated
<1>3. LatestTime(obs) = Max(K)
  BY DEF LatestTime
<1>6. (\A o \in obs : Time(o) \in K) /\ \A t \in K : \E o \in obs : Time(o) = t
  OBVIOUS
<1> HIDE DEF K
<1>4. J \subseteq 1 .. n + 1 /\ J # {} /\ n + 1 \in Nat
  <2>1. \A t \in K : t + 1 \in 1 .. n + 1
    BY <1>2
  <2>2. \A x \in J : \E t \in K : x = t + 1
    OBVIOUS
  <2>3. PICK t \in K : TRUE
    BY <1>2
  <2>4. t + 1 \in J
    OBVIOUS
  <2> HIDE DEF J
  <2>5. J \subseteq 1 .. n + 1 /\ J # {}
    BY <2>1, <2>2, <2>4
  <2>. QED BY <2>5
<1>5. Max(J) \in J /\ \A x \in J : x <= Max(J)
  BY <1>4, MaxOf
<1>7. PICK t \in K : Max(J) = t + 1
  BY <1>5
<1>8. \A u \in K : t >= u
  <2>1. ASSUME NEW u \in K PROVE t >= u
    <3>1. u + 1 \in J
      OBVIOUS
    <3>2. u + 1 <= t + 1
      BY <1>5, <1>7, <3>1
    <3>. QED BY <1>2, <3>2
  <2>. QED BY <2>1
<1>9. Max(K) \in K /\ \A u \in K : Max(K) >= u
  BY <1>8 DEF Max
<1>. QED BY <1>2, <1>3, <1>6, <1>9

LEMMA ClaimSound ==
  ASSUME NEW l, NEW F, NEW k, NEW value, NEW obs, Dated(obs)
  PROVE  Sound(l, F, Claim(k, value, obs))
BY DEF Sound, Claim, Unversioned

LEMMA ReadingDated ==
  ASSUME NEW o, IsReading(o)
  PROVE  Dated({o}) /\ Time(o) \in Nat
<1>1. Time(o) \in Nat
  BY SemanticAssumption DEF IsReading, Time
<1>. QED BY <1>1 DEF Dated

LEMMA MoreDated ==
  ASSUME NEW obs, Dated(obs), NEW o, IsReading(o)
  PROVE  Dated(obs \cup {o})
<1>1. PICK n \in Nat : \A p \in obs : Time(p) <= n
  BY DEF Dated
<1>0. Time(o) \in Nat
  BY ReadingDated
<1>2. Time(o) \in Nat /\ n + Time(o) \in Nat
  BY <1>0
<1>5. \A p \in obs : Time(p) \in Nat
  BY DEF Dated
<1>3. (\A p \in obs \cup {o} : Time(p) \in Nat) /\ \A p \in obs \cup {o} : Time(p) <= n + Time(o)
  <2>1. ASSUME NEW p \in obs \cup {o} PROVE Time(p) \in Nat /\ Time(p) <= n + Time(o)
    <3>1. CASE p = o
      BY <1>2, <3>1
    <3>2. CASE p \in obs
      <4>1. Time(p) \in Nat /\ Time(p) <= n
        BY <1>1, <1>5, <3>2
      <4>. QED BY <1>2, <4>1
    <3>. QED BY <3>1, <3>2
  <2>. QED BY <2>1
<1>4. obs \cup {o} # {}
  OBVIOUS
<1>. QED BY <1>2, <1>3, <1>4 DEF Dated

LEMMA ClaimDraft ==
  ASSUME NEW S, SemanticSteps \subseteq S, NEW l, Lawful(l), NEW o, IsReading(o)
  PROVE  Draft(S, l, IntegrateClaim(l, o))
<1> DEFINE k == o[2]  now == Current(l, "claim", k)
           one == Claim(k, Value(o), {o})  more == Claim(k, Value(o), now.obs \cup {o})
           s == Step("standing", o)
           first == IF Standing(l, k) = "DISPUTED" THEN <<>> ELSE <<SetStanding(k, "DISPUTED", o)>>
           i == Item(<<"conflict", k, o>>, "OPEN")
<1>0. IsSeq(l) /\ Draft(S, l, <<>>)
  BY FreeNone, FreeDraft DEF Lawful
<1>1. \/ ~Known(l, "claim", k) /\ IntegrateClaim(l, o) = <<one>>
      \/ Known(l, "claim", k) /\ IntegrateClaim(l, o) = <<s>>
      \/ IntegrateClaim(l, o) = <<>>
      \/ Known(l, "claim", k) /\ now.value = Value(o) /\ IntegrateClaim(l, o) = <<more>>
      \/ IntegrateClaim(l, o) = Conflict(l, k, o)
      \/ Known(l, "claim", k) /\ Newer(now, o) /\ ~OtherPublisher(now, o) /\ IntegrateClaim(l, o) = <<one, s>>
  BY DEF IntegrateClaim
<1>2. one.type = "claim" /\ one.id = k /\ one.value = Value(o) /\ one.obs = {o}
  BY DEF Claim
<1>3. Sound(l, {}, one)
  BY ReadingDated, ClaimSound
<1>4. CASE ~Known(l, "claim", k) /\ IntegrateClaim(l, o) = <<one>>
  <2>1. Fair(l, one)
    BY <1>2, <1>4 DEF Fair
  <2>. QED BY <1>2, <1>3, <1>4, <2>1, OneDraft DEF Judged
<1>5. CASE Known(l, "claim", k) /\ IntegrateClaim(l, o) = <<s>>
  <2>1. StepIs(l, {}, s) /\ "standing" \in S
    BY <1>5, Zenon DEF StepIs, Step, SemanticSteps, Has
  <2>2. Free(S, l, <<s>>)
    BY <2>1, StepLoose, FreeOne
  <2>. QED BY <1>0, <1>5, <2>2, FreeDraft
<1>6. ASSUME Known(l, "claim", k) PROVE Sound(l, {}, now) /\ now.type = "claim" /\ now.id = k /\ Dated(now.obs)
  <2>1. Sound(l, {}, now) /\ now.type = "claim" /\ now.id = k
    BY <1>6, CurrentSound
  <2> HIDE DEF now
  <2>. QED BY <2>1 DEF Sound
<1>7. CASE Known(l, "claim", k) /\ now.value = Value(o) /\ IntegrateClaim(l, o) = <<more>>
  <2>1. Sound(l, {}, more)
    BY <1>6, <1>7, MoreDated, ClaimSound
  <2>2. more.type = "claim" /\ more.id = k /\ more.value = Value(o)
    BY DEF Claim
  <2>3. Fair(l, more)
    BY <1>7, <2>2 DEF Fair
  <2>. QED BY <1>7, <2>1, <2>2, <2>3, OneDraft DEF Judged
<1>8. Draft(S, l, Conflict(l, k, o))
  <2> DEFINE e == SetStanding(k, "DISPUTED", o)
  <2>1. e.type = "standing" /\ e.id = k /\ e.state = "DISPUTED" /\ DOMAIN e = {"type", "id", "state", "cause"}
    BY DEF SetStanding
  <2> HIDE DEF e
  <2>2. Sound(l, {}, e) /\ Fair(l, e)
    BY <2>1 DEF Sound, Fair, Lowers, Lowered, Versioned
  <2>3. Draft(S, l, <<e>>)
    BY <2>1, <2>2, OneDraft DEF Judged
  <2>4. first = <<>> \/ first = <<e>>
    BY DEF e
  <2>5. Calm(S, l, <<i>>)
    BY <1>0, ItemLoose, CalmOne
  <2> HIDE DEF first, i
  <2>6. Draft(S, l, first \o <<i>>)
    BY <1>0, <2>3, <2>4, <2>5, DraftJoined
  <2>. QED BY <2>6 DEF Conflict, first, i
<1>9. CASE Known(l, "claim", k) /\ Newer(now, o) /\ ~OtherPublisher(now, o) /\ IntegrateClaim(l, o) = <<one, s>>
  <2>1. LatestTime(now.obs) \in Nat /\ (\A p \in now.obs : Time(p) <= LatestTime(now.obs)) /\ Time(o) \in Nat
    BY <1>6, <1>9, Latest1, ReadingDated
  <2>2. \A p \in now.obs : Time(p) \in Nat
    BY <1>6, <1>9 DEF Dated
  <2>3. Later(now, one)
    <3>1. Groups(one) = {Group(o)}
      BY <1>2 DEF Groups
    <3>2. Group(o) \in Groups(now)
      BY <1>9 DEF OtherPublisher
    <3>3. Time(o) > LatestTime(now.obs)
      BY <1>9 DEF Newer
    <3> HIDE DEF one, now
    <3>4. \A p \in now.obs : Time(o) > Time(p)
      BY <2>1, <2>2, <3>3
    <3>. QED BY <1>2, <3>1, <3>2, <3>4 DEF Later
  <2>4. Fair(l, one)
    BY <1>2, <2>3 DEF Fair
  <2>5. Draft(S, l, <<one>>)
    BY <1>2, <1>3, <2>4, OneDraft DEF Judged
  <2> DEFINE F == {<<"claim", k>>}  a == <<one>>  b == <<s>>
  <2>6. StepIs(l, F, s) /\ s.type = "step" /\ "standing" \in S /\ s.what = "standing" /\ s.id = o
    BY Zenon DEF StepIs, Step, SemanticSteps, Has
  <2>7. Sound(l, F, s)
    BY <2>6 DEF Sound, Step, Unversioned, Versioned
  <2>8. IsSeq(b) /\ Len(b) = 1 /\ b[1] = s /\ Len(a) = 1 /\ a[1] = one
    BY Single
  <2>9. Facts(one) = F
    BY <1>2 DEF Facts
  <2>10. <<one, s>> = a \o b
    OBVIOUS
  <2> HIDE DEF a, b, one, s, F
  <2>11. Queue(S, l, a) /\ \A n \in 1 .. Len(a) : a[n].type # "step"
    <3>1. Queue(S, l, a)
      BY <2>5 DEF Draft, a
    <3>. QED BY <1>2, <2>8, <3>1
  <2>12. \A n \in 1 .. Len(b) : Sound(l, F, b[n]) /\ (b[n].type = "step" => n = Len(b) /\ b[n].what \in S)
    BY <2>6, <2>7, <2>8
  <2>13. \A f \in F : \E n \in 1 .. Len(a) : f \in Facts(a[n])
    BY <2>8, <2>9
  <2>14. Queue(S, l, a \o b)
    BY <1>0, <2>8, <2>11, <2>12, <2>13, Chained
  <2>15. Draft(S, l, a \o b)
    <3> DEFINE w == a \o b
    <3>1. IsSeq(a)
      BY <2>11 DEF Queue
    <3>2. Len(w) = 2 /\ w[1] = one /\ w[2] = s
      BY <2>8, <2>10, <3>1 DEF a, b
    <3> HIDE DEF w
    <3>3. \A n \in 1 .. Len(w) : n = 1 \/ n = 2
      BY <3>2
    <3>4. s.type \notin Judged
      BY <2>6 DEF Judged
    <3>5. Draft(S, l, w)
      BY <2>4, <2>14, <3>2, <3>3, <3>4 DEF Draft, w
    <3>. QED BY <3>5 DEF w
  <2>. QED BY <1>9, <2>10, <2>15
<1>. QED BY <1>0, <1>1, <1>4, <1>5, <1>7, <1>8, <1>9

LEMMA StandingDraft ==
  ASSUME NEW S, NEW l, Lawful(l), NEW o, Known(l, "claim", o[2])
  PROVE  Draft(S, l, EnsureStanding(l, o))
<1> DEFINE k == o[2]  claim == Max(Versions(l, "claim", k))
           e == SetStanding(k, "CURRENT", o)  i == Item(<<"moved", k, l[claim].version>>, "OPEN")
<1>1. \/ EnsureStanding(l, o) = <<>>
      \/ Standing(l, k) \in Bookkeeping /\ EnsureStanding(l, o) = <<e>>
      \/ EnsureStanding(l, o) = <<i>>
  BY DEF EnsureStanding
<1>2. IsSeq(l) /\ Draft(S, l, <<>>)
  BY FreeNone, FreeDraft DEF Lawful
<1>3. Draft(S, l, <<i>>)
  BY <1>2, ItemLoose, FreeOne, FreeDraft
<1>4. ASSUME Standing(l, k) \in Bookkeeping PROVE Draft(S, l, <<e>>)
  <2>1. e.type = "standing" /\ e.id = k /\ e.state = "CURRENT" /\ DOMAIN e = {"type", "id", "state", "cause"}
    BY DEF SetStanding
  <2> HIDE DEF e
  <2>2. Sound(l, {}, e) /\ Fair(l, e)
    BY <1>4, <2>1 DEF Sound, Fair, Lowers, Lowered, Versioned
  <2>. QED BY <2>1, <2>2, OneDraft DEF Judged
<1>. QED BY <1>1, <1>2, <1>3, <1>4

-----------------------------------------------------------------------------
(***************************************************************************)
(* Changes.                                                                *)
(***************************************************************************)
LEMMA Led ==
  ASSUME NEW S, NEW l, IsSeq(l), NEW e, Sound(l, {}, e), e.type # "step",
         NEW s, Sound(l, Facts(e), s), s.type = "step", s.what \in S
  PROVE  /\ Queue(S, l, <<e, s>>)
         /\ e.type \notin Judged => Calm(S, l, <<e, s>>)
<1> DEFINE a == <<e>>  b == <<s>>  w == <<e, s>>
<1>1. IsSeq(a) /\ Len(a) = 1 /\ a[1] = e /\ IsSeq(b) /\ Len(b) = 1 /\ b[1] = s
  BY Single
<1>2. Queue(S, l, a)
  BY OneQueued
<1>3. w = a \o b /\ Len(w) = 2 /\ w[1] = e /\ w[2] = s
  OBVIOUS
<1> HIDE DEF a, b, w
<1>4. \A k \in 1 .. Len(a) : a[k].type # "step"
  BY <1>1
<1>5. \A f \in Facts(e) : \E k \in 1 .. Len(a) : f \in Facts(a[k])
  BY <1>1
<1>6. \A n \in 1 .. Len(b) : Sound(l, Facts(e), b[n]) /\ (b[n].type = "step" => n = Len(b) /\ b[n].what \in S)
  BY <1>1
<1>7. Queue(S, l, a \o b)
  BY <1>1, <1>2, <1>4, <1>5, <1>6, Chained
<1>8. Queue(S, l, w)
  BY <1>3, <1>7
<1>9. ASSUME e.type \notin Judged PROVE Calm(S, l, w)
  <2>1. s.type \notin Judged
    BY DEF Judged
  <2>2. \A n \in 1 .. Len(w) : w[n] = e \/ w[n] = s
    BY <1>3
  <2>. QED BY <1>8, <1>9, <2>1, <2>2 DEF Calm
<1>. QED BY <1>8, <1>9 DEF w

LEMMA StepSound ==
  ASSUME NEW l, NEW F, NEW what, NEW id, StepIs(l, F, Step(what, id))
  PROVE  Sound(l, F, Step(what, id)) /\ Step(what, id).type = "step" /\ Step(what, id).what = what
BY DEF Sound, Step, Unversioned, Versioned

LEMMA TwoJoined ==
  ASSUME NEW e, NEW s
  PROVE  <<e, s>> = <<e>> \o <<s>>
<1> DEFINE w == <<e, s>>
<1>1. w \in Seq({e, s}) /\ Len(w) = 2 /\ w[1] = e /\ w[2] = s
  OBVIOUS
<1> HIDE DEF w
<1>2. IsSeq(w)
  BY <1>1, AnySeq
<1> DEFINE a == <<e>>  v == a \o <<s>>
<1>3. IsSeq(a) /\ Len(a) = 1 /\ a[1] = e
  BY Single
<1> HIDE DEF a
<1>4. IsSeq(v) /\ Len(v) = Len(a) + 1 /\ v[Len(a) + 1] = s /\ \A n \in 1 .. Len(a) : v[n] = a[n]
  BY <1>3, JoinedOne
<1> HIDE DEF v
<1>5. Len(v) = 2 /\ v[1] = e /\ v[2] = s
  BY <1>3, <1>4
<1>6. \A n \in 1 .. Len(w) : w[n] = v[n]
  BY <1>1, <1>5
<1>7. w = v
  BY <1>1, <1>2, <1>4, <1>5, <1>6, SameSeq
<1>. QED BY <1>7 DEF w, v, a

LEMMA RecordChangeDraft ==
  ASSUME NEW S, SemanticSteps \subseteq S, NEW l, Lawful(l), NEW id, Shows(l, id), NEW gone
  PROVE  Draft(S, l, RecordChange(l, id, gone))
<1> DEFINE e == [type |-> "change", id |-> id, claims |-> Affects(l, id[4]),
                 value |-> IF gone \/ id[4] = "" THEN "" ELSE Value(<<id[2], id[4]>>)]
           s == Step("recorded", id)
<1>1. RecordChange(l, id, gone) = <<e, s>>
  BY DEF RecordChange
<1>2. e.type = "change" /\ e.id = id /\ e.claims \subseteq {id[4]} /\ {"type", "id"} \subseteq DOMAIN e /\ ~Versioned(e)
  BY Zenon DEF Affects, Versioned
<1>3. IsSeq(l) /\ "recorded" \in S
  BY Zenon DEF Lawful, SemanticSteps
<1>4. StepIs(l, {<<"change", id>>}, Step("recorded", id))
  BY DEF StepIs, Step, Has
<1>5. Sound(l, {<<"change", id>>}, s) /\ s.type = "step" /\ s.what = "recorded"
  BY <1>4, StepSound
<1> HIDE DEF e, s
<1>6. Sound(l, {}, e)
  BY <1>2 DEF Sound
<1>7. Facts(e) = {<<"change", id>>} /\ e.type \notin Judged
  BY <1>2 DEF Facts, Judged
<1>8. Calm(S, l, <<e, s>>)
  BY <1>2, <1>3, <1>5, <1>6, <1>7, Led
<1>. QED BY <1>1, <1>8, CalmDraft

LEMMA ChangeSound ==
  ASSUME NEW l, Lawful(l), NEW i \in DOMAIN l, l[i].type = "change"
  PROVE  Shows(l, l[i].id) /\ l[i].claims \subseteq {l[i].id[4]} /\ Known(l, "change", l[i].id)
<1>1. Sound(l, {}, l[i])
  BY LawfulSound
<1>. QED BY <1>1 DEF Sound, Known, Versions

LEMMA LastToldIs ==
  ASSUME NEW l, IsSeq(l), NEW id, Known(l, "change", id)
  PROVE  LastTold(l, id) \in DOMAIN l /\ l[LastTold(l, id)].type = "change" /\ l[LastTold(l, id)].id = id
<1> DEFINE V == Versions(l, "change", id)
<1>1. V \subseteq 1 .. Len(l) /\ V # {} /\ Len(l) \in Nat /\ DOMAIN l = 1 .. Len(l)
  BY VersionsFacts, SeqFacts DEF Known
<1>2. Max(V) \in V
  BY <1>1, MaxOf
<1>. QED BY <1>2 DEF LastTold, Versions

LEMMA AtMostOne ==
  ASSUME NEW x, NEW K, K \subseteq {x}
  PROVE  IsSeq(SetToSeq(K)) /\ Len(SetToSeq(K)) <= 1 /\ \A n \in DOMAIN SetToSeq(K) : SetToSeq(K)[n] \in K
<1>1. IsFiniteSet(K) /\ Cardinality(K) <= 1 /\ Cardinality(K) \in Nat
  <2>1. CASE K = {}
    BY <2>1, FS_EmptySet
  <2>2. CASE K = {x}
    BY <2>2, FS_Singleton
  <2>. QED BY <2>1, <2>2
<1> DEFINE s == SetToSeq(K)
<1>2. s \in [1 .. Cardinality(K) -> K]
  BY <1>1, SetToSeqIs
<1> HIDE DEF s
<1>3. s \in Seq(K) /\ Len(s) = Cardinality(K) /\ \A n \in DOMAIN s : s[n] \in K
  BY <1>1, <1>2
<1>4. IsSeq(s)
  BY <1>3, AnySeq
<1>. QED BY <1>1, <1>3, <1>4 DEF s

LEMMA StateForIs ==
  /\ DOMAIN StateFor = {"SOURCE_CORRECTION", "SOURCE_RETRACTION", "ENTITY_ATTRIBUTE_CHANGED", "VALUE_CHANGED",
                        "ROLE_CHANGED", "REMOVED_PROPOSITION", "RELATION_REMOVED"}
  /\ StateFor["SOURCE_CORRECTION"] = "CORRECTED" /\ StateFor["SOURCE_RETRACTION"] = "RETRACTED"
  /\ StateFor["ENTITY_ATTRIBUTE_CHANGED"] = "SUPERSEDED"
  /\ StateFor["VALUE_CHANGED"] = "STALE" /\ StateFor["ROLE_CHANGED"] = "STALE"
  /\ StateFor["REMOVED_PROPOSITION"] = "" /\ StateFor["RELATION_REMOVED"] = ""
BY DEF StateFor

LEMMA StandingMoved ==
  ASSUME NEW S, NEW l, Lawful(l), NEW id, Known(l, "change", id), Shows(l, id), id[3] \in DOMAIN StateFor, StateFor[id[3]] # "",
         MayMove(Standing(l, id[4]))
  PROVE  Draft(S, l, <<SetStanding(id[4], StateFor[id[3]], id)>>)
<1> DEFINE state == StateFor[id[3]]  e == SetStanding(id[4], state, id)
<1>1. state \in Lowered /\ (state = "CORRECTED" <=> id[3] = "SOURCE_CORRECTION")
  BY StateForIs, Zenon DEF Lowered
<1>2. state # "CURRENT"
  BY StateForIs, Zenon
<1> HIDE DEF state
<1>3. e.type = "standing" /\ e.id = id[4] /\ e.state = state /\ e.cause = id /\ DOMAIN e = {"type", "id", "state", "cause"}
  BY Zenon DEF SetStanding
<1> HIDE DEF e
<1>4. Lowers(l, e)
  BY <1>1, <1>3, Zenon DEF Lowers, Shows
<1>5. Sound(l, {}, e)
  BY <1>3, <1>4, Zenon DEF Sound, Versioned
<1>6. Fair(l, e)
  BY <1>2, <1>3, Zenon DEF Fair, MayMove
<1>7. Draft(S, l, <<e>>)
  BY <1>3, <1>5, <1>6, OneDraft, Zenon DEF Judged
<1>. QED BY <1>7, Zenon DEF e, state

LEMMA PropagatedDraft ==
  ASSUME NEW S, NEW l, Lawful(l), NEW at \in DOMAIN l, l[at].type = "change"
  PROVE  Draft(S, l, Propagated(l, at))
<1> DEFINE change == l[at]  id == change.id
           claims == SetToSeq(change.claims)
           Restate(k) == LET state == StateFor[id[3]] IN
             IF /\ state # "" /\ ~Above(l, at, k) /\ Current(l, "claim", k).value # change.value
                /\ MayMove(Standing(l, k)) /\ Standing(l, k) # state
             THEN <<SetStanding(k, state, id)>> ELSE <<>>
           One(k) == Restate(k) \o <<Item(<<"change", k, id>>, "OPEN")>>
           parts == [n \in DOMAIN claims |-> One(claims[n])]
<1>1. Propagated(l, at) = IF id[3] \notin DOMAIN StateFor THEN <<>> ELSE Flat(parts)
  BY DEF Propagated
<1>2. Shows(l, id) /\ change.claims \subseteq {id[4]} /\ Known(l, "change", id)
  BY ChangeSound
<1>3. IsSeq(l) /\ Draft(S, l, <<>>)
  BY FreeNone, FreeDraft DEF Lawful
<1> HIDE DEF change, id
<1>4. IsSeq(claims) /\ Len(claims) <= 1 /\ \A n \in DOMAIN claims : claims[n] \in change.claims
  BY <1>2, AtMostOne
<1> HIDE DEF claims
<1>5. ASSUME id[3] \in DOMAIN StateFor PROVE Draft(S, l, One(id[4]))
  <2>1. Restate(id[4]) = <<>> \/ (StateFor[id[3]] # "" /\ MayMove(Standing(l, id[4])) /\ Restate(id[4]) = <<SetStanding(id[4], StateFor[id[3]], id)>>)
    BY Zenon
  <2> HIDE DEF Restate
  <2>2. Draft(S, l, Restate(id[4]))
    BY <1>2, <1>3, <1>5, <2>1, StandingMoved, Zenon
  <2>3. Calm(S, l, <<Item(<<"change", id[4], id>>, "OPEN")>>)
    BY <1>3, ItemLoose, CalmOne
  <2>. QED BY <1>3, <2>2, <2>3, DraftJoined
<1>6. \A n \in DOMAIN claims : claims[n] = id[4]
  BY <1>2, <1>4
<1> HIDE DEF One
<1>7. parts = [n \in DOMAIN claims |-> parts[n]] /\ \A n \in DOMAIN claims : parts[n] = One(id[4])
  BY <1>6
<1> HIDE DEF parts
<1>8. IsSeq(parts) /\ Len(parts) <= 1 /\ DOMAIN parts = DOMAIN claims /\ DOMAIN claims = 1 .. Len(claims) /\ Len(parts) = Len(claims) /\ Len(claims) \in Nat
  BY <1>4, <1>7, Mapped, SeqFacts
<1>9. ASSUME id[3] \in DOMAIN StateFor PROVE Draft(S, l, Flat(parts))
  <2>1. Draft(S, l, One(id[4])) /\ IsSeq(One(id[4]))
    BY <1>5, <1>9 DEF Draft, Queue
  <2>2. IF Len(parts) = 1 THEN Flat(parts) = parts[1] ELSE Flat(parts) = <<>>
    BY <1>7, <1>8, <2>1, FlatOne
  <2>3. Len(parts) = 1 => parts[1] = One(id[4])
    BY <1>7, <1>8
  <2>. QED BY <1>3, <2>1, <2>2, <2>3
<1>. QED BY <1>1, <1>3, <1>9

(***************************************************************************)
(* The differences of two readings.                                        *)
(***************************************************************************)
Real(l, m, d)  == d.class \in DOMAIN StateFor /\ Readings[m].truncated =>
                    d.class = "SOURCE_CORRECTION" /\ Known(l, "observation", <<m, d.topic>>)
Found(l, m, q) == IsSeq(q) /\ \A n \in DOMAIN q : Real(l, m, q[n])

LEMMA ClassifiedFound ==
  ASSUME NEW l, NEW m, NEW cue, NEW how \in {"added", "removed", "changed"}, NEW topics,
         how = "added" => \A k \in topics : Known(l, "observation", <<m, k>>)
  PROVE  Found(l, m, Classified(m, cue, how, Ordered(topics)))
<1> DEFINE order == Ordered(topics)
           Class(kind) == CASE how = "added" -> AddedClass(cue, kind)
                            [] how = "removed" -> RemovedClass(cue, kind)
                            [] how = "changed" -> ChangedClass(cue, kind)
           D(k) == Difference(Class(Topics[k].kind), k, how = "removed")
           g == [n \in DOMAIN order |-> Unresolved(m, D(order[n]), how # "added")]
<1>1. Classified(m, cue, how, order) = g
  BY DEF Classified
<1>2. IsSeq(order) /\ \A n \in DOMAIN order : order[n] \in topics
  BY OrderedFacts
<1> HIDE DEF order
<1>3. ASSUME NEW k \in topics PROVE Real(l, m, Unresolved(m, D(k), how # "added"))
  <2> DEFINE d == D(k)
  <2>1. d.topic = k /\ d.class = Class(Topics[k].kind) /\ "class" \in DOMAIN d /\ d = [d EXCEPT !.class = d.class]
    BY DEF Difference
  <2>2. CASE how = "added"
    <3>1. \A kind : AddedClass(cue, kind) \in {"RELATION_ADDED", "EVENT_ADDED", "SOURCE_CORRECTION", "NEW_PROPOSITION"}
      BY DEF AddedClass
    <3>2. d.class = AddedClass(cue, Topics[k].kind)
      BY <2>1, <2>2
    <3> HIDE DEF d, D
    <3>3. d.class \in DOMAIN StateFor => d.class = "SOURCE_CORRECTION"
      BY <3>1, <3>2 DEF StateFor
    <3>4. Unresolved(m, d, how # "added") = d
      BY <2>2 DEF Unresolved
    <3>. QED BY <2>1, <2>2, <3>3, <3>4 DEF Real, d
  <2>3. CASE how # "added"
    <3> HIDE DEF d, D
    <3> DEFINE u == [d EXCEPT !.class = "UNRESOLVED_CHANGE"]
    <3>1. u.class = "UNRESOLVED_CHANGE" /\ u.class \notin DOMAIN StateFor
      BY <2>1 DEF StateFor
    <3>2. Unresolved(m, d, how # "added") = IF Readings[m].truncated /\ d.class \in DOMAIN StateFor THEN u ELSE d
      BY <2>3 DEF Unresolved
    <3> HIDE DEF u
    <3>. QED BY <3>1, <3>2 DEF Real, d
  <2>. QED BY <2>2, <2>3
<1>4. g = [n \in DOMAIN order |-> g[n]] /\ \A n \in DOMAIN order : g[n] = Unresolved(m, D(order[n]), how # "added")
  OBVIOUS
<1> HIDE DEF D, g
<1>5. \A n \in DOMAIN order : Real(l, m, g[n])
  BY <1>2, <1>3, <1>4
<1>6. IsSeq(g) /\ DOMAIN g = DOMAIN order
  BY <1>2, <1>4, Mapped, SeqFacts
<1>. QED BY <1>1, <1>5, <1>6 DEF Found, order

LEMMA FoundOne ==
  ASSUME NEW l, NEW m, NEW class, class \notin DOMAIN StateFor, NEW k
  PROVE  Found(l, m, <<Difference(class, k, FALSE)>>)
<1> DEFINE d == Difference(class, k, FALSE)  q == <<d>>
<1>1. d.class \notin DOMAIN StateFor
  BY DEF Difference
<1>2. IsSeq(q) /\ Len(q) = 1 /\ q[1] = d
  BY Single
<1> HIDE DEF d, q
<1>3. DOMAIN q = 1 .. 1
  BY <1>2, SeqFacts
<1>4. Real(l, m, d)
  BY <1>1 DEF Real
<1>5. \A n \in DOMAIN q : n = 1
  BY <1>3
<1>6. Found(l, m, q)
  BY <1>2, <1>4, <1>5 DEF Found
<1>. QED BY <1>6 DEF q, d

LEMMA FoundJoined ==
  ASSUME NEW l, NEW m, NEW a, Found(l, m, a), NEW b, Found(l, m, b)
  PROVE  Found(l, m, a \o b)
<1> DEFINE w == a \o b
<1>1. /\ IsSeq(a) /\ IsSeq(b) /\ Len(a) \in Nat /\ Len(b) \in Nat
      /\ DOMAIN a = 1 .. Len(a) /\ DOMAIN b = 1 .. Len(b)
  BY SeqFacts DEF Found
<1>2. /\ IsSeq(w) /\ DOMAIN w = 1 .. Len(a) + Len(b)
      /\ \A n \in 1 .. Len(a) : w[n] = a[n]
      /\ \A n \in 1 .. Len(b) : w[Len(a) + n] = b[n]
  BY <1>1, Concatenated
<1> HIDE DEF w
<1>3. ASSUME NEW n \in DOMAIN w PROVE Real(l, m, w[n])
  <2>1. CASE n <= Len(a)
    BY <1>1, <1>2, <2>1 DEF Found
  <2>2. CASE ~(n <= Len(a))
    <3>1. n - Len(a) \in 1 .. Len(b) /\ n = Len(a) + (n - Len(a))
      BY <1>1, <1>2, <2>2
    <3>2. w[n] = b[n - Len(a)]
      BY <1>2, <3>1
    <3>. QED BY <1>1, <3>1, <3>2 DEF Found
  <2>. QED BY <2>1, <2>2
<1>. QED BY <1>2, <1>3 DEF Found, w

LEMMA PairwiseFound ==
  ASSUME NEW l, Lawful(l), NEW p, NEW m
  PROVE  Found(l, m, ClassifyPairwise(l, p, m))
<1> DEFINE before  == IF p = "" THEN {} ELSE Observed(l, p)
           after   == Observed(l, m)
           cue     == IF Known(l, "document", m) THEN Readings[m].cue ELSE ""
           changed == {k \in before \cap after : Value(<<p, k>>) # Value(<<m, k>>)}
           a == Classified(m, cue, "added", Ordered(after \ before))
           b == Classified(m, cue, "removed", Ordered(before \ after))
           c == Classified(m, cue, "changed", Ordered(changed))
<1>1. ClassifyPairwise(l, p, m) = OrUnchanged(a \o b \o c)
  BY DEF ClassifyPairwise
<1>2. \A k \in after : Known(l, "observation", <<m, k>>)
  BY ObservedFacts
<1>3. \A k \in after \ before : Known(l, "observation", <<m, k>>)
  BY <1>2, Zenon
<1> HIDE DEF before, after, cue, changed
<1>4. Found(l, m, a) /\ Found(l, m, b) /\ Found(l, m, c)
  BY <1>3, ClassifiedFound
<1> HIDE DEF a, b, c
<1>5. Found(l, m, a \o b)
  BY <1>4, FoundJoined
<1>6. Found(l, m, a \o b \o c)
  BY <1>4, <1>5, FoundJoined
<1>7. Found(l, m, <<Difference("SEMANTICALLY_UNCHANGED", "", FALSE)>>)
  <2>1. "SEMANTICALLY_UNCHANGED" \notin DOMAIN StateFor
    BY DEF StateFor
  <2>. QED BY <2>1, FoundOne, Zenon
<1>. QED BY <1>1, <1>6, <1>7, Zenon DEF OrUnchanged

LEMMA DiscoveredFound ==
  ASSUME NEW l, NEW m
  PROVE  Found(l, m, Discovered(l, m))
<1> DEFINE order == Ordered(Observed(l, m))
           g == [n \in DOMAIN order |-> Difference("HISTORICAL_STATE_DISCOVERED", order[n], FALSE)]
<1>1. Discovered(l, m) = IF order = <<>> THEN <<Difference("HISTORICAL_STATE_DISCOVERED", "", FALSE)>> ELSE g
  BY DEF Discovered
<1>2. "HISTORICAL_STATE_DISCOVERED" \notin DOMAIN StateFor
  BY DEF StateFor
<1>3. Found(l, m, <<Difference("HISTORICAL_STATE_DISCOVERED", "", FALSE)>>)
  BY <1>2, FoundOne, Zenon
<1>4. IsSeq(order)
  BY OrderedFacts
<1> HIDE DEF order
<1>5. g = [n \in DOMAIN order |-> g[n]] /\ \A n \in DOMAIN order : g[n].class = "HISTORICAL_STATE_DISCOVERED"
  BY DEF Difference
<1> HIDE DEF g
<1>6. IsSeq(g) /\ DOMAIN g = DOMAIN order
  BY <1>4, <1>5, Mapped, SeqFacts
<1>7. Found(l, m, g)
  BY <1>2, <1>5, <1>6 DEF Found, Real
<1>. QED BY <1>1, <1>3, <1>7, Zenon

LEMMA CappedFound ==
  ASSUME NEW l, NEW m, NEW found, Found(l, m, found)
  PROVE  Found(l, m, Capped(found))
<1> DEFINE some == Prefix(found, MaxRecords)
<1>1. Capped(found) = IF Len(found) <= MaxRecords THEN found
                      ELSE some \o <<Difference("UNRESOLVED_CHANGE", "", FALSE)>>
  BY DEF Capped, Prefix
<1>2. Found(l, m, <<Difference("UNRESOLVED_CHANGE", "", FALSE)>>)
  <2>1. "UNRESOLVED_CHANGE" \notin DOMAIN StateFor
    BY DEF StateFor
  <2>. QED BY <2>1, FoundOne, Zenon
<1>3. IsSeq(found) /\ Len(found) \in Nat /\ DOMAIN found = 1 .. Len(found) /\ MaxRecords \in Nat
  BY SemanticAssumption, SeqFacts DEF Found
<1>4. ASSUME ~(Len(found) <= MaxRecords) PROVE Found(l, m, some)
  <2>1. MaxRecords \in 0 .. Len(found)
    BY <1>3, <1>4
  <2>2. IsSeq(some) /\ DOMAIN some = 1 .. MaxRecords /\ \A i \in 1 .. MaxRecords : some[i] = found[i]
    BY <1>3, <2>1, PrefixFacts
  <2> HIDE DEF some
  <2>3. \A i \in DOMAIN some : i \in DOMAIN found /\ some[i] = found[i]
    BY <1>3, <2>1, <2>2
  <2>. QED BY <2>2, <2>3 DEF Found
<1> HIDE DEF some
<1>. QED BY <1>1, <1>2, <1>4, FoundJoined, Zenon

LEMMA AlertsFree ==
  ASSUME NEW S, NEW l, IsSeq(l), NEW ids, IsSeq(ids)
  PROVE  Free(S, l, RaiseAlerts(ids))
<1> DEFINE at == {n \in DOMAIN ids : IsAlerted(ids[n])}
           new == Only(ids, at)
           g == [n \in DOMAIN new |-> [type |-> "alert", id |-> <<"semantic", new[n]>>]]
<1>1. RaiseAlerts(ids) = g
  BY DEF RaiseAlerts
<1> HIDE DEF at
<1>2. IsSeq(new)
  BY OnlyKeeps
<1> HIDE DEF new
<1>3. g = [n \in DOMAIN new |-> g[n]] /\ \A n \in DOMAIN new : {"type", "id"} \subseteq DOMAIN g[n] /\ g[n].type = "alert"
  OBVIOUS
<1> HIDE DEF g
<1>4. \A n \in DOMAIN new : Loose(S, l, g[n])
  BY <1>3, PlainLoose, Zenon DEF Plain
<1>5. Free(S, l, g)
  BY <1>2, <1>3, <1>4, MappedFree
<1>. QED BY <1>1, <1>5

LEMMA PropagateLoose ==
  ASSUME NEW S, SemanticSteps \subseteq S, NEW l, NEW i \in DOMAIN l, l[i].type = "change"
  PROVE  Loose(S, l, Step("propagate", i))
<1>1. StepIs(l, {}, Step("propagate", i)) /\ "propagate" \in S
  BY Zenon DEF StepIs, Step, SemanticSteps
<1>. QED BY <1>1, StepLoose

LEMMA ChangeLoose ==
  ASSUME NEW S, SemanticSteps \subseteq S, NEW l, NEW id, Shows(l, id), NEW gone
  PROVE  Loose(S, l, Step("change", <<id, gone>>))
<1>1. StepIs(l, {}, Step("change", <<id, gone>>)) /\ "change" \in S
  BY Zenon DEF StepIs, Step, SemanticSteps
<1>. QED BY <1>1, StepLoose

LEMMA InterpretationFree ==
  ASSUME NEW S, SemanticSteps \subseteq S, NEW l, Lawful(l), NEW p, NEW m, NEW watched, NEW found, Found(l, m, found), Origin(l, p, m)
  PROVE  Free(S, l, Interpretation(l, p, m, watched, found))
<1> DEFINE ids == [n \in DOMAIN found |-> ChangeId(p, m, found[n])]
           old == {n \in DOMAIN found : Known(l, "change", ids[n])}
           g   == [n \in DOMAIN found |-> IF n \in old THEN Step("propagate", LastTold(l, ids[n])) ELSE Step("change", <<ids[n], found[n].gone>>)]
           rest == DOMAIN found \ old
           r   == IF watched THEN RaiseAlerts(Only(ids, rest)) ELSE <<>>
<1>1. Interpretation(l, p, m, watched, found) = g \o r
  BY DEF Interpretation
<1>2. IsSeq(found) /\ IsSeq(l) /\ \A n \in DOMAIN found : Real(l, m, found[n])
  BY DEF Found, Lawful
<1>3. ids = [n \in DOMAIN found |-> ids[n]] /\ \A n \in DOMAIN found : ids[n] = ChangeId(p, m, found[n])
  OBVIOUS
<1> HIDE DEF ids
<1>4. IsSeq(ids)
  BY <1>2, <1>3, Mapped
<1>5. \A n \in DOMAIN found : Shows(l, ids[n])
  BY <1>2, <1>3 DEF Shows, Real, ChangeId
<1>6. \A n \in old : Known(l, "change", ids[n])
  OBVIOUS
<1> HIDE DEF old, rest
<1>7. g = [n \in DOMAIN found |-> g[n]] /\ \A n \in DOMAIN found : g[n] = IF n \in old THEN Step("propagate", LastTold(l, ids[n])) ELSE Step("change", <<ids[n], found[n].gone>>)
  OBVIOUS
<1> HIDE DEF g
<1>8. \A n \in DOMAIN found : Loose(S, l, g[n])
  <2>1. \A id : Known(l, "change", id) => Loose(S, l, Step("propagate", LastTold(l, id)))
    BY <1>2, PropagateLoose, LastToldIs
  <2>2. \A id, gone : Shows(l, id) => Loose(S, l, Step("change", <<id, gone>>))
    BY ChangeLoose
  <2>3. ASSUME NEW n \in DOMAIN found PROVE Loose(S, l, g[n])
    <3>1. CASE n \in old
      BY <1>6, <1>7, <2>1, <3>1
    <3>2. CASE n \notin old
      <4>1. g[n] = Step("change", <<ids[n], found[n].gone>>) /\ Shows(l, ids[n])
        BY <1>5, <1>7, <3>2
      <4>. QED BY <2>2, <4>1
    <3>. QED BY <3>1, <3>2
  <2>. QED BY <2>3
<1>9. Free(S, l, g)
  BY <1>2, <1>7, <1>8, MappedFree
<1>10. IsSeq(Only(ids, rest))
  BY <1>4, OnlyKeeps
<1>11. Free(S, l, r)
  BY <1>2, <1>10, AlertsFree, FreeNone
<1> HIDE DEF r
<1>. QED BY <1>1, <1>9, <1>11, FreeJoined

LEMMA InterpretFree ==
  ASSUME NEW S, SemanticSteps \subseteq S, NEW l, Lawful(l), NEW p, NEW m, NEW watched, Origin(l, p, m)
  PROVE  Free(S, l, InterpretChange(l, p, m, watched))
<1> DEFINE found == IF p = "" /\ Readings[m].historical THEN Discovered(l, m) ELSE ClassifyPairwise(l, p, m)
<1>1. InterpretChange(l, p, m, watched) = Interpretation(l, p, m, watched, Capped(found))
  BY DEF InterpretChange
<1>2. Found(l, m, found)
  BY DiscoveredFound, PairwiseFound, Zenon
<1> HIDE DEF found
<1>3. Found(l, m, Capped(found))
  BY <1>2, CappedFound
<1>. QED BY <1>1, <1>3, InterpretationFree

LEMMA ChangesOfFacts ==
  ASSUME NEW l, IsSeq(l), NEW p, NEW m
  PROVE  /\ IsSeq(ChangesOf(l, p, m))
         /\ \A n \in DOMAIN ChangesOf(l, p, m) : ChangesOf(l, p, m)[n] \in DOMAIN l /\ l[ChangesOf(l, p, m)[n]].type = "change"
         /\ \A i \in DOMAIN l : l[i].type = "change" /\ l[i].id[1] = p /\ l[i].id[2] = m =>
              \E n \in DOMAIN ChangesOf(l, p, m) : ChangesOf(l, p, m)[n] = i
<1> DEFINE at == {i \in DOMAIN l : l[i].type = "change" /\ l[i].id[1] = p /\ l[i].id[2] = m}
           own == [i \in DOMAIN l |-> i]
           all == Only(own, at)
<1>1. ChangesOf(l, p, m) = all
  BY DEF ChangesOf
<1>2. own = [i \in DOMAIN l |-> own[i]] /\ \A i \in DOMAIN l : own[i] = i
  OBVIOUS
<1> HIDE DEF own
<1>3. IsSeq(own) /\ DOMAIN own = DOMAIN l /\ DOMAIN l = 1 .. Len(l) /\ Len(own) = Len(l)
  BY <1>2, Mapped, SeqFacts
<1>4. PICK h : Picks(own, at, Len(own), all, h)
  BY <1>3, OnlyPicks
<1>5. at \subseteq DOMAIN l /\ \A i \in at : l[i].type = "change"
  OBVIOUS
<1>6. \A i \in DOMAIN l : l[i].type = "change" /\ l[i].id[1] = p /\ l[i].id[2] = m => i \in at
  OBVIOUS
<1> HIDE DEF all, at
<1>7. /\ IsSeq(all) /\ DOMAIN all = 1 .. Len(all)
      /\ \A n \in 1 .. Len(all) : h[n] \in at /\ all[n] = own[h[n]]
      /\ \A j \in 1 .. Len(own) : j \in at => \E n \in 1 .. Len(all) : h[n] = j
  BY <1>4, SeqFacts DEF Picks
<1>8. \A n \in DOMAIN all : all[n] = h[n] /\ h[n] \in at
  BY <1>2, <1>5, <1>7
<1>9. \A n \in DOMAIN all : all[n] \in DOMAIN l /\ l[all[n]].type = "change"
  BY <1>5, <1>8
<1>10. ASSUME NEW i \in DOMAIN l, l[i].type = "change" /\ l[i].id[1] = p /\ l[i].id[2] = m
       PROVE  \E n \in DOMAIN all : all[n] = i
  <2>1. i \in at /\ i \in 1 .. Len(own)
    BY <1>3, <1>6, <1>10
  <2>2. PICK n \in 1 .. Len(all) : h[n] = i
    BY <1>7, <2>1
  <2>. QED BY <1>7, <1>8, <2>2
<1>. QED BY <1>1, <1>7, <1>9, <1>10

LEMMA CompleteFree ==
  ASSUME NEW S, SemanticSteps \subseteq S, NEW l, IsSeq(l), NEW p, NEW m, NEW watched
  PROVE  Free(S, l, CompletePair(l, p, m, watched))
<1> DEFINE all == ChangesOf(l, p, m)
           g == [n \in DOMAIN all |-> Step("propagate", all[n])]
           ids == [n \in DOMAIN all |-> l[all[n]].id]
           r == IF watched THEN RaiseAlerts(ids) ELSE <<>>
<1>1. CompletePair(l, p, m, watched) = g \o r
  BY DEF CompletePair
<1>2. IsSeq(all) /\ \A n \in DOMAIN all : all[n] \in DOMAIN l /\ l[all[n]].type = "change"
  BY ChangesOfFacts
<1> HIDE DEF all
<1>3. g = [n \in DOMAIN all |-> g[n]] /\ \A n \in DOMAIN all : g[n] = Step("propagate", all[n])
  OBVIOUS
<1>5. ids = [n \in DOMAIN all |-> ids[n]]
  OBVIOUS
<1> HIDE DEF g, ids
<1>4. Free(S, l, g)
  BY <1>2, <1>3, PropagateLoose, MappedFree
<1>6. IsSeq(ids)
  BY <1>2, <1>5, Mapped
<1>7. Free(S, l, r)
  BY <1>6, AlertsFree, FreeNone
<1> HIDE DEF r
<1>. QED BY <1>1, <1>4, <1>7, FreeJoined

LEMMA PairFree ==
  ASSUME NEW S, SemanticSteps \subseteq S, NEW l, Lawful(l), NEW p, NEW m \in DOMAIN Readings, NEW seen, NEW kept,
         kept => p \in DOMAIN Readings, Origin(l, IF kept THEN p ELSE "", m), NEW bad, NEW watched
  PROVE  Free(S, l, Pair(l, p, m, seen, kept, bad, watched))
<1> DEFINE a == IF kept THEN <<Process(p, bad)>> ELSE <<>>
           x == <<IF kept THEN p ELSE "", m, watched>>
           e == Process(m, bad)  s == Step("interpret", x)
           b == <<e, s>>  y == <<e>>  z == <<s>>
<1>1. Pair(l, p, m, seen, kept, bad, watched) = IF seen THEN CompletePair(l, p, m, watched) ELSE a \o b
  BY Zenon DEF Pair
<1>2. Free(S, l, a)
  BY ProcessLoose, FreeOne, FreeNone, Zenon
<1>3. Free(S, l, y)
  BY ProcessLoose, FreeOne, Zenon
<1>4. Free(S, l, z)
  <2>2. Origin(l, x[1], x[2])
    BY Zenon
  <2> HIDE DEF x
  <2>1. StepIs(l, {}, Step("interpret", x)) /\ "interpret" \in S
    BY <2>2, Zenon DEF StepIs, Step, SemanticSteps
  <2>. QED BY <2>1, StepLoose, FreeOne, Zenon
<1> HIDE DEF a, e, s
<1>5. b = y \o z
  BY TwoJoined, Zenon
<1> HIDE DEF b, y, z
<1>6. Free(S, l, a \o b)
  BY <1>2, <1>3, <1>4, <1>5, FreeJoined, Zenon
<1>7. IsSeq(l)
  BY Zenon DEF Lawful
<1>. QED BY <1>1, <1>6, <1>7, CompleteFree, Zenon

LEMMA RetrievedIs ==
  ASSUME NEW l, Lawful(l), NEW m, Known(l, "manifestation", m)
  PROVE  m \in DOMAIN Readings
<1> DEFINE now == Current(l, "manifestation", m)
<1>1. Sound(l, {}, now) /\ now.type = "manifestation" /\ now.id = m
  BY CurrentSound
<1> HIDE DEF now
<1>. QED BY <1>1 DEF Sound

(* What a watch has found lies between two states that are there. *)
LEMMA WatchedIs ==
  ASSUME NEW l, Lawful(l), NEW j \in DOMAIN l, l[j].type = "fabric change", l[j].failed = FALSE, Known(l, "manifestation", l[j].id[2])
  PROVE  /\ l[j].id = <<l[j].id[1], l[j].id[2]>>
         /\ Origin(l, l[j].id[1], l[j].id[2])
         /\ Known(l, "manifestation", l[j].id[1]) \/ l[j].id[1] = ""
<1> DEFINE e == l[j]
<1>2. Sound(l, {}, e)
  BY LawfulSound, Zenon
<1>3. /\ e.id = <<e.id[1], e.id[2]>>
      /\ e.id[1] \in {None, e.id[2]} \/ e.id[2] = None \/ Has(l, {}, "manifestation", e.id[1])
  BY <1>2, Zenon DEF Sound
<1>4. e.id[2] # None
  BY RetrievedIs, FabricAssumption, Zenon
<1>5. Known(l, "manifestation", e.id[1]) \/ e.id[1] = ""
  BY <1>3, <1>4, Zenon DEF Has, None
<1>6. Origin(l, e.id[1], e.id[2])
  BY <1>3, Zenon DEF Origin
<1>. QED BY <1>3, <1>5, <1>6, Zenon

LEMMA MonitorFree ==
  ASSUME NEW S, SemanticSteps \subseteq S, NEW l, Lawful(l), NEW bad
  PROVE  Free(S, l, ProcessFabricChanges(l, bad))
<1> DEFINE at == {i \in DOMAIN l : l[i].type = "fabric change" /\ l[i].failed = FALSE /\ Known(l, "manifestation", l[i].id[2])}
           all == Only(l, at)
           Again(n) == all[n].id \in Interpreted(l) \/ \E i \in 1 .. n - 1 : all[i].id = all[n].id
           g == [n \in DOMAIN all |-> Step("pair", <<all[n].id, Again(n), Known(l, "manifestation", all[n].id[1]), bad>>)]
<1>1. ProcessFabricChanges(l, bad) = g
  BY DEF ProcessFabricChanges
<1>2. \A i \in at : Known(l, "manifestation", l[i].id[2]) /\ Origin(l, l[i].id[1], l[i].id[2])
                    /\ (Known(l, "manifestation", l[i].id[1]) \/ l[i].id[1] = "")
  BY WatchedIs, Zenon
<1>3. IsSeq(l)
  BY DEF Lawful
<1> HIDE DEF at
<1>4. IsSeq(all) /\ \A n \in DOMAIN all : \E j \in DOMAIN l : j \in at /\ all[n] = l[j]
  BY <1>3, OnlyKeeps
<1> HIDE DEF all
<1>5. \A n \in DOMAIN all : Known(l, "manifestation", all[n].id[2]) /\ Origin(l, all[n].id[1], all[n].id[2])
                            /\ (Known(l, "manifestation", all[n].id[1]) \/ all[n].id[1] = "")
  BY <1>2, <1>4, Zenon
<1>6. ASSUME NEW id, Known(l, "manifestation", id[2]), Origin(l, id[1], id[2]),
             Known(l, "manifestation", id[1]) \/ id[1] = "", NEW again
      PROVE  Loose(S, l, Step("pair", <<id, again, Known(l, "manifestation", id[1]), bad>>))
  <2> DEFINE x == <<id, again, Known(l, "manifestation", id[1]), bad>>
  <2>1. x[1] = id /\ (x[3] <=> Known(l, "manifestation", id[1]))
    OBVIOUS
  <2>2. id[2] \in DOMAIN Readings /\ (Known(l, "manifestation", id[1]) => id[1] \in DOMAIN Readings)
    BY <1>6, RetrievedIs, Zenon
  <2>5. Origin(l, IF x[3] THEN x[1][1] ELSE "", x[1][2])
    BY <1>6, Zenon
  <2> HIDE DEF x
  <2>3. StepIs(l, {}, Step("pair", x)) /\ "pair" \in S
    BY <2>1, <2>2, <2>5, Zenon DEF StepIs, Step, SemanticSteps
  <2>4. Loose(S, l, Step("pair", x))
    BY <2>3, StepLoose
  <2>. QED BY <2>4 DEF x
<1>7. g = [n \in DOMAIN all |-> g[n]] /\ \A n \in DOMAIN all : g[n] = Step("pair", <<all[n].id, Again(n), Known(l, "manifestation", all[n].id[1]), bad>>)
  OBVIOUS
<1> HIDE DEF g, Again
<1>8. \A n \in DOMAIN all : Loose(S, l, g[n])
  BY <1>5, <1>6, <1>7, Zenon
<1>9. Free(S, l, g)
  BY <1>3, <1>4, <1>7, <1>8, MappedFree
<1>. QED BY <1>1, <1>9

LEMMA DiscoveriesFree ==
  ASSUME NEW S, SemanticSteps \subseteq S, NEW l, Lawful(l), NEW bad
  PROVE  Free(S, l, InterpretDiscoveries(l, bad))
<1> DEFINE came == Arrived(l)
           at  == {n \in DOMAIN came : Readings[came[n]].historical}
           all == Only(came, at)
           g == [n \in DOMAIN all |-> Step("discovery", <<all[n], <<"", all[n]>> \in Interpreted(l), bad>>)]
<1>1. InterpretDiscoveries(l, bad) = g
  BY DEF InterpretDiscoveries
<1>2. IsSeq(l) /\ IsSeq(came) /\ \A n \in DOMAIN came : came[n] \in DOMAIN Readings /\ Known(l, "manifestation", came[n])
  BY ArrivedFacts DEF Lawful
<1>9. \A n \in at : n \in DOMAIN came /\ Readings[came[n]].historical
  OBVIOUS
<1> HIDE DEF came, at
<1>3. IsSeq(all) /\ \A n \in DOMAIN all : \E j \in DOMAIN came : j \in at /\ all[n] = came[j]
  BY <1>2, OnlyKeeps
<1> HIDE DEF all
<1>4. ASSUME NEW m \in DOMAIN Readings, Origin(l, "", m), NEW seen PROVE Loose(S, l, Step("discovery", <<m, seen, bad>>))
  <2>1. StepIs(l, {}, Step("discovery", <<m, seen, bad>>)) /\ "discovery" \in S
    BY <1>4, Zenon DEF StepIs, Step, SemanticSteps
  <2>. QED BY <2>1, StepLoose
<1>5. g = [n \in DOMAIN all |-> g[n]] /\ \A n \in DOMAIN all : g[n] = Step("discovery", <<all[n], <<"", all[n]>> \in Interpreted(l), bad>>)
  OBVIOUS
<1> HIDE DEF g
<1>6. \A n \in DOMAIN all : all[n] \in DOMAIN Readings /\ Origin(l, "", all[n])
  BY <1>2, <1>3, <1>9, Zenon DEF Origin
<1>7. \A n \in DOMAIN all : Loose(S, l, g[n])
  BY <1>4, <1>5, <1>6, Zenon
<1>8. Free(S, l, g)
  BY <1>2, <1>3, <1>5, <1>7, MappedFree, Zenon
<1>. QED BY <1>1, <1>8

LEMMA ResolutionCalm ==
  ASSUME NEW S, SemanticSteps \subseteq S, NEW l, IsSeq(l), NEW pair, IsSeq(pair), NEW resolution
  PROVE  Calm(S, l, <<Resolution(pair, resolution, "HUMAN"), Step("take effect", <<pair, resolution>>)>>)
<1> DEFINE e == Resolution(pair, resolution, "HUMAN")  s == Step("take effect", <<pair, resolution>>)
<1>1. e.type = "resolution" /\ e.id = pair /\ e.resolution = resolution /\ e.kind = "HUMAN" /\ {"type", "id"} \subseteq DOMAIN e /\ ~Versioned(e)
  BY DEF Resolution, Versioned
<1> HIDE DEF e
<1>2. Sound(l, {}, e) /\ e.type \notin Judged /\ e.type # "step"
  BY <1>1 DEF Sound, Judged
<1>3. resolution = "ACCEPTED" => <<"accepted", pair>> \in Facts(e)
  BY <1>1 DEF Facts
<1>4. StepIs(l, Facts(e), s) /\ "take effect" \in S /\ s.type = "step" /\ s.what = "take effect" /\ ~Versioned(s)
  BY <1>3, Zenon DEF StepIs, Step, SemanticSteps, Approved, Versioned
<1>5. {"type", "id"} \subseteq DOMAIN s
  BY DEF Step
<1> HIDE DEF s
<1>6. Sound(l, Facts(e), s)
  BY <1>4, <1>5, Zenon DEF Sound
<1>7. Calm(S, l, <<e, s>>)
  BY <1>2, <1>4, <1>6, Led, Zenon
<1>. QED BY <1>7, Zenon DEF e, s

LEMMA ResolveDraft ==
  ASSUME NEW S, SemanticSteps \subseteq S, Lawful(log), NEW pair, NEW resolution
  PROVE  Draft(S, log, Resolve(pair, resolution, "HUMAN"))
<1> DEFINE q == <<Resolution(pair, resolution, "HUMAN"), Step("take effect", <<pair, resolution>>)>>
<1>1. Resolve(pair, resolution, "HUMAN") = <<>> \/ (Known(log, "proposal", pair) /\ Resolve(pair, resolution, "HUMAN") = q)
  BY Zenon DEF Resolve
<1>2. IsSeq(log) /\ Draft(S, log, <<>>)
  BY FreeNone, FreeDraft DEF Lawful
<1>3. ASSUME Known(log, "proposal", pair) PROVE Draft(S, log, q)
  <2>1. IsSeq(pair)
    <3> DEFINE now == Current(log, "proposal", pair)
    <3>1. Sound(log, {}, now) /\ now.type = "proposal" /\ now.id = pair
      BY <1>3, CurrentSound
    <3> HIDE DEF now
    <3>. QED BY <3>1 DEF Sound
  <2>2. Calm(S, log, q)
    BY <1>2, <2>1, ResolutionCalm, Zenon
  <2>. QED BY <2>2, CalmDraft, Zenon
<1> HIDE DEF q
<1>. QED BY <1>1, <1>2, <1>3

-----------------------------------------------------------------------------
(***************************************************************************)
(* Hypotheses and questions.                                               *)
(***************************************************************************)
LEMMA MinOf ==
  ASSUME NEW K, K \subseteq Nat, K # {}
  PROVE  Min(K) \in K /\ \A x \in K : Min(K) <= x
<1>1. \E m \in K : \A n \in K : m <= n
  BY Least
<1>. QED BY <1>1 DEF Min

LEMMA TwoGroups ==
  ASSUME NEW K, Cardinality(K) >= 2
  PROVE  \E g, h \in K : g # h
<1> SUFFICES ASSUME \A g, h \in K : g = h PROVE FALSE
  OBVIOUS
<1>1. CASE K = {}
  <2>1. Cardinality(K) = 0
    BY <1>1, FS_EmptySet
  <2>. QED BY <2>1
<1>2. CASE K # {}
  <2>1. PICK g \in K : K = {g}
    BY <1>2
  <2>2. Cardinality(K) = 1
    BY <2>1, FS_Singleton
  <2>. QED BY <2>2
<1>. QED BY <1>1, <1>2

LEMMA HypothesisSound ==
  ASSUME NEW l, Lawful(l), NEW h, Known(l, "hypothesis", h)
  PROVE  /\ The(l, h).type = "hypothesis" /\ The(l, h).id = h /\ {"type", "id", "linked", "is"} \subseteq DOMAIN The(l, h)
         /\ The(l, h).linked = [s \in Stances |-> The(l, h).linked[s]]
         /\ \E j \in Versions(l, "hypothesis", h) : l[j] = The(l, h)
<1> DEFINE now == The(l, h)
<1>1. Sound(l, {}, now) /\ now.type = "hypothesis" /\ now.id = h
  BY CurrentSound DEF The
<1>2. \E j \in Versions(l, "hypothesis", h) : l[j] = now
  BY CurrentFacts DEF The, Lawful
<1> HIDE DEF now
<1>3. {"type", "id", "linked", "is"} \subseteq DOMAIN now /\ now.linked = [s \in Stances |-> now.linked[s]]
  BY <1>1 DEF Sound
<1>. QED BY <1>1, <1>2, <1>3 DEF now

LEMMA HypothesisLoose ==
  ASSUME NEW S, NEW l, NEW e, e.type = "hypothesis", {"type", "id", "linked", "is"} \subseteq DOMAIN e,
         e.linked = [s \in Stances |-> e.linked[s]], SupportIs(l, e)
  PROVE  Loose(S, l, e)
BY DEF Loose, Sound, Judged, Unversioned

LEMMA RecordHypothesisFree ==
  ASSUME NEW S, NEW l, NEW h
  PROVE  Free(S, l, RecordHypothesis(l, h))
<1> DEFINE e == [Hypothesis(h, Unlinked, Uncounted, {}) EXCEPT !.version = 0]
<1>1. RecordHypothesis(l, h) = <<>> \/ RecordHypothesis(l, h) = <<e>>
  BY DEF RecordHypothesis
<1>2. e.type = "hypothesis" /\ {"type", "id", "linked", "is"} \subseteq DOMAIN e /\ e.linked = Unlinked /\ e.is = Uncounted
  BY DEF Hypothesis
<1> HIDE DEF e
<1>3. e.linked = [s \in Stances |-> e.linked[s]]
  BY <1>2 DEF Unlinked
<1>4. e.is.status # "SUPPORTED"
  BY <1>2 DEF Uncounted
<1>5. SupportIs(l, e)
  BY <1>4 DEF SupportIs
<1>6. Loose(S, l, e)
  BY <1>2, <1>3, <1>5, HypothesisLoose
<1>. QED BY <1>1, <1>6, FreeOne, FreeNone

LEMMA LinkFree ==
  ASSUME NEW S, NEW l, Lawful(l), NEW h, NEW k, NEW stance
  PROVE  Free(S, l, LinkClaim(l, h, k, stance))
<1> DEFINE now == The(l, h)
           new == [s \in Stances |-> IF s = stance THEN now.linked[s] \cup {k} ELSE now.linked[s] \ {k}]
           e == [now EXCEPT !.linked = new]
<1>1. LinkClaim(l, h, k, stance) = <<>> \/ (Known(l, "hypothesis", h) /\ LinkClaim(l, h, k, stance) = <<e>>)
  BY DEF LinkClaim
<1>2. ASSUME Known(l, "hypothesis", h) PROVE Loose(S, l, e)
  <2>1. now.type = "hypothesis" /\ now.id = h /\ {"type", "id", "linked", "is"} \subseteq DOMAIN now
    BY <1>2, HypothesisSound, Zenon
  <2>2. \E j \in Versions(l, "hypothesis", h) : l[j] = now
    BY <1>2, HypothesisSound
  <2> HIDE DEF now
  <2>3. new = [s \in Stances |-> new[s]]
    OBVIOUS
  <2> HIDE DEF new
  <2>4. e.type = "hypothesis" /\ e.id = h /\ DOMAIN e = DOMAIN now /\ e.linked = new /\ e.is = now.is
    BY <2>1
  <2> HIDE DEF e
  <2>5. SupportIs(l, e)
    BY <2>2, <2>4 DEF SupportIs
  <2>. QED BY <2>1, <2>3, <2>4, <2>5, HypothesisLoose
<1> HIDE DEF e
<1>. QED BY <1>1, <1>2, FreeOne, FreeNone

LEMMA PoseFree ==
  ASSUME NEW S, NEW l, Lawful(l), NEW h, NEW d
  PROVE  Free(S, l, Pose(l, h, d))
<1> DEFINE now == The(l, h)
           e == [now EXCEPT !.questions = @ \cup {d}]
<1>1. Pose(l, h, d) = <<>> \/ (Known(l, "hypothesis", h) /\ Pose(l, h, d) = <<e>>)
  BY DEF Pose
<1>2. ASSUME Known(l, "hypothesis", h) PROVE Loose(S, l, e)
  <2>1. now.type = "hypothesis" /\ now.id = h /\ {"type", "id", "linked", "is"} \subseteq DOMAIN now
    BY <1>2, HypothesisSound, Zenon
  <2>2. \E j \in Versions(l, "hypothesis", h) : l[j] = now
    BY <1>2, HypothesisSound
  <2>3. now.linked = [s \in Stances |-> now.linked[s]]
    BY <1>2, HypothesisSound
  <2> HIDE DEF now
  <2>4. e.type = "hypothesis" /\ e.id = h /\ DOMAIN e = DOMAIN now /\ e.linked = now.linked /\ e.is = now.is
    BY <2>1
  <2> HIDE DEF e
  <2>5. SupportIs(l, e)
    BY <2>2, <2>4 DEF SupportIs
  <2>. QED BY <2>1, <2>3, <2>4, <2>5, HypothesisLoose
<1> HIDE DEF e
<1>. QED BY <1>1, <1>2, FreeOne, FreeNone

LEMMA AssessVoices ==
  ASSUME NEW l, Lawful(l), NEW linked, Assess(l, linked).status = "SUPPORTED", NEW e, e.linked["supporting"] = linked["supporting"]
  PROVE  Voices(l, e)
<1> DEFINE Live(stance) == {k \in linked[stance] : Known(l, "claim", k)}
           active   == {k \in Live("supporting") : Standing(l, k) = "CURRENT"}
           against  == {k \in Live("contradicting") : Standing(l, k) = "CURRENT"}
           n        == Independent(l, active)
           status   == CASE against # {} /\ (active # {} \/ Cardinality(against) < 2) -> "DISPUTED"
                         [] against # {} -> "REJECTED"
                         [] n >= 2 -> "SUPPORTED"
                         [] n = 1  -> "WEAKLY_SUPPORTED"
                         [] OTHER  -> "UNRESOLVED"
<1>1. Assess(l, linked).status = status
  BY DEF Assess
<1>2. active \subseteq linked["supporting"] /\ \A k \in active : Known(l, "claim", k)
  OBVIOUS
<1>3. n >= 2
  <2> HIDE DEF active, against, n
  <2>. QED BY <1>1
<1> HIDE DEF active, against, n, status
<1>4. PICK g, h \in GroupsOf(l, active) : g # h
  BY <1>3, TwoGroups DEF n, Independent
<1>5. ASSUME NEW x \in GroupsOf(l, active)
      PROVE  \E i \in DOMAIN l : l[i].type = "claim" /\ l[i].id \in linked["supporting"] /\ \E o \in l[i].obs : Group(o) = x
  <2>1. PICK k \in active : x \in Groups(Current(l, "claim", k))
    BY <1>5 DEF GroupsOf
  <2>2. PICK i \in Versions(l, "claim", k) : Current(l, "claim", k) = l[i]
    BY <1>2, CurrentFacts DEF Lawful
  <2>3. i \in DOMAIN l /\ l[i].type = "claim" /\ l[i].id = k
    BY DEF Versions
  <2>. QED BY <1>2, <2>1, <2>2, <2>3 DEF Groups
<1>. QED BY <1>4, <1>5 DEF Voices

LEMMA RefreshFree ==
  ASSUME NEW S, NEW l, Lawful(l), NEW h, Known(l, "hypothesis", h)
  PROVE  Free(S, l, RefreshHypothesis(l, h))
<1> DEFINE now == The(l, h)  is == Assess(l, now.linked)  bad == Degraded(l, h)
           e == [now EXCEPT !.is = is, !.linked["unresolved"] = @ \cup bad]
           i == Item(<<"stale", h, bad>>, "OPEN")
<1>1. RefreshHypothesis(l, h) = <<>> \/ RefreshHypothesis(l, h) = <<e>> \o <<>> \/ RefreshHypothesis(l, h) = <<e>> \o <<i>>
  BY DEF RefreshHypothesis
<1>2. now.type = "hypothesis" /\ now.id = h /\ {"type", "id", "linked", "is"} \subseteq DOMAIN now /\ now.linked = [s \in Stances |-> now.linked[s]]
  BY HypothesisSound
<1>3. \A f : f.linked["supporting"] = now.linked["supporting"] /\ is.status = "SUPPORTED" => Voices(l, f)
  BY AssessVoices
<1> HIDE DEF now, is, bad
<1>4. e.type = "hypothesis" /\ e.id = h /\ DOMAIN e = DOMAIN now /\ e.is = is
      /\ e.linked = [now.linked EXCEPT !["unresolved"] = @ \cup bad]
  BY <1>2
<1> HIDE DEF e
<1>5. e.linked["supporting"] = now.linked["supporting"] /\ e.linked = [s \in Stances |-> e.linked[s]]
  BY <1>2, <1>4 DEF Stances
<1>6. SupportIs(l, e)
  BY <1>3, <1>4, <1>5 DEF SupportIs
<1>7. Loose(S, l, e)
  BY <1>2, <1>4, <1>5, <1>6, HypothesisLoose
<1>8. Loose(S, l, i)
  BY ItemLoose
<1> HIDE DEF i
<1>9. Free(S, l, <<e>>) /\ Free(S, l, <<i>>) /\ Free(S, l, <<>>)
  BY <1>7, <1>8, FreeOne, FreeNone
<1>. QED BY <1>1, <1>9, FreeJoined

LEMMA HypothesisStepsFree ==
  ASSUME NEW S, {"hypothesis"} \subseteq S, NEW l, IsSeq(l), NEW K, \A h \in K : Known(l, "hypothesis", h)
  PROVE  Free(S, l, [n \in DOMAIN SetToSeq(K) |-> Step("hypothesis", SetToSeq(K)[n])])
<1> DEFINE s == SetToSeq(K)
           g == [n \in DOMAIN s |-> Step("hypothesis", s[n])]
<1>1. IsFiniteSet(K)
  BY KnownFinite
<1>2. s \in [1 .. Cardinality(K) -> K] /\ Cardinality(K) \in Nat
  BY <1>1, SetToSeqIs
<1> HIDE DEF s
<1>3. s \in Seq(K)
  BY <1>2
<1>4. IsSeq(s) /\ \A n \in DOMAIN s : s[n] \in K
  BY <1>2, <1>3, AnySeq
<1>5. ASSUME NEW h \in K PROVE Loose(S, l, Step("hypothesis", h))
  <2>1. StepIs(l, {}, Step("hypothesis", h)) /\ "hypothesis" \in S
    BY DEF StepIs, Step
  <2>. QED BY <2>1, StepLoose
<1>6. g = [n \in DOMAIN s |-> g[n]] /\ \A n \in DOMAIN s : g[n] = Step("hypothesis", s[n])
  OBVIOUS
<1> HIDE DEF g
<1>7. Free(S, l, g)
  BY <1>4, <1>5, <1>6, MappedFree
<1>. QED BY <1>7 DEF g, s

LEMMA RefreshForFree ==
  ASSUME NEW S, {"hypothesis"} \subseteq S, NEW l, IsSeq(l), NEW claims
  PROVE  Free(S, l, RefreshFor(l, claims))
<1> DEFINE K == {h \in Hypotheses : Known(l, "hypothesis", h) /\ \E s \in Stances : The(l, h).linked[s] \cap claims # {}}
<1>1. RefreshFor(l, claims) = [n \in DOMAIN SetToSeq(K) |-> Step("hypothesis", SetToSeq(K)[n])]
  BY DEF RefreshFor
<1>2. \A h \in K : Known(l, "hypothesis", h)
  OBVIOUS
<1> HIDE DEF K
<1>. QED BY <1>1, <1>2, HypothesisStepsFree

LEMMA TouchedFree ==
  ASSUME NEW S, {"hypothesis"} \subseteq S, NEW l, IsSeq(l), NEW d
  PROVE  Free(S, l, Touched(l, d))
BY RefreshForFree DEF Touched

LEMMA QuestionSound ==
  ASSUME NEW l, Lawful(l), NEW d, Known(l, "question", d)
  PROVE  LET now == Current(l, "question", d) IN
         /\ now.type = "question" /\ now.id = d /\ {"type", "id", "status", "independent", "basis"} \subseteq DOMAIN now
         /\ now.independent \/ now.basis = {}
         /\ \E j \in Versions(l, "question", d) : l[j] = now
<1> DEFINE now == Current(l, "question", d)
<1>1. Sound(l, {}, now) /\ now.type = "question" /\ now.id = d
  BY CurrentSound
<1>2. \E j \in Versions(l, "question", d) : l[j] = now
  BY CurrentFacts DEF Lawful
<1> HIDE DEF now
<1>3. {"type", "id", "status", "independent", "basis"} \subseteq DOMAIN now /\ (now.independent \/ now.basis = {})
  BY <1>1 DEF Sound
<1>. QED BY <1>1, <1>2, <1>3 DEF now

LEMMA QuestionLoose ==
  ASSUME NEW S, NEW l, NEW e, e.type = "question", {"type", "id", "status", "independent", "basis"} \subseteq DOMAIN e,
         e.independent \/ e.basis = {}, AnswerIs(l, e)
  PROVE  Loose(S, l, e)
BY DEF Loose, Sound, Judged, Unversioned

LEMMA QuestionStays ==
  ASSUME NEW S, NEW l, NEW d, NEW now, now.type = "question", now.id = d,
         {"type", "id", "status", "independent", "basis"} \subseteq DOMAIN now,
         \E j \in Versions(l, "question", d) : l[j] = now,
         NEW e, e.type = "question", e.id = d, DOMAIN e = DOMAIN now, e.status = "SATISFIED" => now.status = "SATISFIED",
         e.independent \/ e.basis = {}, SameBasis(now, e)
  PROVE  Loose(S, l, e)
<1>1. AnswerIs(l, e)
  BY DEF AnswerIs
<1>. QED BY <1>1, QuestionLoose

LEMMA PosesFree ==
  ASSUME NEW S, {"pose"} \subseteq S, NEW l, IsSeq(l), NEW K, IsFiniteSet(K), NEW d
  PROVE  Free(S, l, [n \in DOMAIN SetToSeq(K) |-> Step("pose", <<SetToSeq(K)[n], d>>)])
<1> DEFINE s == SetToSeq(K)
           g == [n \in DOMAIN s |-> Step("pose", <<s[n], d>>)]
<1>2. s \in [1 .. Cardinality(K) -> K] /\ Cardinality(K) \in Nat
  BY SetToSeqIs
<1> HIDE DEF s
<1>3. s \in Seq(K)
  BY <1>2
<1>4. IsSeq(s)
  BY <1>3, AnySeq
<1>5. ASSUME NEW x PROVE Loose(S, l, Step("pose", x))
  <2>1. StepIs(l, {}, Step("pose", x)) /\ "pose" \in S
    BY DEF StepIs, Step
  <2>. QED BY <2>1, StepLoose
<1>6. g = [n \in DOMAIN s |-> g[n]] /\ \A n \in DOMAIN s : Loose(S, l, g[n])
  BY <1>5
<1> HIDE DEF g
<1>7. Free(S, l, g)
  BY <1>4, <1>6, MappedFree
<1>. QED BY <1>7 DEF g, s

LEMMA ProposeFree ==
  ASSUME NEW S, {"pose"} \subseteq S, NEW l, Lawful(l), NEW d \in DOMAIN Questions, NEW independent \in BOOLEAN
  PROVE  Free(S, l, ProposeQuestion(l, d, independent))
<1> DEFINE K == Questions[d].hypotheses
           basis == IF independent THEN ExistingBasis(l, d) ELSE {}
           now == Current(l, "question", d)
           a == [Question(d, "OPEN", independent, basis, FALSE) EXCEPT !.version = 0]
           b == [now EXCEPT !.independent = TRUE, !.basis = basis]
           first == CASE ~Known(l, "question", d) -> <<a>>
                      [] Known(l, "question", d) /\ independent /\ ~now.independent -> <<b>>
                      [] OTHER -> <<>>
           g == [n \in DOMAIN SetToSeq(K) |-> Step("pose", <<SetToSeq(K)[n], d>>)]
<1>1. ProposeQuestion(l, d, independent) = first \o g
  BY DEF ProposeQuestion
<1>2. IsFiniteSet(K) /\ IsSeq(l)
  BY CollectionAssumption DEF Lawful
<1>3. Free(S, l, g)
  <2> HIDE DEF K
  <2>. QED BY <1>2, PosesFree
<1>4. first = <<a>> \/ (Known(l, "question", d) /\ ~now.independent /\ first = <<b>>) \/ first = <<>>
  <2> HIDE DEF a, b, now
  <2>. QED OBVIOUS
<1>5. independent \/ basis = {}
  OBVIOUS
<1> HIDE DEF g, basis, first
<1>6. Loose(S, l, a)
  <2>1. a.type = "question" /\ {"type", "id", "status", "independent", "basis"} \subseteq DOMAIN a
        /\ a.independent = independent /\ a.basis = basis /\ a.status = "OPEN"
    BY DEF Question
  <2> HIDE DEF a
  <2>2. AnswerIs(l, a)
    BY <2>1 DEF AnswerIs
  <2>. QED BY <1>5, <2>1, <2>2, QuestionLoose
<1>7. ASSUME Known(l, "question", d), ~now.independent PROVE Loose(S, l, b)
  <2>1. /\ now.type = "question" /\ now.id = d /\ {"type", "id", "status", "independent", "basis"} \subseteq DOMAIN now
        /\ \E j \in Versions(l, "question", d) : l[j] = now
    BY <1>7, QuestionSound
  <2> HIDE DEF now
  <2>2. b.type = "question" /\ b.id = d /\ DOMAIN b = DOMAIN now /\ b.status = now.status /\ b.independent
    BY <2>1
  <2> HIDE DEF b
  <2>3. SameBasis(now, b)
    BY <1>7, <2>2 DEF SameBasis
  <2>. QED BY <2>1, <2>2, <2>3, QuestionStays
<1> HIDE DEF a, b
<1>8. Free(S, l, first)
  BY <1>4, <1>6, <1>7, FreeOne, FreeNone
<1>. QED BY <1>1, <1>3, <1>8, FreeJoined

LEMMA RequireFree ==
  ASSUME NEW S, NEW l, Lawful(l), NEW d
  PROVE  Free(S, l, RequireQuestion(l, d))
<1> DEFINE now == Current(l, "question", d)
           r == [type |-> "requirement", id |-> d, version |-> 0]
           e == [now EXCEPT !.required = TRUE, !.status = IF @ = "OPEN" THEN "REQUESTED" ELSE @]
           first == IF Known(l, "requirement", d) THEN <<>> ELSE <<r>>
           then  == IF now.required /\ now.status # "OPEN" THEN <<>> ELSE <<e>>
<1>1. RequireQuestion(l, d) = <<>> \/ (Known(l, "question", d) /\ RequireQuestion(l, d) = first \o then)
  BY DEF RequireQuestion
<1>2. Free(S, l, first)
  <2>1. {"type", "id"} \subseteq DOMAIN r /\ r.type \in Plain
    BY DEF Plain
  <2>. QED BY <2>1, PlainLoose, FreeOne, FreeNone
<1>3. ASSUME Known(l, "question", d) PROVE Free(S, l, then)
  <2>1. /\ now.type = "question" /\ now.id = d /\ {"type", "id", "status", "independent", "basis"} \subseteq DOMAIN now
        /\ (now.independent \/ now.basis = {})
        /\ \E j \in Versions(l, "question", d) : l[j] = now
    BY <1>3, QuestionSound
  <2> HIDE DEF now
  <2>2. /\ e.type = "question" /\ e.id = d /\ DOMAIN e = DOMAIN now /\ e.independent = now.independent /\ e.basis = now.basis
        /\ e.status = "SATISFIED" => now.status = "SATISFIED"
    BY <2>1
  <2> HIDE DEF e
  <2>3. SameBasis(now, e) /\ (e.independent \/ e.basis = {})
    BY <2>1, <2>2 DEF SameBasis
  <2>4. Loose(S, l, e)
    BY <2>1, <2>2, <2>3, QuestionStays
  <2>. QED BY <2>4, FreeOne, FreeNone
<1> HIDE DEF first, then
<1>. QED BY <1>1, <1>2, <1>3, FreeJoined, FreeNone

-----------------------------------------------------------------------------
(***************************************************************************)
(* Routes.                                                                 *)
(***************************************************************************)
LEMMA RouteSound ==
  ASSUME NEW l, Lawful(l), NEW r, Known(l, "route", r)
  PROVE  Known(l, "question", r[1]) /\ Current(l, "route", r).type = "route" /\ Current(l, "route", r).id = r
         /\ {"type", "id"} \subseteq DOMAIN Current(l, "route", r)
<1> DEFINE now == Current(l, "route", r)
<1>1. Sound(l, {}, now) /\ now.type = "route" /\ now.id = r
  BY CurrentSound
<1> HIDE DEF now
<1>2. Known(l, "question", r[1]) /\ {"type", "id"} \subseteq DOMAIN now
  BY <1>1 DEF Sound
<1>. QED BY <1>1, <1>2 DEF now

LEMMA RouteLoose ==
  ASSUME NEW S, NEW l, NEW e, e.type = "route", {"type", "id"} \subseteq DOMAIN e, Known(l, "question", e.id[1])
  PROVE  Loose(S, l, e)
BY DEF Loose, Sound, Judged, Unversioned

LEMMA PlanRoutesFree ==
  ASSUME NEW S, NEW l, Lawful(l), NEW d
  PROVE  Free(S, l, PlanRoutes(l, d))
<1> DEFINE at  == {n \in DOMAIN SourceOrder : ~SettledRoute(l, <<d, SourceOrder[n]>>)}
           new == Only(SourceOrder, at)
           g   == [n \in DOMAIN new |-> Route(<<d, new[n]>>, IF Sources[new[n]].eligible THEN "PROPOSED" ELSE "HUMAN_REQUIRED", 0)]
           i   == Item(<<"coverage", d>>, "OPEN")
           r   == IF \E s \in DOMAIN Sources : Scores(l, d, s) THEN <<>> ELSE <<i>>
<1>1. PlanRoutes(l, d) = <<>> \/ (Known(l, "question", d) /\ PlanRoutes(l, d) = g \o r)
  BY DEF PlanRoutes
<1>2. IsSeq(SourceOrder) /\ IsSeq(l)
  BY CollectionAssumption, AnySeq DEF Lawful
<1> HIDE DEF at
<1>3. IsSeq(new)
  BY <1>2, OnlyKeeps
<1> HIDE DEF new
<1>4. ASSUME Known(l, "question", d) PROVE Free(S, l, g)
  <2>1. ASSUME NEW s, NEW status PROVE Loose(S, l, Route(<<d, s>>, status, 0))
    <3> DEFINE e == Route(<<d, s>>, status, 0)
    <3>1. e.type = "route" /\ {"type", "id"} \subseteq DOMAIN e /\ e.id[1] = d
      BY DEF Route
    <3> HIDE DEF e
    <3>2. Loose(S, l, e)
      BY <1>4, <3>1, RouteLoose
    <3>. QED BY <3>2 DEF e
  <2>2. g = [n \in DOMAIN new |-> g[n]] /\ \A n \in DOMAIN new : Loose(S, l, g[n])
    BY <2>1
  <2> HIDE DEF g
  <2>. QED BY <1>2, <1>3, <2>2, MappedFree
<1>5. Free(S, l, r)
  BY ItemLoose, FreeOne, FreeNone
<1> HIDE DEF g, r
<1>. QED BY <1>1, <1>4, <1>5, FreeJoined, FreeNone

LEMMA AssignFree ==
  ASSUME NEW S, NEW l, Lawful(l), NEW r
  PROVE  Free(S, l, AssignHuman(l, r))
<1> DEFINE t == [type |-> "task", id |-> r]  now == Current(l, "route", r)
<1>1. AssignHuman(l, r) = <<>> \/ (Known(l, "route", r) /\ AssignHuman(l, r) = <<t, now>>)
  BY DEF AssignHuman
<1>2. {"type", "id"} \subseteq DOMAIN t /\ t.type \in Plain
  BY DEF Plain
<1> HIDE DEF t
<1>3. Free(S, l, <<t>>)
  BY <1>2, PlainLoose, FreeOne
<1>4. ASSUME Known(l, "route", r) PROVE Free(S, l, <<now>>)
  <2>1. Loose(S, l, now)
    BY <1>4, RouteSound, RouteLoose
  <2>. QED BY <2>1, FreeOne
<1> HIDE DEF now
<1>5. <<t, now>> = <<t>> \o <<now>>
  BY TwoJoined
<1>. QED BY <1>1, <1>3, <1>4, <1>5, FreeJoined, FreeNone

LEMMA AccountFree ==
  ASSUME NEW S, {"process", "account"} \subseteq S, NEW l, NEW r, Known(l, "question", r[1]), NEW n
  PROVE  Free(S, l, Account(r, n))
<1> DEFINE x == <<r, n>>  a == Step("process", r)  b == Step("account", x)
<1>1. Account(r, n) = <<a, b>>
  BY DEF Account
<1>2. x[1] = r
  OBVIOUS
<1> HIDE DEF x
<1>3. StepIs(l, {}, a) /\ StepIs(l, {}, b)
  BY <1>2 DEF StepIs, Step
<1>4. Free(S, l, <<a>>) /\ Free(S, l, <<b>>)
  BY <1>3, StepLoose, FreeOne
<1> HIDE DEF a, b
<1>5. <<a, b>> = <<a>> \o <<b>>
  BY TwoJoined
<1>. QED BY <1>1, <1>4, <1>5, FreeJoined

LEMMA ManifestationLoose ==
  ASSUME NEW S, NEW l, NEW m \in DOMAIN Readings
  PROVE  Loose(S, l, [type |-> "manifestation", id |-> m])
<1> DEFINE e == [type |-> "manifestation", id |-> m]
<1>1. e.type = "manifestation" /\ e.id = m /\ DOMAIN e = {"type", "id"}
  OBVIOUS
<1> HIDE DEF e
<1>2. Loose(S, l, e)
  BY <1>1 DEF Loose, Sound, Judged, Versioned
<1>. QED BY <1>2 DEF e

LEMMA ManifestationsFree ==
  ASSUME NEW S, NEW l, IsSeq(l), NEW found, IsSeq(found), \A i \in DOMAIN found : found[i] \in DOMAIN Readings
  PROVE  Free(S, l, [i \in DOMAIN found |-> [type |-> "manifestation", id |-> found[i]]])
<1> DEFINE g == [i \in DOMAIN found |-> [type |-> "manifestation", id |-> found[i]]]
<1>1. g = [n \in DOMAIN found |-> g[n]] /\ \A n \in DOMAIN found : Loose(S, l, g[n])
  BY ManifestationLoose
<1> HIDE DEF g
<1>2. Free(S, l, g)
  BY <1>1, MappedFree
<1>. QED BY <1>2 DEF g

LEMMA ExecuteFree ==
  ASSUME NEW S, {"process", "account"} \subseteq S, NEW l, Lawful(l), NEW r, NEW brought, brought.found \in Seq(DOMAIN Readings)
  PROVE  Free(S, l, ExecuteRoute(l, r, brought))
<1> DEFINE now == Current(l, "route", r)  n == Cardinality(Executions(l, r)) + 1
           g == [i \in DOMAIN brought.found |-> [type |-> "manifestation", id |-> brought.found[i]]]
           e == [type |-> "execution", id |-> <<r, r[2]>>, n |-> n, outcome |-> brought.outcome]
           f == [now EXCEPT !.status = IF brought.outcome = "FAILED" THEN "FAILED" ELSE "EXECUTED", !.execution = n]
<1>1. \/ ExecuteRoute(l, r, brought) = <<>>
      \/ Known(l, "route", r) /\ ExecuteRoute(l, r, brought) = Account(r, now.execution)
      \/ Known(l, "route", r) /\ ExecuteRoute(l, r, brought) = g \o <<e, f>> \o Account(r, n)
  BY DEF ExecuteRoute
<1>2. IsSeq(l) /\ IsSeq(brought.found) /\ \A i \in DOMAIN brought.found : brought.found[i] \in DOMAIN Readings
  BY AnySeq DEF Lawful
<1>3. Free(S, l, g)
  BY <1>2, ManifestationsFree
<1> HIDE DEF n, g
<1>4. Free(S, l, <<e>>)
  <2>1. e.type = "execution" /\ DOMAIN e = {"type", "id", "n", "outcome"}
    OBVIOUS
  <2> HIDE DEF e
  <2>2. Loose(S, l, e)
    BY <2>1 DEF Loose, Sound, Judged, Versioned
  <2>. QED BY <2>2, FreeOne
<1>5. ASSUME Known(l, "route", r)
      PROVE  Free(S, l, <<f>>) /\ \A k : Free(S, l, Account(r, k))
  <2>1. Known(l, "question", r[1]) /\ now.type = "route" /\ now.id = r /\ {"type", "id"} \subseteq DOMAIN now
    BY <1>5, RouteSound
  <2> HIDE DEF now
  <2>2. f.type = "route" /\ f.id = r /\ DOMAIN f = DOMAIN now
    BY <2>1
  <2> HIDE DEF f
  <2>3. Loose(S, l, f)
    BY <2>1, <2>2, RouteLoose
  <2>. QED BY <2>1, <2>3, FreeOne, AccountFree
<1> HIDE DEF e, f
<1>6. <<e, f>> = <<e>> \o <<f>>
  BY TwoJoined
<1>7. ASSUME Known(l, "route", r) PROVE Free(S, l, g \o <<e, f>> \o Account(r, n)) /\ Free(S, l, Account(r, now.execution))
  <2>1. Free(S, l, <<e, f>>)
    BY <1>4, <1>5, <1>6, <1>7, FreeJoined
  <2>2. Free(S, l, g \o <<e, f>>)
    BY <1>3, <2>1, FreeJoined
  <2>. QED BY <1>5, <1>7, <2>2, FreeJoined
<1>. QED BY <1>1, <1>7, FreeNone

LEMMA SettleAccountFree ==
  ASSUME NEW S, {"touched", "accounted"} \subseteq S, NEW l, Lawful(l), NEW r, Known(l, "question", r[1]), NEW n
  PROVE  Free(S, l, SettleAccount(l, r, n))
<1> DEFINE d == r[1]  answered == Answers(l, d) # {}
           outcome == l[CHOOSE i \in Executions(l, r) : l[i].n = n].outcome
           now == Current(l, "question", d)
           e == [now EXCEPT !.status = "SATISFIED"]
           i == Item(<<"expected">> \o r, "OPEN")
           first == CASE answered /\ now.status # "SATISFIED" -> <<e>>
                      [] ~answered /\ outcome = "EMPTY" -> <<i>>
                      [] OTHER -> <<>>
           x == <<r, RouteFails(l, r)>>
           a == Step("touched", d)  b == Step("accounted", x)
<1>1. SettleAccount(l, r, n) = first \o <<a, b>>
  BY DEF SettleAccount
<1>2. first = <<>> \/ first = <<i>> \/ (answered /\ first = <<e>>)
  <2> HIDE DEF answered, e, i, now, outcome
  <2>. QED OBVIOUS
<1>3. Free(S, l, <<i>>)
  BY ItemLoose, FreeOne
<1>4. ASSUME answered PROVE Free(S, l, <<e>>)
  <2> DEFINE basis == IF ~now.independent THEN {} ELSE IF now.basis # {} THEN now.basis ELSE ExistingBasis(l, d)
             V == Versions(l, "question", d)
             after == {j \in DOMAIN l : l[j].type = "observation" /\ j > Min(V)}
  <2>1. Answers(l, d) = {o \in {l[j].id : j \in after} : o[2] = Questions[d].topic /\ Group(o) \notin basis}
    BY DEF Answers
  <2>2. /\ now.type = "question" /\ now.id = d /\ {"type", "id", "status", "independent", "basis"} \subseteq DOMAIN now
        /\ (now.independent \/ now.basis = {})
    BY QuestionSound
  <2>3. \A g : g \notin basis => g \notin now.basis
    BY <2>2
  <2> HIDE DEF basis
  <2>4. V # {} /\ V \subseteq Nat
    BY VersionsFacts DEF Known, Lawful
  <2>5. Min(V) \in V
    BY <2>4, MinOf
  <2>6. PICK j \in after : l[j].id[2] = Questions[d].topic /\ Group(l[j].id) \notin basis
    BY <1>4, <2>1
  <2>7. j \in DOMAIN l /\ l[j].type = "observation" /\ Min(V) < j
    <3>1. j \in Nat /\ Min(V) \in Nat
      BY <2>4, <2>5, SeqFacts DEF Lawful
    <3>. QED BY <3>1
  <2> HIDE DEF now
  <2>8. e.type = "question" /\ e.id = d /\ DOMAIN e = DOMAIN now /\ e.independent = now.independent /\ e.basis = now.basis
    BY <2>2
  <2> HIDE DEF e
  <2>9. Replied(l, e)
    BY <2>3, <2>5, <2>6, <2>7, <2>8 DEF Replied
  <2>10. Loose(S, l, e)
    BY <2>2, <2>8, <2>9, QuestionLoose DEF AnswerIs
  <2>. QED BY <2>10, FreeOne
<1>5. StepIs(l, {}, a) /\ StepIs(l, {}, b)
  BY DEF StepIs, Step
<1>6. Free(S, l, <<a>>) /\ Free(S, l, <<b>>)
  BY <1>5, StepLoose, FreeOne
<1> HIDE DEF a, b, first, answered, e, i
<1>7. Free(S, l, <<a, b>>)
  <2>1. <<a, b>> = <<a>> \o <<b>>
    BY TwoJoined
  <2>. QED BY <1>6, <2>1, FreeJoined
<1>8. Free(S, l, first)
  BY <1>2, <1>3, <1>4, FreeNone
<1>. QED BY <1>1, <1>7, <1>8, FreeJoined

LEMMA RouteFailureFree ==
  ASSUME NEW S, NEW l, NEW r, NEW failed, NEW v, NEW status
  PROVE  Free(S, l, Accounted(r, failed)) /\ Free(S, l, <<[RouteFailure(r, status) EXCEPT !.version = v]>>)
<1> DEFINE e == [RouteFailure(r, status) EXCEPT !.version = v]  f == RouteFailure(r, "RESOLVED")
<1>1. {"type", "id"} \subseteq DOMAIN e /\ e.type \in Plain /\ {"type", "id"} \subseteq DOMAIN f /\ f.type \in Plain
  BY DEF RouteFailure, Plain
<1>2. Accounted(r, failed) = <<>> \/ Accounted(r, failed) = <<f>>
  BY DEF Accounted
<1> HIDE DEF e, f
<1>3. Free(S, l, <<e>>) /\ Free(S, l, <<f>>)
  BY <1>1, PlainLoose, FreeOne
<1>. QED BY <1>2, <1>3, FreeNone DEF e

-----------------------------------------------------------------------------
(***************************************************************************)
(* Sources, plans and pivots.                                              *)
(***************************************************************************)
LEMMA PlainsFree ==
  ASSUME NEW S, NEW l, IsSeq(l), NEW s, IsSeq(s), NEW g, g = [n \in DOMAIN s |-> g[n]],
         \A n \in DOMAIN s : {"type", "id"} \subseteq DOMAIN g[n] /\ g[n].type \in Plain
  PROVE  Free(S, l, g)
BY PlainLoose, MappedFree

LEMMA RegisterFree ==
  ASSUME NEW S, NEW l, NEW s
  PROVE  Free(S, l, RegisterSource(s))
<1> DEFINE a == [type |-> "descriptor", id |-> s]  b == [type |-> "profile", id |-> s]
<1>1. RegisterSource(s) = <<a, b>>
  BY DEF RegisterSource
<1>2. {"type", "id"} \subseteq DOMAIN a /\ a.type \in Plain /\ {"type", "id"} \subseteq DOMAIN b /\ b.type \in Plain
  BY DEF Plain
<1> HIDE DEF a, b
<1>3. Free(S, l, <<a>>) /\ Free(S, l, <<b>>)
  BY <1>2, PlainLoose, FreeOne
<1>4. <<a, b>> = <<a>> \o <<b>>
  BY TwoJoined
<1>. QED BY <1>1, <1>3, <1>4, FreeJoined

LEMMA UptoFacts ==
  ASSUME NEW s, IsSeq(s), NEW n \in Nat
  PROVE  IsSeq(Upto(n, s)) /\ \A k \in DOMAIN Upto(n, s) : k \in DOMAIN s /\ Upto(n, s)[k] = s[k]
<1> DEFINE k == Min({n, Len(s)})
<1>1. Len(s) \in Nat /\ DOMAIN s = 1 .. Len(s)
  BY SeqFacts
<1>2. k \in Nat /\ k <= n /\ k <= Len(s)
  <2> DEFINE K == {n, Len(s)}
  <2>1. K \subseteq Nat /\ K # {} /\ n \in K /\ Len(s) \in K
    BY <1>1
  <2>3. k = Min(K)
    OBVIOUS
  <2> HIDE DEF K, k
  <2>2. Min(K) \in K /\ \A x \in K : Min(K) <= x
    BY <2>1, MinOf
  <2>. QED BY <2>1, <2>2, <2>3
<1>3. Upto(n, s) = Prefix(s, k)
  BY DEF Upto, Prefix
<1> HIDE DEF k
<1>4. k \in 0 .. Len(s)
  BY <1>1, <1>2
<1>. QED BY <1>1, <1>3, <1>4, PrefixFacts

LEMMA UptoSeq ==
  ASSUME NEW A, NEW s \in Seq(A), NEW n \in Nat
  PROVE  Upto(n, s) \in Seq(A)
<1>1. IsSeq(s) /\ \A k \in DOMAIN s : s[k] \in A
  BY AnySeq
<1>2. IsSeq(Upto(n, s)) /\ \A k \in DOMAIN Upto(n, s) : k \in DOMAIN s /\ Upto(n, s)[k] = s[k]
  BY <1>1, UptoFacts
<1> DEFINE u == Upto(n, s)
<1> HIDE DEF u
<1>3. IsSeq(u) /\ \A k \in DOMAIN u : u[k] \in A
  BY <1>1, <1>2 DEF u
<1>4. Len(u) \in Nat /\ DOMAIN u = 1 .. Len(u) /\ u \in Seq(ToSet(u)) /\ ToSet(u) = {u[k] : k \in 1 .. Len(u)}
  BY <1>3, SeqFacts DEF IsSeq
<1>5. ToSet(u) \subseteq A
  BY <1>3, <1>4
<1>6. u \in Seq(A)
  BY <1>4, <1>5, SeqMonotonic
<1>. QED BY <1>6 DEF u

LEMMA UptoFree ==
  ASSUME NEW S, NEW l, NEW s, Free(S, l, s), NEW n \in Nat
  PROVE  Free(S, l, Upto(n, s))
<1>1. IsSeq(s) /\ \A k \in DOMAIN s : Loose(S, l, s[k])
  BY DEF Free
<1>2. IsSeq(Upto(n, s)) /\ \A k \in DOMAIN Upto(n, s) : k \in DOMAIN s /\ Upto(n, s)[k] = s[k]
  BY <1>1, UptoFacts
<1>. QED BY <1>1, <1>2 DEF Free

-----------------------------------------------------------------------------
LEMMA LatestFacts ==
  ASSUME NEW l, Lawful(l), NEW t, NEW now \in Latest(l, t)
  PROVE  Sound(l, {}, now) /\ now.type = t /\ Known(l, t, now.id)
<1>1. PICK i \in DOMAIN l : l[i].type = t /\ now = Current(l, t, l[i].id)
  BY DEF Latest
<1>2. Known(l, t, l[i].id)
  BY <1>1 DEF Known, Versions
<1>3. Sound(l, {}, Current(l, t, l[i].id)) /\ Current(l, t, l[i].id).type = t /\ Current(l, t, l[i].id).id = l[i].id
  BY <1>2, CurrentSound
<1>. QED BY <1>1, <1>2, <1>3

LEMMA ListOf ==
  ASSUME NEW A, IsFiniteSet(A)
  PROVE  IsSeq(SetToSeq(A)) /\ SetToSeq(A) \in Seq(A) /\ \A n \in DOMAIN SetToSeq(A) : SetToSeq(A)[n] \in A
<1> DEFINE s == SetToSeq(A)
<1>1. s \in [1 .. Cardinality(A) -> A] /\ Cardinality(A) \in Nat
  BY SetToSeqIs
<1> HIDE DEF s
<1>2. s \in Seq(A)
  BY <1>1
<1>3. IsSeq(s) /\ \A n \in DOMAIN s : s[n] \in A
  BY <1>1, <1>2, AnySeq
<1>. QED BY <1>2, <1>3 DEF s

LEMMA PivotLoose ==
  ASSUME NEW S, NEW l, NEW p \in DOMAIN Queries, NEW status
  PROVE  Loose(S, l, [type |-> "pivot", id |-> p, status |-> status])
<1> DEFINE e == [type |-> "pivot", id |-> p, status |-> status]
<1>1. e.type = "pivot" /\ e.id = p /\ DOMAIN e = {"type", "id", "status"}
  OBVIOUS
<1> HIDE DEF e
<1>2. Loose(S, l, e)
  BY <1>1 DEF Loose, Sound, Judged, Versioned
<1>. QED BY <1>2 DEF e

LEMMA PivotsFree ==
  ASSUME NEW S, NEW l, IsSeq(l), NEW answer, Truthful(answer)
  PROVE  Free(S, l, ProposePivots(answer))
<1> DEFINE g == [n \in DOMAIN answer.leads |-> [type |-> "pivot", id |-> answer.leads[n], status |-> "PROPOSED"]]
<1>1. ProposePivots(answer) = <<>> \/ ProposePivots(answer) = g
  BY DEF ProposePivots
<1>2. IsSeq(answer.leads) /\ \A n \in DOMAIN answer.leads : answer.leads[n] \in DOMAIN Queries
  BY AnySeq DEF Truthful
<1>3. g = [n \in DOMAIN answer.leads |-> g[n]] /\ \A n \in DOMAIN answer.leads : Loose(S, l, g[n])
  BY <1>2, PivotLoose
<1> HIDE DEF g
<1>4. Free(S, l, g)
  BY <1>2, <1>3, MappedFree
<1>. QED BY <1>1, <1>4, FreeNone

LEMMA ResolvePivotFree ==
  ASSUME NEW S, NEW l, NEW p \in DOMAIN Queries, NEW status
  PROVE  Free(S, l, ResolvePivot(l, p, status))
BY PivotLoose, FreeOne, FreeNone DEF ResolvePivot

LEMMA PivotsKnown ==
  ASSUME NEW l, Lawful(l)
  PROVE  IsFiniteSet(CurrentPivots(l)) /\ CurrentPivots(l) \subseteq DOMAIN Queries
<1>1. ASSUME NEW x \in CurrentPivots(l) PROVE Known(l, "pivot", x) /\ x \in DOMAIN Queries
  <2>1. PICK p \in Latest(l, "pivot") : x = p.id
    BY DEF CurrentPivots
  <2>2. Sound(l, {}, p) /\ p.type = "pivot" /\ Known(l, "pivot", p.id)
    BY LatestFacts
  <2>3. p.id \in DOMAIN Queries
    BY <2>2 DEF Sound
  <2>. QED BY <2>1, <2>2, <2>3
<1>2. IsSeq(l)
  BY DEF Lawful
<1> DEFINE K == CurrentPivots(l)
<1> HIDE DEF K
<1>3. \A x \in K : Known(l, "pivot", x) /\ x \in DOMAIN Queries
  BY <1>1 DEF K
<1>4. IsFiniteSet(K)
  BY <1>2, <1>3, KnownFinite
<1>. QED BY <1>3, <1>4 DEF K

LEMMA PlanNeedFree ==
  ASSUME NEW S, NEW l, Lawful(l), NEW need \in DOMAIN Needs, NEW generation
  PROVE  Free(S, l, PlanDiscovery(l, need, generation))
<1> DEFINE all == IF generation = "INITIAL" THEN Needs[need] ELSE SetToSeq(CurrentPivots(l))
           queries == Upto(MaxRequests, all)
           none == {q \in ToSet(queries) : Eligible(l, q) = <<>>}
           e == [type |-> "plan", id |-> <<need, generation>>, queries |-> queries, unmatched |-> none]
<1>1. PlanDiscovery(l, need, generation) = <<e>>
  BY DEF PlanDiscovery
<1>2. all \in Seq(DOMAIN Queries)
  <2>1. IsFiniteSet(CurrentPivots(l)) /\ CurrentPivots(l) \subseteq DOMAIN Queries
    BY PivotsKnown
  <2>2. SetToSeq(CurrentPivots(l)) \in Seq(CurrentPivots(l))
    BY <2>1, ListOf
  <2>3. SetToSeq(CurrentPivots(l)) \in Seq(DOMAIN Queries)
    BY <2>1, <2>2, SeqMonotonic
  <2>. QED BY <2>3, FabricAssumption
<1> HIDE DEF all
<1>3. queries \in Seq(DOMAIN Queries)
  BY <1>2, UptoSeq, FabricAssumption
<1> HIDE DEF queries, none
<1>4. e.type = "plan" /\ e.queries \in Seq(DOMAIN Queries) /\ DOMAIN e = {"type", "id", "queries", "unmatched"}
  BY <1>3
<1> HIDE DEF e
<1>5. Loose(S, l, e)
  BY <1>4 DEF Loose, Sound, Judged, Versioned
<1>. QED BY <1>1, <1>5, FreeOne

LEMMA ExecutePlanFree ==
  ASSUME NEW S, FabricSteps \subseteq S, NEW l, Lawful(l), NEW plan, NEW web,
         \A q \in ToSet(Current(l, "plan", plan).queries) : \A s \in ToSet(Queries[q]) : Truthful(web[<<q, s>>])
  PROVE  Free(S, l, ExecutePlan(l, plan, web))
<1> DEFINE One(q) == LET order == Upto(MaxSources, Eligible(l, q))
                     IN  [n \in DOMAIN order |-> Step("single", <<plan, order[n], web[<<q, order[n]>>]>>)]
           now == Current(l, "plan", plan)
           queries == now.queries
           parts == [n \in DOMAIN queries |-> One(queries[n])]
<1>1. ExecutePlan(l, plan, web) = <<>> \/ (Known(l, "plan", plan) /\ ExecutePlan(l, plan, web) = Upto(MaxRequests, Flat(parts)))
  BY DEF ExecutePlan
<1>2. IsSeq(l) /\ MaxSources \in Nat /\ MaxRequests \in Nat
  BY FabricAssumption DEF Lawful
<1>3. ASSUME NEW q \in DOMAIN Queries, q \in ToSet(queries) PROVE Free(S, l, One(q))
  <2> DEFINE at == {n \in DOMAIN Queries[q] : Usable(l, Queries[q][n])}
             some == Only(Queries[q], at)
             order == Upto(MaxSources, some)
             g == [n \in DOMAIN order |-> Step("single", <<plan, order[n], web[<<q, order[n]>>]>>)]
  <2>1. One(q) = g
    BY DEF Eligible
  <2>2. IsSeq(Queries[q]) /\ \A j \in DOMAIN Queries[q] : Queries[q][j] \in ToSet(Queries[q])
    BY FabricAssumption, AnySeq DEF ToSet
  <2> HIDE DEF at
  <2>3. IsSeq(some) /\ \A n \in DOMAIN some : \E j \in DOMAIN Queries[q] : j \in at /\ some[n] = Queries[q][j]
    BY <2>2, OnlyKeeps
  <2> HIDE DEF some
  <2>4. IsSeq(order) /\ \A k \in DOMAIN order : k \in DOMAIN some /\ order[k] = some[k]
    BY <1>2, <2>3, UptoFacts
  <2> HIDE DEF order
  <2>5. \A k \in DOMAIN order : order[k] \in ToSet(Queries[q])
    BY <2>2, <2>3, <2>4
  <2>6. ASSUME NEW s \in ToSet(Queries[q]) PROVE Loose(S, l, Step("single", <<plan, s, web[<<q, s>>]>>))
    <3> DEFINE x == <<plan, s, web[<<q, s>>]>>
    <3>1. Truthful(x[3])
      BY <1>3
    <3> HIDE DEF x
    <3>2. StepIs(l, {}, Step("single", x)) /\ "single" \in S
      BY <3>1 DEF StepIs, Step, FabricSteps
    <3>3. Loose(S, l, Step("single", x))
      BY <3>2, StepLoose
    <3>. QED BY <3>3 DEF x
  <2>7. g = [n \in DOMAIN order |-> g[n]] /\ \A n \in DOMAIN order : g[n] = Step("single", <<plan, order[n], web[<<q, order[n]>>]>>)
    OBVIOUS
  <2> HIDE DEF g
  <2>8. \A n \in DOMAIN order : Loose(S, l, g[n])
    BY <2>5, <2>6, <2>7
  <2>9. Free(S, l, g)
    BY <1>2, <2>4, <2>7, <2>8, MappedFree
  <2>. QED BY <2>1, <2>9
<1>4. ASSUME Known(l, "plan", plan) PROVE Free(S, l, Flat(parts))
  <2>1. queries \in Seq(DOMAIN Queries)
    <3>1. Sound(l, {}, now) /\ now.type = "plan"
      BY <1>4, CurrentSound
    <3> HIDE DEF now
    <3>. QED BY <3>1 DEF Sound
  <2> HIDE DEF queries
  <2>2. IsSeq(queries) /\ \A n \in DOMAIN queries : queries[n] \in DOMAIN Queries /\ queries[n] \in ToSet(queries)
    BY <2>1, AnySeq DEF ToSet
  <2>3. parts = [n \in DOMAIN queries |-> parts[n]] /\ \A n \in DOMAIN queries : parts[n] = One(queries[n])
    OBVIOUS
  <2> HIDE DEF parts, One
  <2>4. \A n \in DOMAIN queries : Free(S, l, parts[n])
    BY <1>3, <2>2, <2>3 DEF queries
  <2>5. IsSeq(parts) /\ DOMAIN parts = DOMAIN queries
    BY <2>2, <2>3, Mapped, SeqFacts
  <2>. QED BY <2>4, <2>5, FreeFlat
<1> HIDE DEF parts
<1>. QED BY <1>1, <1>2, <1>4, UptoFree, FreeNone

LEMMA CoverFree ==
  ASSUME NEW S, NEW l, Lawful(l), NEW need
  PROVE  Free(S, l, AssessCoverage(l, need))
<1> DEFINE K == {d.id : d \in Latest(l, "descriptor")}  s == SetToSeq(K)
           g == [n \in DOMAIN s |-> [type |-> "coverage", id |-> <<need, s[n]>>, state |-> Coverage(l, need, s[n])]]
<1>1. AssessCoverage(l, need) = g
  BY DEF AssessCoverage
<1>2. IsSeq(l)
  BY DEF Lawful
<1>3. \A x \in K : Known(l, "descriptor", x)
  BY LatestFacts
<1> HIDE DEF K
<1>4. IsFiniteSet(K)
  BY <1>2, <1>3, KnownFinite
<1>5. IsSeq(s)
  BY <1>4, ListOf
<1> HIDE DEF s
<1>6. g = [n \in DOMAIN s |-> g[n]] /\ \A n \in DOMAIN s : {"type", "id"} \subseteq DOMAIN g[n] /\ g[n].type \in Plain
  BY Zenon DEF Plain
<1> HIDE DEF g
<1>. QED BY <1>1, <1>2, <1>5, <1>6, PlainsFree

LEMMA WatchFree ==
  ASSUME NEW S, NEW l, NEW w, NEW active, NEW e
  PROVE  Free(S, l, <<Watch(w, active)>>) /\ Free(S, l, AlertFromChange(e))
<1> DEFINE a == [type |-> "alert", id |-> <<"fabric", e>>]
<1>1. {"type", "id"} \subseteq DOMAIN Watch(w, active) /\ Watch(w, active).type \in Plain
  BY DEF Watch, Plain
<1>2. {"type", "id"} \subseteq DOMAIN a /\ a.type \in Plain
  BY DEF Plain
<1>3. AlertFromChange(e) = <<>> \/ AlertFromChange(e) = <<a>>
  BY DEF AlertFromChange
<1> HIDE DEF a
<1>. QED BY <1>1, <1>2, <1>3, PlainLoose, FreeOne, FreeNone

LEMMA TickFree ==
  ASSUME NEW S, FabricSteps \subseteq S, NEW l, Lawful(l), NEW due, NEW by, NEW web,
         \A w \in due : Truthful(web[<<w, Watches[w].source>>])
  PROVE  Free(S, l, Tick(l, due, by, web))
<1> DEFINE K == due \cap Active(l)  s == SetToSeq(K)
           x(w) == <<w, by, web[<<w, Watches[w].source>>]>>
           g == [n \in DOMAIN s |-> Step("watch", x(s[n]))]
<1>1. Tick(l, due, by, web) = g
  BY DEF Tick
<1>2. IsSeq(l)
  BY DEF Lawful
<1>3. \A w \in K : Known(l, "watch", w) /\ w \in due
  BY LatestFacts DEF Active
<1> HIDE DEF K
<1>4. IsFiniteSet(K)
  BY <1>2, <1>3, KnownFinite
<1>5. IsSeq(s) /\ \A n \in DOMAIN s : s[n] \in due
  BY <1>3, <1>4, ListOf
<1> HIDE DEF s
<1>6. ASSUME NEW w \in due PROVE Loose(S, l, Step("watch", x(w)))
  <2> DEFINE y == x(w)
  <2>1. Truthful(y[3])
    OBVIOUS
  <2> HIDE DEF y
  <2>2. StepIs(l, {}, Step("watch", y)) /\ "watch" \in S
    BY <2>1 DEF StepIs, Step, FabricSteps
  <2>3. Loose(S, l, Step("watch", y))
    BY <2>2, StepLoose
  <2>. QED BY <2>3 DEF y
<1>7. g = [n \in DOMAIN s |-> g[n]] /\ \A n \in DOMAIN s : g[n] = Step("watch", x(s[n]))
  OBVIOUS
<1> HIDE DEF g, x
<1>8. \A n \in DOMAIN s : Loose(S, l, g[n])
  BY <1>5, <1>6, <1>7
<1>9. Free(S, l, g)
  BY <1>2, <1>5, <1>7, <1>8, MappedFree
<1>. QED BY <1>1, <1>9

-----------------------------------------------------------------------------
(***************************************************************************)
(* Runs of watches.                                                        *)
(***************************************************************************)
Told(l, F, q) == IsSeq(q) /\ \A n \in DOMAIN q : Sound(l, F, q[n]) /\ q[n].type # "step" /\ q[n].type \notin Judged

LEMMA ToldNone ==
  ASSUME NEW l, NEW F
  PROVE  Told(l, F, <<>>)
<1> DEFINE q == <<>>
<1>1. IsSeq(q) /\ Len(q) = 0
  BY EmptySeq, AnySeq
<1> HIDE DEF q
<1>2. DOMAIN q = {}
  BY <1>1, SeqFacts
<1>. QED BY <1>1, <1>2 DEF Told, q

LEMMA ToldOne ==
  ASSUME NEW l, NEW F, NEW e, Sound(l, F, e), e.type # "step", e.type \notin Judged
  PROVE  Told(l, F, <<e>>)
<1> DEFINE q == <<e>>
<1>1. IsSeq(q) /\ Len(q) = 1 /\ q[1] = e
  BY Single
<1> HIDE DEF q
<1>2. \A n \in DOMAIN q : n = 1
  BY <1>1, SeqFacts
<1>3. Told(l, F, q)
  BY <1>1, <1>2 DEF Told
<1>. QED BY <1>3 DEF q

LEMMA ToldJoined ==
  ASSUME NEW l, NEW F, NEW a, Told(l, F, a), NEW b, Told(l, F, b)
  PROVE  Told(l, F, a \o b)
<1> DEFINE w == a \o b
<1>1. /\ IsSeq(a) /\ IsSeq(b) /\ Len(a) \in Nat /\ Len(b) \in Nat
      /\ DOMAIN a = 1 .. Len(a) /\ DOMAIN b = 1 .. Len(b)
  BY SeqFacts DEF Told
<1>2. /\ IsSeq(w) /\ DOMAIN w = 1 .. Len(a) + Len(b)
      /\ \A n \in 1 .. Len(a) : w[n] = a[n]
      /\ \A n \in 1 .. Len(b) : w[Len(a) + n] = b[n]
  BY <1>1, Concatenated
<1> HIDE DEF w
<1>3. ASSUME NEW n \in DOMAIN w PROVE Sound(l, F, w[n]) /\ w[n].type # "step" /\ w[n].type \notin Judged
  <2>1. CASE n <= Len(a)
    <3>1. n \in DOMAIN a /\ w[n] = a[n]
      BY <1>1, <1>2, <2>1
    <3>. QED BY <3>1 DEF Told
  <2>2. CASE ~(n <= Len(a))
    <3>1. n - Len(a) \in DOMAIN b /\ n = Len(a) + (n - Len(a))
      BY <1>1, <1>2, <2>2
    <3>2. w[n] = b[n - Len(a)]
      BY <1>1, <1>2, <3>1
    <3>. QED BY <3>1, <3>2 DEF Told
  <2>. QED BY <2>1, <2>2
<1>4. Told(l, F, w)
  BY <1>2, <1>3 DEF Told
<1>. QED BY <1>4 DEF w

LEMMA ToldMapped ==
  ASSUME NEW l, NEW F, NEW s, IsSeq(s), NEW g, g = [n \in DOMAIN s |-> g[n]],
         \A n \in DOMAIN s : Sound(l, F, g[n]) /\ g[n].type # "step" /\ g[n].type \notin Judged
  PROVE  Told(l, F, g)
<1>1. IsSeq(g) /\ DOMAIN g = DOMAIN s
  BY Mapped, SeqFacts
<1>. QED BY <1>1 DEF Told

LEMMA ToldMore ==
  ASSUME NEW l, IsSeq(l), NEW F, NEW G, F \subseteq G, NEW q, Told(l, F, q)
  PROVE  Told(l, G, q)
<1>1. \A n \in DOMAIN q : Sound(l, G, q[n])
  BY SoundSame DEF Told
<1>. QED BY <1>1 DEF Told

(* Facts written first, and then what rests on them. *)
LEMMA ToldChained ==
  ASSUME NEW S, NEW l, IsSeq(l), NEW F, NEW a, Calm(S, l, a), \A k \in 1 .. Len(a) : a[k].type # "step",
         \A f \in F : \E k \in 1 .. Len(a) : f \in Facts(a[k]), NEW b, Told(l, F, b)
  PROVE  /\ Calm(S, l, a \o b)
         /\ \A k \in 1 .. Len(a \o b) : (a \o b)[k].type # "step"
         /\ \A k \in 1 .. Len(a) : (a \o b)[k] = a[k]
         /\ Len(a \o b) = Len(a) + Len(b) /\ Len(a) \in Nat /\ Len(b) \in Nat
<1> DEFINE w == a \o b
<1>1. /\ IsSeq(a) /\ IsSeq(b) /\ Len(a) \in Nat /\ Len(b) \in Nat
      /\ DOMAIN a = 1 .. Len(a) /\ DOMAIN b = 1 .. Len(b)
  BY SeqFacts DEF Told, Calm, Queue
<1>2. /\ IsSeq(w) /\ Len(w) = Len(a) + Len(b)
      /\ \A n \in 1 .. Len(a) : w[n] = a[n]
      /\ \A n \in 1 .. Len(b) : w[Len(a) + n] = b[n]
  BY <1>1, Concatenated
<1>3. \A n \in 1 .. Len(b) : Sound(l, F, b[n]) /\ (b[n].type = "step" => n = Len(b) /\ b[n].what \in S)
  BY <1>1, Zenon DEF Told
<1>4. Queue(S, l, a)
  BY DEF Calm
<1>5. Queue(S, l, w)
  BY <1>1, <1>3, <1>4, Chained, Zenon
<1> HIDE DEF w
<1>6. ASSUME NEW n \in 1 .. Len(w) PROVE w[n].type # "step" /\ w[n].type \notin Judged
  <2>1. CASE n <= Len(a)
    <3>1. n \in 1 .. Len(a) /\ w[n] = a[n]
      BY <1>1, <1>2, <2>1
    <3>. QED BY <3>1 DEF Calm
  <2>2. CASE ~(n <= Len(a))
    <3>1. n - Len(a) \in 1 .. Len(b) /\ n = Len(a) + (n - Len(a))
      BY <1>1, <1>2, <2>2
    <3>2. w[n] = b[n - Len(a)]
      BY <1>1, <1>2, <3>1
    <3>. QED BY <1>1, <3>1, <3>2 DEF Told
  <2>. QED BY <2>1, <2>2
<1>7. Calm(S, l, w)
  BY <1>5, <1>6 DEF Calm
<1>. QED BY <1>1, <1>2, <1>6, <1>7 DEF w

LEMMA AnswerTruthful ==
  ASSUME NEW usable \in BOOLEAN, NEW given, Truthful(given)
  PROVE  Truthful(Answer(usable, given))
<1> DEFINE none == NoAnswer("NOT_ATTEMPTED")
<1>1. none.outcome = "NOT_ATTEMPTED" /\ none.body = None /\ none.seen = Nothing /\ none.records = Nothing /\ none.leads = <<>>
  BY DEF NoAnswer
<1> HIDE DEF none
<1>2. <<>> \in Seq(DOMAIN Queries) /\ DOMAIN Nothing = {}
  BY DEF Nothing
<1>3. IsFiniteSet(DOMAIN Nothing)
  BY <1>2, FS_EmptySet
<1>4. Truthful(none)
  BY <1>1, <1>2, <1>3, Zenon DEF Truthful, None
<1>. QED BY <1>4 DEF Answer, none

(* What is kept, and the execution that names it. *)
Backed(S, l, F, a) ==
  /\ Calm(S, l, a) /\ \A k \in 1 .. Len(a) : a[k].type # "step"
  /\ \A f \in F : \E k \in 1 .. Len(a) : f \in Facts(a[k])
Finished1(S, l, plan, s, answer, a) ==
  /\ Finish(l, plan, s, answer) = a \o StatusAfter(l, s, answer.outcome)
  /\ Calm(S, l, a) /\ \A k \in 1 .. Len(a) : a[k].type # "step"
  /\ \E k \in 1 .. Len(a) : <<"execution", <<plan, s>>>> \in Facts(a[k])
  /\ answer.body # None => \E k \in 1 .. Len(a) : <<"manifestation", answer.body>> \in Facts(a[k])

LEMMA BackedMore ==
  ASSUME NEW S, NEW l, IsSeq(l), NEW F, NEW a, Backed(S, l, F, a), NEW b, Told(l, F, b)
  PROVE  Backed(S, l, F, a \o b)
<1> DEFINE w == a \o b
<1>1. Calm(S, l, a) /\ (\A k \in 1 .. Len(a) : a[k].type # "step") /\ \A f \in F : \E k \in 1 .. Len(a) : f \in Facts(a[k])
  BY DEF Backed
<1>a. /\ Calm(S, l, a \o b)
      /\ \A k \in 1 .. Len(a \o b) : (a \o b)[k].type # "step"
      /\ \A k \in 1 .. Len(a) : (a \o b)[k] = a[k]
      /\ Len(a \o b) = Len(a) + Len(b) /\ Len(a) \in Nat /\ Len(b) \in Nat
  BY <1>1, ToldChained
<1>2. /\ Calm(S, l, w) /\ (\A k \in 1 .. Len(w) : w[k].type # "step") /\ \A k \in 1 .. Len(a) : w[k] = a[k]
      /\ Len(w) = Len(a) + Len(b) /\ Len(a) \in Nat /\ Len(b) \in Nat
  BY <1>a
<1> HIDE DEF w
<1>3. \A k \in 1 .. Len(a) : k \in 1 .. Len(w)
  BY <1>2
<1>4. \A f \in F : \E k \in 1 .. Len(w) : f \in Facts(w[k])
  BY <1>1, <1>2, <1>3
<1>5. Backed(S, l, F, w)
  BY <1>2, <1>4 DEF Backed
<1>. QED BY <1>5 DEF w

LEMMA Finishing ==
  ASSUME NEW S, NEW l, IsSeq(l), NEW plan, NEW s, NEW answer, Truthful(answer)
  PROVE  \E a : Finished1(S, l, plan, s, answer, a)
<1> DEFINE kept == Kept(answer)
           g == [n \in DOMAIN kept |-> [type |-> "manifestation", id |-> kept[n]]]
           e == ExecutionOf(plan, s, answer)
           F == {<<"manifestation", m>> : m \in ToSet(kept)}
           a == g \o <<e>>
<1>1. Finish(l, plan, s, answer) = g \o <<e>> \o StatusAfter(l, s, answer.outcome)
  BY DEF Finish
<1>2. IsSeq(kept) /\ (\A n \in DOMAIN kept : kept[n] \in DOMAIN Readings) /\ (answer.body # None => answer.body \in ToSet(kept))
  <2>1. CASE answer.outcome \in Searched /\ answer.body # None
    <3> DEFINE m == answer.body  q == <<m>>
    <3>1. kept = q /\ m \in DOMAIN Readings
      BY <2>1 DEF Kept, Truthful
    <3> HIDE DEF m
    <3>2. IsSeq(q) /\ Len(q) = 1 /\ q[1] = m
      BY Single
    <3> HIDE DEF q
    <3>3. DOMAIN q = 1 .. 1 /\ ToSet(q) = {q[n] : n \in 1 .. Len(q)}
      BY <3>2, SeqFacts
    <3>4. 1 \in 1 .. Len(q)
      BY <3>2
    <3>5. m \in ToSet(q)
      BY <3>2, <3>3, <3>4
    <3>6. \A n \in DOMAIN q : n = 1
      BY <3>3
    <3> HIDE DEF kept
    <3>. QED BY <3>1, <3>2, <3>5, <3>6 DEF m
  <2>2. CASE ~(answer.outcome \in Searched /\ answer.body # None)
    <3>1. kept = <<>> /\ answer.body = None
      BY <2>2 DEF Kept, Truthful
    <3>2. IsSeq(<<>>) /\ Len(<<>>) = 0
      BY EmptySeq, AnySeq
    <3> HIDE DEF kept
    <3>3. IsSeq(kept) /\ DOMAIN kept = {}
      <4>1. IsSeq(kept) /\ Len(kept) = 0
        BY <3>1, <3>2
      <4>2. DOMAIN kept = 1 .. Len(kept)
        BY <4>1, SeqFacts
      <4>. QED BY <4>1, <4>2
    <3>. QED BY <3>1, <3>3
  <2>. QED BY <2>1, <2>2
<1>3. e.type = "execution" /\ e.id = <<plan, s>> /\ e.manifestations = ToSet(kept) /\ DOMAIN e = {"type", "id", "n", "outcome", "manifestations"}
  BY DEF ExecutionOf
<1> HIDE DEF kept, e
<1>4. Free(S, l, g)
  BY <1>2, ManifestationsFree
<1>5. g = [n \in DOMAIN kept |-> g[n]] /\ \A n \in DOMAIN kept : g[n].type = "manifestation" /\ g[n].id = kept[n]
  OBVIOUS
<1> HIDE DEF g
<1>6. Calm(S, l, g)
  BY <1>4, FreeCalm
<1>7. IsSeq(g) /\ Len(g) \in Nat /\ DOMAIN g = 1 .. Len(g) /\ DOMAIN g = DOMAIN kept /\ ToSet(kept) = {kept[n] : n \in 1 .. Len(kept)}
      /\ DOMAIN kept = 1 .. Len(kept)
  BY <1>2, <1>5, Mapped, SeqFacts
<1>8. \A k \in 1 .. Len(g) : g[k].type # "step"
  BY <1>5, <1>7
<1>9. \A k \in DOMAIN kept : <<"manifestation", kept[k]>> \in Facts(g[k])
  BY <1>5 DEF Facts
<1>10. \A m \in ToSet(kept) : \E k \in 1 .. Len(g) : <<"manifestation", m>> \in Facts(g[k])
  BY <1>7, <1>9
<1>11. \A f \in F : \E k \in 1 .. Len(g) : f \in Facts(g[k])
  BY <1>10
<1>12. \A m \in e.manifestations : <<"manifestation", m>> \in F
  BY <1>3
<1> HIDE DEF F
<1>13. Sound(l, F, e)
  BY <1>3, <1>12 DEF Sound, Versioned, Has
<1>14. Told(l, F, <<e>>)
  BY <1>3, <1>13, ToldOne DEF Judged
<1> DEFINE b == <<e>>
<1>15. Len(b) = 1 /\ b[1] = e
  OBVIOUS
<1>16. <<"execution", <<plan, s>>>> \in Facts(e)
  BY <1>3 DEF Facts
<1>17. IsSeq(b)
  BY Single
<1> HIDE DEF b
<1>18. /\ Calm(S, l, g \o b)
       /\ \A k \in 1 .. Len(g \o b) : (g \o b)[k].type # "step"
       /\ \A k \in 1 .. Len(g) : (g \o b)[k] = g[k]
       /\ Len(g \o b) = Len(g) + Len(b) /\ Len(g) \in Nat /\ Len(b) \in Nat
  BY <1>6, <1>8, <1>11, <1>14, ToldChained DEF b
<1>19. (g \o b)[Len(g) + 1] = e
  BY <1>7, JoinedOne DEF b
<1> DEFINE w == g \o b
<1> HIDE DEF w
<1>20. \E k \in 1 .. Len(w) : <<"execution", <<plan, s>>>> \in Facts(w[k])
  <2>1. Len(g) + 1 \in 1 .. Len(w) /\ w[Len(g) + 1] = e
    BY <1>15, <1>18, <1>19 DEF w
  <2>. QED BY <1>16, <2>1
<1>21. ASSUME answer.body # None PROVE \E k \in 1 .. Len(w) : <<"manifestation", answer.body>> \in Facts(w[k])
  <2>1. PICK k \in 1 .. Len(g) : <<"manifestation", answer.body>> \in Facts(g[k])
    BY <1>2, <1>10, <1>21
  <2>2. k \in 1 .. Len(w) /\ w[k] = g[k]
    BY <1>15, <1>18 DEF w
  <2>. QED BY <2>1, <2>2
<1>22. Finish(l, plan, s, answer) = w \o StatusAfter(l, s, answer.outcome)
  BY <1>1 DEF w, b
<1>23. Calm(S, l, w) /\ \A k \in 1 .. Len(w) : w[k].type # "step"
  BY <1>18 DEF w
<1>24. Finished1(S, l, plan, s, answer, w)
  BY <1>20, <1>21, <1>22, <1>23 DEF Finished1
<1>. QED BY <1>24

LEMMA StatusFree ==
  ASSUME NEW S, NEW l, NEW s, NEW outcome
  PROVE  Free(S, l, StatusAfter(l, s, outcome)) /\ Told(l, {}, StatusAfter(l, s, outcome))
<1>1. ASSUME NEW kind PROVE Loose(S, l, Status(s, kind)) /\ Status(s, kind).type # "step"
  <2>1. {"type", "id"} \subseteq DOMAIN Status(s, kind) /\ Status(s, kind).type \in Plain
    BY DEF Status, Plain
  <2>. QED BY <2>1, PlainLoose, Zenon DEF Plain
<1>2. StatusAfter(l, s, outcome) = <<>> \/ \E kind \in {"SUCCESS", "FAILURE"} : StatusAfter(l, s, outcome) = <<Status(s, kind)>>
  BY DEF StatusAfter
<1>3. \A kind : Free(S, l, <<Status(s, kind)>>)
  BY <1>1, FreeOne
<1>4. \A kind : Told(l, {}, <<Status(s, kind)>>)
  BY <1>1, ToldOne DEF Loose
<1>. QED BY <1>2, <1>3, <1>4, FreeNone, ToldNone

LEMMA SingleCalm ==
  ASSUME NEW S, NEW l, IsSeq(l), NEW plan, NEW s, NEW answer, Truthful(answer)
  PROVE  Calm(S, l, Finish(l, plan, s, answer) \o ProposePivots(answer))
<1>0. PICK a : Finished1(S, l, plan, s, answer, a)
  BY Finishing
<1>1. Finish(l, plan, s, answer) = a \o StatusAfter(l, s, answer.outcome) /\ Calm(S, l, a)
  BY <1>0 DEF Finished1
<1>2. Calm(S, l, StatusAfter(l, s, answer.outcome))
  BY StatusFree, FreeCalm
<1>3. Calm(S, l, Finish(l, plan, s, answer))
  BY <1>1, <1>2, CalmJoined
<1>4. Free(S, l, ProposePivots(answer))
  BY PivotsFree
<1>5. Calm(S, l, ProposePivots(answer))
  BY <1>4, FreeCalm
<1>. QED BY <1>3, <1>5, CalmJoined

LEMMA ChangeTold ==
  ASSUME NEW l, NEW F, NEW w, NEW run, NEW class, class # "CONTENT_CHANGED", NEW prior, NEW current, NEW cited,
         class = "RETRIEVAL_FAILURE" \/ prior \in {None, current} \/ current = None
  PROVE  Sound(l, F, Change(w, run, class, prior, current, cited)) /\ Change(w, run, class, prior, current, cited).type # "step"
         /\ Change(w, run, class, prior, current, cited).type \notin Judged
<1> DEFINE e == Change(w, run, class, prior, current, cited)
<1>1. e.type = "fabric change" /\ e.class = class /\ DOMAIN e = {"type", "id", "failed", "class", "watch", "run", "cited"}
      /\ e.failed = (class = "RETRIEVAL_FAILURE") /\ e.id = <<prior, current>>
  BY DEF Change
<1>3. e.id[1] = prior /\ e.id[2] = current
  BY DEF Change
<1> HIDE DEF e
<1>2. Sound(l, F, e) /\ e.type # "step" /\ e.type \notin Judged
  BY <1>1, <1>3, Zenon DEF Sound, Judged, Versioned
<1>. QED BY <1>2 DEF e

LEMMA DiffRecordsTold ==
  ASSUME NEW l, NEW F, NEW w, NEW run, NEW before, IsFiniteSet(DOMAIN before), NEW now, IsFiniteSet(DOMAIN now), NEW cited
  PROVE  Told(l, F, DiffRecords(w, run, before, now, cited))
<1> DEFINE A == DOMAIN before \ DOMAIN now
           B == DOMAIN now \ DOMAIN before
           C == {r \in DOMAIN now \cap DOMAIN before : now[r] # 0 /\ before[r] # 0 /\ now[r] # before[r]}
           gone  == Upto(MaxFound, SetToSeq(A))
           new   == Upto(MaxFound, SetToSeq(B))
           moved == SetToSeq(C)
           x == [n \in DOMAIN new |-> Change(w, run, "NEW_OBJECT", None, new[n], cited)]
           y == [n \in DOMAIN gone |-> Change(w, run, "DISAPPEARED_OBJECT", gone[n], None, cited)]
           z == [n \in DOMAIN moved |-> Change(w, run, "CHANGED_SOURCE_RECORD", moved[n], moved[n], cited)]
<1>1. DiffRecords(w, run, before, now, cited) = x \o y \o z
  BY DEF DiffRecords
<1>2. IsFiniteSet(A) /\ IsFiniteSet(B) /\ IsFiniteSet(C)
  <2>1. A \subseteq DOMAIN before /\ B \subseteq DOMAIN now /\ C \subseteq DOMAIN now
    OBVIOUS
  <2> HIDE DEF A, B, C
  <2>. QED BY <2>1, FS_Subset
<1> HIDE DEF A, B, C
<1>3. IsSeq(SetToSeq(A)) /\ IsSeq(SetToSeq(B)) /\ IsSeq(moved)
  BY <1>2, ListOf
<1>4. IsSeq(gone) /\ IsSeq(new)
  BY <1>3, UptoFacts, FabricAssumption
<1> HIDE DEF gone, new, moved
<1>5. Told(l, F, x)
  <2>1. x = [n \in DOMAIN new |-> x[n]] /\ \A n \in DOMAIN new : Sound(l, F, x[n]) /\ x[n].type # "step" /\ x[n].type \notin Judged
    BY ChangeTold
  <2> HIDE DEF x
  <2>. QED BY <1>4, <2>1, ToldMapped
<1>6. Told(l, F, y)
  <2>1. y = [n \in DOMAIN gone |-> y[n]] /\ \A n \in DOMAIN gone : Sound(l, F, y[n]) /\ y[n].type # "step" /\ y[n].type \notin Judged
    BY ChangeTold
  <2> HIDE DEF y
  <2>. QED BY <1>4, <2>1, ToldMapped
<1>7. Told(l, F, z)
  <2>1. z = [n \in DOMAIN moved |-> z[n]] /\ \A n \in DOMAIN moved : Sound(l, F, z[n]) /\ z[n].type # "step" /\ z[n].type \notin Judged
    BY ChangeTold
  <2> HIDE DEF z
  <2>. QED BY <1>3, <2>1, ToldMapped
<1> HIDE DEF x, y, z
<1>8. Told(l, F, x \o y)
  BY <1>5, <1>6, ToldJoined
<1>. QED BY <1>1, <1>7, <1>8, ToldJoined

LEMMA RunSound ==
  ASSUME NEW l, Lawful(l), NEW w, Known(l, "run", w)
  PROVE  LET previous == Current(l, "run", w) IN
         /\ previous.body # None => Known(l, "manifestation", previous.body) /\ previous.seen = Readings[previous.body].says
         /\ IsFiniteSet(DOMAIN previous.records)
<1> DEFINE previous == Current(l, "run", w)
<1>1. Sound(l, {}, previous) /\ previous.type = "run"
  BY CurrentSound
<1> HIDE DEF previous
<1>2. /\ previous.body # None => Has(l, {}, "manifestation", previous.body) /\ previous.seen = Readings[previous.body].says
      /\ IsFiniteSet(DOMAIN previous.records)
  BY <1>1 DEF Sound
<1>3. Has(l, {}, "manifestation", previous.body) => Known(l, "manifestation", previous.body)
  BY DEF Has
<1>. QED BY <1>2, <1>3 DEF previous

LEMMA DiffTold ==
  ASSUME NEW l, Lawful(l), NEW F, NEW w, NEW run, NEW answer, Truthful(answer),
         answer.body # None => <<"manifestation", answer.body>> \in F
  PROVE  Told(l, F, DiffChanges(l, w, run, answer))
<1> DEFINE first == ~Known(l, "run", w)  previous == Current(l, "run", w)
           e == Change(w, run, "RETRIEVAL_FAILURE", IF first THEN None ELSE previous.body, None, {})
           c == Change(w, run, "CONTENT_CHANGED", previous.body, answer.body, ToSet(Kept(answer)))
           records == DiffRecords(w, run, previous.records, answer.records, ToSet(Kept(answer)))
<1>1. \/ DiffChanges(l, w, run, answer) = <<e>>
      \/ DiffChanges(l, w, run, answer) = <<>>
      \/ /\ answer.outcome \notin Failed /\ ~first
         /\ previous.seen # Nothing /\ answer.seen # Nothing /\ previous.seen # answer.seen
         /\ DiffChanges(l, w, run, answer) = <<c>>
      \/ ~first /\ DiffChanges(l, w, run, answer) = records
  <2> DEFINE again == IF previous.seen = Nothing \/ answer.seen = Nothing \/ previous.seen = answer.seen THEN <<>> ELSE <<c>>
  <2>1. DiffChanges(l, w, run, answer) =
          CASE answer.outcome \in Failed -> <<e>>
            [] answer.outcome \notin Failed /\ first -> <<>>
            [] answer.outcome \notin Failed /\ ~first /\ Watches[w].page -> again
            [] OTHER -> records
    BY DEF DiffChanges
  <2>2. again = <<>> \/ (previous.seen # Nothing /\ answer.seen # Nothing /\ previous.seen # answer.seen /\ again = <<c>>)
    OBVIOUS
  <2> HIDE DEF first, previous, e, c, records, again
  <2>. QED BY <2>1, <2>2
<1>2. Told(l, F, <<e>>)
  <2>1. "RETRIEVAL_FAILURE" # "CONTENT_CHANGED"
    OBVIOUS
  <2>2. Sound(l, F, e) /\ e.type # "step" /\ e.type \notin Judged
    BY <2>1, ChangeTold
  <2> HIDE DEF e
  <2>. QED BY <2>2, ToldOne
<1>3. ASSUME ~first PROVE Told(l, F, records)
  <2>1. IsFiniteSet(DOMAIN previous.records)
    BY <1>3, RunSound
  <2>2. IsFiniteSet(DOMAIN answer.records)
    BY DEF Truthful
  <2> HIDE DEF previous
  <2>. QED BY <2>1, <2>2, DiffRecordsTold
<1>4. ASSUME ~first, answer.outcome \notin Failed, previous.seen # Nothing, answer.seen # Nothing, previous.seen # answer.seen
      PROVE  Told(l, F, <<c>>)
  <2>1. previous.body # None => Known(l, "manifestation", previous.body) /\ previous.seen = Readings[previous.body].says
    BY <1>4, RunSound
  <2>2. answer.body # None /\ answer.seen = Readings[answer.body].says
    BY <1>4 DEF Truthful
  <2> HIDE DEF previous
  <2>3. c.type = "fabric change" /\ c.id = <<previous.body, answer.body>> /\ DOMAIN c = {"type", "id", "failed", "class", "watch", "run", "cited"}
    BY DEF Change
  <2> HIDE DEF c
  <2> DEFINE p == c.id[1]  m == c.id[2]
  <2>a. p = previous.body /\ m = answer.body
    <3> DEFINE u == previous.body  v == answer.body  q == <<u, v>>
    <3>1. q[1] = u /\ q[2] = v
      OBVIOUS
    <3>2. c.id = q
      BY <2>3, Zenon
    <3> HIDE DEF q
    <3>. QED BY <3>1, <3>2
  <2> HIDE DEF p, m
  <2>b. <<"manifestation", m>> \in F
    BY <2>2, <2>a
  <2>4. Has(l, F, "manifestation", m)
    BY <2>b DEF Has
  <2>5. p # None => Readings[p].says # Readings[m].says /\ InOrder(l, F, p, m)
    <3>1. p # None => Readings[p].says # Readings[m].says /\ Known(l, "manifestation", p)
      BY <1>4, <2>1, <2>2, <2>a
    <3>2. p # None => InOrder(l, F, p, m)
      BY <3>1, <2>b DEF InOrder
    <3>. QED BY <3>1, <3>2
  <2>6. Sound(l, F, c)
    <3>1. /\ Has(l, F, "manifestation", c.id[2])
          /\ c.id[1] # None => Readings[c.id[1]].says # Readings[c.id[2]].says /\ InOrder(l, F, c.id[1], c.id[2])
      BY <2>4, <2>5 DEF p, m
    <3>2. c.id = <<c.id[1], c.id[2]>>
      BY <2>3, <2>a, Zenon DEF p, m
    <3>3. c.id[1] = None \/ Has(l, F, "manifestation", c.id[1])
      BY <2>1, <2>a DEF Has, p
    <3>4. c.failed = FALSE => c.id[1] \in {None, c.id[2]} \/ c.id[2] = None \/ Has(l, F, "manifestation", c.id[1])
      BY <3>3
    <3>. QED BY <2>3, <3>1, <3>2, <3>4, Zenon DEF Sound, Versioned
  <2>. QED BY <2>3, <2>6, ToldOne, Zenon DEF Judged
<1> HIDE DEF e, c, records, first, previous
<1>. QED BY <1>1, <1>2, <1>3, <1>4, ToldNone

LEMMA RunWatchCalm ==
  ASSUME NEW S, NEW l, Lawful(l), NEW w, NEW by, NEW given, Truthful(given)
  PROVE  Calm(S, l, RunWatch(l, w, by, given))
<1> DEFINE s == Watches[w].source
           answer == Answer(Usable(l, s), given)
           run == <<by, Len(l)>>
           plan == <<w, run>>
           changes == DiffChanges(l, w, run, answer)
           r == [type |-> "run", id |-> w, run |-> run, outcome |-> answer.outcome, body |-> answer.body,
                 seen |-> answer.seen, records |-> answer.records, changes |-> ToSet(changes)]
           F == {f \in {<<"execution", <<plan, s>>>>, <<"manifestation", answer.body>>} :
                   f = <<"execution", <<plan, s>>>> \/ answer.body # None}
<1>1. RunWatch(l, w, by, given) = Finish(l, plan, s, answer) \o <<r>> \o changes
  BY DEF RunWatch
<1>2. IsSeq(l)
  BY DEF Lawful
<1>3. Truthful(answer)
  <2>1. Usable(l, s) \in BOOLEAN
    BY DEF Usable, Known
  <2>. QED BY <2>1, AnswerTruthful
<1> HIDE DEF answer
<1>4. <<"execution", <<plan, s>>>> \in F /\ (answer.body # None => <<"manifestation", answer.body>> \in F)
  OBVIOUS
<1>5. \A f \in F : f = <<"execution", <<plan, s>>>> \/ (answer.body # None /\ f = <<"manifestation", answer.body>>)
  OBVIOUS
<1> HIDE DEF F
<1>6. Told(l, F, changes)
  BY <1>3, <1>4, DiffTold
<1> HIDE DEF run, changes
<1>7. /\ r.type = "run" /\ r.id = w /\ r.run = run /\ r.body = answer.body /\ r.seen = answer.seen /\ r.records = answer.records
      /\ DOMAIN r = {"type", "id", "run", "outcome", "body", "seen", "records", "changes"}
  OBVIOUS
<1> HIDE DEF r
<1>8. Sound(l, F, r)
  <2>1. Has(l, F, "execution", <<<<r.id, r.run>>, Watches[r.id].source>>)
    BY <1>4, <1>7 DEF Has
  <2>2. r.body # None => Has(l, F, "manifestation", r.body) /\ r.seen = Readings[r.body].says
    BY <1>3, <1>4, <1>7 DEF Has, Truthful
  <2>3. IsFiniteSet(DOMAIN r.records)
    BY <1>3, <1>7 DEF Truthful
  <2>. QED BY <1>7, <2>1, <2>2, <2>3 DEF Sound, Versioned
<1>9. Told(l, F, <<r>>)
  BY <1>7, <1>8, ToldOne DEF Judged
<1> HIDE DEF plan, s
<1>10. PICK a : Finished1(S, l, plan, s, answer, a)
  BY <1>2, <1>3, Finishing
<1>11. Backed(S, l, F, a) /\ Finish(l, plan, s, answer) = a \o StatusAfter(l, s, answer.outcome)
  BY <1>5, <1>10 DEF Backed, Finished1
<1>12. Told(l, F, StatusAfter(l, s, answer.outcome))
  <2>1. Told(l, {}, StatusAfter(l, s, answer.outcome))
    BY StatusFree
  <2>. QED BY <1>2, <2>1, ToldMore
<1>13. Backed(S, l, F, Finish(l, plan, s, answer))
  BY <1>2, <1>11, <1>12, BackedMore
<1>14. Backed(S, l, F, Finish(l, plan, s, answer) \o <<r>>)
  BY <1>2, <1>9, <1>13, BackedMore
<1>15. Backed(S, l, F, Finish(l, plan, s, answer) \o <<r>> \o changes)
  BY <1>2, <1>6, <1>14, BackedMore
<1>. QED BY <1>1, <1>15 DEF Backed

-----------------------------------------------------------------------------
(***************************************************************************)
(* What a step comes to.                                                   *)
(***************************************************************************)
LEMMA SemanticStep ==
  ASSUME NEW S, SemanticSteps \subseteq S, NEW l, Lawful(l), NEW s, Sound(l, {}, s), s.type = "step", s.what \in SemanticSteps
  PROVE  Draft(S, l, SemanticContinue(l, s))
<1> DEFINE id == s.id
<1>1. StepIs(l, {}, s) /\ IsSeq(l)
  BY Zenon DEF Sound, Lawful
<1>2. SUFFICES ASSUME ~Draft(S, l, SemanticContinue(l, s)) PROVE FALSE
  OBVIOUS
<1>3. \A q : Free(S, l, q) => q # SemanticContinue(l, s)
  BY <1>1, <1>2, FreeDraft
<1>4. \A t, x : Has(l, {}, t, x) => Known(l, t, x)
  BY DEF Has
<1>5. CASE s.what \in {"manifestation", "extract", "integrate", "understood", "failed"}
  <2>1. CASE s.what = "manifestation"
    <3>1. SemanticContinue(l, s) = Normalize(l, id[1], id[2])
      BY <2>1 DEF SemanticContinue
    <3>. QED BY <1>1, <1>3, <2>1, <3>1, NormalizeFree DEF StepIs
  <2>2. CASE s.what = "extract"
    <3>1. SemanticContinue(l, s) = ExtractObservations(l, id)
      BY <2>2 DEF SemanticContinue
    <3>. QED BY <1>1, <1>3, <2>2, <3>1, ExtractFree DEF StepIs
  <2>3. CASE s.what = "integrate"
    <3>1. SemanticContinue(l, s) = IntegrateDocument(l, id)
      BY <2>3 DEF SemanticContinue
    <3>. QED BY <1>3, <3>1, DocumentFree
  <2>4. CASE s.what = "understood"
    <3>1. SemanticContinue(l, s) = ResolveFailure(l, id)
      BY <2>4 DEF SemanticContinue
    <3>. QED BY <1>1, <1>3, <3>1, RecordFailureFree
  <2>5. CASE s.what = "failed"
    <3>1. SemanticContinue(l, s) = RecordFailure(l, id)
      BY <2>5 DEF SemanticContinue
    <3>. QED BY <1>1, <1>3, <3>1, RecordFailureFree
  <2>. QED BY <1>5, <2>1, <2>2, <2>3, <2>4, <2>5
<1>6. CASE s.what \in {"entity", "stub", "target", "relate", "hearsay"}
  <2>1. CASE s.what = "entity"
    <3>1. SemanticContinue(l, s) = IntegrateEntity(l, id[1], id[2], id[3])
      BY <2>1 DEF SemanticContinue
    <3>. QED BY <1>1, <1>3, <3>1, EntityFree
  <2>2. CASE s.what = "stub"
    <3>1. SemanticContinue(l, s) = EnsureStub(l, id[1], id[2], id[3])
      BY <2>2 DEF SemanticContinue
    <3>. QED BY <1>1, <1>3, <3>1, EntityFree
  <2>3. CASE s.what = "target"
    <3>1. SemanticContinue(l, s) = EnsureStub(l, id[1], id[2], Topics[id[2]].other) \o <<Step("relate", id)>>
      BY <2>3 DEF SemanticContinue
    <3>2. Free(S, l, EnsureStub(l, id[1], id[2], Topics[id[2]].other))
      BY <1>1, EntityFree
    <3>3. id[2] \in DOMAIN Topics
      BY <1>1, <2>3 DEF StepIs
    <3>4. StepIs(l, {}, Step("relate", id))
      BY <3>3 DEF StepIs, Step
    <3>5. "relate" \in S
      BY Zenon DEF SemanticSteps
    <3>6. Free(S, l, <<Step("relate", id)>>)
      BY <3>4, <3>5, StepLoose, FreeOne
    <3>7. Free(S, l, EnsureStub(l, id[1], id[2], Topics[id[2]].other) \o <<Step("relate", id)>>)
      BY <3>2, <3>6, FreeJoined
    <3>. QED BY <1>3, <3>1, <3>7
  <2>4. CASE s.what = "relate"
    <3>1. SemanticContinue(l, s) = IntegrateRelation(l, id[1], id[2])
      BY <2>4 DEF SemanticContinue
    <3>. QED BY <1>1, <1>3, <2>4, <3>1, IntegrateRelationFree DEF StepIs
  <2>5. CASE s.what = "hearsay"
    <3>1. SemanticContinue(l, s) = Hearsay(l, id[1], id[2])
      BY <2>5 DEF SemanticContinue
    <3>. QED BY <1>3, <3>1, HearsayFree
  <2>. QED BY <1>6, <2>1, <2>2, <2>3, <2>4, <2>5
<1>7. CASE s.what \in {"claim", "standing", "cross", "evaluate"}
  <2>1. CASE s.what = "claim"
    <3>1. SemanticContinue(l, s) = IntegrateClaim(l, id)
      BY <2>1 DEF SemanticContinue
    <3>. QED BY <1>1, <1>2, <2>1, <3>1, ClaimDraft DEF StepIs
  <2>2. CASE s.what = "standing"
    <3>1. SemanticContinue(l, s) = EnsureStanding(l, id)
      BY <2>2 DEF SemanticContinue
    <3>2. Known(l, "claim", id[2])
      BY <1>1, <1>4, <2>2 DEF StepIs
    <3>. QED BY <1>2, <3>1, <3>2, StandingDraft
  <2>3. CASE s.what = "cross"
    <3>1. SemanticContinue(l, s) = CrossScheme(l)
      BY <2>3 DEF SemanticContinue
    <3>. QED BY <1>3, <3>1, CrossFree
  <2>4. CASE s.what = "evaluate"
    <3>1. SemanticContinue(l, s) = Evaluate(id, FALSE, FALSE) \o <<Ambiguity(id)>>
      BY <2>4 DEF SemanticContinue
    <3>. QED BY <1>1, <1>3, <2>4, <3>1, EvaluationFree DEF StepIs
  <2>. QED BY <1>7, <2>1, <2>2, <2>3, <2>4
<1>8. CASE s.what \in {"pair", "discovery", "interpret", "change"}
  <2>1. CASE s.what = "pair"
    <3>1. SemanticContinue(l, s) = Pair(l, id[1][1], id[1][2], id[2], id[3], id[4], TRUE)
      BY <2>1 DEF SemanticContinue
    <3>2. /\ id[1][2] \in DOMAIN Readings /\ (id[3] => id[1][1] \in DOMAIN Readings)
          /\ Origin(l, IF id[3] THEN id[1][1] ELSE "", id[1][2])
      BY <1>1, <2>1, Zenon DEF StepIs
    <3>. QED BY <1>3, <3>1, <3>2, PairFree, Zenon
  <2>2. CASE s.what = "discovery"
    <3>1. SemanticContinue(l, s) = Pair(l, "", id[1], id[2], FALSE, id[3], FALSE)
      BY <2>2 DEF SemanticContinue
    <3>2. id[1] \in DOMAIN Readings /\ Origin(l, "", id[1])
      BY <1>1, <2>2, Zenon DEF StepIs
    <3>. QED BY <1>3, <3>1, <3>2, PairFree, Zenon
  <2>3. CASE s.what = "interpret"
    <3>1. SemanticContinue(l, s) = InterpretChange(l, id[1], id[2], id[3])
      BY <2>3 DEF SemanticContinue
    <3>2. Origin(l, id[1], id[2])
      BY <1>1, <2>3 DEF StepIs
    <3>. QED BY <1>3, <3>1, <3>2, InterpretFree
  <2>4. CASE s.what = "change"
    <3>1. SemanticContinue(l, s) = RecordChange(l, id[1], id[2])
      BY <2>4 DEF SemanticContinue
    <3>2. Shows(l, id[1])
      BY <1>1, <2>4 DEF StepIs
    <3>. QED BY <1>2, <3>1, <3>2, RecordChangeDraft
  <2>. QED BY <1>8, <2>1, <2>2, <2>3, <2>4
<1>9. CASE s.what \in {"propagate", "recorded", "take effect", "retire"}
  <2>1. CASE s.what = "propagate"
    <3>1. SemanticContinue(l, s) = Propagated(l, id)
      BY <2>1 DEF SemanticContinue
    <3>2. id \in DOMAIN l /\ l[id].type = "change"
      BY <1>1, <2>1 DEF StepIs
    <3>. QED BY <1>2, <3>1, <3>2, PropagatedDraft
  <2>2. CASE s.what = "recorded"
    <3>1. SemanticContinue(l, s) = Propagated(l, LastTold(l, id))
      BY <2>2 DEF SemanticContinue
    <3>2. Known(l, "change", id)
      BY <1>1, <1>4, <2>2 DEF StepIs
    <3>. QED BY <1>1, <1>2, <3>1, <3>2, LastToldIs, PropagatedDraft
  <2>3. CASE s.what = "take effect"
    <3>1. SemanticContinue(l, s) = TakeEffect(id[1], id[2])
      BY <2>3, Zenon DEF SemanticContinue, AssociationContinue
    <3>2. id[2] = "ACCEPTED" => IsSeq(id[1]) /\ Approved(l, {}, id[1])
      BY <1>1, <2>3, Zenon DEF StepIs
    <3>. QED BY <1>1, <1>3, <3>1, <3>2, TakeEffectFree
  <2>4. CASE s.what = "retire"
    <3>1. SemanticContinue(l, s) = Retired(l, id[1], id[2], id[3])
      BY <2>4 DEF SemanticContinue, AssociationContinue
    <3>. QED BY <1>3, <3>1, RetiredFree
  <2>. QED BY <1>9, <2>1, <2>2, <2>3, <2>4, Zenon
<1>. QED BY <1>5, <1>6, <1>7, <1>8, <1>9, Zenon DEF SemanticSteps

LEMMA CollectionStep ==
  ASSUME NEW S, CollectionSteps \subseteq S, NEW l, Lawful(l), NEW s, Sound(l, {}, s), s.type = "step", s.what \in CollectionSteps
  PROVE  Draft(S, l, CollectionContinue(l, s))
<1> DEFINE id == s.id
<1>1. StepIs(l, {}, s) /\ IsSeq(l)
  BY Zenon DEF Sound, Lawful
<1>2. SUFFICES ASSUME ~Draft(S, l, CollectionContinue(l, s)) PROVE FALSE
  OBVIOUS
<1>3. \A q : Free(S, l, q) => q # CollectionContinue(l, s)
  BY <1>1, <1>2, FreeDraft
<1>4. /\ SemanticSteps \subseteq S /\ {"hypothesis"} \subseteq S /\ {"touched", "accounted"} \subseteq S
  BY DEF CollectionSteps
<1>5. CASE s.what = "hypothesis"
  <2>1. CollectionContinue(l, s) = RefreshHypothesis(l, id)
    BY <1>5 DEF CollectionContinue
  <2>2. Known(l, "hypothesis", id)
    BY <1>1, <1>5 DEF StepIs
  <2>. QED BY <1>3, <2>1, <2>2, RefreshFree
<1>6. CASE s.what = "pose"
  <2>1. CollectionContinue(l, s) = Pose(l, id[1], id[2])
    BY <1>6 DEF CollectionContinue
  <2>. QED BY <1>3, <2>1, PoseFree
<1>7. CASE s.what = "process"
  <2>1. CollectionContinue(l, s) = ProcessNewEvidence(l, {})
    BY <1>7 DEF CollectionContinue
  <2>. QED BY <1>3, <1>4, <2>1, EvidenceFree
<1>8. CASE s.what = "account"
  <2>1. CollectionContinue(l, s) = SettleAccount(l, id[1], id[2])
    BY <1>8 DEF CollectionContinue
  <2>2. Known(l, "question", id[1][1])
    BY <1>1, <1>8 DEF StepIs
  <2>. QED BY <1>3, <1>4, <2>1, <2>2, SettleAccountFree
<1>9. CASE s.what = "touched"
  <2>1. CollectionContinue(l, s) = Touched(l, id)
    BY <1>9 DEF CollectionContinue
  <2>. QED BY <1>1, <1>3, <1>4, <2>1, TouchedFree
<1>10. CASE s.what = "accounted"
  <2>1. CollectionContinue(l, s) = Accounted(id[1], id[2])
    BY <1>10 DEF CollectionContinue
  <2>. QED BY <1>3, <2>1, RouteFailureFree
<1>11. CASE s.what \in SemanticSteps
  <2>1. CollectionContinue(l, s) = SemanticContinue(l, s)
    BY <1>11, Zenon DEF CollectionContinue, SemanticSteps
  <2>. QED BY <1>2, <1>4, <1>11, <2>1, SemanticStep
<1>. QED BY <1>5, <1>6, <1>7, <1>8, <1>9, <1>10, <1>11 DEF CollectionSteps

LEMMA FabricStep ==
  ASSUME NEW l, Lawful(l), NEW s, Sound(l, {}, s), s.type = "step", s.what \in AllSteps
  PROVE  Draft(AllSteps, l, FabricContinue(l, s))
<1> DEFINE id == s.id  S == AllSteps
<1>1. StepIs(l, {}, s) /\ IsSeq(l) /\ CollectionSteps \subseteq S
  BY Zenon DEF Sound, Lawful, AllSteps
<1> HIDE DEF S
<1>2. CASE s.what = "single"
  <2> DEFINE answer == Answer(Usable(l, id[2]), id[3])
  <2>1. FabricContinue(l, s) = Finish(l, id[1], id[2], answer) \o ProposePivots(answer)
    BY <1>2 DEF FabricContinue
  <2>2. Truthful(id[3]) /\ Usable(l, id[2]) \in BOOLEAN
    BY <1>1, <1>2 DEF StepIs, Usable, Known
  <2>3. Truthful(answer)
    BY <2>2, AnswerTruthful
  <2> HIDE DEF answer
  <2>. QED BY <1>1, <2>1, <2>3, SingleCalm, CalmDraft DEF S
<1>3. CASE s.what = "watch"
  <2>1. FabricContinue(l, s) = RunWatch(l, id[1], id[2], id[3])
    BY <1>3 DEF FabricContinue
  <2>2. Truthful(id[3])
    BY <1>1, <1>3 DEF StepIs
  <2>. QED BY <2>1, <2>2, RunWatchCalm, CalmDraft DEF S
<1>4. CASE s.what \in CollectionSteps
  <2>1. FabricContinue(l, s) = CollectionContinue(l, s)
    BY <1>4, Zenon DEF FabricContinue, CollectionSteps, SemanticSteps
  <2>2. Draft(S, l, CollectionContinue(l, s))
    BY <1>1, <1>4, CollectionStep
  <2>. QED BY <2>1, <2>2 DEF S
<1>. QED BY <1>2, <1>3, <1>4 DEF AllSteps, FabricSteps

-----------------------------------------------------------------------------
(***************************************************************************)
(* What a command comes to, however many steps it takes on the way.        *)
(***************************************************************************)
Planes == {"once", "semantic", "collection", "fabric"}
StepsOf(k) == CASE k = "once"       -> {}
                [] k = "semantic"   -> SemanticSteps
                [] k = "collection" -> CollectionSteps
                [] k = "fabric"     -> AllSteps
Owing(l, d, n, q) == Owed(StepsOf(d[1]), l, q) /\ Fresh(l, q)

LEMMA StepDraft ==
  ASSUME NEW k \in Planes, NEW l, Lawful(l), NEW s, Sound(l, {}, s), s.type = "step", s.what \in StepsOf(k)
  PROVE  Draft(StepsOf(k), l, By(k, l, s))
<1>1. CASE k = "once"
  BY <1>1 DEF StepsOf
<1>2. CASE k = "semantic"
  <2>1. StepsOf(k) = SemanticSteps /\ By(k, l, s) = SemanticContinue(l, s)
    BY <1>2 DEF StepsOf, By
  <2>. QED BY <2>1, SemanticStep
<1>3. CASE k = "collection"
  <2>1. StepsOf(k) = CollectionSteps /\ By(k, l, s) = CollectionContinue(l, s)
    BY <1>3 DEF StepsOf, By
  <2>. QED BY <2>1, CollectionStep
<1>4. CASE k = "fabric"
  <2>1. StepsOf(k) = AllSteps /\ By(k, l, s) = FabricContinue(l, s)
    BY <1>4 DEF StepsOf, By
  <2>. QED BY <2>1, FabricStep
<1>. QED BY <1>1, <1>2, <1>3, <1>4 DEF Planes

LEMMA ResumedDraft ==
  ASSUME NEW k \in Planes, NEW l, Lawful(l), NEW q, Owed(StepsOf(k), l, q), q # <<>>, Head(q).type = "step"
  PROVE  Draft(StepsOf(k), l, By(k, l, Head(q)) \o Tail(q))
<1>1. IsSeq(q) /\ IsSeq(l)
  BY DEF Owed, Queue, Lawful
<1>2. Head(q) = q[1]
  BY <1>1, HeadAndTail
<1>3. Sound(l, {}, q[1]) /\ q[1].what \in StepsOf(k) /\ Calm(StepsOf(k), l, Tail(q))
  BY <1>1, <1>2, StepTail
<1>4. Draft(StepsOf(k), l, By(k, l, Head(q)))
  BY <1>2, <1>3, StepDraft
<1>. QED BY <1>1, <1>3, <1>4, DraftJoined

LEMMA ResumedOwing ==
  ASSUME NEW k \in Planes, NEW l, Lawful(l), NEW b, b[1] = k, NEW n, NEW m, NEW q, Owing(l, b, m, q)
  PROVE  Owing(l, b, n, Resumed(l, b, n, q))
<1>1. Owed(StepsOf(k), l, q) /\ Fresh(l, q) /\ IsSeq(l)
  BY DEF Owing, Lawful
<1>2. CASE q # <<>> /\ Head(q).type = "step"
  <2>1. Resumed(l, b, n, q) = Settle(l, By(k, l, Head(q)) \o Tail(q))
    BY <1>2 DEF Resumed
  <2>2. Draft(StepsOf(k), l, By(k, l, Head(q)) \o Tail(q))
    BY <1>1, <1>2, ResumedDraft
  <2>. QED BY <1>1, <2>1, <2>2, SettleOwed DEF Owing
<1>3. CASE ~(q # <<>> /\ Head(q).type = "step")
  BY <1>1, <1>3 DEF Resumed, Owing
<1>. QED BY <1>2, <1>3

LEMMA RunOwed ==
  ASSUME NEW k \in Planes, NEW l, Lawful(l), NEW d, Draft(StepsOf(k), l, d)
  PROVE  Owed(AllSteps, l, Run("ahead", l, <<k, d>>, MaxSteps)) /\ Fresh(l, Run("ahead", l, <<k, d>>, MaxSteps))
<1> DEFINE b == <<k, d>>
<1>1. b[1] = k /\ b[2] = d
  OBVIOUS
<1> HIDE DEF b
<1>2. IsSeq(l) /\ MaxSteps \in Nat
  BY VersionedLogAssumption DEF Lawful
<1>3. Owing(l, b, 0, Opened(l, b))
  BY <1>1, <1>2, SettleOwed DEF Owing, Opened
<1>4. \A n \in 1 .. MaxSteps : \A q : Owing(l, b, n - 1, q) => Owing(l, b, n, Resumed(l, b, n, q))
  BY <1>1, ResumedOwing
<1>5. Owing(l, b, MaxSteps, Run("ahead", l, b, MaxSteps))
  <2>1. PICK f : Goes("ahead", l, b, MaxSteps, f)
    BY <1>2, RunGoes
  <2> DEFINE G == {n \in 0 .. MaxSteps : Owing(l, b, n, f[n])}
  <2>2. 0 \in G
    BY <1>2, <1>3, <2>1 DEF Goes, First
  <2>3. ASSUME NEW n \in 1 .. MaxSteps, n - 1 \in G PROVE n \in G
    BY <1>4, <1>2, <2>1, <2>3 DEF Goes, Following
  <2> HIDE DEF G
  <2>4. MaxSteps \in G
    BY <1>2, <2>2, <2>3, UpTo
  <2>. QED BY <2>1, <2>4 DEF Goes, G
<1>6. StepsOf(k) \subseteq AllSteps
  BY DEF StepsOf, Planes, AllSteps, CollectionSteps
<1>. QED BY <1>1, <1>5, <1>6, MoreNames DEF Owing, b

LEMMA CommandsRun ==
  ASSUME NEW c, NEW d
  PROVE  /\ Record(c, d) => Decide(c, Run("ahead", log, <<"once", d>>, MaxSteps))
         /\ SemanticDo(c, d) => Decide(c, Run("ahead", log, <<"semantic", d>>, MaxSteps))
         /\ CollectionDo(c, d) => Decide(c, Run("ahead", log, <<"collection", d>>, MaxSteps))
         /\ FabricDo(c, d) => Decide(c, Run("ahead", log, <<"fabric", d>>, MaxSteps))
<1>1. ASSUME Record(c, d) PROVE Decide(c, Run("ahead", log, <<"once", d>>, MaxSteps))
  BY <1>1 DEF Record, Do, Ahead, Run, First, Following, Opened, Resumed, By
<1>2. ASSUME SemanticDo(c, d) PROVE Decide(c, Run("ahead", log, <<"semantic", d>>, MaxSteps))
  BY <1>2 DEF SemanticDo, Do, Ahead, Run, First, Following, Opened, Resumed, By
<1>3. ASSUME CollectionDo(c, d) PROVE Decide(c, Run("ahead", log, <<"collection", d>>, MaxSteps))
  BY <1>3 DEF CollectionDo, Do, Ahead, Run, First, Following, Opened, Resumed, By
<1>4. ASSUME FabricDo(c, d) PROVE Decide(c, Run("ahead", log, <<"fabric", d>>, MaxSteps))
  BY <1>4 DEF FabricDo, Do, Ahead, Run, First, Following, Opened, Resumed, By
<1>. QED BY <1>1, <1>2, <1>3, <1>4

LEMMA DecisionKeeps ==
  ASSUME IInv, NEW c \in Calls, NEW q, Owed(AllSteps, log, q), Fresh(log, q), log' = log, todo' = [todo EXCEPT ![c] = q]
  PROVE  IInv'
<1>1. \A d \in Calls : Owed(AllSteps, log, todo'[d])
  BY DEF IInv
<1>2. DOMAIN todo' = Calls
  BY DEF IInv
<1>3. \A d \in Calls : todo'[d] = todo[d] \/ todo'[d] = q
  BY DEF IInv
<1>4. Undisturbed(log, todo')
  BY <1>3 DEF IInv, Undisturbed
<1>. QED BY <1>1, <1>2, <1>4 DEF IInv

LEMMA CommandKeeps ==
  ASSUME IInv, NEW c \in Calls, NEW d
  PROVE  /\ Record(c, d) /\ Free({}, log, d) => IInv'
         /\ SemanticDo(c, d) /\ Draft(SemanticSteps, log, d) => IInv'
         /\ CollectionDo(c, d) /\ Draft(CollectionSteps, log, d) => IInv'
         /\ FabricDo(c, d) /\ Draft(AllSteps, log, d) => IInv'
<1>1. ASSUME NEW k \in Planes, Draft(StepsOf(k), log, d), Decide(c, Run("ahead", log, <<k, d>>, MaxSteps))
      PROVE  IInv'
  <2>1. /\ Owed(AllSteps, log, Run("ahead", log, <<k, d>>, MaxSteps))
        /\ Fresh(log, Run("ahead", log, <<k, d>>, MaxSteps))
    BY <1>1, RunOwed DEF IInv
  <2>. QED BY <1>1, <2>1, DecisionKeeps DEF Decide
<1>2. /\ StepsOf("once") = {} /\ StepsOf("semantic") = SemanticSteps
      /\ StepsOf("collection") = CollectionSteps /\ StepsOf("fabric") = AllSteps
  BY DEF StepsOf
<1>3. Free({}, log, d) => Draft({}, log, d)
  BY FreeDraft DEF IInv, Lawful
<1>4. "once" \in Planes /\ "semantic" \in Planes /\ "collection" \in Planes /\ "fabric" \in Planes
  BY DEF Planes
<1>5. ASSUME Record(c, d), Free({}, log, d) PROVE IInv'
  <2>1. Decide(c, Run("ahead", log, <<"once", d>>, MaxSteps))
    BY <1>5, CommandsRun
  <2>. QED BY <1>1, <1>2, <1>3, <1>4, <1>5, <2>1
<1>6. ASSUME SemanticDo(c, d), Draft(SemanticSteps, log, d) PROVE IInv'
  <2>1. Decide(c, Run("ahead", log, <<"semantic", d>>, MaxSteps))
    BY <1>6, CommandsRun
  <2>. QED BY <1>1, <1>2, <1>4, <1>6, <2>1
<1>7. ASSUME CollectionDo(c, d), Draft(CollectionSteps, log, d) PROVE IInv'
  <2>1. Decide(c, Run("ahead", log, <<"collection", d>>, MaxSteps))
    BY <1>7, CommandsRun
  <2>. QED BY <1>1, <1>2, <1>4, <1>7, <2>1
<1>8. ASSUME FabricDo(c, d), Draft(AllSteps, log, d) PROVE IInv'
  <2>1. Decide(c, Run("ahead", log, <<"fabric", d>>, MaxSteps))
    BY <1>8, CommandsRun
  <2>. QED BY <1>1, <1>2, <1>4, <1>8, <2>1
<1>. QED BY <1>5, <1>6, <1>7, <1>8

-----------------------------------------------------------------------------
(***************************************************************************)
(* Every action keeps the invariant.                                       *)
(***************************************************************************)
(* What comes after a step rests on nothing before it. *)
LEMMA RestCalm ==
  ASSUME NEW S, NEW l, IsSeq(l), NEW q, Owed(S, l, q), NEW at \in 1 .. Len(q), q[at].type = "step"
  PROVE  Calm(S, l, SubSeq(q, at + 1, Len(q)))
<1> DEFINE t == SubSeq(q, at + 1, Len(q))
<1>1. IsSeq(q) /\ Len(q) \in Nat /\ at \in Nat
  BY SeqFacts DEF Owed, Queue
<1>2. /\ IsSeq(t) /\ Len(t) = Len(q) - at
      /\ \A n \in 1 .. Len(q) - at : t[n] = q[at + n]
  <2> DEFINE A == ToSet(q)
  <2>0. q \in Seq(A)
    BY <1>1 DEF IsSeq
  <2> HIDE DEF A
  <2>1. /\ t \in Seq(A) /\ Len(t) = Len(q) - at
        /\ \A n \in 1 .. Len(q) - at : t[n] = q[at + n]
    <3>1. at + 1 \in 1 .. Len(q) + 1 /\ Len(q) \in at .. Len(q)
      BY <1>1
    <3>. QED BY <1>1, <2>0, <3>1, SubSeqProperties, LenProperties
  <2>2. IsSeq(t)
    BY <2>1, AnySeq
  <2>. QED BY <2>1, <2>2
<1> HIDE DEF t
<1>3. ASSUME NEW n \in 1 .. Len(t) PROVE Near(q, at + n) \subseteq Near(t, n)
  <2> SUFFICES ASSUME NEW f \in Near(q, at + n) PROVE f \in Near(t, n)
    OBVIOUS
  <2> DEFINE m == at + n
  <2>0. f \in Near(q, m) /\ m = at + n
    OBVIOUS
  <2> HIDE DEF m
  <2>1. PICK k \in 1 .. m - 1 : f \in Facts(q[k]) /\ \A i \in k .. m - 1 : q[i].type # "step"
    BY <2>0, NearIs
  <2>2. k > at
    <3> SUFFICES ASSUME k <= at PROVE FALSE
      BY <1>1
    <3>1. at \in k .. m - 1
      BY <1>1, <1>2, <2>0
    <3>. QED BY <2>1, <3>1
  <2>3. k - at \in 1 .. n - 1 /\ k - at \in 1 .. Len(q) - at /\ k = at + (k - at)
    BY <1>1, <1>2, <2>0, <2>2
  <2>4. t[k - at] = q[k]
    BY <1>2, <2>3
  <2>5. ASSUME NEW i \in k - at .. n - 1 PROVE t[i].type # "step"
    <3>1. at + i \in k .. m - 1 /\ i \in 1 .. Len(q) - at
      BY <1>1, <1>2, <2>0, <2>2
    <3>2. t[i] = q[at + i]
      BY <1>2, <3>1
    <3>. QED BY <2>1, <3>1, <3>2
  <2>. QED BY <2>1, <2>3, <2>4, <2>5, NearIs
<1>4. ASSUME NEW n \in 1 .. Len(t)
      PROVE  Sound(l, Near(t, n), t[n]) /\ (t[n].type = "step" => t[n].what \in S) /\ t[n].type \notin Judged
  <2>1. at + n \in 1 .. Len(q) /\ at + n # 1 /\ n \in 1 .. Len(q) - at
    BY <1>1, <1>2
  <2>2. t[n] = q[at + n]
    BY <1>2, <2>1
  <2>3. Sound(l, Near(q, at + n), t[n]) /\ (t[n].type = "step" => t[n].what \in S) /\ t[n].type \notin Judged
    BY <2>1, <2>2 DEF Owed, Queue
  <2>4. Near(q, at + n) \subseteq Near(t, n)
    BY <1>3
  <2>. QED BY <2>3, <2>4, SoundSame
<1>5. Calm(S, l, t)
  BY <1>2, <1>4 DEF Calm, Queue
<1>. QED BY <1>5 DEF t

LEMMA LogLawful == ASSUME IInv PROVE Lawful(log) /\ IsSeq(log) /\ DOMAIN log = 1 .. Len(log)
BY SeqFacts DEF IInv, Lawful

LEMMA SemanticCommandKeeps ==
  ASSUME IInv, NEW c \in Calls, ProcessEvidence(c) \/ MonitorChanges(c) \/ DiscoverHistory(c) \/ ResolvePair(c)
  PROVE  IInv'
<1>1. Lawful(log) /\ IsSeq(log)
  BY LogLawful
<1>2. \A d : SemanticDo(c, d) /\ Free(SemanticSteps, log, d) => IInv'
  BY <1>1, CommandKeeps, FreeDraft
<1>3. CASE ProcessEvidence(c)
  <2>1. PICK bad \in Retrievable : SemanticDo(c, ProcessNewEvidence(log, bad))
    BY <1>3 DEF ProcessEvidence
  <2>2. Free(SemanticSteps, log, ProcessNewEvidence(log, bad))
    BY <1>1, EvidenceFree
  <2>. QED BY <1>2, <2>1, <2>2
<1>4. CASE MonitorChanges(c)
  <2>1. PICK bad \in Retrievable : SemanticDo(c, ProcessFabricChanges(log, bad))
    BY <1>4 DEF MonitorChanges
  <2>2. Free(SemanticSteps, log, ProcessFabricChanges(log, bad))
    BY <1>1, MonitorFree
  <2>. QED BY <1>2, <2>1, <2>2
<1>5. CASE DiscoverHistory(c)
  <2>1. PICK bad \in Retrievable : SemanticDo(c, InterpretDiscoveries(log, bad))
    BY <1>5 DEF DiscoverHistory
  <2>2. Free(SemanticSteps, log, InterpretDiscoveries(log, bad))
    BY <1>1, DiscoveriesFree
  <2>. QED BY <1>2, <2>1, <2>2
<1>6. CASE ResolvePair(c)
  <2>1. PICK pair \in Proposed, r \in {"ACCEPTED", "REJECTED", "REVERSED"} : SemanticDo(c, Resolve(pair, r, "HUMAN"))
    BY <1>6 DEF ResolvePair
  <2>2. Draft(SemanticSteps, log, Resolve(pair, r, "HUMAN"))
    BY <1>1, ResolveDraft
  <2>. QED BY <2>1, <2>2, CommandKeeps
<1>. QED BY <1>3, <1>4, <1>5, <1>6

LEMMA CollectionCommandKeeps ==
  ASSUME IInv, NEW c \in Calls,
         \/ Hypothesize(c) \/ Link(c) \/ Refresh(c) \/ Ask(c) \/ Require(c) \/ Plan(c) \/ HandOver(c) \/ Execute(c)
  PROVE  IInv'
<1>1. Lawful(log) /\ IsSeq(log)
  BY LogLawful
<1>2. \A d : Record(c, d) /\ Free({}, log, d) => IInv'
  BY CommandKeeps
<1>3. \A d : CollectionDo(c, d) /\ Free(CollectionSteps, log, d) => IInv'
  BY <1>1, CommandKeeps, FreeDraft
<1>4. CASE Hypothesize(c)
  <2>1. PICK h \in Hypotheses : Record(c, RecordHypothesis(log, h))
    BY <1>4 DEF Hypothesize
  <2>. QED BY <1>2, <2>1, RecordHypothesisFree
<1>5. CASE Link(c)
  <2>1. PICK h \in Hypotheses, k \in DOMAIN Topics, s \in Stances : Record(c, LinkClaim(log, h, k, s))
    BY <1>5 DEF Link
  <2>2. Free({}, log, LinkClaim(log, h, k, s))
    BY <1>1, LinkFree
  <2>. QED BY <1>2, <2>1, <2>2
<1>6. CASE Refresh(c)
  <2>1. PICK h \in Hypotheses : Known(log, "hypothesis", h) /\ Record(c, RefreshHypothesis(log, h))
    BY <1>6 DEF Refresh
  <2>2. Free({}, log, RefreshHypothesis(log, h))
    BY <1>1, <2>1, RefreshFree
  <2>. QED BY <1>2, <2>1, <2>2
<1>7. CASE Ask(c)
  <2>1. PICK d \in DOMAIN Questions, i \in BOOLEAN : CollectionDo(c, ProposeQuestion(log, d, i))
    BY <1>7 DEF Ask
  <2>2. {"pose"} \subseteq CollectionSteps
    BY DEF CollectionSteps
  <2>3. Free(CollectionSteps, log, ProposeQuestion(log, d, i))
    BY <1>1, <2>2, ProposeFree
  <2>. QED BY <1>3, <2>1, <2>3
<1>8. CASE Require(c)
  <2>1. PICK d \in DOMAIN Questions : Record(c, RequireQuestion(log, d))
    BY <1>8 DEF Require
  <2>2. Free({}, log, RequireQuestion(log, d))
    BY <1>1, RequireFree
  <2>. QED BY <1>2, <2>1, <2>2
<1>9. CASE Plan(c)
  <2>1. PICK d \in DOMAIN Questions : Record(c, PlanRoutes(log, d))
    BY <1>9 DEF Plan
  <2>2. Free({}, log, PlanRoutes(log, d))
    BY <1>1, PlanRoutesFree
  <2>. QED BY <1>2, <2>1, <2>2
<1>10. CASE HandOver(c)
  <2>1. PICK d \in DOMAIN Questions, s \in DOMAIN Sources : Record(c, AssignHuman(log, <<d, s>>))
    BY <1>10 DEF HandOver
  <2>2. Free({}, log, AssignHuman(log, <<d, s>>))
    BY <1>1, AssignFree
  <2>. QED BY <1>2, <2>1, <2>2
<1>11. CASE Execute(c)
  <2>1. PICK d \in DOMAIN Questions, s \in DOMAIN Sources : \E brought \in Sources[s].brings :
          CollectionDo(c, ExecuteRoute(log, <<d, s>>, brought))
    BY <1>11 DEF Execute
  <2>2. PICK brought \in Sources[s].brings : CollectionDo(c, ExecuteRoute(log, <<d, s>>, brought))
    BY <2>1
  <2>3. brought.found \in Seq(DOMAIN Readings)
    BY CollectionAssumption
  <2>4. {"process", "account"} \subseteq CollectionSteps
    BY DEF CollectionSteps
  <2>5. Free(CollectionSteps, log, ExecuteRoute(log, <<d, s>>, brought))
    BY <1>1, <2>3, <2>4, ExecuteFree
  <2>. QED BY <1>3, <2>2, <2>5
<1>. QED BY <1>4, <1>5, <1>6, <1>7, <1>8, <1>9, <1>10, <1>11

LEMMA GivenTruthful ==
  ASSUME NEW asked, NEW web \in Given(asked), \A a \in asked : a[2] \in DOMAIN Web
  PROVE  \A a \in asked : Truthful(web[a])
<1>1. \A a \in asked : web[a] \in Web[a[2]]
  BY DEF Given
<1>2. \A s \in DOMAIN Web : \A answer \in Web[s] : Truthful(answer)
  BY FabricAssumption
<1>. QED BY <1>1, <1>2

LEMMA SearchFree ==
  ASSUME Lawful(log), NEW p \in {log[i].id : i \in Of("plan")}, NEW web \in Given(Asked(p))
  PROVE  Free(AllSteps, log, ExecutePlan(log, p, web))
<1> DEFINE queries == Current(log, "plan", p).queries  asked == Asked(p)
<1>1. Known(log, "plan", p)
  <2>1. PICK i \in Of("plan") : log[i].id = p
    OBVIOUS
  <2>2. i \in DOMAIN log /\ log[i].type = "plan"
    BY <2>1, SeqFacts DEF Of, Lawful
  <2>. QED BY <2>1, <2>2 DEF Known, Versions
<1>2. queries \in Seq(DOMAIN Queries)
  <2> DEFINE now == Current(log, "plan", p)
  <2>1. Sound(log, {}, now) /\ now.type = "plan"
    BY <1>1, CurrentSound
  <2> HIDE DEF now
  <2>2. now.queries \in Seq(DOMAIN Queries)
    BY <2>1 DEF Sound
  <2>. QED BY <2>2 DEF now
<1>3. asked = UNION {{q} \X ToSet(Queries[q]) : q \in ToSet(queries)}
  BY DEF Asked
<1> HIDE DEF asked, queries
<1>4. \A q \in ToSet(queries) : q \in DOMAIN Queries
  <2>1. IsSeq(queries) /\ queries \in [1 .. Len(queries) -> DOMAIN Queries]
    BY <1>2, AnySeq, LenProperties
  <2>2. ToSet(queries) = {queries[n] : n \in 1 .. Len(queries)}
    BY <2>1, SeqFacts
  <2>. QED BY <2>1, <2>2
<1>5. ASSUME NEW q \in DOMAIN Queries, NEW s \in ToSet(Queries[q]) PROVE s \in DOMAIN Web
  <2> DEFINE r == Queries[q]
  <2>1. r \in Seq(DOMAIN Web)
    BY FabricAssumption
  <2> HIDE DEF r
  <2>2. IsSeq(r) /\ r \in [1 .. Len(r) -> DOMAIN Web]
    BY <2>1, AnySeq, LenProperties
  <2>3. ToSet(r) = {r[n] : n \in 1 .. Len(r)}
    BY <2>2, SeqFacts
  <2>4. s \in ToSet(r)
    BY DEF r
  <2>. QED BY <2>2, <2>3, <2>4
<1>6. \A q \in ToSet(queries) : \A s \in ToSet(Queries[q]) : <<q, s>> \in asked
  BY <1>3
<1>7. \A a \in asked : a[2] \in DOMAIN Web
  BY <1>3, <1>4, <1>5
<1>8. \A a \in asked : Truthful(web[a])
  BY <1>7, GivenTruthful DEF asked
<1>9. \A q \in ToSet(Current(log, "plan", p).queries) : \A s \in ToSet(Queries[q]) : Truthful(web[<<q, s>>])
  BY <1>6, <1>8, Zenon DEF queries
<1>10. FabricSteps \subseteq AllSteps
  BY DEF AllSteps
<1>. QED BY <1>9, <1>10, ExecutePlanFree

LEMMA FabricCommandKeeps ==
  ASSUME IInv, NEW c \in Calls,
         \/ Register(c) \/ PlanNeed(c) \/ Search(c) \/ Judge(c) \/ Cover(c) \/ SetWatch(c) \/ RunDue(c) \/ Notify(c)
  PROVE  IInv'
<1>1. Lawful(log) /\ IsSeq(log)
  BY LogLawful
<1>2. \A d : Record(c, d) /\ Free({}, log, d) => IInv'
  BY CommandKeeps
<1>3. \A d : FabricDo(c, d) /\ Free(AllSteps, log, d) => IInv'
  BY <1>1, CommandKeeps, FreeDraft
<1>4. CASE Register(c)
  <2>1. PICK s \in DOMAIN Web : Record(c, RegisterSource(s))
    BY <1>4 DEF Register
  <2>. QED BY <1>2, <2>1, RegisterFree
<1>5. CASE PlanNeed(c)
  <2>1. PICK need \in DOMAIN Needs, generation \in {"INITIAL", "PIVOT"} : Record(c, PlanDiscovery(log, need, generation))
    BY <1>5 DEF PlanNeed
  <2>2. Free({}, log, PlanDiscovery(log, need, generation))
    BY <1>1, PlanNeedFree
  <2>. QED BY <1>2, <2>1, <2>2
<1>6. CASE Search(c)
  <2>1. PICK p \in {log[i].id : i \in Of("plan")} : \E web \in Given(Asked(p)) : FabricDo(c, ExecutePlan(log, p, web))
    BY <1>6 DEF Search
  <2>2. PICK web \in Given(Asked(p)) : FabricDo(c, ExecutePlan(log, p, web))
    BY <2>1
  <2>3. Free(AllSteps, log, ExecutePlan(log, p, web))
    BY <1>1, SearchFree
  <2>. QED BY <1>3, <2>2, <2>3
<1>7. CASE Judge(c)
  <2>1. PICK p \in DOMAIN Queries, status \in {"ACCEPTED", "REJECTED"} : Record(c, ResolvePivot(log, p, status))
    BY <1>7 DEF Judge
  <2>2. Free({}, log, ResolvePivot(log, p, status))
    BY ResolvePivotFree
  <2>. QED BY <1>2, <2>1, <2>2
<1>8. CASE Cover(c)
  <2>1. PICK need \in DOMAIN Needs : Record(c, AssessCoverage(log, need))
    BY <1>8 DEF Cover
  <2>2. Free({}, log, AssessCoverage(log, need))
    BY <1>1, CoverFree
  <2>. QED BY <1>2, <2>1, <2>2
<1>9. CASE SetWatch(c)
  <2>1. PICK w \in DOMAIN Watches, active \in BOOLEAN : Record(c, <<Watch(w, active)>>)
    BY <1>9 DEF SetWatch
  <2>. QED BY <1>2, <2>1, WatchFree
<1>10. CASE RunDue(c)
  <2>1. PICK due \in SUBSET DOMAIN Watches : \E web \in Given({<<w, Watches[w].source>> : w \in due}) : FabricDo(c, Tick(log, due, c, web))
    BY <1>10 DEF RunDue
  <2> DEFINE asked == {<<w, Watches[w].source>> : w \in due}
  <2>2. PICK web \in Given(asked) : FabricDo(c, Tick(log, due, c, web))
    BY <2>1
  <2>3. \A w \in due : <<w, Watches[w].source>> \in asked
    OBVIOUS
  <2>4. \A a \in asked : a[2] \in DOMAIN Web
    BY FabricAssumption
  <2> HIDE DEF asked
  <2>5. \A a \in asked : Truthful(web[a])
    BY <2>4, GivenTruthful
  <2>6. \A w \in due : Truthful(web[<<w, Watches[w].source>>])
    BY <2>3, <2>5
  <2>7. FabricSteps \subseteq AllSteps
    BY DEF AllSteps
  <2>8. Free(AllSteps, log, Tick(log, due, c, web))
    BY <1>1, <2>6, <2>7, TickFree
  <2>. QED BY <1>3, <2>2, <2>8
<1>11. CASE Notify(c)
  <2>1. PICK i \in Of("fabric change") : Record(c, AlertFromChange(log[i]))
    BY <1>11, Zenon DEF Notify
  <2>. QED BY <1>2, <2>1, WatchFree, Zenon
<1>. QED BY <1>4, <1>5, <1>6, <1>7, <1>8, <1>9, <1>10, <1>11

LEMMA ExtensionKeeps ==
  ASSUME IInv, NEW l, Lawful(l), Extends(l, log), log' = l, DOMAIN todo' = Calls,
         \A c \in Calls : Owed(AllSteps, l, todo'[c]) \/ todo'[c] = todo[c],
         Undisturbed(l, todo')
  PROVE  IInv'
<1>1. \A c \in Calls : Owed(AllSteps, l, todo'[c])
  BY LogLawful, OwedMore DEF IInv
<1>. QED BY <1>1 DEF IInv

LEMMA FreshAppend ==
  ASSUME NEW l, IsSeq(l), AllFresh(l), NEW e, e.type = "standing" => Fair(l, e)
  PROVE  AllFresh(Append(l, e))
<1> DEFINE m == Append(l, e)
<1>1. Len(l) \in Nat
  BY SeqFacts
<1>2. Len(m) = Len(l) + 1 /\ m[Len(l) + 1] = e /\ \A n \in 1 .. Len(l) : m[n] = l[n]
  BY <1>1, Appended
<1>3. Prefix(m, Len(l)) = l /\ \A d \in 0 .. Len(l) : Prefix(m, d) = Prefix(l, d)
  BY <1>1, AppendPrefix
<1> HIDE DEF m
<1>4. ASSUME NEW n \in 1 .. Len(m), m[n].type = "standing"
      PROVE  Fair(Prefix(m, n - 1), m[n])
  <2>1. CASE n = Len(l) + 1
    <3>1. n - 1 = Len(l)
      BY <1>1, <2>1
    <3>. QED BY <1>2, <1>3, <1>4, <2>1, <3>1
  <2>2. CASE n # Len(l) + 1
    <3>1. n \in 1 .. Len(l) /\ n - 1 \in 0 .. Len(l)
      BY <1>1, <1>2, <2>2
    <3>. QED BY <1>2, <1>3, <1>4, <3>1 DEF AllFresh
  <2>. QED BY <2>1, <2>2
<1>. QED BY <1>4 DEF AllFresh, m

(* A manifestation lets stand what stands. *)
LEMMA FreshBeside ==
  ASSUME NEW l, IsSeq(l), NEW e, e.type = "manifestation", NEW q, Fresh(l, q)
  PROVE  Fresh(Append(l, e), q)
<1> DEFINE m == Append(l, e)
<1>1. SUFFICES ASSUME q # <<>>, q[1].type = "standing", q[1].state # "DISPUTED"
               PROVE  /\ Standing(m, q[1].id) \in Bookkeeping
                      /\ IF q[1].state = "CURRENT" THEN Known(m, "claim", q[1].id) ELSE Known(m, "change", q[1].cause)
  BY DEF Fresh, Fair
<1>2. /\ Standing(l, q[1].id) \in Bookkeeping
      /\ IF q[1].state = "CURRENT" THEN Known(l, "claim", q[1].id) ELSE Known(l, "change", q[1].cause)
  BY <1>1 DEF Fresh, Fair
<1>3. \A t : t # "manifestation" => \A id : Known(l, t, id) => Known(m, t, id)
  <2>1. Extends(m, l)
    BY AppendExtends
  <2> HIDE DEF m
  <2>. QED BY <2>1, MoreVersions
<1>4. Versions(m, "standing", q[1].id) = Versions(l, "standing", q[1].id)
  <2>1. Len(l) \in Nat /\ DOMAIN l = 1 .. Len(l) /\ DOMAIN m = 1 .. Len(l) + 1 /\ m[Len(l) + 1] = e /\ \A n \in 1 .. Len(l) : m[n] = l[n]
    BY Appended, SeqFacts
  <2> HIDE DEF m
  <2>. QED BY <2>1 DEF Versions
<1> HIDE DEF m
<1>5. Standing(m, q[1].id) = Standing(l, q[1].id)
  <2> DEFINE k == q[1].id
  <2>1. CASE Known(l, "standing", k)
    <3>1. Known(m, "standing", k)
      BY <1>3, <2>1
    <3>2. Current(m, "standing", k) = Current(l, "standing", k)
      <4>1. Extends(m, l)
        BY AppendExtends DEF m
      <4>2. \A i \in Versions(l, "standing", k) : m[i] = l[i]
        BY <4>1, MoreVersions
      <4>3. Max(Versions(l, "standing", k)) \in Versions(l, "standing", k)
        <5> DEFINE V == Versions(l, "standing", k)
        <5>1. V \subseteq 1 .. Len(l) /\ V # {} /\ Len(l) \in Nat
          BY <2>1, VersionsFacts, SeqFacts DEF Known
        <5> HIDE DEF V
        <5>2. Max(V) \in V
          BY <5>1, MaxOf
        <5>. QED BY <5>2 DEF V
      <4>. QED BY <1>4, <4>2, <4>3 DEF Current
    <3>. QED BY <2>1, <3>1, <3>2 DEF Standing
  <2>2. CASE ~Known(l, "standing", k)
    <3>1. ~Known(m, "standing", k)
      BY <1>4, <2>2 DEF Known
    <3>. QED BY <2>2, <3>1 DEF Standing
  <2>. QED BY <2>1, <2>2
<1>. QED BY <1>2, <1>3, <1>5

LEMMA FabricWriteKeeps == ASSUME IInv, NEW c \in Calls, FabricWrite(c) PROVE IInv'
<1> DEFINE q == todo[c]
           e == Head(q)
           l == Append(log, e)
<1>1. /\ q # <<>> /\ Fits(e) /\ log' = l
      /\ todo' = [todo EXCEPT ![c] = Ahead(FabricContinue, l, Tail(q))]
  BY DEF FabricWrite, WriteAnd, Ready, IInv
<1>2. todo' = [todo EXCEPT ![c] = Run("ahead", l, <<"fabric", Tail(q)>>, MaxSteps)]
  BY <1>1 DEF Ahead, Run, First, Following, Opened, Resumed, By
<1>3. Lawful(log) /\ IsSeq(log) /\ Owed(AllSteps, log, q) /\ IsSeq(q) /\ DOMAIN todo = Calls
  BY LogLawful DEF IInv, Owed, Queue
<1> HIDE DEF q
<1>4. e = q[1]
  BY <1>1, <1>3, HeadAndTail
<1> HIDE DEF e
<1>5. Sound(log, {}, e) /\ (e.type \in Judged => Founded(log, e)) /\ Calm(AllSteps, l, Tail(q))
  BY <1>1, <1>3, <1>4, EventTail
<1>6. e.type = "claim" => e.version = NextOf(log, "claim", e.id)
  BY <1>1, <1>5 DEF Fits, Versioned, NextVersion, NextOf, Sound
<1>7. Lawful(l)
  BY <1>3, <1>5, <1>6, LawfulAppend
<1>8. Extends(l, log)
  BY <1>3, AppendExtends
<1> HIDE DEF l
<1>9. /\ Owed(AllSteps, l, Run("ahead", l, <<"fabric", Tail(q)>>, MaxSteps))
      /\ Fresh(l, Run("ahead", l, <<"fabric", Tail(q)>>, MaxSteps))
  <2>1. StepsOf("fabric") = AllSteps /\ "fabric" \in Planes
    BY DEF StepsOf, Planes
  <2>. QED BY <1>5, <1>7, <2>1, CalmDraft, RunOwed
<1>10. \A d \in Calls : Owed(AllSteps, l, todo'[d]) \/ todo'[d] = todo[d]
  BY <1>2, <1>3, <1>9
<1>11. DOMAIN todo' = Calls
  BY <1>2, <1>3
<1>12. Undisturbed(l, todo')
  <2> SUFFICES ASSUME OnlyOne PROVE AllFresh(l) /\ \A d \in Calls : Fresh(l, todo'[d])
    BY DEF Undisturbed
  <2>1. AllFresh(log) /\ (e.type = "standing" => Fair(log, e))
    BY <1>1, <1>4 DEF IInv, Undisturbed, Fresh, q
  <2>2. AllFresh(l)
    BY <1>3, <2>1, FreshAppend DEF l
  <2>3. \A d \in Calls : d = c
    BY DEF OnlyOne
  <2>. QED BY <1>2, <1>3, <1>9, <2>2, <2>3
<1>. QED BY <1>1, <1>7, <1>8, <1>10, <1>11, <1>12, ExtensionKeeps

(* A refused version: the pass goes on after the document.                 *)
LEMMA FabricRefuseKeeps == ASSUME IInv, NEW c \in Calls, FabricRefuse(c) PROVE IInv'
<1> DEFINE q == todo[c]
           n == Min(Understood(c))
           d == <<Step("failed", q[n].id)>> \o SubSeq(q, n + 1, Len(q))
<1>1. /\ Understood(c) # {} /\ log' = log
      /\ todo' = [todo EXCEPT ![c] = Ahead(FabricContinue, log, d)]
  BY DEF FabricRefuse, Refuse, IInv
<1>2. todo' = [todo EXCEPT ![c] = Run("ahead", log, <<"fabric", d>>, MaxSteps)]
  BY <1>1 DEF Ahead, Run, First, Following, Opened, Resumed, By
<1>3. Lawful(log) /\ IsSeq(log) /\ Owed(AllSteps, log, q) /\ IsSeq(q)
  BY LogLawful DEF IInv, Owed, Queue
<1>4. Len(q) \in Nat /\ DOMAIN q = 1 .. Len(q)
  BY <1>3, SeqFacts
<1>5. n \in Understood(c)
  <2> DEFINE K == Understood(c)
  <2>1. K \subseteq Nat /\ K # {}
    BY <1>1, <1>4 DEF Understood
  <2> HIDE DEF K
  <2>2. Min(K) \in K
    BY <2>1, MinOf
  <2>. QED BY <2>2 DEF K
<1>6. n \in 1 .. Len(q) /\ q[n].type = "step"
  BY <1>4, <1>5 DEF Understood
<1> HIDE DEF q, n
<1>7. Calm(AllSteps, log, SubSeq(q, n + 1, Len(q)))
  BY <1>3, <1>6, RestCalm
<1>8. Calm(AllSteps, log, <<Step("failed", q[n].id)>>)
  <2> DEFINE s == Step("failed", q[n].id)
  <2>1. StepIs(log, {}, s)
    BY DEF StepIs, Step
  <2>2. "failed" \in AllSteps
    BY DEF AllSteps, CollectionSteps, SemanticSteps
  <2>3. Loose(AllSteps, log, s)
    BY <2>1, <2>2, StepLoose
  <2>. QED BY <2>3, CalmOne
<1>9. Calm(AllSteps, log, d)
  BY <1>3, <1>7, <1>8, CalmJoined
<1> HIDE DEF d
<1>10. /\ Owed(AllSteps, log, Run("ahead", log, <<"fabric", d>>, MaxSteps))
       /\ Fresh(log, Run("ahead", log, <<"fabric", d>>, MaxSteps))
  <2>1. StepsOf("fabric") = AllSteps /\ "fabric" \in Planes
    BY DEF StepsOf, Planes
  <2>. QED BY <1>3, <1>9, <2>1, CalmDraft, RunOwed
<1>. QED BY <1>1, <1>2, <1>10, DecisionKeeps

LEMMA OthersKeep ==
  ASSUME IInv
  PROVE  /\ \A c \in Calls : FailAccount(c) \/ GiveUp(c) => IInv'
         /\ \A m \in DOMAIN Readings : Happen([type |-> "manifestation", id |-> m]) => IInv'
         /\ UNCHANGED <<log, todo>> => IInv'
<1>1. Lawful(log) /\ IsSeq(log)
  BY LogLawful
<1>2. Owed(AllSteps, log, <<>>) /\ Fresh(log, <<>>)
  BY CalmNone, CalmDraft DEF Fresh
<1>3. ASSUME NEW c \in Calls, FailAccount(c) PROVE IInv'
  <2> DEFINE r == todo[c][Min(InAccount(c))].id[1]
             v == NextVersion(log, RouteFailure(r, ""))
             q == <<[RouteFailure(r, "OPEN") EXCEPT !.version = v]>>
  <2>1. log' = log /\ (todo' = [todo EXCEPT ![c] = <<>>] \/ todo' = [todo EXCEPT ![c] = q])
    BY <1>3, Zenon DEF FailAccount
  <2> HIDE DEF r, v
  <2>2. Free(AllSteps, log, q)
    BY RouteFailureFree
  <2>3. q[1].type = "route failure"
    BY Zenon DEF RouteFailure
  <2> HIDE DEF q
  <2>4. Owed(AllSteps, log, q) /\ Fresh(log, q)
    BY <1>1, <2>2, <2>3, FreeCalm, CalmDraft, Zenon DEF Fresh
  <2>. QED BY <1>2, <2>1, <2>4, DecisionKeeps
<1>4. ASSUME NEW c \in Calls, GiveUp(c) PROVE IInv'
  BY <1>2, <1>4, DecisionKeeps DEF GiveUp
<1>5. ASSUME NEW m \in DOMAIN Readings, Happen([type |-> "manifestation", id |-> m]) PROVE IInv'
  <2> DEFINE e == [type |-> "manifestation", id |-> m]
             l == Append(log, e)
  <2>1. log' = l /\ todo' = todo
    BY <1>5 DEF Happen, Elsewhere
  <2>2. Sound(log, {}, e) /\ e.type \notin Judged /\ e.type = "manifestation"
    <3>1. Loose({}, log, e)
      BY ManifestationLoose
    <3>. QED BY <3>1 DEF Loose
  <2> HIDE DEF e
  <2>3. Lawful(l)
    BY <1>1, <2>2, LawfulAppend
  <2>4. Extends(l, log)
    BY <1>1, AppendExtends
  <2>5. Undisturbed(l, todo)
    BY <1>1, <2>2, FreshAppend, FreshBeside DEF IInv, Undisturbed
  <2> HIDE DEF l
  <2>. QED BY <2>1, <2>3, <2>4, <2>5, ExtensionKeeps DEF IInv
<1>6. ASSUME UNCHANGED <<log, todo>> PROVE IInv'
  BY <1>6 DEF IInv
<1>. QED BY <1>3, <1>4, <1>5, <1>6

(* The inductive invariant holds whatever the commands do. *)
THEOREM WorldIsLawful == FabricSpec => []IInv
<1>1. FabricInit => IInv
  <2> SUFFICES ASSUME FabricInit PROVE IInv
    OBVIOUS
  <2>1. log = <<>> /\ todo = [c \in Calls |-> <<>>]
    BY DEF FabricInit, CommandInit
  <2>2. IsSeq(log) /\ Len(log) = 0
    BY <2>1, EmptySeq, AnySeq
  <2>3. Lawful(log)
    BY <2>2 DEF Lawful
  <2>4. \A c \in Calls : Owed(AllSteps, log, todo[c])
    BY <2>1, CalmNone, CalmDraft, Zenon
  <2>5. Undisturbed(log, todo)
    BY <2>1, <2>2 DEF Undisturbed, AllFresh, Fresh
  <2>. QED BY <2>1, <2>3, <2>4, <2>5 DEF IInv
<1>2. IInv /\ [FabricNext]_<<log, todo>> => IInv'
  <2> SUFFICES ASSUME IInv, [FabricNext]_<<log, todo>> PROVE IInv'
    OBVIOUS
  <2>1. ASSUME NEW c \in Calls, FabricCommand(c) PROVE IInv'
    BY <2>1, SemanticCommandKeeps, CollectionCommandKeeps, FabricCommandKeeps DEF FabricCommand
  <2>. QED BY <2>1, FabricWriteKeeps, FabricRefuseKeeps, OthersKeep DEF FabricNext
<1>. QED BY <1>1, <1>2, PTL DEF FabricSpec

-----------------------------------------------------------------------------
(***************************************************************************)
(* What the log says, once it is lawful.                                   *)
(***************************************************************************)
(* What an event rests on is before it. *)
LEMMA EventLawful ==
  ASSUME NEW l, Lawful(l), NEW i \in 1 .. Len(l)
  PROVE  LET p == Prefix(l, i - 1) IN
         /\ Sound(p, {}, l[i]) /\ (l[i].type \in Judged => Founded(p, l[i]))
         /\ l[i].type = "claim" => l[i].version = NextOf(p, "claim", l[i].id)
         /\ i \in Nat /\ i - 1 \in 0 .. Len(l) /\ IsSeq(p) /\ Len(p) = i - 1 /\ DOMAIN p = 1 .. i - 1
         /\ \A n \in 1 .. i - 1 : n \in DOMAIN l /\ p[n] = l[n]
<1> DEFINE p == Prefix(l, i - 1)
<1>1. IsSeq(l) /\ Len(l) \in Nat /\ DOMAIN l = 1 .. Len(l)
  BY SeqFacts DEF Lawful
<1>2. i - 1 \in 0 .. Len(l) /\ i \in Nat /\ \A n \in 1 .. i - 1 : n \in DOMAIN l
  BY <1>1
<1>3. IsSeq(p) /\ Len(p) = i - 1 /\ \A n \in 1 .. i - 1 : p[n] = l[n]
  BY <1>1, <1>2, PrefixFacts
<1>4. DOMAIN p = 1 .. i - 1
  BY <1>3, SeqFacts
<1>. QED BY <1>2, <1>3, <1>4 DEF Lawful

LEMMA KnownBefore ==
  ASSUME NEW l, IsSeq(l), NEW d \in 0 .. Len(l), NEW t, NEW id, Known(Prefix(l, d), t, id)
  PROVE  \E j \in Versions(l, t, id) : j <= d
BY PrefixVersions DEF Known

LEMMA VersionsOf ==
  ASSUME IsSeq(log), NEW t
  PROVE  Of(t) \subseteq 1 .. Len(log) /\ \A id : Versions(log, t, id) = {i \in Of(t) : log[i].id = id}
BY VersionsFacts DEF Of

LEMMA LawfulLineage == ASSUME Lawful(log) PROVE LineageHolds
<1> DEFINE At(type, id) == {i \in Of(type) : log[i].id = id}
<1>1. IsSeq(log) /\ \A t, id : At(t, id) = Versions(log, t, id)
  BY VersionsOf DEF Lawful
<1>2. \A t : \A i \in Of(t) : i \in 1 .. Len(log) /\ log[i].type = t
  BY DEF Of
<1>a. Len(log) \in Nat
  BY <1>1, SeqFacts
<1>3. ASSUME NEW i \in 1 .. Len(log), NEW t, NEW id, Has(Prefix(log, i - 1), {}, t, id)
      PROVE  \E j \in Versions(log, t, id) : j < i
  <2>1. Known(Prefix(log, i - 1), t, id) /\ i - 1 \in 0 .. Len(log)
    BY <1>3, <1>a DEF Has
  <2>2. PICK j \in Versions(log, t, id) : j <= i - 1
    BY <1>1, <2>1, KnownBefore
  <2>3. j \in 1 .. Len(log)
    BY <1>1, VersionsFacts
  <2>. QED BY <2>2, <2>3
<1>4. ASSUME NEW i \in Of("execution"), "manifestations" \in DOMAIN log[i], NEW m \in log[i].manifestations
      PROVE  \E j \in At("manifestation", m) : j < i
  <2>1. i \in 1 .. Len(log) /\ log[i].type = "execution"
    BY <1>2
  <2>2. Sound(Prefix(log, i - 1), {}, log[i])
    BY <2>1, EventLawful
  <2>3. Has(Prefix(log, i - 1), {}, "manifestation", m)
    BY <1>4, <2>1, <2>2 DEF Sound
  <2>4. \E j \in Versions(log, "manifestation", m) : j < i
    BY <1>3, <2>1, <2>3
  <2>. QED BY <1>1, <2>4
<1>5. ASSUME NEW i \in Of("run")
      PROVE  \E j \in At("execution", <<<<log[i].id, log[i].run>>, Watches[log[i].id].source>>) : j < i
  <2>1. i \in 1 .. Len(log) /\ log[i].type = "run"
    BY <1>2
  <2>2. Sound(Prefix(log, i - 1), {}, log[i])
    BY <2>1, EventLawful
  <2>3. Has(Prefix(log, i - 1), {}, "execution", <<<<log[i].id, log[i].run>>, Watches[log[i].id].source>>)
    BY <2>1, <2>2 DEF Sound
  <2>4. \E j \in Versions(log, "execution", <<<<log[i].id, log[i].run>>, Watches[log[i].id].source>>) : j < i
    BY <1>3, <2>1, <2>3
  <2>. QED BY <1>1, <2>4
<1>6. ASSUME NEW i \in Of("fabric change"), "class" \in DOMAIN log[i], log[i].class = "CONTENT_CHANGED"
      PROVE  /\ \E k \in At("manifestation", log[i].id[2]) : k < i
             /\ log[i].id[1] # None =>
                  /\ Readings[log[i].id[1]].says # Readings[log[i].id[2]].says
                  /\ \E j \in At("manifestation", log[i].id[1]), k \in At("manifestation", log[i].id[2]) : j < k
  <2> DEFINE p == Prefix(log, i - 1)
  <2>1. i \in 1 .. Len(log) /\ log[i].type = "fabric change"
    BY <1>2, Zenon
  <2>2. Sound(p, {}, log[i]) /\ i - 1 \in 0 .. Len(log)
    BY <2>1, EventLawful, Zenon
  <2>3. /\ Has(p, {}, "manifestation", log[i].id[2])
        /\ log[i].id[1] # None => Readings[log[i].id[1]].says # Readings[log[i].id[2]].says /\ InOrder(p, {}, log[i].id[1], log[i].id[2])
    BY <1>6, <2>1, <2>2, Zenon DEF Sound
  <2>4. \E k \in Versions(log, "manifestation", log[i].id[2]) : k < i
    BY <1>3, <2>1, <2>3, Zenon
  <2>5. ASSUME InOrder(p, {}, log[i].id[1], log[i].id[2])
        PROVE  \E j \in Versions(log, "manifestation", log[i].id[1]), k \in Versions(log, "manifestation", log[i].id[2]) : j < k
    <3>1. PICK j \in Versions(p, "manifestation", log[i].id[1]), k \in Versions(p, "manifestation", log[i].id[2]) : j < k
      BY <2>5, Zenon DEF InOrder
    <3>2. IsSeq(p) /\ Extends(log, p)
      BY <1>1, <2>2, PrefixFacts, PrefixPart, Zenon
    <3> HIDE DEF p
    <3>3. \A t, id : Versions(p, t, id) \subseteq Versions(log, t, id)
      BY <1>1, <3>2, MoreVersions, Zenon
    <3>. QED BY <3>1, <3>3, Zenon
  <2>. QED BY <1>1, <2>3, <2>4, <2>5, Zenon
<1>. QED BY <1>4, <1>5, <1>6, Zenon DEF LineageHolds

(* A standing beyond the machine's bookkeeping that was there when it      *)
(* decided would have been seen.                                           *)
LEMMA SeenBefore ==
  ASSUME NEW l, Lawful(l), NEW i \in 1 .. Len(l), l[i].type = "standing", NEW d \in 0 .. i - 1,
         Standing(Prefix(l, d), l[i].id) \in Bookkeeping, NEW before, before = Unjudged(l, i), before # {},
         l[Max(before)].state \notin Bookkeeping
  PROVE  d < Max(before)
<1> DEFINE k == l[i].id  at == Max(before)  V == Versions(Prefix(l, d), "standing", k)
<1>1. IsSeq(l) /\ Len(l) \in Nat /\ i \in Nat /\ d \in 0 .. Len(l) /\ d \in Nat
  BY SeqFacts DEF Lawful
<1>2. before = {j \in Versions(l, "standing", k) : j < i} /\ Versions(l, "standing", k) \subseteq 1 .. Len(l)
  BY <1>1, VersionsFacts DEF Unjudged
<1>3. at \in before /\ \A j \in before : j <= at
  <2>1. before \subseteq 1 .. Len(l)
    BY <1>2
  <2>. QED BY <1>1, <2>1, MaxOf
<1> HIDE DEF at
<1>4. SUFFICES ASSUME ~(d < at) PROVE FALSE
  BY DEF at
<1>5. at \in Nat /\ at <= d
  BY <1>1, <1>2, <1>3, <1>4
<1>6. V = {j \in Versions(l, "standing", k) : j <= d}
  BY <1>1, PrefixVersions
<1>7. at \in V /\ \A j \in V : j \in before
  BY <1>1, <1>2, <1>3, <1>5, <1>6
<1>8. Known(Prefix(l, d), "standing", k) /\ IsSeq(Prefix(l, d))
  BY <1>1, <1>7, PrefixFacts DEF Known
<1>9. PICK x \in V : Current(Prefix(l, d), "standing", k) = Prefix(l, d)[x] /\ \A j \in V : j <= x
  BY <1>8, CurrentFacts
<1>10. x = at
  <2>1. x \in before /\ x <= at /\ at <= x
    BY <1>3, <1>7, <1>9
  <2>2. x \in Nat
    <3>1. before \subseteq 1 .. Len(l)
      BY <1>2
    <3>. QED BY <1>1, <2>1, <3>1
  <2>. QED BY <1>5, <2>1, <2>2
<1>11. Prefix(l, d)[at] = l[at]
  <2>1. at \in 1 .. d
    BY <1>2, <1>3, <1>5
  <2>. QED BY <1>1, <2>1, PrefixFacts
<1>12. Standing(Prefix(l, d), k) = l[at].state
  BY <1>8, <1>9, <1>10, <1>11 DEF Standing
<1>. QED BY <1>12 DEF at

LEMMA LawfulPeople == ASSUME Lawful(log) PROVE PeopleDecide
<1>1. IsSeq(log) /\ Len(log) \in Nat
  BY SeqFacts DEF Lawful
<1>2. \A t : \A i \in Of(t) : i \in 1 .. Len(log) /\ log[i].type = t
  BY DEF Of
<1>3. ASSUME NEW i \in Of("standing"), Stamped(i) PROVE \E j \in Grounds(i) : j < Max(Unjudged(log, i))
  <2> DEFINE p == Prefix(log, i - 1)  e == log[i]  before == Unjudged(log, i)
  <2>1. i \in 1 .. Len(log) /\ e.type = "standing"
    BY <1>2
  <2>2. before # {} /\ e.state # "DISPUTED" /\ log[Max(before)].state \notin Bookkeeping
    BY <1>3 DEF Stamped
  <2>3. Founded(p, e) /\ i - 1 \in 0 .. Len(log) /\ Len(p) = i - 1
    BY <2>1, EventLawful DEF Judged
  <2>4. PICK d \in 0 .. i - 1 : Fair(Prefix(p, d), e)
    BY <2>3 DEF Founded
  <2>5. Prefix(p, d) = Prefix(log, d) /\ d \in 0 .. Len(log)
    BY <1>1, <2>3, PrefixOfPrefix
  <2>6. Fair(Prefix(log, d), e)
    BY <2>4, <2>5
  <2>7. /\ Standing(Prefix(log, d), e.id) \in Bookkeeping
        /\ IF e.state = "CURRENT" THEN Known(Prefix(log, d), "claim", e.id) ELSE Known(Prefix(log, d), "change", e.cause)
    BY <2>1, <2>2, <2>6 DEF Fair
  <2>8. d < Max(before)
    BY <2>1, <2>2, <2>7, SeenBefore
  <2>9. before \subseteq 1 .. Len(log)
    BY <1>1, VersionsFacts DEF Unjudged
  <2>10. Max(before) \in Nat
    BY <1>1, <2>2, <2>9, MaxOf
  <2>11. PICK j \in Grounds(i) : j <= d
    <3>1. CASE e.state = "CURRENT"
      <4>1. \E j \in Versions(log, "claim", e.id) : j <= d
        BY <1>1, <2>5, <2>7, <3>1, KnownBefore
      <4>. QED BY <3>1, <4>1 DEF Grounds
    <3>2. CASE e.state # "CURRENT"
      <4>1. \E j \in Versions(log, "change", e.cause) : j <= d
        BY <1>1, <2>5, <2>7, <3>2, KnownBefore
      <4>. QED BY <3>2, <4>1 DEF Grounds
    <3>. QED BY <3>1, <3>2
  <2>12. j \in Nat
    <3>1. Grounds(i) \subseteq 1 .. Len(log)
      BY <1>1, VersionsFacts DEF Grounds
    <3>. QED BY <3>1
  <2>. QED BY <2>8, <2>10, <2>11, <2>12
<1>4. ASSUME NEW i \in Of("relation"), log[i].id[1] = "SAME_AS", log[i].status = "ACTIVE"
      PROVE  \E j \in 1 .. i - 1 : log[j].type = "resolution" /\ log[j].id = Tail(log[i].id)
                                   /\ log[j].resolution = "ACCEPTED" /\ log[j].kind = "HUMAN"
  <2> DEFINE p == Prefix(log, i - 1)
  <2>1. i \in 1 .. Len(log) /\ log[i].type = "relation"
    BY <1>2
  <2>2. Sound(p, {}, log[i]) /\ DOMAIN p = 1 .. i - 1 /\ \A n \in 1 .. i - 1 : p[n] = log[n]
    BY <2>1, EventLawful
  <2> HIDE DEF p
  <2>3. Approved(p, {}, Tail(log[i].id))
    BY <1>4, <2>1, <2>2 DEF Sound
  <2>. QED BY <2>2, <2>3 DEF Approved
<1>. QED BY <1>3, <1>4 DEF PeopleDecide

(* A claim's version follows on the one it was worked out on. *)
LEMMA FreshPeople == ASSUME Lawful(log), AllFresh(log) PROVE NothingIsStamped
<1> SUFFICES ASSUME NEW i \in Of("standing"), Stamped(i) PROVE FALSE
  BY DEF NothingIsStamped
<1> DEFINE before == Unjudged(log, i)
<1>1. IsSeq(log) /\ Len(log) \in Nat
  BY SeqFacts DEF Lawful
<1>2. i \in 1 .. Len(log) /\ log[i].type = "standing" /\ i \in Nat /\ i - 1 \in 0 .. i - 1
  BY <1>1 DEF Of
<1>3. before # {} /\ log[i].state # "DISPUTED" /\ log[Max(before)].state \notin Bookkeeping
  BY DEF Stamped
<1>4. Standing(Prefix(log, i - 1), log[i].id) \in Bookkeeping
  BY <1>2, <1>3 DEF AllFresh, Fair
<1>5. before \subseteq 1 .. Len(log) /\ \A j \in before : j < i
  BY <1>1, VersionsFacts DEF Unjudged
<1> HIDE DEF before
<1>6. Max(before) \in before
  BY <1>1, <1>3, <1>5, MaxOf
<1>7. i - 1 < Max(before)
  BY <1>2, <1>3, <1>4, SeenBefore DEF before
<1> DEFINE at == Max(before)
<1>8. at \in 1 .. Len(log) /\ at < i /\ i - 1 < at
  BY <1>5, <1>6, <1>7
<1> HIDE DEF at
<1>. QED BY <1>1, <1>2, <1>8

LEMMA LawfulEvidence == ASSUME Lawful(log) PROVE OnlyEvidenceMoves
<1>1. IsSeq(log) /\ Len(log) \in Nat
  BY SeqFacts DEF Lawful
<1>2. \A t : \A i \in Of(t) : i \in 1 .. Len(log) /\ log[i].type = t
  BY DEF Of
<1>3. ASSUME NEW r \in Revisions("claim"), log[r[1]].value # log[r[2]].value
      PROVE  /\ {Group(o) : o \in log[r[2]].obs} \subseteq {Group(o) : o \in log[r[1]].obs}
             /\ \A o \in log[r[1]].obs, p \in log[r[2]].obs : Time(p) > Time(o)
  <2> DEFINE k == r[1]  n == r[2]  e == log[n]  id == e.id  V == Versions(log, "claim", id)  p == Prefix(log, n - 1)
  <2>1. k \in Of("claim") /\ n \in Of("claim") /\ log[k].id = id /\ e.version = log[k].version + 1
    BY DEF Revisions
  <2> HIDE DEF k, n
  <2>2. n \in 1 .. Len(log) /\ k \in 1 .. Len(log) /\ e.type = "claim" /\ k \in V /\ n \in V
    BY <1>1, <1>2, <2>1, VersionsFacts
  <2>3. \A m \in V : log[m].version = NextOf(Prefix(log, m - 1), "claim", id)
    <3>1. \A m \in V : m \in 1 .. Len(log) /\ log[m].type = "claim" /\ log[m].id = id
      BY <1>1, VersionsFacts
    <3>. QED BY <3>1, EventLawful
  <2> HIDE DEF id
  <2>4. k < n /\ \A i \in V : i < n => i <= k
    BY <1>1, <2>1, <2>2, <2>3, Previous
  <2>5. Founded(p, e) /\ n - 1 \in 0 .. Len(log) /\ Len(p) = n - 1
    BY <2>2, EventLawful DEF Judged
  <2>6. PICK d \in 0 .. n - 1 : Fair(Prefix(p, d), e) /\ e.version = NextOf(Prefix(p, d), "claim", id)
    BY <2>2, <2>5 DEF Founded, id
  <2>7. Prefix(p, d) = Prefix(log, d) /\ d \in 0 .. Len(log)
    BY <1>1, <2>5, PrefixOfPrefix
  <2>8. NextOf(Prefix(log, d), "claim", id) = NextOf(p, "claim", id)
    BY <2>2, <2>3, <2>6, <2>7
  <2>9. k <= d
    <3>1. \A i \in V : i <= n - 1 => i <= d
      BY <1>1, <2>5, <2>8, SameVersions
    <3>. QED BY <2>2, <2>4, <3>1
  <2> DEFINE q == Prefix(log, d)
  <2>10. IsSeq(q) /\ \A i \in 1 .. d : q[i] = log[i]
    BY <1>1, <2>7, PrefixFacts
  <2>11. Versions(q, "claim", id) = {i \in V : i <= d}
    BY <1>1, <2>7, PrefixVersions
  <2>12. Fair(q, e)
    BY <2>6, <2>7
  <2> HIDE DEF q, e
  <2>13. Known(q, "claim", id)
    BY <2>2, <2>9, <2>11 DEF Known
  <2>14. PICK x \in Versions(q, "claim", id) : Current(q, "claim", id) = q[x] /\ \A j \in Versions(q, "claim", id) : j <= x
    BY <2>10, <2>13, CurrentFacts
  <2>15. x = k
    <3>1. x \in V /\ x <= d /\ k <= x
      BY <2>2, <2>9, <2>11, <2>14
    <3>2. x \in Nat /\ k \in Nat /\ n \in Nat /\ V \subseteq 1 .. Len(log)
      BY <1>1, <2>2, <3>1, VersionsFacts
    <3>3. x < n
      BY <2>6, <3>1, <3>2
    <3>. QED BY <2>4, <3>1, <3>2, <3>3
  <2>16. Current(q, "claim", id) = log[k]
    <3>1. k \in 1 .. d
      BY <2>2, <2>7, <2>9
    <3>. QED BY <2>10, <2>14, <2>15, <3>1
  <2>17. log[k].value = e.value \/ Later(log[k], e)
    BY <2>2, <2>12, <2>13, <2>16 DEF Fair, id
  <2>18. Later(log[k], e)
    BY <1>3, <2>17 DEF k, n, e
  <2>. QED BY <2>18 DEF Later, Groups, k, n, e
<1>4. ASSUME NEW i \in Of("standing"), log[i].state \in {"CORRECTED", "RETRACTED", "STALE", "SUPERSEDED"}, Readings[log[i].cause[2]].truncated
      PROVE  /\ log[i].state = "CORRECTED"
             /\ \E j \in Versions(log, "observation", <<log[i].cause[2], log[i].id>>) : j < i
  <2>1. i \in 1 .. Len(log) /\ log[i].type = "standing"
    BY <1>2
  <2>2. Sound(Prefix(log, i - 1), {}, log[i]) /\ i - 1 \in 0 .. Len(log)
    BY <2>1, EventLawful
  <2>3. Lowers(Prefix(log, i - 1), log[i])
    BY <2>1, <2>2 DEF Sound
  <2>4. log[i].state = "CORRECTED" /\ Known(Prefix(log, i - 1), "observation", <<log[i].cause[2], log[i].id>>)
    BY <1>4, <2>3 DEF Lowers, Lowered
  <2>5. PICK j \in Versions(log, "observation", <<log[i].cause[2], log[i].id>>) : j <= i - 1
    BY <1>1, <2>2, <2>4, KnownBefore
  <2>6. j \in 1 .. Len(log)
    BY <1>1, VersionsFacts
  <2>. QED BY <2>1, <2>4, <2>5, <2>6
<1>. QED BY <1>3, <1>4 DEF OnlyEvidenceMoves

(* What says it without a new count or answer says what an earlier version *)
(* says, and the first that says it has counted.                           *)
LEMMA SameBasisChains ==
  ASSUME NEW a, NEW b, NEW c, SameBasis(a, b), SameBasis(b, c)
  PROVE  SameBasis(a, c) /\ SameBasis(c, c)
BY DEF SameBasis

LEMMA LawfulAnswers == ASSUME Lawful(log) PROVE AnswersAreIndependent
<1>1. IsSeq(log) /\ Len(log) \in Nat /\ DOMAIN log = 1 .. Len(log)
  BY SeqFacts DEF Lawful
<1>2. \A t : \A i \in Of(t) : i \in 1 .. Len(log) /\ log[i].type = t
  BY DEF Of
<1>3. \A t, id : Versions(log, t, id) \subseteq 1 .. Len(log) /\ \A i \in Versions(log, t, id) : log[i].type = t /\ log[i].id = id
  BY <1>1, VersionsFacts
<1>4. \A t : \A i \in Of(t) : i \in Versions(log, t, log[i].id)
  BY <1>1, VersionsOf
<1>5. ASSUME NEW i \in Of("hypothesis"), log[i].is.status = "SUPPORTED"
      PROVE  \E j \in Versions(log, "hypothesis", log[i].id) : j <= i /\ log[j].is = log[i].is /\ TwoVoices(j)
  <2> DEFINE V == Versions(log, "hypothesis", log[i].id)
             K == {j \in V : j <= i /\ log[j].is = log[i].is}
  <2>1. V \subseteq 1 .. Len(log) /\ i \in V /\ i \in 1 .. Len(log) /\ \A j \in V : log[j].type = "hypothesis" /\ log[j].id = log[i].id
    BY <1>2, <1>3, <1>4
  <2>2. K \subseteq Nat /\ K # {}
    BY <2>1
  <2>3. PICK j \in K : \A n \in K : j <= n
    BY <2>2, Least
  <2> DEFINE p == Prefix(log, j - 1)
  <2>4. j \in V /\ j \in 1 .. Len(log) /\ j <= i /\ log[j].is = log[i].is /\ log[j].type = "hypothesis" /\ log[j].id = log[i].id
    BY <2>1, <2>3
  <2>5. /\ Sound(p, {}, log[j]) /\ j - 1 \in 0 .. Len(log) /\ DOMAIN p = 1 .. j - 1
        /\ \A n \in 1 .. j - 1 : p[n] = log[n]
    BY <2>4, EventLawful
  <2>6. SupportIs(p, log[j])
    BY <2>4, <2>5 DEF Sound
  <2>7. Versions(p, "hypothesis", log[j].id) = {n \in V : n <= j - 1}
    BY <1>1, <2>4, <2>5, PrefixVersions
  <2>8. ~ \E n \in Versions(p, "hypothesis", log[j].id) : p[n].is = log[j].is
    <3> SUFFICES ASSUME NEW n \in V, n <= j - 1, p[n].is = log[j].is PROVE FALSE
      BY <2>7
    <3>1. n \in 1 .. j - 1 /\ n <= i
      BY <2>1, <2>4
    <3>2. n \in K
      BY <2>4, <2>5, <3>1
    <3>. QED BY <2>3, <2>4, <3>1, <3>2
  <2>9. Voices(p, log[j])
    BY <1>5, <2>4, <2>6, <2>8 DEF SupportIs
  <2> HIDE DEF p
  <2>10. PICK a, b \in 1 .. j - 1 :
          /\ log[a].type = "claim" /\ log[a].id \in log[j].linked["supporting"]
          /\ log[b].type = "claim" /\ log[b].id \in log[j].linked["supporting"]
          /\ \E o \in log[a].obs, x \in log[b].obs : Group(o) # Group(x)
    BY <2>5, <2>9 DEF Voices
  <2>11. a \in Of("claim") /\ b \in Of("claim") /\ a < j /\ b < j
    BY <1>1, <2>4, <2>10 DEF Of
  <2>12. TwoVoices(j)
    BY <2>10, <2>11 DEF TwoVoices
  <2>. QED BY <2>4, <2>12
<1>6. ASSUME NEW i \in Of("question"), log[i].status = "SATISFIED"
      PROVE  \E j \in Versions(log, "question", log[i].id) :
               j <= i /\ log[j].status = "SATISFIED" /\ SameBasis(log[j], log[i]) /\ Answering(j) # {}
  <2> DEFINE V == Versions(log, "question", log[i].id)
             K == {j \in V : j <= i /\ log[j].status = "SATISFIED" /\ SameBasis(log[j], log[i])}
  <2>1. V \subseteq 1 .. Len(log) /\ i \in V /\ i \in 1 .. Len(log) /\ \A j \in V : log[j].type = "question" /\ log[j].id = log[i].id
    BY <1>2, <1>3, <1>4
  <2>a. SameBasis(log[i], log[i])
    BY DEF SameBasis
  <2>2. K \subseteq Nat /\ i \in K
    BY <1>6, <2>1, <2>a
  <2>3. PICK j \in K : \A n \in K : j <= n
    BY <2>2, Least
  <2> DEFINE p == Prefix(log, j - 1)
  <2>4. /\ j \in V /\ j \in 1 .. Len(log) /\ j <= i /\ log[j].status = "SATISFIED" /\ SameBasis(log[j], log[i])
        /\ log[j].type = "question" /\ log[j].id = log[i].id
    BY <2>1, <2>3
  <2>5. /\ Sound(p, {}, log[j]) /\ j - 1 \in 0 .. Len(log) /\ DOMAIN p = 1 .. j - 1
        /\ \A n \in 1 .. j - 1 : p[n] = log[n]
    BY <2>4, EventLawful
  <2>6. AnswerIs(p, log[j])
    BY <2>4, <2>5 DEF Sound
  <2>7. Versions(p, "question", log[j].id) = {n \in V : n <= j - 1}
    BY <1>1, <2>4, <2>5, PrefixVersions
  <2>8. ~ \E n \in Versions(p, "question", log[j].id) : p[n].status = "SATISFIED" /\ SameBasis(p[n], log[j])
    <3> SUFFICES ASSUME NEW n \in V, n <= j - 1, p[n].status = "SATISFIED", SameBasis(p[n], log[j]) PROVE FALSE
      BY <2>7
    <3>1. n \in 1 .. j - 1 /\ n <= i
      BY <2>1, <2>4
    <3>2. log[n].status = "SATISFIED" /\ SameBasis(log[n], log[i])
      BY <2>4, <2>5, <3>1, SameBasisChains
    <3>3. n \in K
      BY <3>1, <3>2
    <3>. QED BY <2>3, <2>4, <3>1, <3>3
  <2>9. Replied(p, log[j])
    BY <2>4, <2>6, <2>8 DEF AnswerIs
  <2>10. PICK k \in Versions(p, "question", log[j].id), x \in DOMAIN p :
           /\ k < x /\ p[x].type = "observation"
           /\ p[x].id[2] = Questions[log[j].id].topic /\ Group(p[x].id) \notin log[j].basis
    BY <2>9 DEF Replied
  <2> HIDE DEF p
  <2>11. x \in 1 .. j - 1 /\ p[x] = log[x] /\ k \in Versions(log, "question", log[j].id)
    BY <2>4, <2>5, <2>7, <2>10
  <2>12. x \in Of("observation") /\ x < j
    BY <1>1, <2>4, <2>10, <2>11 DEF Of
  <2>13. x \in Answering(j)
    BY <2>10, <2>11, <2>12 DEF Answering
  <2>. QED BY <2>4, <2>13
<1>. QED BY <1>5, <1>6 DEF AnswersAreIndependent

-----------------------------------------------------------------------------
(***************************************************************************)
(* A pass over the changes that leaves nothing to do.  As long as a change *)
(* still has to come before people, something in the queue bears it: the   *)
(* record itself, the step that raises it, or the pair it is a change of.  *)
(* However many steps are taken, one such event is left.                   *)
(***************************************************************************)
Due(id, t) == IF t = "item" THEN <<"change", id[4], id>> ELSE <<"semantic", id>>

(* A recorded change that owes an item or an alert. *)
Owes(l, i, t) ==
  /\ i \in DOMAIN l /\ l[i].type = "change" /\ t \in {"item", "alert"} /\ ~Known(l, t, Due(l[i].id, t))
  /\ t = "item" => l[i].id[3] \in DOMAIN StateFor /\ l[i].id[4] \in l[i].claims
  /\ t = "alert" => l[i].id[1] # "" /\ IsAlerted(l[i].id)

Bears(l, i, t, x) ==
  \/ /\ x.type = t /\ x.id = Due(l[i].id, t)
     /\ t = "item" => "status" \in DOMAIN x /\ x.status = "OPEN"
  \/ t = "item" /\ x = Step("propagate", i)
  \/ /\ x.type = "step" /\ x.what = "pair" /\ x.id[2]
     /\ x.id[1][1] = l[i].id[1] /\ x.id[1][2] = l[i].id[2]
  \/ /\ x.type = "step" /\ x.what = "discovery" /\ x.id[2] /\ t = "item"
     /\ l[i].id[1] = "" /\ x.id[1] = l[i].id[2]
Borne(l, i, t, q) == \E n \in 1 .. Len(q) : Bears(l, i, t, q[n])

LEMMA BearerStays ==
  ASSUME NEW l, IsSeq(l), NEW i, NEW t, Owes(l, i, t), NEW F, NEW x, Sound(l, F, x), Bears(l, i, t, x)
  PROVE  ~Superfluous(l, x) /\ Bears(l, i, t, Stamp(l, x))
<1>1. CASE x.type = t /\ x.id = Due(l[i].id, t) /\ (t = "item" => "status" \in DOMAIN x /\ x.status = "OPEN")
  <2> DEFINE s == Stamp(l, x)
  <2>1. (t = "item" \/ t = "alert") /\ ~Known(l, t, x.id)
    BY <1>1, Zenon DEF Owes
  <2>2. ~Superfluous(l, x)
    BY <1>1, <2>1 DEF Superfluous
  <2>3. DOMAIN s = DOMAIN x /\ \A f \in DOMAIN x \ {"version"} : s[f] = x[f]
    BY <1>1, <2>1, StampKeeps
  <2>4. s.type = x.type /\ s.id = x.id
    BY SoundStamped
  <2> HIDE DEF s
  <2>5. t = "item" => "status" \in DOMAIN s /\ s.status = "OPEN"
    BY <1>1, <2>3
  <2>6. Bears(l, i, t, s)
    BY <1>1, <2>4, <2>5, Zenon DEF Bears
  <2>. QED BY <2>2, <2>6 DEF s
<1>2. CASE x.type = "step"
  <2>1. ~Superfluous(l, x)
    BY <1>2, NotSuperfluous DEF Kept1
  <2>2. Stamp(l, x) = x
    BY <1>2, SoundStamped, Zenon DEF Unversioned
  <2>. QED BY <2>1, <2>2
<1>3. Step("propagate", i).type = "step"
  BY DEF Step
<1>. QED BY <1>1, <1>2, <1>3, Zenon DEF Bears

LEMMA SettleBears ==
  ASSUME NEW l, IsSeq(l), NEW i, NEW t, Owes(l, i, t), NEW S, NEW d, Queue(S, l, d), Borne(l, i, t, d)
  PROVE  Borne(l, i, t, Settle(l, d))
<1>1. IsSeq(d)
  BY DEF Queue
<1> DEFINE q == Settle(l, d)
<1>2. PICK h : Left(l, d, q, h)
  BY <1>1, SettleLeaves
<1> HIDE DEF q
<1>3. PICK j \in 1 .. Len(d) : Bears(l, i, t, d[j])
  BY DEF Borne
<1>4. Sound(l, Near(d, j), d[j])
  BY <1>3 DEF Queue
<1>5. ~Superfluous(l, d[j]) /\ Bears(l, i, t, Stamp(l, d[j]))
  BY <1>3, <1>4, BearerStays
<1>6. PICK n \in 1 .. Len(q) : h[n] = j
  BY <1>2, <1>5 DEF Left
<1>7. q[n] = Stamp(l, d[j]) \/ q[n] = d[j]
  <2>1. q[n] = IF n = 1 THEN Stamp(l, d[h[n]]) ELSE d[h[n]]
    BY <1>1, <1>2, LeftFacts
  <2>. QED BY <1>6, <2>1
<1>8. Bears(l, i, t, q[n])
  BY <1>3, <1>5, <1>7
<1>. QED BY <1>6, <1>8 DEF Borne, q

(* A change is raised by the step that restates its claim. *)
LEMMA PropagatedBears ==
  ASSUME NEW l, Lawful(l), NEW i, Owes(l, i, "item")
  PROVE  Borne(l, i, "item", Propagated(l, i))
<1> DEFINE change == l[i]  id == change.id
           claims == SetToSeq(change.claims)
           Restate(k) == LET state == StateFor[id[3]] IN
             IF /\ state # "" /\ ~Above(l, i, k) /\ Current(l, "claim", k).value # change.value
                /\ MayMove(Standing(l, k)) /\ Standing(l, k) # state
             THEN <<SetStanding(k, state, id)>> ELSE <<>>
           One(k) == Restate(k) \o <<Item(<<"change", k, id>>, "OPEN")>>
           parts == [n \in DOMAIN claims |-> One(claims[n])]
<1>0. i \in DOMAIN l /\ change.type = "change" /\ id[3] \in DOMAIN StateFor /\ id[4] \in change.claims
  BY DEF Owes
<1>1. Propagated(l, i) = Flat(parts)
  BY <1>0 DEF Propagated
<1>2. change.claims = {id[4]}
  BY <1>0, ChangeSound
<1> HIDE DEF change
<1>3. claims \in [1 .. 1 -> {id[4]}]
  <2>1. IsFiniteSet({id[4]}) /\ Cardinality({id[4]}) = 1
    BY FS_Singleton
  <2>. QED BY <1>2, <2>1, SetToSeqIs
<1> HIDE DEF claims
<1>4. DOMAIN claims = 1 .. 1 /\ claims[1] = id[4]
  BY <1>3
<1>5. IsSeq(Restate(id[4]))
  <2>1. Restate(id[4]) = <<>> \/ Restate(id[4]) = <<SetStanding(id[4], StateFor[id[3]], id)>>
    BY Zenon
  <2> HIDE DEF Restate
  <2>2. IsSeq(<<>>)
    BY EmptySeq, AnySeq
  <2>. QED BY <2>1, <2>2, Single
<1> DEFINE e == Item(<<"change", id[4], id>>, "OPEN")
<1>6. e.type = "item" /\ e.id = <<"change", id[4], id>> /\ e.status = "OPEN" /\ "status" \in DOMAIN e
  BY DEF Item
<1> HIDE DEF Restate, e
<1>7. /\ IsSeq(One(id[4])) /\ Len(One(id[4])) \in 1 .. Len(One(id[4]))
      /\ One(id[4])[Len(One(id[4]))] = e
  <2> DEFINE r == Restate(id[4])  w == r \o <<e>>
  <2>1. IsSeq(r) /\ Len(r) \in Nat
    BY <1>5, SeqFacts
  <2> HIDE DEF r
  <2>2. IsSeq(w) /\ Len(w) = Len(r) + 1 /\ w[Len(r) + 1] = e
    BY <2>1, JoinedOne
  <2> HIDE DEF w
  <2>3. IsSeq(w) /\ Len(w) \in 1 .. Len(w) /\ w[Len(w)] = e
    BY <2>1, <2>2
  <2>. QED BY <2>3 DEF w, r, e
<1> HIDE DEF One
<1>8. parts = [n \in DOMAIN claims |-> parts[n]] /\ parts[1] = One(id[4])
  BY <1>4
<1> HIDE DEF parts
<1>9. IsSeq(parts) /\ Len(parts) = 1 /\ DOMAIN parts = 1 .. 1
  <2>1. IsSeq(claims) /\ Len(claims) = 1
    <3>1. claims = [n \in 1 .. 1 |-> claims[n]] /\ 1 \in Nat
      BY <1>3
    <3>. QED BY <3>1, FunctionIsSeq
  <2>. QED BY <1>8, <2>1, Mapped
<1>10. Flat(parts) = One(id[4])
  <2>1. \A p \in DOMAIN parts : IsSeq(parts[p])
    BY <1>7, <1>8, <1>9
  <2>2. Len(parts) <= 1
    BY <1>9
  <2>3. IF Len(parts) = 1 THEN Flat(parts) = parts[1] ELSE Flat(parts) = <<>>
    BY <1>9, <2>1, <2>2, FlatOne
  <2>. QED BY <1>8, <1>9, <2>3
<1>11. Bears(l, i, "item", e)
  BY <1>6 DEF Bears, Due, change, id
<1>. QED BY <1>1, <1>7, <1>10, <1>11 DEF Borne

(* A pair that is interpreted is completed: each of its changes is raised. *)
LEMMA CompleteBears ==
  ASSUME NEW l, Lawful(l), NEW i, NEW t, Owes(l, i, t), NEW watched, t = "alert" => watched
  PROVE  Borne(l, i, t, CompletePair(l, l[i].id[1], l[i].id[2], watched))
<1> DEFINE p == l[i].id[1]  m == l[i].id[2]
           all == ChangesOf(l, p, m)
           g == [n \in DOMAIN all |-> Step("propagate", all[n])]
           ids == [n \in DOMAIN all |-> l[all[n]].id]
           at == {n \in DOMAIN ids : IsAlerted(ids[n])}
           new == Only(ids, at)
           a == [n \in DOMAIN new |-> [type |-> "alert", id |-> <<"semantic", new[n]>>]]
           r == IF watched THEN a ELSE <<>>
<1>1. CompletePair(l, p, m, watched) = g \o r
  BY DEF CompletePair, RaiseAlerts
<1>2. i \in DOMAIN l /\ l[i].type = "change" /\ t \in {"item", "alert"} /\ (t = "alert" => IsAlerted(l[i].id))
  BY Zenon DEF Owes
<1>3. IsSeq(l)
  BY DEF Lawful
<1>4. IsSeq(all) /\ \E n \in DOMAIN all : all[n] = i
  BY <1>2, <1>3, ChangesOfFacts
<1> HIDE DEF all
<1>5. g = [n \in DOMAIN all |-> g[n]] /\ \A n \in DOMAIN all : g[n] = Step("propagate", all[n])
  OBVIOUS
<1>6. ids = [n \in DOMAIN all |-> ids[n]] /\ \A n \in DOMAIN all : ids[n] = l[all[n]].id
  OBVIOUS
<1> HIDE DEF g, ids
<1>7. IsSeq(g) /\ DOMAIN g = DOMAIN all /\ IsSeq(ids) /\ DOMAIN ids = DOMAIN all /\ DOMAIN g = 1 .. Len(g)
  BY <1>4, <1>5, <1>6, Mapped, SeqFacts
<1>8. \A n \in DOMAIN ids : n \in at <=> IsAlerted(ids[n])
  OBVIOUS
<1> HIDE DEF at
<1>9. IsSeq(new) /\ \A j \in DOMAIN ids : j \in at => \E n \in DOMAIN new : new[n] = ids[j]
  BY <1>7, OnlyKeeps, OnlyAll
<1> HIDE DEF new
<1>10. a = [n \in DOMAIN new |-> a[n]] /\ \A n \in DOMAIN new : a[n].type = "alert" /\ a[n].id = <<"semantic", new[n]>>
  OBVIOUS
<1> HIDE DEF a
<1>11. IsSeq(a) /\ DOMAIN a = DOMAIN new /\ DOMAIN a = 1 .. Len(a)
  BY <1>9, <1>10, Mapped, SeqFacts
<1>12. IsSeq(<<>>)
  BY EmptySeq, AnySeq
<1>13. IsSeq(r) /\ Len(r) \in Nat /\ Len(g) \in Nat
  BY <1>7, <1>11, <1>12, SeqFacts
<1>14. t = "item" => \E n \in 1 .. Len(g) : Bears(l, i, t, g[n])
  <2>1. PICK n \in DOMAIN all : all[n] = i
    BY <1>4
  <2>. QED BY <1>5, <1>7, <2>1, Zenon DEF Bears
<1>15. t = "alert" => \E n \in 1 .. Len(r) : Bears(l, i, t, r[n])
  <2> SUFFICES ASSUME t = "alert" PROVE \E n \in 1 .. Len(r) : Bears(l, i, t, r[n])
    OBVIOUS
  <2>1. PICK n \in DOMAIN all : all[n] = i
    BY <1>4
  <2>2. ids[n] = l[i].id /\ n \in DOMAIN ids
    BY <1>6, <1>7, <2>1
  <2>3. PICK k \in DOMAIN new : new[k] = l[i].id
    BY <1>2, <1>8, <1>9, <2>2
  <2>4. r = a
    OBVIOUS
  <2>5. k \in 1 .. Len(r) /\ r[k].type = "alert" /\ r[k].id = <<"semantic", l[i].id>>
    BY <1>10, <1>11, <2>3, <2>4, Zenon
  <2>. QED BY <2>5 DEF Bears, Due
<1> HIDE DEF r
<1>16. \E n \in 1 .. Len(g \o r) : Bears(l, i, t, (g \o r)[n])
  <2> DEFINE w == g \o r
  <2>1. /\ Len(w) = Len(g) + Len(r)
        /\ \A n \in 1 .. Len(g) : w[n] = g[n]
        /\ \A n \in 1 .. Len(r) : w[Len(g) + n] = r[n]
    BY <1>7, <1>13, Concatenated
  <2> HIDE DEF w
  <2>2. CASE t = "item"
    <3>1. PICK n \in 1 .. Len(g) : Bears(l, i, t, g[n])
      BY <1>14, <2>2
    <3>2. n \in 1 .. Len(w) /\ w[n] = g[n]
      BY <1>13, <2>1
    <3>. QED BY <3>1, <3>2 DEF w
  <2>3. CASE t = "alert"
    <3>1. PICK n \in 1 .. Len(r) : Bears(l, i, t, r[n])
      BY <1>15, <2>3
    <3>2. Len(g) + n \in 1 .. Len(w) /\ w[Len(g) + n] = r[n]
      BY <1>13, <2>1
    <3>3. Bears(l, i, t, w[Len(g) + n])
      BY <3>1, <3>2
    <3>. QED BY <3>2, <3>3 DEF w
  <2>. QED BY <1>2, <2>2, <2>3
<1>. QED BY <1>1, <1>16 DEF Borne

(* A step that bears a change comes to events of which one does. *)
LEMMA StepBears ==
  ASSUME NEW l, Lawful(l), NEW i, NEW t, Owes(l, i, t), NEW s, s.type = "step", Bears(l, i, t, s)
  PROVE  Borne(l, i, t, SemanticContinue(l, s))
<1>1. t \in {"item", "alert"}
  BY Zenon DEF Owes
<1>2. CASE t = "item" /\ s = Step("propagate", i)
  <2>1. s.what = "propagate" /\ s.id = i
    BY <1>2 DEF Step
  <2>2. SemanticContinue(l, s) = Propagated(l, i)
    BY <2>1 DEF SemanticContinue
  <2>. QED BY <1>2, <2>2, PropagatedBears
<1>3. CASE s.what = "pair" /\ s.id[2] /\ s.id[1][1] = l[i].id[1] /\ s.id[1][2] = l[i].id[2]
  <2>1. SemanticContinue(l, s) = Pair(l, s.id[1][1], s.id[1][2], s.id[2], s.id[3], s.id[4], TRUE)
    BY <1>3 DEF SemanticContinue
  <2>2. SemanticContinue(l, s) = CompletePair(l, l[i].id[1], l[i].id[2], TRUE)
    BY <1>3, <2>1 DEF Pair
  <2>. QED BY <2>2, CompleteBears
<1>4. CASE s.what = "discovery" /\ s.id[2] /\ t = "item" /\ l[i].id[1] = "" /\ s.id[1] = l[i].id[2]
  <2>1. SemanticContinue(l, s) = Pair(l, "", s.id[1], s.id[2], FALSE, s.id[3], FALSE)
    BY <1>4, Zenon DEF SemanticContinue
  <2>2. SemanticContinue(l, s) = CompletePair(l, l[i].id[1], l[i].id[2], FALSE)
    BY <1>4, <2>1, Zenon DEF Pair
  <2>. QED BY <1>4, <2>2, CompleteBears, Zenon
<1>. QED BY <1>1, <1>2, <1>3, <1>4, Zenon DEF Bears

(* What passes over the changes start from bears every one of them.        *)
LEMMA JoinedBears ==
  ASSUME NEW l, NEW i, NEW t, NEW q, IsSeq(q), NEW r, IsSeq(r), Borne(l, i, t, q) \/ Borne(l, i, t, r)
  PROVE  Borne(l, i, t, q \o r)
<1> DEFINE w == q \o r
<1>1. /\ Len(w) = Len(q) + Len(r) /\ Len(q) \in Nat /\ Len(r) \in Nat
      /\ \A n \in 1 .. Len(q) : w[n] = q[n]
      /\ \A n \in 1 .. Len(r) : w[Len(q) + n] = r[n]
  BY Concatenated, SeqFacts
<1> HIDE DEF w
<1>2. CASE Borne(l, i, t, q)
  <2>1. PICK n \in 1 .. Len(q) : Bears(l, i, t, q[n])
    BY <1>2 DEF Borne
  <2>2. n \in 1 .. Len(w) /\ w[n] = q[n]
    BY <1>1
  <2>. QED BY <2>1, <2>2 DEF Borne, w
<1>3. CASE Borne(l, i, t, r)
  <2>1. PICK n \in 1 .. Len(r) : Bears(l, i, t, r[n])
    BY <1>3 DEF Borne
  <2>2. Len(q) + n \in 1 .. Len(w) /\ w[Len(q) + n] = r[n]
    BY <1>1
  <2>3. Bears(l, i, t, w[Len(q) + n])
    BY <2>1, <2>2
  <2>. QED BY <2>2, <2>3 DEF Borne, w
<1>. QED BY <1>2, <1>3

LEMMA WatchedBears ==
  ASSUME NEW l, Lawful(l), NEW i, NEW t, Owes(l, i, t), NEW j \in DOMAIN l, l[j].type = "fabric change", l[j].failed = FALSE,
         Known(l, "manifestation", l[j].id[2]), l[j].id = <<l[i].id[1], l[i].id[2]>>
  PROVE  Borne(l, i, t, ProcessFabricChanges(l, {}))
<1> DEFINE at == {n \in DOMAIN l : l[n].type = "fabric change" /\ l[n].failed = FALSE /\ Known(l, "manifestation", l[n].id[2])}
           all == Only(l, at)
           Again(n) == all[n].id \in Interpreted(l) \/ \E k \in 1 .. n - 1 : all[k].id = all[n].id
           Held(n) == Known(l, "manifestation", all[n].id[1])
           g == [n \in DOMAIN all |-> Step("pair", <<all[n].id, Again(n), Held(n), {}>>)]
<1>1. ProcessFabricChanges(l, {}) = g
  BY Zenon DEF ProcessFabricChanges
<1>2. IsSeq(l)
  BY Zenon DEF Lawful
<1>3. j \in at
  BY Zenon
<1> HIDE DEF at
<1>4. IsSeq(all)
  BY <1>2, OnlyKeeps, Zenon
<1>5. PICK n \in DOMAIN all : all[n] = l[j]
  BY <1>2, <1>3, OnlyAll, Zenon
<1> HIDE DEF all
<1>6. l[j].id \in Interpreted(l)
  BY Zenon DEF Interpreted, Owes
<1>7. Again(n) /\ all[n].id = <<l[i].id[1], l[i].id[2]>>
  BY <1>5, <1>6, Zenon
<1>8. g = [k \in DOMAIN all |-> g[k]] /\ g[n] = Step("pair", <<all[n].id, Again(n), Held(n), {}>>)
  BY Zenon
<1> HIDE DEF Again, Held, g
<1>9. Bears(l, i, t, g[n])
  <2> DEFINE id == all[n].id  p == l[i].id[1]  m == l[i].id[2]  x == <<id, Again(n), Held(n), {}>>
  <2>1. x[1] = id /\ (x[2] <=> Again(n))
    BY <1>7, Zenon
  <2>0. id = <<p, m>>
    BY <1>7, Zenon
  <2> HIDE DEF x, id, p, m
  <2>2. id[1] = p /\ id[2] = m
    BY <2>0, Zenon
  <2>3. x[2] /\ x[1][1] = l[i].id[1] /\ x[1][2] = l[i].id[2]
    BY <1>7, <2>1, <2>2, Zenon DEF p, m
  <2>4. Step("pair", x).type = "step" /\ Step("pair", x).what = "pair" /\ Step("pair", x).id = x
    BY Zenon DEF Step
  <2>5. g[n] = Step("pair", x)
    BY <1>8, Zenon DEF x, id
  <2>. QED BY <2>3, <2>4, <2>5, Zenon DEF Bears
<1>10. n \in 1 .. Len(g)
  BY <1>4, <1>5, <1>8, Mapped, SeqFacts, Zenon
<1>. QED BY <1>1, <1>9, <1>10, Zenon DEF Borne

LEMMA HistoryListed ==
  ASSUME NEW l, Lawful(l)
  PROVE  \A m : Known(l, "manifestation", m) /\ Readings[m].historical =>
           \E n \in 1 .. Len(InterpretDiscoveries(l, {})) :
             InterpretDiscoveries(l, {})[n] = Step("discovery", <<m, <<"", m>> \in Interpreted(l), {}>>)
<1> DEFINE came == Arrived(l)
           at  == {n \in DOMAIN came : Readings[came[n]].historical}
           all == Only(came, at)
           One(m) == Step("discovery", <<m, <<"", m>> \in Interpreted(l), {}>>)
           g == [n \in DOMAIN all |-> One(all[n])]
<1>1. InterpretDiscoveries(l, {}) = g
  BY DEF InterpretDiscoveries
<1>2. IsSeq(came) /\ \A m : Known(l, "manifestation", m) => \E n \in DOMAIN came : came[n] = m
  BY ArrivedFacts
<1>3. \A j \in DOMAIN came : Readings[came[j]].historical => j \in at
  OBVIOUS
<1> HIDE DEF came, at
<1>4. IsSeq(all) /\ \A j \in DOMAIN came : j \in at => \E n \in DOMAIN all : all[n] = came[j]
  BY <1>2, OnlyKeeps, OnlyAll
<1> HIDE DEF all, One
<1>5. g = [n \in DOMAIN all |-> g[n]] /\ \A n \in DOMAIN all : g[n] = One(all[n])
  OBVIOUS
<1> HIDE DEF g
<1>6. DOMAIN all = 1 .. Len(g)
  BY <1>4, <1>5, Mapped, SeqFacts
<1>7. ASSUME NEW m, Known(l, "manifestation", m), Readings[m].historical PROVE \E n \in 1 .. Len(g) : g[n] = One(m)
  <2>1. PICK j \in DOMAIN came : came[j] = m
    BY <1>2, <1>7
  <2>2. PICK n \in DOMAIN all : all[n] = m
    BY <1>3, <1>4, <1>7, <2>1
  <2>. QED BY <1>5, <1>6, <2>2, Zenon
<1>. QED BY <1>1, <1>7, Zenon DEF One

LEMMA DiscoveredBears ==
  ASSUME NEW l, Lawful(l), NEW i, Owes(l, i, "item"), NEW m, l[i].id[1] = "", l[i].id[2] = m, Readings[m].historical,
         Known(l, "manifestation", m)
  PROVE  Borne(l, i, "item", InterpretDiscoveries(l, {}))
<1> DEFINE q == InterpretDiscoveries(l, {})  Again == <<"", m>> \in Interpreted(l)  x == <<m, Again, {}>>
<1>1. PICK n \in 1 .. Len(q) : q[n] = Step("discovery", x)
  BY HistoryListed, Zenon
<1> HIDE DEF q
<1>2. Again
  <2>1. i \in DOMAIN l /\ l[i].type = "change"
    BY Zenon DEF Owes
  <2>. QED BY <2>1, Zenon DEF Interpreted
<1> HIDE DEF Again
<1>3. x[1] = m /\ (x[2] <=> Again)
  BY <1>2, Zenon
<1> HIDE DEF x
<1>4. Step("discovery", x).type = "step" /\ Step("discovery", x).what = "discovery" /\ Step("discovery", x).id = x
  BY Zenon DEF Step
<1>5. x[2]
  BY <1>2, <1>3, Zenon
<1>6. Bears(l, i, "item", q[n])
  BY <1>1, <1>3, <1>4, <1>5, Zenon DEF Bears
<1>. QED BY <1>6, Zenon DEF Borne, q

LEMMA PassesBear ==
  ASSUME NEW l, Lawful(l), NEW i, NEW t, Owes(l, i, t)
  PROVE  Borne(l, i, t, ProcessFabricChanges(l, {}) \o InterpretDiscoveries(l, {}))
<1> DEFINE q == ProcessFabricChanges(l, {})  r == InterpretDiscoveries(l, {})
<1>1. IsSeq(q) /\ IsSeq(r)
  BY MonitorFree, DiscoveriesFree DEF Free
<1>2. i \in DOMAIN l /\ l[i].type = "change" /\ t \in {"item", "alert"} /\ (t = "alert" => l[i].id[1] # "")
  BY Zenon DEF Owes
<1>3. Origin(l, l[i].id[1], l[i].id[2])
  BY <1>2, ChangeSound, Zenon DEF Shows
<1>4. CASE l[i].id[1] = "" /\ Readings[l[i].id[2]].historical /\ Known(l, "manifestation", l[i].id[2])
  <2>1. t = "item"
    BY <1>2, <1>4, Zenon
  <2>2. Borne(l, i, t, r)
    BY <1>4, <2>1, DiscoveredBears, Zenon
  <2>. QED BY <1>1, <2>2, JoinedBears
<1>5. CASE \E j \in DOMAIN l : /\ l[j].type = "fabric change" /\ l[j].failed = FALSE /\ Known(l, "manifestation", l[i].id[2])
                               /\ l[j].id = <<l[i].id[1], l[i].id[2]>>
  <2>1. PICK j \in DOMAIN l : /\ l[j].type = "fabric change" /\ l[j].failed = FALSE /\ Known(l, "manifestation", l[i].id[2])
                              /\ l[j].id = <<l[i].id[1], l[i].id[2]>>
    BY <1>5, Zenon
  <2>2. l[j].id[2] = l[i].id[2]
    <3> DEFINE p == l[i].id[1]  m == l[i].id[2]
    <3>1. l[j].id = <<p, m>>
      BY <2>1, Zenon
    <3> HIDE DEF p, m
    <3>2. l[j].id[2] = m
      BY <3>1
    <3>. QED BY <3>2 DEF m
  <2>3. Borne(l, i, t, q)
    BY <2>1, <2>2, WatchedBears, Zenon
  <2>. QED BY <1>1, <2>3, JoinedBears
<1>. QED BY <1>3, <1>4, <1>5, Zenon DEF Origin

(* One bearer is left, however many steps are taken. *)
Promised(l, b, n, q) == Owing(l, b, n, q) /\ Borne(l, b[3], b[4], q)

LEMMA ResumedBears ==
  ASSUME NEW l, Lawful(l), NEW i, NEW t, Owes(l, i, t), NEW q, Owed(SemanticSteps, l, q), Borne(l, i, t, q),
         q # <<>>, Head(q).type = "step"
  PROVE  Borne(l, i, t, Settle(l, By("semantic", l, Head(q)) \o Tail(q)))
<1> DEFINE k == "semantic"  a == By(k, l, Head(q))  r == Tail(q)
<1>1. StepsOf(k) = SemanticSteps /\ k \in Planes /\ a = SemanticContinue(l, Head(q))
  BY DEF StepsOf, Planes, By
<1>2. IsSeq(q) /\ IsSeq(l)
  BY DEF Owed, Queue, Lawful
<1>3. Head(q) = q[1] /\ Len(q) \in Nat /\ IsSeq(r) /\ Len(r) = Len(q) - 1 /\ \A n \in 1 .. Len(q) - 1 : r[n] = q[n + 1]
  BY <1>2, HeadAndTail, SeqFacts
<1>4. Draft(SemanticSteps, l, a \o r)
  BY <1>1, ResumedDraft
<1>5. IsSeq(a)
  <2>1. Sound(l, {}, q[1]) /\ q[1].what \in SemanticSteps
    BY <1>2, <1>3, StepTail
  <2>2. Draft(SemanticSteps, l, a)
    BY <1>1, <1>3, <2>1, StepDraft
  <2>. QED BY <2>2 DEF Draft, Queue
<1> HIDE DEF a, r
<1>6. Borne(l, i, t, a) \/ Borne(l, i, t, r)
  <2>1. PICK n \in 1 .. Len(q) : Bears(l, i, t, q[n])
    BY DEF Borne
  <2>2. CASE n = 1
    <3>1. Bears(l, i, t, Head(q))
      BY <1>3, <2>1, <2>2
    <3>. QED BY <1>1, <3>1, StepBears
  <2>3. CASE n # 1
    <3>1. n - 1 \in 1 .. Len(r) /\ (n - 1) + 1 = n /\ n - 1 \in 1 .. Len(q) - 1
      BY <1>3, <2>3
    <3>2. r[n - 1] = q[n]
      BY <1>3, <3>1
    <3>3. Bears(l, i, t, r[n - 1])
      BY <2>1, <3>2
    <3>. QED BY <3>1, <3>3 DEF Borne
  <2>. QED BY <2>2, <2>3
<1>7. Borne(l, i, t, a \o r)
  BY <1>3, <1>5, <1>6, JoinedBears
<1>8. Queue(SemanticSteps, l, a \o r)
  BY <1>4 DEF Draft
<1>9. Borne(l, i, t, Settle(l, a \o r))
  BY <1>2, <1>7, <1>8, SettleBears
<1>. QED BY <1>9 DEF a, r

LEMMA RunBears ==
  ASSUME NEW l, Lawful(l), NEW d, Draft(SemanticSteps, l, d), NEW i, NEW t, Owes(l, i, t), Borne(l, i, t, d)
  PROVE  Ahead(SemanticContinue, l, d) # <<>>
<1> DEFINE k == "semantic"  b == <<k, d, i, t>>
<1>1. b[1] = k /\ b[2] = d /\ b[3] = i /\ b[4] = t
  OBVIOUS
<1>2. Ahead(SemanticContinue, l, d) = Run("ahead", l, b, MaxSteps)
  BY DEF Ahead, Run, First, Following, Opened, Resumed, By
<1> HIDE DEF b
<1>3. IsSeq(l) /\ MaxSteps \in Nat /\ k \in Planes /\ StepsOf(k) = SemanticSteps
  BY VersionedLogAssumption DEF Lawful, Planes, StepsOf
<1>4. Promised(l, b, 0, Opened(l, b))
  <2>1. Owing(l, b, 0, Opened(l, b))
    BY <1>1, <1>3, SettleOwed DEF Owing, Opened
  <2>2. Queue(SemanticSteps, l, d)
    BY DEF Draft
  <2>3. Borne(l, i, t, Settle(l, d))
    BY <1>3, <2>2, SettleBears
  <2>. QED BY <1>1, <2>1, <2>3 DEF Promised, Opened
<1>5. ASSUME NEW n \in 1 .. MaxSteps, NEW q, Promised(l, b, n - 1, q) PROVE Promised(l, b, n, Resumed(l, b, n, q))
  <2>1. Owing(l, b, n - 1, q) /\ Borne(l, i, t, q)
    BY <1>1, <1>5 DEF Promised
  <2>2. Owing(l, b, n, Resumed(l, b, n, q))
    BY <1>1, <1>3, <2>1, ResumedOwing
  <2>3. CASE q # <<>> /\ Head(q).type = "step"
    <3>1. Resumed(l, b, n, q) = Settle(l, By(k, l, Head(q)) \o Tail(q))
      BY <1>1, <2>3 DEF Resumed
    <3>2. Owed(SemanticSteps, l, q)
      BY <1>1, <1>3, <2>1 DEF Owing
    <3>3. Borne(l, i, t, Settle(l, By("semantic", l, Head(q)) \o Tail(q)))
      BY <2>1, <2>3, <3>2, ResumedBears
    <3>. QED BY <1>1, <2>2, <3>1, <3>3 DEF Promised
  <2>4. CASE ~(q # <<>> /\ Head(q).type = "step")
    <3>1. Resumed(l, b, n, q) = q
      BY <2>4 DEF Resumed
    <3>. QED BY <1>1, <2>1, <2>2, <3>1 DEF Promised
  <2>. QED BY <2>3, <2>4
<1>6. Promised(l, b, MaxSteps, Run("ahead", l, b, MaxSteps))
  <2>1. PICK f : Goes("ahead", l, b, MaxSteps, f)
    BY <1>3, RunGoes
  <2> DEFINE G == {n \in 0 .. MaxSteps : Promised(l, b, n, f[n])}
  <2>2. 0 \in G
    BY <1>3, <1>4, <2>1 DEF Goes, First
  <2>3. ASSUME NEW n \in 1 .. MaxSteps, n - 1 \in G PROVE n \in G
    BY <1>5, <1>3, <2>1, <2>3 DEF Goes, Following
  <2> HIDE DEF G
  <2>4. MaxSteps \in G
    BY <1>3, <2>2, <2>3, UpTo
  <2>. QED BY <2>1, <2>4 DEF Goes, G
<1> DEFINE q == Run("ahead", l, b, MaxSteps)
<1> HIDE DEF q
<1>7. \E n \in 1 .. Len(q) : Bears(l, i, t, q[n])
  BY <1>1, <1>6 DEF Promised, Borne, q
<1>8. q # <<>>
  <2>1. Len(<<>>) = 0
    OBVIOUS
  <2>. QED BY <1>7, <2>1
<1>. QED BY <1>2, <1>8 DEF q

LEMMA LawfulChanges == ASSUME Lawful(log) PROVE ChangesArrive
<1> DEFINE d == ProcessFabricChanges(log, {}) \o InterpretDiscoveries(log, {})
<1>1. Free(SemanticSteps, log, d)
  BY MonitorFree, DiscoveriesFree, FreeJoined
<1>2. IsSeq(log)
  BY DEF Lawful
<1>3. Draft(SemanticSteps, log, d)
  BY <1>1, <1>2, FreeDraft
<1>4. ASSUME NothingToDo(d), NEW i, NEW t, Owes(log, i, t) PROVE FALSE
  <2>1. Borne(log, i, t, d)
    BY <1>4, PassesBear
  <2>2. Ahead(SemanticContinue, log, d) # <<>>
    BY <1>3, <1>4, <2>1, RunBears
  <2>. QED BY <1>4, <2>2 DEF NothingToDo
<1> HIDE DEF d
<1>5. ASSUME NothingToDo(d), NEW i \in Of("change")
      PROVE  /\ log[i].id[3] \in DOMAIN StateFor => \A k \in log[i].claims : Known(log, "item", <<"change", k, log[i].id>>)
             /\ log[i].id[1] # "" /\ log[i].id[3] # "SEMANTICALLY_UNCHANGED" => Known(log, "alert", <<"semantic", log[i].id>>)
  <2>1. i \in DOMAIN log /\ log[i].type = "change"
    BY <1>2, SeqFacts DEF Of
  <2>2. log[i].claims \subseteq {log[i].id[4]}
    BY <2>1, ChangeSound
  <2>3. ASSUME log[i].id[3] \in DOMAIN StateFor, NEW k \in log[i].claims PROVE Known(log, "item", <<"change", k, log[i].id>>)
    <3>1. k = log[i].id[4]
      BY <2>2, <2>3
    <3>2. Due(log[i].id, "item") = <<"change", k, log[i].id>>
      BY <3>1 DEF Due
    <3>3. ~Owes(log, i, "item")
      BY <1>4, <1>5
    <3>. QED BY <2>1, <2>3, <3>1, <3>2, <3>3 DEF Owes
  <2>4. ASSUME log[i].id[1] # "", log[i].id[3] # "SEMANTICALLY_UNCHANGED" PROVE Known(log, "alert", <<"semantic", log[i].id>>)
    <3>1. Due(log[i].id, "alert") = <<"semantic", log[i].id>>
      BY DEF Due
    <3>2. ~Owes(log, i, "alert")
      BY <1>4, <1>5
    <3>. QED BY <2>1, <2>4, <3>1, <3>2, Zenon DEF Owes, IsAlerted
  <2>. QED BY <2>3, <2>4, Zenon
<1>. QED BY <1>5, Zenon DEF ChangesArrive, d

-----------------------------------------------------------------------------
(* Whatever is cut off, nothing names what is not there. *)
THEOREM LineageAlwaysHolds == FabricSpec => []LineageHolds
<1>1. IInv => LineageHolds
  BY LawfulLineage DEF IInv
<1>. QED BY <1>1, WorldIsLawful, PTL

(* The machine takes back what people have to decide only on what was on   *)
(* record before, and holds two objects to be the same only when a person  *)
(* has accepted it.                                                        *)
THEOREM PeopleAlwaysDecide == FabricSpec => []PeopleDecide
<1>1. IInv => PeopleDecide
  BY LawfulPeople DEF IInv
<1>. QED BY <1>1, WorldIsLawful, PTL

(* Beside no other command, the machine takes back nothing that people     *)
(* have to decide.                                                         *)
THEOREM NothingIsStampedAlone ==
  ASSUME \A c, d \in Calls : c = d
  PROVE  FabricSpec => []NothingIsStamped
<1>1. IInv => NothingIsStamped
  <2>1. OnlyOne
    BY DEF OnlyOne
  <2>. QED BY <2>1, FreshPeople DEF IInv, Undisturbed
<1>. QED BY <1>1, WorldIsLawful, PTL

(* A claim takes another value only from a later state of a publisher it   *)
(* rests on, and cut content shows no removal.                             *)
THEOREM OnlyEvidenceEverMoves == FabricSpec => []OnlyEvidenceMoves
<1>1. IInv => OnlyEvidenceMoves
  BY LawfulEvidence DEF IInv
<1>. QED BY <1>1, WorldIsLawful, PTL

(* Support rests on two publishers, and an answer on another one.          *)
THEOREM AnswersAreAlwaysIndependent == FabricSpec => []AnswersAreIndependent
<1>1. IInv => AnswersAreIndependent
  BY LawfulAnswers DEF IInv
<1>. QED BY <1>1, WorldIsLawful, PTL

(* A pass that has nothing to do has brought every change before people.   *)
THEOREM ChangesAlwaysArrive == FabricSpec => []ChangesArrive
<1>1. IInv => ChangesArrive
  BY LawfulChanges DEF IInv
<1>. QED BY <1>1, WorldIsLawful, PTL
=============================================================================
