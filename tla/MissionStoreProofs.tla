------------------------- MODULE MissionStoreProofs -------------------------
(***************************************************************************)
(* The mission store keeps its log valid and loses nothing it              *)
(* acknowledged, for any number of handles, ids and events.                *)
(*                                                                         *)
(* The argument: the handle that holds the lock has read the whole file    *)
(* (HolderIsCurrent), what it staged passed the reader's checks on top of  *)
(* what it read (StagedLoads), so what it writes leaves a valid log; the   *)
(* copies of the others stay prefixes (CopiesArePrefixes), so catching up  *)
(* gives them the file.  IInv is the conjunction.                          *)
(***************************************************************************)
EXTENDS MissionStore, Integers, SequenceTheorems, WellFoundedInduction, TLAPS

(***************************************************************************)
(* What validity of a log implies, for logs of any length.                 *)
(*                                                                         *)
(* Valid speaks of one line and the lines before it.  The facts a reader   *)
(* cares about relate any two lines, so they are obtained by looking at    *)
(* the smallest position at which they would fail.                         *)
(***************************************************************************)

(* A non-empty set of naturals has a least element. *)
LEMMA NatMin ==
  ASSUME NEW T, T \subseteq Nat, T # {}
  PROVE  \E m \in T : \A n \in T : m <= n
<1> DEFINE R == {ss \in Nat \X Nat : ss[1] < ss[2]}
<1>1. IsWellFoundedOn(R, Nat)
  BY NatLessThanWellFounded DEF OpToRel
<1>2. PICK m \in T : \A n \in T : ~ (<<n, m>> \in R)
  BY <1>1, WFMin, Zenon
<1>3. \A x, y \in Nat : x < y => <<x, y>> \in R
  OBVIOUS
<1>4. \A n \in T : ~ (n < m)
  BY <1>2, <1>3
<1>. QED BY <1>4

(* Max is what it should be on a non-empty set of positions. *)
LEMMA MaxPosition ==
  ASSUME NEW n \in Nat, NEW T, T \subseteq 1 .. n, T # {}
  PROVE  Max(T) \in T /\ \A x \in T : x <= Max(T)
<1> DEFINE D == {n - x : x \in T}
<1>1. D \subseteq Nat /\ D # {}
  OBVIOUS
<1>2. PICK d \in D : \A e \in D : d <= e
  BY <1>1, NatMin
<1>3. PICK x \in T : d = n - x
  OBVIOUS
<1>4. ASSUME NEW y \in T PROVE x >= y
  <2>1. n - y \in D
    OBVIOUS
  <2>2. n - x <= n - y
    BY <1>2, <1>3, <2>1
  <2>. QED BY <2>2
<1>5. \E z \in T : \A y \in T : z >= y
  BY <1>4
<1>. QED BY <1>5 DEF Max

-----------------------------------------------------------------------------
(* Prefixes.                                                               *)

LEMMA PrefixType ==
  ASSUME NEW S, NEW log \in Seq(S), NEW n \in 0 .. Len(log)
  PROVE  /\ SubSeq(log, 1, n) \in Seq(S)
         /\ Len(SubSeq(log, 1, n)) = n
         /\ \A i \in 1 .. n : SubSeq(log, 1, n)[i] = log[i]
BY SubSeqProperties, ElementOfSeq

LEMMA PrefixOfPrefix ==
  ASSUME NEW S, NEW log \in Seq(S), NEW n \in 0 .. Len(log), NEW m \in 0 .. n
  PROVE  SubSeq(SubSeq(log, 1, n), 1, m) = SubSeq(log, 1, m)
<1>1. /\ SubSeq(log, 1, n) \in Seq(S) /\ Len(SubSeq(log, 1, n)) = n
      /\ \A i \in 1 .. n : SubSeq(log, 1, n)[i] = log[i]
  BY PrefixType
<1>2. /\ SubSeq(SubSeq(log, 1, n), 1, m) \in Seq(S)
      /\ Len(SubSeq(SubSeq(log, 1, n), 1, m)) = m
      /\ \A i \in 1 .. m : SubSeq(SubSeq(log, 1, n), 1, m)[i] = SubSeq(log, 1, n)[i]
  BY <1>1, PrefixType
<1>3. /\ SubSeq(log, 1, m) \in Seq(S) /\ Len(SubSeq(log, 1, m)) = m
      /\ \A i \in 1 .. m : SubSeq(log, 1, m)[i] = log[i]
  BY PrefixType
<1>. QED BY <1>1, <1>2, <1>3, SeqEqual

LEMMA PrefixOfConcat ==
  ASSUME NEW S, NEW log \in Seq(S), NEW s \in Seq(S), NEW n \in 0 .. Len(log)
  PROVE  SubSeq(log \o s, 1, n) = SubSeq(log, 1, n)
<1>1. /\ log \o s \in Seq(S) /\ Len(log \o s) = Len(log) + Len(s)
      /\ \A i \in 1 .. Len(log) : (log \o s)[i] = log[i]
  BY ConcatProperties
<1>2. /\ SubSeq(log \o s, 1, n) \in Seq(S) /\ Len(SubSeq(log \o s, 1, n)) = n
      /\ \A i \in 1 .. n : SubSeq(log \o s, 1, n)[i] = (log \o s)[i]
  BY <1>1, PrefixType
<1>3. /\ SubSeq(log, 1, n) \in Seq(S) /\ Len(SubSeq(log, 1, n)) = n
      /\ \A i \in 1 .. n : SubSeq(log, 1, n)[i] = log[i]
  BY PrefixType
<1>. QED BY <1>1, <1>2, <1>3, SeqEqual

LEMMA PrefixExtends ==
  ASSUME NEW S, NEW log \in Seq(S), NEW s \in Seq(S)
  PROVE  IsPrefix(log, log \o s)
<1>1. SubSeq(log \o s, 1, Len(log)) = SubSeq(log, 1, Len(log))
  BY PrefixOfConcat
<1>. QED BY <1>1, ConcatProperties DEF IsPrefix

(* Catching up: the part of a log already read, then the rest of it. *)
LEMMA PrefixCompleted ==
  ASSUME NEW S, NEW log \in Seq(S), NEW v \in Seq(S), IsPrefix(v, log)
  PROVE  v \o SubSeq(log, Len(v) + 1, Len(log)) = log
<1>1. v = SubSeq(log, 1, Len(v)) /\ Len(v) <= Len(log)
  BY SubSeqFull DEF IsPrefix
<1>2. /\ 1 \in 1 .. Len(log) + 1 /\ Len(v) \in 1 - 1 .. Len(log) /\ Len(log) \in Len(v) .. Len(log)
  BY <1>1, LenProperties
<1>3. SubSeq(log, 1, Len(v)) \o SubSeq(log, Len(v) + 1, Len(log)) = SubSeq(log, 1, Len(log))
  BY <1>2, ConcatAdjacentSubSeq
<1>. QED BY <1>1, <1>3, SubSeqFull

LEMMA PrefixSelf ==
  ASSUME NEW S, NEW log \in Seq(S)
  PROVE  IsPrefix(log, log) /\ IsPrefix(<<>>, log)
<1>1. Len(log) \in Nat /\ Len(<<>>) = 0
  BY LenProperties
<1>2. SubSeq(log, 1, 0) = <<>> /\ SubSeq(<<>>, 1, 0) = <<>>
  BY SubSeqEmpty
<1>. QED BY <1>1, <1>2 DEF IsPrefix

LEMMA PrefixStays ==
  ASSUME NEW S, NEW v \in Seq(S), NEW log \in Seq(S), NEW s \in Seq(S), IsPrefix(v, log)
  PROVE  IsPrefix(v, log \o s)
<1>1. Len(v) \in 0 .. Len(log) /\ Len(log \o s) = Len(log) + Len(s) /\ Len(s) \in Nat
  BY ConcatProperties, LenProperties DEF IsPrefix
<1>2. SubSeq(log \o s, 1, Len(v)) = SubSeq(log, 1, Len(v))
  BY <1>1, PrefixOfConcat
<1>. QED BY <1>1, <1>2, LenProperties DEF IsPrefix

LEMMA PrefixIsSubSeq ==
  ASSUME NEW S, NEW log \in Seq(S), NEW m \in 0 .. Len(log), NEW n \in m .. Len(log)
  PROVE  IsPrefix(SubSeq(log, 1, m), SubSeq(log, 1, n))
<1>1. n \in 0 .. Len(log) /\ m \in 0 .. n
  BY LenProperties
<1>2. /\ Len(SubSeq(log, 1, m)) = m /\ Len(SubSeq(log, 1, n)) = n
      /\ SubSeq(log, 1, m) \in Seq(S)
  BY <1>1, PrefixType
<1>3. SubSeq(SubSeq(log, 1, n), 1, m) = SubSeq(log, 1, m)
  BY <1>1, PrefixOfPrefix
<1>4. SubSeq(SubSeq(log, 1, m), 1, m) = SubSeq(log, 1, m)
  BY <1>2, SubSeqFull
<1>. QED BY <1>1, <1>2, <1>3, <1>4 DEF IsPrefix

-----------------------------------------------------------------------------
(* Validity is kept by prefixes and by accepted suffixes.                  *)

LEMMA ValidPrefix ==
  ASSUME NEW log \in Seq(Event), NEW n \in 0 .. Len(log), Valid(log)
  PROVE  Valid(SubSeq(log, 1, n))
<1>1. Len(SubSeq(log, 1, n)) = n /\ \A i \in 1 .. n : SubSeq(log, 1, n)[i] = log[i]
  BY PrefixType
<1>2. \A k \in 1 .. n : SubSeq(SubSeq(log, 1, n), 1, k - 1) = SubSeq(log, 1, k - 1)
  BY PrefixOfPrefix
<1>3. \A k \in 1 .. n : Follows(SubSeq(log, 1, k - 1), log[k])
  BY DEF Valid, LoadsFrom
<1>4. ASSUME NEW k \in 1 .. n
      PROVE  Follows(SubSeq(SubSeq(log, 1, n), 1, k - 1), SubSeq(log, 1, n)[k])
  <2>1. SubSeq(SubSeq(log, 1, n), 1, k - 1) = SubSeq(log, 1, k - 1)
    BY <1>2
  <2>2. SubSeq(log, 1, n)[k] = log[k]
    BY <1>1
  <2>3. Follows(SubSeq(log, 1, k - 1), log[k])
    BY <1>3
  <2>. QED BY <2>1, <2>2, <2>3
<1>5. \A k \in 0 + 1 .. Len(SubSeq(log, 1, n)) :
        Follows(SubSeq(SubSeq(log, 1, n), 1, k - 1), SubSeq(log, 1, n)[k])
  BY <1>1, <1>4
<1>. QED BY <1>5 DEF Valid, LoadsFrom

LEMMA ValidExtension ==
  ASSUME NEW log \in Seq(Event), NEW s \in Seq(Event),
         Valid(log), LoadsFrom(log \o s, Len(log))
  PROVE  Valid(log \o s)
<1>1. SUFFICES ASSUME NEW k \in 1 .. Len(log \o s)
               PROVE  Follows(SubSeq(log \o s, 1, k - 1), (log \o s)[k])
  BY DEF Valid, LoadsFrom
<1>2. Len(log \o s) = Len(log) + Len(s) /\ \A i \in 1 .. Len(log) : (log \o s)[i] = log[i]
  BY ConcatProperties
<1>3. CASE k <= Len(log)
  <2>1. SubSeq(log \o s, 1, k - 1) = SubSeq(log, 1, k - 1)
    <3>1. k - 1 \in 0 .. Len(log)
      BY <1>2, <1>3
    <3>. QED BY <3>1, PrefixOfConcat
  <2>2. Follows(SubSeq(log, 1, k - 1), log[k])
    BY <1>2, <1>3 DEF Valid, LoadsFrom
  <2>3. (log \o s)[k] = log[k]
    BY <1>2, <1>3
  <2>. QED BY <2>1, <2>2, <2>3
<1>4. CASE k > Len(log)
  BY <1>2, <1>4 DEF LoadsFrom
<1>. QED BY <1>2, <1>3, <1>4

(* One admitted event is a suffix that loads. *)
LEMMA LoadsOne ==
  ASSUME NEW log \in Seq(Event), NEW e \in Event, Follows(log, e)
  PROVE  LoadsFrom(log \o <<e>>, Len(log))
<1>1. <<e>> \in Seq(Event) /\ Len(<<e>>) = 1
  OBVIOUS
<1>2. Len(log \o <<e>>) = Len(log) + 1 /\ (log \o <<e>>)[Len(log) + 1] = e
  BY <1>1, ConcatProperties
<1>3. SubSeq(log \o <<e>>, 1, Len(log)) = log
  BY <1>1, PrefixOfConcat, SubSeqFull
<1>4. ASSUME NEW k \in Len(log) + 1 .. Len(log \o <<e>>)
      PROVE  Follows(SubSeq(log \o <<e>>, 1, k - 1), (log \o <<e>>)[k])
  <2>1. k = Len(log) + 1 /\ k - 1 = Len(log)
    BY <1>2
  <2>2. SubSeq(log \o <<e>>, 1, k - 1) = log /\ (log \o <<e>>)[k] = e
    BY <1>2, <1>3, <2>1
  <2>. QED BY <2>2
<1>. QED BY <1>4 DEF LoadsFrom
-----------------------------------------------------------------------------
(* What validity says of any two lines.                                    *)

(* The checks line k passed, stated on the log itself. *)
LEMMA LineFollows ==
  ASSUME NEW log \in Seq(Event), Valid(log), NEW k \in 1 .. Len(log)
  PROVE  /\ log[k].prev = Bodies(SubSeq(log, 1, k - 1))
         /\ InTime(SubSeq(log, 1, k - 1), log[k].body)
         /\ Progresses(SubSeq(log, 1, k - 1), log[k].body)
BY DEF Valid, LoadsFrom, Follows

LEMMA LineType ==
  ASSUME NEW log \in Seq(Event), NEW k \in 1 .. Len(log)
  PROVE  /\ log[k] \in Event
         /\ log[k].body \in Body
         /\ log[k].body.kind \in Kinds
         /\ log[k].body.version \in Nat
         /\ log[k].body.time \in Nat
<1>1. log[k] \in Event
  BY ElementOfSeq
<1>2. log[k].body \in Body
  BY <1>1 DEF Event
<1>. QED BY <1>1, <1>2 DEF Body

LEMMA AtPrefix ==
  ASSUME NEW log \in Seq(Event), NEW n \in 0 .. Len(log), NEW kind, NEW id
  PROVE  /\ At(SubSeq(log, 1, n), kind, id)
              = {i \in 1 .. n : log[i].body.kind = kind /\ log[i].body.id = id}
         /\ At(SubSeq(log, 1, n), kind, id) \subseteq 1 .. n
BY PrefixType DEF At

(* recorded_time: each line is not older than the one before it, so none   *)
(* is older than any before it.                                            *)
LEMMA ValidIsOrdered ==
  ASSUME NEW log \in Seq(Event), Valid(log)
  PROVE  RecordedInOrder(log)
<1> DEFINE Bad == {j \in 1 .. Len(log) : \E i \in 1 .. Len(log) :
                      i < j /\ ~ (log[i].body.time <= log[j].body.time)}
<1>1. SUFFICES ASSUME Bad # {} PROVE FALSE
  BY DEF RecordedInOrder
<1>2. PICK m \in Bad : \A n \in Bad : m <= n
  <2>1. Bad \subseteq Nat
    OBVIOUS
  <2>. QED BY <1>1, <2>1, NatMin
<1>3. PICK i \in 1 .. Len(log) : i < m /\ ~ (log[i].body.time <= log[m].body.time)
  BY <1>2
<1>4. m \in 2 .. Len(log) /\ m - 1 \in 1 .. Len(log)
  BY <1>3
<1>5. log[m - 1].body.time <= log[m].body.time
  <2>1. InTime(SubSeq(log, 1, m - 1), log[m].body)
    BY <1>4, LineFollows
  <2>2. /\ Len(SubSeq(log, 1, m - 1)) = m - 1
        /\ SubSeq(log, 1, m - 1)[m - 1] = log[m - 1]
    BY <1>4, PrefixType
  <2>3. SubSeq(log, 1, m - 1) # <<>>
    BY <2>2, <1>4
  <2>. QED BY <2>1, <2>2, <2>3 DEF InTime
<1>6. log[i].body.time <= log[m - 1].body.time
  <2>1. m - 1 \notin Bad
    BY <1>2, <1>4
  <2>2. CASE i = m - 1
    BY <2>2, LineType
  <2>3. CASE i < m - 1
    BY <1>4, <2>1, <2>3
  <2>. QED BY <1>3, <1>4, <2>2, <2>3
<1>7. /\ log[i].body.time \in Nat /\ log[m - 1].body.time \in Nat
      /\ log[m].body.time \in Nat
  BY <1>4, LineType
<1>. QED BY <1>3, <1>5, <1>6, <1>7

(* An idempotency key is ingested once. *)
LEMMA ValidIngestsOnce ==
  ASSUME NEW log \in Seq(Event), Valid(log)
  PROVE  OneIngestionPerKey(log)
<1>1. ASSUME NEW i \in 1 .. Len(log), NEW j \in 1 .. Len(log),
             i < j, SameRecord(log, "ingestion", i, j)
      PROVE  FALSE
  <2>1. j - 1 \in 0 .. Len(log) /\ i \in 1 .. j - 1
    BY <1>1
  <2>2. i \in At(SubSeq(log, 1, j - 1), "ingestion", log[j].body.id)
    BY <1>1, <2>1, AtPrefix DEF SameRecord
  <2>3. Progresses(SubSeq(log, 1, j - 1), log[j].body)
    BY LineFollows
  <2>4. log[j].body.kind = "ingestion"
    BY <1>1 DEF SameRecord
  <2>. QED BY <2>2, <2>3, <2>4 DEF Progresses, Ingested
<1>2. ASSUME NEW i \in 1 .. Len(log), NEW j \in 1 .. Len(log),
             SameRecord(log, "ingestion", i, j)
      PROVE  i = j
  <2>1. SameRecord(log, "ingestion", j, i)
    BY <1>2 DEF SameRecord
  <2>. QED BY <1>1, <1>2, <2>1
<1>. QED BY <1>2 DEF OneIngestionPerKey

(* The version of line j is one more than that of the latest earlier line  *)
(* of its record, or 1 when there is none.                                 *)
LEMMA VersionStep ==
  ASSUME NEW log \in Seq(Event), Valid(log),
         NEW j \in 1 .. Len(log), log[j].body.kind = "version"
  PROVE  \/ /\ log[j].body.version = 1
            /\ \A i \in 1 .. j - 1 : ~ SameRecord(log, "version", i, j)
         \/ \E p \in 1 .. j - 1 :
               /\ SameRecord(log, "version", p, j)
               /\ log[j].body.version = log[p].body.version + 1
               /\ \A i \in 1 .. j - 1 : SameRecord(log, "version", i, j) => i <= p
<1> DEFINE before == SubSeq(log, 1, j - 1)
           T == At(before, "version", log[j].body.id)
<1>1. j - 1 \in 0 .. Len(log) /\ j - 1 \in Nat
  OBVIOUS
<1>2. /\ T = {i \in 1 .. j - 1 : log[i].body.kind = "version" /\ log[i].body.id = log[j].body.id}
      /\ T \subseteq 1 .. j - 1
  BY <1>1, AtPrefix
<1>3. log[j].body.version = NextVersion(before, log[j].body.id)
  BY LineFollows DEF Progresses
<1>4. CASE T = {}
  BY <1>2, <1>3, <1>4 DEF NextVersion, SameRecord
<1>5. CASE T # {}
  <2>1. Max(T) \in T /\ \A x \in T : x <= Max(T)
    BY <1>1, <1>2, <1>5, MaxPosition
  <2>2. before[Max(T)] = log[Max(T)]
    BY <1>1, <1>2, <2>1, PrefixType
  <2>3. log[j].body.version = log[Max(T)].body.version + 1
    BY <1>3, <1>5, <2>2 DEF NextVersion
  <2>4. Max(T) \in 1 .. j - 1 /\ SameRecord(log, "version", Max(T), j)
    BY <1>2, <2>1 DEF SameRecord
  <2>5. \A i \in 1 .. j - 1 : SameRecord(log, "version", i, j) => i <= Max(T)
    BY <1>2, <2>1 DEF SameRecord
  <2>. QED BY <2>3, <2>4, <2>5
<1>. QED BY <1>4, <1>5

LEMMA ValidVersionsInOrder ==
  ASSUME NEW log \in Seq(Event), Valid(log)
  PROVE  VersionsInOrder(log)
<1> DEFINE Bad == {j \in 1 .. Len(log) : \E i \in 1 .. Len(log) :
                      /\ i < j /\ SameRecord(log, "version", i, j)
                      /\ ~ (log[i].body.version < log[j].body.version)}
<1>1. SUFFICES ASSUME Bad # {} PROVE FALSE
  BY DEF VersionsInOrder
<1>2. PICK m \in Bad : \A n \in Bad : m <= n
  <2>1. Bad \subseteq Nat
    OBVIOUS
  <2>. QED BY <1>1, <2>1, NatMin
<1>3. PICK i \in 1 .. Len(log) : /\ i < m /\ SameRecord(log, "version", i, m)
                                 /\ ~ (log[i].body.version < log[m].body.version)
  BY <1>2
<1>4. i \in 1 .. m - 1 /\ log[m].body.kind = "version" /\ m \in 1 .. Len(log)
  BY <1>3 DEF SameRecord
<1>5. PICK p \in 1 .. m - 1 :
         /\ SameRecord(log, "version", p, m)
         /\ log[m].body.version = log[p].body.version + 1
         /\ i <= p
  BY <1>3, <1>4, VersionStep
<1>6. p \in 1 .. Len(log) /\ p \notin Bad
  BY <1>2, <1>4, <1>5
<1>7. SameRecord(log, "version", i, p)
  BY <1>3, <1>5 DEF SameRecord
<1>8. i = p \/ log[i].body.version < log[p].body.version
  BY <1>5, <1>6, <1>7
<1>9. /\ log[i].body.version \in Nat /\ log[p].body.version \in Nat
      /\ log[m].body.version \in Nat
  BY <1>4, <1>6, LineType
<1> DEFINE vi == log[i].body.version
           vp == log[p].body.version
           vm == log[m].body.version
<1>10. vi \in Nat /\ vp \in Nat /\ vm = vp + 1 /\ (vi = vp \/ vi < vp)
  BY <1>5, <1>8, <1>9
<1>11. ~ (vi < vm)
  BY <1>3
<1> HIDE DEF vi, vp, vm
<1>. QED BY <1>10, <1>11

LEMMA ValidSkipsNoVersion ==
  ASSUME NEW log \in Seq(Event), Valid(log)
  PROVE  NoVersionSkipped(log)
<1> DEFINE Has(j, v) == \E i \in 1 .. j : /\ SameRecord(log, "version", i, j)
                                          /\ log[i].body.version = v
           Bad == {j \in 1 .. Len(log) : /\ log[j].body.kind = "version"
                                         /\ \E v \in 1 .. log[j].body.version : ~ Has(j, v)}
<1>1. SUFFICES ASSUME Bad # {} PROVE FALSE
  BY DEF NoVersionSkipped
<1>2. PICK m \in Bad : \A n \in Bad : m <= n
  <2>1. Bad \subseteq Nat
    OBVIOUS
  <2>. QED BY <1>1, <2>1, NatMin
<1>3. m \in 1 .. Len(log) /\ log[m].body.kind = "version"
  BY <1>2
<1>4. PICK v \in 1 .. log[m].body.version : ~ Has(m, v)
  BY <1>2
<1>5. v # log[m].body.version
  <2>1. SUFFICES ASSUME v = log[m].body.version PROVE FALSE
    OBVIOUS
  <2>2. m \in 1 .. m /\ SameRecord(log, "version", m, m)
    BY <1>3 DEF SameRecord
  <2>. QED BY <1>4, <2>1, <2>2
<1>6. log[m].body.version \in Nat
  BY <1>3, LineType
<1>7. PICK p \in 1 .. m - 1 :
         /\ SameRecord(log, "version", p, m)
         /\ log[m].body.version = log[p].body.version + 1
  BY <1>3, <1>4, <1>5, <1>6, VersionStep
<1>8. p \in 1 .. Len(log) /\ log[p].body.version \in Nat /\ log[p].body.kind = "version"
  BY <1>3, <1>7, LineType DEF SameRecord
<1>9. p \notin Bad /\ v \in 1 .. log[p].body.version
  <2>1. p \notin Bad
    <3>1. p \in Nat /\ m \in Nat /\ p < m
      BY <1>3, <1>7
    <3> HIDE DEF Bad
    <3>. QED BY <1>2, <3>1
  <2>2. v \in Nat /\ 1 <= v /\ v <= log[m].body.version
    BY <1>4, <1>6
  <2>3. v <= log[p].body.version
    BY <1>5, <1>6, <1>7, <1>8, <2>2
  <2>. QED BY <1>8, <2>1, <2>2, <2>3
<1>10. Has(p, v)
  BY <1>8, <1>9
<1>11. PICK i \in 1 .. p : SameRecord(log, "version", i, p) /\ log[i].body.version = v
  BY <1>10
<1>12. i \in 1 .. m /\ SameRecord(log, "version", i, m)
  BY <1>3, <1>7, <1>11 DEF SameRecord
<1>. QED BY <1>4, <1>11, <1>12

-----------------------------------------------------------------------------
(* Types of what is built from a log.                                      *)

LEMMA BodiesType ==
  ASSUME NEW log \in Seq(Event)
  PROVE  Bodies(log) \in Seq(Body) /\ Len(Bodies(log)) = Len(log)
<1>1. Len(log) \in Nat
  BY LenProperties
<1>2. \A i \in 1 .. Len(log) : log[i].body \in Body
  BY LineType
<1>3. Bodies(log) \in [1 .. Len(log) -> Body]
  BY <1>2 DEF Bodies
<1>4. Bodies(log) \in Seq(Body)
  BY <1>1, <1>3, SeqDef
<1>5. DOMAIN Bodies(log) = 1 .. Len(log) /\ DOMAIN Bodies(log) = 1 .. Len(Bodies(log))
  BY <1>3, <1>4, LenProperties
<1>6. Len(Bodies(log)) \in Nat
  BY <1>4, LenProperties
<1>. QED BY <1>1, <1>4, <1>5, <1>6

LEMMA NextVersionType ==
  ASSUME NEW log \in Seq(Event), NEW id
  PROVE  NextVersion(log, id) \in Nat
<1>1. CASE At(log, "version", id) = {}
  BY <1>1 DEF NextVersion
<1>2. CASE At(log, "version", id) # {}
  <2>1. Len(log) \in Nat /\ At(log, "version", id) \subseteq 1 .. Len(log)
    BY LenProperties DEF At
  <2>2. Max(At(log, "version", id)) \in 1 .. Len(log)
    BY <1>2, <2>1, MaxPosition
  <2>3. log[Max(At(log, "version", id))].body.version \in Nat
    BY <2>2, LineType
  <2>. QED BY <1>2, <2>3 DEF NextVersion
<1>. QED BY <1>1, <1>2

(* A line of a valid log knows its position. *)
LEMMA LineHeld ==
  ASSUME NEW log \in Seq(Event), Valid(log), NEW k \in 1 .. Len(log)
  PROVE  Len(log[k].prev) + 1 = k
<1>1. k - 1 \in 0 .. Len(log)
  BY LenProperties
<1>2. SubSeq(log, 1, k - 1) \in Seq(Event) /\ Len(SubSeq(log, 1, k - 1)) = k - 1
  BY <1>1, PrefixType
<1>3. log[k].prev = Bodies(SubSeq(log, 1, k - 1))
  BY LineFollows
<1>4. Len(Bodies(SubSeq(log, 1, k - 1))) = k - 1
  BY <1>2, BodiesType
<1>. QED BY <1>1, <1>3, <1>4

(***************************************************************************)
(* The store.                                                              *)
(***************************************************************************)

(* Catching up from a copy that is a prefix of the file yields the file. *)
LEMMA CaughtUpIsLines ==
  ASSUME IInv, NEW h \in Handles, pc[h] # "index"
  PROVE  CaughtUp(h) = lines
<1>1. lines \in Seq(Event) /\ view[h] \in Seq(Event)
  BY DEF IInv, TypeOK
<1>2. IsPrefix(view[h], lines) /\ offset[h] = Len(view[h])
  BY DEF IInv, CopiesArePrefixes
<1>. QED BY <1>1, <1>2, PrefixCompleted DEF CaughtUp

(* What the five steps that catch up do to the handle's copy. *)
LEMMA CatchUpCopies ==
  ASSUME IInv, NEW h \in Handles, pc[h] # "index", TakeCatchUp(h)
  PROVE  /\ view' = [view EXCEPT ![h] = lines]
         /\ offset' = [offset EXCEPT ![h] = Len(lines)]
BY CaughtUpIsLines DEF TakeCatchUp

LEMMA BodyType ==
  ASSUME NEW kind \in RecordKinds, NEW id \in Ids, NEW v \in Nat, NEW t \in 1 .. MaxTime
  PROVE  [kind |-> kind, id |-> id, version |-> v, time |-> t] \in Body
BY StoreConstants DEF Body

(* An admitted record, sealed on top of the file, is one more valid line. *)
LEMMA SealedLoads ==
  ASSUME NEW log \in Seq(Event), NEW body \in Body, Admissible(log, body)
  PROVE  /\ Sealed(log, body) \in Event
         /\ LoadsFrom(log \o <<Sealed(log, body)>>, Len(log))
<1>1. Sealed(log, body) \in Event
  BY BodiesType DEF Sealed, Event
<1>2. Follows(log, Sealed(log, body))
  BY DEF Follows, Sealed, Admissible
<1>. QED BY <1>1, <1>2, LoadsOne

LEMMA OneNotEmpty ==
  ASSUME NEW S, NEW s \in Seq(S), Len(s) = 1
  PROVE  s # <<>>
OBVIOUS

LEMMA ChainType ==
  ASSUME NEW log \in Seq(Event), NEW bodies \in BoundedSeq(PeerBodies, MaxSuffix)
  PROVE  Chain(log, bodies) \in Seq(Event)
<1>1. PeerBodies \subseteq Body
  BY StoreConstants DEF PeerBodies, Body
<1>2. PICK m \in 0 .. MaxSuffix : bodies \in [1 .. m -> PeerBodies]
  BY DEF BoundedSeq, SeqOf
<1>3. m \in Nat /\ bodies \in Seq(PeerBodies)
  BY <1>2, SeqDef
<1>4. bodies \in Seq(Body)
  BY <1>1, <1>3, SeqMonotonic
<1>5. Len(bodies) \in Nat
  BY <1>4, LenProperties
<1>6. ASSUME NEW i \in 1 .. Len(bodies)
      PROVE  [body |-> bodies[i], prev |-> Bodies(log) \o SubSeq(bodies, 1, i - 1)] \in Event
  <2>1. bodies[i] \in Body
    BY <1>4, ElementOfSeq
  <2>2. SubSeq(bodies, 1, i - 1) \in Seq(Body)
    BY <1>4, <1>5, PrefixType
  <2>3. Bodies(log) \o SubSeq(bodies, 1, i - 1) \in Seq(Body)
    BY <2>2, BodiesType, ConcatProperties
  <2>. QED BY <2>1, <2>3 DEF Event
<1>7. Chain(log, bodies) \in [1 .. Len(bodies) -> Event]
  BY <1>6 DEF Chain
<1>. QED BY <1>5, <1>7, SeqDef

-----------------------------------------------------------------------------
(* The type invariant.                                                     *)

LEMMA ReturnType ==
  ASSUME TypeOK, NEW h \in Handles, Return(h)
  PROVE  /\ pc' \in [Handles -> Phases]
         /\ want' \in [Handles -> Seq(Body)]
         /\ staged' \in [Handles -> Seq(Event)]
<1>1. <<>> \in Seq(Body) /\ <<>> \in Seq(Event) /\ "idle" \in Phases
  BY EmptySeq DEF Phases
<1>. QED BY <1>1 DEF TypeOK, Return

LEMMA CatchUpType ==
  ASSUME IInv, NEW h \in Handles, pc[h] # "index", TakeCatchUp(h)
  PROVE  /\ view' \in [Handles -> Seq(Event)]
         /\ offset' \in [Handles -> Nat]
<1>1. Len(lines) \in Nat
  BY LenProperties DEF IInv, TypeOK
<1>. QED BY <1>1, CatchUpCopies DEF IInv, TypeOK

LEMMA BeginType ==
  ASSUME TypeOK, NEW h \in Handles, NEW body \in Body, Begin(h, body)
  PROVE  /\ pc' \in [Handles -> Phases]
         /\ want' \in [Handles -> Seq(Body)]
         /\ Len(want'[h]) = 1
<1>1. <<body>> \in Seq(Body) /\ Len(<<body>>) = 1 /\ "append" \in Phases
  BY DEF Phases, Waiting
<1>. QED BY <1>1 DEF TypeOK, Begin

LEMMA TypeInit == Init => TypeOK
<1>1. <<>> \in Seq(Body) /\ <<>> \in Seq(Event) /\ 0 \in 0 .. Len(<<>>) /\ "closed" \in Phases
  BY EmptySeq DEF Phases
<1>2. SUFFICES ASSUME Init PROVE TypeOK
  OBVIOUS
<1>3. lines \in Seq(Event) /\ torn \in BOOLEAN /\ durable \in 0 .. Len(lines)
  BY <1>1, <1>2 DEF Init
<1>4. view \in [Handles -> Seq(Event)] /\ staged \in [Handles -> Seq(Event)]
  BY <1>1, <1>2 DEF Init
<1>5. want \in [Handles -> Seq(Body)] /\ pc \in [Handles -> Phases]
  BY <1>1, <1>2 DEF Init
<1>. QED BY <1>2, <1>3, <1>4, <1>5 DEF Init, TypeOK

LEMMA PayloadsType ==
  ASSUME NEW log \in Seq(Event)
  PROVE  PayloadsOf(log) \subseteq Ids
<1>1. \A i \in 1 .. Len(log) : log[i].body.id \in Ids
  <2>1. \A i \in 1 .. Len(log) : log[i].body \in Body
    BY LineType
  <2>. QED BY <2>1 DEF Body
<1>. QED BY <1>1 DEF PayloadsOf

LEMMA TypeStep ==
  ASSUME IInv, [Next]_vars
  PROVE  TypeOK'
<1>0. TypeOK
  BY DEF IInv
<1>1. ASSUME NEW h \in Handles, Open(h) PROVE TypeOK'
  <2>1. Len(lines) \in Nat
    BY <1>0, LenProperties DEF TypeOK
  <2>. QED BY <1>0, <1>1, <2>1 DEF TypeOK, Open, Phases, disk
<1>2. ASSUME NEW h \in Handles, Refresh(h) PROVE TypeOK'
  BY <1>0, <1>2, CatchUpType DEF TypeOK, Refresh, disk
<1>3. ASSUME NEW h \in Handles, NEW id \in Ids, NEW t \in 1 .. MaxTime,
             BeginVersion(h, id, t)
      PROVE  TypeOK'
  <2>1. NextVersion(view[h], id) \in Nat /\ "version" \in RecordKinds
    BY <1>0, <1>3, NextVersionType DEF TypeOK, BeginVersion, MayBegin
  <2>2. PICK body \in Body : Begin(h, body)
    BY <1>3, <2>1, BodyType DEF BeginVersion
  <2>. QED BY <1>0, <1>3, <2>2, BeginType DEF TypeOK, BeginVersion, Begin, disk
<1>4. ASSUME NEW h \in Handles, NEW id \in Ids, NEW t \in 1 .. MaxTime,
             BeginIngest(h, id, t)
      PROVE  TypeOK'
  <2>1. PICK body \in Body : Begin(h, body)
    <3>1. "duplicate" \in Kinds /\ "ingestion" \in Kinds /\ t \in Nat /\ 1 \in Nat
      BY StoreConstants DEF Kinds
    <3>. QED BY <1>4, <3>1 DEF BeginIngest, Body
  <2>. QED BY <1>0, <1>4, <2>1, BeginType DEF TypeOK, BeginIngest, Begin, disk
<1>5. ASSUME NEW h \in Handles, NEW id \in Ids, NEW t \in 1 .. MaxTime,
             BeginAlert(h, id, t)
      PROVE  TypeOK'
  <2>1. PICK body \in Body : Begin(h, body)
    BY <1>5, BodyType DEF BeginAlert, MayBegin
  <2>. QED BY <1>0, <1>5, <2>1, BeginType DEF TypeOK, BeginAlert, Begin, disk
<1>6. ASSUME NEW h \in Handles, NEW bodies \in BoundedSeq(PeerBodies, MaxSuffix),
             BeginImport(h, bodies)
      PROVE  TypeOK'
  <2>1. Chain(view[h], bodies) \in Seq(Event) /\ "import" \in Phases
    BY <1>0, ChainType DEF TypeOK, Phases, Waiting
  <2>. QED BY <1>0, <1>6, <2>1 DEF TypeOK, BeginImport, disk
<1>7. ASSUME NEW h \in Handles, Admit(h) PROVE TypeOK'
  <2>1. pc[h] = "append" /\ Len(want[h]) = 1
    BY <1>7 DEF Admit, IInv, StagedLoads
  <2>2. Head(want[h]) \in Body
    <3>1. want[h] \in Seq(Body)
      BY <1>0 DEF TypeOK
    <3>2. want[h] # <<>>
      BY <2>1, <3>1, OneNotEmpty
    <3>. QED BY <3>1, <3>2, HeadTailProperties
  <2>3. CaughtUp(h) = lines /\ Sealed(CaughtUp(h), Head(want[h])) \in Event
    BY <1>0, <1>7, <2>1, <2>2, CaughtUpIsLines, SealedLoads DEF TypeOK, Admit
  <2>4. <<Sealed(CaughtUp(h), Head(want[h]))>> \in Seq(Event) /\ "write" \in Phases
    BY <2>3 DEF Phases, Holding
  <2>5. TakeCatchUp(h) /\ pc[h] # "index"
    BY <1>7, <2>1 DEF Admit
  <2>. QED BY <1>0, <1>7, <2>4, <2>5, CatchUpType DEF TypeOK, Admit, disk
<1>8. ASSUME NEW h \in Handles, Refuse(h) PROVE TypeOK'
  BY <1>0, <1>8, CatchUpType, ReturnType DEF TypeOK, Refuse, disk
<1>9. ASSUME NEW h \in Handles, CatchUpFails(h) PROVE TypeOK'
  BY <1>0, <1>9, ReturnType DEF TypeOK, CatchUpFails, disk
<1>10. ASSUME NEW h \in Handles, AdmitImport(h) PROVE TypeOK'
  <2>1. "install" \in Phases
    BY DEF Phases, Holding
  <2>. QED BY <1>0, <1>10, <2>1, CatchUpType DEF TypeOK, AdmitImport, disk
<1>11. ASSUME NEW h \in Handles, RefuseImport(h) PROVE TypeOK'
  BY <1>0, <1>11, CatchUpType, ReturnType DEF TypeOK, RefuseImport, disk
<1>12. ASSUME NEW h \in Handles, WritePart(h) PROVE TypeOK'
  <2>1. "half" \in Phases
    BY DEF Phases, Holding
  <2>. QED BY <1>0, <1>12, <2>1 DEF TypeOK, WritePart
<1>13. ASSUME NEW h \in Handles, WriteRest(h) PROVE TypeOK'
  <2>1. "sync" \in Phases
    BY DEF Phases, Holding
  <2>2. lines' \in Seq(Event) /\ durable \in 0 .. Len(lines')
    BY <1>0, <1>13, ConcatProperties, LenProperties DEF TypeOK, WriteRest
  <2>. QED BY <1>0, <1>13, <2>1, <2>2 DEF TypeOK, WriteRest
<1>14. ASSUME NEW h \in Handles, WriteFails(h) PROVE TypeOK'
  BY <1>0, <1>14, ReturnType DEF TypeOK, WriteFails, disk
<1>15. ASSUME NEW h \in Handles, SyncAndReturn(h) PROVE TypeOK'
  <2>1. view[h] \o staged[h] \in Seq(Event) /\ Len(staged[h]) \in Nat /\ Len(lines) \in Nat
    BY <1>0, ConcatProperties, LenProperties DEF TypeOK
  <2>2. Range(staged[h]) \subseteq Event
    BY <1>0, ElementOfSeq, LenProperties DEF TypeOK, Range
  <2>3. view' \in [Handles -> Seq(Event)]
    BY <1>0, <1>15, <2>1 DEF TypeOK, SyncAndReturn
  <2>4. offset' \in [Handles -> Nat]
    BY <1>0, <1>15, <2>1 DEF TypeOK, SyncAndReturn
  <2>5. acked' \subseteq Event /\ durable' \in 0 .. Len(lines')
    BY <1>0, <1>15, <2>1, <2>2 DEF TypeOK, SyncAndReturn
  <2>. QED BY <1>0, <1>15, <2>3, <2>4, <2>5, ReturnType DEF TypeOK, SyncAndReturn
<1>16. ASSUME NEW h \in Handles, InstallPayload(h) PROVE TypeOK'
  BY <1>0, <1>16, PayloadsType DEF TypeOK, InstallPayload, disk
<1>17. ASSUME NEW h \in Handles, ReplaceLog(h) PROVE TypeOK'
  <2>1. "index" \in Phases
    BY DEF Phases, Holding
  <2>2. lines' \in Seq(Event) /\ Len(lines') \in Nat
    BY <1>0, <1>17, ConcatProperties, LenProperties DEF TypeOK, ReplaceLog
  <2>. QED BY <1>0, <1>17, <2>1, <2>2 DEF TypeOK, ReplaceLog
<1>18. ASSUME NEW h \in Handles, InstallFails(h) PROVE TypeOK'
  BY <1>0, <1>18, ReturnType DEF TypeOK, InstallFails, disk
<1>19. ASSUME NEW h \in Handles, IndexImported(h) PROVE TypeOK'
  <2>1. view[h] \o staged[h] \in Seq(Event)
    BY <1>0, ConcatProperties DEF TypeOK
  <2>2. Range(staged[h]) \subseteq Event
    BY <1>0, ElementOfSeq, LenProperties DEF TypeOK, Range
  <2>. QED BY <1>0, <1>19, <2>1, <2>2, ReturnType DEF TypeOK, IndexImported, disk
<1>20. ASSUME NEW h \in Handles, RecoverRead(h) PROVE TypeOK'
  <2>1. "recover" \in Phases
    BY DEF Phases, Holding
  <2>. QED BY <1>0, <1>20, <2>1 DEF TypeOK, RecoverRead, disk
<1>21. ASSUME NEW h \in Handles, RecoverReplace(h) PROVE TypeOK'
  <2>1. <<>> \in Seq(Event) /\ "closed" \in Phases /\ Len(staged[h]) \in Nat
    BY <1>0, EmptySeq, LenProperties DEF TypeOK, Phases
  <2>2. lines' \in Seq(Event) /\ durable' \in 0 .. Len(lines')
    BY <1>0, <1>21, <2>1 DEF TypeOK, RecoverReplace
  <2>3. pc' \in [Handles -> Phases] /\ staged' \in [Handles -> Seq(Event)]
    BY <1>0, <1>21, <2>1 DEF TypeOK, RecoverReplace
  <2>. QED BY <1>0, <1>21, <2>2, <2>3 DEF TypeOK, RecoverReplace
<1>22. ASSUME NEW h \in Handles, Crash(h) PROVE TypeOK'
  <2>1. <<>> \in Seq(Event) /\ <<>> \in Seq(Body) /\ "closed" \in Phases
    BY EmptySeq DEF Phases
  <2>. QED BY <1>0, <1>22, <2>1 DEF TypeOK, Crash, disk
<1>23. ASSUME PowerLoss PROVE TypeOK'
  <2>1. <<>> \in Seq(Event) /\ <<>> \in Seq(Body) /\ "closed" \in Phases
    BY EmptySeq DEF Phases
  <2>2. PICK n \in durable .. Len(lines) :
           lines' = SubSeq(lines, 1, n) /\ torn' \in BOOLEAN
    BY <1>23 DEF PowerLoss
  <2>3. n \in 0 .. Len(lines) /\ durable \in 0 .. n
    BY <1>0, LenProperties DEF TypeOK
  <2>4. lines' \in Seq(Event) /\ Len(lines') = n
    BY <1>0, <2>2, <2>3, PrefixType DEF TypeOK
  <2>. QED BY <1>0, <1>23, <2>1, <2>2, <2>3, <2>4 DEF TypeOK, PowerLoss
<1>24. CASE UNCHANGED vars
  BY <1>0, <1>24 DEF TypeOK, vars
<1>. QED
  BY <1>1, <1>2, <1>3, <1>4, <1>5, <1>6, <1>7, <1>8, <1>9, <1>10, <1>11, <1>12,
     <1>13, <1>14, <1>15, <1>16, <1>17, <1>18, <1>19, <1>20, <1>21, <1>22, <1>23, <1>24
  DEF Next, Read, Call, Locked, Work

-----------------------------------------------------------------------------
(* The lock protocol.                                                      *)

(* What the invariant says of one handle. *)
Own(h) ==
  /\ IsPrefix(view[h], lines)
  /\ pc[h] # "index" => offset[h] = Len(view[h])
  /\ pc[h] \in Holding <=> lock = h
  /\ pc[h] \in {"write", "half", "install"} => view[h] = lines
  /\ pc[h] = "recover" => staged[h] = lines
  /\ pc[h] \in {"sync", "index"} => lines = view[h] \o staged[h]
  /\ pc[h] = "index" => offset[h] = Len(lines) /\ durable = Len(lines)
  /\ pc[h] \in {"write", "half", "sync", "install", "index"}
       => LoadsFrom(view[h] \o staged[h], Len(view[h]))
  /\ pc[h] = "append" => Len(want[h]) = 1

HInv == CopiesArePrefixes /\ HolderIsCurrent /\ StagedLoads

LEMMA HInvIsOwn == HInv <=> \A h \in Handles : Own(h)
BY DEF HInv, Own, CopiesArePrefixes, HolderIsCurrent, StagedLoads

LEMMA OwnOf ==
  ASSUME IInv, NEW h \in Handles
  PROVE  Own(h)
BY HInvIsOwn DEF IInv, HInv

(* A step of handle h leaves the other handles where they are, and takes   *)
(* the lock from none of them and gives it to none.                        *)
OthersStay(h) ==
  \A g \in Handles \ {h} :
    /\ pc'[g] = pc[g] /\ view'[g] = view[g] /\ offset'[g] = offset[g]
    /\ want'[g] = want[g] /\ staged'[g] = staged[g]
    /\ lock' = g <=> lock = g

(* Nobody but the holder of the lock moves the file, so a step of h keeps  *)
(* what the invariant says of the others.                                  *)
LEMMA HandleStep ==
  ASSUME IInv, NEW h \in Handles, OthersStay(h),
         lines' = lines \/ \E x \in Seq(Event) : lines' = lines \o x,
         lock = h \/ UNCHANGED <<lines, durable>>,
         Own(h)'
  PROVE  HInv'
<1>1. ASSUME NEW g \in Handles \ {h} PROVE Own(g)'
  <2>1. Own(g)
    BY OwnOf
  <2>2. IsPrefix(view[g], lines')
    <3>1. IsPrefix(view[g], lines) /\ view[g] \in Seq(Event) /\ lines \in Seq(Event)
      BY <2>1 DEF IInv, TypeOK, Own
    <3>. QED BY <3>1, PrefixStays
  <2>3. /\ pc'[g] = pc[g] /\ view'[g] = view[g] /\ offset'[g] = offset[g]
        /\ want'[g] = want[g] /\ staged'[g] = staged[g]
        /\ lock' = g <=> lock = g
    BY DEF OthersStay
  <2>4. CASE pc[g] \in Holding
    <3>1. UNCHANGED <<lines, durable>>
      BY <2>1, <2>4 DEF Own
    <3>. QED BY <2>1, <2>3, <3>1 DEF Own
  <2>5. CASE pc[g] \notin Holding
    <3>1. pc[g] \notin {"write", "half", "sync", "install", "index", "recover"}
      BY <2>5 DEF Holding
    <3>. QED BY <2>1, <2>2, <2>3, <2>5, <3>1 DEF Own
  <2>. QED BY <2>4, <2>5
<1>2. \A g \in Handles : Own(g)'
  BY <1>1
<1>. QED BY <1>2 DEF HInv, Own, CopiesArePrefixes, HolderIsCurrent, StagedLoads

(* A handle that begins, or returns from, a call and did not touch the     *)
(* file is where it was, or is caught up, or has forgotten everything.     *)
LEMMA IdleStep ==
  ASSUME IInv, NEW h \in Handles, OthersStay(h), UNCHANGED <<lines, durable>>,
         lock' # h, pc'[h] \in {"closed", "idle", "append", "import"},
         \/ view'[h] = view[h] /\ offset'[h] = offset[h] /\ pc[h] # "index"
         \/ view'[h] = lines /\ offset'[h] = Len(lines)
         \/ view'[h] = <<>> /\ offset'[h] = 0,
         pc'[h] = "append" => Len(want'[h]) = 1
  PROVE  HInv'
<1>1. view[h] \in Seq(Event) /\ lines \in Seq(Event) /\ Own(h)
  BY OwnOf DEF IInv, TypeOK
<1>2. IsPrefix(view'[h], lines)
  BY <1>1, PrefixSelf DEF Own
<1>3. offset'[h] = Len(view'[h])
  BY <1>1, EmptySeq DEF Own
<1>4. pc'[h] \notin Holding /\ pc'[h] \notin {"write", "half", "sync", "install", "index", "recover"}
  BY DEF Holding
<1>5. Own(h)'
  BY <1>2, <1>3, <1>4 DEF Own
<1>. QED BY <1>5, HandleStep

LEMMA HandlesStep ==
  ASSUME IInv, [Next]_vars
  PROVE  HInv'
<1>0. /\ lines \in Seq(Event) /\ Len(lines) \in Nat /\ IsPrefix(lines, lines)
      /\ \A h \in Handles : /\ view[h] \in Seq(Event) /\ staged[h] \in Seq(Event)
                            /\ want[h] \in Seq(Body) /\ Own(h)
      /\ pc \in [Handles -> Phases] /\ view \in [Handles -> Seq(Event)]
      /\ offset \in [Handles -> Nat] /\ want \in [Handles -> Seq(Body)]
      /\ staged \in [Handles -> Seq(Event)]
  BY LenProperties, OwnOf, PrefixSelf DEF IInv, TypeOK
<1>b. \A h \in Handles : pc[h] \notin Holding => lock # h
  BY <1>0 DEF Own
<1>c. {"closed", "idle", "append", "import"} \cap Holding = {} /\ "index" \in Holding
  BY DEF Holding
<1>d. NoHandle \notin Handles
  BY StoreConstants
<1>1. ASSUME NEW h \in Handles, Open(h) PROVE HInv'
  <2>1. OthersStay(h)
    BY <1>0, <1>1 DEF Open, OthersStay
  <2>2. /\ pc'[h] = "idle" /\ view'[h] = lines /\ offset'[h] = Len(lines)
        /\ lock' # h /\ UNCHANGED <<lines, durable>>
    BY <1>0, <1>1, <1>d DEF Open, disk
  <2>. QED BY <2>1, <2>2, IdleStep
<1>2. ASSUME NEW h \in Handles, Refresh(h) PROVE HInv'
  <2>1. view' = [view EXCEPT ![h] = lines] /\ offset' = [offset EXCEPT ![h] = Len(lines)]
    BY <1>2, CatchUpCopies DEF Refresh
  <2>2. OthersStay(h)
    BY <1>0, <1>2, <2>1 DEF Refresh, OthersStay
  <2>3. /\ pc'[h] = "idle" /\ view'[h] = lines /\ offset'[h] = Len(lines)
        /\ lock' # h /\ UNCHANGED <<lines, durable>>
    BY <1>0, <1>2, <1>d, <2>1 DEF Refresh, disk
  <2>. QED BY <2>2, <2>3, IdleStep
<1>3. ASSUME NEW h \in Handles, NEW body, pc[h] = "idle", Begin(h, body) PROVE HInv'
  <2>1. OthersStay(h)
    BY <1>0, <1>3 DEF Begin, OthersStay
  <2>2. /\ pc'[h] = "append" /\ want'[h] = <<body>> /\ view'[h] = view[h]
        /\ offset'[h] = offset[h] /\ pc[h] # "index"
        /\ lock' # h /\ UNCHANGED <<lines, durable>>
    BY <1>0, <1>3, <1>b, <1>c DEF Begin, disk
  <2>3. Len(want'[h]) = 1
    BY <2>2
  <2>. QED BY <2>1, <2>2, <2>3, IdleStep
<1>4. ASSUME NEW h \in Handles, NEW id \in Ids, NEW t \in 1 .. MaxTime,
             BeginVersion(h, id, t) \/ BeginIngest(h, id, t) \/ BeginAlert(h, id, t)
      PROVE  HInv'
  BY <1>3, <1>4 DEF BeginVersion, BeginIngest, BeginAlert, MayBegin
<1>5. ASSUME NEW h \in Handles, NEW bodies \in BoundedSeq(PeerBodies, MaxSuffix),
             BeginImport(h, bodies)
      PROVE  HInv'
  <2>1. OthersStay(h)
    BY <1>0, <1>5 DEF BeginImport, OthersStay
  <2>2. /\ pc'[h] = "import" /\ view'[h] = view[h] /\ offset'[h] = offset[h]
        /\ pc[h] # "index" /\ lock' # h /\ UNCHANGED <<lines, durable>>
    BY <1>0, <1>5, <1>b, <1>c DEF BeginImport, disk
  <2>. QED BY <2>1, <2>2, IdleStep
<1>6. ASSUME NEW h \in Handles, Refuse(h) \/ RefuseImport(h) PROVE HInv'
  <2>1. pc[h] # "index" /\ TakeCatchUp(h) /\ lock' = NoHandle /\ lock = NoHandle
    BY <1>6 DEF Refuse, RefuseImport
  <2>2. view' = [view EXCEPT ![h] = lines] /\ offset' = [offset EXCEPT ![h] = Len(lines)]
    BY <2>1, CatchUpCopies
  <2>3. OthersStay(h)
    BY <1>0, <1>6, <2>1, <2>2 DEF Refuse, RefuseImport, Return, OthersStay
  <2>4. /\ pc'[h] = "idle" /\ view'[h] = lines /\ offset'[h] = Len(lines)
        /\ lock' # h /\ UNCHANGED <<lines, durable>>
    BY <1>0, <1>6, <1>d, <2>1, <2>2 DEF Refuse, RefuseImport, Return, disk
  <2>. QED BY <2>3, <2>4, IdleStep
<1>7. ASSUME NEW h \in Handles, CatchUpFails(h) PROVE HInv'
  <2>1. OthersStay(h)
    BY <1>0, <1>7 DEF CatchUpFails, Return, OthersStay
  <2>2. /\ pc'[h] = "idle" /\ view'[h] = view[h] /\ offset'[h] = offset[h]
        /\ pc[h] # "index" /\ lock' # h /\ UNCHANGED <<lines, durable>>
    BY <1>0, <1>7, <1>d DEF CatchUpFails, Return, Waiting, disk
  <2>. QED BY <2>1, <2>2, IdleStep
<1>8. ASSUME NEW h \in Handles, WriteFails(h) \/ InstallFails(h) PROVE HInv'
  <2>1. pc[h] \in Holding /\ pc[h] # "index"
    BY <1>8 DEF WriteFails, InstallFails, Holding
  <2>2. lock = h /\ lock' = NoHandle
    BY <1>0, <1>8, <2>1 DEF Own, WriteFails, InstallFails
  <2>3. OthersStay(h)
    BY <1>0, <1>8, <1>d, <2>2 DEF WriteFails, InstallFails, Return, OthersStay
  <2>4. /\ pc'[h] = "idle" /\ view'[h] = view[h] /\ offset'[h] = offset[h]
        /\ lock' # h /\ UNCHANGED <<lines, durable>>
    BY <1>0, <1>8, <1>d, <2>2 DEF WriteFails, InstallFails, Return, disk
  <2>. QED BY <2>1, <2>3, <2>4, IdleStep
<1>9. ASSUME NEW h \in Handles, Crash(h) PROVE HInv'
  <2>1. OthersStay(h)
    BY <1>0, <1>9, <1>d DEF Crash, OthersStay
  <2>2. /\ pc'[h] = "closed" /\ view'[h] = <<>> /\ offset'[h] = 0
        /\ lock' # h /\ UNCHANGED <<lines, durable>>
    BY <1>0, <1>9, <1>d DEF Crash, disk
  <2>. QED BY <2>1, <2>2, IdleStep
<1>10. ASSUME NEW h \in Handles, Admit(h) PROVE HInv'
  <2>1. /\ pc[h] = "append" /\ Len(want[h]) = 1 /\ TakeCatchUp(h) /\ lock = NoHandle
        /\ lock' = h /\ CaughtUp(h) = lines
    BY <1>0, <1>10, CaughtUpIsLines DEF Admit, Own
  <2>2. view' = [view EXCEPT ![h] = lines] /\ offset' = [offset EXCEPT ![h] = Len(lines)]
    BY <2>1, CatchUpCopies
  <2>3. want[h] # <<>> /\ Head(want[h]) \in Body
    BY <1>0, <2>1, OneNotEmpty, HeadTailProperties
  <2>4. LoadsFrom(lines \o <<Sealed(lines, Head(want[h]))>>, Len(lines))
    BY <1>0, <1>10, <2>1, <2>3, SealedLoads DEF Admit
  <2>5. OthersStay(h)
    BY <1>0, <1>10, <1>d, <2>1, <2>2 DEF Admit, OthersStay
  <2>6. /\ pc'[h] = "write" /\ staged'[h] = <<Sealed(lines, Head(want[h]))>>
        /\ view'[h] = lines /\ offset'[h] = Len(lines) /\ UNCHANGED <<lines, durable>>
    BY <1>0, <1>10, <2>1, <2>2 DEF Admit, disk
  <2>7. Own(h)'
    BY <1>0, <2>1, <2>4, <2>6 DEF Own, Holding
  <2>. QED BY <2>5, <2>6, <2>7, HandleStep
<1>11. ASSUME NEW h \in Handles, AdmitImport(h) PROVE HInv'
  <2>1. /\ pc[h] = "import" /\ TakeCatchUp(h) /\ lock = NoHandle
        /\ lock' = h /\ CaughtUp(h) = lines
    BY <1>11, CaughtUpIsLines DEF AdmitImport
  <2>2. view' = [view EXCEPT ![h] = lines] /\ offset' = [offset EXCEPT ![h] = Len(lines)]
    BY <2>1, CatchUpCopies
  <2>3. LoadsFrom(lines \o staged[h], Len(lines))
    BY <1>11, <2>1 DEF AdmitImport, SuffixLoads
  <2>4. OthersStay(h)
    BY <1>0, <1>11, <1>d, <2>1, <2>2 DEF AdmitImport, OthersStay
  <2>5. /\ pc'[h] = "install" /\ staged'[h] = staged[h]
        /\ view'[h] = lines /\ offset'[h] = Len(lines) /\ UNCHANGED <<lines, durable>>
    BY <1>0, <1>11, <2>1, <2>2 DEF AdmitImport, disk
  <2>6. Own(h)'
    BY <1>0, <2>1, <2>3, <2>5 DEF Own, Holding
  <2>. QED BY <2>4, <2>5, <2>6, HandleStep
<1>12. ASSUME NEW h \in Handles, WritePart(h) \/ InstallPayload(h) PROVE HInv'
  <2>1. OthersStay(h)
    BY <1>0, <1>12 DEF WritePart, InstallPayload, OthersStay
  <2>2. /\ \/ pc[h] = "write" /\ pc'[h] = "half"
           \/ pc[h] = "install" /\ pc'[h] = "install"
        /\ staged'[h] = staged[h] /\ view'[h] = view[h] /\ offset'[h] = offset[h]
        /\ lock' = lock /\ UNCHANGED <<lines, durable>>
    BY <1>0, <1>12 DEF WritePart, InstallPayload, disk
  <2>3. Own(h)'
    BY <1>0, <2>2 DEF Own, Holding
  <2>. QED BY <2>1, <2>2, <2>3, HandleStep
<1>13. ASSUME NEW h \in Handles, WriteRest(h) \/ ReplaceLog(h) PROVE HInv'
  <2>1. OthersStay(h)
    BY <1>0, <1>13 DEF WriteRest, ReplaceLog, OthersStay
  <2>2. /\ \/ pc[h] \in {"write", "half"} /\ pc'[h] = "sync" /\ offset'[h] = offset[h]
           \/ /\ pc[h] = "install" /\ pc'[h] = "index"
              /\ offset'[h] = Len(lines') /\ durable' = Len(lines')
        /\ staged'[h] = staged[h] /\ view'[h] = view[h]
        /\ lock' = lock /\ lines' = lines \o staged[h]
    BY <1>0, <1>13 DEF WriteRest, ReplaceLog
  <2>3. IsPrefix(view[h], lines')
    BY <1>0, <2>2, PrefixStays DEF Own
  <2>4. lock = h
    BY <1>0, <2>2 DEF Own, Holding
  <2>5. Own(h)'
    BY <1>0, <2>2, <2>3 DEF Own, Holding
  <2>. QED BY <1>0, <2>1, <2>2, <2>4, <2>5, HandleStep
<1>14. ASSUME NEW h \in Handles, SyncAndReturn(h) \/ IndexImported(h) PROVE HInv'
  <2>1. lock = h /\ lock' = NoHandle /\ lines = view[h] \o staged[h] /\ lines' = lines
    BY <1>0, <1>14 DEF Own, Holding, SyncAndReturn, IndexImported, disk
  <2>2. OthersStay(h)
    BY <1>0, <1>14, <1>d, <2>1 DEF SyncAndReturn, IndexImported, Return, OthersStay
  <2>3. view'[h] = lines /\ pc'[h] = "idle"
    BY <1>0, <1>14, <2>1 DEF SyncAndReturn, IndexImported, Return
  <2>4. Len(lines) = Len(view[h]) + Len(staged[h])
    BY <1>0, <2>1, ConcatProperties
  <2>5. offset'[h] = Len(lines)
    BY <1>0, <1>14, <2>4 DEF Own, SyncAndReturn, IndexImported
  <2>6. Own(h)'
    BY <1>0, <1>d, <2>1, <2>3, <2>5 DEF Own, Holding
  <2>. QED BY <2>1, <2>2, <2>6, HandleStep
<1>15. ASSUME NEW h \in Handles, RecoverRead(h) PROVE HInv'
  <2>1. OthersStay(h)
    BY <1>0, <1>15, <1>d DEF RecoverRead, OthersStay
  <2>2. /\ pc[h] = "closed" /\ pc'[h] = "recover" /\ staged'[h] = lines /\ view'[h] = view[h]
        /\ offset'[h] = offset[h] /\ lock' = h /\ UNCHANGED <<lines, durable>>
    BY <1>0, <1>15 DEF RecoverRead, disk
  <2>3. Own(h)'
    BY <1>0, <2>2 DEF Own, Holding
  <2>. QED BY <2>1, <2>2, <2>3, HandleStep
<1>16. ASSUME NEW h \in Handles, RecoverReplace(h) PROVE HInv'
  <2>1. lock = h /\ lock' = NoHandle /\ staged[h] = lines /\ lines' = lines
    BY <1>0, <1>16 DEF Own, Holding, RecoverReplace
  <2>2. OthersStay(h)
    BY <1>0, <1>16, <1>d, <2>1 DEF RecoverReplace, OthersStay
  <2>3. /\ pc[h] = "recover" /\ pc'[h] = "closed" /\ view'[h] = view[h]
        /\ offset'[h] = offset[h]
    BY <1>0, <1>16 DEF RecoverReplace
  <2>4. Own(h)'
    BY <1>0, <1>d, <2>1, <2>3 DEF Own, Holding
  <2>. QED BY <2>1, <2>2, <2>4, HandleStep
<1>17. ASSUME PowerLoss PROVE HInv'
  <2>1. PICK n \in durable .. Len(lines) : lines' = SubSeq(lines, 1, n)
    BY <1>17 DEF PowerLoss
  <2>2. n \in 0 .. Len(lines)
    BY <1>0 DEF IInv, TypeOK
  <2>3. lines' \in Seq(Event)
    BY <1>0, <2>1, <2>2, PrefixType
  <2>4. IsPrefix(<<>>, lines') /\ Len(<<>>) = 0
    BY <2>3, PrefixSelf, EmptySeq
  <2>5. \A h \in Handles : pc'[h] = "closed" /\ view'[h] = <<>> /\ offset'[h] = 0 /\ lock' # h
    BY <1>17, <1>d DEF PowerLoss
  <2>6. \A h \in Handles : Own(h)'
    BY <1>c, <2>4, <2>5 DEF Own
  <2>. QED BY <2>6 DEF HInv, Own, CopiesArePrefixes, HolderIsCurrent, StagedLoads
<1>18. CASE UNCHANGED vars
  BY <1>18 DEF vars, HInv, IInv, CopiesArePrefixes, HolderIsCurrent, StagedLoads
<1>. QED
  BY <1>1, <1>2, <1>4, <1>5, <1>6, <1>7, <1>8, <1>9, <1>10, <1>11, <1>12, <1>13,
     <1>14, <1>15, <1>16, <1>17, <1>18
  DEF Next, Read, Call, Locked, Work

-----------------------------------------------------------------------------
(* The log and what was acknowledged.                                      *)

(* The steps that put lines on disk: what the holder staged goes after     *)
(* what is there, and nothing else ever adds a line.                       *)
LEMMA LinesMove ==
  ASSUME IInv, [Next]_vars
  PROVE  \/ lines' = lines
         \/ \E h \in Handles :
               /\ pc[h] \in {"write", "half", "install"}
               /\ lines' = lines \o staged[h]
         \/ \E n \in durable .. Len(lines) : lines' = SubSeq(lines, 1, n)
<1>1. \A h \in Handles : Read(h) => lines' = lines
  BY DEF Read, Open, Refresh, disk
<1>2. \A h \in Handles : Call(h) => lines' = lines
  BY DEF Call, Begin, BeginVersion, BeginIngest, BeginAlert, BeginImport, disk
<1>3. \A h \in Handles : Locked(h) => lines' = lines
  BY DEF Locked, Admit, Refuse, CatchUpFails, AdmitImport, RefuseImport, disk
<1>4. \A h \in Handles : RecoverRead(h) \/ Crash(h) => lines' = lines
  BY DEF RecoverRead, Crash, disk
<1>5. ASSUME NEW h \in Handles, Work(h)
      PROVE  \/ lines' = lines
             \/ pc[h] \in {"write", "half", "install"} /\ lines' = lines \o staged[h]
  <2>1. CASE RecoverReplace(h)
    BY <2>1 DEF RecoverReplace, IInv, HolderIsCurrent
  <2>2. CASE WritePart(h) \/ WriteRest(h) \/ WriteFails(h)
    BY <2>2 DEF WritePart, WriteRest, WriteFails, disk
  <2>3. CASE SyncAndReturn(h) \/ IndexImported(h)
    BY <2>3 DEF SyncAndReturn, IndexImported, disk
  <2>4. CASE InstallPayload(h) \/ ReplaceLog(h) \/ InstallFails(h)
    BY <2>4 DEF InstallPayload, ReplaceLog, InstallFails, disk
  <2>. QED BY <1>5, <2>1, <2>2, <2>3, <2>4 DEF Work
<1>6. PowerLoss => \E n \in durable .. Len(lines) : lines' = SubSeq(lines, 1, n)
  BY DEF PowerLoss
<1>7. UNCHANGED vars => lines' = lines
  BY DEF vars
<1>. QED
  BY <1>1, <1>2, <1>3, <1>4, <1>5, <1>6, <1>7 DEF Next

LEMMA LogStep ==
  ASSUME IInv, [Next]_vars
  PROVE  LogValid'
<1>0. lines \in Seq(Event) /\ Valid(lines)
  BY DEF IInv, TypeOK, LogValid
<1>1. CASE lines' = lines
  BY <1>0, <1>1 DEF LogValid
<1>2. ASSUME NEW h \in Handles, pc[h] \in {"write", "half", "install"},
             lines' = lines \o staged[h]
      PROVE  LogValid'
  <2>1. view[h] = lines /\ LoadsFrom(lines \o staged[h], Len(lines))
    BY <1>2 DEF IInv, HolderIsCurrent, StagedLoads
  <2>2. staged[h] \in Seq(Event)
    BY DEF IInv, TypeOK
  <2>. QED BY <1>0, <1>2, <2>1, <2>2, ValidExtension DEF LogValid
<1>3. ASSUME NEW n \in durable .. Len(lines), lines' = SubSeq(lines, 1, n)
      PROVE  LogValid'
  <2>1. n \in 0 .. Len(lines)
    BY DEF IInv, TypeOK
  <2>. QED BY <1>0, <1>3, <2>1, ValidPrefix DEF LogValid
<1>. QED BY <1>1, <1>2, <1>3, LinesMove

(* The lines behind an fsync stay where they are. *)
LEMMA DurableStays ==
  ASSUME IInv, [Next]_vars
  PROVE  /\ durable \in Nat /\ durable' \in Nat /\ durable <= durable'
         /\ durable' <= Len(lines')
         /\ \A k \in 1 .. durable : lines'[k] = lines[k]
<1>0. lines \in Seq(Event) /\ durable \in 0 .. Len(lines) /\ Len(lines) \in Nat
  BY LenProperties DEF IInv, TypeOK
<1>1. durable' \in 0 .. Len(lines') /\ Len(lines') \in Nat
  BY TypeStep, LenProperties DEF TypeOK
<1>2. \A k \in 1 .. durable : lines'[k] = lines[k]
  <2>1. CASE lines' = lines
    BY <2>1
  <2>2. ASSUME NEW h \in Handles, lines' = lines \o staged[h]
        PROVE  \A k \in 1 .. durable : lines'[k] = lines[k]
    <3>1. staged[h] \in Seq(Event) /\ Len(staged[h]) \in Nat
      BY LenProperties DEF IInv, TypeOK
    <3>. QED BY <1>0, <2>2, <3>1, ConcatProperties
  <2>3. ASSUME NEW n \in durable .. Len(lines), lines' = SubSeq(lines, 1, n)
        PROVE  \A k \in 1 .. durable : lines'[k] = lines[k]
    <3>1. n \in 0 .. Len(lines) /\ \A k \in 1 .. durable : k \in 1 .. n
      BY <1>0
    <3>. QED BY <1>0, <2>3, <3>1, PrefixType
  <2>. QED BY <2>1, <2>2, <2>3, LinesMove
<1>3. \/ durable' = durable
      \/ durable' = Len(lines') /\ durable <= Len(lines')
  <2>1. \A h \in Handles : SyncAndReturn(h) => durable' = Len(lines') /\ durable <= Len(lines')
    <3>1. durable <= Len(lines)
      BY <1>0
    <3>. QED BY <3>1 DEF SyncAndReturn
  <2>2. \A h \in Handles : ReplaceLog(h) => durable' = Len(lines') /\ durable <= Len(lines')
    <3>1. SUFFICES ASSUME NEW h \in Handles, ReplaceLog(h)
                   PROVE  durable' = Len(lines') /\ durable <= Len(lines')
      OBVIOUS
    <3>2. staged[h] \in Seq(Event) /\ Len(staged[h]) \in Nat
      BY LenProperties DEF IInv, TypeOK
    <3>3. Len(lines') = Len(lines) + Len(staged[h])
      BY <1>0, <3>1, <3>2, ConcatProperties DEF ReplaceLog
    <3>. QED BY <1>0, <3>1, <3>2, <3>3 DEF ReplaceLog
  <2>3. \A h \in Handles : RecoverReplace(h) => durable' = Len(lines') /\ durable <= Len(lines')
    <3>1. SUFFICES ASSUME NEW h \in Handles, RecoverReplace(h)
                   PROVE  durable' = Len(lines') /\ durable <= Len(lines')
      OBVIOUS
    <3>2. staged[h] = lines
      BY <3>1 DEF RecoverReplace, IInv, HolderIsCurrent
    <3>. QED BY <1>0, <3>1, <3>2 DEF RecoverReplace
  <2>4. \/ durable' = durable
        \/ \E h \in Handles : SyncAndReturn(h) \/ ReplaceLog(h) \/ RecoverReplace(h)
    <3>1. \A h \in Handles : Read(h) \/ RecoverRead(h) \/ Crash(h) => durable' = durable
      BY DEF Read, Open, Refresh, RecoverRead, Crash, disk
    <3>2. \A h \in Handles : Call(h) => durable' = durable
      BY DEF Call, Begin, BeginVersion, BeginIngest, BeginAlert, BeginImport, disk
    <3>3. \A h \in Handles : Locked(h) => durable' = durable
      BY DEF Locked, Admit, Refuse, CatchUpFails, AdmitImport, RefuseImport, disk
    <3>4. \A h \in Handles : WritePart(h) \/ WriteRest(h) \/ WriteFails(h) => durable' = durable
      BY DEF WritePart, WriteRest, WriteFails, disk
    <3>5. \A h \in Handles : InstallPayload(h) \/ InstallFails(h) \/ IndexImported(h) => durable' = durable
      BY DEF InstallPayload, InstallFails, IndexImported, disk
    <3>6. PowerLoss \/ UNCHANGED vars => durable' = durable
      BY DEF PowerLoss, vars
    <3>. QED BY <3>1, <3>2, <3>3, <3>4, <3>5, <3>6 DEF Next, Work
  <2>. QED BY <2>1, <2>2, <2>3, <2>4
<1>. QED BY <1>0, <1>1, <1>2, <1>3

LEMMA ShiftedPosition ==
  ASSUME NEW m \in Nat, NEW n \in Nat, NEW i \in 1 .. n
  PROVE  m + i \in 1 .. m + n
OBVIOUS

(* What is acknowledged is what was just synced, or replaced. *)
LEMMA AckedMoves ==
  ASSUME IInv, [Next]_vars
  PROVE  \/ acked' = acked
         \/ /\ durable' = Len(lines) /\ lines' = lines
            /\ acked' \subseteq acked \cup {lines[k] : k \in 1 .. Len(lines)}
            /\ acked \subseteq acked'
<1>1. ASSUME NEW h \in Handles, SyncAndReturn(h) \/ IndexImported(h)
      PROVE  /\ durable' = Len(lines) /\ lines' = lines
             /\ acked' = acked \cup Range(staged[h])
             /\ lines = view[h] \o staged[h]
  BY <1>1 DEF SyncAndReturn, IndexImported, disk, IInv, HolderIsCurrent
<1>2. ASSUME NEW h \in Handles, lines = view[h] \o staged[h]
      PROVE  Range(staged[h]) \subseteq {lines[k] : k \in 1 .. Len(lines)}
  <2>1. /\ view[h] \in Seq(Event) /\ staged[h] \in Seq(Event)
        /\ Len(view[h]) \in Nat /\ Len(staged[h]) \in Nat
    BY LenProperties DEF IInv, TypeOK
  <2>2. ASSUME NEW i \in 1 .. Len(staged[h])
        PROVE  \E k \in 1 .. Len(lines) : staged[h][i] = lines[k]
    <3>0. Len(lines) = Len(view[h]) + Len(staged[h])
      BY <1>2, <2>1, ConcatProperties
    <3>1. Len(view[h]) + i \in 1 .. Len(lines)
      BY <2>1, <3>0, ShiftedPosition
    <3>2. lines[Len(view[h]) + i] = staged[h][i]
      BY <1>2, <2>1, <3>1, ConcatProperties
    <3>. QED BY <3>1, <3>2
  <2>3. DOMAIN staged[h] = 1 .. Len(staged[h])
    BY <2>1, LenProperties
  <2>. QED BY <2>2, <2>3 DEF Range
<1>3. \/ acked' = acked
      \/ \E h \in Handles : SyncAndReturn(h) \/ IndexImported(h)
  <2>1. \A h \in Handles : Read(h) \/ RecoverRead(h) \/ Crash(h) => acked' = acked
    BY DEF Read, Open, Refresh, RecoverRead, Crash
  <2>2. \A h \in Handles : Call(h) => acked' = acked
    BY DEF Call, Begin, BeginVersion, BeginIngest, BeginAlert, BeginImport
  <2>3. \A h \in Handles : Locked(h) => acked' = acked
    BY DEF Locked, Admit, Refuse, CatchUpFails, AdmitImport, RefuseImport
  <2>4. \A h \in Handles : WritePart(h) \/ WriteRest(h) \/ WriteFails(h) => acked' = acked
    BY DEF WritePart, WriteRest, WriteFails
  <2>5. \A h \in Handles :
          InstallPayload(h) \/ ReplaceLog(h) \/ InstallFails(h) \/ RecoverReplace(h) => acked' = acked
    BY DEF InstallPayload, ReplaceLog, InstallFails, RecoverReplace
  <2>6. PowerLoss \/ UNCHANGED vars => acked' = acked
    BY DEF PowerLoss, vars
  <2>. QED BY <2>1, <2>2, <2>3, <2>4, <2>5, <2>6 DEF Next, Work
<1>. QED BY <1>1, <1>2, <1>3

LEMMA AckedStep ==
  ASSUME IInv, [Next]_vars
  PROVE  AckedIsDurable'
<1>1. ASSUME NEW e \in acked PROVE Len(e.prev) + 1 <= durable' /\ lines'[Len(e.prev) + 1] = e
  <2>1. Len(e.prev) + 1 <= durable /\ lines[Len(e.prev) + 1] = e
    BY DEF IInv, AckedIsDurable
  <2>2. Len(e.prev) \in Nat
    <3>1. e \in Event
      BY DEF IInv, TypeOK
    <3>. QED BY <3>1, LenProperties DEF Event
  <2>. QED BY <2>1, <2>2, DurableStays
<1>2. ASSUME lines' = lines, durable' = Len(lines), NEW k \in 1 .. Len(lines)
      PROVE  Len(lines[k].prev) + 1 <= durable' /\ lines'[Len(lines[k].prev) + 1] = lines[k]
  <2>1. Len(lines[k].prev) + 1 = k
    BY LineHeld DEF IInv, TypeOK, LogValid
  <2>. QED BY <1>2, <2>1
<1>. QED BY <1>1, <1>2, AckedMoves DEF AckedIsDurable

-----------------------------------------------------------------------------
(* The theorems.                                                           *)

LEMMA InitInv == Init => IInv
<1>1. SUFFICES ASSUME Init PROVE IInv
  OBVIOUS
<1>2. TypeOK
  BY <1>1, TypeInit
<1>3. /\ lines = <<>> /\ Len(<<>>) = 0 /\ IsPrefix(<<>>, <<>>) /\ acked = {}
      /\ \A h \in Handles : view[h] = <<>> /\ offset[h] = 0 /\ pc[h] = "closed" /\ lock # h
      /\ "closed" \notin Holding
  BY <1>1, EmptySeq, PrefixSelf, StoreConstants DEF Init, Holding
<1>4. CopiesArePrefixes
  BY <1>3 DEF CopiesArePrefixes
<1>5. HolderIsCurrent
  BY <1>3 DEF HolderIsCurrent
<1>6. StagedLoads
  BY <1>3 DEF StagedLoads
<1>7. LogValid
  BY <1>3 DEF LogValid, Valid, LoadsFrom
<1>8. AckedIsDurable
  BY <1>3 DEF AckedIsDurable
<1>. QED BY <1>2, <1>4, <1>5, <1>6, <1>7, <1>8 DEF IInv

LEMMA StepInv == IInv /\ [Next]_vars => IInv'
BY TypeStep, HandlesStep, LogStep, AckedStep DEF IInv, HInv

(* The invariant of the store, for every number of handles and events.     *)
THEOREM StoreInvariant == Spec => []IInv
BY InitInv, StepInv, PTL DEF Spec

(* The variables keep their types. *)
THEOREM TypeCorrect == Spec => []TypeOK
BY StoreInvariant, PTL DEF IInv

(* Every complete line of the file always passes the reader's checks. *)
THEOREM LogAlwaysValid == Spec => []LogValid
BY StoreInvariant, PTL DEF IInv

(* No copy of a handle ever disagrees with the file or runs ahead of it. *)
THEOREM CopiesAgree == Spec => []CopiesArePrefixes
BY StoreInvariant, PTL DEF IInv

(* An acknowledged event survives every crash and power loss. *)
THEOREM AcknowledgedIsDurable == Spec => []AckedIsDurable
BY StoreInvariant, PTL DEF IInv

(* Two racing appends never both get a version, and none is skipped. *)
THEOREM VersionsAreLinear == Spec => []VersionsLinear
<1>1. IInv => VersionsLinear
  BY ValidVersionsInOrder, ValidSkipsNoVersion DEF IInv, TypeOK, LogValid, VersionsLinear
<1>. QED BY <1>1, StoreInvariant, PTL

(* An idempotency key is ingested once. *)
THEOREM IngestsOnce == Spec => []IngestedOnce
<1>1. IInv => IngestedOnce
  BY ValidIngestsOnce DEF IInv, TypeOK, LogValid, IngestedOnce
<1>. QED BY <1>1, StoreInvariant, PTL

(* recorded_time never decreases along the log. *)
THEOREM RecordsInTimeOrder == Spec => []TimesOrdered
<1>1. IInv => TimesOrdered
  BY ValidIsOrdered DEF IInv, TypeOK, LogValid, TimesOrdered
<1>. QED BY <1>1, StoreInvariant, PTL

-----------------------------------------------------------------------------
(***************************************************************************)
(* Custody of payloads, and the torn tail.  Payloads are put into the      *)
(* directory before the event that refers to them is asked for, and are    *)
(* never taken out; and whoever is past the lock found the file whole.     *)
(***************************************************************************)
Kept(h) ==
  /\ pc[h] = "append" /\ want[h][1].kind \in {"ingestion", "duplicate"} => want[h][1].id \in payloads
  /\ pc[h] \in {"write", "half"} => PayloadsOf(staged[h]) \subseteq payloads
  /\ pc[h] \in {"write", "sync", "install", "index"} => ~torn

Custody == IInv /\ PayloadBeforeEvent /\ \A h \in Handles : Kept(h)

LEMMA PayloadsOfExtension ==
  ASSUME NEW s \in Seq(Event), NEW t \in Seq(Event)
  PROVE  PayloadsOf(s \o t) \subseteq PayloadsOf(s) \cup PayloadsOf(t)
<1>1. SUFFICES ASSUME NEW i \in 1 .. Len(s \o t), (s \o t)[i].body.kind \in {"ingestion", "duplicate"}
               PROVE  (s \o t)[i].body.id \in PayloadsOf(s) \cup PayloadsOf(t)
  BY DEF PayloadsOf
<1>2. /\ Len(s) \in Nat /\ Len(t) \in Nat /\ i \in 1 .. Len(s) + Len(t)
      /\ (s \o t)[i] = IF i <= Len(s) THEN s[i] ELSE t[i - Len(s)]
  BY ConcatProperties, LenProperties
<1>3. CASE i <= Len(s)
  <2>1. i \in 1 .. Len(s) /\ (s \o t)[i] = s[i]
    BY <1>2, <1>3
  <2>. QED BY <1>1, <2>1 DEF PayloadsOf
<1>4. CASE ~(i <= Len(s))
  <2>1. i - Len(s) \in 1 .. Len(t) /\ (s \o t)[i] = t[i - Len(s)]
    BY <1>2, <1>4
  <2>. QED BY <1>1, <2>1 DEF PayloadsOf
<1>. QED BY <1>3, <1>4

LEMMA PayloadsOfPrefix ==
  ASSUME NEW s \in Seq(Event), NEW n \in 0 .. Len(s)
  PROVE  PayloadsOf(SubSeq(s, 1, n)) \subseteq PayloadsOf(s)
<1>1. /\ Len(SubSeq(s, 1, n)) = n /\ \A i \in 1 .. n : SubSeq(s, 1, n)[i] = s[i] /\ i \in 1 .. Len(s)
  BY PrefixType, LenProperties
<1>. QED BY <1>1 DEF PayloadsOf

LEMMA PayloadsOfOne ==
  ASSUME NEW e
  PROVE  PayloadsOf(<<e>>) \subseteq IF e.body.kind \in {"ingestion", "duplicate"} THEN {e.body.id} ELSE {}
BY DEF PayloadsOf

(* Payloads stay, and a step of h tears the file only while h has the      *)
(* lock: what holds of the other handles goes on.                          *)
LEMMA CustodyStep ==
  ASSUME Custody, NEW h \in Handles, OthersStay(h),
         payloads \subseteq payloads', lines' = lines \/ PayloadsOf(lines') \subseteq payloads',
         torn' => torn \/ lock = h, Kept(h)'
  PROVE  PayloadBeforeEvent' /\ \A g \in Handles : Kept(g)'
<1>1. PayloadBeforeEvent'
  BY DEF Custody, PayloadBeforeEvent
<1>2. ASSUME NEW g \in Handles \ {h}
      PROVE  Kept(g)'
  <2>1. pc'[g] = pc[g] /\ want'[g] = want[g] /\ staged'[g] = staged[g]
    BY DEF OthersStay
  <2>2. pc[g] \in {"write", "sync", "install", "index"} => lock # h
    <3>1. pc[g] \in Holding => lock = g
      BY DEF Custody, IInv, HolderIsCurrent
    <3>. QED BY <3>1 DEF Holding
  <2>. QED BY <2>1, <2>2 DEF Custody, Kept
<1>. QED BY <1>1, <1>2

(* A handle that is not appending holds nothing that could be refused. *)
LEMMA AtRest ==
  ASSUME Custody, NEW h \in Handles, OthersStay(h),
         payloads' = payloads, lines' = lines, torn' = torn \/ torn' = FALSE,
         pc'[h] \in {"closed", "idle", "import", "recover"}
  PROVE  PayloadBeforeEvent' /\ \A g \in Handles : Kept(g)'
<1>1. Kept(h)'
  BY DEF Kept
<1>. QED BY <1>1, CustodyStep

LEMMA CustodyKeeps ==
  ASSUME Custody, [Next]_vars
  PROVE  PayloadBeforeEvent' /\ \A h \in Handles : Kept(h)'
<1>0. /\ lines \in Seq(Event)
      /\ \A h \in Handles : /\ view[h] \in Seq(Event) /\ staged[h] \in Seq(Event)
                            /\ want[h] \in Seq(Body) /\ Own(h) /\ Kept(h)
      /\ pc \in [Handles -> Phases] /\ view \in [Handles -> Seq(Event)]
      /\ offset \in [Handles -> Nat] /\ want \in [Handles -> Seq(Body)]
      /\ staged \in [Handles -> Seq(Event)]
  BY OwnOf DEF Custody, IInv, TypeOK
<1>a. NoHandle \notin Handles
  BY StoreConstants
<1>b. \A h \in Handles : pc[h] \in {"write", "half", "sync", "install", "index", "recover"} => lock = h
  BY <1>0 DEF Own, Holding
<1>1. ASSUME NEW h \in Handles, Read(h) \/ Refuse(h) \/ RefuseImport(h) \/ CatchUpFails(h) \/ WriteFails(h)
                                \/ SyncAndReturn(h) \/ InstallFails(h) \/ IndexImported(h)
      PROVE  PayloadBeforeEvent' /\ \A g \in Handles : Kept(g)'
  <2>1. OthersStay(h)
    BY <1>0, <1>1, <1>a, <1>b DEF OthersStay, Read, Open, Refresh, Refuse, RefuseImport, CatchUpFails, WriteFails,
                             SyncAndReturn, InstallFails, IndexImported, Return, TakeCatchUp
  <2>2. /\ payloads' = payloads /\ lines' = lines /\ torn' = torn /\ pc'[h] = "idle"
    BY <1>0, <1>1 DEF Read, Open, Refresh, Refuse, RefuseImport, CatchUpFails, WriteFails,
                      SyncAndReturn, InstallFails, IndexImported, Return, disk
  <2>. QED BY <2>1, <2>2, AtRest
<1>2. ASSUME NEW h \in Handles, RecoverRead(h) \/ RecoverReplace(h) \/ Crash(h)
      PROVE  PayloadBeforeEvent' /\ \A g \in Handles : Kept(g)'
  <2>1. OthersStay(h)
    BY <1>0, <1>2, <1>a, <1>b DEF OthersStay, RecoverRead, RecoverReplace, Crash
  <2>2. lines' = lines /\ payloads' = payloads /\ (torn' = torn \/ torn' = FALSE)
    BY <1>0, <1>2 DEF RecoverRead, RecoverReplace, Crash, disk, Own
  <2>3. pc'[h] \in {"closed", "recover"}
    BY <1>0, <1>2 DEF RecoverRead, RecoverReplace, Crash
  <2>. QED BY <2>1, <2>2, <2>3, AtRest
<1>3. ASSUME NEW h \in Handles, NEW bodies, BeginImport(h, bodies)
      PROVE  PayloadBeforeEvent' /\ \A g \in Handles : Kept(g)'
  <2>1. OthersStay(h)
    BY <1>0, <1>3 DEF OthersStay, BeginImport
  <2>2. lines' = lines /\ payloads' = payloads /\ torn' = torn /\ pc'[h] = "import"
    BY <1>0, <1>3 DEF BeginImport, disk
  <2>. QED BY <2>1, <2>2, AtRest
<1>4. (* An append is asked for: the payload is there. *)
      ASSUME NEW h \in Handles, NEW body, Begin(h, body), payloads \subseteq payloads',
             body.kind \in {"ingestion", "duplicate"} => body.id \in payloads'
      PROVE  PayloadBeforeEvent' /\ \A g \in Handles : Kept(g)'
  <2>1. OthersStay(h)
    BY <1>0, <1>4 DEF OthersStay, Begin
  <2>2. pc'[h] = "append" /\ want'[h] = <<body>> /\ lines' = lines /\ torn' = torn
    BY <1>0, <1>4 DEF Begin, disk
  <2>3. Kept(h)'
    BY <1>4, <2>2 DEF Kept
  <2>. QED BY <1>4, <2>1, <2>2, <2>3, CustodyStep
<1>5. ASSUME NEW h \in Handles, NEW id, NEW t,
             BeginVersion(h, id, t) \/ BeginIngest(h, id, t) \/ BeginAlert(h, id, t)
      PROVE  PayloadBeforeEvent' /\ \A g \in Handles : Kept(g)'
  BY <1>4, <1>5 DEF BeginVersion, BeginIngest, BeginAlert
<1>6. ASSUME NEW h \in Handles, Admit(h)
      PROVE  PayloadBeforeEvent' /\ \A g \in Handles : Kept(g)'
  <2>1. OthersStay(h)
    BY <1>0, <1>6, <1>a DEF OthersStay, Admit, TakeCatchUp
  <2>2. /\ pc[h] = "append" /\ Head(want[h]) = want[h][1] /\ pc'[h] = "write" /\ ~torn
        /\ lines' = lines /\ torn' = torn /\ payloads' = payloads
        /\ staged'[h] = <<Sealed(CaughtUp(h), Head(want[h]))>>
    <3>1. Len(want[h]) = 1 /\ want[h] # <<>>
      BY <1>0, <1>6, OneNotEmpty DEF Own, Admit
    <3>. QED BY <1>0, <1>6, <3>1 DEF Admit, CanCatchUp, disk
  <2>3. Sealed(CaughtUp(h), Head(want[h])).body = want[h][1]
    BY <2>2 DEF Sealed
  <2>4. PayloadsOf(staged'[h]) \subseteq payloads
    <3>1. want[h][1].kind \in {"ingestion", "duplicate"} => want[h][1].id \in payloads
      BY <1>0, <2>2 DEF Kept
    <3>. QED BY <2>2, <2>3, <3>1, PayloadsOfOne
  <2>5. Kept(h)'
    <3>1. PayloadsOf(staged'[h]) = PayloadsOf(staged[h])'
      BY DEF PayloadsOf
    <3>. QED BY <2>2, <2>4, <3>1 DEF Kept
  <2>. QED BY <2>1, <2>2, <2>5, CustodyStep
<1>7. ASSUME NEW h \in Handles, AdmitImport(h) \/ InstallPayload(h)
      PROVE  PayloadBeforeEvent' /\ \A g \in Handles : Kept(g)'
  <2>1. OthersStay(h)
    BY <1>0, <1>7, <1>a DEF OthersStay, AdmitImport, InstallPayload, TakeCatchUp
  <2>2. lines' = lines /\ torn' = torn /\ ~torn /\ payloads \subseteq payloads' /\ pc'[h] = "install"
    BY <1>0, <1>7 DEF AdmitImport, InstallPayload, CanCatchUp, Kept, disk
  <2>3. Kept(h)'
    BY <2>2 DEF Kept
  <2>. QED BY <2>1, <2>2, <2>3, CustodyStep
<1>8. ASSUME NEW h \in Handles, WritePart(h)
      PROVE  PayloadBeforeEvent' /\ \A g \in Handles : Kept(g)'
  <2>1. OthersStay(h)
    BY <1>0, <1>8 DEF OthersStay, WritePart
  <2>2. lines' = lines /\ lock = h /\ payloads' = payloads /\ staged' = staged /\ pc[h] = "write" /\ pc'[h] = "half"
    BY <1>0, <1>8, <1>b DEF WritePart
  <2>3. Kept(h)'
    BY <1>0, <2>2 DEF Kept, PayloadsOf
  <2>. QED BY <2>1, <2>2, <2>3, CustodyStep
<1>9. ASSUME NEW h \in Handles, WriteRest(h)
      PROVE  PayloadBeforeEvent' /\ \A g \in Handles : Kept(g)'
  <2>1. OthersStay(h)
    BY <1>0, <1>9 DEF OthersStay, WriteRest
  <2>2. lines' = lines \o staged[h] /\ payloads' = payloads /\ ~torn' /\ pc'[h] = "sync"
    BY <1>0, <1>9 DEF WriteRest
  <2>3. PayloadsOf(lines') \subseteq payloads'
    <3>1. PayloadsOf(staged[h]) \subseteq payloads /\ PayloadsOf(lines) \subseteq payloads
      BY <1>0, <1>9 DEF WriteRest, Kept, Custody, PayloadBeforeEvent
    <3>. QED BY <1>0, <2>2, <3>1, PayloadsOfExtension
  <2>4. Kept(h)'
    BY <2>2 DEF Kept
  <2>. QED BY <2>1, <2>2, <2>3, <2>4, CustodyStep
<1>10. ASSUME NEW h \in Handles, ReplaceLog(h)
       PROVE  PayloadBeforeEvent' /\ \A g \in Handles : Kept(g)'
  <2>1. OthersStay(h)
    BY <1>0, <1>10 DEF OthersStay, ReplaceLog
  <2>2. lines' = lines \o staged[h] /\ payloads' = payloads /\ torn' = torn /\ ~torn /\ pc'[h] = "index"
    BY <1>0, <1>10 DEF ReplaceLog, Kept
  <2>3. PayloadsOf(lines') \subseteq payloads'
    <3>1. PayloadsOf(staged[h]) \subseteq payloads /\ PayloadsOf(lines) \subseteq payloads
      BY <1>10 DEF ReplaceLog, Custody, PayloadBeforeEvent
    <3>. QED BY <1>0, <2>2, <3>1, PayloadsOfExtension
  <2>4. Kept(h)'
    BY <2>2 DEF Kept
  <2>. QED BY <2>1, <2>2, <2>3, <2>4, CustodyStep
<1>11. CASE PowerLoss
  <2>1. \A g \in Handles : Kept(g)'
    BY <1>11 DEF PowerLoss, Kept
  <2>2. PICK n \in durable .. Len(lines) : lines' = SubSeq(lines, 1, n)
    BY <1>11 DEF PowerLoss
  <2>3. n \in 0 .. Len(lines)
    BY DEF Custody, IInv, TypeOK
  <2>4. PayloadsOf(lines') \subseteq PayloadsOf(lines)
    BY <1>0, <2>2, <2>3, PayloadsOfPrefix
  <2>5. payloads' = payloads
    BY <1>11 DEF PowerLoss
  <2>. QED BY <2>1, <2>4, <2>5 DEF Custody, PayloadBeforeEvent
<1>12. CASE UNCHANGED vars
  BY <1>12 DEF vars, Custody, PayloadBeforeEvent, Kept, PayloadsOf
<1>. QED BY <1>1, <1>2, <1>3, <1>5, <1>6, <1>7, <1>8, <1>9, <1>10, <1>11, <1>12 DEF Next, Call, Locked, Work

LEMMA CustodyInvariant == Spec => []Custody
<1>1. Init => Custody
  <2>1. Init => PayloadBeforeEvent /\ \A h \in Handles : Kept(h)
    BY DEF Init, PayloadBeforeEvent, PayloadsOf, Kept
  <2>. QED BY <2>1, InitInv DEF Custody
<1>2. Custody /\ [Next]_vars => Custody'
  BY CustodyKeeps, StepInv DEF Custody
<1>. QED BY <1>1, <1>2, PTL DEF Spec

(* V67-ORDER-001: every ingestion in the file finds its payload in         *)
(* custody, wherever a process or the machine dies.                        *)
THEOREM PayloadsComeFirst == Spec => []PayloadBeforeEvent
<1>1. Custody => PayloadBeforeEvent
  BY DEF Custody
<1>. QED BY <1>1, CustodyInvariant, PTL

(* While the file ends in a torn line, only the writer of that line adds   *)
(* to it; everyone else waits or is refused (store.py:254, 514).           *)
THEOREM TornTailsAreFenced == Spec => TornTailIsFenced
<1>1. ASSUME Custody, [Next]_vars, torn
      PROVE  \/ IsPrefix(lines', lines)
             \/ \E h \in Handles : pc[h] = "half" /\ lines' = lines \o staged[h]
  <2>1. lines \in Seq(Event) /\ durable \in 0 .. Len(lines) /\ IInv
    BY <1>1 DEF Custody, IInv, TypeOK
  <2>2. CASE lines' = lines
    BY <2>1, <2>2, PrefixSelf
  <2>3. ASSUME NEW h \in Handles, pc[h] \in {"write", "half", "install"}, lines' = lines \o staged[h]
        PROVE  pc[h] = "half"
    BY <1>1, <2>3 DEF Custody, Kept
  <2>4. ASSUME NEW n \in durable .. Len(lines), lines' = SubSeq(lines, 1, n)
        PROVE  IsPrefix(lines', lines)
    <3>1. n \in 0 .. Len(lines) /\ Len(lines) \in n .. Len(lines) /\ SubSeq(lines, 1, Len(lines)) = lines
      BY <2>1, SubSeqFull, LenProperties
    <3>. QED BY <2>1, <2>4, <3>1, PrefixIsSubSeq
  <2>. QED BY <1>1, <2>1, <2>2, <2>3, <2>4, LinesMove
<1>2. Custody /\ [Next]_vars
        => [torn => \/ IsPrefix(lines', lines)
                    \/ \E h \in Handles : pc[h] = "half" /\ lines' = lines \o staged[h]]_vars
  BY <1>1
<1>. QED BY <1>2, CustodyInvariant, PTL DEF Spec, TornTailIsFenced

(* An imported delta is in the log whole or not at all, wherever the power *)
(* fails (_atomic_write publishes the old bytes and the suffix at once).   *)
THEOREM DeltasAreAtomic == Spec => []DeltaIsAtomic
<1>1. ASSUME IInv
      PROVE  DeltaIsAtomic
  <2>1. SUFFICES ASSUME NEW h \in Handles, pc[h] \in {"install", "index"}, NEW cut \in durable .. Len(lines)
                 PROVE  cut <= Len(view[h]) \/ cut >= Len(view[h]) + Len(staged[h])
    BY DEF DeltaIsAtomic
  <2>2. /\ Len(lines) \in Nat /\ durable \in Nat /\ view[h] \in Seq(Event) /\ staged[h] \in Seq(Event)
    BY <1>1, LenProperties DEF IInv, TypeOK
  <2>3. CASE pc[h] = "install"
    <3>1. view[h] = lines
      BY <1>1, <2>3 DEF IInv, HolderIsCurrent
    <3>. QED BY <2>2, <3>1
  <2>4. CASE pc[h] = "index"
    <3>1. lines = view[h] \o staged[h] /\ durable = Len(lines)
      BY <1>1, <2>4 DEF IInv, HolderIsCurrent
    <3>2. Len(lines) = Len(view[h]) + Len(staged[h])
      BY <2>2, <3>1, ConcatProperties
    <3>. QED BY <2>2, <3>1, <3>2
  <2>. QED BY <2>1, <2>3, <2>4
<1>. QED BY <1>1, StoreInvariant, PTL

-----------------------------------------------------------------------------
(***************************************************************************)
(* The refinement.                                                         *)
(***************************************************************************)
(* The abstract log and the store mean the same by a valid log. *)
LEMMA SameValid ==
  ASSUME NEW s
  PROVE  Valid(s) <=> Abstract!Valid(s)
<1>1. ASSUME NEW t, NEW k, NEW i PROVE At(t, k, i) = Abstract!At(t, k, i)
  BY DEF At, Abstract!At
<1>2. ASSUME NEW T PROVE Max(T) = Abstract!Max(T)
  BY DEF Max, Abstract!Max
<1>3. ASSUME NEW t, NEW i PROVE NextVersion(t, i) = Abstract!NextVersion(t, i)
  BY <1>1, <1>2 DEF NextVersion, Abstract!NextVersion
<1>4. ASSUME NEW t, NEW b PROVE Progresses(t, b) <=> Abstract!Progresses(t, b)
  BY <1>1, <1>3 DEF Progresses, Abstract!Progresses, Ingested, Abstract!Ingested
<1>5. ASSUME NEW t, NEW e PROVE Follows(t, e) <=> Abstract!Follows(t, e)
  BY <1>4 DEF Follows, Abstract!Follows, Bodies, Abstract!Bodies, InTime, Abstract!InTime
<1>. QED BY <1>5 DEF Valid, Abstract!Valid, LoadsFrom, Abstract!LoadsFrom

(* The store implements the abstract log: each of its steps extends the    *)
(* durable log validly, keeps its promises, or does not show at all.       *)
THEOREM StoreImplementsDurableLog == Spec => ImplementsDurableLog
<1>1. Init => Abstract!Init
  <2>1. SubSeq(<<>>, 1, 0) = <<>>
    BY SubSeqEmpty
  <2>. QED BY <2>1 DEF Init, Abstract!Init
<1>2. ASSUME IInv, IInv', [Next]_vars
      PROVE  Abstract!Next
  <2>0. /\ lines \in Seq(Event) /\ lines' \in Seq(Event)
        /\ durable \in 0 .. Len(lines) /\ durable' \in 0 .. Len(lines')
    BY <1>2 DEF IInv, TypeOK
  <2> DEFINE old == SubSeq(lines, 1, durable)
             new == SubSeq(lines', 1, durable')
  <2>1. /\ old \in Seq(Event) /\ Len(old) = durable
        /\ \A k \in 1 .. durable : old[k] = lines[k]
        /\ new \in Seq(Event) /\ Len(new) = durable'
        /\ \A k \in 1 .. durable' : new[k] = lines'[k]
    BY <2>0, PrefixType
  <2>2. /\ durable \in Nat /\ durable' \in Nat /\ durable <= durable'
        /\ \A k \in 1 .. durable : lines'[k] = lines[k]
    BY <1>2, DurableStays
  <2> HIDE DEF old, new
  <2>3. IsPrefix(old, new)
    <3>1. durable \in 0 .. Len(new)
      BY <2>1, <2>2
    <3>2. /\ SubSeq(new, 1, durable) \in Seq(Event) /\ Len(SubSeq(new, 1, durable)) = durable
          /\ \A k \in 1 .. durable : SubSeq(new, 1, durable)[k] = new[k]
      BY <2>1, <3>1, PrefixType
    <3>3. SubSeq(new, 1, durable) = old
      BY <2>1, <2>2, <3>2, SeqEqual
    <3>4. SubSeq(old, 1, durable) = old
      BY <2>1, SubSeqFull
    <3>. QED BY <2>1, <2>2, <3>3, <3>4 DEF IsPrefix
  <2>4. Valid(new)
    BY <1>2, <2>0, ValidPrefix DEF IInv, LogValid, new
  <2>5. acked \subseteq acked'
    BY <1>2, AckedMoves
  <2>6. ASSUME NEW e \in acked'
        PROVE  Len(e.prev) + 1 <= Len(new) /\ new[Len(e.prev) + 1] = e
    <3>1. Len(e.prev) + 1 <= durable' /\ lines'[Len(e.prev) + 1] = e
      BY <1>2 DEF IInv, AckedIsDurable
    <3>2. Len(e.prev) \in Nat
      <4>1. e \in Event
        BY <1>2 DEF IInv, TypeOK
      <4>. QED BY <4>1, LenProperties DEF Event
    <3>. QED BY <2>1, <2>2, <3>1, <3>2
  <2>7. Abstract!IsPrefix(old, new) /\ Abstract!Valid(new)
    BY <2>3, <2>4, SameValid DEF IsPrefix, Abstract!IsPrefix
  <2>. QED BY <2>5, <2>6, <2>7 DEF Abstract!Next, Abstract!Held, old, new
<1>. QED BY <1>1, <1>2, StoreInvariant, PTL DEF Spec, ImplementsDurableLog, Abstract!Spec
=============================================================================
