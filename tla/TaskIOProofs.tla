---------------------------- MODULE TaskIOProofs ----------------------------
(***************************************************************************)
(* What clients see of a running task and what its journal holds, for any  *)
(* clients and any script, and any sizes of the pipes, of the reads and of *)
(* the sockets.                                                            *)
(***************************************************************************)
EXTENDS TaskIO, SequenceTheorems, FiniteSetTheorems,
        WellFoundedInduction, TLAPS

-----------------------------------------------------------------------------
(* The inductive invariant.                                                *)

Distinct(s) == \A j, k \in DOMAIN s : s[j] = s[k] => j = k

\* The connections are those of the clients that were accepted and whose end
\* the dispatch thread has not seen; nothing was sent to the other clients.
OrderShape ==
    /\ Distinct(order)
    /\ Range(order) = {c \in Clients : conn[c] = "open"}
    /\ \A c \in Clients : conn[c] \in {"new", "backlog"} =>
          got[c] = <<>> /\ socket[c] = <<>> /\ c \notin whole

\* New data is sent to one connection after the other.
Broadcasts ==
    /\ data \in Seq(Fragments)
    /\ \A c \in Clients : conn[c] = "open" =>
          /\ c \notin Range(targets) => Mirrors(c, Seen(c), journal \o data)
          /\ c \in Range(targets) =>
                IF c = Head(targets)
                THEN Mirrors(c, Seen(c), journal \o SubSeq(data, 1, sent))
                ELSE Mirrors(c, Seen(c), journal)

\* The journal is replayed to one client.
Replaying ==
    /\ data \in Replays(journal)
    /\ \A k \in 1..sent : data[k] # Failing
    /\ \A c \in Clients : conn[c] = "open" =>
          /\ c \notin Range(targets) => Mirrors(c, Seen(c), journal)
          /\ c \in Range(targets) =>
                /\ c = Head(targets)
                /\ Seen(c) = SubSeq(data, 1, sent)
                /\ c \in whole <=> Whole(journal)

SendShape ==
    /\ dispatch = "send" /\ targets = <<>> => sent = 0
    /\ dispatch = "send" =>
          /\ Distinct(targets)
          /\ \A c \in Range(targets) : conn[c] = "open"
          /\ IF live THEN Broadcasts ELSE Replaying

\* What was read and is not in the journal yet.
Pending == IF dispatch = "send" /\ live THEN data ELSE <<>>

\* All of s was written before what t has of the same pipe.
Before(s, t) ==
    \A f \in Range(s), g \in Range(t) : SamePipe(f, g) => IsBefore(f, g)

WrittenShape ==
    dispatch # "dead" =>
        /\ Range(journal) \cup Range(Pending) \cup Range(logPipe)
              \cup Range(outPipe) = Written
        /\ \A f \in Range(logPipe) : f[2] # 0
        /\ \A f \in Range(outPipe) : f[2] = 0
        /\ InOrder(journal) /\ InOrder(Pending)
        /\ InOrder(logPipe) /\ InOrder(outPipe)
        /\ Before(journal, Pending)
        /\ Before(journal, logPipe) /\ Before(journal, outPipe)
        /\ Before(Pending, logPipe) /\ Before(Pending, outPipe)

StopShape ==
    /\ stop => worker # "running"
    /\ dispatch = "stopped" => stop /\ logPipe = <<>> /\ outPipe = <<>>

IOInv ==
    /\ TypeOK /\ IsFiniteSet(hung)
    /\ OrderShape
    /\ SendShape
    /\ ClientsMirrorJournal
    /\ WrittenShape
    /\ StopShape

-----------------------------------------------------------------------------
(* Lemmas on sequences.                                                    *)

LEMMA RangeOfAppend ==
  ASSUME NEW S, NEW s \in Seq(S), NEW x
  PROVE  Range(Append(s, x)) = Range(s) \cup {x}
  <1>1. \A k \in DOMAIN s : Append(s, x)[k] = s[k]
    OBVIOUS
  <1>2. /\ DOMAIN s = 1..Len(s)
        /\ DOMAIN Append(s, x) = 1..(Len(s) + 1)
        /\ Append(s, x)[Len(s) + 1] = x
    OBVIOUS
  <1>3. Len(s) \in Nat
    OBVIOUS
  <1>4. 1..(Len(s) + 1) = 1..Len(s) \cup {Len(s) + 1}
    BY <1>3
  <1>5. QED
    BY <1>1, <1>2, <1>4 DEF Range

LEMMA DistinctAppend ==
  ASSUME NEW S, NEW s \in Seq(S), NEW x, x \notin Range(s), Distinct(s)
  PROVE  Distinct(Append(s, x))
  BY DEF Distinct, Range

(* The head of a sequence of distinct elements, and the others.            *)
LEMMA DistinctTail ==
  ASSUME NEW S, NEW s \in Seq(S), s # <<>>, Distinct(s)
  PROVE  /\ Tail(s) \in Seq(S) /\ Distinct(Tail(s))
         /\ Range(Tail(s)) = Range(s) \ {Head(s)}
         /\ Head(s) \in Range(s)
  <1>1. /\ Tail(s) \in Seq(S) /\ Len(Tail(s)) = Len(s) - 1
        /\ Len(s) \in Nat \ {0} /\ Head(s) = s[1]
        /\ \A k \in 1..(Len(s) - 1) : Tail(s)[k] = s[k + 1]
        /\ DOMAIN s = 1..Len(s) /\ DOMAIN Tail(s) = 1..(Len(s) - 1)
    OBVIOUS
  <1>2. Distinct(Tail(s))
    <2> SUFFICES ASSUME NEW j \in 1..(Len(s) - 1), NEW k \in 1..(Len(s) - 1),
                        Tail(s)[j] = Tail(s)[k]
                 PROVE  j = k
      BY <1>1 DEF Distinct
    <2>1. s[j + 1] = s[k + 1] /\ j + 1 \in DOMAIN s /\ k + 1 \in DOMAIN s
      BY <1>1
    <2>2. j + 1 = k + 1
      BY <2>1 DEF Distinct
    <2>3. QED
      BY <2>2
  <1>3. Range(Tail(s)) \subseteq Range(s) \ {Head(s)}
    <2> SUFFICES ASSUME NEW k \in 1..(Len(s) - 1)
                 PROVE  Tail(s)[k] \in Range(s) /\ Tail(s)[k] # Head(s)
      BY <1>1 DEF Range
    <2>1. /\ k + 1 \in DOMAIN s /\ 1 \in DOMAIN s /\ k + 1 # 1
          /\ Tail(s)[k] = s[k + 1]
      BY <1>1
    <2>2. QED
      BY <1>1, <2>1 DEF Distinct, Range
  <1>4. Range(s) \ {Head(s)} \subseteq Range(Tail(s))
    <2> SUFFICES ASSUME NEW k \in 1..Len(s), s[k] # Head(s)
                 PROVE  s[k] \in Range(Tail(s))
      BY <1>1 DEF Range
    <2>1. k - 1 \in 1..(Len(s) - 1) /\ Tail(s)[k - 1] = s[k]
      BY <1>1
    <2>2. QED
      BY <1>1, <2>1 DEF Range
  <1>5. Head(s) \in Range(s)
    BY <1>1 DEF Range
  <1>6. QED
    BY <1>1, <1>2, <1>3, <1>4, <1>5

LEMMA MinIsLeast ==
  ASSUME NEW I \in SUBSET Nat, NEW k \in I, \A j \in I : k <= j
  PROVE  Min(I) = k
  <1>1. Min(I) \in I /\ \A j \in I : Min(I) <= j
    BY DEF Min
  <1>2. Min(I) \in Nat /\ k \in Nat
    BY <1>1
  <1>3. Min(I) <= k /\ k <= Min(I)
    BY <1>1
  <1>4. QED
    BY <1>2, <1>3

(* The first occurrence of an element is removed from a sequence.          *)
LEMMA DistinctRemove ==
  ASSUME NEW S, NEW s \in Seq(S), NEW x, Distinct(s)
  PROVE  /\ RemoveFirst(s, x) \in Seq(S)
         /\ Distinct(RemoveFirst(s, x))
         /\ Range(RemoveFirst(s, x)) = Range(s) \ {x}
  <1>1. CASE x \notin Range(s)
    <2>1. RemoveFirst(s, x) = s
      BY <1>1 DEF RemoveFirst, Range
    <2>2. QED
      BY <1>1, <2>1
  <1>2. CASE x \in Range(s)
    <2>1. PICK p \in 1..Len(s) : s[p] = x
      BY <1>2 DEF Range
    <2>2. {i \in 1..Len(s) : s[i] = x} = {p}
      BY <2>1 DEF Distinct
    <2>3. Min({p}) = p
      BY <2>1, MinIsLeast
    <2>4. SelectInSeq(s, LAMBDA v : v = x) = p
      BY <2>2, <2>3 DEF SelectInSeq
    <2>5. RemoveFirst(s, x) = SubSeq(s, 1, p - 1) \o SubSeq(s, p + 1, Len(s))
      BY <2>1, <2>4 DEF RemoveFirst, RemoveAt
    <2> DEFINE r == RemoveFirst(s, x)
    <2>6. /\ SubSeq(s, 1, p - 1) \in Seq(S)
          /\ SubSeq(s, p + 1, Len(s)) \in Seq(S)
          /\ Len(SubSeq(s, 1, p - 1)) = p - 1
          /\ Len(SubSeq(s, p + 1, Len(s))) = Len(s) - p
          /\ \A k \in 1..(p - 1) : SubSeq(s, 1, p - 1)[k] = s[k]
          /\ \A k \in 1..(Len(s) - p) :
                SubSeq(s, p + 1, Len(s))[k] = s[p + k]
      BY <2>1
    <2>7. /\ r \in Seq(S) /\ Len(r) = Len(s) - 1
          /\ \A k \in 1..(Len(s) - 1) :
                r[k] = IF k < p THEN s[k] ELSE s[k + 1]
      <3> DEFINE a == SubSeq(s, 1, p - 1)
                 b == SubSeq(s, p + 1, Len(s))
      <3>1. /\ a \in Seq(S) /\ b \in Seq(S)
            /\ Len(a) = p - 1 /\ Len(b) = Len(s) - p
            /\ \A k \in 1..(p - 1) : a[k] = s[k]
            /\ \A k \in 1..(Len(s) - p) : b[k] = s[p + k]
            /\ r = a \o b
        BY <2>5, <2>6
      <3> HIDE DEF a, b, r
      <3>2. r \in Seq(S) /\ Len(r) = Len(s) - 1
        BY <2>1, <3>1
      <3>3. ASSUME NEW k \in 1..(Len(s) - 1)
            PROVE  r[k] = IF k < p THEN s[k] ELSE s[k + 1]
        <4>1. CASE k < p
          BY <2>1, <3>1, <4>1
        <4>2. CASE k >= p
          <5>1. /\ k - (p - 1) \in 1..(Len(s) - p)
                /\ p + (k - (p - 1)) = k + 1
            BY <2>1, <4>2
          <5>2. r[k] = b[k - (p - 1)]
            BY <2>1, <3>1, <4>2, <5>1
          <5>3. QED
            BY <2>1, <3>1, <4>2, <5>1, <5>2
        <4>3. QED
          BY <2>1, <4>1, <4>2
      <3>4. QED
        BY <3>2, <3>3
    <2> HIDE DEF r
    <2>8. Distinct(r)
      <3> SUFFICES ASSUME NEW j \in 1..(Len(s) - 1), NEW k \in 1..(Len(s) - 1),
                          r[j] = r[k]
                   PROVE  j = k
        BY <2>7 DEF Distinct
      <3> DEFINE at(n) == IF n < p THEN n ELSE n + 1
      <3>1. /\ at(j) \in 1..Len(s) /\ at(k) \in 1..Len(s)
            /\ s[at(j)] = s[at(k)]
        BY <2>1, <2>7
      <3>2. at(j) = at(k)
        BY <3>1 DEF Distinct
      <3>3. QED
        BY <3>2
    <2>9. Range(r) \subseteq Range(s) \ {x}
      <3> SUFFICES ASSUME NEW k \in 1..(Len(s) - 1)
                   PROVE  r[k] \in Range(s) /\ r[k] # x
        BY <2>7 DEF Range
      <3> DEFINE at == IF k < p THEN k ELSE k + 1
      <3>1. at \in 1..Len(s) /\ at # p /\ r[k] = s[at]
        BY <2>1, <2>7
      <3>2. QED
        BY <2>1, <3>1 DEF Distinct, Range
    <2>10. Range(s) \ {x} \subseteq Range(r)
      <3> SUFFICES ASSUME NEW k \in 1..Len(s), s[k] # x
                   PROVE  s[k] \in Range(r)
        BY DEF Range
      <3> DEFINE at == IF k < p THEN k ELSE k - 1
      <3>1. at \in 1..(Len(s) - 1) /\ r[at] = s[k]
        BY <2>1, <2>7
      <3>2. at \in DOMAIN r
        BY <2>7, <3>1
      <3>3. QED
        BY <3>1, <3>2 DEF Range
    <2>11. QED
      BY <2>7, <2>8, <2>9, <2>10 DEF r
  <1>3. QED
    BY <1>1, <1>2

(* Fragments that are together in the order they were written in.          *)
LEMMA ConcatInOrder ==
  ASSUME NEW s \in Seq(Fragments), NEW t \in Seq(Fragments)
  PROVE  InOrder(s \o t) <=> InOrder(s) /\ InOrder(t) /\ Before(s, t)
  <1>1. /\ Len(s) \in Nat /\ Len(t) \in Nat
        /\ DOMAIN s = 1..Len(s) /\ DOMAIN t = 1..Len(t)
        /\ DOMAIN (s \o t) = 1..(Len(s) + Len(t))
        /\ \A k \in 1..Len(s) : (s \o t)[k] = s[k]
        /\ \A k \in 1..Len(t) : (s \o t)[Len(s) + k] = t[k]
    OBVIOUS
  <1>2. ASSUME InOrder(s \o t)
        PROVE  InOrder(s) /\ InOrder(t) /\ Before(s, t)
    <2>1. ASSUME NEW j \in 1..Len(s), NEW k \in 1..Len(s), j < k,
                 SamePipe(s[j], s[k])
          PROVE  IsBefore(s[j], s[k])
      <3>1. j \in 1..(Len(s) + Len(t)) /\ k \in 1..(Len(s) + Len(t))
        BY <1>1
      <3>2. QED
        BY <1>1, <1>2, <2>1, <3>1 DEF InOrder
    <2>2. ASSUME NEW j \in 1..Len(t), NEW k \in 1..Len(t), j < k,
                 SamePipe(t[j], t[k])
          PROVE  IsBefore(t[j], t[k])
      <3>1. /\ Len(s) + j \in 1..(Len(s) + Len(t))
            /\ Len(s) + k \in 1..(Len(s) + Len(t))
            /\ Len(s) + j < Len(s) + k
        BY <1>1, <2>2
      <3>2. QED
        BY <1>1, <1>2, <2>2, <3>1 DEF InOrder
    <2>3. ASSUME NEW j \in 1..Len(s), NEW k \in 1..Len(t),
                 SamePipe(s[j], t[k])
          PROVE  IsBefore(s[j], t[k])
      <3>1. /\ j \in 1..(Len(s) + Len(t))
            /\ Len(s) + k \in 1..(Len(s) + Len(t))
            /\ j < Len(s) + k
        BY <1>1
      <3>2. QED
        BY <1>1, <1>2, <2>3, <3>1 DEF InOrder
    <2>4. InOrder(s) /\ InOrder(t)
      BY <1>1, <2>1, <2>2 DEF InOrder
    <2>5. Before(s, t)
      BY <1>1, <2>3 DEF Before, Range
    <2>6. QED
      BY <2>4, <2>5
  <1>3. ASSUME InOrder(s), InOrder(t), Before(s, t),
               NEW j \in 1..(Len(s) + Len(t)), NEW k \in 1..(Len(s) + Len(t)),
               j < k, SamePipe((s \o t)[j], (s \o t)[k])
        PROVE  IsBefore((s \o t)[j], (s \o t)[k])
    <2>1. CASE k <= Len(s)
      <3>1. j \in 1..Len(s) /\ k \in 1..Len(s)
        BY <1>1, <1>3, <2>1
      <3>2. QED
        BY <1>1, <1>3, <3>1 DEF InOrder
    <2>2. CASE j <= Len(s) /\ k > Len(s)
      <3>1. /\ j \in 1..Len(s) /\ k - Len(s) \in 1..Len(t)
            /\ Len(s) + (k - Len(s)) = k
        BY <1>1, <2>2
      <3>2. (s \o t)[j] = s[j] /\ (s \o t)[k] = t[k - Len(s)]
        BY <1>1, <3>1
      <3>3. s[j] \in Range(s) /\ t[k - Len(s)] \in Range(t)
        BY <1>1, <3>1 DEF Range
      <3>4. QED
        BY <1>3, <3>2, <3>3 DEF Before
    <2>3. CASE j > Len(s)
      <3>1. /\ j - Len(s) \in 1..Len(t) /\ k - Len(s) \in 1..Len(t)
            /\ Len(s) + (j - Len(s)) = j /\ Len(s) + (k - Len(s)) = k
            /\ j - Len(s) < k - Len(s)
        BY <1>1, <1>3, <2>3
      <3>2. (s \o t)[j] = t[j - Len(s)] /\ (s \o t)[k] = t[k - Len(s)]
        BY <1>1, <3>1
      <3>3. QED
        BY <1>1, <1>3, <3>1, <3>2 DEF InOrder
    <2>4. QED
      BY <1>1, <2>1, <2>2, <2>3
  <1>4. QED
    BY <1>1, <1>2, <1>3 DEF InOrder

(* A read takes the beginning of a pipe.                                   *)
LEMMA ReadSplits ==
  ASSUME NEW pipe \in Seq(Fragments)
  PROVE  /\ ReadOf(pipe) \in Seq(Fragments) /\ RestOf(pipe) \in Seq(Fragments)
         /\ pipe = ReadOf(pipe) \o RestOf(pipe)
         /\ Range(pipe) = Range(ReadOf(pipe)) \cup Range(RestOf(pipe))
  <1> DEFINE n == Min({ReadSize, Len(pipe)})
  <1>1. ReadSize \in Nat /\ Len(pipe) \in Nat
    BY SizesAssumption
  <1>2. n \in 0..Len(pipe)
    <2>1. CASE ReadSize <= Len(pipe)
      <3>1. Min({ReadSize, Len(pipe)}) = ReadSize
        BY <1>1, <2>1, MinIsLeast
      <3>2. QED
        BY <1>1, <2>1, <3>1
    <2>2. CASE Len(pipe) <= ReadSize
      <3>1. Min({ReadSize, Len(pipe)}) = Len(pipe)
        BY <1>1, <2>2, MinIsLeast
      <3>2. QED
        BY <1>1, <3>1
    <2>3. QED
      BY <1>1, <2>1, <2>2
  <1>3. /\ ReadOf(pipe) = SubSeq(pipe, 1, n)
        /\ RestOf(pipe) = SubSeq(pipe, n + 1, Len(pipe))
    BY DEF ReadOf, RestOf
  <1> HIDE DEF n
  <1>4. /\ ReadOf(pipe) \in Seq(Fragments)
        /\ RestOf(pipe) \in Seq(Fragments)
    BY <1>1, <1>2, <1>3
  <1>5. pipe = ReadOf(pipe) \o RestOf(pipe)
    <2>1. /\ 1 \in 1..(Len(pipe) + 1)
          /\ n \in (1 - 1)..Len(pipe)
          /\ Len(pipe) \in n..Len(pipe)
      BY <1>1, <1>2
    <2>2. SubSeq(pipe, 1, n) \o SubSeq(pipe, n + 1, Len(pipe))
             = SubSeq(pipe, 1, Len(pipe))
      BY <2>1, ConcatAdjacentSubSeq
    <2>3. SubSeq(pipe, 1, Len(pipe)) = pipe
      BY SubSeqFull
    <2>4. QED
      BY <1>3, <2>2, <2>3
  <1>6. QED
    BY <1>4, <1>5, RangeConcatenation

LEMMA ConcatAppend ==
  ASSUME NEW S, NEW s \in Seq(S), NEW t \in Seq(S), NEW x \in S
  PROVE  s \o Append(t, x) = Append(s \o t, x)
  <1>1. /\ Append(t, x) = t \o <<x>> /\ <<x>> \in Seq(S)
        /\ s \o t \in Seq(S)
    BY AppendIsConcat
  <1>2. Append(s \o t, x) = (s \o t) \o <<x>>
    BY <1>1, AppendIsConcat
  <1>3. QED
    BY <1>1, <1>2, ConcatAssociative

(* A non-empty set of numbers has a least one.                             *)
LEMMA LeastNumber ==
  ASSUME NEW T \in SUBSET Nat, T # {}
  PROVE  \E n \in T : \A m \in T : ~(m < n)
  <1>1. PICK n \in T : \A m \in T : ~(<<m, n>> \in OpToRel(<, Nat))
    BY NatLessThanWellFounded, WFMin
  <1>2. \A m \in T : <<m, n>> \in OpToRel(<, Nat) <=> m < n
    BY <1>1 DEF OpToRel
  <1>3. QED
    BY <1>1, <1>2

-----------------------------------------------------------------------------
(* The replay of the journal.                                              *)

\* The fragments of a journal are in order and none of a record is missing
\* before the ones it has.
Recorded(s) ==
    /\ InOrder(s)
    /\ \A m : <<m, 2>> \in Range(s) => <<m, 1>> \in Range(s)

LEMMA FragmentParts ==
  ASSUME NEW f \in Fragments
  PROVE  /\ f[1] \in 1..EndMessage /\ f[2] \in 0..3 /\ f = <<f[1], f[2]>>
         /\ EndMessage \in Nat
  BY ScriptAssumption DEF Fragments, EndMessage

(* The first record that is broken off is in the journal from its first    *)
(* fragment, with nothing in between.                                      *)
LEMMA BreakBegins ==
  ASSUME NEW s \in Seq(Fragments), Recorded(s),
         NEW i \in BrokenOff(s), \A h \in BrokenOff(s) : i <= h
  PROVE  /\ i \in 1..Len(s) /\ s[i][2] \in {1, 2}
         /\ i - s[i][2] \in 0..(i - 1)
         /\ s[i - s[i][2] + 1] = <<s[i][1], 1>>
         /\ s[i] = <<s[i][1], s[i][2]>>
  <1>1. /\ i \in 1..Len(s) /\ DOMAIN s = 1..Len(s) /\ s[i][2] \in {1, 2}
        /\ s[i] = <<s[i][1], s[i][2]>> /\ Len(s) \in Nat
    <2>1. i \in DOMAIN s /\ s[i][2] \in {1, 2}
      BY DEF BrokenOff
    <2>2. s[i] = <<s[i][1], s[i][2]>>
      BY <2>1, FragmentParts
    <2>3. QED
      BY <2>1, <2>2
  <1>2. CASE s[i][2] = 1
    BY <1>1, <1>2
  <1>3. CASE s[i][2] = 2
    <2> DEFINE m == s[i][1]
    <2>1. s[i] = <<m, 2>>
      BY <1>1, <1>3
    <2> HIDE DEF m
    <2>2. PICK h \in 1..Len(s) : s[h] = <<m, 1>>
      BY <1>1, <2>1 DEF Recorded, Range
    <2>3. h < i
      <3>1. h # i
        BY <2>1, <2>2
      <3>2. ~(i < h)
        <4> SUFFICES ASSUME i < h
                     PROVE  FALSE
          OBVIOUS
        <4>1. SamePipe(s[i], s[h])
          BY <2>1, <2>2 DEF SamePipe
        <4>2. IsBefore(s[i], s[h])
          BY <1>1, <2>2, <4>1 DEF Recorded, InOrder
        <4>3. <<m, 2>>[1] = <<m, 1>>[1] /\ <<m, 2>>[2] = 2 /\ <<m, 1>>[2] = 1
          OBVIOUS
        <4>4. m \in Nat
          BY <1>1, FragmentParts DEF m
        <4>5. QED
          BY <2>1, <2>2, <4>2, <4>3, <4>4 DEF IsBefore
      <3>3. QED
        BY <1>1, <3>1, <3>2
    <2>4. s[h + 1] = <<m, 2>>
      <3>1. h \notin BrokenOff(s)
        BY <1>1, <2>3
      <3>2. /\ s[h][2] = 1 /\ s[h][1] = m /\ h \in DOMAIN s
        BY <1>1, <2>2
      <3>3. h < Len(s) /\ s[h + 1] = <<s[h][1], s[h][2] + 1>>
        BY <3>1, <3>2 DEF BrokenOff
      <3>4. QED
        BY <3>2, <3>3
    <2>5. h + 1 = i
      <3>1. h + 1 \in DOMAIN s /\ h + 1 <= i
        BY <1>1, <2>3
      <3>2. CASE h + 1 < i
        <4>1. SamePipe(s[h + 1], s[i])
          BY <2>1, <2>4 DEF SamePipe
        <4>2. IsBefore(s[h + 1], s[i])
          BY <1>1, <3>1, <3>2, <4>1 DEF Recorded, InOrder
        <4>3. m \in Nat
          BY <1>1, FragmentParts DEF m
        <4>4. <<m, 2>>[1] = m /\ <<m, 2>>[2] = 2
          OBVIOUS
        <4>5. QED
          BY <2>1, <2>4, <4>2, <4>3, <4>4 DEF IsBefore
      <3>3. QED
        BY <1>1, <2>3, <3>1, <3>2
    <2>6. i - s[i][2] + 1 = h
      BY <1>1, <1>3, <2>5
    <2>7. QED
      BY <1>1, <1>3, <2>2, <2>3, <2>5, <2>6 DEF m
  <1>4. QED
    BY <1>1, <1>2, <1>3

LEMMA FirstBreak ==
  ASSUME NEW s \in Seq(Fragments), ~Whole(s)
  PROVE  /\ Min(BrokenOff(s)) \in BrokenOff(s)
         /\ \A h \in BrokenOff(s) : Min(BrokenOff(s)) <= h
  <1>1. BrokenOff(s) \subseteq Nat /\ BrokenOff(s) # {}
    BY DEF BrokenOff, Whole
  <1>2. PICK i \in BrokenOff(s) : \A h \in BrokenOff(s) : ~(h < i)
    BY <1>1, LeastNumber
  <1>3. \A h \in BrokenOff(s) : i <= h
    BY <1>1, <1>2
  <1>4. Min(BrokenOff(s)) = i
    BY <1>1, <1>2, <1>3, MinIsLeast
  <1>5. QED
    BY <1>2, <1>3, <1>4

LEMMA ReplayTypes ==
  ASSUME NEW s \in Seq(Fragments), Recorded(s), NEW r \in Replays(s)
  PROVE  r \in Seq(Sendable \cup {Failing})
  <1>1. Seq(Fragments) \subseteq Seq(Sendable \cup {Failing})
    BY DEF Sendable
  <1>2. CASE Whole(s)
    BY <1>1, <1>2 DEF Replays
  <1>3. CASE ~Whole(s)
    <2> DEFINE i == Min(BrokenOff(s))
    <2>1. i \in BrokenOff(s) /\ \A h \in BrokenOff(s) : i <= h
      BY <1>3, FirstBreak
    <2>2. PICK t \in Misread(s, i) : r = SubSeq(s, 1, i - s[i][2]) \o t
      BY <1>3 DEF Replays
    <2> HIDE DEF i
    <2>3. /\ i \in 1..Len(s) /\ s[i][2] \in {1, 2}
          /\ i - s[i][2] \in 0..(i - 1)
      BY <2>1, BreakBegins
    <2>4. SubSeq(s, 1, i - s[i][2]) \in Seq(Fragments)
      BY <2>3
    <2>5. t \in Seq(Sendable \cup {Failing})
      <3>1. Short(s[i][1]) \in Sendable
        BY <2>3, FragmentParts DEF Sendable
      <3>2. {Garbled, Failing} \subseteq Sendable \cup {Failing}
        BY DEF Sendable
      <3>3. \A x, y \in Sendable \cup {Failing} :
               /\ <<x>> \in Seq(Sendable \cup {Failing})
               /\ <<x, y>> \in Seq(Sendable \cup {Failing})
        OBVIOUS
      <3>4. t \in {<<Garbled>>, <<Garbled, Failing>>, <<Failing>>,
                   <<Short(s[i][1])>>}
        BY <2>2 DEF Misread
      <3> HIDE DEF Sendable, Failing, Garbled, Short
      <3>5. QED
        BY <3>1, <3>2, <3>3, <3>4
    <2>6. SubSeq(s, 1, i - s[i][2]) \in Seq(Sendable \cup {Failing})
      BY <1>1, <2>4
    <2> HIDE DEF Sendable, Failing
    <2>7. QED
      BY <2>2, <2>5, <2>6
  <1>4. QED
    BY <1>2, <1>3

(* A replay that went to its end has sent what the journal holds, but for  *)
(* what followed the first record that was broken off.                     *)
LEMMA ReplayFollows ==
  ASSUME NEW s \in Seq(Fragments), Recorded(s), NEW r \in Replays(s),
         \A k \in 1..Len(r) : r[k] # Failing
  PROVE  IF Whole(s) THEN r = s ELSE Follows(r, s)
  <1> SUFFICES ASSUME ~Whole(s)
               PROVE  Follows(r, s)
    BY DEF Replays
  <1> DEFINE i == Min(BrokenOff(s))
             p == s[i][2]
             m == s[i][1]
             a == SubSeq(s, 1, i - p)
             gap == SubSeq(s, i - p + 1, Len(s))
  <1>1. i \in BrokenOff(s) /\ \A h \in BrokenOff(s) : i <= h
    BY FirstBreak
  <1>2. PICK t \in Misread(s, i) : r = a \o t
    BY DEF Replays
  <1> HIDE DEF i
  <1>3. /\ i \in 1..Len(s) /\ p \in {1, 2} /\ Len(s) \in Nat
        /\ i - p \in 0..(i - 1)
        /\ s[i - p + 1] = <<m, 1>> /\ s[i] = <<m, p>>
    BY <1>1, BreakBegins
  <1> HIDE DEF p, m, a, gap
  <1>4. /\ a \in Seq(Fragments) /\ Len(a) = i - p
        /\ \A k \in 1..(i - p) : a[k] = s[k]
        /\ gap \in Seq(Fragments) /\ Len(gap) = Len(s) - (i - p)
        /\ \A k \in 1..(Len(s) - (i - p)) : gap[k] = s[i - p + k]
    <2> DEFINE q == i - p
    <2>1. q \in 0..Len(s) /\ q + 1 \in Nat \ {0} /\ Len(s) \in 0..Len(s)
      BY <1>3
    <2> HIDE DEF q
    <2>2. /\ SubSeq(s, 1, q) \in Seq(Fragments) /\ Len(SubSeq(s, 1, q)) = q
          /\ \A k \in 1..q : SubSeq(s, 1, q)[k] = s[k]
      BY <2>1
    <2>3. /\ SubSeq(s, q + 1, Len(s)) \in Seq(Fragments)
          /\ Len(SubSeq(s, q + 1, Len(s))) = Len(s) - q
          /\ \A k \in 1..(Len(s) - q) : SubSeq(s, q + 1, Len(s))[k] = s[q + k]
      BY <2>1
    <2>4. QED
      BY <2>2, <2>3 DEF q, a, gap
  <1>5. /\ 1 \in 1..Len(gap) /\ p \in 1..Len(gap)
        /\ gap[1] = <<m, 1>> /\ gap[p] = <<m, p>>
    <2>1. Len(s) - (i - p) >= p
      BY <1>3
    <2>2. gap[1] = s[i - p + 1] /\ gap[p] = s[i - p + p]
      BY <1>3, <1>4, <2>1
    <2>3. i - p + p = i
      BY <1>3
    <2>4. QED
      BY <1>3, <1>4, <2>1, <2>2, <2>3
  <1>6. ~Whole(gap)
    <2>1. p < Len(gap) => gap[p + 1] # <<m, p + 1>>
      <3> SUFFICES ASSUME p < Len(gap)
                   PROVE  gap[p + 1] # <<m, p + 1>>
        OBVIOUS
      <3>1. /\ p + 1 \in 1..(Len(s) - (i - p)) /\ i - p + (p + 1) = i + 1
            /\ i < Len(s)
        BY <1>3, <1>4
      <3>2. gap[p + 1] = s[i + 1]
        BY <1>4, <3>1
      <3>3. s[i + 1] # <<s[i][1], s[i][2] + 1>>
        BY <1>1, <3>1 DEF BrokenOff
      <3>4. QED
        BY <3>2, <3>3 DEF m, p
    <2>2. gap[p][1] = m /\ gap[p][2] = p /\ p \in DOMAIN gap
      BY <1>4, <1>5
    <2>3. p \in BrokenOff(gap)
      BY <1>3, <2>1, <2>2 DEF BrokenOff
    <2>4. QED
      BY <2>3 DEF Whole
  <1>7. Whole(a)
    <2> SUFFICES ASSUME NEW h \in BrokenOff(a)
                 PROVE  FALSE
      BY DEF Whole
    <2>0. /\ h \in 1..(i - p) /\ a[h][2] \in {1, 2}
          /\ h < i - p => a[h + 1] # <<a[h][1], a[h][2] + 1>>
      <3>1. DOMAIN a = 1..(i - p)
        BY <1>4
      <3>2. QED
        BY <1>4, <3>1 DEF BrokenOff
    <2>1. h \in 1..Len(s) /\ h < i /\ h < Len(s) /\ a[h] = s[h]
      BY <1>3, <1>4, <2>0
    <2>2. h \notin BrokenOff(s)
      BY <1>1, <1>3, <2>1
    <2>3. s[h + 1] = <<s[h][1], s[h][2] + 1>>
      <3>1. h \in DOMAIN s /\ s[h][2] \in {1, 2}
        BY <2>0, <2>1
      <3>2. QED
        BY <2>1, <2>2, <3>1 DEF BrokenOff
    <2>4. CASE h < i - p
      <3>1. a[h + 1] = s[h + 1]
        <4>1. h + 1 \in 1..(i - p)
          BY <1>3, <2>0, <2>4
        <4>2. QED
          BY <1>4, <4>1
      <3>2. QED
        BY <2>0, <2>1, <2>3, <2>4, <3>1
    <2>5. CASE h = i - p
      <3>1. s[h + 1] = <<m, 1>>
        BY <1>3, <2>5
      <3>2. s[h][2] + 1 = 1
        BY <2>3, <3>1
      <3>3. s[h][2] \in {1, 2}
        BY <2>0, <2>1
      <3>4. QED
        BY <3>2, <3>3
    <2>6. QED
      BY <1>3, <2>0, <2>4, <2>5
  <1>8. PICK x \in Sendable \ Fragments :
           /\ t = <<x>>
           /\ x # Garbled => x = Short(m) /\ i = Len(s) /\ p = 2
    <2>1. t # <<Garbled, Failing>> /\ t # <<Failing>>
      <3>1. ASSUME NEW u \in Seq({Garbled, Failing}), t = u, u # <<>>,
                   u[Len(u)] = Failing
            PROVE  FALSE
        <4>1. Len(u) \in Nat \ {0} /\ Len(a) \in Nat
          BY <1>4, <3>1
        <4>2. /\ Len(a \o u) = Len(a) + Len(u)
              /\ (a \o u)[Len(a) + Len(u)] = u[Len(u)]
          <5>1. /\ a \in Seq(Fragments \cup {Garbled, Failing})
                /\ u \in Seq(Fragments \cup {Garbled, Failing})
            BY <1>4, <3>1
          <5> HIDE DEF Fragments, Garbled, Failing
          <5>2. /\ Len(a \o u) = Len(a) + Len(u)
                /\ \A n \in 1..Len(u) : (a \o u)[Len(a) + n] = u[n]
            BY <5>1
          <5>3. QED
            BY <4>1, <5>2
        <4>3. Len(r) \in 1..Len(r) /\ r[Len(r)] = Failing
          BY <1>2, <3>1, <4>1, <4>2
        <4>4. QED
          BY <4>3
      <3>2. /\ <<Garbled, Failing>> \in Seq({Garbled, Failing})
            /\ <<Garbled, Failing>> # <<>>
            /\ Len(<<Garbled, Failing>>) = 2
            /\ <<Garbled, Failing>>[2] = Failing
        OBVIOUS
      <3>3. /\ <<Failing>> \in Seq({Garbled, Failing}) /\ <<Failing>> # <<>>
            /\ Len(<<Failing>>) = 1 /\ <<Failing>>[1] = Failing
        OBVIOUS
      <3>4. t # <<Garbled, Failing>>
        BY <3>1, <3>2
      <3>5. t # <<Failing>>
        BY <3>1, <3>3
      <3>6. QED
        BY <3>4, <3>5
    <2>2. m \in 1..EndMessage
      BY <1>3, FragmentParts DEF m
    <2>3. Garbled \in Sendable \ Fragments
      <3>1. Garbled \notin Fragments
        BY DEF Garbled, Fragments
      <3>2. QED
        BY <3>1 DEF Sendable
    <2>4. Short(m) \in Sendable \ Fragments
      <3>1. Short(m) \notin Fragments
        BY DEF Short, Fragments
      <3>2. QED
        BY <2>2, <3>1 DEF Sendable
    <2>5. \/ t = <<Garbled>>
          \/ t = <<Short(m)>> /\ ~(i < Len(s)) /\ p # 1
      BY <2>1 DEF Misread, m, p
    <2> HIDE DEF Sendable, Short, Garbled, Fragments
    <2>6. QED
      BY <1>3, <2>3, <2>4, <2>5
  <1>9. SentInstead(gap, x)
    <2>1. gap[1][2] = 1 /\ gap[1][1] = m
      <3>1. <<m, 1>>[2] = 1 /\ <<m, 1>>[1] = m
        OBVIOUS
      <3>2. QED
        BY <1>5, <3>1
    <2>2. x # Garbled => /\ x = Short(gap[1][1])
                         /\ gap = SubSeq(LogRecord(gap[1][1]), 1, 2)
      <3> SUFFICES ASSUME x # Garbled
                   PROVE  gap = SubSeq(LogRecord(m), 1, 2)
        BY <1>8, <2>1
      <3> DEFINE l == LogRecord(m)
                 cut == SubSeq(l, 1, 2)
      <3>1. /\ l \in Seq(Nat \X Nat) /\ Len(l) = 3
            /\ l[1] = <<m, 1>> /\ l[2] = <<m, 2>>
        <4>1. m \in Nat
          BY <1>3, FragmentParts DEF m
        <4>2. QED
          BY <4>1 DEF LogRecord
      <3> HIDE DEF l
      <3>2. /\ cut \in Seq(Nat \X Nat) /\ Len(cut) = 2
            /\ cut[1] = <<m, 1>> /\ cut[2] = <<m, 2>>
        BY <3>1
      <3> HIDE DEF cut
      <3>3. Len(gap) = 2 /\ gap[1] = <<m, 1>> /\ gap[2] = <<m, 2>>
        BY <1>3, <1>4, <1>5, <1>8
      <3>4. \A n \in 1..Len(gap) : gap[n] = cut[n]
        <4>1. 1..Len(gap) = {1, 2}
          BY <3>3
        <4>2. QED
          BY <3>2, <3>3, <4>1
      <3>5. gap = cut
        <4>1. /\ gap \in Seq(Fragments \cup (Nat \X Nat))
              /\ cut \in Seq(Fragments \cup (Nat \X Nat))
          BY <1>4, <3>2
        <4>2. Len(gap) = Len(cut)
          BY <3>2, <3>3
        <4>3. QED
          BY <3>4, <4>1, <4>2, SeqEqual
      <3>6. QED
        BY <3>5 DEF cut, l
    <2>3. QED
      BY <1>6, <2>1, <2>2 DEF SentInstead
  <1>10. r = a \o <<x>> \o SubSeq(s, Len(s) + 1, Len(s))
    <2>1. SubSeq(s, Len(s) + 1, Len(s)) = <<>>
      BY <1>3
    <2>2. a \o <<x>> \in Seq(Sendable)
      BY <1>4, <1>8 DEF Sendable
    <2>3. (a \o <<x>>) \o <<>> = a \o <<x>>
      BY <2>2, ConcatEmptySeq
    <2>4. QED
      BY <1>2, <1>8, <2>1, <2>3
  <1>11. QED
    <2> DEFINE j == i - p
    <2>1. j \in 0..Len(s) /\ Len(s) \in 0..Len(s) /\ j < Len(s)
      BY <1>3
    <2>2. /\ Whole(SubSeq(s, 1, j))
          /\ SentInstead(SubSeq(s, j + 1, Len(s)), x)
          /\ r = SubSeq(s, 1, j) \o <<x>> \o SubSeq(s, Len(s) + 1, Len(s))
      BY <1>7, <1>9, <1>10 DEF a, gap
    <2> HIDE DEF j
    <2>3. QED
      BY <1>8, <2>1, <2>2 DEF Follows

(* What is added to the journal and sent as well changes nothing to it.    *)
LEMMA FollowsGrows ==
  ASSUME NEW s \in Seq(Sendable), NEW t \in Seq(Fragments),
         NEW f \in Fragments, Follows(s, t)
  PROVE  Follows(Append(s, f), Append(t, f))
  <1>1. PICK j \in 0..Len(t), k \in 0..Len(t), x \in Sendable \ Fragments :
           /\ j < k
           /\ Whole(SubSeq(t, 1, j))
           /\ SentInstead(SubSeq(t, j + 1, k), x)
           /\ s = SubSeq(t, 1, j) \o <<x>> \o SubSeq(t, k + 1, Len(t))
    BY DEF Follows
  <1> DEFINE u == Append(t, f)
             a == SubSeq(t, 1, j)
             z == SubSeq(t, k + 1, Len(t))
  <1>2. /\ u \in Seq(Fragments) /\ Len(u) = Len(t) + 1 /\ Len(t) \in Nat
        /\ \A n \in 1..Len(t) : u[n] = t[n]
        /\ u[Len(t) + 1] = f
    OBVIOUS
  <1> HIDE DEF u
  <1>3. SubSeq(u, 1, j) = a
    BY <1>1, <1>2
  <1>4. SubSeq(u, j + 1, k) = SubSeq(t, j + 1, k)
    BY <1>1, <1>2
  <1>5. SubSeq(u, k + 1, Len(u)) = Append(z, f)
    <2>1. /\ SubSeq(u, k + 1, Len(u)) \in Seq(Fragments)
          /\ Len(SubSeq(u, k + 1, Len(u))) = Len(t) + 1 - k
          /\ \A n \in 1..(Len(t) + 1 - k) :
                SubSeq(u, k + 1, Len(u))[n] = u[k + n]
      BY <1>1, <1>2
    <2>2. /\ z \in Seq(Fragments) /\ Len(z) = Len(t) - k
          /\ \A n \in 1..(Len(t) - k) : z[n] = t[k + n]
      BY <1>1, <1>2
    <2> HIDE DEF z
    <2>3. /\ Append(z, f) \in Seq(Fragments)
          /\ Len(Append(z, f)) = Len(t) + 1 - k
          /\ \A n \in 1..(Len(t) - k) : Append(z, f)[n] = t[k + n]
          /\ Append(z, f)[Len(t) + 1 - k] = f
      <3>1. Len(z) \in Nat /\ Len(z) + 1 = Len(t) + 1 - k
        BY <1>1, <1>2, <2>2
      <3>2. /\ Append(z, f) \in Seq(Fragments)
            /\ Len(Append(z, f)) = Len(z) + 1
            /\ \A n \in 1..Len(z) : Append(z, f)[n] = z[n]
            /\ Append(z, f)[Len(z) + 1] = f
        BY <2>2
      <3>3. QED
        BY <2>2, <3>1, <3>2
    <2>4. ASSUME NEW n \in 1..(Len(t) + 1 - k)
          PROVE  SubSeq(u, k + 1, Len(u))[n] = Append(z, f)[n]
      <3>1. CASE n <= Len(t) - k
        <4>1. n \in 1..(Len(t) - k) /\ k + n \in 1..Len(t)
          BY <1>1, <1>2, <3>1
        <4>2. QED
          BY <1>2, <2>1, <2>3, <4>1
      <3>2. CASE n = Len(t) + 1 - k
        <4>1. k + n = Len(t) + 1
          BY <1>1, <1>2, <3>2
        <4>2. QED
          BY <1>2, <2>1, <2>3, <3>2, <4>1
      <3>3. n \in Int /\ Len(t) \in Int /\ k \in Int /\ n <= Len(t) + 1 - k
        BY <1>1, <1>2
      <3>4. n <= Len(t) - k \/ n = Len(t) + 1 - k
        BY <3>3
      <3>5. QED
        BY <3>1, <3>2, <3>4
    <2>5. QED
      BY <2>1, <2>3, <2>4, SeqEqual
  <1>6. Append(s, f) = a \o <<x>> \o Append(z, f)
    <2>1. /\ a \o <<x>> \in Seq(Sendable) /\ z \in Seq(Sendable)
          /\ f \in Sendable
      <3>1. a \in Seq(Fragments) /\ z \in Seq(Fragments)
        BY <1>1, <1>2
      <3>2. Fragments \subseteq Sendable
        BY DEF Sendable
      <3> HIDE DEF a, z
      <3>3. /\ a \in Seq(Sendable) /\ z \in Seq(Sendable)
            /\ <<x>> \in Seq(Sendable)
        BY <3>1, <3>2
      <3>4. QED
        BY <3>2, <3>3
    <2>2. \A v, w \in Seq(Sendable) : v \o Append(w, f) = Append(v \o w, f)
      BY <2>1, ConcatAppend
    <2>3. QED
      BY <1>1, <2>1, <2>2
  <1>7. QED
    <2>1. /\ j \in 0..Len(u) /\ k \in 0..Len(u) /\ j < k
      BY <1>1, <1>2
    <2>2. /\ Whole(SubSeq(u, 1, j))
          /\ SentInstead(SubSeq(u, j + 1, k), x)
          /\ Append(s, f) = SubSeq(u, 1, j) \o <<x>>
                               \o SubSeq(u, k + 1, Len(u))
      BY <1>1, <1>3, <1>4, <1>5, <1>6
    <2>3. Follows(Append(s, f), u)
      BY <2>1, <2>2 DEF Follows
    <2>4. QED
      BY <2>3 DEF u

LEMMA MirrorsGrows ==
  ASSUME NEW c, NEW s \in Seq(Sendable), NEW t \in Seq(Fragments),
         NEW f \in Fragments, Mirrors(c, s, t)
  PROVE  Mirrors(c, Append(s, f), Append(t, f))
  BY FollowsGrows DEF Mirrors

-----------------------------------------------------------------------------
(* The invariant is kept.                                                  *)

LEMMA IOInitInv == Init => IOInv
  <1> SUFFICES ASSUME Init
               PROVE  IOInv
    OBVIOUS
  <1>1. EndMessage \in Nat \ {0}
    BY ScriptAssumption DEF EndMessage
  <1>2. TypeOK /\ IsFiniteSet(hung)
    <2>1. /\ conn \in [Clients -> {"new", "backlog", "open", "closed"}]
          /\ socket \in [Clients -> Seq(Sendable)]
          /\ got \in [Clients -> Seq(Sendable)]
      BY DEF Init
    <2>2. IsFiniteSet({})
      BY FS_EmptySet
    <2>3. /\ step \in 1..(EndMessage + 1)
          /\ sent \in 0..Len(data)
      BY <1>1 DEF Init
    <2>4. /\ logPipe \in Seq(Fragments) /\ outPipe \in Seq(Fragments)
          /\ data \in Seq(Sendable \cup {Failing})
          /\ journal \in Seq(Fragments)
          /\ events \in Seq({"socket", "log", "output"} \cup Clients)
          /\ targets \in Seq(Clients) /\ order \in Seq(Clients)
      BY DEF Init
    <2>5. QED
      BY <2>1, <2>2, <2>3, <2>4 DEF Init, TypeOK
  <1>3. OrderShape /\ SendShape /\ ClientsMirrorJournal /\ StopShape
    BY DEF Init, OrderShape, SendShape, ClientsMirrorJournal, StopShape,
           Distinct, Range
  <1>4. WrittenShape
    <2>1. Written = {}
      BY <1>1 DEF Init, Written, Fragments
    <2>2. \A s : s = <<>> => Range(s) = {} /\ InOrder(s)
      BY DEF Range, InOrder
    <2>3. QED
      BY <2>1, <2>2 DEF Init, WrittenShape, Pending, Before
  <1>5. QED
    BY <1>2, <1>3, <1>4 DEF IOInv

(* Each part of the invariant is about some of the variables only.         *)
LEMMA IOKept ==
  ASSUME IOInv
  PROVE  /\ UNCHANGED <<conn, order, socket, got, whole>> => OrderShape'
         /\ UNCHANGED <<dispatch, sendVars, journal, conn, socket, got, whole>>
               => SendShape' /\ ClientsMirrorJournal'
         /\ UNCHANGED <<dispatch, sendVars, journal, pipeVars, step>>
               => WrittenShape'
         /\ UNCHANGED <<worker, stop, dispatch, pipeVars>> => StopShape'
  <1>1. UNCHANGED <<conn, order, socket, got, whole>> => OrderShape'
    BY DEF IOInv, OrderShape
  <1>2. ASSUME UNCHANGED <<dispatch, sendVars, journal, conn, socket, got,
                           whole>>
        PROVE  SendShape' /\ ClientsMirrorJournal'
    <2>1. /\ \A c : Seen(c)' = Seen(c)
          /\ \A c, t, u : Mirrors(c, t, u)' <=> Mirrors(c, t, u)
      BY <1>2 DEF Seen, Mirrors
    <2> HIDE DEF Seen, Mirrors
    <2>2. /\ Broadcasts' <=> Broadcasts
          /\ Replaying' <=> Replaying
      BY <1>2, <2>1 DEF Broadcasts, Replaying, sendVars
    <2>3. SendShape'
      BY <1>2, <2>2 DEF IOInv, SendShape, sendVars
    <2>4. ClientsMirrorJournal'
      BY <1>2, <2>1 DEF IOInv, ClientsMirrorJournal
    <2>5. QED
      BY <2>3, <2>4
  <1>3. ASSUME UNCHANGED <<dispatch, sendVars, journal, pipeVars, step>>
        PROVE  WrittenShape'
    <2>1. Written' = Written /\ Pending' = Pending
      BY <1>3 DEF Written, Pending, sendVars
    <2>2. QED
      BY <1>3, <2>1 DEF IOInv, WrittenShape, Before, pipeVars
  <1>4. UNCHANGED <<worker, stop, dispatch, pipeVars>> => StopShape'
    BY DEF IOInv, StopShape, pipeVars
  <1>5. QED
    BY <1>1, <1>2, <1>3, <1>4

LEMMA JournalRecorded ==
  ASSUME IOInv, dispatch # "dead"
  PROVE  journal \in Seq(Fragments) /\ Recorded(journal)
  <1>1. journal \in Seq(Fragments) /\ WrittenShape
    BY DEF IOInv, TypeOK
  <1>2. ASSUME NEW m, <<m, 2>> \in Range(journal)
        PROVE  <<m, 1>> \in Range(journal)
    <2>1. <<m, 2>> \in Written
      BY <1>1, <1>2 DEF WrittenShape
    <2>2. m \in 1..EndMessage /\ m < step /\ IsLog(m)
      BY <2>1 DEF Written, Fragments
    <2>3. <<m, 1>> \in Written
      BY <2>2 DEF Written, Fragments
    <2>4. /\ <<m, 1>>[1] = m /\ <<m, 1>>[2] = 1
          /\ <<m, 2>>[1] = m /\ <<m, 2>>[2] = 2
          /\ m \in Nat
      BY <2>2
    <2>5. ~IsBefore(<<m, 2>>, <<m, 1>>) /\ SamePipe(<<m, 2>>, <<m, 1>>)
      BY <2>4 DEF IsBefore, SamePipe
    <2>6. \A s : Before(journal, s) => <<m, 1>> \notin Range(s)
      BY <1>2, <2>5 DEF Before
    <2>7. QED
      BY <1>1, <2>3, <2>6 DEF WrittenShape
  <1>3. QED
    BY <1>1, <1>2 DEF Recorded, WrittenShape

(* The worker writes a record in one of the pipes.                         *)
LEMMA WritesInOrder ==
  ASSUME IOInv, NEW r \in Seq(Fragments), InOrder(r),
         \A f \in Range(r) : f[1] = step,
         Written' = Written \cup Range(r),
         UNCHANGED <<dispatch, sendVars, journal>>,
         \/ /\ logPipe' = logPipe \o r /\ outPipe' = outPipe
            /\ \A f \in Range(r) : f[2] # 0
         \/ /\ outPipe' = outPipe \o r /\ logPipe' = logPipe
            /\ \A f \in Range(r) : f[2] = 0
  PROVE  WrittenShape'
  <1> SUFFICES ASSUME dispatch # "dead"
               PROVE  WrittenShape'
    BY DEF WrittenShape
  <1>1. WrittenShape /\ logPipe \in Seq(Fragments) /\ outPipe \in Seq(Fragments)
    BY DEF IOInv, TypeOK
  <1>2. /\ Pending' = Pending
        /\ UNCHANGED <<dispatch, journal>>
    BY DEF Pending, sendVars
  <1>3. \A f \in Written, g \in Range(r) : IsBefore(f, g)
    <2> SUFFICES ASSUME NEW f \in Written, NEW g \in Range(r)
                 PROVE  f[1] < g[1]
      BY DEF IsBefore
    <2>1. QED
      BY DEF Written
  <1>4. CASE /\ logPipe' = logPipe \o r /\ outPipe' = outPipe
             /\ \A f \in Range(r) : f[2] # 0
    <2>1. Range(logPipe') = Range(logPipe) \cup Range(r)
      BY <1>1, <1>4, RangeConcatenation
    <2>2. Before(logPipe, r)
      BY <1>1, <1>3 DEF WrittenShape, Before
    <2>3. InOrder(logPipe')
      BY <1>1, <1>4, <2>2, ConcatInOrder DEF WrittenShape
    <2>4. Before(journal, logPipe') /\ Before(Pending, logPipe')
      BY <1>1, <1>3, <2>1 DEF WrittenShape, Before
    <2>5. \A f \in Range(logPipe') : f[2] # 0
      BY <1>1, <1>4, <2>1 DEF WrittenShape
    <2>6. QED
      BY <1>1, <1>2, <1>4, <2>1, <2>3, <2>4, <2>5 DEF WrittenShape, Before
  <1>5. CASE /\ outPipe' = outPipe \o r /\ logPipe' = logPipe
             /\ \A f \in Range(r) : f[2] = 0
    <2>1. Range(outPipe') = Range(outPipe) \cup Range(r)
      BY <1>1, <1>5, RangeConcatenation
    <2>2. Before(outPipe, r)
      BY <1>1, <1>3 DEF WrittenShape, Before
    <2>3. InOrder(outPipe')
      BY <1>1, <1>5, <2>2, ConcatInOrder DEF WrittenShape
    <2>4. Before(journal, outPipe') /\ Before(Pending, outPipe')
      BY <1>1, <1>3, <2>1 DEF WrittenShape, Before
    <2>5. \A f \in Range(outPipe') : f[2] = 0
      BY <1>1, <1>5, <2>1 DEF WrittenShape
    <2>6. QED
      BY <1>1, <1>2, <1>5, <2>1, <2>3, <2>4, <2>5 DEF WrittenShape, Before
  <1>6. QED
    BY <1>4, <1>5

LEMMA WorkerStepInv ==
  ASSUME IOInv, WorkerStep
  PROVE  IOInv'
  <1>1. EndMessage \in Nat \ {0} /\ step \in 1..(EndMessage + 1)
    BY ScriptAssumption DEF EndMessage, IOInv, TypeOK
  <1>2. UNCHANGED <<dispatch, sendVars, journal, clientVars>>
    BY DEF WorkerStep, WriteLog, WriteOutput, Undispatch, Close
  <1>3. OrderShape' /\ SendShape' /\ ClientsMirrorJournal'
    BY <1>2, IOKept DEF clientVars
  <1>4. ASSUME step <= EndMessage, step' = step + 1
        PROVE  Written' = Written \cup
                  {f \in Fragments : f[1] = step /\ (IsLog(step) <=> f[2] # 0)}
    <2>1. \A f \in Fragments : f[1] < step' <=> f[1] < step \/ f[1] = step
      BY <1>1, <1>4 DEF Fragments
    <2>2. QED
      BY <2>1 DEF Written
  <1>5. CASE WriteLog
    <2> DEFINE r == LogRecord(step)
    <2>1. /\ worker = "running" /\ step <= EndMessage /\ IsLog(step)
          /\ logPipe' = logPipe \o r /\ step' = step + 1
          /\ UNCHANGED <<worker, outPipe, stop, dispatch, events, sendVars,
                         journal, clientVars>>
      BY <1>5 DEF WriteLog
    <2>2. \A k \in 1..3 : <<step, k>> \in Fragments
      BY <1>1, <2>1 DEF Fragments
    <2>3. r \in Seq(Fragments) /\ Range(r) = {<<step, k>> : k \in 1..3}
      <3>1. /\ r \in Seq(Fragments) /\ Len(r) = 3
            /\ r[1] = <<step, 1>> /\ r[2] = <<step, 2>> /\ r[3] = <<step, 3>>
        BY <2>2 DEF LogRecord
      <3> HIDE DEF r
      <3>2. DOMAIN r = 1..3 /\ \A k \in 1..3 : r[k] = <<step, k>>
        BY <3>1
      <3>3. QED
        BY <3>1, <3>2 DEF Range
    <2>4. InOrder(r)
      <3>1. /\ Len(r) = 3
            /\ r[1] = <<step, 1>> /\ r[2] = <<step, 2>> /\ r[3] = <<step, 3>>
        BY DEF LogRecord
      <3> HIDE DEF r
      <3>2. DOMAIN r = 1..3 /\ \A k \in 1..3 : r[k] = <<step, k>>
        BY <2>3, <3>1
      <3>3. ASSUME NEW j \in 1..3, NEW k \in 1..3, j < k
            PROVE  IsBefore(r[j], r[k])
        BY <3>2, <3>3 DEF IsBefore
      <3>4. QED
        BY <3>2, <3>3 DEF InOrder
    <2>5. {f \in Fragments : f[1] = step /\ (IsLog(step) <=> f[2] # 0)}
             = Range(r)
      <3>1. \A f \in Fragments : f[1] = step /\ f[2] # 0
               => f[2] \in 1..3 /\ f = <<step, f[2]>>
        BY FragmentParts
      <3>2. ASSUME NEW k \in 1..3
            PROVE  <<step, k>>[1] = step /\ <<step, k>>[2] # 0
        OBVIOUS
      <3>3. QED
        BY <2>1, <2>2, <2>3, <3>1, <3>2
    <2> HIDE DEF r
    <2>6. /\ \A f \in Range(r) : f[1] = step
          /\ \A f \in Range(r) : f[2] # 0
      BY <2>3
    <2>7. WrittenShape'
      BY <1>4, <2>1, <2>3, <2>4, <2>5, <2>6, WritesInOrder
    <2>8. TypeOK' /\ IsFiniteSet(hung')
      BY <1>1, <2>1, <2>3
      DEF IOInv, TypeOK, sendVars, clientVars
    <2>9. StopShape'
      BY <2>1 DEF IOInv, StopShape
    <2>10. QED
      BY <1>3, <2>7, <2>8, <2>9 DEF IOInv
  <1>6. CASE WriteOutput
    <2> DEFINE r == << <<step, 0>> >>
    <2>1. /\ worker = "running" /\ step <= EndMessage /\ ~IsLog(step)
          /\ outPipe' = Append(outPipe, <<step, 0>>) /\ step' = step + 1
          /\ UNCHANGED <<worker, logPipe, stop, dispatch, events, sendVars,
                         journal, clientVars>>
      BY <1>6 DEF WriteOutput
    <2>2. <<step, 0>> \in Fragments /\ outPipe \in Seq(Fragments)
      BY <1>1, <2>1 DEF Fragments, IOInv, TypeOK
    <2>3. /\ r \in Seq(Fragments) /\ Range(r) = {<<step, 0>>}
          /\ outPipe' = outPipe \o r
      <3>1. r \in Seq(Fragments)
        BY <2>2
      <3>2. Range(r) = {<<step, 0>>}
        <4>1. DOMAIN r = {1} /\ r[1] = <<step, 0>>
          OBVIOUS
        <4> HIDE DEF r
        <4>2. QED
          BY <4>1 DEF Range
      <3>3. outPipe' = outPipe \o r
        BY <2>1, <2>2, AppendIsConcat
      <3>4. QED
        BY <3>1, <3>2, <3>3
    <2>4. InOrder(r)
      BY DEF InOrder
    <2> HIDE DEF r
    <2>5. {f \in Fragments : f[1] = step /\ (IsLog(step) <=> f[2] # 0)}
             = Range(r)
      <3>1. \A f \in Fragments : f[1] = step /\ f[2] = 0 => f = <<step, 0>>
        BY DEF Fragments
      <3>2. /\ <<step, 0>>[1] = step /\ <<step, 0>>[2] = 0
        OBVIOUS
      <3>3. \A f \in Fragments :
               f[1] = step /\ (IsLog(step) <=> f[2] # 0) <=> f = <<step, 0>>
        BY <2>1, <3>1, <3>2
      <3>4. QED
        BY <2>2, <2>3, <3>3
    <2>6. /\ \A f \in Range(r) : f[1] = step
          /\ \A f \in Range(r) : f[2] = 0
      BY <2>3
    <2>7. WrittenShape'
      BY <1>4, <2>1, <2>3, <2>4, <2>5, <2>6, WritesInOrder
    <2>8. TypeOK' /\ IsFiniteSet(hung')
      BY <1>1, <2>1, <2>2
      DEF IOInv, TypeOK, sendVars, clientVars
    <2>9. StopShape'
      BY <2>1 DEF IOInv, StopShape
    <2>10. QED
      BY <1>3, <2>7, <2>8, <2>9 DEF IOInv
  <1>7. CASE Undispatch \/ Close
    <2>1. /\ UNCHANGED <<step, pipeVars, dispatch, events, sendVars, journal,
                         clientVars>>
          /\ worker' \in {"join", "closed"}
          /\ stop' \in BOOLEAN /\ (dispatch = "stopped" /\ stop => stop')
      BY <1>7 DEF Undispatch, Close, IOInv, TypeOK
    <2>2. TypeOK' /\ IsFiniteSet(hung')
      BY <2>1 DEF IOInv, TypeOK, pipeVars, sendVars, clientVars
    <2>3. WrittenShape'
      BY <2>1, IOKept
    <2>4. StopShape'
      BY <2>1 DEF IOInv, StopShape, pipeVars
    <2>5. QED
      BY <1>3, <2>2, <2>3, <2>4 DEF IOInv
  <1>8. QED
    BY <1>5, <1>6, <1>7 DEF WorkerStep

(* The dispatch thread waits for events, finds none, or goes on.           *)
LEMMA PollInv ==
  ASSUME IOInv,
         Poll \/ PollNothing \/ HandleDone \/ SendBroken \/ ReplayFails
  PROVE  IOInv'
  <1>1. /\ UNCHANGED <<workerVars, pipeVars, sendVars, journal, clientVars>>
        /\ dispatch' \in {"handle", "stopped", "poll", "dead"}
        /\ dispatch # "send" \/ dispatch' = "dead"
        /\ dispatch' # "dead" => dispatch # "dead" /\ dispatch # "send"
        /\ dispatch' \in {"poll", "handle", "stopped"} =>
              dispatch \in {"poll", "handle", "stopped"}
        /\ dispatch' = "stopped" => stop /\ Ready = {}
    BY DEF Poll, PollNothing, HandleDone, SendBroken, Sending, ReplayFails
  <1>2. events' \in Seq({"socket", "log", "output"} \cup Clients)
    <2>1. CASE UNCHANGED events
      BY <2>1 DEF IOInv, TypeOK
    <2>2. CASE Poll
      <3>1. /\ IsFiniteSet({c \in hung : conn[c] = "open"})
        BY FS_Subset DEF IOInv
      <3>2. /\ IsFiniteSet({}) /\ IsFiniteSet({"log"})
            /\ IsFiniteSet({"output"}) /\ IsFiniteSet({"socket"})
        BY FS_EmptySet, FS_Singleton
      <3>3. IsFiniteSet(Ready)
        BY <3>1, <3>2, FS_Union DEF Ready
      <3>4. Cardinality(Ready) \in Nat
        BY <3>3, FS_CardinalityType
      <3>5. events' \in [1..Cardinality(Ready) -> Ready]
        BY <2>2 DEF Poll, SetToSeqs
      <3>6. Ready \subseteq {"socket", "log", "output"} \cup Clients
        BY DEF Ready, IOInv, TypeOK
      <3> HIDE DEF Ready
      <3>7. events' \in [1..Cardinality(Ready) ->
                            {"socket", "log", "output"} \cup Clients]
        BY <3>5, <3>6
      <3>8. QED
        BY <3>4, <3>7
    <2>3. QED
      BY <2>1, <2>2 DEF PollNothing, HandleDone, SendBroken, ReplayFails
  <1>3. TypeOK' /\ IsFiniteSet(hung')
    BY <1>1, <1>2 DEF IOInv, TypeOK, workerVars, pipeVars, sendVars, clientVars
  <1>4. OrderShape'
    BY <1>1, IOKept DEF clientVars
  <1>5. SendShape'
    BY <1>1 DEF SendShape
  <1>6. ClientsMirrorJournal'
    BY <1>1 DEF IOInv, ClientsMirrorJournal, Mirrors, Seen, clientVars
  <1>7. WrittenShape'
    <2> SUFFICES ASSUME dispatch' # "dead"
                 PROVE  WrittenShape'
      BY DEF WrittenShape
    <2>1. Written' = Written /\ Pending' = Pending
      BY <1>1 DEF Written, Pending, workerVars
    <2>2. QED
      BY <1>1, <2>1 DEF IOInv, WrittenShape, Before, pipeVars
  <1>8. StopShape'
    <2>1. Ready = {} => logPipe = <<>> /\ outPipe = <<>>
      BY DEF Ready
    <2>2. QED
      BY <1>1, <2>1 DEF IOInv, StopShape, workerVars, pipeVars
  <1>9. QED
    BY <1>3, <1>4, <1>5, <1>6, <1>7, <1>8 DEF IOInv

(* A new client is about to be sent the journal.                           *)
LEMMA ConnectionInv ==
  ASSUME IOInv, NEW c \in Clients, HandleConnection(c)
  PROVE  IOInv'
  <1>1. /\ dispatch = "handle" /\ dispatch' = "send"
        /\ events # <<>> /\ events' = Tail(events)
        /\ conn[c] = "backlog" /\ conn' = [conn EXCEPT ![c] = "open"]
        /\ order' = Append(order, c)
        /\ whole' = IF Whole(journal) THEN whole \cup {c} ELSE whole
        /\ data' \in Replays(journal)
        /\ targets' = <<c>> /\ sent' = 0 /\ live' = FALSE
        /\ UNCHANGED <<workerVars, pipeVars, journal, hung, socket, got>>
    BY DEF HandleConnection, Accept, HandleEvent, Send
  <1>2. /\ conn \in [Clients -> {"new", "backlog", "open", "closed"}]
        /\ conn' \in [Clients -> {"new", "backlog", "open", "closed"}]
        /\ conn'[c] = "open"
        /\ \A d \in Clients \ {c} : conn'[d] = conn[d]
        /\ order \in Seq(Clients) /\ order' \in Seq(Clients)
        /\ journal \in Seq(Fragments)
    BY <1>1 DEF IOInv, TypeOK
  <1>3. TypeOK' /\ IsFiniteSet(hung')
    <2>1. /\ events' \in Seq({"socket", "log", "output"} \cup Clients)
          /\ targets' \in Seq(Clients)
      BY <1>1, <1>2 DEF IOInv, TypeOK
    <2>2. data' \in Seq(Sendable \cup {Failing})
      BY <1>1, JournalRecorded, ReplayTypes
    <2>3. sent' \in 0..Len(data')
      BY <1>1, <2>2
    <2>4. QED
      BY <1>1, <1>2, <2>1, <2>2, <2>3 DEF IOInv, TypeOK, workerVars, pipeVars
  <1>4. OrderShape'
    <2>1. c \notin Range(order)
      BY <1>1 DEF IOInv, OrderShape
    <2>2. Distinct(order') /\ Range(order') = Range(order) \cup {c}
      BY <1>1, <1>2, <2>1, DistinctAppend, RangeOfAppend DEF IOInv, OrderShape
    <2>3. Range(order') = {d \in Clients : conn'[d] = "open"}
      BY <1>2, <2>2 DEF IOInv, OrderShape
    <2>4. QED
      BY <1>1, <1>2, <2>2, <2>3 DEF IOInv, OrderShape
  <1>5. SendShape'
    <2>1. /\ Range(<<c>>) = {c} /\ Distinct(<<c>>) /\ Head(<<c>>) = c
      <3>1. DOMAIN <<c>> = {1} /\ <<c>>[1] = c
        OBVIOUS
      <3>2. QED
        BY <3>1 DEF Range, Distinct
    <2>2. /\ got[c] = <<>> /\ socket[c] = <<>> /\ c \notin whole
          /\ \A d \in Clients : conn[d] = "open" =>
                Mirrors(d, Seen(d), journal)
      BY <1>1 DEF IOInv, OrderShape, ClientsMirrorJournal
    <2>3. /\ \A d : Seen(d)' = Seen(d)
          /\ \A d, t, u : d # c => (Mirrors(d, t, u)' <=> Mirrors(d, t, u))
      BY <1>1 DEF Seen, Mirrors
    <2>4. Seen(c) = <<>> /\ SubSeq(data', 1, 0) = <<>>
      BY <2>2, SubSeqEmpty DEF Seen
    <2>5. c \in whole' <=> Whole(journal)
      BY <1>1, <2>2
    <2> HIDE DEF Seen, Mirrors
    <2>6. Replaying'
      <3>1. \A k \in 1..0 : data'[k] # Failing
        OBVIOUS
      <3>2. ASSUME NEW d \in Clients, conn'[d] = "open"
            PROVE  /\ d # c => Mirrors(d, Seen(d), journal)
                   /\ d = c => Seen(d) = SubSeq(data', 1, 0)
        BY <1>2, <2>2, <2>4, <3>2
      <3>3. QED
        BY <1>1, <2>1, <2>3, <2>5, <3>1, <3>2 DEF Replaying
    <2>7. QED
      BY <1>1, <1>2, <2>1, <2>6 DEF SendShape
  <1>6. ClientsMirrorJournal'
    BY <1>1 DEF ClientsMirrorJournal
  <1>7. WrittenShape'
    <2>1. Written' = Written /\ Pending' = Pending
      BY <1>1 DEF Written, Pending, workerVars
    <2>2. QED
      BY <1>1, <2>1 DEF IOInv, WrittenShape, Before, pipeVars
  <1>8. StopShape'
    BY <1>1 DEF IOInv, StopShape, workerVars
  <1>9. QED
    BY <1>3, <1>4, <1>5, <1>6, <1>7, <1>8 DEF IOInv

LEMMA HangUpInv ==
  ASSUME IOInv, NEW c \in Clients, HandleHangUp(c)
  PROVE  IOInv'
  <1>1. /\ dispatch = "handle" /\ events # <<>> /\ events' = Tail(events)
        /\ conn' = [conn EXCEPT ![c] = "closed"]
        /\ order' = RemoveFirst(order, c)
        /\ UNCHANGED <<workerVars, pipeVars, dispatch, sendVars, journal, hung,
                       socket, got, whole>>
    BY DEF HandleHangUp, HandleEvent
  <1>2. /\ conn' \in [Clients -> {"new", "backlog", "open", "closed"}]
        /\ conn'[c] = "closed"
        /\ \A d \in Clients \ {c} : conn'[d] = conn[d]
        /\ order \in Seq(Clients)
    BY <1>1 DEF IOInv, TypeOK
  <1>3. /\ order' \in Seq(Clients) /\ Distinct(order')
        /\ Range(order') = Range(order) \ {c}
    BY <1>1, <1>2, DistinctRemove DEF IOInv, OrderShape
  <1>4. TypeOK' /\ IsFiniteSet(hung')
    <2>1. events' \in Seq({"socket", "log", "output"} \cup Clients)
      BY <1>1 DEF IOInv, TypeOK
    <2>2. QED
      BY <1>1, <1>2, <1>3, <2>1
      DEF IOInv, TypeOK, workerVars, pipeVars, sendVars
  <1>5. OrderShape'
    BY <1>1, <1>2, <1>3 DEF IOInv, OrderShape
  <1>6. SendShape'
    BY <1>1 DEF SendShape
  <1>7. ClientsMirrorJournal'
    BY <1>1, <1>2 DEF IOInv, ClientsMirrorJournal, Mirrors, Seen
  <1>8. WrittenShape' /\ StopShape'
    BY <1>1, IOKept DEF workerVars
  <1>9. QED
    BY <1>4, <1>5, <1>6, <1>7, <1>8 DEF IOInv

(* What is read from a pipe is about to be broadcast.                      *)
LEMMA ReadInv ==
  ASSUME IOInv, HandleLog \/ HandleOutput
  PROVE  IOInv'
  <1>1. /\ dispatch = "handle" /\ dispatch' = "send"
        /\ events # <<>> /\ events' = Tail(events)
        /\ targets' = order /\ sent' = 0 /\ live' = TRUE
        /\ UNCHANGED <<workerVars, journal, clientVars>>
        /\ \/ data' = ReadOf(logPipe) /\ logPipe' = RestOf(logPipe)
                 /\ outPipe' = outPipe
           \/ data' = ReadOf(outPipe) /\ outPipe' = RestOf(outPipe)
                 /\ logPipe' = logPipe
    BY DEF HandleLog, HandleOutput, HandleEvent, Send
  <1>2. /\ logPipe \in Seq(Fragments) /\ outPipe \in Seq(Fragments)
        /\ journal \in Seq(Fragments)
    BY DEF IOInv, TypeOK
  <1>3. /\ logPipe' \in Seq(Fragments) /\ outPipe' \in Seq(Fragments)
        /\ data' \in Seq(Fragments)
    BY <1>1, <1>2, ReadSplits
  <1>4. TypeOK' /\ IsFiniteSet(hung')
    <2>1. /\ events' \in Seq({"socket", "log", "output"} \cup Clients)
          /\ targets' \in Seq(Clients)
          /\ sent' \in 0..Len(data')
          /\ data' \in Seq(Sendable \cup {Failing})
      BY <1>1, <1>3 DEF IOInv, TypeOK, Sendable
    <2>2. QED
      BY <1>1, <1>3, <2>1 DEF IOInv, TypeOK, workerVars, clientVars
  <1>5. OrderShape'
    BY <1>1, IOKept DEF clientVars
  <1>6. SendShape'
    <2>1. ASSUME NEW c \in Clients, conn[c] = "open"
          PROVE  c \in Range(order) /\ Mirrors(c, Seen(c), journal)
      BY <1>1, <2>1 DEF IOInv, OrderShape, ClientsMirrorJournal
    <2>2. /\ \A d : Seen(d)' = Seen(d)
          /\ \A d, t, u : Mirrors(d, t, u)' <=> Mirrors(d, t, u)
      BY <1>1 DEF Seen, Mirrors, clientVars
    <2>3. journal \o SubSeq(data', 1, 0) = journal
      BY <1>2, SubSeqEmpty, ConcatEmptySeq
    <2> HIDE DEF Seen, Mirrors
    <2>4. Broadcasts'
      BY <1>1, <1>3, <2>1, <2>2, <2>3 DEF Broadcasts, clientVars
    <2>5. QED
      BY <1>1, <2>4 DEF SendShape, clientVars, IOInv, OrderShape
  <1>7. ClientsMirrorJournal'
    BY <1>1 DEF ClientsMirrorJournal
  <1>8. WrittenShape'
    <2>1. /\ Written' = Written /\ Pending' = data' /\ Pending = <<>>
          /\ WrittenShape /\ dispatch # "dead"
      BY <1>1 DEF Written, Pending, workerVars, IOInv
    <2>2. Range(<<>>) = {}
      BY DEF Range
    <2>3. CASE /\ data' = ReadOf(logPipe) /\ logPipe' = RestOf(logPipe)
               /\ outPipe' = outPipe
      <3>1. /\ logPipe = data' \o logPipe'
            /\ Range(logPipe) = Range(data') \cup Range(logPipe')
        BY <1>2, <2>3, ReadSplits
      <3>2. InOrder(data') /\ InOrder(logPipe') /\ Before(data', logPipe')
        BY <1>3, <2>1, <3>1, ConcatInOrder DEF WrittenShape
      <3>3. Before(journal, data') /\ Before(journal, logPipe')
        BY <2>1, <3>1 DEF WrittenShape, Before
      <3>4. Before(data', outPipe)
        BY <2>1, <3>1 DEF WrittenShape, Before, SamePipe
      <3>5. QED
        BY <1>1, <2>1, <2>2, <2>3, <3>1, <3>2, <3>3, <3>4
        DEF WrittenShape
    <2>4. CASE /\ data' = ReadOf(outPipe) /\ outPipe' = RestOf(outPipe)
               /\ logPipe' = logPipe
      <3>1. /\ outPipe = data' \o outPipe'
            /\ Range(outPipe) = Range(data') \cup Range(outPipe')
        BY <1>2, <2>4, ReadSplits
      <3>2. InOrder(data') /\ InOrder(outPipe') /\ Before(data', outPipe')
        BY <1>3, <2>1, <3>1, ConcatInOrder DEF WrittenShape
      <3>3. Before(journal, data') /\ Before(journal, outPipe')
        BY <2>1, <3>1 DEF WrittenShape, Before
      <3>4. Before(data', logPipe)
        BY <2>1, <3>1 DEF WrittenShape, Before, SamePipe
      <3>5. QED
        BY <1>1, <2>1, <2>2, <2>4, <3>1, <3>2, <3>3, <3>4
        DEF WrittenShape
    <2>5. QED
      BY <1>1, <2>3, <2>4
  <1>9. StopShape'
    BY <1>1 DEF IOInv, StopShape, workerVars
  <1>10. QED
    BY <1>4, <1>5, <1>6, <1>7, <1>8, <1>9 DEF IOInv

(* The next fragment is sent to the first of the targets.                  *)
LEMMA SendFragmentInv ==
  ASSUME IOInv, SendFragment
  PROVE  IOInv'
  <1> DEFINE c == Head(targets)
             x == data[sent + 1]
  <1>1. /\ dispatch = "send" /\ targets # <<>> /\ sent < Len(data)
        /\ x # Failing
        /\ socket' = [socket EXCEPT ![c] = Append(socket[c], x)]
        /\ sent' = sent + 1
        /\ UNCHANGED <<workerVars, pipeVars, dispatch, events, data, targets,
                       live, journal, conn, hung, order, got, whole>>
    BY DEF SendFragment, Sending
  <1>2. /\ targets \in Seq(Clients) /\ data \in Seq(Sendable \cup {Failing})
        /\ journal \in Seq(Fragments) /\ sent \in 0..Len(data)
        /\ socket \in [Clients -> Seq(Sendable)]
        /\ got \in [Clients -> Seq(Sendable)]
    BY DEF IOInv, TypeOK
  <1>3. c \in Clients /\ c \in Range(targets) /\ x \in Sendable
    <2>1. 1 \in DOMAIN targets /\ c = targets[1] /\ c \in Clients
      BY <1>1, <1>2
    <2>2. sent + 1 \in 1..Len(data)
      BY <1>1, <1>2
    <2>3. QED
      BY <1>1, <1>2, <2>1, <2>2 DEF Range
  <1> HIDE DEF c, x
  <1>4. /\ socket' \in [Clients -> Seq(Sendable)]
        /\ socket'[c] = Append(socket[c], x)
        /\ \A d \in Clients \ {c} : socket'[d] = socket[d]
    BY <1>1, <1>2, <1>3
  <1>5. conn[c] = "open"
    BY <1>1, <1>3 DEF IOInv, SendShape
  <1>6. TypeOK' /\ IsFiniteSet(hung')
    <2>1. sent' \in 0..Len(data')
      BY <1>1, <1>2
    <2>2. QED
      BY <1>1, <1>4, <2>1 DEF IOInv, TypeOK, workerVars, pipeVars
  <1>7. OrderShape'
    BY <1>1, <1>4, <1>5 DEF IOInv, OrderShape
  <1>8. SendShape'
    <2>1. \A d \in Clients \ {c} : Seen(d)' = Seen(d)
      BY <1>1, <1>4 DEF Seen
    <2>2. Seen(c)' = Append(Seen(c), x) /\ Seen(c) \in Seq(Sendable)
      <3>1. got[c] \in Seq(Sendable) /\ socket[c] \in Seq(Sendable)
        BY <1>2, <1>3
      <3>2. \A s, t \in Seq(Sendable) : s \o Append(t, x) = Append(s \o t, x)
        BY <1>3, ConcatAppend
      <3>3. got[c] \o Append(socket[c], x) = Append(got[c] \o socket[c], x)
        BY <3>1, <3>2
      <3>4. Seen(c)' = got'[c'] \o socket'[c']
        BY DEF Seen
      <3>5. c' = c
        BY <1>1 DEF c
      <3>6. QED
        <4>1. Seen(c) = got[c] \o socket[c] /\ Seen(c) \in Seq(Sendable)
          BY <3>1 DEF Seen
        <4>2. got'[c'] \o socket'[c'] = got[c] \o Append(socket[c], x)
          BY <1>1, <1>4, <3>5
        <4>3. QED
          BY <3>3, <3>4, <4>1, <4>2
    <2>3. \A d, t, u : Mirrors(d, t, u)' <=> Mirrors(d, t, u)
      BY <1>1 DEF Mirrors
    <2>4. c' = c
      BY <1>1 DEF c
    <2> HIDE DEF Seen, Mirrors
    <2>5. CASE live
      <3>1. Broadcasts
        BY <1>1, <2>5 DEF IOInv, SendShape
      <3>2. data \in Seq(Fragments)
        BY <3>1 DEF Broadcasts
      <3>3. /\ SubSeq(data, 1, sent + 1) = Append(SubSeq(data, 1, sent), x)
            /\ SubSeq(data, 1, sent) \in Seq(Fragments)
            /\ x \in Fragments
        BY <1>1, <1>2, <3>2 DEF x
      <3>4. journal \o SubSeq(data, 1, sent + 1)
               = Append(journal \o SubSeq(data, 1, sent), x)
        <4>1. \A s, t \in Seq(Fragments) : s \o Append(t, x) = Append(s \o t, x)
          BY <3>3, ConcatAppend
        <4>2. QED
          BY <1>2, <3>3, <4>1
      <3>5. journal \o SubSeq(data, 1, sent) \in Seq(Fragments)
        BY <1>2, <3>3
      <3>6. Mirrors(c, Seen(c), journal \o SubSeq(data, 1, sent))
        BY <1>3, <1>5, <3>1 DEF Broadcasts, c
      <3>7. Mirrors(c, Append(Seen(c), x),
                    Append(journal \o SubSeq(data, 1, sent), x))
        BY <2>2, <3>3, <3>5, <3>6, MirrorsGrows
      <3>8. Mirrors(c, Seen(c), journal \o SubSeq(data, 1, sent))'
        BY <1>1, <2>2, <2>3, <2>4, <3>4, <3>7
      <3>9. Broadcasts'
        <4> SUFFICES ASSUME NEW d \in Clients, conn[d] = "open"
                     PROVE  /\ d \notin Range(targets) =>
                                  Mirrors(d, Seen(d), journal \o data)'
                            /\ d \in Range(targets) =>
                                  IF d = c
                                  THEN Mirrors(d, Seen(d),
                                         journal \o SubSeq(data, 1, sent))'
                                  ELSE Mirrors(d, Seen(d), journal)'
          BY <1>1, <2>4, <3>2 DEF Broadcasts, c
        <4>1. CASE d = c
          BY <1>3, <2>4, <3>8, <4>1
        <4>2. CASE d # c
          <5>1. /\ d \notin Range(targets) =>
                      Mirrors(d, Seen(d), journal \o data)
                /\ d \in Range(targets) => Mirrors(d, Seen(d), journal)
            BY <3>1, <4>2 DEF Broadcasts, c
          <5>2. Seen(d)' = Seen(d)
            BY <2>1, <4>2
          <5>3. QED
            BY <1>1, <2>3, <4>2, <5>1, <5>2
        <4>3. QED
          BY <4>1, <4>2
      <3>10. QED
        BY <1>1, <2>5, <3>9 DEF IOInv, SendShape
    <2>6. CASE ~live
      <3>1. Replaying
        BY <1>1, <2>6 DEF IOInv, SendShape
      <3>2. /\ SubSeq(data, 1, sent + 1) = Append(SubSeq(data, 1, sent), x)
            /\ \A k \in 1..(sent + 1) : k \in 1..sent \/ k = sent + 1
        BY <1>1, <1>2 DEF x
      <3>3. \A k \in 1..(sent + 1) : data[k] # Failing
        BY <1>1, <3>1, <3>2 DEF Replaying, x
      <3>4. \A d \in Clients \ {c} : conn[d] = "open" =>
               d \notin Range(targets) /\ Mirrors(d, Seen(d), journal)
        BY <3>1 DEF Replaying, c
      <3>5. /\ Seen(c) = SubSeq(data, 1, sent)
            /\ c \in whole <=> Whole(journal)
        BY <1>3, <1>5, <3>1 DEF Replaying
      <3>6. Replaying'
        <4> SUFFICES ASSUME NEW d \in Clients, conn[d] = "open"
                     PROVE  /\ d \notin Range(targets) =>
                                  Mirrors(d, Seen(d), journal)'
                            /\ d \in Range(targets) =>
                                  /\ d = c
                                  /\ Seen(d)' = SubSeq(data, 1, sent + 1)
                                  /\ d \in whole <=> Whole(journal)
          BY <1>1, <2>4, <3>1, <3>3 DEF Replaying, c
        <4>1. CASE d = c
          BY <1>3, <2>2, <2>4, <3>2, <3>5, <4>1
        <4>2. CASE d # c
          BY <1>1, <2>1, <2>3, <3>4, <4>2
        <4>3. QED
          BY <4>1, <4>2
      <3>7. QED
        BY <1>1, <2>6, <3>6 DEF IOInv, SendShape
    <2>7. QED
      BY <2>5, <2>6
  <1>9. ClientsMirrorJournal' /\ WrittenShape' /\ StopShape'
    <2>1. ClientsMirrorJournal'
      BY <1>1 DEF ClientsMirrorJournal
    <2>2. Written' = Written /\ Pending' = Pending
      BY <1>1 DEF Written, Pending, workerVars
    <2>3. WrittenShape'
      BY <1>1, <2>2 DEF IOInv, WrittenShape, Before, pipeVars
    <2>4. StopShape'
      BY <1>1, IOKept DEF workerVars
    <2>5. QED
      BY <2>1, <2>3, <2>4
  <1>10. QED
    BY <1>6, <1>7, <1>8, <1>9 DEF IOInv

(* The first of the targets has all the data: it is the turn of the next.  *)
LEMMA SendNextInv ==
  ASSUME IOInv, SendNext
  PROVE  IOInv'
  <1>1. /\ dispatch = "send" /\ targets # <<>> /\ sent = Len(data)
        /\ targets' = Tail(targets) /\ sent' = 0
        /\ UNCHANGED <<workerVars, pipeVars, dispatch, events, data, live,
                       journal, clientVars>>
    BY DEF SendNext
  <1>2. /\ targets \in Seq(Clients) /\ data \in Seq(Sendable \cup {Failing})
        /\ journal \in Seq(Fragments)
    BY DEF IOInv, TypeOK
  <1>3. /\ targets' \in Seq(Clients) /\ Distinct(targets')
        /\ Range(targets') = Range(targets) \ {Head(targets)}
        /\ Head(targets) \in Range(targets)
    BY <1>1, <1>2, DistinctTail DEF IOInv, SendShape
  <1>4. TypeOK' /\ IsFiniteSet(hung')
    <2>1. sent' \in 0..Len(data')
      BY <1>1, <1>2
    <2>2. QED
      BY <1>1, <1>3, <2>1 DEF IOInv, TypeOK, workerVars, pipeVars, clientVars
  <1>5. OrderShape'
    BY <1>1, IOKept DEF clientVars
  <1>6. SendShape'
    <2>1. /\ \A d : Seen(d)' = Seen(d)
          /\ \A d, t, u : Mirrors(d, t, u)' <=> Mirrors(d, t, u)
      BY <1>1 DEF Seen, Mirrors, clientVars
    <2>2. SubSeq(data, 1, sent) = data /\ Len(data) \in Nat
      BY <1>1, <1>2, SubSeqFull
    <2>3. journal \o SubSeq(data, 1, 0) = journal
      BY <1>2, SubSeqEmpty, ConcatEmptySeq
    <2> HIDE DEF Seen
    <2>4. CASE live
      <3>1. Broadcasts
        BY <1>1, <2>4 DEF IOInv, SendShape
      <3> HIDE DEF Mirrors
      <3>2. Broadcasts'
        BY <1>1, <1>3, <2>1, <2>2, <2>3, <3>1 DEF Broadcasts, clientVars
      <3>3. QED
        BY <1>1, <1>3, <2>4, <3>2 DEF IOInv, SendShape, clientVars
    <2>5. CASE ~live
      <3>1. Replaying
        BY <1>1, <2>5 DEF IOInv, SendShape
      <3>2. IF Whole(journal) THEN data = journal ELSE Follows(data, journal)
        BY <1>1, <3>1, JournalRecorded, ReplayFollows DEF Replaying
      <3>3. ASSUME NEW d \in Clients, conn[d] = "open"
            PROVE  d \notin Range(targets') /\ Mirrors(d, Seen(d), journal)
        <4>1. CASE d \in Range(targets)
          <5>1. /\ d = Head(targets) /\ Seen(d) = data
                /\ d \in whole <=> Whole(journal)
            BY <2>2, <3>1, <3>3, <4>1 DEF Replaying
          <5>2. QED
            BY <1>3, <3>2, <5>1 DEF Mirrors
        <4>2. CASE d \notin Range(targets)
          BY <1>3, <3>1, <3>3, <4>2 DEF Replaying
        <4>3. QED
          BY <4>1, <4>2
      <3> HIDE DEF Mirrors
      <3>4. \A k \in 1..0 : data[k] # Failing
        OBVIOUS
      <3>5. Replaying'
        BY <1>1, <2>1, <3>1, <3>3, <3>4 DEF Replaying, clientVars
      <3>6. QED
        BY <1>1, <1>3, <2>5, <3>5 DEF IOInv, SendShape, clientVars
    <2>6. QED
      BY <2>4, <2>5
  <1>7. ClientsMirrorJournal' /\ WrittenShape' /\ StopShape'
    <2>1. ClientsMirrorJournal'
      BY <1>1 DEF ClientsMirrorJournal
    <2>2. Written' = Written /\ Pending' = Pending
      BY <1>1 DEF Written, Pending, workerVars
    <2>3. WrittenShape'
      BY <1>1, <2>2 DEF IOInv, WrittenShape, Before, pipeVars
    <2>4. StopShape'
      BY <1>1, IOKept DEF workerVars
    <2>5. QED
      BY <2>1, <2>3, <2>4
  <1>8. QED
    BY <1>4, <1>5, <1>6, <1>7 DEF IOInv

(* All the targets have the data, and the journal has it as well.          *)
LEMMA SendDoneInv ==
  ASSUME IOInv, SendDone
  PROVE  IOInv'
  <1>1. /\ dispatch = "send" /\ targets = <<>> /\ dispatch' = "handle"
        /\ journal' = IF live THEN journal \o data ELSE journal
        /\ data' = <<>>
        /\ UNCHANGED <<workerVars, pipeVars, events, targets, sent, live,
                       clientVars>>
    BY DEF SendDone
  <1>2. /\ journal \in Seq(Fragments) /\ sent = 0
        /\ live => data \in Seq(Fragments)
    BY <1>1 DEF IOInv, TypeOK, SendShape, Broadcasts
  <1>3. journal' \in Seq(Fragments)
    BY <1>1, <1>2
  <1>4. TypeOK' /\ IsFiniteSet(hung')
    <2>1. sent' \in 0..Len(data') /\ data' \in Seq(Sendable \cup {Failing})
      BY <1>1, <1>2
    <2>2. QED
      BY <1>1, <1>3, <2>1 DEF IOInv, TypeOK, workerVars, pipeVars, clientVars
  <1>5. OrderShape'
    BY <1>1, IOKept DEF clientVars
  <1>6. SendShape'
    BY <1>1 DEF SendShape
  <1>7. ClientsMirrorJournal'
    <2>1. ASSUME NEW c \in Clients, conn[c] = "open"
          PROVE  Mirrors(c, Seen(c), journal')
      <3>1. c \notin Range(targets)
        BY <1>1 DEF Range
      <3> HIDE DEF Seen, Mirrors
      <3>2. CASE live
        BY <1>1, <2>1, <3>1, <3>2 DEF IOInv, SendShape, Broadcasts
      <3>3. CASE ~live
        BY <1>1, <2>1, <3>1, <3>3 DEF IOInv, SendShape, Replaying
      <3>4. QED
        BY <3>2, <3>3
    <2>2. /\ \A c : Seen(c)' = Seen(c)
          /\ \A c, t, u : Mirrors(c, t, u)' <=> Mirrors(c, t, u)
      BY <1>1 DEF Seen, Mirrors, clientVars
    <2> HIDE DEF Seen, Mirrors
    <2>3. QED
      BY <1>1, <2>1, <2>2 DEF ClientsMirrorJournal, clientVars
  <1>8. WrittenShape'
    <2>1. /\ Written' = Written /\ Pending' = <<>>
          /\ WrittenShape /\ dispatch # "dead"
      BY <1>1 DEF Written, Pending, workerVars, IOInv
    <2>2. Range(<<>>) = {} /\ InOrder(<<>>)
      BY DEF Range, InOrder
    <2>3. Range(journal') = Range(journal) \cup Range(Pending)
      BY <1>1, <1>2, <2>2, RangeConcatenation DEF Pending
    <2>4. InOrder(journal')
      BY <1>1, <1>2, <2>1, ConcatInOrder DEF WrittenShape, Pending
    <2>5. Before(journal', logPipe) /\ Before(journal', outPipe)
      BY <2>1, <2>3 DEF WrittenShape, Before
    <2>6. Before(journal', <<>>) /\ Before(<<>>, logPipe)
          /\ Before(<<>>, outPipe)
      BY <2>2 DEF Before
    <2>7. QED
      BY <1>1, <2>1, <2>2, <2>3, <2>4, <2>5, <2>6 DEF WrittenShape, pipeVars
  <1>9. StopShape'
    BY <1>1 DEF IOInv, StopShape, workerVars
  <1>10. QED
    BY <1>4, <1>5, <1>6, <1>7, <1>8, <1>9 DEF IOInv

(* A client connects, receives a fragment or hangs up.                     *)
LEMMA ClientInv ==
  ASSUME IOInv, NEW c \in Clients, Connect(c) \/ Receive(c) \/ HangUp(c)
  PROVE  IOInv'
  <1>1. UNCHANGED <<workerVars, pipeVars, dispatch, events, sendVars, journal,
                    order>>
    BY DEF Connect, Receive, HangUp
  <1>2. WrittenShape' /\ StopShape'
    BY <1>1, IOKept DEF workerVars
  <1>3. /\ conn \in [Clients -> {"new", "backlog", "open", "closed"}]
        /\ socket \in [Clients -> Seq(Sendable)]
        /\ got \in [Clients -> Seq(Sendable)]
    BY DEF IOInv, TypeOK
  <1>4. CASE Connect(c)
    <2>1. /\ conn[c] = "new" /\ conn' = [conn EXCEPT ![c] = "backlog"]
          /\ UNCHANGED <<hung, socket, got, whole>>
      BY <1>4 DEF Connect
    <2>2. /\ conn' \in [Clients -> {"new", "backlog", "open", "closed"}]
          /\ conn'[c] = "backlog"
          /\ \A d \in Clients \ {c} : conn'[d] = conn[d]
      BY <1>3, <2>1
    <2>3. TypeOK' /\ IsFiniteSet(hung')
      BY <1>1, <2>1, <2>2 DEF IOInv, TypeOK, workerVars, pipeVars, sendVars
    <2>4. OrderShape'
      BY <1>1, <2>1, <2>2 DEF IOInv, OrderShape
    <2>5. SendShape'
      <3>1. /\ \A d : Seen(d)' = Seen(d)
            /\ \A d, t, u : Mirrors(d, t, u)' <=> Mirrors(d, t, u)
            /\ \A d \in Clients : conn'[d] = "open" => conn[d] = "open"
        BY <1>1, <2>1, <2>2 DEF Seen, Mirrors
      <3>2. Range(targets) \subseteq Clients
        BY DEF IOInv, TypeOK, Range
      <3> HIDE DEF Seen, Mirrors
      <3>3. (Broadcasts => Broadcasts') /\ (Replaying => Replaying')
        BY <1>1, <2>1, <3>1 DEF Broadcasts, Replaying, sendVars
      <3>4. QED
        BY <1>1, <2>1, <2>2, <3>2, <3>3 DEF IOInv, SendShape, sendVars
    <2>6. ClientsMirrorJournal'
      BY <1>1, <2>1, <2>2 DEF IOInv, ClientsMirrorJournal, Mirrors, Seen
    <2>7. QED
      BY <1>2, <2>3, <2>4, <2>5, <2>6 DEF IOInv
  <1>5. CASE Receive(c)
    <2>1. /\ socket[c] # <<>>
          /\ got' = [got EXCEPT ![c] = Append(got[c], Head(socket[c]))]
          /\ socket' = [socket EXCEPT ![c] = Tail(socket[c])]
          /\ UNCHANGED <<hung, conn, whole>>
      BY <1>5 DEF Receive
    <2>2. /\ Head(socket[c]) \in Sendable
          /\ Tail(socket[c]) \in Seq(Sendable)
          /\ socket[c] = <<Head(socket[c])>> \o Tail(socket[c])
      BY <1>3, <2>1
    <2>3. /\ got' \in [Clients -> Seq(Sendable)]
          /\ socket' \in [Clients -> Seq(Sendable)]
          /\ got'[c] = Append(got[c], Head(socket[c]))
          /\ socket'[c] = Tail(socket[c])
          /\ \A d \in Clients \ {c} : got'[d] = got[d] /\ socket'[d] = socket[d]
      BY <1>3, <2>1, <2>2
    <2>4. TypeOK' /\ IsFiniteSet(hung')
      BY <1>1, <2>1, <2>3 DEF IOInv, TypeOK, workerVars, pipeVars, sendVars
    <2>5. OrderShape'
      BY <1>1, <2>1, <2>3 DEF IOInv, OrderShape
    <2>6. \A d \in Clients : Seen(d)' = Seen(d)
      <3>1. Append(got[c], Head(socket[c])) \o Tail(socket[c])
               = got[c] \o socket[c]
        <4>1. Append(got[c], Head(socket[c])) = got[c] \o <<Head(socket[c])>>
          BY <1>3, <2>2, AppendIsConcat
        <4>2. <<Head(socket[c])>> \in Seq(Sendable)
          BY <2>2
        <4>3. QED
          BY <1>3, <2>2, <4>1, <4>2, ConcatAssociative
      <3>2. QED
        BY <2>3, <3>1 DEF Seen
    <2>7. \A d, t, u : Mirrors(d, t, u)' <=> Mirrors(d, t, u)
      BY <2>1 DEF Mirrors
    <2>8. SendShape'
      <3> HIDE DEF Seen, Mirrors
      <3>1. (Broadcasts => Broadcasts') /\ (Replaying => Replaying')
        BY <1>1, <2>1, <2>6, <2>7 DEF Broadcasts, Replaying, sendVars
      <3>2. QED
        BY <1>1, <2>1, <3>1 DEF IOInv, SendShape, sendVars
    <2>9. ClientsMirrorJournal'
      BY <1>1, <2>1, <2>6, <2>7 DEF IOInv, ClientsMirrorJournal
    <2>10. QED
      BY <1>2, <2>4, <2>5, <2>8, <2>9 DEF IOInv
  <1>6. CASE HangUp(c)
    <2>1. /\ hung' = hung \cup {c}
          /\ UNCHANGED <<conn, socket, got, whole>>
      BY <1>6 DEF HangUp
    <2>2. IsFiniteSet(hung')
      BY <2>1, FS_AddElement DEF IOInv
    <2>3. TypeOK'
      BY <1>1, <2>1 DEF IOInv, TypeOK, workerVars, pipeVars, sendVars
    <2>4. OrderShape' /\ SendShape' /\ ClientsMirrorJournal'
      BY <1>1, <2>1, IOKept
    <2>5. QED
      BY <1>2, <2>2, <2>3, <2>4 DEF IOInv
  <1>7. QED
    BY <1>4, <1>5, <1>6

LEMMA IONextInv == IOInv /\ [Next]_vars => IOInv'
  <1> SUFFICES ASSUME IOInv, [Next]_vars
               PROVE  IOInv'
    OBVIOUS
  <1>1. CASE UNCHANGED vars
    <2>1. TypeOK' /\ IsFiniteSet(hung')
      BY <1>1 DEF vars, IOInv, TypeOK, workerVars, pipeVars, sendVars,
                  clientVars
    <2>2. QED
      BY <1>1, <2>1, IOKept DEF vars, IOInv, workerVars, clientVars
  <1>2. CASE WorkerStep
    BY <1>2, WorkerStepInv
  <1>3. CASE DispatchStep
    BY <1>3, PollInv, ConnectionInv, HangUpInv, ReadInv, SendFragmentInv,
       SendNextInv, SendDoneInv DEF DispatchStep
  <1>4. CASE \E c \in Clients : Connect(c) \/ Receive(c) \/ HangUp(c)
    BY <1>4, ClientInv
  <1>5. CASE Rest
    BY <1>1, <1>5 DEF Rest
  <1>6. QED
    BY <1>1, <1>2, <1>3, <1>4, <1>5 DEF Next

LEMMA IOInvariant == Spec => []IOInv
  BY IOInitInv, IONextInv, PTL DEF Spec

-----------------------------------------------------------------------------
(* What the run of the task checks.                                        *)

(***************************************************************************)
(* The pipes, the sockets and the journal hold fragments of what the task  *)
(* writes, and what was sent of the data to a connection is no more than   *)
(* the data (tasks/__init__.py:148-206).                                   *)
(***************************************************************************)
THEOREM IOTypes == Spec => []TypeOK
  BY IOInvariant, PTL DEF IOInv

(***************************************************************************)
(* At the end of every event a client that was accepted when no record of  *)
(* the journal was broken off has received, or is about to receive, the    *)
(* journal from its beginning; another one has all of it but what began at *)
(* the first broken record and was there when it was accepted, for which   *)
(* it was sent something else (tasks/__init__.py:64-78, 172-190,           *)
(* console/__init__.py:85-108).  It holds however many clients there are.  *)
(***************************************************************************)
THEOREM ClientsSeeJournal == Spec => []ClientsMirrorJournal
  BY IOInvariant, PTL DEF IOInv

(***************************************************************************)
(* A dispatch thread that stops has written in the journal all that the    *)
(* task and its commands wrote, once and in the order of each pipe,        *)
(* whatever the sizes of the pipes and of the reads                        *)
(* (tasks/__init__.py:167-206).                                            *)
(***************************************************************************)
THEOREM StopIsComplete == Spec => []StopLosesNothing
  <1>1. IOInv => StopLosesNothing
    <2> SUFFICES ASSUME IOInv, dispatch = "stopped"
                 PROVE  JournalHasAll
      BY DEF StopLosesNothing
    <2>1. /\ logPipe = <<>> /\ outPipe = <<>> /\ Pending = <<>>
          /\ WrittenShape
      BY DEF IOInv, StopShape, Pending
    <2>2. Range(<<>>) = {}
      BY DEF Range
    <2>3. QED
      BY <2>1, <2>2 DEF WrittenShape, JournalHasAll
  <1>2. QED
    BY <1>1, IOInvariant, PTL
=============================================================================
