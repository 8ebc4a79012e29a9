----------------------------- MODULE PartsProofs -----------------------------
(***************************************************************************)
(* What is proved of a part holds in the behaviors of module Parts, which  *)
(* are those the run of the parts checks.  The history, which has no       *)
(* module of proofs of its own, comes first.                               *)
(***************************************************************************)
EXTENDS Parts, PatchesProofs, RegistryProofs, KeyringProofs

-----------------------------------------------------------------------------
(* The history.                                                            *)

\* Where the loop of the policy is in its listing, and what it has counted.
LoopShape ==
    /\ listing \in Seq(Tasks)
    /\ phase = "remove" => position <= Len(listing)
    /\ \A h \in Histids :
          counts[h] <= IF phase = "remove" THEN position ELSE position - 1

HistoryIInv == TypeOK /\ LoopShape

LEMMA ListingsTypes ==
  ASSUME NEW s \in Listings
  PROVE  /\ s \in Seq(Tasks)
         /\ Range(s) \subseteq Tasks
         /\ IsInjective(s)
  <1>1. IsFiniteSet(Archived) /\ Archived \subseteq Tasks
    <2>1. Archived \in SUBSET Tasks
      BY DEF Archived
    <2> HIDE DEF Archived
    <2>2. QED
      BY <2>1, TasksAssumption, FS_Subset
  <1>2. Cardinality(Archived) \in Nat
    BY <1>1, FS_CardinalityType
  <1>3. /\ s \in [1..Cardinality(Archived) -> Archived]
        /\ \A i, j \in 1..Cardinality(Archived) : s[i] = s[j] => i = j
    BY DEF Listings, SetToSeqs
  <1>4. s \in Seq(Tasks)
    BY <1>1, <1>2, <1>3
  <1>5. Range(s) \subseteq Tasks
    BY <1>1, <1>3 DEF Range
  <1>6. IsInjective(s)
    BY <1>3 DEF IsInjective
  <1>7. QED
    BY <1>4, <1>5, <1>6

LEMMA SizesTypes == Sizes \cup {0} \subseteq Nat
  BY SizesAssumption

LEMMA HistoryInit == Init => HistoryIInv
  <1> SUFFICES ASSUME Init PROVE HistoryIInv
    OBVIOUS
  <1>1. listing \in Seq(Tasks) /\ Len(listing) = 0
    BY DEF Init
  <1>2. Range(listing) \subseteq Tasks /\ IsInjective(listing)
    BY DEF Init, Range, IsInjective
  <1>3. histid \in [Tasks -> Histids]
    BY HistidsAssumption DEF Init
  <1>4. QED
    BY <1>1, <1>2, <1>3, MaxClockAssumption
    DEF Init, HistoryIInv, TypeOK, LoopShape, Times

LEMMA HistoryNext == HistoryIInv /\ [Next]_vars => HistoryIInv'
  <1> SUFFICES ASSUME HistoryIInv, [Next]_vars PROVE HistoryIInv'
    OBVIOUS
  <1> USE DEF HistoryIInv
  <1>1. CASE UNCHANGED vars
    BY <1>1 DEF vars, clockVars, taskVars, loopVars, TypeOK, LoopShape, Times
  <1>2. ASSUME NEW t \in Tasks, NEW h \in HistidsRead, NEW s \in SizesRead,
               Archive(t, h, s)
        PROVE  HistoryIInv'
    <2>1. h \in Histids /\ s \in Sizes
      BY HistidsAssumption, SizesAssumption DEF HistidsRead, SizesRead
    <2>2. UNCHANGED <<policy, clock, started, phase, listing, position, limit,
                      kept, counts, measured>>
      BY <1>2 DEF Archive, clockVars, loopVars
    <2>3. LoopShape'
      BY <2>2 DEF LoopShape
    <2>4. /\ place' \in [Tasks -> {"none", "archived", "malformed", "removed"}]
          /\ histid' \in [Tasks -> Histids]
          /\ size' \in [Tasks -> Sizes \cup {0}]
      BY <1>2, <2>1 DEF Archive, TypeOK
    <2>5. date' \in [Tasks -> 0..clock] /\ since' \in [Tasks -> 0..clock]
      BY <1>2 DEF Archive, TypeOK, Times
    <2>6. QED
      BY <2>2, <2>3, <2>4, <2>5 DEF TypeOK, Times
  <1>3. ASSUME Tick PROVE HistoryIInv'
    <2>1. /\ clock' = clock + 1 /\ clock < MaxClock
          /\ UNCHANGED <<policy, started, place, date, histid, size, since,
                         phase, listing, position, limit, kept, counts,
                         measured>>
      BY <1>3 DEF Tick, taskVars, loopVars
    <2>2. clock' \in Times /\ 0..clock \subseteq 0..clock'
      BY <2>1, MaxClockAssumption DEF TypeOK, Times
    <2>3. QED
      BY <2>1, <2>2 DEF TypeOK, LoopShape
  <1>4. ASSUME Restart PROVE HistoryIInv'
    <2>1. /\ started' = clock /\ phase' = "idle" /\ listing' = <<>>
          /\ position' = 1 /\ kept' = 0
          /\ counts' = [h \in Histids |-> 0]
          /\ UNCHANGED <<policy, clock, date, histid, since, limit, measured>>
      BY <1>4 DEF Restart
    <2>2. /\ place' \in [Tasks -> {"none", "archived", "malformed", "removed"}]
          /\ size' \in [Tasks -> Sizes \cup {0}]
      BY <1>4 DEF Restart, Torn, TypeOK
    <2>3. listing' \in Seq(Tasks) /\ Len(listing') = 0
      BY <2>1
    <2>4. Range(listing)' \subseteq Tasks /\ IsInjective(listing)'
      BY <2>1 DEF Range, IsInjective
    <2>5. LoopShape'
      BY <2>1, <2>3 DEF LoopShape
    <2>6. QED
      BY <2>1, <2>2, <2>3, <2>4, <2>5 DEF TypeOK, Times
  <1>5. ASSUME PurgeStart \/ PurgeEnds PROVE HistoryIInv'
    <2>1. /\ phase' \in {"dump", "report"} /\ phase \in {"idle", "run"}
          /\ UNCHANGED <<policy, clock, started, place, date, histid, size,
                         since, listing, position, limit, kept, counts,
                         measured>>
      BY <1>5 DEF PurgeStart, PurgeEnds, clockVars, taskVars, loopVars
    <2>2. LoopShape'
      BY <2>1 DEF LoopShape
    <2>3. QED
      BY <2>1, <2>2 DEF TypeOK, Times
  <1>6. ASSUME NEW t \in Tasks, DumpMalformed(t) PROVE HistoryIInv'
    <2>1. /\ place' \in [Tasks -> {"none", "archived", "malformed", "removed"}]
          /\ UNCHANGED <<policy, clock, started, date, histid, size, since,
                         phase, listing, position, limit, kept, counts,
                         measured>>
      BY <1>6 DEF DumpMalformed, TypeOK, clockVars, taskVars, loopVars
    <2>2. QED
      BY <2>1 DEF TypeOK, LoopShape, Times
  <1>7. ASSUME DumpSort PROVE HistoryIInv'
    <2>1. /\ phase' = "run" /\ position' = 1 /\ kept' = 0 /\ measured' = 0
          /\ counts' = [h \in Histids |-> 0]
          /\ UNCHANGED <<policy, clock, started, place, date, histid, size,
                         since>>
      BY <1>7 DEF DumpSort, clockVars, taskVars
    <2>2. listing' \in Seq(Tasks) /\ Range(listing)' \subseteq Tasks
          /\ IsInjective(listing)'
      BY <1>7, ListingsTypes DEF DumpSort
    <2>3. Len(listing') \in Nat
      BY <2>2
    <2>4. limit' \in Int
      BY <1>7, PoliciesAssumption DEF DumpSort, TypeOK, Times
    <2>5. LoopShape'
      BY <2>1, <2>2 DEF LoopShape
    <2>6. QED
      BY <2>1, <2>2, <2>3, <2>4, <2>5 DEF TypeOK, Times
  <1>8. ASSUME NEW t \in Tasks, Visit(t) PROVE HistoryIInv'
    <2>1. /\ phase = "run" /\ position <= Len(listing)
          /\ position' = IF phase' = "remove" THEN position ELSE position + 1
          /\ UNCHANGED <<policy, clock, started, place, date, histid, size,
                         since, listing, limit>>
      BY <1>8 DEF Visit, clockVars, taskVars
    <2>2. /\ Len(listing) \in Nat /\ position \in Nat /\ kept \in Nat
          /\ kept <= position - 1
      BY DEF TypeOK, LoopShape
    <2>3. phase' \in {"run", "remove"}
      BY <1>8 DEF Visit, OlderVisit, LastVisit, EachVisit, SizeVisit
    <2>4. position' \in 1..(Len(listing') + 1)
      BY <2>1, <2>2 DEF TypeOK
    <2>5. kept' \in 0..(position' - 1)
      BY <1>8, <2>1, <2>2
      DEF Visit, OlderVisit, LastVisit, EachVisit, SizeVisit
    <2>6. /\ counts' \in [Histids -> Nat]
          /\ \A h \in Histids : counts'[h] <= position
          /\ phase' # "remove" =>
                \A h \in Histids : counts'[h] <= position' - 1
      <3>1. \A h \in Histids : counts[h] \in Nat /\ counts[h] <= position - 1
        BY <2>1 DEF TypeOK, LoopShape
      <3>2. CASE EachVisit(t)
        BY <2>1, <2>2, <3>1, <3>2 DEF EachVisit, TypeOK
      <3>3. CASE counts' = counts
        BY <2>1, <2>2, <3>1, <3>3 DEF TypeOK
      <3>4. QED
        BY <1>8, <3>2, <3>3 DEF Visit, OlderVisit, LastVisit, SizeVisit
    <2>7. measured' \in Nat
      <3>1. size[t] \in Sizes \cup {0}
        BY DEF TypeOK
      <3>2. size[t] \in Nat
        BY <3>1, SizesTypes
      <3>3. QED
        BY <1>8, <3>2
        DEF Visit, OlderVisit, LastVisit, EachVisit, SizeVisit, TypeOK
    <2>8. LoopShape'
      BY <2>1, <2>2, <2>3, <2>6 DEF LoopShape
    <2>9. counts' \in [Histids -> 0..Len(listing)]
      BY <2>1, <2>2, <2>6
    <2>10. QED
      BY <2>1, <2>3, <2>4, <2>5, <2>7, <2>8, <2>9 DEF TypeOK, Times
  <1>9. ASSUME RemoveWorkspace PROVE HistoryIInv'
    <2>1. /\ phase = "remove" /\ phase' = "run" /\ position' = position + 1
          /\ place' = [place EXCEPT ![listing[position]] = "removed"]
          /\ UNCHANGED <<policy, clock, started, date, histid, size, since,
                         listing, limit, kept, counts, measured>>
      BY <1>9 DEF RemoveWorkspace, clockVars, taskVars
    <2>2. Len(listing) \in Nat /\ position \in Nat /\ position <= Len(listing)
      BY <2>1 DEF TypeOK, LoopShape
    <2>3. place' \in [Tasks -> {"none", "archived", "malformed", "removed"}]
      BY <2>1 DEF TypeOK
    <2>4. position' \in 1..(Len(listing') + 1) /\ kept' \in 0..(position' - 1)
      BY <2>1, <2>2 DEF TypeOK
    <2>5. LoopShape'
      BY <2>1, <2>2 DEF LoopShape
    <2>6. QED
      BY <2>1, <2>3, <2>4, <2>5 DEF TypeOK, Times
  <1>10. ASSUME Report PROVE HistoryIInv'
    <2>1. /\ phase' = "idle" /\ listing' = <<>>
          /\ position' = 1 /\ kept' = 0
          /\ counts' = [h \in Histids |-> 0]
          /\ UNCHANGED <<policy, clock, started, place, date, histid, size,
                         since, limit, measured>>
      BY <1>10 DEF Report, clockVars, taskVars
    <2>2. listing' \in Seq(Tasks) /\ Len(listing') = 0
      BY <2>1
    <2>3. Range(listing)' \subseteq Tasks /\ IsInjective(listing)'
      BY <2>1 DEF Range, IsInjective
    <2>4. LoopShape'
      BY <2>1, <2>2 DEF LoopShape
    <2>5. QED
      BY <2>1, <2>2, <2>3, <2>4 DEF TypeOK, Times
  <1>11. QED
    BY <1>1, <1>2, <1>3, <1>4, <1>5, <1>6, <1>7, <1>8, <1>9, <1>10 DEF Next

(***************************************************************************)
(* The loops of the policies stay within the listing they were given, in   *)
(* which no task is twice, whenever the daemon is stopped                  *)
(* (history.py:126-297).                                                   *)
(***************************************************************************)
THEOREM HistoryTypes == Spec => []TypeOK
  BY HistoryInit, HistoryNext, PTL DEF Spec, HistoryIInv

-----------------------------------------------------------------------------
(***************************************************************************)
(* Sums over a finite set of natural numbers.                              *)
(***************************************************************************)

SumOf(f, S) == MapThenSumSet(LAMBDA t : f[t], S)

Choice(S) == [s \in SUBSET S |-> CHOOSE x \in s : TRUE]

\* g gives the sum of each subset of S.
Sums(g, f, S) ==
    g = [s \in SUBSET S |->
            IF s = {} THEN 0
            ELSE f[CHOOSE x \in s : TRUE] + g[s \ {CHOOSE x \in s : TRUE}]]

IsTheSum(g, f, S) ==
    /\ g \in [SUBSET S -> Nat]
    /\ Sums(g, f, S)
    /\ \A h : Sums(h, f, S) => \A s \in SUBSET S : h[s] = g[s]
    /\ SumOf(f, S) = g[S]

LEMMA ChoiceTakes ==
  ASSUME NEW S
  PROVE  Takes(Choice(S), S) /\ \A s \in SUBSET S :
            Choice(S)[s] = CHOOSE x \in s : TRUE
  BY DEF Takes, Choice

LEMMA SumIsOfOne ==
  ASSUME NEW S, IsFiniteSet(S), NEW f \in [S -> Nat]
  PROVE  \E g : IsTheSum(g, f, S)
  <1> DEFINE c == Choice(S)
             F == [p \in S \X Nat |-> f[p[1]] + p[2]]
  <1>1. Takes(c, S) /\ \A s \in SUBSET S : c[s] = CHOOSE x \in s : TRUE
    BY ChoiceTakes
  <1>2. IsStep(F, S, Nat) /\ 0 \in Nat
    BY DEF IsStep
  <1>3. PICK g : Folded(g, c, 0, F, S, Nat)
    <2> HIDE DEF c, F
    <2> QED BY <1>1, <1>2, FoldExists
  <1>4. g \in [SUBSET S -> Nat] /\ \A s \in SUBSET S :
           g[s] = IF s = {} THEN 0 ELSE f[c[s]] + g[s \ {c[s]}]
    <2> SUFFICES ASSUME NEW s \in SUBSET S, s # {}
                 PROVE  g[s] = f[c[s]] + g[s \ {c[s]}]
      BY <1>3 DEF Folded
    <2>1. c[s] \in S /\ g[s \ {c[s]}] \in Nat
      BY <1>1, <1>3 DEF Takes, Folded
    <2>2. F[<<c[s], g[s \ {c[s]}]>>] = f[c[s]] + g[s \ {c[s]}]
      BY <2>1
    <2>3. QED
      BY <1>3, <2>2 DEF Folded
  <1> HIDE DEF c, F
  <1>5. Sums(g, f, S)
    BY <1>1, <1>4 DEF Sums
  <1>6. ASSUME NEW h, Sums(h, f, S) PROVE \A s \in SUBSET S : h[s] = g[s]
    <2>1. h[{}] = g[{}]
      BY <1>4, <1>6 DEF Sums
    <2>2. ASSUME NEW s \in SUBSET S, s # {},
                 h[s \ {c[s]}] = g[s \ {c[s]}]
          PROVE  h[s] = g[s]
      <3>1. h[s] = f[CHOOSE x \in s : TRUE] + h[s \ {CHOOSE x \in s : TRUE}]
        BY <1>6, <2>2 DEF Sums
      <3>2. h[s] = f[c[s]] + h[s \ {c[s]}]
        BY <1>1, <3>1
      <3>3. QED
        BY <1>4, <2>2, <3>2
    <2>3. SameFold(h, g, c, S)
      BY <2>1, <2>2 DEF SameFold
    <2>4. QED
      BY <1>1, <2>3, FoldIsOne
  <1>7. SumOf(f, S) = g[S]
    <2>1. SumOf(f, S) = (CHOOSE h : Sums(h, f, S))[S]
      BY DEF SumOf, MapThenSumSet, MapThenFoldSet, Sums
    <2>2. Sums(CHOOSE h : Sums(h, f, S), f, S)
      BY <1>5
    <2>3. QED
      BY <1>6, <2>1, <2>2
  <1>8. IsTheSum(g, f, S)
    BY <1>4, <1>5, <1>6, <1>7 DEF IsTheSum
  <1>9. QED
    BY <1>8

(* The sum of a part is that of the same function.  *)
LEMMA SumOfPart ==
  ASSUME NEW S, IsFiniteSet(S), NEW f \in [S -> Nat], NEW g,
         Sums(g, f, S), NEW R \in SUBSET S
  PROVE  SumOf(f, R) = g[R]
  <1> DEFINE e == [x \in R |-> f[x]]
             h == [s \in SUBSET R |-> g[s]]
  <1>1. IsFiniteSet(R)
    BY FS_Subset
  <1>2. e \in [R -> Nat]
    OBVIOUS
  <1>3. SumOf(f, R) = SumOf(e, R)
    <2>1. SumOf(f, R) = (CHOOSE k : Sums(k, f, R))[R]
      BY DEF SumOf, MapThenSumSet, MapThenFoldSet, Sums
    <2>2. SumOf(e, R) = (CHOOSE k : Sums(k, e, R))[R]
      BY DEF SumOf, MapThenSumSet, MapThenFoldSet, Sums
    <2>3. \A k : Sums(k, f, R) <=> Sums(k, e, R)
      <3> SUFFICES ASSUME NEW k
                   PROVE  Sums(k, f, R) <=> Sums(k, e, R)
        OBVIOUS
      <3>1. \A s \in SUBSET R : s # {} => (CHOOSE x \in s : TRUE) \in R
        OBVIOUS
      <3>2. \A s \in SUBSET R : s # {} =>
               f[CHOOSE x \in s : TRUE] = e[CHOOSE x \in s : TRUE]
        BY <3>1
      <3> HIDE DEF e
      <3>3. [s \in SUBSET R |-> IF s = {} THEN 0
               ELSE f[CHOOSE x \in s : TRUE]
                    + k[s \ {CHOOSE x \in s : TRUE}]]
            = [s \in SUBSET R |-> IF s = {} THEN 0
               ELSE e[CHOOSE x \in s : TRUE]
                    + k[s \ {CHOOSE x \in s : TRUE}]]
        BY <3>2
      <3>4. QED
        BY <3>3 DEF Sums
    <2>4. QED
      BY <2>1, <2>2, <2>3
  <1>4. Sums(h, e, R)
    <2>1. \A s \in SUBSET R : s # {} => (CHOOSE x \in s : TRUE) \in s
      OBVIOUS
    <2>2. \A s \in SUBSET R :
             h[s] = IF s = {} THEN 0
                    ELSE e[CHOOSE x \in s : TRUE]
                         + h[s \ {CHOOSE x \in s : TRUE}]
      BY <2>1 DEF Sums
    <2> HIDE DEF e
    <2>3. QED
      BY <2>2 DEF Sums
  <1>5. PICK k : IsTheSum(k, e, R)
    <2> HIDE DEF e, h
    <2> QED BY <1>1, <1>2, SumIsOfOne
  <1>6. h[R] = g[R]
    OBVIOUS
  <1> HIDE DEF e, h
  <1>7. QED
    BY <1>3, <1>4, <1>5, <1>6 DEF IsTheSum

(* The elements of a sum can be taken in any order.  *)
LEMMA SumTakes ==
  ASSUME NEW S, IsFiniteSet(S), NEW f \in [S -> Nat], NEW R \in SUBSET S
  PROVE  /\ SumOf(f, R) \in Nat
         /\ R = {} => SumOf(f, R) = 0
         /\ \A x \in R : SumOf(f, R) = f[x] + SumOf(f, R \ {x})
  <1>1. PICK g \in [SUBSET S -> Nat] : Sums(g, f, S)
    BY SumIsOfOne DEF IsTheSum
  <1>2. \A s \in SUBSET S : SumOf(f, s) = g[s] /\ g[s] \in Nat
    BY <1>1, SumOfPart
  <1>3. \A s \in SUBSET S :
           g[s] = IF s = {} THEN 0
                  ELSE f[CHOOSE x \in s : TRUE]
                       + g[s \ {CHOOSE x \in s : TRUE}]
    BY <1>1 DEF Sums
  <1> DEFINE B == {s \in SUBSET S : \A x \in s : g[s] = f[x] + g[s \ {x}]}
  <1>4. ASSUME NEW s \in SUBSET S,
               \A r \in SUBSET S : Cardinality(r) < Cardinality(s) => r \in B
        PROVE  s \in B
    <2> SUFFICES ASSUME NEW x \in s PROVE g[s] = f[x] + g[s \ {x}]
      OBVIOUS
    <2> DEFINE y == CHOOSE z \in s : TRUE
    <2>1. y \in s /\ g[s] = f[y] + g[s \ {y}]
      BY <1>3
    <2> HIDE DEF y
    <2>2. CASE x = y
      BY <2>1, <2>2
    <2>3. CASE x # y
      <3>1. s \ {x} \in B /\ s \ {y} \in B
        <4> HIDE DEF B
        <4> QED BY <1>4, <2>1, LessIsSmaller
      <3> DEFINE t == (s \ {x}) \ {y}
      <3>2. t = (s \ {y}) \ {x} /\ t \in SUBSET S
        OBVIOUS
      <3>3. g[s \ {x}] = f[y] + g[t] /\ g[s \ {y}] = f[x] + g[t]
        BY <2>1, <2>3, <3>1, <3>2
      <3>4. f[x] \in Nat /\ f[y] \in Nat /\ g[t] \in Nat
        BY <2>1, <3>2
      <3> HIDE DEF t
      <3>5. QED
        BY <2>1, <3>3, <3>4
    <2>4. QED
      BY <2>2, <2>3
  <1>5. \A s \in SUBSET S : s \in B
    <2> HIDE DEF B
    <2> QED BY <1>4, BySize
  <1>6. QED
    BY <1>2, <1>3, <1>5

(* A sum is at least that of a part.  *)
LEMMA SumGrows ==
  ASSUME NEW S, IsFiniteSet(S), NEW f \in [S -> Nat],
         NEW R \in SUBSET S, NEW A \in SUBSET R
  PROVE  SumOf(f, A) <= SumOf(f, R)
  <1> DEFINE B == {s \in SUBSET S :
                      \A r \in SUBSET s : SumOf(f, r) <= SumOf(f, s)}
  <1>1. ASSUME NEW s \in SUBSET S,
               \A r \in SUBSET S : Cardinality(r) < Cardinality(s) => r \in B
        PROVE  s \in B
    <2> SUFFICES ASSUME NEW r \in SUBSET s PROVE SumOf(f, r) <= SumOf(f, s)
      OBVIOUS
    <2>1. CASE r = s
      BY <2>1, SumTakes
    <2>2. CASE r # s
      <3>1. PICK x \in s : x \notin r
        BY <2>2
      <3>2. s \ {x} \in B /\ r \in SUBSET (s \ {x})
        BY <1>1, <3>1, LessIsSmaller
      <3>3. SumOf(f, r) <= SumOf(f, s \ {x})
        BY <3>2
      <3>4. SumOf(f, s) = f[x] + SumOf(f, s \ {x}) /\ f[x] \in Nat
        BY SumTakes
      <3>5. SumOf(f, r) \in Nat /\ SumOf(f, s \ {x}) \in Nat
        BY SumTakes
      <3>6. QED
        BY <3>3, <3>4, <3>5
    <2>3. QED
      BY <2>1, <2>2
  <1>2. \A s \in SUBSET S : s \in B
    <2> HIDE DEF B
    <2> QED BY <1>1, BySize
  <1>3. QED
    BY <1>2

-----------------------------------------------------------------------------
(***************************************************************************)
(* What a purge removes.  PurgeInv says, at each step of the loop, what    *)
(* the policy has made of the tasks visited so far: what it has counted is *)
(* what it has spared, and nothing else is touched.                        *)
(***************************************************************************)

Purging == phase \in {"run", "remove", "report"}

\* What the loop has visited, and what of it is left.
Visited == {listing[i] : i \in 1..(position - 1)}
Spared == Visited \cap Archived
Taken == {t \in Visited : place[t] = "removed"}

\* Of the rest, nothing has been removed.
ListingShape == Purging =>
    /\ \A i, j \in 1..Len(listing) :
          i < j => date[listing[i]] >= date[listing[j]]
    /\ \A i \in position..Len(listing) : place[listing[i]] = "archived"
    /\ \A t \in Visited : place[t] \in {"archived", "removed"}
    /\ phase = "report" => position > Len(listing)

\* Once a task is removed, those that follow are, alone or among the tasks of
\* the same histid.
RunsOut == Purging /\ policy.name # "older" =>
    \A i, j \in 1..(position - 1) :
        /\ i < j /\ listing[i] \in Taken
        /\ policy.name = "each" => histid[listing[i]] = histid[listing[j]]
        => listing[j] \in Taken

OlderLoop == Purging /\ policy.name = "older" =>
    /\ \A t \in Visited : t \in Taken <=> date[t] < limit
    /\ phase = "remove" => date[listing[position]] < limit

LastLoop == Purging /\ policy.name = "last" =>
    /\ kept = Cardinality(Spared) /\ kept <= policy.value
    /\ Taken # {} \/ phase = "remove" => kept = policy.value

EachLoop == Purging /\ policy.name = "each" =>
    /\ \A h \in Histids :
          Cardinality({t \in Spared : histid[t] = h}) =
              Smaller(policy.value, counts[h])
    /\ \A t \in Taken : counts[histid[t]] > policy.value
    /\ phase = "remove" => counts[histid[listing[position]]] > policy.value

SizeLoop == Purging /\ policy.name = "size" =>
    IF measured < policy.value
    THEN Gone = {} /\ TotalSize(Spared) = measured
    ELSE /\ Spared = {} \/ TotalSize(Spared) < policy.value
         /\ IF Gone = {} THEN policy.value = 0
            ELSE \E t \in Gone : TotalSize(Spared) + size[t] >= policy.value

PurgeInv ==
    /\ ListingShape /\ RunsOut
    /\ OlderLoop /\ LastLoop /\ EachLoop /\ SizeLoop

(* What has been visited, while a policy runs.  *)
LEMMA LoopTypes ==
  ASSUME HistoryIInv
  PROVE  /\ Len(listing) \in Nat /\ position \in Nat /\ position >= 1
         /\ listing \in [1..Len(listing) -> Tasks]
         /\ Visited \subseteq Tasks
         /\ \A S \in SUBSET Tasks : IsFiniteSet(S) /\ Cardinality(S) \in Nat
         /\ Listed = {listing[i] : i \in 1..Len(listing)}
         /\ \A i, j \in 1..Len(listing) : listing[i] = listing[j] => i = j
  <1>1. Len(listing) \in Nat /\ listing \in [1..Len(listing) -> Tasks]
    BY DEF HistoryIInv, LoopShape
  <1>2. position \in Nat /\ position >= 1 /\ position <= Len(listing) + 1
    BY <1>1 DEF HistoryIInv, TypeOK
  <1>3. Visited \subseteq Tasks
    BY <1>1, <1>2 DEF Visited
  <1>4. \A S \in SUBSET Tasks : IsFiniteSet(S) /\ Cardinality(S) \in Nat
    BY TasksAssumption, FS_Subset, FS_CardinalityType
  <1>5. Listed = {listing[i] : i \in 1..Len(listing)}
    BY <1>1 DEF Listed, Range
  <1>6. \A i, j \in 1..Len(listing) : listing[i] = listing[j] => i = j
    BY <1>1 DEF HistoryIInv, TypeOK, IsInjective
  <1>7. QED
    BY <1>1, <1>2, <1>3, <1>4, <1>5, <1>6

(* The loop goes on to the next task.  *)
LEMMA VisitsNext ==
  ASSUME HistoryIInv, position <= Len(listing),
         position' = position + 1, listing' = listing
  PROVE  /\ Visited' = Visited \cup {listing[position]}
         /\ listing[position] \notin Visited
         /\ listing[position] \in Tasks /\ listing[position] \in Listed
  <1>1. 1..(position' - 1) = (1..(position - 1)) \cup {position}
    BY LoopTypes
  <1>2. Visited' = Visited \cup {listing[position]}
    BY <1>1 DEF Visited
  <1>3. listing[position] \notin Visited
    BY LoopTypes DEF Visited
  <1>4. QED
    BY <1>2, <1>3, LoopTypes

(* What is gone was visited, or is the task to be removed.  *)
LEMMA GoneIs ==
  ASSUME HistoryIInv, ListingShape, Purging
  PROVE  Gone = Taken \cup
                (IF phase = "remove" THEN {listing[position]} ELSE {})
  <1>1. \A t \in Listed : place[t] = "removed" => t \in Visited
    <2> SUFFICES ASSUME NEW t \in Listed, place[t] = "removed"
                 PROVE  t \in Visited
      OBVIOUS
    <2>1. PICK i \in 1..Len(listing) : t = listing[i]
      BY LoopTypes
    <2>2. i \in Int /\ ~(i >= position)
      BY <2>1, LoopTypes DEF ListingShape
    <2>3. QED
      BY <2>1, <2>2, LoopTypes DEF Visited
  <1>2. Visited \subseteq Listed
    <2>1. position <= Len(listing) + 1
      BY DEF HistoryIInv, TypeOK
    <2>2. QED
      BY <2>1, LoopTypes DEF Visited
  <1>3. QED
    BY <1>1, <1>2 DEF Gone, Taken

LEMMA NotPurging ==
  ASSUME ~Purging'
  PROVE  PurgeInv'
  BY DEF PurgeInv, ListingShape, RunsOut, OlderLoop, LastLoop, EachLoop,
         SizeLoop

(* Sizes add up.  *)
LEMMA TotalTypes ==
  ASSUME HistoryIInv
  PROVE  /\ \A S \in SUBSET Tasks : TotalSize(S) \in Nat
         /\ TotalSize({}) = 0
         /\ \A S \in SUBSET Tasks : \A t \in Tasks \ S :
               TotalSize(S \cup {t}) = TotalSize(S) + size[t]
         /\ \A S \in SUBSET Tasks : \A R \in SUBSET S :
               TotalSize(R) <= TotalSize(S)
         /\ \A t \in Tasks : size[t] \in Nat
  <1>1. size \in [Tasks -> Sizes \cup {0}]
    BY DEF HistoryIInv, TypeOK
  <1>2. size \in [Tasks -> Nat]
    BY <1>1, SizesTypes
  <1>3. \A S : TotalSize(S) = SumOf(size, S)
    BY DEF TotalSize, SumOf
  <1>4. \A S \in SUBSET Tasks : TotalSize(S) \in Nat
    BY <1>2, <1>3, TasksAssumption, SumTakes
  <1>5. TotalSize({}) = 0
    BY <1>2, <1>3, TasksAssumption, SumTakes
  <1>6. ASSUME NEW S \in SUBSET Tasks, NEW t \in Tasks \ S
        PROVE  TotalSize(S \cup {t}) = TotalSize(S) + size[t]
    <2>1. S \cup {t} \in SUBSET Tasks /\ (S \cup {t}) \ {t} = S
      OBVIOUS
    <2>2. SumOf(size, S \cup {t}) = size[t] + SumOf(size, S)
      BY <1>2, <2>1, TasksAssumption, SumTakes
    <2>3. QED
      BY <1>2, <1>3, <1>4, <2>2
  <1>7. ASSUME NEW S \in SUBSET Tasks, NEW R \in SUBSET S
        PROVE  TotalSize(R) <= TotalSize(S)
    BY <1>2, <1>3, TasksAssumption, SumGrows
  <1>8. QED
    BY <1>2, <1>4, <1>5, <1>6, <1>7

(* Sizes that do not change, and what they are the sizes of.  *)
LEMMA TotalStays ==
  ASSUME HistoryIInv, UNCHANGED size
  PROVE  /\ TotalSize(Spared)' = TotalSize(Spared')
         /\ TotalSize({})' = 0
  <1>1. TotalSize(Spared)' = SumOf(size', Spared')
    BY DEF TotalSize, SumOf, MapThenSumSet, MapThenFoldSet
  <1>2. TotalSize({})' = SumOf(size', {})
    BY DEF TotalSize, SumOf, MapThenSumSet, MapThenFoldSet
  <1>3. /\ TotalSize(Spared') = SumOf(size, Spared')
        /\ TotalSize({}) = SumOf(size, {})
    BY DEF TotalSize, SumOf
  <1>4. TotalSize({}) = 0
    BY TotalTypes
  <1>5. QED
    BY <1>1, <1>2, <1>3, <1>4

LEMMA SortPurge ==
  ASSUME HistoryIInv, HistoryIInv', DumpSort
  PROVE  PurgeInv'
  <1>1. /\ phase' = "run" /\ position' = 1 /\ kept' = 0 /\ measured' = 0
        /\ counts' = [h \in Histids |-> 0] /\ listing' \in Listings
        /\ UNCHANGED <<policy, place, date, histid, size>>
    BY DEF DumpSort, clockVars, taskVars
  <1>2. Visited' = {} /\ Spared' = {} /\ Taken' = {}
    BY <1>1 DEF Visited, Spared, Taken
  <1>3. \A i, j \in 1..Len(listing') :
           i < j => date'[listing'[i]] >= date'[listing'[j]]
    BY <1>1 DEF Listings
  <1>4. \A i \in 1..Len(listing') : place'[listing'[i]] = "archived"
    <2>1. IsFiniteSet(Archived)
      BY TasksAssumption, FS_Subset DEF Archived
    <2>2. Cardinality(Archived) \in Nat
      BY <2>1, FS_CardinalityType
    <2>3. listing' \in [1..Cardinality(Archived) -> Archived]
      BY <1>1 DEF Listings, SetToSeqs
    <2>4. \A i \in 1..Len(listing') : listing'[i] \in Archived
      BY <2>2, <2>3
    <2>5. QED
      BY <1>1, <2>4 DEF Archived
  <1>5. ListingShape'
    BY <1>1, <1>2, <1>3, <1>4 DEF ListingShape
  <1>6. RunsOut' /\ OlderLoop'
    BY <1>1, <1>2 DEF RunsOut, OlderLoop
  <1>7. Cardinality({}) = 0
    BY FS_EmptySet
  <1>8. policy.value \in Nat
    BY PoliciesAssumption DEF HistoryIInv, TypeOK
  <1>9. LastLoop'
    BY <1>1, <1>2, <1>7, <1>8 DEF LastLoop
  <1>10. EachLoop'
    <2>1. \A h \in Histids : {t \in Spared' : histid'[t] = h} = {}
      BY <1>2
    <2>2. QED
      BY <1>1, <1>2, <1>7, <1>8, <2>1 DEF EachLoop, Smaller
  <1>11. SizeLoop'
    <2>1. Gone' = {}
      <3>1. Purging'
        BY <1>1 DEF Purging
      <3>2. listing' \in [1..Len(listing') -> Tasks]
        BY DEF HistoryIInv, LoopShape
      <3>3. Listed' = {listing'[i] : i \in 1..Len(listing')}
        BY <3>2 DEF Listed, Range
      <3>4. QED
        BY <1>1, <1>4, <3>3 DEF Gone
    <2>2. TotalSize(Spared') = 0 /\ TotalSize(Spared)' = TotalSize(Spared')
      BY <1>1, <1>2, TotalStays, TotalTypes
    <2>3. QED
      BY <1>1, <1>2, <1>8, <2>1, <2>2 DEF SizeLoop
  <1>12. QED
    BY <1>5, <1>6, <1>9, <1>10, <1>11 DEF PurgeInv

(* A purge that is over removes nothing more.  *)
LEMMA EndsPurge ==
  ASSUME HistoryIInv, PurgeInv, PurgeEnds
  PROVE  PurgeInv'
  <1>1. /\ phase = "run" /\ phase' = "report" /\ position > Len(listing)
        /\ UNCHANGED <<policy, place, date, histid, size, listing, position,
                       limit, kept, counts, measured>>
    BY DEF PurgeEnds, clockVars, taskVars, loopVars
  <1>2. /\ Visited' = Visited /\ Spared' = Spared /\ Taken' = Taken
        /\ Gone' = Gone /\ Purging /\ Purging'
    BY <1>1
    DEF Visited, Spared, Archived, Taken, Gone, Listed, Purging
  <1>3. TotalSize(Spared)' = TotalSize(Spared)
    BY <1>1, <1>2, TotalStays
  <1>4. \A t \in Tasks : size'[t] = size[t]
    BY <1>1
  <1>5. ListingShape' /\ RunsOut'
    BY <1>1, <1>2 DEF PurgeInv, ListingShape, RunsOut
  <1>6. OlderLoop' /\ LastLoop' /\ EachLoop'
    BY <1>1, <1>2 DEF PurgeInv, OlderLoop, LastLoop, EachLoop
  <1>7. SizeLoop'
    BY <1>1, <1>2, <1>3 DEF PurgeInv, SizeLoop
  <1>8. QED
    BY <1>5, <1>6, <1>7 DEF PurgeInv

(* The task is to be removed: nothing of what was visited changes.  *)
LEMMA VisitToRemove ==
  ASSUME HistoryIInv, PurgeInv, NEW t \in Tasks, Visit(t), phase' = "remove"
  PROVE  PurgeInv'
  <1>1. /\ phase = "run" /\ position <= Len(listing) /\ listing[position] = t
        /\ UNCHANGED <<policy, place, date, histid, size, listing, position,
                       limit>>
    BY DEF Visit, clockVars, taskVars
  <1>2. /\ Visited' = Visited /\ Spared' = Spared /\ Taken' = Taken
        /\ Purging /\ Purging'
    BY <1>1 DEF Visited, Spared, Archived, Taken, Purging
  <1>3. Gone = Taken /\ Gone' = Taken \cup {t}
    <2>1. Gone = Taken
      BY <1>1, <1>2, GoneIs DEF PurgeInv
    <2>2. Gone' = Gone \cup {t}
      BY <1>1 DEF Gone, Listed
    <2>3. QED
      BY <2>1, <2>2
  <1>4. ListingShape' /\ RunsOut'
    BY <1>1, <1>2 DEF PurgeInv, ListingShape, RunsOut
  <1>5. policy.value \in Nat
    BY PoliciesAssumption DEF HistoryIInv, TypeOK
  <1>6. /\ Visited \subseteq Tasks /\ Spared \subseteq Tasks
        /\ Taken \subseteq Visited
    BY LoopTypes DEF Spared, Taken
  <1>7. OlderLoop'
    BY <1>1, <1>2 DEF Visit, OlderVisit, LastVisit, EachVisit, SizeVisit,
       PurgeInv, OlderLoop
  <1>8. LastLoop'
    <2>1. SUFFICES ASSUME policy.name = "last" PROVE LastLoop'
      BY <1>1 DEF LastLoop
    <2>2. kept' = kept /\ ~(kept < policy.value)
      BY <2>1 DEF Visit, OlderVisit, LastVisit, EachVisit, SizeVisit
    <2>3. kept = Cardinality(Spared) /\ kept <= policy.value /\ kept \in Nat
      BY <1>2, <1>6, <2>1, LoopTypes DEF PurgeInv, LastLoop
    <2>4. QED
      BY <1>1, <1>2, <1>5, <2>2, <2>3 DEF LastLoop
  <1>9. EachLoop'
    <2>1. SUFFICES ASSUME policy.name = "each" PROVE EachLoop'
      BY <1>1 DEF EachLoop
    <2>2. /\ counts' = [counts EXCEPT ![histid[t]] = @ + 1]
          /\ counts'[histid[t]] > policy.value
      BY <2>1 DEF Visit, OlderVisit, LastVisit, EachVisit, SizeVisit
    <2>3. /\ histid \in [Tasks -> Histids]
          /\ \A h \in Histids : counts[h] \in Nat
          /\ counts \in [Histids -> 0..Len(listing)]
      BY LoopTypes DEF HistoryIInv, TypeOK
    <2>4. /\ counts'[histid[t]] = counts[histid[t]] + 1
          /\ \A h \in Histids \ {histid[t]} : counts'[h] = counts[h]
          /\ counts[histid[t]] >= policy.value
      BY <1>5, <2>2, <2>3
    <2>5. \A h \in Histids :
             Smaller(policy.value, counts'[h]) =
                 Smaller(policy.value, counts[h])
      BY <1>5, <2>3, <2>4 DEF Smaller
    <2>6. \A s \in Taken' : counts'[histid[s]] > policy.value
      <3> SUFFICES ASSUME NEW s \in Taken
                   PROVE  counts'[histid[s]] > policy.value
        BY <1>2
      <3>1. histid[s] \in Histids /\ counts[histid[s]] > policy.value
        BY <1>2, <1>6, <2>1, <2>3 DEF PurgeInv, EachLoop
      <3>2. QED
        BY <2>2, <2>4, <3>1
    <2>7. \A h \in Histids :
             Cardinality({s \in Spared : histid[s] = h}) =
                 Smaller(policy.value, counts[h])
      BY <1>2, <2>1 DEF PurgeInv, EachLoop
    <2>8. QED
      BY <1>1, <1>2, <2>2, <2>5, <2>6, <2>7 DEF EachLoop
  <1>10. SizeLoop'
    <2>1. SUFFICES ASSUME policy.name = "size" PROVE SizeLoop'
      BY <1>1 DEF SizeLoop
    <2>2. /\ measured' = IF measured < policy.value THEN measured + size[t]
                                                    ELSE measured
          /\ measured' >= policy.value
      BY <2>1 DEF Visit, OlderVisit, LastVisit, EachVisit, SizeVisit
    <2>3. /\ measured \in Nat /\ size[t] \in Nat /\ TotalSize(Spared) \in Nat
          /\ TotalSize(Spared)' = TotalSize(Spared)
      <3>1. TotalSize(Spared)' = TotalSize(Spared)
        BY <1>1, <1>2, TotalStays
      <3>2. QED
        BY <1>6, <3>1, TotalTypes DEF HistoryIInv, TypeOK
    <2>4. t \in Gone' /\ Gone' # {} /\ \A s \in Gone : s \in Gone'
      BY <1>3
    <2>5. CASE measured < policy.value
      <3>1. TotalSize(Spared) = measured
        BY <1>2, <2>1, <2>5 DEF PurgeInv, SizeLoop
      <3>2. TotalSize(Spared)' + size'[t] >= policy'.value
        BY <1>1, <2>2, <2>3, <2>5, <3>1
      <3>3. QED
        BY <1>1, <1>2, <1>5, <2>2, <2>3, <2>4, <2>5, <3>1, <3>2 DEF SizeLoop
    <2>6. CASE ~(measured < policy.value)
      <3>1. Spared = {} \/ TotalSize(Spared) < policy.value
        BY <1>2, <2>1, <2>6 DEF PurgeInv, SizeLoop
      <3>2. \E s \in Gone' : TotalSize(Spared)' + size'[s] >= policy'.value
        <4>1. CASE Gone = {}
          <5>1. policy.value = 0
            BY <1>2, <2>1, <2>6, <4>1 DEF PurgeInv, SizeLoop
          <5>2. TotalSize(Spared)' + size'[t] >= policy'.value
            BY <1>1, <2>3, <5>1
          <5>3. QED
            BY <2>4, <5>2
        <4>2. CASE Gone # {}
          <5>1. PICK s \in Gone : TotalSize(Spared) + size[s] >= policy.value
            BY <1>2, <2>1, <2>6, <4>2 DEF PurgeInv, SizeLoop
          <5>2. QED
            BY <1>1, <2>3, <2>4, <5>1
        <4>3. QED
          BY <4>1, <4>2
      <3>3. ~(measured' < policy'.value)
        BY <1>1, <1>5, <2>2, <2>3, <2>6
      <3>4. QED
        BY <1>1, <1>2, <2>3, <2>4, <3>1, <3>2, <3>3 DEF SizeLoop
    <2>7. QED
      BY <2>5, <2>6
  <1>11. QED
    BY <1>4, <1>7, <1>8, <1>9, <1>10 DEF PurgeInv

(* The task is left, and the loop goes on.  *)
LEMMA VisitToRun ==
  ASSUME HistoryIInv, PurgeInv, NEW t \in Tasks, Visit(t), phase' = "run"
  PROVE  PurgeInv'
  <1>1. /\ phase = "run" /\ position <= Len(listing) /\ listing[position] = t
        /\ position' = position + 1
        /\ UNCHANGED <<policy, place, date, histid, size, listing, limit>>
    BY DEF Visit, clockVars, taskVars
  <1>2. Purging /\ Purging'
    BY <1>1 DEF Purging
  <1>3. /\ Visited' = Visited \cup {t} /\ t \notin Visited
        /\ place[t] = "archived"
    BY <1>1, <1>2, VisitsNext, LoopTypes DEF PurgeInv, ListingShape
  <1>4. /\ Spared' = Spared \cup {t} /\ t \notin Spared
        /\ Taken' = Taken /\ t \notin Taken
    BY <1>1, <1>3 DEF Spared, Archived, Taken
  <1>5. Gone = Taken /\ Gone' = Taken
    <2>1. Gone = Taken
      BY <1>1, <1>2, GoneIs DEF PurgeInv
    <2>2. Gone' = Gone
      BY <1>1 DEF Gone, Listed
    <2>3. QED
      BY <2>1, <2>2
  <1>6. /\ Visited \subseteq Tasks /\ Spared \subseteq Tasks
        /\ Taken \subseteq Visited
    BY LoopTypes DEF Spared, Taken
  <1>7. /\ policy.value \in Nat
        /\ policy.name \in {"older", "last", "each", "size"}
    BY PoliciesAssumption DEF HistoryIInv, TypeOK
  <1>8. ListingShape'
    <2>1. \A i \in position'..Len(listing') : i \in position..Len(listing)
      BY <1>1, LoopTypes
    <2>2. \A s \in Visited' : place'[s] \in {"archived", "removed"}
      BY <1>1, <1>2, <1>3 DEF PurgeInv, ListingShape
    <2>3. QED
      BY <1>1, <1>2, <2>1, <2>2 DEF PurgeInv, ListingShape
  <1>9. /\ policy.name = "last" => kept < policy.value /\ kept' = kept + 1
        /\ policy.name = "size" =>
              /\ measured < policy.value /\ measured' < policy.value
              /\ measured' = measured + size[t]
        /\ policy.name = "older" => ~(date[t] < limit)
        /\ policy.name = "each" =>
              /\ counts' = [counts EXCEPT ![histid[t]] = @ + 1]
              /\ ~(counts'[histid[t]] > policy.value)
    <2>1. measured \in Nat /\ size[t] \in Nat /\ TotalSize({}) = 0
      BY TotalTypes DEF HistoryIInv, TypeOK
    <2>2. measured' \in Nat
      BY <2>1 DEF Visit, OlderVisit, LastVisit, EachVisit, SizeVisit,
         HistoryIInv, TypeOK
    <2>3. CASE policy.name = "last"
      BY <2>3 DEF Visit, OlderVisit, LastVisit, EachVisit, SizeVisit
    <2>4. CASE policy.name = "older"
      BY <2>4 DEF Visit, OlderVisit, LastVisit, EachVisit, SizeVisit
    <2>5. CASE policy.name = "each"
      BY <2>5 DEF Visit, OlderVisit, LastVisit, EachVisit, SizeVisit
    <2>6. CASE policy.name = "size"
      <3>1. /\ measured' = IF measured < policy.value THEN measured + size[t]
                                                      ELSE measured
            /\ ~(measured' >= policy.value)
        BY <2>6 DEF Visit, OlderVisit, LastVisit, EachVisit, SizeVisit
      <3>2. QED
        BY <1>7, <2>1, <2>6, <3>1
    <2>7. QED
      BY <1>7, <2>3, <2>4, <2>5, <2>6
  <1>10. /\ histid \in [Tasks -> Histids]
         /\ counts \in [Histids -> 0..Len(listing)]
         /\ \A h \in Histids : counts[h] \in Nat
         /\ kept \in Nat
         /\ Len(listing) \in Nat
    BY LoopTypes DEF HistoryIInv, TypeOK
  <1>11. policy.name = "each" =>
            /\ counts'[histid[t]] = counts[histid[t]] + 1
            /\ counts[histid[t]] < policy.value
            /\ \A h \in Histids \ {histid[t]} : counts'[h] = counts[h]
    BY <1>7, <1>9, <1>10
  <1>12. RunsOut'
    <2>1. SUFFICES ASSUME policy.name # "older",
                          NEW i \in 1..position, NEW j \in 1..position, i < j,
                          listing[i] \in Taken,
                          policy.name = "each" =>
                              histid[listing[i]] = histid[listing[j]]
                   PROVE  listing[j] \in Taken
      <3>1. position' - 1 = position
        BY <1>1, LoopTypes
      <3>2. QED
        BY <1>1, <1>4, <3>1 DEF RunsOut
    <2>2. i \in 1..(position - 1) /\ i \in Int /\ j \in Int
      BY <2>1, LoopTypes
    <2>3. CASE j # position
      <3>1. j \in 1..(position - 1)
        BY <2>3, LoopTypes
      <3>2. QED
        BY <1>2, <2>1, <2>2, <3>1 DEF PurgeInv, RunsOut
    <2>4. CASE j = position
      <3>1. CASE policy.name = "last"
        BY <1>2, <1>7, <1>9, <1>10, <2>1, <3>1 DEF PurgeInv, LastLoop
      <3>2. CASE policy.name = "size"
        BY <1>2, <1>5, <1>9, <2>1, <3>2 DEF PurgeInv, SizeLoop
      <3>3. CASE policy.name = "each"
        <4>1. counts[histid[t]] > policy.value
          BY <1>1, <1>2, <2>1, <2>4, <3>3 DEF PurgeInv, EachLoop
        <4>2. counts[histid[t]] < policy.value /\ counts[histid[t]] \in Nat
          BY <1>10, <1>11, <3>3
        <4>3. QED
          BY <1>7, <4>1, <4>2
      <3>4. QED
        BY <1>7, <2>1, <3>1, <3>2, <3>3
    <2>5. QED
      BY <2>3, <2>4
  <1>13. OlderLoop'
    BY <1>1, <1>2, <1>3, <1>4, <1>9 DEF PurgeInv, OlderLoop
  <1>14. LastLoop'
    <2>1. SUFFICES ASSUME policy.name = "last" PROVE LastLoop'
      BY <1>1 DEF LastLoop
    <2>2. kept = Cardinality(Spared) /\ Taken = {}
      BY <1>2, <1>7, <1>9, <1>10, <2>1 DEF PurgeInv, LastLoop
    <2>3. Cardinality(Spared') = kept + 1
      BY <1>4, <1>6, <2>2, LoopTypes, FS_AddElement
    <2>4. QED
      BY <1>1, <1>4, <1>7, <1>9, <1>10, <2>1, <2>2, <2>3 DEF LastLoop
  <1>15. EachLoop'
    <2>1. SUFFICES ASSUME policy.name = "each" PROVE EachLoop'
      BY <1>1 DEF EachLoop
    <2>2. ASSUME NEW h \in Histids
          PROVE  Cardinality({s \in Spared' : histid[s] = h}) =
                     Smaller(policy.value, counts'[h])
      <3> DEFINE E == {s \in Spared : histid[s] = h}
      <3>1. Cardinality(E) = Smaller(policy.value, counts[h])
        BY <1>2, <2>1 DEF PurgeInv, EachLoop
      <3>2. IsFiniteSet(E) /\ t \notin E
        BY <1>4, <1>6, LoopTypes
      <3>3. CASE h = histid[t]
        <4>1. {s \in Spared' : histid[s] = h} = E \cup {t}
          BY <1>4, <3>3
        <4>2. Cardinality(E \cup {t}) = Cardinality(E) + 1
          <5> HIDE DEF E
          <5> QED BY <3>2, FS_AddElement
        <4>3. /\ Smaller(policy.value, counts[h]) = counts[h]
              /\ Smaller(policy.value, counts'[h]) = counts'[h]
              /\ counts'[h] = counts[h] + 1
          <5>1. counts[h] \in Nat /\ counts[h] < policy.value
                /\ counts'[h] = counts[h] + 1
            BY <1>10, <1>11, <2>1, <3>3
          <5>2. ~(policy.value < counts[h]) /\
                (policy.value < counts[h] + 1 => FALSE)
            BY <1>7, <5>1
          <5>3. QED
            BY <1>7, <5>1 DEF Smaller
        <4>4. QED
          BY <3>1, <4>1, <4>2, <4>3
      <3>4. CASE h # histid[t]
        <4>1. {s \in Spared' : histid[s] = h} = E
          BY <1>4, <3>4
        <4>2. counts'[h] = counts[h]
          BY <1>11, <2>1, <3>4
        <4>3. QED
          BY <3>1, <4>1, <4>2
      <3>5. QED
        BY <3>3, <3>4
    <2>3. ASSUME NEW s \in Taken PROVE counts'[histid[s]] > policy.value
      <3>1. histid[s] \in Histids /\ counts[histid[s]] > policy.value
        BY <1>2, <1>6, <1>10, <2>1 DEF PurgeInv, EachLoop
      <3>2. histid[s] # histid[t]
        <4>1. counts[histid[t]] < policy.value /\ counts[histid[t]] \in Nat
          BY <1>10, <1>11, <2>1
        <4>2. QED
          BY <1>7, <3>1, <4>1
      <3>3. QED
        BY <1>11, <2>1, <3>1, <3>2
    <2>4. QED
      BY <1>1, <1>4, <2>2, <2>3 DEF EachLoop
  <1>16. SizeLoop'
    <2>1. SUFFICES ASSUME policy.name = "size" PROVE SizeLoop'
      BY <1>1 DEF SizeLoop
    <2>2. Gone = {} /\ TotalSize(Spared) = measured
      BY <1>2, <1>9, <2>1 DEF PurgeInv, SizeLoop
    <2>3. TotalSize(Spared)' = measured'
      <3>1. TotalSize(Spared)' = TotalSize(Spared')
        BY <1>1, TotalStays
      <3>2. TotalSize(Spared') = TotalSize(Spared) + size[t]
        BY <1>4, <1>6, TotalTypes
      <3>3. QED
        BY <1>9, <2>1, <2>2, <3>1, <3>2
    <2>4. QED
      BY <1>1, <1>5, <1>9, <2>1, <2>2, <2>3 DEF SizeLoop
  <1>17. QED
    BY <1>8, <1>12, <1>13, <1>14, <1>15, <1>16 DEF PurgeInv

(* A workspace is removed.  *)
LEMMA RemovePurge ==
  ASSUME HistoryIInv, PurgeInv, RemoveWorkspace
  PROVE  PurgeInv'
  <1> DEFINE t == listing[position]
  <1>1. /\ phase = "remove" /\ phase' = "run"
        /\ position' = position + 1
        /\ place' = [place EXCEPT ![t] = "removed"]
        /\ UNCHANGED <<policy, date, histid, size, listing, limit, kept,
                       counts, measured>>
    BY DEF RemoveWorkspace, clockVars, taskVars
  <1>2. Purging /\ Purging' /\ position <= Len(listing)
    BY <1>1 DEF Purging, HistoryIInv, LoopShape
  <1>3. t \in Tasks
        /\ place \in [Tasks -> {"none", "archived", "malformed", "removed"}]
    BY <1>1, <1>2, VisitsNext DEF HistoryIInv, TypeOK
  <1>4. /\ Visited' = Visited \cup {t} /\ t \notin Visited
        /\ Visited \subseteq Tasks
    BY <1>1, <1>2, VisitsNext, LoopTypes
  <1> HIDE DEF t
  <1>5. place'[t] = "removed" /\ \A s \in Tasks \ {t} : place'[s] = place[s]
    BY <1>1, <1>3
  <1>6. Taken' = Taken \cup {t} /\ Taken \subseteq Visited
    BY <1>4, <1>5 DEF Taken
  <1>7. Spared' = Spared /\ Spared \subseteq Tasks
    BY <1>4, <1>5 DEF Spared, Archived
  <1>8. /\ policy.value \in Nat
        /\ policy.name \in {"older", "last", "each", "size"}
    BY PoliciesAssumption DEF HistoryIInv, TypeOK
  <1>9. ListingShape'
    <2>1. ASSUME NEW i \in position'..Len(listing')
          PROVE  place'[listing'[i]] = "archived"
      <3>1. /\ i \in position..Len(listing) /\ i # position
            /\ i \in 1..Len(listing) /\ position \in 1..Len(listing)
        BY <1>1, <1>2, LoopTypes
      <3>2. listing[i] # t /\ listing[i] \in Tasks
        BY <3>1, LoopTypes DEF t
      <3>3. QED
        BY <1>1, <1>2, <1>5, <3>1, <3>2 DEF PurgeInv, ListingShape
    <2>2. \A s \in Visited' : place'[s] \in {"archived", "removed"}
      BY <1>2, <1>4, <1>5 DEF PurgeInv, ListingShape
    <2>3. QED
      BY <1>1, <1>2, <2>1, <2>2 DEF PurgeInv, ListingShape
  <1>10. Gone = Taken' /\ Gone' = Taken'
    <2>1. Gone = Taken \cup {t}
      BY <1>1, <1>2, GoneIs DEF PurgeInv, t
    <2>2. t \in Listed /\ Listed \subseteq Tasks
      BY <1>1, <1>2, VisitsNext, LoopTypes DEF t, HistoryIInv, TypeOK, Listed
    <2>3. Listed' = Listed
      BY <1>1 DEF Listed
    <2>4. Gone' = Gone
      BY <1>1, <1>5, <2>2, <2>3 DEF Gone, t
    <2>5. QED
      BY <1>6, <2>1, <2>4
  <1>11. RunsOut'
    <2>1. SUFFICES ASSUME policy.name # "older",
                          NEW i \in 1..position, NEW j \in 1..position, i < j,
                          listing[i] \in Taken',
                          policy.name = "each" =>
                              histid[listing[i]] = histid[listing[j]]
                   PROVE  listing[j] \in Taken'
      <3>1. position' - 1 = position
        BY <1>1, LoopTypes
      <3>2. QED
        BY <1>1, <3>1 DEF RunsOut
    <2>2. i \in 1..(position - 1) /\ i \in 1..Len(listing) /\ i # position
      BY <1>2, <2>1, LoopTypes
    <2>3. listing[i] # t
      BY <1>2, <2>2, LoopTypes DEF t
    <2>4. CASE j # position
      <3>1. j \in 1..(position - 1)
        BY <2>4, LoopTypes
      <3>2. QED
        BY <1>2, <1>6, <2>1, <2>2, <2>3, <3>1 DEF PurgeInv, RunsOut
    <2>5. CASE j = position
      BY <1>6, <2>5 DEF t
    <2>6. QED
      BY <2>4, <2>5
  <1>12. OlderLoop'
    BY <1>1, <1>2, <1>4, <1>6 DEF PurgeInv, OlderLoop, t
  <1>13. LastLoop'
    BY <1>1, <1>2, <1>7 DEF PurgeInv, LastLoop
  <1>14. EachLoop'
    BY <1>1, <1>2, <1>6, <1>7 DEF PurgeInv, EachLoop, t
  <1>15. SizeLoop'
    <2>1. TotalSize(Spared)' = TotalSize(Spared)
      BY <1>1, <1>7, TotalStays
    <2>2. Gone' = Gone
      BY <1>10
    <2>3. QED
      BY <1>1, <1>2, <1>7, <2>1, <2>2 DEF PurgeInv, SizeLoop
  <1>16. QED
    BY <1>9, <1>11, <1>12, <1>13, <1>14, <1>15 DEF PurgeInv

(* What is left to a purge, of its own shape.  *)
LEMMA PurgeStays ==
  ASSUME HistoryIInv, PurgeInv,
         UNCHANGED <<policy, place, date, histid, size, phase, loopVars>>
  PROVE  PurgeInv'
  <1>1. UNCHANGED <<policy, place, date, histid, size, phase, listing,
                    position, limit, kept, counts, measured>>
    BY DEF loopVars
  <1>2. /\ Visited' = Visited /\ Spared' = Spared /\ Taken' = Taken
        /\ Gone' = Gone /\ Purging' = Purging
    BY <1>1 DEF Visited, Spared, Archived, Taken, Gone, Listed, Purging
  <1>3. TotalSize(Spared)' = TotalSize(Spared)
    BY <1>1, <1>2, TotalStays
  <1>4. ListingShape' /\ RunsOut'
    BY <1>1, <1>2 DEF PurgeInv, ListingShape, RunsOut
  <1>5. OlderLoop' /\ LastLoop' /\ EachLoop'
    BY <1>1, <1>2 DEF PurgeInv, OlderLoop, LastLoop, EachLoop
  <1>6. SizeLoop'
    BY <1>1, <1>2, <1>3 DEF PurgeInv, SizeLoop
  <1>7. QED
    BY <1>4, <1>5, <1>6 DEF PurgeInv

LEMMA PurgeNext ==
  HistoryIInv /\ PurgeInv /\ [Next]_vars => PurgeInv'
  <1> SUFFICES ASSUME HistoryIInv, PurgeInv, [Next]_vars PROVE PurgeInv'
    OBVIOUS
  <1>1. CASE UNCHANGED vars
    BY <1>1, PurgeStays DEF vars, taskVars, loopVars
  <1>2. ASSUME NEW t \in Tasks, NEW h \in HistidsRead, NEW s \in SizesRead,
               Archive(t, h, s)
        PROVE  PurgeInv'
    <2>1. ~Purging'
      BY <1>2 DEF Archive, Purging
    <2>2. QED
      BY <2>1, NotPurging
  <1>3. CASE Tick
    BY <1>3, PurgeStays DEF Tick, taskVars
  <1>4. CASE Restart \/ PurgeStart \/ Report
    <2>1. ~Purging'
      BY <1>4 DEF Restart, PurgeStart, Report, Purging
    <2>2. QED
      BY <2>1, NotPurging
  <1>5. ASSUME NEW t \in Tasks, DumpMalformed(t) PROVE PurgeInv'
    <2>1. ~Purging'
      BY <1>5 DEF DumpMalformed, Purging
    <2>2. QED
      BY <2>1, NotPurging
  <1>6. CASE DumpSort
    <2>1. HistoryIInv'
      BY HistoryNext
    <2>2. QED
      BY <1>6, <2>1, SortPurge
  <1>7. ASSUME NEW t \in Tasks, Visit(t) PROVE PurgeInv'
    <2>1. phase' \in {"run", "remove"}
      BY <1>7 DEF Visit, OlderVisit, LastVisit, EachVisit, SizeVisit
    <2>2. CASE phase' = "remove"
      BY <1>7, <2>2, VisitToRemove
    <2>3. CASE phase' = "run"
      BY <1>7, <2>3, VisitToRun
    <2>4. QED
      BY <2>1, <2>2, <2>3
  <1>8. CASE RemoveWorkspace
    BY <1>8, RemovePurge
  <1>9. CASE PurgeEnds
    BY <1>9, EndsPurge
  <1>10. QED
    BY <1>1, <1>2, <1>3, <1>4, <1>5, <1>6, <1>7, <1>8, <1>9 DEF Next

(* What is left are the tasks visited and spared, and those to come.  *)
LEMMA LeftIs ==
  ASSUME HistoryIInv, ListingShape, Purging
  PROVE  /\ Spared \subseteq Left
         /\ phase = "report" => Left = Spared /\ Listed = Visited
         /\ Listed \in SUBSET Tasks /\ Left \in SUBSET Tasks
         /\ Spared \in SUBSET Tasks
         /\ Gone = {} => Left = Listed
  <1>1. Listed \in SUBSET Tasks /\ Left \in SUBSET Tasks
        /\ Spared \in SUBSET Tasks
    BY LoopTypes DEF HistoryIInv, TypeOK, Listed, Left, Spared
  <1>2. position <= Len(listing) + 1
    BY DEF HistoryIInv, TypeOK
  <1>3. Visited \subseteq Listed
    BY <1>2, LoopTypes DEF Visited
  <1>4. ASSUME NEW t \in Spared PROVE t \in Left
    <2>1. t \in Visited /\ place[t] = "archived"
      BY <1>4 DEF Spared, Archived
    <2>2. phase = "remove" => t # listing[position]
      <3>1. phase = "remove" => position \in 1..Len(listing)
        BY <1>2, LoopTypes DEF HistoryIInv, LoopShape
      <3>2. PICK i \in 1..(position - 1) : t = listing[i]
        BY <2>1 DEF Visited
      <3>3. i \in 1..Len(listing) /\ i # position
        BY <1>2, <3>2, LoopTypes
      <3>4. QED
        BY <3>1, <3>2, <3>3, LoopTypes
    <2>3. QED
      BY <1>3, <2>1, <2>2, GoneIs DEF Left, Taken
  <1>5. ASSUME phase = "report" PROVE Left = Spared /\ Listed = Visited
    <2>1. Listed = Visited
      <3>1. position = Len(listing) + 1
        BY <1>2, <1>5, LoopTypes DEF ListingShape
      <3>2. position - 1 = Len(listing)
        BY <3>1, LoopTypes
      <3>3. QED
        BY <3>2, LoopTypes DEF Visited
    <2>2. Gone = Taken
      BY <1>5, GoneIs
    <2>3. \A t \in Visited : place[t] \in {"archived", "removed"}
      BY DEF ListingShape
    <2>4. QED
      BY <2>1, <2>2, <2>3, LoopTypes DEF Left, Spared, Archived, Taken
  <1>6. Gone = {} => Left = Listed
    BY DEF Left
  <1>7. QED
    BY <1>1, <1>4, <1>5, <1>6

\* The date of a task is the one of the start of a life of the daemon, and
\* the task was submitted to that life.
SinceShape ==
    /\ \A t \in Tasks :
          /\ date[t] <= since[t] /\ date[t] <= started
          /\ date[t] < started => since[t] <= started
    /\ \A a, b \in Tasks : date[a] < date[b] => since[a] <= since[b]

LEMMA SinceNext ==
  ASSUME HistoryIInv, SinceShape, [Next]_vars
  PROVE  SinceShape'
  <1>1. /\ clock \in Nat /\ started \in 0..clock
        /\ date \in [Tasks -> 0..clock] /\ since \in [Tasks -> 0..clock]
    BY DEF HistoryIInv, TypeOK, Times
  <1>2. CASE UNCHANGED <<started, date, since>>
    BY <1>2 DEF SinceShape
  <1>3. ASSUME NEW t \in Tasks, NEW h \in HistidsRead, NEW s \in SizesRead,
               Archive(t, h, s)
        PROVE  SinceShape'
    <2>1. /\ date' = [date EXCEPT ![t] = started]
          /\ since' = [since EXCEPT ![t] = clock]
          /\ started' = started
      BY <1>3 DEF Archive, clockVars
    <2>2. /\ date'[t] = started /\ since'[t] = clock
          /\ \A a \in Tasks \ {t} : date'[a] = date[a] /\ since'[a] = since[a]
      BY <1>1, <2>1
    <2>3. QED
      BY <1>1, <2>1, <2>2 DEF SinceShape
  <1>4. CASE Restart
    <2>1. started' = clock /\ UNCHANGED <<date, since>>
      BY <1>4 DEF Restart
    <2>2. \A a \in Tasks : date[a] \in 0..clock /\ since[a] \in 0..clock
      BY <1>1
    <2>3. QED
      BY <1>1, <2>1, <2>2 DEF SinceShape
  <1>5. QED
    <2>1. CASE \/ UNCHANGED vars
               \/ Tick \/ PurgeStart \/ \E t \in Tasks : DumpMalformed(t)
               \/ DumpSort \/ \E t \in Tasks : Visit(t)
               \/ RemoveWorkspace \/ PurgeEnds \/ Report
      <3>1. UNCHANGED <<started, date, since>>
        BY <2>1 DEF vars, Tick, PurgeStart, DumpMalformed, DumpSort, Visit,
           RemoveWorkspace, PurgeEnds, Report, clockVars, taskVars
      <3>2. QED
        BY <1>2, <3>1
    <2>2. QED
      BY <1>3, <1>4, <2>1 DEF Next

(* The oldest tasks are taken first, once all are visited.  *)
LEMMA OldestGoFirst ==
  ASSUME HistoryIInv, PurgeInv, SinceShape,
         phase = "report", policy.name # "older",
         NEW r \in Gone, NEW k \in Left,
         policy.name = "each" => histid[r] = histid[k]
  PROVE  /\ date[r] <= date[k]
         /\ since[k] < since[r] => date[k] = date[r]
  <1>1. Purging
    BY DEF Purging
  <1>2. r \in Taken /\ k \in Visited /\ k \notin Taken /\ r \in Visited
    BY <1>1, GoneIs, LeftIs DEF PurgeInv, Left, Taken
  <1>3. PICK i \in 1..(position - 1) : r = listing[i]
    BY <1>2 DEF Visited
  <1>4. PICK j \in 1..(position - 1) : k = listing[j]
    BY <1>2 DEF Visited
  <1>5. ~(i < j)
    BY <1>1, <1>2, <1>3, <1>4 DEF PurgeInv, RunsOut
  <1>6. i \in Int /\ j \in Int /\ i # j /\ i \in 1..Len(listing)
        /\ j \in 1..Len(listing)
    <2>1. position <= Len(listing) + 1
      BY DEF HistoryIInv, TypeOK
    <2>2. QED
      BY <1>2, <1>3, <1>4, <2>1, LoopTypes
  <1>7. j < i
    BY <1>5, <1>6
  <1>8. date[k] >= date[r]
    BY <1>1, <1>3, <1>4, <1>6, <1>7 DEF PurgeInv, ListingShape
  <1>9. k \in Tasks /\ r \in Tasks
    BY <1>2, LoopTypes
  <1>10. /\ date[k] \in Int /\ date[r] \in Int
         /\ since[k] \in Int /\ since[r] \in Int
    BY <1>9 DEF HistoryIInv, TypeOK, Times
  <1>11. date[r] < date[k] => since[r] <= since[k]
    BY <1>9 DEF SinceShape
  <1>12. QED
    BY <1>8, <1>10, <1>11

LEMMA PurgeExact ==
  ASSUME HistoryIInv, PurgeInv, SinceShape
  PROVE  PurgeIsExact
  <1>1. CASE ~Purging
    BY <1>1
    DEF PurgeIsExact, PurgeNeverOverdoes, PurgeKeepsItsPromise, Purging
  <1>2. CASE Purging
    <2> USE <1>2
    <2>1. /\ policy.value \in Nat
          /\ policy.name \in {"older", "last", "each", "size"}
      BY PoliciesAssumption DEF HistoryIInv, TypeOK
    <2>2. /\ Spared \subseteq Left
          /\ phase = "report" => Left = Spared /\ Listed = Visited
          /\ Listed \in SUBSET Tasks /\ Left \in SUBSET Tasks
          /\ Spared \in SUBSET Tasks
          /\ Gone = {} => Left = Listed
      BY LeftIs DEF PurgeInv
    <2>3. \A S \in SUBSET Tasks : IsFiniteSet(S) /\ Cardinality(S) \in Nat
      BY LoopTypes
    <2>4. \A S \in SUBSET Tasks : \A R \in SUBSET S :
             Cardinality(R) <= Cardinality(S)
      BY <2>3, FS_Subset
    <2>5. Gone = Taken \cup
                 (IF phase = "remove" THEN {listing[position]} ELSE {})
      BY GoneIs DEF PurgeInv
    <2>6. CASE policy.name = "older"
      <3>1. \A t \in Gone : date[t] < limit
        BY <2>5, <2>6 DEF PurgeInv, OlderLoop, Taken
      <3>2. ASSUME phase = "report", NEW t \in Left
            PROVE  date[t] >= limit /\ since[t] >= limit
        <4>1. t \in Visited /\ t \notin Taken /\ t \in Tasks
          BY <2>2, <2>5, <3>2 DEF Left
        <4>2. ~(date[t] < limit)
          BY <2>6, <4>1 DEF PurgeInv, OlderLoop
        <4>3. date[t] \in Int /\ since[t] \in Int /\ limit \in Int
          BY <4>1 DEF HistoryIInv, TypeOK, Times
        <4>4. date[t] <= since[t]
          BY <4>1 DEF SinceShape
        <4>5. QED
          BY <4>2, <4>3, <4>4
      <3>3. QED
        BY <2>6, <3>1, <3>2
        DEF PurgeIsExact, PurgeNeverOverdoes, PurgeKeepsItsPromise
    <2>7. CASE policy.name = "last"
      <3>1. kept = Cardinality(Spared) /\ kept <= policy.value
            /\ (Taken # {} \/ phase = "remove" => kept = policy.value)
        BY <2>7 DEF PurgeInv, LastLoop
      <3>2. Cardinality(Left) >=
               Smaller(policy.value, Cardinality(Listed))
        <4>1. CASE Gone = {}
          BY <2>1, <2>2, <2>3, <4>1 DEF Smaller
        <4>2. CASE Gone # {}
          <5>1. Cardinality(Spared) = policy.value
            BY <2>5, <3>1, <4>2
          <5>2. Cardinality(Left) >= policy.value
            BY <2>1, <2>2, <2>3, <2>4, <5>1
          <5>3. QED
            BY <2>1, <2>2, <2>3, <5>2 DEF Smaller
        <4>3. QED
          BY <4>1, <4>2
      <3>3. phase = "report" =>
               Cardinality(Left) <= policy.value /\ OldestFirst(Listed)
        <4>1. phase = "report" => OldestFirst(Listed)
          BY <2>7, OldestGoFirst DEF OldestFirst
        <4>2. QED
          BY <2>2, <3>1, <4>1
      <3>4. QED
        BY <2>7, <3>2, <3>3
        DEF PurgeIsExact, PurgeNeverOverdoes, PurgeKeepsItsPromise
    <2>8. CASE policy.name = "each"
      <3>1. ASSUME NEW h \in Histids
            PROVE  /\ Cardinality(Left \cap OfHistid(h)) >=
                          Smaller(policy.value, Cardinality(OfHistid(h)))
                   /\ phase = "report" =>
                        /\ Cardinality(Left \cap OfHistid(h)) <= policy.value
                        /\ OldestFirst(OfHistid(h))
        <4> DEFINE E == {t \in Spared : histid[t] = h}
                   L == Left \cap OfHistid(h)
        <4>1. Cardinality(E) = Smaller(policy.value, counts[h])
          BY <2>8 DEF PurgeInv, EachLoop
        <4>2. counts[h] \in Nat
          BY LoopTypes DEF HistoryIInv, TypeOK
        <4>3. E \subseteq L /\ L \in SUBSET Tasks
              /\ OfHistid(h) \in SUBSET Tasks /\ L \subseteq OfHistid(h)
          BY <2>2 DEF OfHistid, Left
        <4>4. phase = "report" => L = E
          BY <2>2 DEF OfHistid, Left
        <4>5. phase = "report" => OldestFirst(OfHistid(h))
          BY <2>8, OldestGoFirst DEF OldestFirst, OfHistid
        <4>6. Cardinality(L) >= Smaller(policy.value, Cardinality(OfHistid(h)))
          <5>1. CASE OfHistid(h) \cap Gone = {}
            <6>1. L = OfHistid(h)
              BY <5>1 DEF Left, OfHistid
            <6> HIDE DEF L
            <6>2. QED
              BY <2>1, <2>3, <4>3, <6>1 DEF Smaller
          <5>2. CASE OfHistid(h) \cap Gone # {}
            <6>1. counts[h] > policy.value
              <7>1. PICK t \in Gone : histid[t] = h
                BY <5>2 DEF OfHistid
              <7>2. QED
                BY <2>5, <2>8, <7>1 DEF PurgeInv, EachLoop
            <6>2. Cardinality(E) = policy.value
              BY <2>1, <4>1, <4>2, <6>1 DEF Smaller
            <6> HIDE DEF L, E
            <6>3. Cardinality(L) >= policy.value
              BY <2>1, <2>3, <2>4, <4>3, <6>2
            <6>4. QED
              BY <2>1, <2>3, <4>3, <6>3 DEF Smaller
          <5>3. QED
            BY <5>1, <5>2
        <4>7. Smaller(policy.value, counts[h]) <= policy.value
          BY <2>1, <4>2 DEF Smaller
        <4>8. phase = "report" => Cardinality(L) <= policy.value
          <5> HIDE DEF L, E
          <5> QED BY <4>1, <4>4, <4>7
        <4>9. QED
          BY <4>5, <4>6, <4>8
      <3>2. QED
        BY <2>8, <3>1
        DEF PurgeIsExact, PurgeNeverOverdoes, PurgeKeepsItsPromise
    <2>9. CASE policy.name = "size"
      <3>1. /\ \A S \in SUBSET Tasks : TotalSize(S) \in Nat
            /\ TotalSize({}) = 0
            /\ TotalSize(Spared) <= TotalSize(Left)
            /\ \A t \in Gone : size[t] \in Nat
        <4>1. Gone \subseteq Tasks
          <5>1. Taken \subseteq Tasks
            BY LoopTypes DEF Taken
          <5>2. phase = "remove" => listing[position] \in Tasks
            BY LoopTypes DEF HistoryIInv, LoopShape
          <5>3. QED
            BY <2>5, <5>1, <5>2
        <4>2. QED
          BY <2>2, <4>1, TotalTypes
      <3>2. measured \in Nat
        BY DEF HistoryIInv, TypeOK
      <3>3. IF measured < policy.value
            THEN Gone = {} /\ TotalSize(Spared) = measured
            ELSE /\ Spared = {} \/ TotalSize(Spared) < policy.value
                 /\ IF Gone = {} THEN policy.value = 0
                    ELSE \E t \in Gone :
                            TotalSize(Spared) + size[t] >= policy.value
        BY <2>9 DEF PurgeInv, SizeLoop
      <3>4. ASSUME Gone # {}
            PROVE  \E t \in Gone : TotalSize(Left) + size[t] >= policy.value
        <4>1. PICK t \in Gone : TotalSize(Spared) + size[t] >= policy.value
          BY <3>3, <3>4
        <4>2. TotalSize(Left) + size[t] >= policy.value
          BY <2>1, <2>2, <3>1, <4>1
        <4>3. QED
          BY <4>2
      <3>5. phase = "report" => (Left # {} => TotalSize(Left) < policy.value)
        BY <2>2, <3>3
      <3>6. phase = "report" => OldestFirst(Listed)
        BY <2>9, OldestGoFirst DEF OldestFirst
      <3>7. QED
        BY <2>9, <3>4, <3>5, <3>6
        DEF PurgeIsExact, PurgeNeverOverdoes, PurgeKeepsItsPromise
    <2>10. QED
      BY <2>1, <2>6, <2>7, <2>8, <2>9
  <1>3. QED
    BY <1>1, <1>2

(***************************************************************************)
(* A purge removes the tasks the code of its policy says, in the order     *)
(* they were submitted in but for those of one life of the daemon, all of  *)
(* them unless it is interrupted, and never another one: whichever policy, *)
(* whatever its value, wherever the daemon is stopped                      *)
(* (history.py:126-297, 383-384, tasks/__init__.py:286).                   *)
(***************************************************************************)
THEOREM PurgeStaysExact == Spec => []PurgeIsExact
  <1>1. Init => PurgeInv
    BY DEF Init, PurgeInv, ListingShape, RunsOut, OlderLoop, LastLoop,
       EachLoop, SizeLoop, Purging
  <1>2. Init => SinceShape
    BY DEF Init, SinceShape
  <1>3. HistoryIInv /\ SinceShape /\ [Next]_vars => SinceShape'
    BY SinceNext
  <1>4. HistoryIInv /\ PurgeInv /\ SinceShape => PurgeIsExact
    BY PurgeExact
  <1>5. QED
    BY <1>1, <1>2, <1>3, <1>4, HistoryInit, HistoryNext, PurgeNext, PTL
    DEF Spec

-----------------------------------------------------------------------------
(* The parts together.                                                     *)

(***************************************************************************)
(* Whatever part a behavior is about, it is a behavior of each of them:    *)
(* they share no variable, and the others stutter.                         *)
(***************************************************************************)
THEOREM PartsAreApart ==
  PartsSpec => /\ Spec /\ BuildSpec /\ PatchQueueSpec /\ ImagesSpec /\ TtySpec
               /\ RpmSpec /\ DebSpec /\ SignedSpec
  <1>1. PartsInit => /\ Init /\ BuildInit /\ PatchQueueInit /\ ImagesInit
                     /\ TtyInit /\ RpmInit /\ DebInit /\ OsiInit
    BY DEF PartsInit
  <1>2. [PartsNext]_allVars => [BuildNext]_buildVars
    BY DEF PartsNext, allVars
  <1>3. [PartsNext]_allVars => [ImagesNext]_imageVars
    BY DEF PartsNext, allVars
  <1>4. [PartsNext]_allVars => [TtyNext]_ttyVars
    BY DEF PartsNext, allVars
  <1>5. [PartsNext]_allVars => [OsiNext]_signedVars
    BY DEF PartsNext, allVars
  <1>6. [PartsNext]_allVars => [RpmNext]_rpmVars
    BY DEF PartsNext, allVars
  <1>7. [PartsNext]_allVars => [DebNext]_debVars
    BY DEF PartsNext, allVars
  <1>8. [PartsNext]_allVars => [Next]_vars
    BY DEF PartsNext, allVars
  <1>9. [PartsNext]_allVars => [PatchQueueNext]_queueVars
    BY DEF PartsNext, allVars
  <1>10. QED
    BY <1>1, <1>2, <1>3, <1>4, <1>5, <1>6, <1>7, <1>8, <1>9, PTL
    DEF PartsSpec, Spec, BuildSpec, PatchQueueSpec, ImagesSpec, TtySpec,
        RpmSpec, DebSpec, SignedSpec

(***************************************************************************)
(* What the parts promise, each of which is proved in its own module:      *)
(* sources are verified, series complete, environments clean and packages  *)
(* signed, patches kept and fit to be applied again, purges exact, images  *)
(* sound, terminals restored and true to the command, and the keyring      *)
(* signs what clients verify.                                              *)
(***************************************************************************)
PartsPromises ==
    /\ BuildsFromVerified /\ SeriesIsComplete /\ PrescriptStartsClean
    /\ PublishedAreSigned /\ WorkerSurvives
    /\ RunsKeepPatches /\ ReimportGivesTree
    /\ PurgeIsExact
    /\ CreationAloneIsSound
    /\ TerminalsAgree /\ ScreenIsFaithful
    /\ CanSignForEver /\ CreationCanBeRepeated /\ VerifiersAreCurrent

THEOREM PartsKeepPromises == PartsSpec => []PartsPromises
  <1>1. BuildsFromVerified /\ SeriesIsComplete /\ PrescriptStartsClean
        /\ PublishedAreSigned /\ WorkerSurvives
        /\ RunsKeepPatches /\ ReimportGivesTree /\ PurgeIsExact
        /\ CreationAloneIsSound /\ TerminalsAgree /\ ScreenIsFaithful
        /\ CanSignForEver /\ CreationCanBeRepeated /\ VerifiersAreCurrent
        => PartsPromises
    BY DEF PartsPromises
  <1>2. QED
    BY <1>1, PartsAreApart, VerifiedAlways, SeriesIsWhole, CleanAlways,
       SignedAlways, WorkerAlways, PatchesAreKept, ReimportIsFaithful,
       PurgeStaysExact, CreationIsSound, TerminalsAlwaysAgree,
       ScreenStaysFaithful, SignsForEver, CreatesAgain, VerifiersStayCurrent,
       PTL

(***************************************************************************)
(* The registries hold what was published last (rpm.py:126-161,            *)
(* deb.py:110-167).                                                        *)
(***************************************************************************)
THEOREM RegistriesStayCurrent == PartsSpec => []RegistriesAreCurrent
  <1>1. SettledIsCurrent /\ DebSettledIsCurrent /\ ConfNamesAll
        => RegistriesAreCurrent
    BY DEF RegistriesAreCurrent
  <1>2. QED
    BY <1>1, PartsAreApart, RpmIsCurrent, DebIsCurrent, PTL

(***************************************************************************)
(* What they list of an artifact completely published is what its tasks    *)
(* left there, but for names in RPM repositories the last publication left *)
(* out, and a listing is empty or fails only during a publication or after *)
(* one that failed (rpm.py:126-161, 188-218, deb.py:121-139, 169-286).     *)
(***************************************************************************)
THEOREM ListingsStayTrue == PartsSpec => []ListingsAreTrue
  <1>1. ListingIsExact /\ ListedIsPromised => ListingsAreTrue
    BY DEF ListingsAreTrue
  <1>2. QED
    BY <1>1, PartsAreApart, RpmListingIsExact, DebListingIsTrue, PTL

(***************************************************************************)
(* A build beside published packages has a version of its own              *)
(* (builds/formats/rpm.py:211-231, deb.py:288-327).                        *)
(***************************************************************************)
THEOREM RebuildsStayNew == PartsSpec => RebuildsAreNew
  BY PartsAreApart, RpmVersionsAreNew, DebVersionsAreNew, PTL
  DEF RebuildsAreNew

(***************************************************************************)
(* Every part keeps its types, whichever a behavior is about: the bounds   *)
(* of the model are never passed, what is listed and published is of the   *)
(* pipelines, and each loop stays within what it was given.                *)
(***************************************************************************)
THEOREM PartsKeepTypes == PartsSpec => []PartsTypeOK
  <1>1. PartsInit => part \in PartsChecked
    BY DEF PartsInit
  <1>2. part \in PartsChecked /\ [PartsNext]_allVars
        => (part \in PartsChecked)'
    BY DEF PartsNext, allVars
  <1>3. part \in PartsChecked
        /\ TypeOK /\ BuildTypeOK /\ QueueTypeOK /\ ImagesTypeOK /\ TtyTypeOK
        /\ RpmTypeOK /\ DebTypeOK /\ OsiTypeOK
        => PartsTypeOK
    BY DEF PartsTypeOK
  <1>4. QED
    BY <1>1, <1>2, <1>3, PartsAreApart, HistoryTypes, BuildTypes,
       PatchQueueTypes, ImagesTypes, TtyTypes, RpmKeepsTypes, DebKeepsTypes,
       OsiTypes, PTL
    DEF PartsSpec
=============================================================================
