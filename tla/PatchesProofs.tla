--------------------------- MODULE PatchesProofs ---------------------------
(***************************************************************************)
(* The patches of an artifact: those of its directory that a build makes a *)
(* series of, and the queue a user edits them in.                          *)
(***************************************************************************)
EXTENDS BuildProofs, PatchQueue, WellFoundedInduction

-----------------------------------------------------------------------------
(***************************************************************************)
(* Orders: a finite set whose elements have numbers, each its own, is put  *)
(* in order in one way.                                                    *)
(***************************************************************************)

\* s has the elements of S, one after the other, by their places.
Enumerates(s, n, S, Key) ==
    /\ s \in [1..n -> S]
    /\ \A p \in S : \E i \in 1..n : s[i] = p
    /\ \A i, j \in 1..n : i < j => Key[s[i]] < Key[s[j]]

IsOrder(s, S, Key) ==
    /\ s \in SetToSeqs(S)
    /\ \A i, j \in 1..Len(s) : i < j => Key[s[i]] < Key[s[j]]

\* s lists each element of S once.
Lists(s, S) ==
    /\ s \in Seq(S) /\ Len(s) = Cardinality(S) /\ Len(s) \in Nat
    /\ s \in [1..Len(s) -> S]
    /\ \A p \in S : \E i \in 1..Len(s) : s[i] = p
    /\ \A i, j \in 1..Len(s) : s[i] = s[j] => i = j

(* A non-empty set of numbers has a least one.  *)
LEMMA LeastNumber ==
  ASSUME NEW T \in SUBSET Nat, T # {}
  PROVE  \E n \in T : \A m \in T : ~(m < n)
  <1>1. PICK n \in T : \A m \in T : ~(<<m, n>> \in OpToRel(<, Nat))
    BY NatLessThanWellFounded, WFMin
  <1>2. \A m \in T : <<m, n>> \in OpToRel(<, Nat) <=> m < n
    BY <1>1 DEF OpToRel
  <1>3. QED
    BY <1>1, <1>2

(* What has places below a bound, each of its own, can be put in order:     *)
(* what has places below n can, for each n.                                *)
LEMMA OrderExists ==
  ASSUME NEW S, NEW Key \in [S -> Nat], NEW bound \in Nat,
         \A p \in S : Key[p] < bound,
         \A p, q \in S : Key[p] = Key[q] => p = q
  PROVE  \E n \in Nat : \E s : Enumerates(s, n, S, Key)
  <1> DEFINE Below(n) == {p \in S : Key[p] < n}
             Sortable(n) ==
                 \E k \in Nat : \E s : Enumerates(s, k, Below(n), Key)
             Bad == {n \in Nat : ~Sortable(n)}
  <1>1. \A p \in S : Key[p] \in Nat
    OBVIOUS
  <1> HIDE DEF Below, Sortable, Bad
  <1>2. Sortable(0)
    <2>1. Below(0) = {}
      BY <1>1 DEF Below
    <2>2. Enumerates(<<>>, 0, Below(0), Key)
      BY <2>1 DEF Enumerates
    <2>3. QED
      BY <2>2 DEF Sortable
  <1>3. ASSUME NEW n \in Nat, Sortable(n) PROVE Sortable(n + 1)
    <2>a. PICK k \in Nat : \E s : Enumerates(s, k, Below(n), Key)
      BY <1>3 DEF Sortable
    <2>1. PICK s : Enumerates(s, k, Below(n), Key)
      BY <2>a
    <2>2. CASE \A p \in S : Key[p] # n
      <3>1. Below(n + 1) = Below(n)
        BY <1>1, <2>2 DEF Below
      <3>2. QED
        BY <1>3, <3>1 DEF Sortable
    <2>3. CASE \E p \in S : Key[p] = n
      <3>1. PICK p \in S : Key[p] = n
        BY <2>3
      <3>2. \A q \in S : Key[q] = n => q = p
        BY <3>1
      <3>3. Below(n + 1) = Below(n) \cup {p}
        BY <1>1, <3>1, <3>2 DEF Below
      <3>4. \A q \in Below(n) : Key[q] < Key[p]
        BY <3>1 DEF Below
      <3> DEFINE r == [i \in 1..(k + 1) |-> IF i = k + 1 THEN p ELSE s[i]]
      <3>5. /\ \A i \in 1..k : s[i] \in Below(n) /\ r[i] = s[i]
            /\ r[k + 1] = p
        BY <2>1 DEF Enumerates
      <3>6. r \in [1..(k + 1) -> Below(n + 1)]
        BY <3>3, <3>5
      <3> HIDE DEF r
      <3>7. \A q \in Below(n + 1) : \E i \in 1..(k + 1) : r[i] = q
        BY <2>1, <3>3, <3>5 DEF Enumerates
      <3>8. ASSUME NEW i \in 1..(k + 1), NEW j \in 1..(k + 1), i < j
            PROVE  Key[r[i]] < Key[r[j]]
        <4>1. CASE j = k + 1
          BY <3>4, <3>5, <3>8, <4>1
        <4>2. CASE j # k + 1
          BY <2>1, <3>5, <3>8, <4>2 DEF Enumerates
        <4>3. QED
          BY <4>1, <4>2
      <3>9. QED
        BY <3>6, <3>7, <3>8 DEF Enumerates, Sortable
    <2>4. QED
      BY <2>2, <2>3
  <1>4. Bad = {}
    <2> SUFFICES ASSUME Bad # {} PROVE FALSE
      OBVIOUS
    <2>1. PICK n \in Bad : \A m \in Bad : ~(m < n)
      BY LeastNumber DEF Bad
    <2>2. n \in Nat /\ ~Sortable(n)
      BY DEF Bad
    <2>3. n # 0
      BY <1>2, <2>2
    <2>4. n - 1 \in Nat /\ n - 1 \notin Bad
      BY <2>1, <2>2, <2>3
    <2>5. Sortable(n - 1)
      BY <2>4 DEF Bad
    <2>6. Sortable((n - 1) + 1)
      BY <1>3, <2>4, <2>5
    <2>7. QED
      BY <2>2, <2>6
  <1>5. Below(bound) = S
    BY DEF Below
  <1>6. QED
    BY <1>4, <1>5 DEF Bad, Sortable

(* Such an enumeration is an order of the set, which is finite.  *)
LEMMA EnumerationIsOrder ==
  ASSUME NEW S, NEW Key \in [S -> Nat], NEW n \in Nat, NEW s,
         Enumerates(s, n, S, Key)
  PROVE  IsOrder(s, S, Key) /\ IsFiniteSet(S) /\ Cardinality(S) = n
  <1>1. \A i, j \in 1..n : i # j => s[i] # s[j]
    <2>1. \A p \in S : ~(Key[p] < Key[p])
      OBVIOUS
    <2>2. \A i, j \in 1..n : i < j => s[i] # s[j]
      BY <2>1 DEF Enumerates
    <2>3. QED
      BY <2>2
  <1>2. s \in Bijection(1..n, S)
    BY <1>1 DEF Enumerates, Bijection, Injection, Surjection, IsInjective
  <1>3. IsFiniteSet(S) /\ Cardinality(S) = n
    BY <1>2, FS_Bijection, FS_Interval DEF ExistsBijection
  <1>4. s \in SetToSeqs(S) /\ s \in Seq(S) /\ Len(s) = n
    BY <1>1, <1>3, SeqDef DEF Enumerates, SetToSeqs
  <1>5. QED
    BY <1>3, <1>4 DEF Enumerates, IsOrder

(* An order of a finite set lists each element once.  *)
LEMMA OrderLists ==
  ASSUME NEW S, NEW Key, IsFiniteSet(S), NEW s, IsOrder(s, S, Key)
  PROVE  Lists(s, S)
  <1> DEFINE n == Cardinality(S)
  <1>1. n \in Nat
    BY FS_CardinalityType
  <1>2. s \in [1..n -> S] /\ \A i, j \in 1..n : i # j => s[i] # s[j]
    BY DEF IsOrder, SetToSeqs
  <1> HIDE DEF n
  <1>3. s \in Seq(S) /\ Len(s) = n
    BY <1>1, <1>2, SeqDef
  <1>4. s \in Injection(1..n, S)
    BY <1>2 DEF Injection, IsInjective
  <1>5. s \in Surjection(1..n, S)
    BY <1>1, <1>4, FS_Injection, FS_Interval DEF n
  <1>6. \A p \in S : \E i \in 1..n : s[i] = p
    BY <1>5 DEF Surjection
  <1>7. QED
    BY <1>1, <1>2, <1>3, <1>6 DEF n, Lists

(* There is one order: where two of them would differ first, each has an    *)
(* element that the other one has later.                                   *)
LEMMA OneOrder ==
  ASSUME NEW S, NEW Key \in [S -> Nat], IsFiniteSet(S),
         NEW s, IsOrder(s, S, Key), NEW t, IsOrder(t, S, Key)
  PROVE  s = t
  <1> DEFINE n == Len(s)
  <1>1. /\ n \in Nat /\ Len(t) = n
        /\ s \in [1..n -> S] /\ t \in [1..n -> S]
        /\ \A p \in S : \E i \in 1..n : s[i] = p
        /\ \A p \in S : \E i \in 1..n : t[i] = p
        /\ \A i, j \in 1..n : s[i] = s[j] => i = j
        /\ \A i, j \in 1..n : t[i] = t[j] => i = j
    <2>1. Lists(s, S) /\ Lists(t, S)
      BY OrderLists
    <2>2. Len(t) = n /\ n \in Nat
      BY <2>1 DEF Lists
    <2>3. QED
      BY <2>1, <2>2 DEF Lists
  <1>2. /\ \A i, j \in 1..n : i < j => Key[s[i]] < Key[s[j]]
        /\ \A i, j \in 1..n : i < j => Key[t[i]] < Key[t[j]]
    BY <1>1 DEF IsOrder
  <1> HIDE DEF n
  <1> DEFINE Differ == {k \in 1..n : s[k] # t[k]}
  <1>3. Differ = {}
    <2> SUFFICES ASSUME Differ # {} PROVE FALSE
      OBVIOUS
    <2>1. Differ \in SUBSET Nat
      BY <1>1
    <2>2. PICK k \in Differ : \A m \in Differ : ~(m < k)
      BY <2>1, LeastNumber
    <2>3. k \in 1..n /\ s[k] # t[k] /\ \A m \in 1..n : m < k => s[m] = t[m]
      BY <2>2
    <2>4. PICK i \in 1..n : s[i] = t[k]
      BY <1>1, <2>3
    <2>5. PICK j \in 1..n : t[j] = s[k]
      BY <1>1, <2>3
    <2>6. k < i
      <3>1. i # k
        BY <2>3, <2>4
      <3>2. ~(i < k)
        BY <1>1, <2>3, <2>4
      <3>3. QED
        BY <1>1, <2>3, <3>1, <3>2
    <2>7. k < j
      <3>1. j # k
        BY <2>3, <2>5
      <3>2. ~(j < k)
        BY <1>1, <2>3, <2>5
      <3>3. QED
        BY <1>1, <2>3, <3>1, <3>2
    <2>8. Key[s[k]] < Key[t[k]] /\ Key[t[k]] < Key[s[k]]
      BY <1>2, <2>3, <2>4, <2>5, <2>6, <2>7
    <2>9. Key[s[k]] \in Nat /\ Key[t[k]] \in Nat
      BY <1>1, <2>3
    <2>10. QED
      BY <2>8, <2>9
  <1>4. \A k \in 1..n : s[k] = t[k]
    BY <1>3
  <1>5. QED
    BY <1>1, <1>4

-----------------------------------------------------------------------------
(***************************************************************************)
(* Folds over a finite set, from which elements are taken as c says.       *)
(***************************************************************************)

Takes(c, S) == \A s \in SUBSET S : s # {} => c[s] \in s

IsStep(F, S, V) == F \in [S \X V -> V]

\* Step F makes of g[{}] = base a function on the subsets of S.
Folded(g, c, base, F, S, V) ==
    /\ g \in [SUBSET S -> V]
    /\ \A s \in SUBSET S :
          g[s] = IF s = {} THEN base ELSE F[<<c[s], g[s \ {c[s]}]>>]

SameFold(g, h, c, S) ==
    /\ g[{}] = h[{}]
    /\ \A s \in SUBSET S :
          s # {} /\ g[s \ {c[s]}] = h[s \ {c[s]}] => g[s] = h[s]

(* Sets of subsets that have each subset whose smaller ones they have.  *)
LEMMA BySize ==
  ASSUME NEW S, IsFiniteSet(S), NEW B,
         \A s \in SUBSET S :
            (\A r \in SUBSET S : Cardinality(r) < Cardinality(s) => r \in B)
            => s \in B
  PROVE  \A s \in SUBSET S : s \in B
  <1> DEFINE Left == {s \in SUBSET S : s \notin B}
             Sizes0 == {n \in Nat : \E s \in Left : Cardinality(s) = n}
  <1>1. \A s \in SUBSET S : IsFiniteSet(s) /\ Cardinality(s) \in Nat
    BY FS_Subset, FS_CardinalityType
  <1>2. SUFFICES ASSUME Left # {} PROVE FALSE
    OBVIOUS
  <1>3. Sizes0 \in SUBSET Nat /\ Sizes0 # {}
    BY <1>1, <1>2
  <1>4. PICK n \in Sizes0 : \A m \in Sizes0 : ~(m < n)
    <2> HIDE DEF Sizes0
    <2> QED BY <1>3, LeastNumber
  <1>5. PICK s \in Left : Cardinality(s) = n
    BY <1>4
  <1>6. \A r \in SUBSET S : Cardinality(r) < Cardinality(s) => r \in B
    BY <1>1, <1>4, <1>5
  <1>7. QED
    BY <1>5, <1>6

(* A subset less an element is smaller.  *)
LEMMA LessIsSmaller ==
  ASSUME NEW S, IsFiniteSet(S), NEW s \in SUBSET S, NEW x \in s
  PROVE  /\ s \ {x} \in SUBSET S
         /\ Cardinality(s \ {x}) < Cardinality(s)
         /\ Cardinality(s \ {x}) \in Nat /\ Cardinality(s) \in Nat
  <1>1. IsFiniteSet(s)
    BY FS_Subset
  <1>2. Cardinality(s \ {x}) = Cardinality(s) - 1 /\ IsFiniteSet(s \ {x})
    BY <1>1, FS_RemoveElement
  <1>3. QED
    BY <1>1, <1>2, FS_CardinalityType

(* There is a function that a step F defines from smaller subsets.  *)
LEMMA FoldExists ==
  ASSUME NEW S, IsFiniteSet(S), NEW c, Takes(c, S), NEW V, NEW base \in V,
         NEW F, IsStep(F, S, V)
  PROVE  \E g : Folded(g, c, base, F, S, V)
  <1> DEFINE Upon(g, s) == IF s = {} THEN base ELSE F[<<c[s], g[s \ {c[s]}]>>]
             Good == {n \in Nat : \E g \in [SUBSET S -> V] :
                         \A s \in SUBSET S :
                            Cardinality(s) <= n => g[s] = Upon(g, s)}
             Bad == {n \in Nat : n \notin Good}
  <1>1. \A s \in SUBSET S : s # {} =>
           /\ c[s] \in S /\ s \ {c[s]} \in SUBSET S
           /\ Cardinality(s \ {c[s]}) < Cardinality(s)
           /\ Cardinality(s \ {c[s]}) \in Nat /\ Cardinality(s) \in Nat
    <2> SUFFICES ASSUME NEW s \in SUBSET S, s # {}
                 PROVE  /\ c[s] \in S /\ s \ {c[s]} \in SUBSET S
                        /\ Cardinality(s \ {c[s]}) < Cardinality(s)
                        /\ Cardinality(s \ {c[s]}) \in Nat
                        /\ Cardinality(s) \in Nat
      OBVIOUS
    <2>1. c[s] \in s
      BY DEF Takes
    <2>2. QED
      BY <2>1, LessIsSmaller
  <1>2. \A g \in [SUBSET S -> V], s \in SUBSET S : Upon(g, s) \in V
    BY <1>1 DEF IsStep
  <1>3. 0 \in Good
    <2> DEFINE h == [s \in SUBSET S |-> base]
    <2>1. \A s \in SUBSET S : Cardinality(s) <= 0 => s = {}
      <3> SUFFICES ASSUME NEW s \in SUBSET S, s # {}
                   PROVE  ~(Cardinality(s) <= 0)
        OBVIOUS
      <3>1. /\ Cardinality(s \ {c[s]}) < Cardinality(s)
            /\ Cardinality(s \ {c[s]}) \in Nat /\ Cardinality(s) \in Nat
        BY <1>1
      <3>2. QED
        BY <3>1
    <2>2. h \in [SUBSET S -> V]
      OBVIOUS
    <2>3. QED
      BY <2>1, <2>2
  <1>4. ASSUME NEW n \in Nat, n \in Good PROVE n + 1 \in Good
    <2>1. PICK g \in [SUBSET S -> V] : \A s \in SUBSET S :
             Cardinality(s) <= n => g[s] = Upon(g, s)
      BY <1>4
    <2> DEFINE h == [s \in SUBSET S |-> Upon(g, s)]
    <2>2. h \in [SUBSET S -> V]
      BY <1>2
    <2>3. ASSUME NEW s \in SUBSET S, Cardinality(s) <= n + 1
          PROVE  h[s] = Upon(h, s)
      <3>1. CASE s = {}
        BY <3>1
      <3>2. CASE s # {}
        <4>1. s \ {c[s]} \in SUBSET S /\ Cardinality(s \ {c[s]}) <= n
          BY <1>1, <2>3, <3>2
        <4>2. g[s \ {c[s]}] = h[s \ {c[s]}]
          BY <2>1, <4>1
        <4>3. QED
          BY <3>2, <4>2
      <3>3. QED
        BY <3>1, <3>2
    <2> HIDE DEF h, Upon
    <2>4. QED
      BY <2>2, <2>3
  <1>5. Bad = {}
    <2>1. SUFFICES ASSUME Bad # {} PROVE FALSE
      OBVIOUS
    <2> HIDE DEF Good
    <2>2. Bad \in SUBSET Nat
      OBVIOUS
    <2>3. PICK n \in Bad : \A m \in Bad : ~(m < n)
      <3> HIDE DEF Bad
      <3> QED BY <2>1, <2>2, LeastNumber
    <2>4. n # 0 /\ n \in Nat
      BY <1>3, <2>3
    <2>5. n - 1 \in Nat /\ n - 1 \in Good /\ (n - 1) + 1 = n
      BY <2>3, <2>4
    <2>6. QED
      BY <1>4, <2>3, <2>5
  <1>6. Cardinality(S) \in Nat
    BY FS_CardinalityType
  <1>7. PICK g \in [SUBSET S -> V] : \A s \in SUBSET S :
           Cardinality(s) <= Cardinality(S) => g[s] = Upon(g, s)
    BY <1>5, <1>6
  <1>8. \A s \in SUBSET S : Cardinality(s) <= Cardinality(S)
    BY FS_Subset
  <1>9. Folded(g, c, base, F, S, V)
    BY <1>7, <1>8 DEF Folded
  <1>10. QED
    BY <1>9

(* It is the only one.  *)
LEMMA FoldIsOne ==
  ASSUME NEW S, IsFiniteSet(S), NEW c, Takes(c, S), NEW g, NEW h,
         SameFold(g, h, c, S)
  PROVE  \A s \in SUBSET S : g[s] = h[s]
  <1> DEFINE B == {s \in SUBSET S : g[s] = h[s]}
  <1>1. ASSUME NEW s \in SUBSET S,
               \A r \in SUBSET S : Cardinality(r) < Cardinality(s) => r \in B
        PROVE  s \in B
    <2>1. CASE s = {}
      BY <2>1 DEF SameFold
    <2>2. CASE s # {}
      <3>1. s \ {c[s]} \in B
        BY <1>1, <2>2, LessIsSmaller DEF Takes
      <3>2. QED
        BY <2>2, <3>1 DEF SameFold
    <2>3. QED
      BY <2>1, <2>2
  <1> HIDE DEF B
  <1>2. \A s \in SUBSET S : s \in B
    BY <1>1, BySize
  <1>3. QED
    BY <1>2 DEF B

-----------------------------------------------------------------------------
(***************************************************************************)
(* The series: each set of patches has one order, and the list of patches  *)
(* is read when no more of them are to come.                               *)
(***************************************************************************)

\* The place of a patch among all that can be.
Place ==
    [p \in PatchFiles |->
        IF p.dir = "generic" THEN p.index ELSE p.index + 9999]

(* The numbers of patches have at most four digits.  *)
LEMMA IndexTyped ==
  ASSUME NEW p \in PatchFiles
  PROVE  /\ p.dir \in {"generic", "version"}
         /\ p.index \in Nat /\ 0 < p.index /\ p.index < 10000
  <1> DEFINE Digits == 1..9999
  <1>1. \A i \in Digits : i \in Nat /\ 0 < i /\ i < 10000
    OBVIOUS
  <1>2. PatchFiles = [dir : {"generic", "version"}, index : Digits,
                      for : SUBSET BuildFormats]
    BY DEF PatchFiles
  <1> HIDE DEF Digits
  <1>3. QED
    BY <1>1, <1>2

(* Before is the order of the places, and a name has one of its own.  *)
LEMMA BeforeIsPlace ==
  /\ \A p \in PatchFiles : Place[p] \in Nat /\ Place[p] < 19999
  /\ \A p, q \in PatchFiles :
        /\ Before(p, q) <=> Place[p] < Place[q]
        /\ Place[p] = Place[q] => p.dir = q.dir /\ p.index = q.index
  <1>1. ASSUME NEW p \in PatchFiles
        PROVE  /\ p.dir \in {"generic", "version"}
               /\ p.index \in Nat /\ 0 < p.index /\ p.index < 10000
               /\ p.dir = "generic" => Place[p] = p.index
               /\ p.dir = "version" => Place[p] = p.index + 9999
    <2>1. Place[p] = IF p.dir = "generic" THEN p.index ELSE p.index + 9999
      BY DEF Place
    <2>2. QED
      BY <2>1, IndexTyped
  <1>2. ASSUME NEW p \in PatchFiles, NEW q \in PatchFiles
        PROVE  /\ Before(p, q) <=> Place[p] < Place[q]
               /\ Place[p] = Place[q] => p.dir = q.dir /\ p.index = q.index
    <2>1. CASE p.dir = q.dir
      BY <1>1, <2>1 DEF Before
    <2>2. CASE p.dir # q.dir
      BY <1>1, <2>2 DEF Before
    <2>3. QED
      BY <2>1, <2>2
  <1>3. QED
    BY <1>1, <1>2

(* What the order of patches of different names is.  *)
LEMMA InOrderSorts ==
  ASSUME NEW patches \in SUBSET PatchFiles, NamesAreUnique(patches)
  PROVE  /\ Range(InOrder(patches)) = patches
         /\ \A i, j \in 1..Len(InOrder(patches)) :
                i < j => Before(InOrder(patches)[i], InOrder(patches)[j])
  <1> DEFINE Key == [p \in patches |-> Place[p]]
             r == InOrder(patches)
  <1>1. /\ Key \in [patches -> Nat]
        /\ \A p \in patches : Key[p] < 19999
        /\ \A p, q \in patches : /\ Before(p, q) <=> Key[p] < Key[q]
                                 /\ Key[p] = Key[q] => p = q
    BY BeforeIsPlace DEF NamesAreUnique
  <1> HIDE DEF Key
  <1>2. PICK n \in Nat : \E s : Enumerates(s, n, patches, Key)
    BY <1>1, OrderExists
  <1>3. PICK t : Enumerates(t, n, patches, Key)
    BY <1>2
  <1>4. IsOrder(t, patches, Key) /\ IsFiniteSet(patches)
    BY <1>1, <1>3, EnumerationIsOrder
  <1>5. \A s \in SetToSeqs(patches) : \A i \in 1..Len(s) : s[i] \in patches
    BY <1>4, FS_CardinalityType DEF SetToSeqs
  <1>6. \A s \in SetToSeqs(patches) :
            (\A i, j \in 1..Len(s) : i < j => Key[s[i]] < Key[s[j]])
            <=> (\A i, j \in 1..Len(s) : i < j => Before(s[i], s[j]))
    BY <1>1, <1>5
  <1>7. /\ r \in SetToSeqs(patches)
        /\ \A i, j \in 1..Len(r) : i < j => Before(r[i], r[j])
    BY <1>4, <1>6 DEF InOrder, IsOrder
  <1>8. Lists(r, patches)
    BY <1>4, <1>6, <1>7, OrderLists DEF IsOrder
  <1> HIDE DEF r
  <1>9. Range(r) = patches
    BY <1>8 DEF Lists, Range
  <1>10. QED
    BY <1>7, <1>9 DEF r

-----------------------------------------------------------------------------

NothingYet == {"idle", "load", "collect"}
Inside == {"snapshot", "inside", "clean", "scrub", "export"}
Building == {"binary", "sign", "check", "publish"}

\* The patches of a build, from when the artifact has been collected.
PatchShape ==
    /\ queue \subseteq GivenPatches \cup {SymlinksPatch, PrescriptPatch}
    /\ NamesAreUnique(queue)
    /\ generated \subseteq {PrescriptPatch}
    /\ step \in NothingYet => queue = {}
    /\ step \in NothingYet \cup {"symlinks", "prescript"} =>
          generated = {} /\ seen = NotRead
    /\ step \notin Inside => generated \subseteq queue
    /\ seen # NotRead =>
          seen \subseteq queue /\ queue \ {PrescriptPatch} \subseteq seen
    /\ step \notin NothingYet \cup {"symlinks"} /\ archives["supp"] # "none" =>
          SymlinksPatch \in queue

\* The list of patches is read when no more of them are to come.
SelectedShape ==
    selected # NotRead =>
        selected = Selection /\ step \in {"source"} \cup Building

\* The series is that list.
SeriesShape == SourceIsBuilt => series = InOrder(Selection)

\* A build number is below the number of builds that came before.
NumbersShape ==
    /\ step # "idle" => builds > 0
    /\ \A f \in Packaged : registry[f] # NoVersion =>
          registry[f].number + 2 <= IF step = "idle" THEN builds ELSE builds - 1
    /\ UnderWay =>
          version.main \in Upstream /\ version.number \in -1..(builds - 2)

\* Nothing is signed before it is built.
PackagesShape == step \notin Building => signed = {}

SeriesInv ==
    /\ BuildTypeOK /\ PatchShape /\ SelectedShape /\ SeriesShape
    /\ NumbersShape /\ PackagesShape

(* The patches a build generates are in every list of patches.  *)
LEMMA GeneratedTyped ==
  /\ \A p \in {SymlinksPatch, PrescriptPatch} :
        p \in PatchFiles /\ p.for = BuildFormats /\ p.dir = "version"
  /\ SymlinksPatch.index = 9998 /\ PrescriptPatch.index = 9999
  BY DEF SymlinksPatch, PrescriptPatch, Generated, PatchFiles

(* Names stay unique when generated patches come.  *)
LEMMA NamesStayUnique ==
  ASSUME NEW old \in SUBSET (GivenPatches \cup {SymlinksPatch, PrescriptPatch}),
         NamesAreUnique(old),
         NEW more \in SUBSET {SymlinksPatch, PrescriptPatch}
  PROVE  /\ NamesAreUnique(old \cup more)
         /\ old \cup more \subseteq PatchFiles
  <1>1. \A p \in GivenPatches : p.index # 9998 /\ p.index # 9999
    <2> SUFFICES ASSUME NEW p \in GivenPatches
                 PROVE  p.index # 9998 /\ p.index # 9999
      OBVIOUS
    <2>1. p.index < 9998 /\ p.index \in Nat
      BY GivenPatchesAssumption, IndexTyped
    <2>2. QED
      BY <2>1
  <1>2. SymlinksPatch.index # PrescriptPatch.index
    BY GeneratedTyped
  <1>3. NamesAreUnique(old \cup more)
    <2> SUFFICES ASSUME NEW p \in old \cup more, NEW q \in old \cup more,
                        p.dir = q.dir, p.index = q.index
                 PROVE  p = q
      BY DEF NamesAreUnique
    <2>1. CASE p \in {SymlinksPatch, PrescriptPatch}
      BY <1>1, <1>2, <2>1, GeneratedTyped
    <2>2. CASE q \in {SymlinksPatch, PrescriptPatch}
      BY <1>1, <1>2, <2>2, GeneratedTyped
    <2>3. CASE p \in old /\ q \in old
      BY <2>3 DEF NamesAreUnique
    <2>4. QED
      BY <2>1, <2>2, <2>3
  <1>4. QED
    BY <1>3, GeneratedTyped, GivenPatchesAssumption

(* So is a selection of them.  *)
LEMMA SelectionTyped ==
  ASSUME SeriesInv
  PROVE  /\ queue \subseteq PatchFiles
         /\ Selection \subseteq queue
         /\ NamesAreUnique(Selection)
  <1>1. queue \subseteq PatchFiles
    BY DEF SeriesInv, BuildTypeOK
  <1>2. QED
    BY <1>1 DEF SeriesInv, PatchShape, Selection, NamesAreUnique

LEMMA SeriesInit == BuildInit => SeriesInv
  <1> SUFFICES ASSUME BuildInit PROVE SeriesInv
    OBVIOUS
  <1> USE DEF BuildInit
  <1>1. request \in [format : BuildFormats, main : Upstream \cup {0},
                     supp : BOOLEAN]
    BY DEF BuildFormats
  <1>2. BuildTypeOK
    <2>1. /\ \A f \in CacheFiles : cache[f] \in Archives \cup {NoFile, Garbage}
          /\ DOMAIN cache = CacheFiles
      OBVIOUS
    <2>2. Range(series) \subseteq PatchFiles
      BY DEF Range
    <2>3. builds \in 0..MaxBuilds /\ kills \in 0..MaxKills
      BY BuildBoundsAssumption
    <2>4. archives \in [Sources -> {"none", "user", "cache"}]
      BY DEF Nowhere
    <2>5. QED
      BY <1>1, <2>1, <2>2, <2>3, <2>4 DEF BuildTypeOK, BuildSteps
  <1>3. PatchShape /\ SelectedShape /\ SeriesShape
    BY DEF PatchShape, NothingYet, Inside, NamesAreUnique, SelectedShape,
           SeriesShape, SourceIsBuilt
  <1>4. NumbersShape /\ PackagesShape
    BY DEF NumbersShape, UnderWay, PackagesShape
  <1>5. QED
    BY <1>2, <1>3, <1>4 DEF SeriesInv

Results == {"none", "success", "failed", "escapes", "offline"}

(* The end of a build forgets its patches and its packages.  *)
LEMMA EndsSeries ==
  ASSUME SeriesInv, NEW how \in Results, BuildEnds(how), step # "idle",
         UNCHANGED <<request, builds>>,
         definition' \in Definitions \cup {NoDefinition},
         kills' \in 0..MaxKills, excused' \in BOOLEAN,
         overlay' \in {"base", "changed"},
         DOMAIN cache' = CacheFiles,
         \A f \in CacheFiles : cache'[f] \in Archives \cup {NoFile, Garbage},
         registry' \in [Packaged -> [main : Upstream, number : Numbers]
                                    \cup {NoVersion}],
         \A f \in Packaged : registry'[f] # NoVersion =>
            registry'[f].number + 2 <= builds
  PROVE  SeriesInv'
  <1> USE DEF SeriesInv, BuildEnds, ForgetBuild
  <1>1. BuildTypeOK'
    BY DEF BuildTypeOK, BuildSteps, Nowhere, Range, Results
  <1>2. PatchShape' /\ SelectedShape' /\ SeriesShape'
    BY DEF PatchShape, NothingYet, Inside, NamesAreUnique, SelectedShape,
           SeriesShape, SourceIsBuilt
  <1>3. NumbersShape' /\ PackagesShape'
    BY DEF NumbersShape, UnderWay, PackagesShape
  <1>4. QED
    BY <1>1, <1>2, <1>3

(* What is published has a number of its own.  *)
LEMMA PublishedBefore ==
  ASSUME SeriesInv, step # "idle"
  PROVE  \A f \in Packaged : registry[f] # NoVersion =>
            registry[f].number + 2 <= builds
  <1> SUFFICES ASSUME NEW f \in Packaged, registry[f] # NoVersion
               PROVE  registry[f].number + 2 <= builds
    OBVIOUS
  <1>1. registry[f].number \in Int /\ builds \in Int
    BY DEF SeriesInv, BuildTypeOK, Numbers
  <1>2. registry[f].number + 2 <= builds - 1
    BY DEF SeriesInv, NumbersShape
  <1>3. QED
    BY <1>1, <1>2

(* The end of a build that publishes nothing.  *)
LEMMA NothingPublished ==
  ASSUME SeriesInv, step # "idle", NEW how \in Results, BuildEnds(how),
         UNCHANGED <<cache, registry, request, builds, definition>>,
         kills' \in 0..MaxKills, excused' \in BOOLEAN,
         overlay' \in {"base", "changed"}
  PROVE  SeriesInv'
  BY PublishedBefore, EndsSeries DEF SeriesInv, BuildTypeOK

(* The steps that collect archives.  *)
LEMMA CollectSeries ==
  ASSUME SeriesInv, BuildIInv, NEW s \in Sources
  PROVE  /\ \A how \in {"escapes", "offline"} :
                CollectFails(s, how) => SeriesInv'
         /\ \A right \in BOOLEAN : Download(s, right) => SeriesInv'
         /\ UseCached(s) => SeriesInv'
         /\ ChecksumFails(s) => SeriesInv'
  <1> USE DEF SeriesInv
  <1>1. kills \in 0..MaxKills /\ excused \in BOOLEAN
        /\ overlay \in {"base", "changed"}
    BY DEF BuildTypeOK
  <1>2. ASSUME NEW how \in {"escapes", "offline"}, CollectFails(s, how)
        PROVE  SeriesInv'
    BY <1>1, <1>2, NothingPublished DEF CollectFails, Results, storageVars
  <1>3. ASSUME NEW right \in BOOLEAN, Download(s, right) PROVE SeriesInv'
    <2> USE <1>3 DEF Download, sourceVars, patchVars, packageVars
    <2>1. definition \in ArtifactDefs
      BY DefinitionsAssumption DEF BuildIInv, LoadedShape, UnderWay
    <2>2. RightArchive(s) \in Archives
      BY <2>1 DEF HasAddress, RightArchive, Archives, ArtifactDefs
    <2>3. /\ \A f \in CacheFiles :
                cache'[f] \in Archives \cup {NoFile, Garbage}
          /\ DOMAIN cache' = CacheFiles
      BY <2>2 DEF BuildTypeOK
    <2>4. BuildTypeOK'
      BY <2>3 DEF BuildTypeOK
    <2>5. PatchShape' /\ SelectedShape' /\ SeriesShape'
      BY DEF PatchShape, NothingYet, SelectedShape, Selection, SeriesShape,
             SourceIsBuilt, NamesAreUnique
    <2>6. NumbersShape' /\ PackagesShape'
      BY DEF NumbersShape, UnderWay, PackagesShape
    <2>7. QED
      BY <2>4, <2>5, <2>6
  <1>4. ASSUME UseCached(s) PROVE SeriesInv'
    <2> USE <1>4 DEF UseCached, storageVars, patchVars, packageVars
    <2>1. BuildTypeOK'
      BY DEF BuildTypeOK
    <2>2. PatchShape' /\ SelectedShape' /\ SeriesShape'
      BY DEF PatchShape, NothingYet, SelectedShape, Selection, SeriesShape,
             SourceIsBuilt, NamesAreUnique, Building
    <2>3. NumbersShape' /\ PackagesShape'
      BY DEF NumbersShape, UnderWay, PackagesShape
    <2>4. QED
      BY <2>1, <2>2, <2>3
  <1>5. ASSUME ChecksumFails(s) PROVE SeriesInv'
    BY <1>1, <1>5, NothingPublished DEF ChecksumFails, Results, storageVars
  <1>6. QED
    BY <1>2, <1>3, <1>4, <1>5

(* A build starts: nothing is left of the one before.  *)
LEMMA StartSeries ==
  ASSUME SeriesInv, BuildIInv,
         \/ \E f \in BuildFormats, main \in Upstream \cup {0},
               supp \in BOOLEAN :
               Submit(f, main, supp)
         \/ \E d \in Definitions \cup {NoDefinition} : LoadFails(d) \/ Load(d)
  PROVE  SeriesInv'
  <1> USE DEF SeriesInv, storageVars, sourceVars, patchVars, packageVars
  <1>1. ASSUME NEW f \in BuildFormats, NEW main \in Upstream \cup {0},
               NEW supp \in BOOLEAN, Submit(f, main, supp)
        PROVE  SeriesInv'
    <2> USE <1>1 DEF Submit
    <2>1. BuildTypeOK'
      BY BuildBoundsAssumption DEF BuildTypeOK, BuildSteps
    <2>2. PatchShape' /\ SelectedShape' /\ SeriesShape'
      BY DEF PatchShape, NothingYet, Inside, SelectedShape, SeriesShape,
             SourceIsBuilt, NamesAreUnique, Building
    <2>3. NumbersShape'
      <3>1. builds \in Nat
        BY DEF BuildTypeOK
      <3>2. QED
        BY <3>1 DEF NumbersShape, UnderWay
    <2>4. PackagesShape'
      BY DEF PackagesShape, Building
    <2>5. QED
      BY <2>1, <2>2, <2>3, <2>4
  <1>2. ASSUME NEW d \in Definitions \cup {NoDefinition}, LoadFails(d)
        PROVE  SeriesInv'
    <2> USE <1>2 DEF LoadFails
    <2>1. \A f \in Packaged : registry[f] # NoVersion =>
              registry[f].number + 2 <= builds
      BY PublishedBefore
    <2>2. QED
      BY <2>1, EndsSeries DEF BuildTypeOK, Results
  <1>3. ASSUME NEW d \in Definitions \cup {NoDefinition}, Load(d)
        PROVE  SeriesInv'
    <2> USE <1>3 DEF Load
    <2>1. /\ d \in Definitions /\ d \in ArtifactDefs
          /\ MainVersion(d) # 0
      BY DefinitionsAssumption DEF Loadable, VersionIsKnown
    <2>2. MainVersion(d) \in Upstream
      BY <2>1 DEF MainVersion, BuildTypeOK, ArtifactDefs, Sources
    <2>3. BuildTypeOK'
      BY DEF BuildTypeOK, BuildSteps
    <2>4. step' = "source" => archives'["supp"] = "none"
      BY DEF NothingToCollect, Sources
    <2>5. PatchShape' /\ SelectedShape' /\ SeriesShape'
      BY <2>4
      DEF PatchShape, NothingYet, Inside, SelectedShape, SeriesShape,
          SourceIsBuilt, NamesAreUnique, Building
    <2>6. NumbersShape'
      <3>1. builds \in Nat /\ builds > 0
        BY DEF BuildTypeOK, NumbersShape
      <3>2. version'.main \in Upstream /\ version'.number = -1
        BY <2>2
      <3>3. -1 \in -1..(builds - 2)
        BY <3>1
      <3>4. QED
        BY <3>2, <3>3 DEF NumbersShape
    <2>7. PackagesShape'
      BY DEF PackagesShape, Building
    <2>8. QED
      BY <2>3, <2>5, <2>6, <2>7
  <1>4. QED
    BY <1>1, <1>2, <1>3

(* What a step of a build leaves alone.  *)
LEMMA NumbersStay ==
  ASSUME SeriesInv, UNCHANGED <<registry, version, builds>>,
         step \notin {"idle", "load"}, step' \notin {"idle", "load"}
  PROVE  NumbersShape'
  BY DEF SeriesInv, NumbersShape, UnderWay

(* The steps that work on patches.  *)
LEMMA PatchesSeries ==
  ASSUME SeriesInv, BuildIInv,
         \/ \E given \in SUBSET GivenPatches : Collected(given)
         \/ Symlinks \/ NoPrescript
         \/ \E changes \in BOOLEAN : PrescriptStarts(changes)
         \/ ExportPatch \/ Render
  PROVE  SeriesInv'
  <1> USE DEF SeriesInv, storageVars, sourceVars, patchVars, packageVars
  <1>1. ASSUME NEW given \in SUBSET GivenPatches, Collected(given)
        PROVE  SeriesInv'
    <2> USE <1>1 DEF Collected
    <2>1. given \subseteq PatchFiles
      BY GivenPatchesAssumption
    <2>2. BuildTypeOK'
      <3>1. /\ selected = NotRead /\ seen = NotRead /\ generated = {}
        BY DEF SelectedShape, Building, PatchShape, NothingYet
      <3>2. QED
        BY <2>1, <3>1 DEF BuildTypeOK, BuildSteps
    <2>3. PatchShape' /\ SelectedShape' /\ SeriesShape'
      BY DEF PatchShape, NothingYet, Inside, SelectedShape, SeriesShape,
             SourceIsBuilt, NamesAreUnique, Building
    <2>4. NumbersShape' /\ PackagesShape'
      BY NumbersStay DEF PackagesShape, Building
    <2>5. QED
      BY <2>2, <2>3, <2>4
  <1>2. CASE Symlinks
    <2> USE <1>2 DEF Symlinks
    <2> DEFINE more == IF archives["supp"] # "none" THEN {SymlinksPatch} ELSE {}
    <2>1. /\ queue' = queue \cup more
          /\ more \subseteq {SymlinksPatch, PrescriptPatch}
      OBVIOUS
    <2>2. NamesAreUnique(queue') /\ queue' \subseteq PatchFiles
      <3> HIDE DEF more
      <3>1. /\ NamesAreUnique(queue \cup more)
            /\ queue \cup more \subseteq PatchFiles
        BY <2>1, NamesStayUnique DEF PatchShape
      <3>2. QED
        BY <2>1, <3>1
    <2>3. selected = NotRead /\ seen = NotRead
      BY DEF SelectedShape, Building, PatchShape
    <2>4. BuildTypeOK'
      BY <2>2, <2>3 DEF BuildTypeOK, BuildSteps
    <2>5. /\ queue' \subseteq GivenPatches \cup {SymlinksPatch, PrescriptPatch}
          /\ archives["supp"] # "none" => SymlinksPatch \in queue'
      BY DEF PatchShape
    <2>6. PatchShape'
      BY <2>2, <2>5, <2>3 DEF PatchShape, NothingYet, Inside, NamesAreUnique
    <2>7. SelectedShape' /\ SeriesShape' /\ PackagesShape'
      BY <2>3 DEF SelectedShape, SeriesShape, SourceIsBuilt, PackagesShape,
                  Building
    <2>8. QED
      BY <2>4, <2>6, <2>7, NumbersStay
  <1>3. CASE NoPrescript
    <2> USE <1>3 DEF NoPrescript
    <2>1. BuildTypeOK'
      BY DEF BuildTypeOK, BuildSteps
    <2>2. PatchShape' /\ SelectedShape' /\ SeriesShape'
      BY DEF PatchShape, NothingYet, Inside, SelectedShape, SeriesShape,
             SourceIsBuilt, NamesAreUnique, Building
    <2>3. NumbersShape' /\ PackagesShape'
      BY NumbersStay DEF PackagesShape, Building
    <2>4. QED
      BY <2>1, <2>2, <2>3
  <1>4. ASSUME NEW changes \in BOOLEAN, PrescriptStarts(changes)
        PROVE  SeriesInv'
    <2> USE <1>4 DEF PrescriptStarts
    <2>1. step' \in Inside
      BY DEF Inside
    <2>2. /\ generated' \subseteq {PrescriptPatch}
          /\ generated' \subseteq PatchFiles
      BY GeneratedTyped DEF PatchShape
    <2>3. BuildTypeOK'
      BY <2>2 DEF BuildTypeOK, BuildSteps
    <2>4. PatchShape'
      BY <2>1, <2>2 DEF PatchShape, NothingYet, Inside, NamesAreUnique
    <2>5. SelectedShape' /\ SeriesShape' /\ PackagesShape'
      BY DEF SelectedShape, SeriesShape, SourceIsBuilt, PackagesShape, Building
    <2>6. QED
      BY <2>1, <2>3, <2>4, <2>5, NumbersStay DEF Inside
  <1>5. CASE ExportPatch
    <2> USE <1>5 DEF ExportPatch
    <2>1. generated \in SUBSET {SymlinksPatch, PrescriptPatch}
      BY DEF PatchShape
    <2>2. NamesAreUnique(queue') /\ queue' \subseteq PatchFiles
      BY <2>1, NamesStayUnique DEF PatchShape
    <2>3. selected = NotRead
      BY DEF SelectedShape, Building
    <2>4. BuildTypeOK'
      BY <2>2, <2>3 DEF BuildTypeOK, BuildSteps
    <2>5. PatchShape'
      BY <2>2 DEF PatchShape, NothingYet, Inside, NamesAreUnique
    <2>6. SelectedShape' /\ SeriesShape' /\ PackagesShape'
      BY <2>3 DEF SelectedShape, SeriesShape, SourceIsBuilt, PackagesShape,
                  Building
    <2>7. QED
      BY <2>4, <2>5, <2>6, NumbersStay
  <1>6. CASE Render
    <2> USE <1>6 DEF Render
    <2>1. selected' = Selection /\ Selection' = Selection
      BY DEF ReadPatches, SelectedShape, Selection, Building
    <2>2. BuildTypeOK'
      BY <2>1, SelectionTyped DEF BuildTypeOK, BuildSteps
    <2>3. PatchShape'
      BY DEF PatchShape, NothingYet, Inside, NamesAreUnique
    <2>4. SelectedShape' /\ SeriesShape' /\ PackagesShape'
      BY <2>1 DEF SelectedShape, SeriesShape, SourceIsBuilt, PackagesShape,
                  Building
    <2>5. QED
      BY <2>2, <2>3, <2>4, NumbersStay
  <1>7. QED
    BY <1>1, <1>2, <1>3, <1>4, <1>5, <1>6

(* The environment of the prescript.  *)
LEMMA EnvironmentSeries ==
  ASSUME SeriesInv, BuildIInv,
         Snapshot \/ PrescriptRuns \/ PrescriptFails \/ Clean \/ Scrub
  PROVE  SeriesInv'
  <1> USE DEF SeriesInv, storageVars, sourceVars, patchVars, packageVars
  <1>1. ASSUME step \in Inside, step' \in Inside,
               UNCHANGED <<cache, registry, request, sourceVars, patchVars,
                           packageVars, builds, kills>>,
               overlay' \in {"base", "changed"}, excused' \in BOOLEAN,
               result' \in Results
        PROVE  SeriesInv'
    <2>1. BuildTypeOK'
      BY <1>1 DEF BuildTypeOK, Inside, BuildSteps, Results
    <2>2. PatchShape' /\ SelectedShape' /\ SeriesShape'
      BY <1>1 DEF PatchShape, NothingYet, Inside, SelectedShape, SeriesShape,
                  SourceIsBuilt, NamesAreUnique, Building
    <2>3. NumbersShape' /\ PackagesShape'
      BY <1>1, NumbersStay DEF PackagesShape, Building, Inside
    <2>4. QED
      BY <2>1, <2>2, <2>3
  <1>2. overlay \in {"base", "changed"} /\ excused \in BOOLEAN
        /\ result \in Results
    BY DEF BuildTypeOK, Results
  <1>3. CASE Snapshot \/ PrescriptRuns \/ Clean
    BY <1>1, <1>2, <1>3 DEF Snapshot, PrescriptRuns, Clean, Inside
  <1>4. CASE PrescriptFails
    <2>1. CASE request.format = "rpm"
      BY <1>1, <1>2, <1>4, <2>1 DEF PrescriptFails, Inside, Results
    <2>2. CASE request.format # "rpm"
      BY <1>2, <1>4, <2>2, NothingPublished
      DEF PrescriptFails, Results, BuildTypeOK
    <2>3. QED
      BY <2>1, <2>2
  <1>5. CASE Scrub
    <2>1. CASE result = "failed"
      BY <1>5, <2>1, NothingPublished DEF Scrub, Results, BuildTypeOK
    <2>2. CASE result # "failed"
      BY <1>1, <1>2, <1>5, <2>2 DEF Scrub, Inside
    <2>3. QED
      BY <2>1, <2>2
  <1>6. QED
    BY <1>3, <1>4, <1>5

(* The source package is built: it gets its series and its number.  *)
LEMMA SourceSeries ==
  ASSUME SeriesInv, BuildIInv,
         NEW architectures \in SUBSET Targets, BuildSource(architectures)
  PROVE  SeriesInv'
  <1> USE DEF SeriesInv, BuildSource, storageVars
  <1>1. selected = NotRead \/ selected = Selection
    BY DEF SelectedShape
  <1>2. ReadPatches = Selection /\ Selection' = Selection
    BY <1>1 DEF ReadPatches, Selection
  <1>3. series' = InOrder(Selection)
    BY <1>2
  <1>4. Range(series') \subseteq PatchFiles
    BY <1>3, SelectionTyped, InOrderSorts
  <1>5. /\ builds \in Nat /\ builds > 0 /\ builds <= MaxBuilds
        /\ MaxBuilds \in Nat /\ request.format \in Packaged
    BY BuildBoundsAssumption
    DEF BuildTypeOK, NumbersShape, BuildFormats, Packaged
  <1>6. NextNumber \in -1..(builds - 2)
    <2> DEFINE existing == registry[request.format]
    <2>1. CASE existing # NoVersion /\ existing.main = version.main
      <3>1. existing.number \in -1..MaxBuilds
        BY <1>5, <2>1 DEF BuildTypeOK, Numbers
      <3>2. existing.number + 2 <= builds - 1
        BY <1>5, <2>1 DEF NumbersShape
      <3>3. NextNumber = existing.number + 1
        BY <2>1 DEF NextNumber
      <3> HIDE DEF existing
      <3>4. QED
        BY <1>5, <3>1, <3>2, <3>3
    <2>2. CASE ~(existing # NoVersion /\ existing.main = version.main)
      <3>1. NextNumber = -1
        BY <2>2 DEF NextNumber
      <3>2. QED
        BY <1>5, <3>1
    <2>3. QED
      BY <2>1, <2>2
  <1>7. version' = [version EXCEPT !.number = NextNumber]
    OBVIOUS
  <1>8. version'.main = version.main /\ version'.number = NextNumber
    <2>1. version = [main |-> MainVersion(definition),
                     number |-> version.number]
      BY DEF BuildIInv, LoadedShape, UnderWay
    <2>2. QED
      BY <1>7, <2>1
  <1>9. BuildTypeOK'
    <2>1. signed = {}
      BY DEF PackagesShape, Building
    <2>2. QED
      BY <1>4, <2>1 DEF BuildTypeOK, BuildSteps
  <1>10. PatchShape'
    BY DEF PatchShape, NothingYet, Inside, NamesAreUnique
  <1>11. SelectedShape' /\ SeriesShape' /\ PackagesShape'
    BY <1>2, <1>3
    DEF SelectedShape, SeriesShape, SourceIsBuilt, PackagesShape, Building
  <1>12. NumbersShape'
    BY <1>6, <1>8 DEF NumbersShape, UnderWay
  <1>13. QED
    BY <1>9, <1>10, <1>11, <1>12

(* Packages are built, signed and checked.  *)
LEMMA PackagesSeries ==
  ASSUME SeriesInv, BuildIInv,
         \/ \E a \in targets : BuildBinary(a)
         \/ BuildImage \/ SignRpms \/ Built \/ StaticCheck
  PROVE  SeriesInv'
  <1> USE DEF SeriesInv, storageVars, sourceVars, patchVars, packageVars
  <1>1. Selection' = Selection
    BY DEF Selection, BuildBinary, BuildImage, SignRpms, Built, StaticCheck
  <1>2. ASSUME step \in Building \cup {"source"}, step' \in Building,
               step = "source" => request.format \notin Packaged,
               UNCHANGED <<storageVars, request, sourceVars, patchVars,
                           result, builds, kills>>,
               targets' \subseteq Targets, signed' \subseteq packages',
               packages' \subseteq Targets \cup {"src", "image"}
        PROVE  SeriesInv'
    <2>1. BuildTypeOK'
      BY <1>2 DEF BuildTypeOK, Building, BuildSteps
    <2>2. PatchShape'
      BY <1>2 DEF PatchShape, NothingYet, Inside, NamesAreUnique, Building
    <2>3. SelectedShape' /\ SeriesShape' /\ PackagesShape'
      BY <1>1, <1>2
      DEF SelectedShape, SeriesShape, SourceIsBuilt, PackagesShape, Building
    <2>4. NumbersShape'
      BY <1>2, NumbersStay DEF Building
    <2>5. QED
      BY <2>1, <2>2, <2>3, <2>4
  <1>3. /\ targets \subseteq Targets /\ signed \subseteq packages
        /\ packages \subseteq Targets \cup {"src", "image"}
    BY DEF BuildTypeOK
  <1>4. ASSUME NEW a \in targets, BuildBinary(a) PROVE SeriesInv'
    BY <1>2, <1>3, <1>4 DEF BuildBinary, Building
  <1>5. CASE BuildImage
    <2>1. signed = {}
      BY <1>5 DEF BuildImage, PackagesShape, Building
    <2>2. QED
      BY <1>2, <1>3, <1>5, <2>1 DEF BuildImage, Building, Packaged
  <1>6. CASE SignRpms
    BY <1>2, <1>3, <1>6 DEF SignRpms, Building
  <1>7. CASE Built \/ StaticCheck
    BY <1>2, <1>3, <1>7 DEF Built, StaticCheck, Building
  <1>8. QED
    BY <1>4, <1>5, <1>6, <1>7

(* The ends of a build, good or bad.  *)
LEMMA OverSeries ==
  ASSUME SeriesInv, BuildIInv,
         SourceFails \/ PublishBuild \/ BuildFails \/ Kill
  PROVE  SeriesInv'
  <1> USE DEF SeriesInv, storageVars, Results
  <1>1. /\ kills \in 0..MaxKills /\ excused \in BOOLEAN
        /\ overlay \in {"base", "changed"} /\ MaxKills \in Nat
    BY BuildBoundsAssumption DEF BuildTypeOK
  <1>2. CASE SourceFails
    BY <1>1, <1>2, NothingPublished DEF SourceFails
  <1>3. CASE PublishBuild
    <2> USE <1>3 DEF PublishBuild
    <2>1. CASE UNCHANGED registry
      BY <1>1, <2>1, NothingPublished
    <2>2. CASE ~UNCHANGED registry
      <3>1. /\ request.format \in Packaged
            /\ registry' = [registry EXCEPT ![request.format] = version]
        BY <2>2 DEF BuildTypeOK, BuildFormats, Packaged
      <3>2. builds \in 0..MaxBuilds /\ MaxBuilds \in Nat
        BY BuildBoundsAssumption DEF BuildTypeOK
      <3>3. version.main \in Upstream /\ version.number \in -1..(builds - 2)
        BY DEF NumbersShape, UnderWay
      <3>4. version.number \in Numbers /\ version.number + 2 <= builds
        BY <3>2, <3>3 DEF Numbers
      <3>5. version \in [main : Upstream, number : Numbers]
        <4>1. version = [main |-> MainVersion(definition),
                         number |-> version.number]
          BY DEF BuildIInv, LoadedShape, UnderWay
        <4>2. QED
          BY <3>3, <3>4, <4>1
      <3>6. registry' \in [Packaged -> [main : Upstream, number : Numbers]
                                       \cup {NoVersion}]
        BY <3>1, <3>5 DEF BuildTypeOK
      <3>7. \A f \in Packaged : registry'[f] # NoVersion =>
                registry'[f].number + 2 <= builds
        <4> SUFFICES ASSUME NEW f \in Packaged, registry'[f] # NoVersion
                     PROVE  registry'[f].number + 2 <= builds
          OBVIOUS
        <4>1. CASE f = request.format
          BY <3>1, <3>4, <4>1 DEF BuildTypeOK
        <4>2. CASE f # request.format
          <5>1. registry'[f] = registry[f]
            BY <3>1, <4>2 DEF BuildTypeOK
          <5>2. QED
            BY <5>1, PublishedBefore
        <4>3. QED
          BY <4>1, <4>2
      <3>8. QED
        BY <1>1, <3>6, <3>7, EndsSeries DEF BuildTypeOK
    <2>3. QED
      BY <2>1, <2>2
  <1>4. CASE BuildFails
    BY <1>1, <1>4, NothingPublished DEF BuildFails
  <1>5. CASE Kill
    <2> USE <1>5 DEF Kill
    <2>1. kills' \in 0..MaxKills
      BY <1>1
    <2>2. /\ \A f \in CacheFiles :
                cache'[f] \in Archives \cup {NoFile, Garbage}
          /\ DOMAIN cache' = CacheFiles
      BY DEF BuildTypeOK
    <2>3. QED
      BY <1>1, <2>1, <2>2, PublishedBefore, EndsSeries DEF BuildTypeOK
  <1>6. QED
    BY <1>2, <1>3, <1>4, <1>5

LEMMA BuildNextSeries ==
  BuildIInv /\ SeriesInv /\ [BuildNext]_buildVars => SeriesInv'
  <1> SUFFICES ASSUME BuildIInv, SeriesInv, [BuildNext]_buildVars
               PROVE  SeriesInv'
    OBVIOUS
  <1>1. CASE BuildNext
    BY <1>1, CollectSeries, StartSeries, PatchesSeries, EnvironmentSeries,
       SourceSeries, PackagesSeries, OverSeries
    DEF BuildNext
  <1>2. CASE UNCHANGED buildVars
    <2> USE <1>2
        DEF buildVars, storageVars, sourceVars, patchVars, packageVars
    <2>1. BuildTypeOK' /\ PatchShape'
      BY DEF SeriesInv, BuildTypeOK, PatchShape, NamesAreUnique
    <2>2. SelectedShape' /\ SeriesShape'
      BY DEF SeriesInv, SelectedShape, Selection, SeriesShape, SourceIsBuilt
    <2>3. NumbersShape' /\ PackagesShape'
      BY DEF SeriesInv, NumbersShape, UnderWay, PackagesShape
    <2>4. QED
      BY <2>1, <2>2, <2>3 DEF SeriesInv
  <1>3. QED
    BY <1>1, <1>2

LEMMA BuildSpecSeries == BuildSpec => []SeriesInv
  BY SeriesInit, BuildNextSeries, BuildSpecIInv, PTL DEF BuildSpec

(***************************************************************************)
(* The variables of a build keep their types: the list of patches that was *)
(* read is never of patches that are not there, and build numbers never    *)
(* exceed the number of builds.                                            *)
(***************************************************************************)
THEOREM BuildTypes == BuildSpec => []BuildTypeOK
  <1>1. SeriesInv => BuildTypeOK
    BY DEF SeriesInv
  <1>2. QED
    BY <1>1, BuildSpecSeries, PTL

(***************************************************************************)
(* The series of every source package is all the patches for its format,   *)
(* in order, whatever the artifact came with and the build generated: the  *)
(* cached list is never one that was read too early                        *)
(* (builds/__init__.py:183-223, 358-400).                                  *)
(***************************************************************************)
THEOREM SeriesIsWhole == BuildSpec => []SeriesIsComplete
  <1>1. SeriesInv => SeriesIsComplete
    <2> SUFFICES ASSUME SeriesInv, SourceIsBuilt PROVE SeriesIsComplete
      BY DEF SeriesIsComplete
    <2>1. /\ step \notin NothingYet \cup Inside
          /\ step \notin {"symlinks", "prescript"}
      BY DEF SourceIsBuilt, NothingYet, Inside
    <2>2. series = InOrder(Selection) /\ Selection \in SUBSET PatchFiles
          /\ NamesAreUnique(Selection)
      BY SelectionTyped DEF SeriesInv, SeriesShape
    <2>3. Range(series) = Selection
      BY <2>2, InOrderSorts
    <2>4. \A i, j \in 1..Len(series) : i < j => Before(series[i], series[j])
      BY <2>2, InOrderSorts
    <2>5. \A p \in {SymlinksPatch, PrescriptPatch} : p \in queue =>
              p \in Selection
      BY GeneratedTyped DEF Selection, SeriesInv, BuildTypeOK
    <2>6. generated \subseteq Selection
      BY <2>1, <2>5 DEF SeriesInv, PatchShape
    <2>7. archives["supp"] # "none" => SymlinksPatch \in Selection
      BY <2>1, <2>5 DEF SeriesInv, PatchShape
    <2>8. seen # NotRead => Selection \ {PrescriptPatch} \subseteq seen
      BY DEF SeriesInv, PatchShape, Selection
    <2>9. QED
      BY <2>3, <2>4, <2>6, <2>7, <2>8 DEF SeriesIsComplete
  <1>2. QED
    BY <1>1, BuildSpecSeries, PTL

-----------------------------------------------------------------------------
(***************************************************************************)
(* The patch queue, for any files, contents and versions, any patches and  *)
(* any number of runs: what is proved is that a run is faithful.           *)
(***************************************************************************)

\* Names of a directory begin with different numbers, and there is a last one.
NumbersApart(entries) ==
    /\ \A p, q \in entries : p.index = q.index => p = q
    /\ \E bound \in Nat : \A p \in entries : p.index < bound

Folders == [Subdirs -> SUBSET PatchEntries]

FolderShape ==
    /\ folder \in Folders /\ before \in Folders
    /\ \A d \in Subdirs : NumbersApart(folder[d]) /\ NumbersApart(before[d])

\* What a run does to the directories before the export.
CleanShape ==
    /\ \A v \in PatchVersions \ {worked} : folder[v] = before[v]
    /\ stage \in {"import", "shell", "clean generic"} => folder = before
    /\ stage = "clean version" => folder = [before EXCEPT !["generic"] = {}]
    /\ stage = "count" => folder["generic"] = {} /\ folder[worked] = {}

RepositoryShape ==
    /\ commits \in Seq(Commits)
    /\ toImport \in Seq(Patches)
    /\ stage # "import" => toImport = <<>>

Exporting == stage = "export" \/ (stage = "over" /\ runs > 0)

\* The commits of a kind up to a position, and that have a difference.
UpTo(generic, i) == {j \in Positions(generic) : j <= i}
Kept(generic) == {i \in Positions(generic) : commits[i].change # NoChange}

\* The patch of a commit, whose number is its place among those of its kind.
PatchFor(generic, i) ==
    [index |-> Cardinality(UpTo(generic, i)), change |-> commits[i].change]

\* What a walk that has come down to a position has exported.
Exported(generic, i) ==
    {PatchFor(generic, j) : j \in {k \in Kept(generic) : i < k}}

Dir(generic) == IF generic THEN "generic" ELSE worked
Kind(generic) == IF generic THEN "generic" ELSE "version"

\* The second walk has exported the commits above a position.
ExportShape ==
    /\ Exporting => \A generic \in BOOLEAN :
           /\ counter[Kind(generic)] = Cardinality(UpTo(generic, exported))
           /\ folder[Dir(generic)] = Exported(generic, exported)
    /\ stage # "export" => exported = 0

\* The patches a run has begun with.
PatchesOf(entries, d) ==
    LET s == Sorted(entries)
    IN  [i \in DOMAIN s |-> [generic |-> d = "generic", change |-> s[i].change]]
GivenIn(d) == PatchesOf(before[d], d)
Given == GivenIn("generic") \o GivenIn(worked)

\* Each patch is a commit or is still to be one, unless the user has his say.
ImportShape ==
    stage \notin {"stopped"} /\ runs > 0 /\ ~touched =>
        /\ Len(commits) + Len(toImport) = Len(Given)
        /\ \A i \in 1..Len(commits) :
              /\ commits[i].generic = Given[i].generic
              /\ commits[i].change \in {Given[i].change, NoChange}
        /\ \A i \in 1..Len(toImport) : toImport[i] = Given[Len(commits) + i]

PatchQueueInv ==
    /\ QueueTypeOK /\ FolderShape /\ CleanShape /\ RepositoryShape
    /\ ExportShape /\ ImportShape

-----------------------------------------------------------------------------
(* Lemmas on the operators.  *)

ByIndex(S) == [p \in S |-> p.index]
ByValue(S) == [n \in S |-> n]

(* The patches of a directory have an order.  *)
LEMMA SortedIsOrder ==
  ASSUME NEW S \in SUBSET PatchEntries, NumbersApart(S)
  PROVE  /\ IsOrder(Sorted(S), S, ByIndex(S)) /\ IsFiniteSet(S)
         /\ ByIndex(S) \in [S -> Nat]
  <1> DEFINE Key == ByIndex(S)
  <1>1. /\ Key \in [S -> Nat]
        /\ \A p \in S : Key[p] = p.index
    BY DEF ByIndex, PatchEntries
  <1> HIDE DEF Key
  <1>2. PICK bound \in Nat : \A p \in S : Key[p] < bound
    BY <1>1 DEF NumbersApart
  <1>3. \A p, q \in S : Key[p] = Key[q] => p = q
    BY <1>1 DEF NumbersApart
  <1>4. PICK n \in Nat : \E s : Enumerates(s, n, S, Key)
    BY <1>1, <1>2, <1>3, OrderExists
  <1>5. PICK t : Enumerates(t, n, S, Key)
    BY <1>4
  <1>6. IsOrder(t, S, Key) /\ IsFiniteSet(S)
    BY <1>1, <1>5, EnumerationIsOrder
  <1>7. \A s \in SetToSeqs(S) : \A i \in 1..Len(s) : s[i] \in S
    BY <1>6, FS_CardinalityType DEF SetToSeqs
  <1>8. \A s \in SetToSeqs(S) :
            (\A i, j \in 1..Len(s) : i < j => Key[s[i]] < Key[s[j]])
            <=> (\A i, j \in 1..Len(s) : i < j => s[i].index < s[j].index)
    BY <1>1, <1>7
  <1>9. /\ Sorted(S) \in SetToSeqs(S)
        /\ \A i, j \in 1..Len(Sorted(S)) :
               i < j => Sorted(S)[i].index < Sorted(S)[j].index
    BY <1>6, <1>8 DEF IsOrder, Sorted
  <1>10. QED
    BY <1>1, <1>6, <1>8, <1>9 DEF IsOrder, Key

(* So have the positions in a history.  *)
LEMMA AscendingIsOrder ==
  ASSUME NEW n \in Nat, NEW S \in SUBSET (1..n)
  PROVE  /\ IsOrder(Ascending(S), S, ByValue(S)) /\ IsFiniteSet(S)
         /\ ByValue(S) \in [S -> Nat]
  <1> DEFINE Key == ByValue(S)
  <1>1. /\ Key \in [S -> Nat]
        /\ \A p \in S : Key[p] = p
    BY DEF ByValue
  <1> HIDE DEF Key
  <1>2. n + 1 \in Nat /\ \A p \in S : Key[p] < n + 1
    BY <1>1
  <1>4. PICK m \in Nat : \E s : Enumerates(s, m, S, Key)
    BY <1>1, <1>2, OrderExists
  <1>5. PICK t : Enumerates(t, m, S, Key)
    BY <1>4
  <1>6. IsOrder(t, S, Key) /\ IsFiniteSet(S)
    BY <1>1, <1>5, EnumerationIsOrder
  <1>7. \A s \in SetToSeqs(S) : \A i \in 1..Len(s) : s[i] \in S
    BY <1>6, FS_CardinalityType DEF SetToSeqs
  <1>8. \A s \in SetToSeqs(S) :
            (\A i, j \in 1..Len(s) : i < j => Key[s[i]] < Key[s[j]])
            <=> (\A i, j \in 1..Len(s) : i < j => s[i] < s[j])
    BY <1>1, <1>7
  <1>9. /\ Ascending(S) \in SetToSeqs(S)
        /\ \A i, j \in 1..Len(Ascending(S)) :
               i < j => Ascending(S)[i] < Ascending(S)[j]
    BY <1>6, <1>8 DEF IsOrder, Ascending
  <1>10. QED
    BY <1>1, <1>6, <1>8, <1>9 DEF IsOrder, Key

(* What an enumeration by place has to be.  *)
LEMMA EnumeratedIsOne ==
  ASSUME NEW S, NEW Key \in [S -> Nat], NEW n \in Nat, NEW s,
         Enumerates(s, n, S, Key), NEW t, IsOrder(t, S, Key)
  PROVE  t = s
  BY EnumerationIsOrder, OneOrder

(* The number of a commit grows with its position.  *)
LEMMA RanksGrow ==
  ASSUME NEW n \in Nat, NEW T \in SUBSET (1..n),
         NEW i \in T, NEW j \in T, i < j
  PROVE  Cardinality({k \in T : k <= i}) < Cardinality({k \in T : k <= j})
  <1> DEFINE A == {k \in T : k <= i}
             B == {k \in T : k <= j}
  <1>1. IsFiniteSet(1..n)
    BY FS_Interval
  <1>2. IsFiniteSet(B)
    BY <1>1, FS_Subset
  <1>3. A \subseteq B /\ A # B
    <2>1. j \in B /\ j \notin A
      OBVIOUS
    <2>2. \A k \in T : k <= i => k <= j
      OBVIOUS
    <2>3. A \subseteq B
      BY <2>2
    <2>4. QED
      BY <2>1, <2>3
  <1> HIDE DEF A, B
  <1>4. IsFiniteSet(A) /\ Cardinality(A) <= Cardinality(B)
        /\ Cardinality(A) # Cardinality(B)
    BY <1>2, <1>3, FS_Subset
  <1>5. Cardinality(A) \in Nat /\ Cardinality(B) \in Nat
    BY <1>2, <1>4, FS_CardinalityType
  <1>6. Cardinality(A) < Cardinality(B)
    BY <1>4, <1>5
  <1>7. QED
    BY <1>6 DEF A, B

LEMMA RanksType ==
  ASSUME NEW n \in Nat, NEW T \in SUBSET (1..n), NEW i \in Int
  PROVE  /\ Cardinality({k \in T : k <= i}) \in Nat
         /\ IsFiniteSet({k \in T : k <= i})
         /\ i \in T => Cardinality({k \in T : k <= i}) # 0
  <1>1. IsFiniteSet({k \in T : k <= i})
    <2> DEFINE A == {k \in T : k <= i}
    <2>1. A \in SUBSET (1..n)
      OBVIOUS
    <2>2. IsFiniteSet(1..n)
      BY FS_Interval
    <2> HIDE DEF A
    <2>3. IsFiniteSet(A)
      BY <2>1, <2>2, FS_Subset
    <2>4. QED
      BY <2>3 DEF A
  <1>2. i \in T => {k \in T : k <= i} # {}
    OBVIOUS
  <1>3. QED
    BY <1>1, <1>2, FS_CardinalityType, FS_EmptySet

(* The next position adds one to the rank when it is in the set.  *)
LEMMA RanksStep ==
  ASSUME NEW n \in Nat, NEW T \in SUBSET (1..n), NEW i \in Nat, i # 0
  PROVE  Cardinality({k \in T : k <= i}) =
         Cardinality({k \in T : k <= i - 1}) + (IF i \in T THEN 1 ELSE 0)
  <1> DEFINE A == {k \in T : k <= i - 1}
             B == {k \in T : k <= i}
  <1>1. IsFiniteSet(A) /\ Cardinality(A) \in Nat
    <2>1. i - 1 \in Int
      OBVIOUS
    <2>2. QED
      BY <2>1, RanksType
  <1>2. CASE i \in T
    <2>1. B = A \cup {i} /\ i \notin A
      <3>1. \A k \in T : k <= i <=> k <= i - 1 \/ k = i
        OBVIOUS
      <3>2. ~(i <= i - 1)
        OBVIOUS
      <3>3. QED
        BY <1>2, <3>1, <3>2
    <2> HIDE DEF A, B
    <2>2. Cardinality(B) = Cardinality(A) + 1
      BY <1>1, <2>1, FS_AddElement
    <2>3. QED
      BY <1>2, <2>2 DEF A, B
  <1>3. CASE i \notin T
    <2>1. \A k \in T : k <= i <=> k <= i - 1
      BY <1>3
    <2>2. B = A
      BY <2>1
    <2> HIDE DEF A, B
    <2>3. Cardinality(B) = Cardinality(A) + 0
      BY <1>1, <2>2
    <2>4. QED
      BY <1>3, <2>3 DEF A, B
  <1>4. QED
    BY <1>2, <1>3

(* What is imported from a directory, and in what order.  *)
LEMMA PatchesTyped ==
  ASSUME NEW S \in SUBSET PatchEntries, NumbersApart(S), NEW d
  PROVE  /\ PatchesOf(S, d) \in Seq(Patches)
         /\ Len(PatchesOf(S, d)) = Len(Sorted(S))
         /\ \A i \in 1..Len(Sorted(S)) :
               PatchesOf(S, d)[i] =
                   [generic |-> d = "generic", change |-> Sorted(S)[i].change]
  <1> DEFINE s == Sorted(S)
  <1>1. Lists(s, S)
    BY SortedIsOrder, OrderLists
  <1>2. Len(s) \in Nat /\ s \in [1..Len(s) -> S]
    BY <1>1 DEF Lists
  <1>3. DOMAIN s = 1..Len(s)
    BY <1>2
  <1>4. \A i \in 1..Len(s) : s[i].change \in Changes
    BY <1>2 DEF PatchEntries
  <1>5. PatchesOf(S, d) =
            [i \in 1..Len(s) |-> [generic |-> d = "generic",
                                  change |-> s[i].change]]
    BY <1>3 DEF PatchesOf
  <1> HIDE DEF s
  <1>6. PatchesOf(S, d) \in [1..Len(s) -> Patches]
    BY <1>4, <1>5 DEF Patches
  <1>7. PatchesOf(S, d) \in Seq(Patches) /\ Len(PatchesOf(S, d)) = Len(s)
    BY <1>2, <1>6, SeqDef
  <1>8. QED
    BY <1>5, <1>7 DEF s

(* So is what a run is given.  *)
LEMMA GivenTyped ==
  ASSUME FolderShape, worked \in PatchVersions
  PROVE  /\ GivenIn("generic") \in Seq(Patches)
         /\ GivenIn(worked) \in Seq(Patches)
         /\ Given \in Seq(Patches)
  <1>1. /\ before["generic"] \in SUBSET PatchEntries
        /\ before[worked] \in SUBSET PatchEntries
        /\ NumbersApart(before["generic"]) /\ NumbersApart(before[worked])
    BY DEF FolderShape, Folders, Subdirs
  <1>2. GivenIn("generic") \in Seq(Patches) /\ GivenIn(worked) \in Seq(Patches)
    BY <1>1, PatchesTyped DEF GivenIn
  <1>3. QED
    BY <1>2, ConcatProperties DEF Given

LEMMA QueueInit == PatchQueueInit => PatchQueueInv
  <1> SUFFICES ASSUME PatchQueueInit PROVE PatchQueueInv
    OBVIOUS
  <1> USE DEF PatchQueueInit
  <1>1. QueueTypeOK
    <2>1. Range(commits) = {} /\ Range(toImport) = {}
      BY DEF Range
    <2>2. tree \in [SourceFiles -> FileContents]
      BY TreeOfAssumption
    <2>3. exported \in 0..Len(commits)
      OBVIOUS
    <2>4. runs \in 0..MaxRuns
      BY PatchBoundsAssumption
    <2>5. counter \in [{"generic", "version"} -> Nat]
      OBVIOUS
    <2>6. \A d \in Subdirs : folder[d] \subseteq PatchEntries
      OBVIOUS
    <2>7. QED
      BY <2>1, <2>2, <2>3, <2>4, <2>5, <2>6 DEF QueueTypeOK
  <1>2. FolderShape
    BY DEF FolderShape, Folders, NumbersApart
  <1>3. CleanShape /\ RepositoryShape
    BY DEF CleanShape, RepositoryShape, PatchVersions, Subdirs
  <1>4. ExportShape /\ ImportShape
    BY DEF ExportShape, Exporting, ImportShape
  <1>5. QED
    BY <1>1, <1>2, <1>3, <1>4 DEF PatchQueueInv

(* A run begins with the patches as they are.  *)
LEMMA RunInv ==
  ASSUME PatchQueueInv, NEW v \in PatchVersions, PatchesRun(v)
  PROVE  PatchQueueInv'
  <1> USE DEF PatchQueueInv
  <1>a. v # "generic" /\ v \in Subdirs /\ "generic" \in Subdirs
    BY TreeOfAssumption DEF Subdirs
  <1>1. FolderShape'
    BY DEF FolderShape, PatchesRun
  <1>2. worked' \in PatchVersions /\ before' = folder
    BY DEF PatchesRun
  <1>3. (GivenIn("generic") \in Seq(Patches) /\ GivenIn(worked) \in Seq(Patches)
         /\ Given \in Seq(Patches))'
    <2>1. /\ before'["generic"] \in SUBSET PatchEntries
          /\ before'[worked'] \in SUBSET PatchEntries
          /\ NumbersApart(before'["generic"]) /\ NumbersApart(before'[worked'])
      BY <1>1, <1>2 DEF FolderShape, Folders, Subdirs
    <2>2. /\ PatchesOf(before'["generic"], "generic") \in Seq(Patches)
          /\ PatchesOf(before'[worked'], worked') \in Seq(Patches)
      BY <2>1, PatchesTyped
    <2>3. QED
      BY <2>2, ConcatProperties DEF Given, GivenIn
  <1>4. toImport' = Given'
    BY <1>a DEF PatchesRun, Queued, InSubdir, Given, GivenIn, PatchesOf
  <1>5. RepositoryShape'
    BY <1>3, <1>4 DEF RepositoryShape, PatchesRun
  <1>6. ImportShape'
    BY <1>3, <1>4 DEF ImportShape, PatchesRun
  <1>7. CleanShape'
    BY DEF CleanShape, PatchesRun
  <1>8. ExportShape'
    BY DEF ExportShape, Exporting, PatchesRun
  <1>9. QueueTypeOK'
    <2>1. (Range(toImport) \subseteq Patches)'
      BY <1>3, <1>4 DEF Range
    <2>2. \A d \in Subdirs : folder'[d] \subseteq PatchEntries
      BY DEF PatchesRun, QueueTypeOK
    <2>3. /\ worked' \in PatchVersions /\ touched' \in BOOLEAN
          /\ tree' \in [SourceFiles -> FileContents]
      BY TreeOfAssumption DEF PatchesRun
    <2>a. Range(commits') = {} /\ exported' \in 0..Len(commits')
      <3>1. commits' = <<>> /\ exported' = 0
        BY DEF PatchesRun
      <3>2. QED
        BY <3>1 DEF Range
    <2>b. counter' \in [{"generic", "version"} -> Nat]
      BY DEF PatchesRun
    <2>4. runs' \in 0..MaxRuns
      <3>1. MaxRuns \in Nat
        BY PatchBoundsAssumption
      <3>2. runs \in 0..MaxRuns
        BY DEF QueueTypeOK
      <3>3. QED
        BY <3>1, <3>2 DEF PatchesRun
    <2>5. stage' = "import"
      BY DEF PatchesRun
    <2>6. QED
      BY <2>1, <2>2, <2>3, <2>a, <2>b, <2>4, <2>5 DEF QueueTypeOK
  <1>10. QED
    BY <1>1, <1>5, <1>6, <1>7, <1>8, <1>9

(* The next patch becomes the next commit.  *)
LEMMA ImportInv ==
  ASSUME PatchQueueInv, ImportPatch
  PROVE  PatchQueueInv'
  <1> USE DEF PatchQueueInv
  <1> DEFINE patch == Head(toImport)
             n == Len(commits)
             commit == [change |-> IF Applies(patch.change, tree)
                                   THEN patch.change ELSE NoChange,
                        generic |-> patch.generic, body |-> TRUE]
  <1>1. /\ toImport \in Seq(Patches) /\ toImport # <<>>
        /\ commits \in Seq(Commits)
    BY DEF RepositoryShape, ImportPatch
  <1>2. /\ patch \in Patches /\ toImport' = Tail(toImport)
        /\ toImport' \in Seq(Patches)
        /\ Len(toImport') = Len(toImport) - 1
        /\ \A i \in 1..Len(toImport') : toImport'[i] = toImport[i + 1]
        /\ patch = toImport[1] /\ Len(toImport) \in Nat \ {0}
    BY <1>1, HeadTailProperties, EmptySeq DEF ImportPatch
  <1>3. /\ patch.change \in Changes /\ patch.generic \in BOOLEAN
    BY <1>2 DEF Patches
  <1>4. commits' = Append(commits, commit)
    BY DEF ImportPatch, ImportedGeneric
  <1>5. commit \in Commits
    BY <1>3 DEF Commits
  <1>c. /\ commit.generic = patch.generic
        /\ commit.change \in {patch.change, NoChange}
    OBVIOUS
  <1> HIDE DEF commit, patch
  <1>6. /\ commits' \in Seq(Commits) /\ Len(commits') = n + 1
        /\ \A i \in 1..n : commits'[i] = commits[i]
        /\ commits'[n + 1] = commit /\ n \in Nat
    BY <1>1, <1>4, <1>5, AppendProperties
  <1> HIDE DEF n
  <1>7. /\ folder' = folder /\ worked' = worked /\ stage' = stage
        /\ counter' = counter /\ exported' = exported /\ before' = before
        /\ touched' = touched /\ runs' = runs /\ stage = "import"
    BY DEF ImportPatch
  <1>8. tree' \in [SourceFiles -> FileContents]
    BY <1>3 DEF ImportPatch, QueueTypeOK, patch, Changes
  <1>9. QueueTypeOK'
    <2>1. (/\ Range(toImport) \subseteq Patches
           /\ Range(commits) \subseteq Commits)'
      BY <1>2, <1>6 DEF Range
    <2>2. exported' \in 0..Len(commits')
      BY <1>6, <1>7 DEF QueueTypeOK, n
    <2>3. QED
      BY <1>7, <1>8, <2>1, <2>2 DEF QueueTypeOK
  <1>10. FolderShape' /\ CleanShape'
    BY <1>7 DEF FolderShape, CleanShape
  <1>11. RepositoryShape'
    BY <1>2, <1>6, <1>7 DEF RepositoryShape
  <1>12. ExportShape'
    BY <1>7 DEF ExportShape, Exporting
  <1>13. ImportShape'
    <2>1. Given' = Given
      BY <1>7 DEF Given, GivenIn
    <2> SUFFICES ASSUME runs > 0, ~touched PROVE ImportShape'
      BY <1>7 DEF ImportShape
    <2>2. /\ n + Len(toImport) = Len(Given)
          /\ \A i \in 1..n :
                 /\ commits[i].generic = Given[i].generic
                 /\ commits[i].change \in {Given[i].change, NoChange}
          /\ \A i \in 1..Len(toImport) : toImport[i] = Given[n + i]
      BY <1>7 DEF ImportShape, n
    <2>3. patch = Given[n + 1]
      BY <1>2, <2>2
    <2>4. Len(commits') + Len(toImport') = Len(Given)
      BY <1>2, <1>6, <2>2
    <2>5. \A i \in 1..Len(commits') :
              /\ commits'[i].generic = Given[i].generic
              /\ commits'[i].change \in {Given[i].change, NoChange}
      <3>1. ASSUME NEW i \in 1..(n + 1), i # n + 1
            PROVE  i \in 1..n
        BY <1>6, <3>1
      <3>2. QED
        BY <1>6, <2>2, <2>3, <1>c, <3>1
    <2>6. ASSUME NEW i \in 1..Len(toImport')
          PROVE  toImport'[i] = Given[Len(commits') + i]
      <3>1. i + 1 \in 1..Len(toImport) /\ n + (i + 1) = Len(commits') + i
        BY <1>2, <1>6
      <3>2. toImport'[i] = toImport[i + 1]
        BY <1>2
      <3>3. toImport[i + 1] = Given[n + (i + 1)]
        BY <2>2, <3>1
      <3>4. QED
        BY <3>1, <3>2, <3>3
    <2>7. QED
      BY <2>1, <2>4, <2>5, <2>6 DEF ImportShape
  <1>14. QED
    BY <1>9, <1>10, <1>11, <1>12, <1>13

(* The user changes the history as he likes, but not the directories.  *)
LEMMA UserInv ==
  ASSUME PatchQueueInv, stage = "shell", touched' = TRUE,
         UNCHANGED <<folder, worked, stage, toImport, counter, exported, before,
                     runs>>,
         tree' \in [SourceFiles -> FileContents], commits' \in Seq(Commits)
  PROVE  PatchQueueInv'
  <1> USE DEF PatchQueueInv
  <1>1. /\ folder' = folder /\ worked' = worked /\ stage' = stage
        /\ counter' = counter /\ exported' = exported /\ before' = before
        /\ touched' = TRUE /\ runs' = runs /\ stage = "shell"
        /\ toImport' = toImport
    OBVIOUS
  <1>2. exported = 0
    BY <1>1 DEF ExportShape
  <1>3. QueueTypeOK'
    <2>1. Range(commits') \subseteq Commits
      BY DEF Range
    <2>2. exported' \in 0..Len(commits')
      BY <1>1, <1>2, LenProperties
    <2>3. QED
      BY <1>1, <2>1, <2>2 DEF QueueTypeOK
  <1>4. FolderShape' /\ CleanShape'
    BY <1>1 DEF FolderShape, CleanShape
  <1>5. RepositoryShape'
    BY <1>1 DEF RepositoryShape
  <1>6. ExportShape' /\ ImportShape'
    BY <1>1, <1>2 DEF ExportShape, ImportShape, Exporting
  <1>7. QED
    BY <1>3, <1>4, <1>5, <1>6

LEMMA CommitInv ==
  ASSUME PatchQueueInv, NEW file \in SourceFiles, NEW content \in FileContents,
         NEW generic \in BOOLEAN, NEW body \in BOOLEAN,
         UserCommits(file, content, generic, body)
  PROVE  PatchQueueInv'
  <1> DEFINE commit ==
          [change |-> [file |-> file, from |-> tree[file], to |-> content],
           generic |-> generic, body |-> body]
  <1>1. /\ tree \in [SourceFiles -> FileContents]
        /\ commits \in Seq(Commits)
    BY DEF PatchQueueInv, QueueTypeOK, RepositoryShape
  <1>2. commit \in Commits
    BY <1>1 DEF Commits, Changes
  <1>3. commits' = Append(commits, commit)
    BY DEF UserCommits
  <1> HIDE DEF commit
  <1>4. commits' \in Seq(Commits)
    BY <1>1, <1>2, <1>3, AppendProperties
  <1>5. tree' = [tree EXCEPT ![file] = content]
    BY DEF UserCommits
  <1>6. tree' \in [SourceFiles -> FileContents]
    BY <1>1, <1>5
  <1>7. QED
    BY <1>4, <1>6, UserInv DEF UserCommits

LEMMA DropInv ==
  ASSUME PatchQueueInv, UserDrops
  PROVE  PatchQueueInv'
  <1> DEFINE change == Last(commits).change
  <1>1. /\ tree \in [SourceFiles -> FileContents]
        /\ commits \in Seq(Commits)
    BY DEF PatchQueueInv, QueueTypeOK, RepositoryShape
  <1>2. commits # <<>> /\ commits' = Front(commits)
    BY DEF UserDrops
  <1>3. Len(commits) \in Nat \ {0}
        /\ \A i \in 1..Len(commits) : commits[i] \in Commits
    BY <1>1, <1>2, EmptySeq, LenProperties, ElementOfSeq
  <1>4. commits' \in Seq(Commits)
    BY <1>2, <1>3, SubSeqProperties DEF Front
  <1>5. Last(commits) \in Commits
    BY <1>3 DEF Last
  <1>6. tree' = IF change = NoChange THEN tree
                ELSE [tree EXCEPT ![change.file] = change.from]
    BY DEF UserDrops
  <1>7. change \in Changes \cup {NoChange}
    BY <1>5 DEF Commits
  <1> HIDE DEF change
  <1>8. change # NoChange => change.from \in FileContents
    BY <1>7 DEF Changes
  <1>9. tree' \in [SourceFiles -> FileContents]
    BY <1>1, <1>6, <1>8
  <1>10. QED
    BY <1>4, <1>9, UserInv DEF UserDrops

(* The shell begins and ends.  *)
LEMMA ShellInv ==
  ASSUME PatchQueueInv, LaunchSubshell \/ UserLeaves
  PROVE  PatchQueueInv'
  <1> USE DEF PatchQueueInv
  <1>1. /\ folder' = folder /\ worked' = worked /\ tree' = tree
        /\ commits' = commits /\ toImport' = toImport /\ counter' = counter
        /\ exported' = exported /\ before' = before /\ touched' = touched
        /\ runs' = runs /\ stage \in {"import", "shell"}
        /\ stage' \in {"shell", "clean generic"}
        /\ toImport = <<>>
    BY DEF LaunchSubshell, UserLeaves, RepositoryShape
  <1>2. QueueTypeOK'
    BY <1>1 DEF QueueTypeOK
  <1>3. FolderShape' /\ CleanShape' /\ RepositoryShape'
    BY <1>1 DEF FolderShape, CleanShape, RepositoryShape
  <1>4. ExportShape'
    BY <1>1 DEF ExportShape, Exporting
  <1>5. Given' = Given
    BY <1>1 DEF Given, GivenIn
  <1>6. ImportShape'
    BY <1>1, <1>5 DEF ImportShape
  <1>7. QED
    BY <1>2, <1>3, <1>4, <1>6

(* The directories of the run are emptied.  *)
LEMMA CleanInv ==
  ASSUME PatchQueueInv, CleanGeneric \/ CleanVersion
  PROVE  PatchQueueInv'
  <1> USE DEF PatchQueueInv
  <1>1. /\ worked' = worked /\ tree' = tree
        /\ commits' = commits /\ toImport' = toImport /\ counter' = counter
        /\ exported' = exported /\ before' = before /\ touched' = touched
        /\ runs' = runs
    BY DEF CleanGeneric, CleanVersion
  <1>a. /\ worked # "generic" /\ worked \in Subdirs /\ "generic" \in Subdirs
        /\ \A v \in PatchVersions : v \in Subdirs /\ v # "generic"
    BY TreeOfAssumption DEF Subdirs, QueueTypeOK
  <1>b. folder \in Folders /\ before \in Folders
    BY DEF FolderShape
  <1>2. \/ /\ stage = "clean generic" /\ stage' = "clean version"
           /\ folder' = [folder EXCEPT !["generic"] = {}]
        \/ /\ stage = "clean version" /\ stage' = "count"
           /\ folder' = [folder EXCEPT ![worked] = {}]
    BY DEF CleanGeneric, CleanVersion
  <1>3. \A d \in Subdirs : folder'[d] = folder[d] \/ folder'[d] = {}
    BY <1>a, <1>b, <1>2 DEF Folders
  <1>4. FolderShape'
    <2>1. folder' \in Folders
      BY <1>a, <1>b, <1>2 DEF Folders
    <2>2. NumbersApart({})
      BY DEF NumbersApart
    <2>3. QED
      BY <1>1, <1>3, <2>1, <2>2 DEF FolderShape
  <1>5. QueueTypeOK'
    <2>1. \A d \in Subdirs : folder'[d] \subseteq PatchEntries
      BY <1>3 DEF QueueTypeOK
    <2>2. QED
      BY <1>1, <1>2, <2>1 DEF QueueTypeOK
  <1>6. CleanShape'
    <2>1. \A v \in PatchVersions \ {worked} : folder'[v] = before[v]
      BY <1>a, <1>b, <1>2 DEF CleanShape, Folders
    <2>2. CASE stage = "clean generic"
      BY <1>1, <1>2, <2>1, <2>2 DEF CleanShape
    <2>3. CASE stage = "clean version"
      <3>1. folder = [before EXCEPT !["generic"] = {}]
        BY <2>3 DEF CleanShape
      <3>2. folder'["generic"] = {} /\ folder'[worked] = {}
        BY <1>2, <1>a, <1>b, <2>3, <3>1 DEF Folders
      <3>3. QED
        BY <1>1, <1>2, <2>1, <2>3, <3>2 DEF CleanShape
    <2>4. QED
      BY <1>2, <2>2, <2>3
  <1>7. RepositoryShape' /\ ExportShape'
    BY <1>1, <1>2 DEF RepositoryShape, ExportShape, Exporting
  <1>8. Given' = Given
    BY <1>1 DEF Given, GivenIn
  <1>9. ImportShape'
    BY <1>1, <1>2, <1>8 DEF ImportShape
  <1>10. QED
    BY <1>4, <1>5, <1>6, <1>7, <1>9

(* Whoever ends the client leaves the directories as they are.  *)
LEMMA StopsInv ==
  ASSUME PatchQueueInv, Stops,
         UNCHANGED <<folder, worked, before, touched, runs>>
  PROVE  PatchQueueInv'
  <1> USE DEF PatchQueueInv
  <1>1. /\ stage' = "stopped" /\ tree' = TreeOf[worked] /\ commits' = <<>>
        /\ toImport' = <<>> /\ exported' = 0
        /\ counter' = [k \in {"generic", "version"} |-> 0]
        /\ folder' = folder /\ worked' = worked /\ before' = before
        /\ touched' = touched /\ runs' = runs
    BY DEF Stops
  <1>2. QueueTypeOK'
    <2>1. Range(commits') = {} /\ Range(toImport') = {}
      BY <1>1 DEF Range
    <2>2. tree' \in [SourceFiles -> FileContents]
      BY <1>1, TreeOfAssumption DEF QueueTypeOK
    <2>5. exported' \in 0..Len(commits')
      BY <1>1
    <2>3. counter' \in [{"generic", "version"} -> Nat]
      BY <1>1
    <2>4. QED
      BY <1>1, <2>1, <2>2, <2>3, <2>5 DEF QueueTypeOK
  <1>3. FolderShape' /\ CleanShape'
    BY <1>1 DEF FolderShape, CleanShape
  <1>6. RepositoryShape'
    BY <1>1 DEF RepositoryShape
  <1>4. ExportShape' /\ ImportShape'
    BY <1>1 DEF ExportShape, Exporting, ImportShape
  <1>5. QED
    BY <1>2, <1>3, <1>4, <1>6

(* The run ends.  *)
LEMMA EndInv ==
  ASSUME PatchQueueInv, PatchesEnd
  PROVE  PatchQueueInv'
  <1> USE DEF PatchQueueInv
  <1>1. /\ folder' = folder /\ worked' = worked /\ tree' = tree
        /\ commits' = commits /\ toImport' = toImport /\ counter' = counter
        /\ exported' = exported /\ before' = before /\ touched' = touched
        /\ runs' = runs /\ stage = "export" /\ stage' = "over" /\ exported = 0
    BY DEF PatchesEnd
  <1>2. QueueTypeOK'
    BY <1>1 DEF QueueTypeOK
  <1>3. FolderShape' /\ CleanShape' /\ RepositoryShape'
    BY <1>1 DEF FolderShape, CleanShape, RepositoryShape
  <1>4. \A generic :
            /\ UpTo(generic, exported)' = UpTo(generic, exported)
            /\ Exported(generic, exported)' = Exported(generic, exported)
            /\ Dir(generic)' = Dir(generic)
    BY <1>1 DEF UpTo, Exported, Dir, Positions, Kept, PatchFor
  <1>5. ExportShape'
    BY <1>1, <1>4 DEF ExportShape, Exporting
  <1>6. Given' = Given
    BY <1>1 DEF Given, GivenIn
  <1>7. ImportShape'
    BY <1>1, <1>6 DEF ImportShape
  <1>8. QED
    BY <1>2, <1>3, <1>5, <1>7

(* The commits of a kind are positions of the history.  *)
LEMMA PositionsTyped ==
  ASSUME commits \in Seq(Commits), NEW generic \in BOOLEAN
  PROVE  /\ Len(commits) \in Nat
         /\ Positions(generic) \in SUBSET (1..Len(commits))
         /\ Kept(generic) \subseteq Positions(generic)
         /\ \A i \in 1..Len(commits) : commits[i] \in Commits
         /\ \A i \in Kept(generic) : commits[i].change \in Changes
  <1>1. /\ Len(commits) \in Nat /\ DOMAIN commits = 1..Len(commits)
        /\ \A i \in 1..Len(commits) : commits[i] \in Commits
    BY LenProperties, ElementOfSeq
  <1>2. /\ Positions(generic) \in SUBSET (1..Len(commits))
        /\ Kept(generic) \subseteq Positions(generic)
    BY <1>1 DEF Positions, Kept
  <1>3. ASSUME NEW i \in Kept(generic) PROVE commits[i].change \in Changes
    <2>1. commits[i] \in Commits /\ commits[i].change # NoChange
      BY <1>1, <1>2 DEF Kept
    <2>2. QED
      BY <2>1 DEF Commits
  <1>4. QED
    BY <1>1, <1>2, <1>3

(* Patches that the walk exports have numbers of their own.  *)
LEMMA ExportedNumbered ==
  ASSUME commits \in Seq(Commits), NEW generic \in BOOLEAN, NEW n \in Int
  PROVE  /\ Exported(generic, n) \in SUBSET PatchEntries
         /\ NumbersApart(Exported(generic, n))
  <1> DEFINE T == Positions(generic)
             NumberAt(i) == Cardinality({j \in T : j <= i})
  <1>1. /\ Len(commits) \in Nat /\ T \in SUBSET (1..Len(commits))
        /\ Kept(generic) \subseteq T
        /\ \A i \in Kept(generic) : commits[i].change \in Changes
    BY PositionsTyped
  <1>2. \A i : PatchFor(generic, i) =
                   [index |-> NumberAt(i), change |-> commits[i].change]
    BY DEF PatchFor, UpTo
  <1> HIDE DEF T
  <1>3. \A i \in T : NumberAt(i) \in Nat \ {0}
    <2>1. \A i \in T : i \in Int
      BY <1>1
    <2>2. QED
      BY <1>1, <2>1, RanksType
  <1>4. \A i, j \in T : i < j => NumberAt(i) < NumberAt(j)
    BY <1>1, RanksGrow
  <1>5. IsFiniteSet(T) /\ Cardinality(T) \in Nat
    <2>1. IsFiniteSet(1..Len(commits))
      BY <1>1, FS_Interval
    <2>2. QED
      BY <1>1, <2>1, FS_Subset, FS_CardinalityType
  <1>6. \A i \in T : NumberAt(i) < Cardinality(T) + 1
    <2>1. ASSUME NEW i \in T PROVE NumberAt(i) < Cardinality(T) + 1
      <3> DEFINE A == {j \in T : j <= i}
      <3>1. A \in SUBSET T
        OBVIOUS
      <3> HIDE DEF A
      <3>2. Cardinality(A) <= Cardinality(T) /\ Cardinality(A) \in Nat
        BY <1>5, <3>1, FS_Subset, FS_CardinalityType
      <3>3. NumberAt(i) = Cardinality(A)
        BY DEF A
      <3> HIDE DEF NumberAt
      <3>4. QED
        BY <1>5, <3>2, <3>3
    <2>2. QED
      BY <2>1
  <1> HIDE DEF NumberAt
  <1> DEFINE K == {k \in Kept(generic) : n < k}
             E == Exported(generic, n)
  <1>7. /\ E = {PatchFor(generic, i) : i \in K}
        /\ K \subseteq T /\ K \subseteq Kept(generic)
    BY <1>1 DEF Exported
  <1> HIDE DEF K, E
  <1>8. \A p \in E : \E i \in K : /\ p.index = NumberAt(i)
                                  /\ p = PatchFor(generic, i)
    BY <1>2, <1>7
  <1>9. E \in SUBSET PatchEntries
    <2>1. ASSUME NEW p \in E PROVE p \in PatchEntries
      <3>1. PICK i \in K : p = PatchFor(generic, i)
        BY <1>8
      <3>2. NumberAt(i) \in Nat \ {0} /\ commits[i].change \in Changes
        BY <1>1, <1>3, <1>7
      <3>3. QED
        BY <1>2, <3>1, <3>2 DEF PatchEntries
    <2>2. QED
      BY <2>1
  <1>10. \A p, q \in E : p.index = q.index => p = q
    <2>1. ASSUME NEW p \in E, NEW q \in E, p.index = q.index PROVE p = q
      <3>1. PICK i \in K : p.index = NumberAt(i) /\ p = PatchFor(generic, i)
        BY <1>8
      <3>2. PICK j \in K : q.index = NumberAt(j) /\ q = PatchFor(generic, j)
        BY <1>8
      <3>a. i \in T /\ j \in T /\ i \in Int /\ j \in Int
        BY <1>1, <1>7
      <3>3. /\ i \in T /\ j \in T /\ i \in Int /\ j \in Int
            /\ NumberAt(i) \in Nat /\ NumberAt(j) \in Nat
            /\ NumberAt(i) = NumberAt(j)
        BY <1>3, <2>1, <3>a, <3>1, <3>2
      <3>4. ~(i < j) /\ ~(j < i)
        BY <1>4, <3>3
      <3>5. i = j
        BY <3>3, <3>4
      <3>6. QED
        BY <3>1, <3>2, <3>5
    <2>2. QED
      BY <2>1
  <1>11. \A p \in E : p.index < Cardinality(T) + 1
    BY <1>6, <1>7, <1>8
  <1>12. Cardinality(T) + 1 \in Nat
    BY <1>5
  <1>13. NumbersApart(E)
    BY <1>10, <1>11, <1>12 DEF NumbersApart
  <1>14. QED
    BY <1>9, <1>13 DEF E

(* The first walk counts, or ends the run.  *)
LEMMA CountInv ==
  ASSUME PatchQueueInv, CountCommits
  PROVE  PatchQueueInv'
  <1>1. CASE \A i \in DOMAIN commits : commits[i].body
    <2> USE DEF PatchQueueInv
    <2>1. /\ folder' = folder /\ worked' = worked /\ tree' = tree
          /\ commits' = commits /\ toImport' = toImport
          /\ counter' = [k \in {"generic", "version"} |->
                             Cardinality(Positions(k = "generic"))]
          /\ exported' = Len(commits) /\ before' = before
          /\ touched' = touched /\ runs' = runs
          /\ stage = "count" /\ stage' = "export"
      BY <1>1 DEF CountCommits
    <2>2. commits \in Seq(Commits)
      BY DEF RepositoryShape
    <2>3. \A generic \in BOOLEAN :
              /\ Positions(generic) \in SUBSET (1..Len(commits))
              /\ Kept(generic) \subseteq Positions(generic)
              /\ Len(commits) \in Nat
      BY <2>2, PositionsTyped
    <2>4. \A generic \in BOOLEAN :
              /\ UpTo(generic, Len(commits)) = Positions(generic)
              /\ Cardinality(Positions(generic)) \in Nat
              /\ Exported(generic, Len(commits)) = {}
      <3> SUFFICES ASSUME NEW generic \in BOOLEAN
                   PROVE  /\ UpTo(generic, Len(commits)) = Positions(generic)
                          /\ Cardinality(Positions(generic)) \in Nat
                          /\ Exported(generic, Len(commits)) = {}
        OBVIOUS
      <3>1. UpTo(generic, Len(commits)) = Positions(generic)
        BY <2>3 DEF UpTo
      <3>2. Cardinality(Positions(generic)) \in Nat
        <4>1. IsFiniteSet(1..Len(commits))
          BY <2>3, FS_Interval
        <4>2. QED
          BY <2>3, <4>1, FS_Subset, FS_CardinalityType
      <3>3. \A k \in Kept(generic) : ~(Len(commits) < k)
        BY <2>3
      <3>4. Exported(generic, Len(commits)) = {}
        BY <3>3 DEF Exported
      <3>5. QED
        BY <3>1, <3>2, <3>4
    <2>5. QueueTypeOK'
      <3>1. counter' \in [{"generic", "version"} -> Nat]
        BY <2>1, <2>4
      <3>2. exported' \in 0..Len(commits')
        BY <2>1, <2>3
      <3>3. QED
        BY <2>1, <3>1, <3>2 DEF QueueTypeOK
    <2>6. FolderShape' /\ CleanShape' /\ RepositoryShape'
      BY <2>1 DEF FolderShape, CleanShape, RepositoryShape
    <2>7. \A generic, i : /\ UpTo(generic, i)' = UpTo(generic, i)
                          /\ Exported(generic, i)' = Exported(generic, i)
                          /\ Dir(generic)' = Dir(generic)
      BY <2>1 DEF UpTo, Exported, Dir, Positions, Kept, PatchFor
    <2>8. folder["generic"] = {} /\ folder[worked] = {}
      BY <2>1 DEF CleanShape
    <2>9. \A generic \in BOOLEAN :
              /\ counter'[Kind(generic)] = Cardinality(Positions(generic))
              /\ folder'[Dir(generic)] = {}
      <3>1. ASSUME NEW generic \in BOOLEAN
            PROVE  counter'[Kind(generic)] = Cardinality(Positions(generic))
        <4>1. /\ Kind(generic) \in {"generic", "version"}
              /\ (Kind(generic) = "generic") = generic
          BY DEF Kind
        <4>2. QED
          BY <2>1, <4>1
      <3>2. QED
        BY <2>1, <2>8, <3>1 DEF Dir
    <2>10. ExportShape'
      <3>1. stage' = "export"
        BY <2>1
      <3>2. \A generic \in BOOLEAN :
                /\ counter'[Kind(generic)] =
                       Cardinality(UpTo(generic, exported)')
                /\ folder'[Dir(generic)'] = Exported(generic, exported)'
        BY <2>1, <2>4, <2>7, <2>9
      <3>3. QED
        BY <3>1, <3>2 DEF ExportShape
    <2>11. Given' = Given
      BY <2>1 DEF Given, GivenIn
    <2>12. ImportShape'
      BY <2>1, <2>11 DEF ImportShape
    <2>13. QED
      BY <2>5, <2>6, <2>10, <2>12
  <1>2. CASE ~\A i \in DOMAIN commits : commits[i].body
    BY <1>2, StopsInv DEF CountCommits
  <1>3. QED
    BY <1>1, <1>2

(* The walk exports the commit it visits under its number, and no other.  *)
LEMMA ExportStep ==
  ASSUME commits \in Seq(Commits), NEW e \in 1..Len(commits),
         NEW generic \in BOOLEAN
  PROVE  /\ Cardinality(UpTo(generic, e)) \in Nat
         /\ Cardinality(UpTo(generic, e - 1)) \in Nat
         /\ Cardinality(UpTo(generic, e)) = Cardinality(UpTo(generic, e - 1))
                + (IF commits[e].generic = generic THEN 1 ELSE 0)
         /\ Exported(generic, e - 1) = Exported(generic, e) \cup
                (IF /\ commits[e].generic = generic
                    /\ commits[e].change # NoChange
                 THEN {PatchFor(generic, e)} ELSE {})
  <1> DEFINE T == Positions(generic)
             n == Len(commits)
  <1>1. /\ n \in Nat /\ T \in SUBSET (1..n) /\ Kept(generic) \subseteq T
    BY PositionsTyped
  <1>2. e \in Nat /\ e # 0 /\ e \in Int /\ e - 1 \in Int
    BY <1>1
  <1>3. e \in T <=> commits[e].generic = generic
    <2>1. DOMAIN commits = 1..Len(commits)
      BY LenProperties
    <2>2. QED
      BY <2>1 DEF Positions
  <1>4. e \in Kept(generic) <=> /\ commits[e].generic = generic
                                /\ commits[e].change # NoChange
    BY <1>3 DEF Kept
  <1>5. \A i : UpTo(generic, i) = {k \in T : k <= i}
    BY DEF UpTo
  <1> HIDE DEF T, n
  <1>6. /\ Cardinality(UpTo(generic, e)) \in Nat
        /\ Cardinality(UpTo(generic, e - 1)) \in Nat
    BY <1>1, <1>2, <1>5, RanksType
  <1>7. Cardinality(UpTo(generic, e)) = Cardinality(UpTo(generic, e - 1))
            + (IF commits[e].generic = generic THEN 1 ELSE 0)
    <2>1. Cardinality({k \in T : k <= e}) =
              Cardinality({k \in T : k <= e - 1}) + (IF e \in T THEN 1 ELSE 0)
      BY <1>1, <1>2, RanksStep
    <2>2. /\ UpTo(generic, e) = {k \in T : k <= e}
          /\ UpTo(generic, e - 1) = {k \in T : k <= e - 1}
      BY <1>5
    <2>3. (IF e \in T THEN 1 ELSE 0) =
              (IF commits[e].generic = generic THEN 1 ELSE 0)
      BY <1>3
    <2>4. QED
      BY <2>1, <2>2, <2>3
  <1>8. \A k \in Kept(generic) : e - 1 < k <=> e < k \/ k = e
    <2>1. ASSUME NEW k \in Kept(generic) PROVE k \in Int
      <3>1. k \in 1..n
        BY <1>1
      <3>2. QED
        BY <1>1, <3>1
    <2>2. QED
      BY <1>2, <2>1
  <1>9. {k \in Kept(generic) : e - 1 < k} = {k \in Kept(generic) : e < k}
            \cup (IF e \in Kept(generic) THEN {e} ELSE {})
    BY <1>8
  <1>10. Exported(generic, e - 1) = Exported(generic, e) \cup
             (IF e \in Kept(generic) THEN {PatchFor(generic, e)} ELSE {})
    BY <1>9 DEF Exported
  <1>11. QED
    BY <1>4, <1>6, <1>7, <1>10

LEMMA ExportInv ==
  ASSUME PatchQueueInv, ExportCommit
  PROVE  PatchQueueInv'
  <1> USE DEF PatchQueueInv
  <1> DEFINE e == exported
             g == commits[e].generic
  <1>1. /\ worked' = worked /\ tree' = tree /\ stage' = stage
        /\ commits' = commits /\ toImport' = toImport
        /\ exported' = e - 1 /\ before' = before
        /\ touched' = touched /\ runs' = runs /\ stage = "export"
    BY DEF ExportCommit
  <1>2. commits \in Seq(Commits) /\ Len(commits) \in Nat
    BY LenProperties DEF RepositoryShape
  <1>3. e \in 1..Len(commits) /\ e \in Nat \ {0}
    BY <1>2 DEF ExportCommit, QueueTypeOK
  <1>4. commits[e] \in Commits
    BY <1>2, <1>3, ElementOfSeq
  <1>5. g \in BOOLEAN
    BY <1>4 DEF Commits
  <1>6. /\ worked # "generic" /\ worked \in Subdirs /\ "generic" \in Subdirs
        /\ \A v \in PatchVersions : v \in Subdirs /\ v # "generic"
    BY TreeOfAssumption DEF Subdirs, QueueTypeOK
  <1>7. \A h \in BOOLEAN :
            /\ counter[Kind(h)] = Cardinality(UpTo(h, e))
            /\ folder[Dir(h)] = Exported(h, e)
    BY <1>1 DEF ExportShape, Exporting
  <1>8. /\ NumberOf(commits[e]) = counter[Kind(g)]
        /\ counter' = [counter EXCEPT ![Kind(g)] = @ - 1]
        /\ folder' = IF commits[e].change = NoChange THEN folder
                     ELSE [folder EXCEPT ![Dir(g)] = @ \cup
                              {[index |-> NumberOf(commits[e]),
                                change |-> commits[e].change]}]
    BY DEF ExportCommit, NumberOf, Kind, Dir
  <1>9. [index |-> NumberOf(commits[e]), change |-> commits[e].change]
            = PatchFor(g, e)
    BY <1>5, <1>7, <1>8 DEF PatchFor
  <1> HIDE DEF g, e
  <1>10. /\ folder \in Folders /\ before \in Folders
         /\ counter \in [{"generic", "version"} -> Nat]
    BY DEF FolderShape, QueueTypeOK
  <1>11. \A h \in BOOLEAN : /\ Dir(h) \in Subdirs
                            /\ Kind(h) \in {"generic", "version"}
                            /\ h # g => Dir(h) # Dir(g) /\ Kind(h) # Kind(g)
    BY <1>5, <1>6 DEF Dir, Kind
  <1>12. \A h \in BOOLEAN :
            /\ counter'[Kind(h)] = Cardinality(UpTo(h, e - 1))
            /\ folder'[Dir(h)] = Exported(h, e - 1)
    <2> SUFFICES ASSUME NEW h \in BOOLEAN
                 PROVE  /\ counter'[Kind(h)] = Cardinality(UpTo(h, e - 1))
                        /\ folder'[Dir(h)] = Exported(h, e - 1)
      OBVIOUS
    <2>1. /\ Cardinality(UpTo(h, e)) \in Nat
          /\ Cardinality(UpTo(h, e - 1)) \in Nat
          /\ Cardinality(UpTo(h, e)) = Cardinality(UpTo(h, e - 1))
                 + (IF g = h THEN 1 ELSE 0)
          /\ Exported(h, e - 1) = Exported(h, e) \cup
                 (IF g = h /\ commits[e].change # NoChange
                  THEN {PatchFor(h, e)} ELSE {})
      BY <1>2, <1>3, ExportStep DEF g
    <2>2. CASE h = g
      <3>1. counter'[Kind(h)] = counter[Kind(h)] - 1
        BY <1>8, <1>10, <1>11, <2>2
      <3>2. folder'[Dir(h)] = Exported(h, e - 1)
        BY <1>7, <1>8, <1>9, <1>10, <1>11, <2>1, <2>2 DEF Folders
      <3>3. QED
        BY <1>7, <2>1, <2>2, <3>1, <3>2
    <2>3. CASE h # g
      <3>1. counter'[Kind(h)] = counter[Kind(h)]
        BY <1>5, <1>8, <1>10, <1>11, <2>3
      <3>2. folder'[Dir(h)] = folder[Dir(h)]
        BY <1>5, <1>8, <1>10, <1>11, <2>3 DEF Folders
      <3>3. QED
        BY <1>7, <2>1, <2>3, <3>1, <3>2
    <2>4. QED
      BY <2>2, <2>3
  <1>13. \A h, i : /\ UpTo(h, i)' = UpTo(h, i)
                   /\ Exported(h, i)' = Exported(h, i)
                   /\ Dir(h)' = Dir(h)
    BY <1>1 DEF UpTo, Exported, Dir, Positions, Kept, PatchFor
  <1>14. ExportShape'
    <2>1. \A h \in BOOLEAN :
              /\ counter'[Kind(h)] = Cardinality(UpTo(h, exported)')
              /\ folder'[Dir(h)'] = Exported(h, exported)'
      BY <1>1, <1>12, <1>13
    <2>2. QED
      BY <1>1, <2>1 DEF ExportShape
  <1>15. \A d \in Subdirs : d # Dir(TRUE) /\ d # Dir(FALSE) =>
             folder'[d] = folder[d]
    BY <1>5, <1>8, <1>10, <1>11 DEF Folders
  <1>16. \A h \in BOOLEAN : /\ folder'[Dir(h)] \in SUBSET PatchEntries
                            /\ NumbersApart(folder'[Dir(h)])
    <2>1. e - 1 \in Int
      BY <1>3
    <2>2. QED
      BY <1>2, <1>12, <2>1, ExportedNumbered
  <1>17. \A d \in Subdirs : /\ folder'[d] \in SUBSET PatchEntries
                            /\ NumbersApart(folder'[d])
    BY <1>10, <1>15, <1>16 DEF FolderShape, Folders
  <1>18. DOMAIN folder' = Subdirs /\ folder' = [d \in Subdirs |-> folder'[d]]
    BY <1>8, <1>10 DEF Folders
  <1>19. FolderShape'
    <2>1. folder' \in Folders
      BY <1>17, <1>18 DEF Folders
    <2>2. QED
      BY <1>1, <1>17, <2>1 DEF FolderShape
  <1>20. counter' \in [{"generic", "version"} -> Nat]
    <2>1. ASSUME NEW k \in {"generic", "version"} PROVE counter'[k] \in Nat
      <3>1. PICK h \in BOOLEAN : k = Kind(h)
        BY DEF Kind
      <3>2. Cardinality(UpTo(h, e - 1)) \in Nat
        BY <1>2, <1>3, ExportStep
      <3>3. QED
        BY <1>12, <3>1, <3>2
    <2>2. counter' = [k \in {"generic", "version"} |-> counter'[k]]
      BY <1>8, <1>10
    <2>3. QED
      BY <2>1, <2>2
  <1>21. QueueTypeOK'
    <2>1. exported' \in 0..Len(commits')
      BY <1>1, <1>2, <1>3
    <2>2. QED
      BY <1>1, <1>17, <1>20, <2>1 DEF QueueTypeOK
  <1>22. CleanShape'
    <2>1. \A v \in PatchVersions \ {worked} : folder'[v] = folder[v]
      BY <1>6, <1>15 DEF Dir
    <2>2. QED
      BY <1>1, <2>1 DEF CleanShape
  <1>23. RepositoryShape'
    BY <1>1 DEF RepositoryShape
  <1>24. Given' = Given
    BY <1>1 DEF Given, GivenIn
  <1>25. ImportShape'
    BY <1>1, <1>24 DEF ImportShape
  <1>26. QED
    BY <1>14, <1>19, <1>21, <1>22, <1>23, <1>25

THEOREM PatchQueueInvariant == PatchQueueSpec => []PatchQueueInv
  <1>1. ASSUME PatchQueueInv, [PatchQueueNext]_queueVars
        PROVE  PatchQueueInv'
    <2>1. CASE \E v \in PatchVersions : PatchesRun(v)
      BY <1>1, <2>1, RunInv
    <2>2. CASE ImportPatch
      BY <1>1, <2>2, ImportInv
    <2>3. CASE LaunchSubshell \/ UserLeaves
      BY <1>1, <2>3, ShellInv
    <2>4. CASE \E file \in SourceFiles, content \in FileContents,
                  generic \in BOOLEAN, body \in BOOLEAN :
                  UserCommits(file, content, generic, body)
      BY <1>1, <2>4, CommitInv
    <2>5. CASE UserDrops
      BY <1>1, <2>5, DropInv
    <2>6. CASE CleanGeneric \/ CleanVersion
      BY <1>1, <2>6, CleanInv
    <2>7. CASE CountCommits
      BY <1>1, <2>7, CountInv
    <2>8. CASE ExportCommit
      BY <1>1, <2>8, ExportInv
    <2>9. CASE PatchesEnd
      BY <1>1, <2>9, EndInv
    <2>10. CASE ClientStops
      BY <1>1, <2>10, StopsInv DEF ClientStops
    <2>11. CASE UNCHANGED queueVars
      <3>1. /\ folder' = folder /\ worked' = worked /\ tree' = tree
            /\ commits' = commits /\ stage' = stage /\ toImport' = toImport
            /\ counter' = counter /\ exported' = exported
            /\ before' = before /\ touched' = touched /\ runs' = runs
        BY <2>11 DEF queueVars
      <3>2. (QueueTypeOK /\ FolderShape /\ CleanShape /\ RepositoryShape)'
        BY <1>1, <3>1 DEF PatchQueueInv, QueueTypeOK, FolderShape, CleanShape,
                          RepositoryShape
      <3>a. \A generic :
                /\ UpTo(generic, exported)' = UpTo(generic, exported)
                /\ Exported(generic, exported)' = Exported(generic, exported)
                /\ Dir(generic)' = Dir(generic)
        BY <3>1 DEF UpTo, Exported, Dir, Positions, Kept, PatchFor
      <3>3. ExportShape'
        BY <1>1, <3>1, <3>a DEF PatchQueueInv, ExportShape, Exporting
      <3>4. ImportShape'
        BY <1>1, <3>1 DEF PatchQueueInv, ImportShape, Given, GivenIn
      <3>5. QED
        BY <3>2, <3>3, <3>4 DEF PatchQueueInv
    <2>12. QED
      BY <1>1, <2>1, <2>2, <2>3, <2>4, <2>5, <2>6, <2>7, <2>8, <2>9, <2>10,
         <2>11 DEF PatchQueueNext
  <1>2. QED
    BY <1>1, QueueInit, PTL DEF PatchQueueSpec

(* The patches of a directory of the run are the commits of its kind, in     *)
(* the order of the history.                                               *)
LEMMA ExportedInOrder ==
  ASSUME PatchQueueInv, stage = "over", runs > 0, NEW generic \in BOOLEAN
  PROVE  /\ ChangesIn(Dir(generic)) = ChangesOf(generic)
         /\ Len(Sorted(folder[Dir(generic)])) = Len(Ascending(Kept(generic)))
  <1> DEFINE n == Len(commits)
             K == Kept(generic)
             F == folder[Dir(generic)]
             t == Ascending(K)
             NumberAt(i) == Cardinality(UpTo(generic, i))
             s == [k \in 1..Len(t) |-> PatchFor(generic, t[k])]
  <1>1. /\ n \in Nat /\ K \in SUBSET (1..n) /\ K \subseteq Positions(generic)
        /\ commits \in Seq(Commits) /\ Positions(generic) \in SUBSET (1..n)
        /\ \A i \in K : i \in Int /\ 0 < i
    <2>1. commits \in Seq(Commits)
      BY DEF PatchQueueInv, RepositoryShape
    <2>2. n \in Nat /\ K \subseteq Positions(generic)
          /\ Positions(generic) \in SUBSET (1..n)
      BY <2>1, PositionsTyped
    <2>3. QED
      BY <2>1, <2>2
  <1>2. F = {PatchFor(generic, i) : i \in K}
    <2>1. F = Exported(generic, 0)
      BY DEF PatchQueueInv, ExportShape, Exporting
    <2>2. {k \in K : 0 < k} = K
      BY <1>1
    <2>3. QED
      BY <2>1, <2>2 DEF Exported
  <1>3. F \in SUBSET PatchEntries /\ NumbersApart(F)
    <2>1. Dir(generic) \in Subdirs
      BY DEF PatchQueueInv, QueueTypeOK, Dir, Subdirs
    <2>2. QED
      BY <2>1 DEF PatchQueueInv, FolderShape, Folders
  <1>4. Lists(t, K) /\ \A i, j \in 1..Len(t) : i < j => t[i] < t[j]
    <2> HIDE DEF K, n
    <2>1. IsOrder(t, K, ByValue(K)) /\ IsFiniteSet(K)
      BY <1>1, AscendingIsOrder
    <2>2. Lists(t, K)
      BY <2>1, OrderLists
    <2>3. \A i \in 1..Len(t) : t[i] \in K
      BY <2>2 DEF Lists
    <2>4. QED
      BY <2>1, <2>2, <2>3 DEF IsOrder, ByValue
  <1>5. /\ Len(t) \in Nat /\ DOMAIN t = 1..Len(t)
        /\ \A k \in 1..Len(t) : t[k] \in K
        /\ \A i \in K : \E k \in 1..Len(t) : t[k] = i
    BY <1>4 DEF Lists
  <1> HIDE DEF t
  <1>6. /\ \A k \in 1..Len(t) : s[k] = PatchFor(generic, t[k]) /\ s[k] \in F
        /\ s \in [1..Len(t) -> F]
    BY <1>2, <1>5
  <1>7. \A p \in F : \E k \in 1..Len(t) : s[k] = p
    BY <1>2, <1>5
  <1>8. \A i, j \in K : i < j => NumberAt(i) < NumberAt(j)
    <2> HIDE DEF n, K
    <2>1. \A i, j \in Positions(generic) : i < j =>
              Cardinality({k \in Positions(generic) : k <= i})
              < Cardinality({k \in Positions(generic) : k <= j})
      BY <1>1, RanksGrow
    <2>2. QED
      BY <1>1, <2>1 DEF UpTo
  <1>9. \A i : PatchFor(generic, i).index = NumberAt(i)
    BY DEF PatchFor
  <1> HIDE DEF s, F, K, n, NumberAt
  <1>10. \A p \in F : ByIndex(F)[p] = p.index
    BY DEF ByIndex
  <1>11. \A i, j \in 1..Len(t) : i < j => ByIndex(F)[s[i]] < ByIndex(F)[s[j]]
    BY <1>4, <1>5, <1>6, <1>8, <1>9, <1>10
  <1>12. Enumerates(s, Len(t), F, ByIndex(F))
    BY <1>6, <1>7, <1>11 DEF Enumerates
  <1>13. Sorted(F) = s
    <2>1. IsOrder(Sorted(F), F, ByIndex(F)) /\ ByIndex(F) \in [F -> Nat]
      BY <1>3, SortedIsOrder
    <2>2. QED
      BY <1>5, <1>12, <2>1, EnumeratedIsOne
  <1>14. DOMAIN s = 1..Len(t) /\ Len(s) = Len(t)
    BY <1>5 DEF s
  <1>15. \A k \in 1..Len(t) : s[k].change = commits[t[k]].change
    BY <1>6 DEF PatchFor
  <1>16. ChangesIn(Dir(generic)) = [k \in 1..Len(t) |-> s[k].change]
    BY <1>13, <1>14 DEF ChangesIn, F
  <1>17. ChangesOf(generic) = [k \in 1..Len(t) |-> commits[t[k]].change]
    BY <1>5 DEF ChangesOf, t, K, Kept
  <1>18. QED
    BY <1>13, <1>14, <1>15, <1>16, <1>17 DEF t, K, F

LEMMA FaithfulExport == PatchQueueInv => ExportIsFaithful
  <1> SUFFICES ASSUME PatchQueueInv PROVE ExportIsFaithful
    OBVIOUS
  <1>1. ASSUME stage = "over", runs > 0
        PROVE  /\ ChangesIn("generic") = ChangesOf(TRUE)
               /\ ChangesIn(worked) = ChangesOf(FALSE)
    <2>1. Dir(TRUE) = "generic" /\ Dir(FALSE) = worked
      BY DEF Dir
    <2>2. /\ ChangesIn(Dir(TRUE)) = ChangesOf(TRUE)
          /\ ChangesIn(Dir(FALSE)) = ChangesOf(FALSE)
      BY <1>1, ExportedInOrder
    <2>3. QED
      BY <2>1, <2>2
  <1>2. \A v \in PatchVersions \ {worked} : folder[v] = before[v]
    BY DEF PatchQueueInv, CleanShape
  <1>3. QED
    BY <1>1, <1>2 DEF ExportIsFaithful

(* The positions from one to another are in order as they stand.  *)
LEMMA AscendingInterval ==
  ASSUME NEW a \in Nat, NEW b \in Nat
  PROVE  Ascending((a + 1)..(a + b)) = [k \in 1..b |-> a + k]
  <1> DEFINE S == (a + 1)..(a + b)
             s == [k \in 1..b |-> a + k]
  <1>1. S \in SUBSET (1..(a + b)) /\ a + b \in Nat
    OBVIOUS
  <1>2. IsOrder(Ascending(S), S, ByValue(S)) /\ ByValue(S) \in [S -> Nat]
    BY <1>1, AscendingIsOrder
  <1>3. s \in [1..b -> S]
    OBVIOUS
  <1>4. ASSUME NEW p \in S PROVE \E k \in 1..b : s[k] = p
    <2>1. p - a \in 1..b /\ s[p - a] = p
      OBVIOUS
    <2>2. QED
      BY <2>1
  <1>5. \A i, j \in 1..b : i < j => ByValue(S)[s[i]] < ByValue(S)[s[j]]
    <2>1. \A i \in 1..b : s[i] \in S /\ s[i] = a + i
      OBVIOUS
    <2>2. \A i \in 1..b : ByValue(S)[s[i]] = a + i
      <3> HIDE DEF S, s
      <3>1. QED
        BY <2>1 DEF ByValue
    <2>3. QED
      BY <2>2
  <1> HIDE DEF S, s
  <1>6. Enumerates(s, b, S, ByValue(S))
    BY <1>3, <1>4, <1>5 DEF Enumerates
  <1>7. Ascending(S) = s
    BY <1>2, <1>6, EnumeratedIsOne
  <1>8. QED
    BY <1>7 DEF S, s

(* When nobody has touched the history, and all patches apply, it is the     *)
(* patches the run was given: those of the generic directory first.         *)
LEMMA HistoryIsGiven ==
  ASSUME PatchQueueInv, stage = "over", runs > 0, ~touched,
         \A i \in DOMAIN commits : commits[i].change # NoChange
  PROVE  LET m == Len(Sorted(before["generic"]))
             n == Len(Sorted(before[worked]))
         IN  /\ m \in Nat /\ n \in Nat
             /\ Kept(TRUE) = 1..m
             /\ Kept(FALSE) = (m + 1)..(m + n)
             /\ \A k \in 1..m :
                    commits[k].change = Sorted(before["generic"])[k].change
             /\ \A k \in 1..n :
                    commits[m + k].change = Sorted(before[worked])[k].change
  <1> DEFINE bg == before["generic"]
             bw == before[worked]
             m == Len(Sorted(bg))
             n == Len(Sorted(bw))
  <1>1. /\ bg \in SUBSET PatchEntries /\ NumbersApart(bg)
        /\ bw \in SUBSET PatchEntries /\ NumbersApart(bw)
        /\ worked # "generic"
    BY TreeOfAssumption
    DEF PatchQueueInv, FolderShape, Folders, Subdirs, QueueTypeOK
  <1> HIDE DEF bg, bw
  <1>2. m \in Nat /\ n \in Nat
    <2>1. Lists(Sorted(bg), bg) /\ Lists(Sorted(bw), bw)
      BY <1>1, SortedIsOrder, OrderLists
    <2>2. QED
      BY <2>1 DEF Lists
  <1>3. /\ GivenIn("generic") \in Seq(Patches) /\ Len(GivenIn("generic")) = m
        /\ \A k \in 1..m : GivenIn("generic")[k] =
               [generic |-> TRUE, change |-> Sorted(bg)[k].change]
    BY <1>1, PatchesTyped DEF GivenIn, bg
  <1>4. /\ GivenIn(worked) \in Seq(Patches) /\ Len(GivenIn(worked)) = n
        /\ \A k \in 1..n : GivenIn(worked)[k] =
               [generic |-> FALSE, change |-> Sorted(bw)[k].change]
    BY <1>1, PatchesTyped DEF GivenIn, bw
  <1> HIDE DEF m, n
  <1>5. /\ Len(Given) = m + n
        /\ \A k \in 1..m : Given[k] = GivenIn("generic")[k]
        /\ \A k \in 1..n : Given[m + k] = GivenIn(worked)[k]
    <2>1. /\ Len(Given) = m + n
          /\ \A k \in 1..(m + n) :
                 Given[k] = IF k <= m THEN GivenIn("generic")[k]
                            ELSE GivenIn(worked)[k - m]
      <3>1. /\ GivenIn("generic") \in Seq(Patches)
            /\ GivenIn(worked) \in Seq(Patches)
        BY <1>3, <1>4
      <3>2. /\ Len(GivenIn("generic")) = m
            /\ Len(GivenIn(worked)) = n
        BY <1>3, <1>4
      <3>3. QED
        BY <3>1, <3>2, ConcatProperties DEF Given
    <2>2. \A k \in 1..m : k \in 1..(m + n) /\ k <= m
      BY <1>2
    <2>3. \A k \in 1..n : m + k \in 1..(m + n) /\ ~(m + k <= m)
                          /\ (m + k) - m = k
      BY <1>2
    <2>4. QED
      BY <2>1, <2>2, <2>3
  <1>6. /\ commits \in Seq(Commits) /\ toImport = <<>>
    BY DEF PatchQueueInv, RepositoryShape
  <1>7. DOMAIN commits = 1..Len(commits) /\ Len(commits) \in Nat
    BY <1>6, LenProperties
  <1>8. /\ Len(commits) = m + n
        /\ \A i \in 1..(m + n) : /\ commits[i].generic = Given[i].generic
                                 /\ commits[i].change = Given[i].change
    <2>1. /\ Len(commits) + Len(toImport) = m + n
          /\ \A i \in 1..Len(commits) :
                /\ commits[i].generic = Given[i].generic
                /\ commits[i].change \in {Given[i].change, NoChange}
      BY <1>5 DEF PatchQueueInv, ImportShape
    <2>2. Len(commits) = m + n
      BY <1>6, <1>7, <2>1
    <2>3. QED
      BY <1>7, <2>1, <2>2
  <1>9. \A k \in 1..m : /\ k \in 1..(m + n) /\ commits[k].generic = TRUE
                        /\ commits[k].change = Sorted(bg)[k].change
    <2>1. \A k \in 1..m : k \in 1..(m + n)
      BY <1>2
    <2>2. \A k \in 1..m : /\ commits[k].generic = GivenIn("generic")[k].generic
                          /\ commits[k].change = GivenIn("generic")[k].change
      BY <1>5, <1>8, <2>1
    <2>3. ASSUME NEW k \in 1..m
          PROVE  /\ GivenIn("generic")[k].generic = TRUE
                 /\ GivenIn("generic")[k].change = Sorted(bg)[k].change
      <3> DEFINE p == GivenIn("generic")[k]
      <3>1. p = [generic |-> TRUE, change |-> Sorted(bg)[k].change]
        BY <1>3
      <3> HIDE DEF p
      <3>2. p.generic = TRUE
        BY <3>1
      <3>3. p.change = Sorted(bg)[k].change
        BY <3>1
      <3>4. QED
        BY <3>2, <3>3 DEF p
    <2>4. QED
      BY <2>1, <2>2, <2>3
  <1>10. \A k \in 1..n : /\ m + k \in 1..(m + n)
                         /\ commits[m + k].generic = FALSE
                         /\ commits[m + k].change = Sorted(bw)[k].change
    <2>1. \A k \in 1..n : m + k \in 1..(m + n)
      BY <1>2
    <2>2. QED
      BY <1>4, <1>5, <1>8, <2>1
  <1>11. \A i \in (m + 1)..(m + n) : i \in 1..(m + n)
                                     /\ commits[i].generic = FALSE
    <2>1. ASSUME NEW i \in (m + 1)..(m + n)
          PROVE  i \in 1..(m + n) /\ commits[i].generic = FALSE
      <3>1. i - m \in 1..n /\ m + (i - m) = i
        BY <1>2
      <3>2. QED
        BY <1>10, <3>1
    <2>2. QED
      BY <2>1
  <1>12. \A i \in 1..(m + n) : i \in 1..m \/ i \in (m + 1)..(m + n)
    BY <1>2
  <1>13. Kept(TRUE) = 1..m
    BY <1>7, <1>8, <1>9, <1>11, <1>12 DEF Kept, Positions
  <1>14. Kept(FALSE) = (m + 1)..(m + n)
    BY <1>7, <1>8, <1>9, <1>11, <1>12 DEF Kept, Positions
  <1>15. QED
    BY <1>2, <1>9, <1>10, <1>13, <1>14 DEF m, n, bg, bw

LEMMA IdleRun == PatchQueueInv => IdleRunKeepsPatches
  <1> SUFFICES ASSUME PatchQueueInv PROVE IdleRunKeepsPatches
    OBVIOUS
  <1>1. ASSUME stage = "over", runs > 0, ~touched,
               \A i \in DOMAIN commits : commits[i].change # NoChange,
               NEW d \in Subdirs
        PROVE  ChangesIn(d) = ChangesBefore(d)
    <2> DEFINE m == Len(Sorted(before["generic"]))
               n == Len(Sorted(before[worked]))
    <2>1. /\ m \in Nat /\ n \in Nat
          /\ Kept(TRUE) = 1..m
          /\ Kept(FALSE) = (m + 1)..(m + n)
          /\ \A k \in 1..m :
                 commits[k].change = Sorted(before["generic"])[k].change
          /\ \A k \in 1..n :
                 commits[m + k].change = Sorted(before[worked])[k].change
      BY <1>1, HistoryIsGiven
    <2>2. /\ ChangesIn("generic") = ChangesOf(TRUE)
          /\ ChangesIn(worked) = ChangesOf(FALSE)
      BY <1>1, FaithfulExport DEF ExportIsFaithful
    <2>3. \A g : ChangesOf(g) =
              [k \in DOMAIN Ascending(Kept(g)) |->
                 commits[Ascending(Kept(g))[k]].change]
      BY DEF ChangesOf, Kept
    <2>4. /\ DOMAIN Sorted(before["generic"]) = 1..m
          /\ DOMAIN Sorted(before[worked]) = 1..n
      <3>1. /\ before["generic"] \in SUBSET PatchEntries
            /\ before[worked] \in SUBSET PatchEntries
            /\ NumbersApart(before["generic"]) /\ NumbersApart(before[worked])
        BY DEF PatchQueueInv, FolderShape, Folders, Subdirs, QueueTypeOK
      <3>2. /\ Lists(Sorted(before["generic"]), before["generic"])
            /\ Lists(Sorted(before[worked]), before[worked])
        BY <3>1, SortedIsOrder, OrderLists
      <3>3. QED
        BY <3>2 DEF Lists
    <2> HIDE DEF m, n
    <2>5. /\ Ascending(Kept(TRUE)) = [k \in 1..m |-> k]
          /\ Ascending(Kept(FALSE)) = [k \in 1..n |-> m + k]
      <3>1. Ascending((0 + 1)..(0 + m)) = [k \in 1..m |-> 0 + k]
        BY <2>1, AscendingInterval
      <3>2. (0 + 1)..(0 + m) = 1..m /\ \A k \in 1..m : 0 + k = k
        BY <2>1
      <3>3. Ascending((m + 1)..(m + n)) = [k \in 1..n |-> m + k]
        BY <2>1, AscendingInterval
      <3>4. QED
        BY <2>1, <3>1, <3>2, <3>3
    <2>6. CASE d = "generic"
      <3>1. ChangesOf(TRUE) = [k \in 1..m |-> commits[k].change]
        BY <2>3, <2>5
      <3>2. ChangesBefore(d) =
                [k \in 1..m |-> Sorted(before["generic"])[k].change]
        BY <2>4, <2>6 DEF ChangesBefore
      <3>3. QED
        BY <2>1, <2>2, <2>6, <3>1, <3>2
    <2>7. CASE d = worked
      <3>1. ChangesOf(FALSE) = [k \in 1..n |-> commits[m + k].change]
        BY <2>3, <2>5
      <3>2. ChangesBefore(d) = [k \in 1..n |-> Sorted(before[worked])[k].change]
        BY <2>4, <2>7 DEF ChangesBefore
      <3>3. QED
        BY <2>1, <2>2, <2>7, <3>1, <3>2
    <2>8. CASE d \in PatchVersions \ {worked}
      BY <2>8 DEF PatchQueueInv, CleanShape, ChangesIn, ChangesBefore
    <2>9. QED
      BY <2>6, <2>7, <2>8 DEF Subdirs
  <1>2. stage \in {"import", "shell"} => folder = before
    BY DEF PatchQueueInv, CleanShape
  <1>3. QED
    BY <1>1, <1>2 DEF IdleRunKeepsPatches

THEOREM PatchesAreKept == PatchQueueSpec => []RunsKeepPatches
  <1>1. PatchQueueInv => RunsKeepPatches
    BY FaithfulExport, IdleRun DEF RunsKeepPatches
  <1>2. QED
    BY <1>1, PatchQueueInvariant, PTL

THEOREM PatchQueueTypes == PatchQueueSpec => []QueueTypeOK
  <1>1. PatchQueueInv => QueueTypeOK
    BY DEF PatchQueueInv
  <1>2. QED
    BY <1>1, PatchQueueInvariant, PTL

-----------------------------------------------------------------------------
(***************************************************************************)
(* The tree of the queue, for any commits the user makes or drops.  The    *)
(* changes of a history form a chain: each one starts from the content     *)
(* that the one before it on the same file has left.  A chain that is      *)
(* replayed gives the tree it ends with, and so does one whose changes of  *)
(* different files are put in another order, which is what the export      *)
(* does.                                                                   *)
(***************************************************************************)

(* Changes at positions D of c, each of which starts from the content that *)
(* the one before it on the same file has left.                            *)
Chained(c, D, start) ==
    /\ \A j \in D :
          (\A i \in D : i < j => c[i].file # c[j].file)
          => c[j].from = start[c[j].file]
    /\ \A i, j \in D :
          /\ i < j /\ c[i].file = c[j].file
          /\ \A k \in D : i < k /\ k < j => c[k].file # c[j].file
          => c[j].from = c[i].to

\* The tree they end with has the last content of each file.
EndsWith(c, D, start, t) ==
    /\ \A f \in SourceFiles : (\A i \in D : c[i].file # f) => t[f] = start[f]
    /\ \A i \in D : (\A k \in D : i < k => c[k].file # c[i].file)
                    => t[c[i].file] = c[i].to

History == [i \in DOMAIN commits |-> commits[i].change]
Altering == {i \in DOMAIN commits : commits[i].change # NoChange}

\* The history of the repository leads to its tree.
TreeShape ==
    /\ Chained(History, Altering, TreeOf[worked])
    /\ EndsWith(History, Altering, TreeOf[worked], tree)

(* A non-empty set of positions has a last one.  *)
LEMMA LastPosition ==
  ASSUME NEW n \in Nat, NEW T \in SUBSET (1..n), T # {}
  PROVE  \E m \in T : \A k \in T : k <= m
  <1> DEFINE U == {n - k : k \in T}
  <1>0. \A k \in T : n - k \in Nat
    OBVIOUS
  <1>1. U \in SUBSET Nat /\ U # {}
    BY <1>0
  <1>2. PICK u \in U : \A v \in U : ~(v < u)
    <2> HIDE DEF U
    <2> QED BY <1>1, LeastNumber
  <1>3. PICK m \in T : u = n - m
    BY <1>2
  <1>4. \A k \in T : k <= m
    <2> SUFFICES ASSUME NEW k \in T PROVE k <= m
      OBVIOUS
    <2>1. ~(n - k < n - m) /\ k \in Int /\ m \in Int
      BY <1>2, <1>3
    <2>2. QED
      BY <2>1
  <1>5. QED
    BY <1>4

LEMMA BeforeNext ==
  ASSUME NEW n \in Nat, NEW D \in SUBSET (1..n)
  PROVE  \A i \in D : i < n + 1 /\ ~(n + 1 < i) /\ i \in Int
  OBVIOUS

NoneOn(c, D, f) == \A i \in D : c[i].file # f

LastOn(i, c, D, f) ==
    c[i].file = f /\ \A k \in D : i < k => c[k].file # f

(* The content of a file, where no change of it is yet to come, is that of *)
(* its last change or of the beginning.                                    *)
LEMMA LastOfFile ==
  ASSUME NEW n \in Nat, NEW D \in SUBSET (1..n), NEW c, NEW f
  PROVE  NoneOn(c, D, f) \/ \E i \in D : LastOn(i, c, D, f)
  <1> DEFINE T == {i \in D : c[i].file = f}
  <1>1. CASE T = {}
    BY <1>1 DEF NoneOn
  <1>2. CASE T # {}
    <2>1. T \in SUBSET (1..n)
      OBVIOUS
    <2>2. PICK m \in T : \A k \in T : k <= m
      <3> HIDE DEF T
      <3> QED BY <1>2, <2>1, LastPosition
    <2>3. \A k \in D : m < k => c[k].file # f
      <3> SUFFICES ASSUME NEW k \in D, m < k, c[k].file = f PROVE FALSE
        OBVIOUS
      <3>1. k \in T /\ k \in Int /\ m \in Int
        BY <2>2
      <3>2. k <= m
        BY <2>2, <3>1
      <3>3. QED
        BY <3>1, <3>2
    <2>4. QED
      BY <2>2, <2>3 DEF LastOn
  <1>3. QED
    BY <1>1, <1>2

Tree == [SourceFiles -> FileContents]

(* There is one such tree.  *)
LEMMA EndsOnce ==
  ASSUME NEW n \in Nat, NEW D \in SUBSET (1..n), NEW c, NEW start,
         NEW t \in Tree, NEW u \in Tree,
         EndsWith(c, D, start, t), EndsWith(c, D, start, u)
  PROVE  t = u
  <1>1. ASSUME NEW f \in SourceFiles PROVE t[f] = u[f]
    <2>1. CASE \A i \in D : c[i].file # f
      BY <2>1 DEF EndsWith
    <2>2. CASE \E i \in D : /\ c[i].file = f
                            /\ \A k \in D : i < k => c[k].file # f
      BY <2>2 DEF EndsWith
    <2>3. NoneOn(c, D, f) \/ \E i \in D : LastOn(i, c, D, f)
      BY LastOfFile
    <2>4. QED
      BY <2>1, <2>2, <2>3 DEF NoneOn, LastOn
  <1>2. QED
    BY <1>1 DEF Tree

(* The last change of a chain starts from what the ones before it make.  *)
LEMMA ChainedFits ==
  ASSUME NEW n \in Nat, NEW D \in SUBSET (1..n), NEW c, NEW start,
         Chained(c, D \cup {n + 1}, start), c[n + 1].file \in SourceFiles,
         NEW t, EndsWith(c, D, start, t)
  PROVE  t[c[n + 1].file] = c[n + 1].from
  <1> DEFINE f == c[n + 1].file
             E == D \cup {n + 1}
  <1>1. \A i \in D : i < n + 1 /\ i \in Int
    OBVIOUS
  <1>2. CASE \A i \in D : c[i].file # f
    <2>1. \A i \in E : i < n + 1 => c[i].file # f
      BY <1>2
    <2>2. QED
      BY <1>2, <2>1 DEF Chained, EndsWith
  <1>3. CASE \E i \in D : /\ c[i].file = f
                          /\ \A k \in D : i < k => c[k].file # f
    <2>1. PICK i \in D : /\ c[i].file = f
                         /\ \A k \in D : i < k => c[k].file # f
      BY <1>3
    <2>2. \A k \in E : i < k /\ k < n + 1 => c[k].file # f
      BY <2>1
    <2>3. i < n + 1 /\ i \in E /\ n + 1 \in E
      BY <1>1
    <2>4. c[n + 1].from = c[i].to
      BY <2>1, <2>2, <2>3 DEF Chained
    <2>5. t[c[i].file] = c[i].to
      BY <2>1 DEF EndsWith
    <2>6. QED
      BY <2>1, <2>4, <2>5
  <1>4. NoneOn(c, D, f) \/ \E i \in D : LastOn(i, c, D, f)
    <2> HIDE DEF f
    <2> QED BY LastOfFile
  <1>5. QED
    BY <1>2, <1>3, <1>4 DEF NoneOn, LastOn

(* A chain goes on with a change that starts from its end.  *)
LEMMA ChainGrows ==
  ASSUME NEW n \in Nat, NEW D \in SUBSET (1..n), NEW c, NEW start,
         Chained(c, D, start), NEW t, EndsWith(c, D, start, t),
         c[n + 1].file \in SourceFiles,
         t[c[n + 1].file] = c[n + 1].from
  PROVE  Chained(c, D \cup {n + 1}, start)
  <1> DEFINE E == D \cup {n + 1}
             f == c[n + 1].file
  <1>1. \A i \in D : i < n + 1 /\ ~(n + 1 < i) /\ i \in Int
    BY BeforeNext
  <1>2. ASSUME NEW j \in E,
               \A i \in E : i < j => c[i].file # c[j].file
        PROVE  c[j].from = start[c[j].file]
    <2>1. CASE j = n + 1
      <3>1. \A i \in D : c[i].file # f
        BY <1>1, <1>2, <2>1
      <3>2. QED
        BY <2>1, <3>1 DEF EndsWith
    <2>2. CASE j # n + 1
      BY <1>2, <2>2 DEF Chained
    <2>3. QED
      BY <2>1, <2>2
  <1>3. ASSUME NEW i \in E, NEW j \in E, i < j, c[i].file = c[j].file,
               \A k \in E : i < k /\ k < j => c[k].file # c[j].file
        PROVE  c[j].from = c[i].to
    <2>1. i # n + 1
      BY <1>1, <1>3
    <2>2. CASE j = n + 1
      <3>1. \A k \in D : i < k => c[k].file # c[i].file
        BY <1>1, <1>3, <2>2
      <3>2. t[c[i].file] = c[i].to
        BY <2>1, <3>1 DEF EndsWith
      <3>3. QED
        BY <1>3, <2>2, <3>2
    <2>3. CASE j # n + 1
      BY <1>3, <2>1, <2>3 DEF Chained
    <2>4. QED
      BY <2>2, <2>3
  <1>4. QED
    BY <1>2, <1>3 DEF Chained

(* The tree ends with the content of the last change.  *)
LEMMA EndGrows ==
  ASSUME NEW n \in Nat, NEW D \in SUBSET (1..n), NEW c, NEW start,
         NEW t \in Tree, EndsWith(c, D, start, t),
         c[n + 1].file \in SourceFiles
  PROVE  EndsWith(c, D \cup {n + 1}, start,
                  [t EXCEPT ![c[n + 1].file] = c[n + 1].to])
  <1> DEFINE E == D \cup {n + 1}
             f == c[n + 1].file
             u == [t EXCEPT ![f] = c[n + 1].to]
  <1>1. \A i \in D : i < n + 1 /\ ~(n + 1 < i) /\ i \in Int
    BY BeforeNext
  <1>2. u[f] = c[n + 1].to /\ \A g \in SourceFiles : g # f => u[g] = t[g]
    BY DEF Tree
  <1> HIDE DEF u
  <1>3. ASSUME NEW g \in SourceFiles, \A i \in E : c[i].file # g
        PROVE  u[g] = start[g]
    BY <1>2, <1>3 DEF EndsWith
  <1>4. ASSUME NEW i \in E, \A k \in E : i < k => c[k].file # c[i].file
        PROVE  u[c[i].file] = c[i].to
    <2>1. CASE i = n + 1
      BY <1>2, <2>1
    <2>2. CASE i # n + 1
      <3>1. i \in D /\ c[i].file # f
        BY <1>1, <1>4, <2>2
      <3>2. t[c[i].file] = c[i].to
        BY <1>4, <3>1 DEF EndsWith
      <3>3. CASE c[i].file \in SourceFiles
        BY <1>2, <3>1, <3>2, <3>3
      <3>4. CASE c[i].file \notin SourceFiles
        BY <3>1, <3>2, <3>4 DEF u, Tree
      <3>5. QED
        BY <3>3, <3>4
    <2>3. QED
      BY <2>1, <2>2
  <1>5. QED
    BY <1>3, <1>4 DEF EndsWith, u

(* A change at the end is taken back.  *)
LEMMA ChainShrinks ==
  ASSUME NEW n \in Nat, NEW D \in SUBSET (1..n), NEW c, NEW start,
         Chained(c, D \cup {n + 1}, start), NEW t \in Tree,
         EndsWith(c, D \cup {n + 1}, start, t),
         \A i \in D \cup {n + 1} : c[i].file \in SourceFiles
  PROVE  /\ Chained(c, D, start)
         /\ EndsWith(c, D, start,
                     [t EXCEPT ![c[n + 1].file] = c[n + 1].from])
  <1> DEFINE E == D \cup {n + 1}
             f == c[n + 1].file
             u == [t EXCEPT ![f] = c[n + 1].from]
  <1>1. \A i \in D : i < n + 1 /\ ~(n + 1 < i) /\ i \in Int
    BY BeforeNext
  <1>2. u[f] = c[n + 1].from /\ \A g \in SourceFiles : g # f => u[g] = t[g]
    BY DEF Tree
  <1> HIDE DEF u
  <1>3. Chained(c, D, start)
    <2>1. \A j \in D :
            (\A i \in D : i < j => c[i].file # c[j].file)
            => \A i \in E : i < j => c[i].file # c[j].file
      BY <1>1
    <2>2. \A i, j \in D :
            (\A k \in D : i < k /\ k < j => c[k].file # c[j].file)
            => \A k \in E : i < k /\ k < j => c[k].file # c[j].file
      BY <1>1
    <2>3. QED
      BY <2>1, <2>2 DEF Chained
  <1>4. ASSUME NEW g \in SourceFiles, \A i \in D : c[i].file # g
        PROVE  u[g] = start[g]
    <2>1. CASE g = f
      <3>1. \A i \in E : i < n + 1 => c[i].file # f
        BY <1>4, <2>1
      <3>2. QED
        BY <1>2, <2>1, <3>1 DEF Chained
    <2>2. CASE g # f
      <3>1. \A i \in E : c[i].file # g
        BY <1>4, <2>2
      <3>2. QED
        BY <1>2, <2>2, <3>1 DEF EndsWith
    <2>3. QED
      BY <2>1, <2>2
  <1>5. ASSUME NEW i \in D, \A k \in D : i < k => c[k].file # c[i].file
        PROVE  u[c[i].file] = c[i].to
    <2>1. CASE c[i].file = f
      <3>1. \A k \in E : i < k /\ k < n + 1 => c[k].file # f
        BY <1>1, <1>5, <2>1
      <3>2. c[n + 1].from = c[i].to
        BY <1>1, <2>1, <3>1 DEF Chained
      <3>3. QED
        BY <1>2, <2>1, <3>2
    <2>2. CASE c[i].file # f
      <3>1. \A k \in E : i < k => c[k].file # c[i].file
        BY <1>5, <2>2
      <3>2. t[c[i].file] = c[i].to
        BY <3>1 DEF EndsWith
      <3>3. QED
        BY <1>2, <2>2, <3>2
    <2>3. QED
      BY <2>1, <2>2
  <1>6. QED
    BY <1>3, <1>4, <1>5 DEF EndsWith, u

-----------------------------------------------------------------------------
(* Replays.  *)

\* The tree a change makes of t.
Changed(change, t) ==
    IF Applies(change, t) THEN [t EXCEPT ![change.file] = change.to] ELSE t

\* g has the trees that sets of the changes c make, the last one last.
Replays(g, c, start) ==
    g = [s \in SUBSET DOMAIN c |->
            IF s = {} THEN start ELSE Changed(c[Max(s)], g[s \ {Max(s)}])]

IsTheReplay(g, c, n, start) ==
    /\ g \in [SUBSET (1..n) -> Tree]
    /\ g[{}] = start
    /\ \A s \in SUBSET (1..n) : s # {} =>
          g[s] = Changed(c[Max(s)], g[s \ {Max(s)}])
    /\ Patched(c, start) = g[1..n]

LEMMA MaxIsLast ==
  ASSUME NEW n \in Nat, NEW T \in SUBSET (1..n), T # {}
  PROVE  Max(T) \in T /\ \A k \in T : k <= Max(T)
  <1>1. PICK m \in T : \A k \in T : k <= m
    BY LastPosition
  <1>2. m >= m /\ \A k \in T : m >= k
    BY <1>1
  <1>3. Max(T) \in T /\ \A k \in T : Max(T) >= k
    BY <1>2 DEF Max
  <1>4. QED
    BY <1>3

LEMMA ReplayIsOfOne ==
  ASSUME NEW n \in Nat, NEW c \in [1..n -> Changes], NEW start \in Tree
  PROVE  \E g : IsTheReplay(g, c, n, start)
  <1> DEFINE S == 1..n
             m == [s \in SUBSET S |-> Max(s)]
             F == [p \in S \X Tree |-> Changed(c[p[1]], p[2])]
  <1>1. IsFiniteSet(S) /\ DOMAIN c = S
    BY FS_Interval
  <1>2. Takes(m, S) /\ \A s \in SUBSET S : m[s] = Max(s)
    BY MaxIsLast DEF Takes
  <1>3. \A i \in S, t \in Tree : Changed(c[i], t) \in Tree
    BY DEF Changed, Tree, Changes
  <1>4. IsStep(F, S, Tree)
    BY <1>3 DEF IsStep
  <1>5. \A i \in S, t \in Tree : F[<<i, t>>] = Changed(c[i], t)
    OBVIOUS
  <1> HIDE DEF m, F, S
  <1>6. PICK g : Folded(g, m, start, F, S, Tree)
    BY <1>1, <1>2, <1>4, FoldExists
  <1>7. /\ g \in [SUBSET S -> Tree] /\ g[{}] = start
        /\ \A s \in SUBSET S : s # {} =>
              g[s] = Changed(c[Max(s)], g[s \ {Max(s)}])
    <2>1. g \in [SUBSET S -> Tree] /\ g[{}] = start
      BY <1>6 DEF Folded
    <2>2. ASSUME NEW s \in SUBSET S, s # {}
          PROVE  g[s] = Changed(c[Max(s)], g[s \ {Max(s)}])
      <3>1. m[s] \in S /\ g[s \ {m[s]}] \in Tree /\ m[s] = Max(s)
        BY <1>2, <2>1, <2>2 DEF Takes
      <3>2. g[s] = F[<<m[s], g[s \ {m[s]}]>>]
        BY <1>6, <2>2 DEF Folded
      <3>3. QED
        BY <1>5, <3>1, <3>2
    <2>3. QED
      BY <2>1, <2>2
  <1>8. Replays(g, c, start)
    <2>1. \A s \in SUBSET S :
             g[s] = IF s = {} THEN start
                    ELSE Changed(c[Max(s)], g[s \ {Max(s)}])
      BY <1>7
    <2>2. g = [s \in SUBSET S |-> g[s]]
      BY <1>7
    <2>3. QED
      BY <1>1, <2>1, <2>2 DEF Replays
  <1>9. ASSUME NEW h, Replays(h, c, start) PROVE \A s \in SUBSET S : h[s] = g[s]
    <2>1. h[{}] = g[{}]
      BY <1>1, <1>7, <1>9 DEF Replays
    <2>2. ASSUME NEW s \in SUBSET S, s # {}, h[s \ {m[s]}] = g[s \ {m[s]}]
          PROVE  h[s] = g[s]
      <3>1. h[s] = Changed(c[Max(s)], h[s \ {Max(s)}])
        BY <1>1, <1>9, <2>2 DEF Replays
      <3>2. QED
        BY <1>2, <1>7, <2>2, <3>1
    <2>3. SameFold(h, g, m, S)
      BY <2>1, <2>2 DEF SameFold
    <2>4. QED
      BY <1>1, <1>2, <2>3, FoldIsOne
  <1>10. Patched(c, start) = g[S]
    <2>1. Patched(c, start) = (CHOOSE h : Replays(h, c, start))[S]
      BY <1>1 DEF Patched, FoldLeft, MapThenFoldSet, Replays, Changed
    <2>2. Replays(CHOOSE h : Replays(h, c, start), c, start)
      BY <1>8
    <2>3. QED
      BY <1>9, <2>1, <2>2
  <1>11. IsTheReplay(g, c, n, start)
    BY <1>7, <1>10 DEF IsTheReplay, S
  <1>12. QED
    BY <1>11

(* The beginning of a chain is one.  *)
LEMMA ChainPrefix ==
  ASSUME NEW n \in Nat, NEW k \in 0..n, NEW c, NEW start,
         Chained(c, 1..n, start)
  PROVE  Chained(c, 1..k, start)
  <1>1. \A j \in 1..k : j \in 1..n
    OBVIOUS
  <1>2. \A j \in 1..k : \A i \in 1..n : i < j => i \in 1..k
    OBVIOUS
  <1>3. QED
    BY <1>1, <1>2 DEF Chained

(* The tree that the changes of a chain make is the one it ends with.  *)
LEMMA ChainGivesTree ==
  ASSUME NEW n \in Nat, NEW c \in [1..n -> Changes], NEW start \in Tree,
         Chained(c, 1..n, start), NEW t \in Tree, EndsWith(c, 1..n, start, t)
  PROVE  Patched(c, start) = t
  <1>1. PICK g : IsTheReplay(g, c, n, start)
    BY ReplayIsOfOne
  <1> DEFINE Good(k) == EndsWith(c, 1..k, start, g[1..k])
             Bad == {k \in Nat : k <= n /\ ~Good(k)}
  <1>2. Good(0)
    <2>1. 1..0 = {} /\ g[{}] = start
      BY <1>1 DEF IsTheReplay
    <2>2. QED
      BY <2>1 DEF EndsWith
  <1>3. ASSUME NEW k \in Nat, k + 1 <= n, Good(k) PROVE Good(k + 1)
    <2> DEFINE s == 1..(k + 1)
    <2>1. s \in SUBSET (1..n) /\ k + 1 \in s /\ s \ {k + 1} = 1..k
          /\ s = (1..k) \cup {k + 1}
          /\ 1..k \in SUBSET (1..n) /\ k + 1 \in 1..n
      BY <1>3
    <2>2. Max(s) = k + 1
      <3>1. Max(s) \in s /\ k + 1 <= Max(s)
        <4> HIDE DEF s
        <4> QED BY <2>1, MaxIsLast
      <3>2. QED
        BY <3>1
    <2> HIDE DEF s
    <2>3. g[s] = Changed(c[k + 1], g[1..k]) /\ g[1..k] \in Tree
      BY <1>1, <2>1, <2>2 DEF IsTheReplay
    <2>4. Chained(c, s, start)
      BY <1>3, ChainPrefix DEF s
    <2>5. c[k + 1].file \in SourceFiles
      BY <2>1 DEF Changes
    <2>6. 1..k \in SUBSET (1..k)
      OBVIOUS
    <2>7. g[1..k][c[k + 1].file] = c[k + 1].from
      BY <1>3, <2>1, <2>4, <2>5, <2>6, ChainedFits
    <2>8. g[s] = [g[1..k] EXCEPT ![c[k + 1].file] = c[k + 1].to]
      BY <2>3, <2>7 DEF Changed, Applies
    <2>9. EndsWith(c, (1..k) \cup {k + 1}, start, g[s])
      BY <1>3, <2>3, <2>5, <2>6, <2>8, EndGrows
    <2>10. QED
      BY <2>1, <2>9 DEF s
  <1> HIDE DEF Good
  <1>4. Bad = {}
    <2>1. SUFFICES ASSUME Bad # {} PROVE FALSE
      OBVIOUS
    <2>2. Bad \in SUBSET Nat
      OBVIOUS
    <2>3. PICK k \in Bad : \A j \in Bad : ~(j < k)
      <3> HIDE DEF Bad
      <3> QED BY <2>1, <2>2, LeastNumber
    <2>4. k # 0 /\ k \in Nat
      BY <1>2, <2>3
    <2>5. k - 1 \in Nat /\ Good(k - 1) /\ (k - 1) + 1 = k /\ k <= n
      BY <2>3, <2>4
    <2>6. QED
      BY <1>3, <2>3, <2>5
  <1>5. EndsWith(c, 1..n, start, g[1..n])
    BY <1>4 DEF Good
  <1>6. g[1..n] \in Tree /\ Patched(c, start) = g[1..n]
    BY <1>1 DEF IsTheReplay
  <1>7. 1..n \in SUBSET (1..n)
    OBVIOUS
  <1>8. QED
    BY <1>5, <1>6, <1>7, EndsOnce

\* e has the changes of c at positions D in the places that p gives them, and
\* those of one file in the same order.
Reorders(e, n, p, c, D) ==
    /\ p \in [1..n -> D]
    /\ \A i \in D : \E k \in 1..n : p[k] = i
    /\ \A k \in 1..n : e[k] = c[p[k]]
    /\ \A k, l \in 1..n :
          c[p[k]].file = c[p[l]].file => (k < l <=> p[k] < p[l])

(* Changes of different files can be put in another order.  *)
LEMMA ReorderedChain ==
  ASSUME NEW n \in Nat, NEW e, NEW p, NEW c, NEW D,
         Reorders(e, n, p, c, D), NEW start, Chained(c, D, start),
         NEW t, EndsWith(c, D, start, t)
  PROVE  Chained(e, 1..n, start) /\ EndsWith(e, 1..n, start, t)
  <1>1. \A k \in 1..n : p[k] \in D /\ e[k] = c[p[k]]
    BY DEF Reorders
  <1>2. \A i \in D : \E k \in 1..n : p[k] = i
    BY DEF Reorders
  <1>3. \A k, l \in 1..n : e[k].file = e[l].file => (k < l <=> p[k] < p[l])
    BY DEF Reorders
  <1>4. ASSUME NEW j \in 1..n,
               \A i \in 1..n : i < j => e[i].file # e[j].file
        PROVE  e[j].from = start[e[j].file]
    <2>1. ASSUME NEW i \in D, i < p[j], c[i].file = c[p[j]].file PROVE FALSE
      <3>1. PICK k \in 1..n : p[k] = i
        BY <1>2
      <3>2. e[k].file = e[j].file
        BY <1>1, <2>1, <3>1
      <3>3. QED
        BY <1>3, <1>4, <2>1, <3>1, <3>2
    <2>2. QED
      BY <1>1, <2>1 DEF Chained
  <1>5. ASSUME NEW i \in 1..n, NEW j \in 1..n, i < j, e[i].file = e[j].file,
               \A k \in 1..n : i < k /\ k < j => e[k].file # e[j].file
        PROVE  e[j].from = e[i].to
    <2>1. ASSUME NEW q \in D, p[i] < q, q < p[j], c[q].file = c[p[j]].file
          PROVE  FALSE
      <3>1. PICK k \in 1..n : p[k] = q
        BY <1>2
      <3>2. e[k].file = e[j].file
        BY <1>1, <2>1, <3>1
      <3>3. i < k /\ k < j
        BY <1>3, <1>5, <2>1, <3>1, <3>2
      <3>4. QED
        BY <1>5, <3>2, <3>3
    <2>2. p[i] < p[j] /\ c[p[i]].file = c[p[j]].file
      BY <1>1, <1>3, <1>5
    <2>3. QED
      BY <1>1, <2>1, <2>2 DEF Chained
  <1>6. ASSUME NEW f \in SourceFiles, \A i \in 1..n : e[i].file # f
        PROVE  t[f] = start[f]
    <2>1. \A i \in D : c[i].file # f
      BY <1>1, <1>2, <1>6
    <2>2. QED
      BY <2>1 DEF EndsWith
  <1>7. ASSUME NEW i \in 1..n, \A k \in 1..n : i < k => e[k].file # e[i].file
        PROVE  t[e[i].file] = e[i].to
    <2>1. ASSUME NEW q \in D, p[i] < q, c[q].file = c[p[i]].file
          PROVE  FALSE
      <3>1. PICK k \in 1..n : p[k] = q
        BY <1>2
      <3>2. e[k].file = e[i].file
        BY <1>1, <2>1, <3>1
      <3>3. QED
        BY <1>3, <1>7, <2>1, <3>1, <3>2
    <2>2. QED
      BY <1>1, <2>1 DEF EndsWith
  <1>8. QED
    BY <1>4, <1>5, <1>6, <1>7 DEF Chained, EndsWith

-----------------------------------------------------------------------------
(* The history and the tree of a run.  *)

(* A chain is one of what its positions have.  *)
LEMMA ChainAgrees ==
  ASSUME NEW D, NEW c, NEW d, \A i \in D : c[i] = d[i], NEW start,
         Chained(c, D, start), NEW t, EndsWith(c, D, start, t)
  PROVE  Chained(d, D, start) /\ EndsWith(d, D, start, t)
  <1>1. Chained(d, D, start)
    BY DEF Chained
  <1>2. EndsWith(d, D, start, t)
    BY DEF EndsWith
  <1>3. QED
    BY <1>1, <1>2

LEMMA HistoryTyped ==
  ASSUME commits \in Seq(Commits)
  PROVE  /\ Len(commits) \in Nat /\ Altering \in SUBSET (1..Len(commits))
         /\ \A i \in 1..Len(commits) :
               /\ History[i] = commits[i].change
               /\ i \in Altering <=> commits[i].change # NoChange
         /\ \A i \in Altering : History[i] \in Changes
  <1>1. /\ Len(commits) \in Nat /\ DOMAIN commits = 1..Len(commits)
        /\ \A i \in 1..Len(commits) : commits[i] \in Commits
    BY LenProperties, ElementOfSeq
  <1>2. QED
    BY <1>1 DEF History, Altering, Commits

\* The commit leads from tree to tree'.
LeadsOn(commit) ==
    IF commit.change = NoChange THEN tree' = tree
    ELSE /\ tree[commit.change.file] = commit.change.from
         /\ tree' = [tree EXCEPT ![commit.change.file] = commit.change.to]

(* One more commit.  *)
LEMMA AppendTree ==
  ASSUME commits \in Seq(Commits), tree \in Tree, TreeShape,
         NEW commit \in Commits, commits' = Append(commits, commit),
         worked' = worked, LeadsOn(commit)
  PROVE  TreeShape'
  <1> DEFINE n == Len(commits)
             D == Altering
             start == TreeOf[worked]
  <1>1. /\ n \in Nat /\ D \in SUBSET (1..n)
        /\ \A i \in 1..n : /\ History[i] = commits[i].change
                           /\ i \in D <=> commits[i].change # NoChange
    BY HistoryTyped
  <1>2. /\ commits' \in Seq(Commits) /\ Len(commits') = n + 1
        /\ \A i \in 1..n : commits'[i] = commits[i]
        /\ commits'[n + 1] = commit
    BY AppendProperties
  <1>3. DOMAIN commits' = 1..(n + 1)
    BY <1>1, <1>2
  <1>4. /\ \A i \in 1..(n + 1) : History'[i] = commits'[i].change
        /\ Altering' = {i \in 1..(n + 1) : commits'[i].change # NoChange}
    BY <1>3 DEF History, Altering
  <1>5. \A i \in D : History[i] = History'[i]
    BY <1>1, <1>2, <1>4
  <1>6. Chained(History', D, start) /\ EndsWith(History', D, start, tree)
    <2> HIDE DEF D
    <2> QED BY <1>5, ChainAgrees DEF TreeShape, D
  <1>7. History'[n + 1] = commit.change
    BY <1>1, <1>2, <1>4
  <1>8. CASE commit.change = NoChange
    <2>1. Altering' = D
      BY <1>1, <1>2, <1>4, <1>8
    <2>2. QED
      BY <1>6, <1>8, <2>1 DEF TreeShape, LeadsOn
  <1>9. CASE commit.change # NoChange
    <2>1. Altering' = D \cup {n + 1}
      BY <1>1, <1>2, <1>4, <1>9
    <2>2. commit.change.file \in SourceFiles
      BY <1>9 DEF Commits, Changes
    <2>3. /\ tree[commit.change.file] = commit.change.from
          /\ tree' = [tree EXCEPT ![commit.change.file] = commit.change.to]
      BY <1>9 DEF LeadsOn
    <2> HIDE DEF D, n
    <2>4. Chained(History', D \cup {n + 1}, start)
      BY <1>1, <1>6, <1>7, <2>2, <2>3, ChainGrows
    <2>5. EndsWith(History', D \cup {n + 1}, start, tree')
      BY <1>1, <1>6, <1>7, <2>2, <2>3, EndGrows
    <2>6. QED
      BY <2>1, <2>4, <2>5 DEF TreeShape
  <1>10. QED
    BY <1>8, <1>9

(* One commit less.  *)
LEMMA DropTree ==
  ASSUME commits \in Seq(Commits), tree \in Tree, TreeShape, UserDrops
  PROVE  TreeShape'
  <1> DEFINE n == Len(commits) - 1
             D == Altering \ {n + 1}
             start == TreeOf[worked]
             change == Last(commits).change
  <1>1. commits # <<>> /\ commits' = Front(commits) /\ worked' = worked
        /\ tree' = IF change = NoChange THEN tree
                   ELSE [tree EXCEPT ![change.file] = change.from]
    BY DEF UserDrops
  <1>2. /\ Len(commits) \in Nat \ {0}
        /\ Altering \in SUBSET (1..Len(commits))
        /\ \A i \in 1..Len(commits) :
              /\ History[i] = commits[i].change
              /\ i \in Altering <=> commits[i].change # NoChange
        /\ \A i \in Altering : History[i] \in Changes
    BY <1>1, HistoryTyped, EmptySeq
  <1>3. n \in Nat /\ Len(commits) = n + 1 /\ D \in SUBSET (1..n)
    <2>1. n \in Nat /\ Len(commits) = n + 1
      BY <1>2
    <2>2. \A i \in 1..(n + 1) : i # n + 1 => i \in 1..n
      <3> HIDE DEF n
      <3> QED BY <2>1
    <2>3. QED
      BY <1>2, <2>1, <2>2
  <1>4. /\ commits' \in Seq(Commits) /\ Len(commits') = n
        /\ \A i \in 1..n : commits'[i] = commits[i]
    <2>1. commits' = SubSeq(commits, 1, n)
      BY <1>1 DEF Front
    <2>2. \A i \in 1..n : commits[i] \in Commits
      BY <1>2, <1>3, ElementOfSeq
    <2> HIDE DEF n
    <2>3. /\ commits' \in Seq(Commits)
          /\ Len(commits') = IF 1 <= n THEN n - 1 + 1 ELSE 0
          /\ \A i \in 1..(n - 1 + 1) : commits'[i] = commits[1 + i - 1]
      BY <1>3, <2>1, <2>2, SubSeqProperties
    <2>4. \A i \in 1..n : i \in 1..(n - 1 + 1) /\ 1 + i - 1 = i
      BY <1>3
    <2>5. QED
      BY <1>3, <2>3, <2>4
  <1>5. change = History[n + 1]
    BY <1>2, <1>3 DEF Last
  <1> HIDE DEF n, change
  <1>6. DOMAIN commits' = 1..n
    BY <1>3, <1>4
  <1>7. /\ \A i \in 1..n : History'[i] = commits'[i].change
        /\ Altering' = {i \in 1..n : commits'[i].change # NoChange}
    BY <1>6 DEF History, Altering
  <1>8. Altering' = D
    <2>1. \A i \in 1..n : i \in 1..Len(commits) /\ i # n + 1
      BY <1>3
    <2>2. \A i \in 1..n : i \in D <=> commits'[i].change # NoChange
      BY <1>2, <1>4, <2>1
    <2> HIDE DEF D
    <2>3. QED
      BY <1>3, <1>7, <2>2
  <1>9. \A i \in D : History[i] = History'[i]
    BY <1>2, <1>3, <1>4, <1>7
  <1>10. Chained(History, D, start) /\ EndsWith(History, D, start, tree')
    <2>1. CASE n + 1 \notin Altering
      <3>1. D = Altering /\ change = NoChange
        BY <1>2, <1>3, <1>5, <2>1
      <3>2. QED
        BY <1>1, <3>1 DEF TreeShape
    <2>2. CASE n + 1 \in Altering
      <3>1. Altering = D \cup {n + 1} /\ change # NoChange
        BY <1>2, <1>3, <1>5, <2>2
      <3>2. tree' = [tree EXCEPT ![History[n + 1].file]
                                   = History[n + 1].from]
        BY <1>1, <1>5, <3>1
      <3>3. \A i \in D \cup {n + 1} : History[i].file \in SourceFiles
        BY <1>2, <3>1 DEF Changes
      <3> HIDE DEF D
      <3>4. QED
        BY <1>3, <3>1, <3>2, <3>3, ChainShrinks DEF TreeShape
    <2>3. QED
      BY <2>1, <2>2
  <1> HIDE DEF D
  <1>11. Chained(History', D, start) /\ EndsWith(History', D, start, tree')
    BY <1>9, <1>10, ChainAgrees
  <1>12. QED
    BY <1>1, <1>8, <1>11 DEF TreeShape

(* A history without commits.  *)
LEMMA EmptyTree ==
  ASSUME commits = <<>>, tree = TreeOf[worked]
  PROVE  TreeShape
  <1>1. Altering = {}
    BY DEF Altering
  <1>2. QED
    BY <1>1 DEF TreeShape, Chained, EndsWith

LEMMA TreeNext ==
  PatchQueueInv /\ TreeShape /\ [PatchQueueNext]_queueVars => TreeShape'
  <1> SUFFICES ASSUME PatchQueueInv, TreeShape, [PatchQueueNext]_queueVars
               PROVE  TreeShape'
    OBVIOUS
  <1>1. commits \in Seq(Commits) /\ tree \in Tree /\ toImport \in Seq(Patches)
    BY DEF PatchQueueInv, QueueTypeOK, RepositoryShape, Tree
  <1>2. ASSUME commits' = <<>>, tree' = TreeOf[worked'] PROVE TreeShape'
    <2>1. Altering' = {}
      BY <1>2 DEF Altering
    <2>2. QED
      BY <1>2, <2>1 DEF TreeShape, Chained, EndsWith
  <1>3. ASSUME UNCHANGED <<commits, tree, worked>> PROVE TreeShape'
    BY <1>3 DEF TreeShape, History, Altering
  <1>4. CASE \E v \in PatchVersions : PatchesRun(v)
    BY <1>2, <1>4 DEF PatchesRun
  <1>5. CASE ImportPatch
    <2> DEFINE patch == Head(toImport)
               fits == Applies(patch.change, tree)
               commit == [change |-> IF fits THEN patch.change ELSE NoChange,
                          generic |-> patch.generic, body |-> TRUE]
    <2>1. patch \in Patches
      BY <1>1, <1>5, HeadTailProperties, EmptySeq DEF ImportPatch
    <2>2. patch.change \in Changes /\ patch.generic \in BOOLEAN
      BY <2>1 DEF Patches
    <2>3. /\ commits' = Append(commits, commit) /\ worked' = worked
          /\ tree' = IF fits
                     THEN [tree EXCEPT ![patch.change.file] = patch.change.to]
                     ELSE tree
      BY <1>5 DEF ImportPatch, ImportedGeneric
    <2>4. commit \in Commits
      BY <2>2 DEF Commits
    <2>5. LeadsOn(commit)
      <3>1. CASE fits
        BY <2>2, <2>3, <3>1, NoChangeAssumption DEF LeadsOn, Applies
      <3>2. CASE ~fits
        BY <2>3, <3>2 DEF LeadsOn
      <3>3. QED
        BY <3>1, <3>2
    <2> HIDE DEF commit
    <2>6. QED
      BY <1>1, <2>3, <2>4, <2>5, AppendTree
  <1>6. ASSUME NEW file \in SourceFiles, NEW content \in FileContents,
               NEW generic \in BOOLEAN, NEW body \in BOOLEAN,
               UserCommits(file, content, generic, body)
        PROVE  TreeShape'
    <2> DEFINE change == [file |-> file, from |-> tree[file], to |-> content]
               commit == [change |-> change, generic |-> generic,
                          body |-> body]
    <2>1. change \in Changes
      BY <1>1 DEF Changes, Tree
    <2>2. /\ commits' = Append(commits, commit) /\ worked' = worked
          /\ tree' = [tree EXCEPT ![file] = content]
      BY <1>6 DEF UserCommits
    <2>3. commit \in Commits
      BY <2>1 DEF Commits
    <2>4. LeadsOn(commit)
      BY <2>1, <2>2, NoChangeAssumption DEF LeadsOn
    <2> HIDE DEF commit
    <2>5. QED
      BY <1>1, <2>2, <2>3, <2>4, AppendTree
  <1>7. CASE UserDrops
    BY <1>1, <1>7, DropTree
  <1>8. CASE CountCommits
    <2>1. UNCHANGED <<commits, tree, worked>>
          \/ (commits' = <<>> /\ tree' = TreeOf[worked] /\ worked' = worked)
      BY <1>8 DEF CountCommits, Stops
    <2>2. QED
      BY <1>2, <1>3, <2>1
  <1>9. CASE ClientStops
    BY <1>2, <1>9 DEF ClientStops, Stops
  <1>10. CASE \/ LaunchSubshell \/ UserLeaves \/ CleanGeneric \/ CleanVersion
              \/ ExportCommit \/ PatchesEnd \/ UNCHANGED queueVars
    <2>1. UNCHANGED <<commits, tree, worked>>
      BY <1>10 DEF LaunchSubshell, UserLeaves, CleanGeneric, CleanVersion,
         ExportCommit, PatchesEnd, queueVars
    <2>2. QED
      BY <1>3, <2>1
  <1>11. QED
    BY <1>4, <1>5, <1>6, <1>7, <1>8, <1>9, <1>10 DEF PatchQueueNext

\* Positions of the kept commits, generic ones first.
Firsts == Ascending(Kept(TRUE))
Seconds == Ascending(Kept(FALSE))
Replaced == Firsts \o Seconds

(* The kept commits of a kind, in order.  *)
LEMMA KeptInOrder ==
  ASSUME commits \in Seq(Commits), NEW generic \in BOOLEAN
  PROVE  LET a == Ascending(Kept(generic))
         IN  /\ Len(a) \in Nat /\ DOMAIN a = 1..Len(a)
             /\ a \in Seq(Kept(generic))
             /\ \A k \in 1..Len(a) : a[k] \in Kept(generic)
             /\ \A i \in Kept(generic) : \E k \in 1..Len(a) : a[k] = i
             /\ \A k, l \in 1..Len(a) : k < l => a[k] < a[l]
             /\ ChangesOf(generic) =
                   [k \in 1..Len(a) |-> commits[a[k]].change]
  <1> DEFINE K == Kept(generic)
             a == Ascending(K)
  <1>1. /\ Len(commits) \in Nat /\ K \in SUBSET (1..Len(commits))
    BY PositionsTyped
  <1> HIDE DEF K
  <1>2. IsOrder(a, K, ByValue(K)) /\ IsFiniteSet(K)
    BY <1>1, AscendingIsOrder
  <1>3. Lists(a, K)
    BY <1>2, OrderLists
  <1>4. /\ Len(a) \in Nat /\ DOMAIN a = 1..Len(a) /\ a \in Seq(K)
        /\ \A k \in 1..Len(a) : a[k] \in K
        /\ \A i \in K : \E k \in 1..Len(a) : a[k] = i
    BY <1>3 DEF Lists
  <1>5. \A k, l \in 1..Len(a) : k < l => a[k] < a[l]
    BY <1>2, <1>4 DEF IsOrder, ByValue
  <1>6. ChangesOf(generic) = [k \in 1..Len(a) |-> commits[a[k]].change]
    BY <1>4 DEF ChangesOf, a, K, Kept
  <1>7. QED
    BY <1>4, <1>5, <1>6 DEF K

LEMMA ReimportFromInv ==
  ASSUME PatchQueueInv, TreeShape
  PROVE  ReimportGivesTree
  <1> SUFFICES ASSUME stage = "over", runs > 0, GenericFirst
               PROVE  LET queued == Queued(worked)
                      IN  Patched([i \in DOMAIN queued |-> queued[i].change],
                                  TreeOf[worked]) = tree
    BY DEF ReimportGivesTree
  <1> DEFINE queued == Queued(worked)
             e == [i \in DOMAIN queued |-> queued[i].change]
             a == Firsts
             b == Seconds
             p == Replaced
             m == Len(a) + Len(b)
             D == Altering
  <1>1. /\ commits \in Seq(Commits) /\ tree \in Tree
        /\ worked \in PatchVersions /\ TreeOf[worked] \in Tree
        /\ worked # "generic"
    BY TreeOfAssumption
    DEF PatchQueueInv, QueueTypeOK, RepositoryShape, Tree
  <1>2. /\ Len(a) \in Nat /\ DOMAIN a = 1..Len(a) /\ a \in Seq(Kept(TRUE))
        /\ \A k \in 1..Len(a) : a[k] \in Kept(TRUE)
        /\ \A i \in Kept(TRUE) : \E k \in 1..Len(a) : a[k] = i
        /\ \A k, l \in 1..Len(a) : k < l => a[k] < a[l]
        /\ ChangesOf(TRUE) = [k \in 1..Len(a) |-> commits[a[k]].change]
    BY <1>1, KeptInOrder DEF Firsts
  <1>3. /\ Len(b) \in Nat /\ DOMAIN b = 1..Len(b) /\ b \in Seq(Kept(FALSE))
        /\ \A k \in 1..Len(b) : b[k] \in Kept(FALSE)
        /\ \A i \in Kept(FALSE) : \E k \in 1..Len(b) : b[k] = i
        /\ \A k, l \in 1..Len(b) : k < l => b[k] < b[l]
        /\ ChangesOf(FALSE) = [k \in 1..Len(b) |-> commits[b[k]].change]
    BY <1>1, KeptInOrder DEF Seconds
  <1>4. /\ \A i \in Kept(TRUE) : commits[i].generic /\ i \in D
        /\ \A i \in Kept(FALSE) : ~commits[i].generic /\ i \in D
        /\ \A i \in D : i \in Kept(TRUE) \/ i \in Kept(FALSE)
        /\ D \in SUBSET (1..Len(commits)) /\ Len(commits) \in Nat
        /\ \A i \in D : History[i] = commits[i].change
        /\ \A i \in D : History[i] \in Changes
    <2>1. \A i \in DOMAIN commits : commits[i].generic \in BOOLEAN
      <3>1. /\ DOMAIN commits = 1..Len(commits)
            /\ \A i \in 1..Len(commits) : commits[i] \in Commits
        BY <1>1, LenProperties, ElementOfSeq
      <3>2. QED
        BY <3>1 DEF Commits
    <2>2. QED
      BY <1>1, <2>1, HistoryTyped DEF Kept, Positions, Altering
  <1>5. /\ m \in Nat /\ Len(p) = m /\ DOMAIN p = 1..m
        /\ \A k \in 1..Len(a) : p[k] = a[k]
        /\ \A k \in 1..m : k > Len(a) => p[k] = b[k - Len(a)]
                                         /\ k - Len(a) \in 1..Len(b)
        /\ \A k \in 1..Len(b) : p[Len(a) + k] = b[k] /\ Len(a) + k \in 1..m
    <2> HIDE DEF a, b
    <2> QED BY <1>2, <1>3 DEF Replaced, a, b
  <1> HIDE DEF a, b, p
  <1>6. /\ Len(queued) = m /\ DOMAIN queued = 1..m
        /\ \A k \in 1..m : queued[k].change = commits[p[k]].change
    <2> DEFINE x == InSubdir("generic")
               y == InSubdir(worked)
    <2>1. /\ ChangesIn(Dir(TRUE)) = ChangesOf(TRUE)
          /\ ChangesIn(Dir(FALSE)) = ChangesOf(FALSE)
          /\ Dir(TRUE) = "generic" /\ Dir(FALSE) = worked
          /\ Len(Sorted(folder[Dir(TRUE)])) = Len(Ascending(Kept(TRUE)))
          /\ Len(Sorted(folder[Dir(FALSE)])) = Len(Ascending(Kept(FALSE)))
      BY ExportedInOrder DEF Dir
    <2>2. /\ folder["generic"] \in SUBSET PatchEntries
          /\ NumbersApart(folder["generic"])
          /\ folder[worked] \in SUBSET PatchEntries
          /\ NumbersApart(folder[worked])
      BY <1>1 DEF PatchQueueInv, FolderShape, Folders, Subdirs
    <2>3. /\ x = PatchesOf(folder["generic"], "generic")
          /\ y = PatchesOf(folder[worked], worked)
      BY DEF InSubdir, PatchesOf
    <2> HIDE DEF x, y
    <2>4. /\ x \in Seq(Patches) /\ Len(x) = Len(a)
          /\ \A k \in 1..Len(a) :
                x[k].change = Sorted(folder["generic"])[k].change
      <3> DEFINE S == folder["generic"]
      <3>1. S \in SUBSET PatchEntries /\ NumbersApart(S)
        BY <2>2
      <3>2. Len(Sorted(S)) = Len(a)
        BY <2>1 DEF a, Firsts
      <3> HIDE DEF S
      <3>3. /\ PatchesOf(S, "generic") \in Seq(Patches)
            /\ Len(PatchesOf(S, "generic")) = Len(Sorted(S))
            /\ \A i \in 1..Len(Sorted(S)) :
                  PatchesOf(S, "generic")[i] =
                      [generic |-> TRUE, change |-> Sorted(S)[i].change]
        BY <1>1, <3>1, PatchesTyped
      <3>4. \A i \in 1..Len(Sorted(S)) :
               PatchesOf(S, "generic")[i].change = Sorted(S)[i].change
        <4> SUFFICES ASSUME NEW i \in 1..Len(Sorted(S))
                     PROVE  PatchesOf(S, "generic")[i].change =
                                Sorted(S)[i].change
          OBVIOUS
        <4> DEFINE r == PatchesOf(S, "generic")[i]
                   d == Sorted(S)[i].change
        <4>1. r = [generic |-> TRUE, change |-> d]
          BY <3>3
        <4> HIDE DEF r, d
        <4>2. r.change = d
          BY <4>1
        <4>3. QED
          BY <4>2 DEF r, d
      <3>5. x = PatchesOf(S, "generic")
        BY <2>3 DEF S
      <3>6. QED
        BY <3>2, <3>3, <3>4, <3>5 DEF S
    <2>5. /\ y \in Seq(Patches) /\ Len(y) = Len(b)
          /\ \A k \in 1..Len(b) :
                y[k].change = Sorted(folder[worked])[k].change
      <3> DEFINE S == folder[worked]
      <3>1. S \in SUBSET PatchEntries /\ NumbersApart(S)
        BY <2>2
      <3>2. Len(Sorted(S)) = Len(b)
        BY <2>1 DEF b, Seconds
      <3> HIDE DEF S
      <3>3. /\ PatchesOf(S, worked) \in Seq(Patches)
            /\ Len(PatchesOf(S, worked)) = Len(Sorted(S))
            /\ \A i \in 1..Len(Sorted(S)) :
                  PatchesOf(S, worked)[i] =
                      [generic |-> FALSE, change |-> Sorted(S)[i].change]
        BY <1>1, <3>1, PatchesTyped
      <3>4. \A i \in 1..Len(Sorted(S)) :
               PatchesOf(S, worked)[i].change = Sorted(S)[i].change
        <4> SUFFICES ASSUME NEW i \in 1..Len(Sorted(S))
                     PROVE  PatchesOf(S, worked)[i].change =
                                Sorted(S)[i].change
          OBVIOUS
        <4> DEFINE r == PatchesOf(S, worked)[i]
                   d == Sorted(S)[i].change
        <4>1. r = [generic |-> FALSE, change |-> d]
          BY <3>3
        <4> HIDE DEF r, d
        <4>2. r.change = d
          BY <4>1
        <4>3. QED
          BY <4>2 DEF r, d
      <3>5. y = PatchesOf(S, worked)
        BY <2>3 DEF S
      <3>6. QED
        BY <3>2, <3>3, <3>4, <3>5 DEF S
    <2>6. \A k \in 1..Len(a) : x[k].change = commits[a[k]].change
      <3>1. DOMAIN Sorted(folder["generic"]) = 1..Len(a)
        <4>1. Lists(Sorted(folder["generic"]), folder["generic"])
          BY <2>2, SortedIsOrder, OrderLists
        <4>2. QED
          BY <2>1, <4>1 DEF Lists, a, Firsts
      <3>2. \A k \in 1..Len(a) : ChangesIn("generic")[k] =
               Sorted(folder["generic"])[k].change
        BY <3>1 DEF ChangesIn
      <3>3. QED
        <4>1. \A k \in 1..Len(a) : ChangesOf(TRUE)[k] = commits[a[k]].change
          BY <1>2
        <4>2. ChangesIn("generic") = ChangesOf(TRUE)
          BY <2>1
        <4>3. QED
          BY <2>4, <3>2, <4>1, <4>2
    <2>7. \A k \in 1..Len(b) : y[k].change = commits[b[k]].change
      <3>1. DOMAIN Sorted(folder[worked]) = 1..Len(b)
        <4>1. Lists(Sorted(folder[worked]), folder[worked])
          BY <2>2, SortedIsOrder, OrderLists
        <4>2. QED
          BY <2>1, <4>1 DEF Lists, b, Seconds
      <3>2. \A k \in 1..Len(b) : ChangesIn(worked)[k] =
               Sorted(folder[worked])[k].change
        BY <3>1 DEF ChangesIn
      <3>3. QED
        <4>1. \A k \in 1..Len(b) : ChangesOf(FALSE)[k] = commits[b[k]].change
          BY <1>3
        <4>2. ChangesIn(worked) = ChangesOf(FALSE)
          BY <2>1
        <4>3. QED
          BY <2>5, <3>2, <4>1, <4>2
    <2>8. queued = x \o y
      BY DEF Queued, x, y
    <2> HIDE DEF queued
    <2>9. /\ Len(queued) = m /\ DOMAIN queued = 1..m
          /\ \A k \in 1..Len(a) : queued[k] = x[k]
          /\ \A k \in 1..m : k > Len(a) => queued[k] = y[k - Len(a)]
      <3>1. /\ queued \in Seq(Patches) /\ Len(queued) = Len(x) + Len(y)
            /\ \A i \in 1..(Len(x) + Len(y)) : queued[i] =
                  IF i <= Len(x) THEN x[i] ELSE y[i - Len(x)]
        <4>1. x \in Seq(Patches) /\ y \in Seq(Patches)
          BY <2>4, <2>5
        <4>2. QED
          BY <2>8, <4>1, ConcatProperties
      <3>2. DOMAIN queued = 1..Len(queued)
        BY <3>1, LenProperties
      <3>3. \A k \in 1..Len(a) : k \in 1..m /\ k <= Len(a)
        BY <1>2, <1>3
      <3>4. \A k \in 1..m : k > Len(a) => ~(k <= Len(a))
        BY <1>2, <1>3
      <3>5. QED
        BY <2>4, <2>5, <3>1, <3>2, <3>3, <3>4
    <2>10. ASSUME NEW k \in 1..m
           PROVE  queued[k].change = commits[p[k]].change
      <3>1. CASE k \in 1..Len(a)
        BY <1>5, <2>6, <2>9, <3>1
      <3>2. CASE k \notin 1..Len(a)
        <4>1. k > Len(a)
          BY <1>2, <3>2
        <4>2. p[k] = b[k - Len(a)] /\ k - Len(a) \in 1..Len(b)
          BY <1>5, <4>1
        <4>3. QED
          BY <2>7, <2>9, <4>1, <4>2
      <3>3. QED
        BY <3>1, <3>2
    <2>11. QED
      BY <2>9, <2>10
  <1>7. p \in [1..m -> D]
    <2>1. ASSUME NEW k \in 1..m PROVE p[k] \in D
      <3>1. CASE k \in 1..Len(a)
        BY <1>2, <1>4, <1>5, <3>1
      <3>2. CASE k \notin 1..Len(a)
        <4>1. k > Len(a)
          BY <1>2, <3>2
        <4>2. p[k] = b[k - Len(a)] /\ k - Len(a) \in 1..Len(b)
          BY <1>5, <4>1
        <4>3. p[k] \in Kept(FALSE)
          BY <1>3, <4>2
        <4>4. QED
          BY <1>4, <4>3
      <3>3. QED
        BY <3>1, <3>2
    <2>2. p = [k \in 1..m |-> p[k]]
      <3>1. a \in Seq(Int) /\ b \in Seq(Int)
        <4>1. Kept(TRUE) \subseteq Int /\ Kept(FALSE) \subseteq Int
          <5>1. \A i \in D : i \in Int
            BY <1>4
          <5>2. Kept(TRUE) \subseteq D /\ Kept(FALSE) \subseteq D
            BY <1>4
          <5> HIDE DEF D
          <5>3. QED
            BY <5>1, <5>2
        <4>2. QED
          BY <1>2, <1>3, <4>1, SeqMonotonic
      <3>2. p \in Seq(Int)
        BY <3>1, ConcatProperties DEF p, a, b, Replaced
      <3>3. QED
        BY <1>5, <3>2, LenProperties
    <2>3. QED
      BY <2>1, <2>2
  <1>8. ASSUME NEW i \in D PROVE \E k \in 1..m : p[k] = i
    <2>1. CASE i \in Kept(TRUE)
      <3>1. PICK k \in 1..Len(a) : a[k] = i
        BY <1>2, <2>1
      <3>2. k \in 1..m
        BY <1>2, <1>3
      <3>3. QED
        BY <1>5, <3>1, <3>2
    <2>2. CASE i \in Kept(FALSE)
      <3>1. PICK k \in 1..Len(b) : b[k] = i
        BY <1>3, <2>2
      <3>2. QED
        BY <1>5, <3>1
    <2>3. QED
      BY <1>4, <2>1, <2>2
  <1>9. ASSUME NEW k \in 1..m, NEW l \in 1..m, k < l,
               History[p[k]].file = History[p[l]].file
        PROVE  p[k] < p[l]
    <2>1. CASE l \in 1..Len(a)
      <3>1. k \in 1..Len(a)
        BY <1>2, <1>9, <2>1
      <3>2. QED
        BY <1>2, <1>5, <1>9, <2>1, <3>1
    <2>2. CASE l \notin 1..Len(a)
      <3>1. l > Len(a)
        BY <1>2, <2>2
      <3>2. p[l] = b[l - Len(a)] /\ l - Len(a) \in 1..Len(b)
        BY <1>5, <3>1
      <3>3. CASE k \in 1..Len(a)
        <4>1. p[k] = a[k] /\ a[k] \in Kept(TRUE) /\ p[l] \in Kept(FALSE)
          BY <1>2, <1>3, <1>5, <3>2, <3>3
        <4>2. /\ p[k] \in D /\ p[l] \in D /\ commits[p[k]].generic
              /\ ~commits[p[l]].generic
          BY <1>4, <4>1
        <4>3. /\ p[k] \in DOMAIN commits /\ p[l] \in DOMAIN commits
              /\ commits[p[k]].change # NoChange
              /\ commits[p[l]].change # NoChange
          BY <4>2 DEF Altering
        <4>4. ~(p[l] < p[k])
          BY <1>4, <1>9, <4>2, <4>3 DEF GenericFirst
        <4>5. p[k] # p[l] /\ p[k] \in Int /\ p[l] \in Int
          <5>1. \A i \in D : i \in Int
            BY <1>4
          <5>2. QED
            BY <4>2, <5>1
        <4>6. QED
          BY <4>4, <4>5
      <3>4. CASE k \notin 1..Len(a)
        <4>1. k > Len(a)
          BY <1>2, <3>4
        <4>2. p[k] = b[k - Len(a)] /\ k - Len(a) \in 1..Len(b)
          BY <1>5, <4>1
        <4>3. k - Len(a) < l - Len(a)
          BY <1>2, <1>9
        <4>4. QED
          BY <1>3, <3>2, <4>2, <4>3
      <3>5. QED
        BY <3>3, <3>4
    <2>3. QED
      BY <2>1, <2>2
  <1>i. \A k \in 1..m : p[k] \in D /\ p[k] \in Int /\ k \in Int
    <2>1. \A i \in D : i \in Int
      BY <1>4
    <2>2. QED
      BY <1>7, <2>1
  <1> HIDE DEF m, D, queued
  <1>10. e \in [1..m -> Changes] /\ \A k \in 1..m : e[k] = History[p[k]]
    <2>1. \A k \in 1..m : queued[k].change = History[p[k]]
                          /\ History[p[k]] \in Changes
      BY <1>4, <1>6, <1>i
    <2>2. QED
      BY <1>6, <2>1
  <1> HIDE DEF e
  <1>11. ASSUME NEW k \in 1..m, NEW l \in 1..m,
                History[p[k]].file = History[p[l]].file
         PROVE  k < l <=> p[k] < p[l]
    <2>1. k \in Int /\ l \in Int /\ p[k] \in Int /\ p[l] \in Int
      BY <1>i
    <2>2. CASE k < l
      BY <1>9, <1>11, <2>2
    <2>3. CASE k = l
      BY <2>1, <2>3
    <2>4. CASE l < k
      <3>1. p[l] < p[k]
        BY <1>9, <1>11, <2>4
      <3>2. QED
        BY <2>1, <2>4, <3>1
    <2>5. QED
      BY <2>1, <2>2, <2>3, <2>4
  <1>12. Reorders(e, m, p, History, D)
    BY <1>7, <1>8, <1>10, <1>11 DEF Reorders
  <1>13. /\ Chained(History, D, TreeOf[worked])
         /\ EndsWith(History, D, TreeOf[worked], tree)
    BY DEF TreeShape, D
  <1>14. m \in Nat
    BY <1>5
  <1>15. /\ Chained(e, 1..m, TreeOf[worked])
         /\ EndsWith(e, 1..m, TreeOf[worked], tree)
    BY <1>12, <1>13, <1>14, ReorderedChain
  <1>16. Patched(e, TreeOf[worked]) = tree
    BY <1>1, <1>10, <1>14, <1>15, ChainGivesTree
  <1>17. QED
    BY <1>16 DEF e, queued

(***************************************************************************)
(* The patches of a run, applied again, generic ones first, give the tree  *)
(* the user has left, whatever he has committed and dropped, unless a      *)
(* generic commit follows one of the version that changes the same file    *)
(* (git.py:303-349, 380-421).                                              *)
(***************************************************************************)
THEOREM ReimportIsFaithful == PatchQueueSpec => []ReimportGivesTree
  <1>1. PatchQueueInit => TreeShape
    BY EmptyTree DEF PatchQueueInit
  <1>2. PatchQueueInv /\ TreeShape => ReimportGivesTree
    BY ReimportFromInv
  <1>3. PatchQueueSpec => []TreeShape
    BY <1>1, TreeNext, PatchQueueInvariant, PTL DEF PatchQueueSpec
  <1>4. QED
    BY <1>2, <1>3, PatchQueueInvariant, PTL
=============================================================================
