--------------------------- MODULE LfsAllocProofs ---------------------------
(***************************************************************************)
(* Proofs about LfsAlloc, for a disk of any number of blocks, a window and *)
(* blocks of any size, and any files: whatever the allocator hands out, no *)
(* file in the directory loses a piece, and a write is refused only when   *)
(* the disk really is full.                                                *)
(*                                                                         *)
(* The lists of blocks are recursive functions.  What they compute is      *)
(* proved by looking at the least number for which it would be wrong.      *)
(***************************************************************************)
EXTENDS LfsAlloc, WellFoundedInduction, SequenceTheorems, TLAPS

-----------------------------------------------------------------------------
(* Induction over natural numbers.  No prover here can instantiate the     *)
(* library's induction theorems; their least-element form (WFMin), which is *)
(* about sets, is enough.                                                  *)

(* A set of natural numbers has a least element.                           *)
LEMMA LeastNumber ==
  ASSUME NEW S \in SUBSET Nat, S # {}
  PROVE  \E x \in S : \A y \in S : x <= y
<1> DEFINE R == OpToRel(<, Nat)
<1>1. IsWellFoundedOn(R, Nat)
  BY NatLessThanWellFounded, Zenon
<1>2. \A x, y \in Nat : x < y => <<x, y>> \in R
  BY DEF OpToRel
<1> HIDE DEF R
<1>3. PICK x \in S : \A y \in S : ~(<<y, x>> \in R)
  BY <1>1, WFMin, Zenon
<1>4. \A y \in S : ~(y < x)
  BY <1>2, <1>3, Zenon
<1> QED
  BY <1>4

(* Induction: a set that holds a number when it holds all smaller ones     *)
(* holds them all.                                                         *)
LEMMA AllNumbers ==
  ASSUME NEW S,
         \A n \in Nat : (\A m \in 0..(n - 1) : m \in S) => n \in S
  PROVE  Nat \subseteq S
<1> SUFFICES ASSUME Nat \ S # {} PROVE FALSE
  OBVIOUS
<1>1. PICK x \in Nat \ S : \A y \in Nat \ S : x <= y
  BY LeastNumber
<1>2. \A m \in 0..(x - 1) : m \in S
  BY <1>1
<1> QED
  BY <1>1, <1>2

(* A recursive definition on 0..n has a solution, when what it says of a   *)
(* number depends on smaller ones only.                                    *)
Determined(D, n, T) ==
  /\ D \in [(0..n) \X [0..n -> T] -> T]
  /\ \A i \in 0..n : \A g, h \in [0..n -> T] :
       (\A j \in 0..(i - 1) : g[j] = h[j]) => D[<<i, g>>] = D[<<i, h>>]

Solution(D, n, T) ==
  CHOOSE g \in [0..n -> T] : \A i \in 0..n : g[i] = D[<<i, g>>]

LEMMA Recursion ==
  ASSUME NEW n \in Nat, NEW T, T # {}, NEW D, Determined(D, n, T)
  PROVE  /\ Solution(D, n, T) \in [0..n -> T]
         /\ \A i \in 0..n : Solution(D, n, T)[i] = D[<<i, Solution(D, n, T)>>]
<1> USE DEF Determined
<1> DEFINE G == [0..n -> T]
           Solves(g, m) == \A i \in 0..n : i < m => g[i] = D[<<i, g>>]
           Has(m) == \E g \in G : Solves(g, m)
           Good == {m \in Nat : m <= n + 1 => Has(m)}
<1>1. 0 \in Good
  <2>1. PICK t \in T : TRUE
    OBVIOUS
  <2>2. [i \in 0..n |-> t] \in G
    OBVIOUS
  <2>3. \A g \in G : Solves(g, 0)
    OBVIOUS
  <2> QED
    BY <2>2, <2>3
<1>2. ASSUME NEW k \in 0..n, k \in Good PROVE k + 1 \in Good
  <2>0. Has(k)
    <3> HIDE DEF Has
    <3> QED
      BY <1>2
  <2>1. PICK g \in G : Solves(g, k)
    BY <2>0
  <2> DEFINE h == [g EXCEPT ![k] = D[<<k, g>>]]
  <2>2. D[<<k, g>>] \in T
    OBVIOUS
  <2>3. h \in G /\ h[k] = D[<<k, g>>] /\ \A i \in 0..n : i # k => h[i] = g[i]
    BY <2>2
  <2> HIDE DEF h
  <2>4. ASSUME NEW i \in 0..n, i < k + 1 PROVE h[i] = D[<<i, h>>]
    <3>1. \A j \in 0..(i - 1) : g[j] = h[j]
      BY <2>3, <2>4
    <3>2. D[<<i, g>>] = D[<<i, h>>]
      BY <2>3, <3>1
    <3>3. CASE i = k
      BY <2>3, <3>2, <3>3
    <3>4. CASE i < k
      BY <2>1, <2>3, <3>2, <3>4
    <3> QED
      BY <2>4, <3>3, <3>4
  <2>5. Solves(h, k + 1)
    BY <2>4
  <2>6. Has(k + 1)
    BY <2>3, <2>5
  <2> HIDE DEF Has
  <2> QED
    BY <2>6
<1> HIDE DEF Has
<1>3. \A m \in Nat : (\A k \in 0..(m - 1) : k \in Good) => m \in Good
  <2> SUFFICES ASSUME NEW m \in Nat, \A k \in 0..(m - 1) : k \in Good PROVE m \in Good
    OBVIOUS
  <2>1. CASE m = 0
    BY <1>1, <2>1
  <2>2. CASE m > n + 1
    BY <2>2
  <2>3. CASE m > 0 /\ m <= n + 1
    <3>1. m - 1 \in 0..n /\ m - 1 \in Good /\ (m - 1) + 1 = m
      BY <2>3
    <3> HIDE DEF Good
    <3> QED
      BY <1>2, <3>1
  <2> HIDE DEF Good
  <2> QED
    BY <2>1, <2>2, <2>3
<1>4. n + 1 \in Good
  <2> HIDE DEF Good
  <2> QED
    BY <1>3, AllNumbers
<1>5. Has(n + 1)
  BY <1>4
<1>6. PICK g \in G : Solves(g, n + 1)
  BY <1>5 DEF Has
<1>7. \A i \in 0..n : g[i] = D[<<i, g>>]
  BY <1>6
<1> QED
  BY <1>7 DEF Solution

-----------------------------------------------------------------------------
(* How far the pointers of a block lead back: Distances and Hop.           *)

(* The distances satisfy their definition.                                 *)
LEMMA DistancesAre ==
  /\ Distances \in [0..MaxSize -> SUBSET Nat]
  /\ \A i \in 0..MaxSize :
       Distances[i] = IF i = 0 THEN {}
                      ELSE {1} \cup (IF i % 2 = 0 THEN {2 * d : d \in Distances[i \div 2]} ELSE {})
<1> DEFINE T == SUBSET Nat
           G == [0..MaxSize -> T]
           Body(i, g) == IF i = 0 THEN {}
                         ELSE {1} \cup (IF i % 2 = 0 THEN {2 * d : d \in g[i \div 2]} ELSE {})
           D == [p \in (0..MaxSize) \X G |-> Body(p[1], p[2])]
<1>0. MaxSize \in Nat
  BY AllocAssumption
<1>1. \A i \in 0..MaxSize : i # 0 => i \div 2 \in 0..(i - 1)
  BY <1>0
<1>2. \A i \in 0..MaxSize, g \in G : Body(i, g) \in T
  <2> SUFFICES ASSUME NEW i \in 0..MaxSize, NEW g \in G, i # 0 PROVE Body(i, g) \in T
    OBVIOUS
  <2>1. i \div 2 \in 0..MaxSize
    BY <1>0, <1>1
  <2>2. g[i \div 2] \subseteq Nat
    BY <2>1
  <2>3. {2 * d : d \in g[i \div 2]} \subseteq Nat
    BY <2>2
  <2> QED
    BY <2>3
<1>3. D \in [(0..MaxSize) \X G -> T]
  BY <1>2
<1>4. \A i \in 0..MaxSize, g \in G : D[<<i, g>>] = Body(i, g)
  OBVIOUS
<1>5. ASSUME NEW i \in 0..MaxSize, NEW g \in G, NEW h \in G, \A j \in 0..(i - 1) : g[j] = h[j]
      PROVE  Body(i, g) = Body(i, h)
  BY <1>1, <1>5
<1> HIDE DEF D, Body, T
<1>6. Determined(D, MaxSize, T)
  <2> SUFFICES ASSUME NEW i \in 0..MaxSize, NEW g \in G, NEW h \in G,
                      \A j \in 0..(i - 1) : g[j] = h[j]
               PROVE  D[<<i, g>>] = D[<<i, h>>]
    BY <1>3, Zenon DEF Determined
  <2>1. Body(i, g) = Body(i, h)
    BY <1>5
  <2>2. D[<<i, g>>] = Body(i, g) /\ D[<<i, h>>] = Body(i, h)
    BY <1>4
  <2> QED
    BY <2>1, <2>2
<1>7. T # {}
  BY DEF T
<1> DEFINE g == Solution(D, MaxSize, T)
<1>8. g \in G /\ \A i \in 0..MaxSize : g[i] = D[<<i, g>>]
  BY <1>0, <1>6, <1>7, Recursion
<1> HIDE DEF g
<1>9. g = [i \in 0..MaxSize |-> Body(i, g)]
  BY <1>4, <1>8
<1>10. Distances = CHOOSE d : d = [i \in 0..MaxSize |-> Body(i, d)]
  BY DEF Distances, Body
<1>11. Distances = [i \in 0..MaxSize |-> Body(i, Distances)]
  BY <1>9, <1>10
<1>12. \A i \in 0..MaxSize : Distances[i] = Body(i, Distances)
  BY <1>11
<1>13. Distances \in [0..MaxSize -> SUBSET Nat]
  <2> DEFINE S == {i \in Nat : i <= MaxSize => Distances[i] \in SUBSET Nat}
  <2>1. ASSUME NEW i \in Nat, \A j \in 0..(i - 1) : j \in S PROVE i \in S
    <3> SUFFICES ASSUME i \in 0..MaxSize PROVE Distances[i] \subseteq Nat
      BY <1>0
    <3>1. Distances[i] = Body(i, Distances)
      BY <1>12
    <3>2. CASE i = 0
      BY <3>1, <3>2 DEF Body
    <3>3. CASE i # 0
      <4>1. i \div 2 \in S /\ i \div 2 <= MaxSize
        BY <1>0, <1>1, <2>1, <3>3
      <4>2. {2 * d : d \in Distances[i \div 2]} \subseteq Nat
        BY <4>1
      <4> QED
        BY <3>1, <3>3, <4>2 DEF Body
    <3> QED
      BY <3>2, <3>3
  <2> HIDE DEF S
  <2>2. Nat \subseteq S
    BY <2>1, AllNumbers
  <2> QED
    BY <1>0, <1>11, <2>2 DEF S
<1> QED
  BY <1>12, <1>13 DEF Body

(* Division by two.                                                        *)
LEMMA Halves ==
  ASSUME NEW i \in Nat, i % 2 = 0, i # 0
  PROVE  i \div 2 \in 1..(i - 1) /\ i = 2 * (i \div 2)
OBVIOUS

(* What the distances of a block are.                                      *)
LEMMA DistancesOfZero == Distances[0] = {}
BY DistancesAre, AllocAssumption

LEMMA DistanceCases ==
  ASSUME NEW i \in 1..MaxSize, NEW d
  PROVE  d \in Distances[i] <=>
           \/ d = 1
           \/ i % 2 = 0 /\ \E e \in Distances[i \div 2] : d = 2 * e
BY DistancesAre, AllocAssumption

LEMMA DistanceBounds ==
  ASSUME NEW i \in 0..MaxSize
  PROVE  \A d \in Distances[i] : d \in 1..i
<1> DEFINE S == {k \in Nat : k <= MaxSize => \A d \in Distances[k] : d \in 1..k}
<1>0. MaxSize \in Nat
  BY AllocAssumption
<1>1. ASSUME NEW k \in Nat, \A m \in 0..(k - 1) : m \in S
      PROVE  k \in S
  <2> SUFFICES ASSUME k <= MaxSize, NEW d \in Distances[k] PROVE d \in 1..k
    OBVIOUS
  <2>1. k # 0
    BY DistancesOfZero
  <2>2. CASE d = 1
    BY <2>1, <2>2
  <2>3. CASE k % 2 = 0 /\ \E e \in Distances[k \div 2] : d = 2 * e
    <3>1. k \div 2 \in 1..(k - 1) /\ k = 2 * (k \div 2)
      BY <2>1, <2>3, Halves
    <3>2. PICK e \in Distances[k \div 2] : d = 2 * e
      BY <2>3
    <3>3. k \div 2 \in S /\ k \div 2 <= MaxSize
      BY <1>0, <1>1, <3>1
    <3>4. e \in 1..(k \div 2)
      BY <3>2, <3>3
    <3> QED
      BY <3>1, <3>2, <3>4
  <2> QED
    BY <1>0, <2>1, <2>2, <2>3, DistanceCases
<1> HIDE DEF S
<1>2. Nat \subseteq S
  BY <1>1, AllNumbers
<1> QED
  BY <1>0, <1>2 DEF S

LEMMA FirstDistance ==
  ASSUME NEW i \in 1..MaxSize
  PROVE  1 \in Distances[i]
BY DistanceCases

(* A block whose index is even has a second pointer.                       *)
LEMMA SecondDistance ==
  ASSUME NEW i \in 1..MaxSize, i % 2 = 0
  PROVE  2 \in Distances[i]
<1>0. MaxSize \in Nat
  BY AllocAssumption
<1>1. i \div 2 \in 1..MaxSize
  BY <1>0, Halves
<1>2. 1 \in Distances[i \div 2] /\ 2 = 2 * 1
  BY <1>1, FirstDistance
<1> QED
  BY <1>2, DistanceCases

(* A distance above one is twice another one of the block, which is also a *)
(* distance of the block it leads to: so the pointers of a new block can   *)
(* be collected one behind the other.                                      *)
LEMMA DoubledDistance ==
  ASSUME NEW i \in 0..MaxSize
  PROVE  \A d \in Distances[i] \ {1} :
           /\ d % 2 = 0 /\ d \div 2 \in Distances[i]
           /\ i - (d \div 2) \in 0..MaxSize
           /\ d \div 2 \in Distances[i - (d \div 2)]
<1> DEFINE P(k, e) == e \in Distances[k] /\ k - e \in 0..MaxSize /\ e \in Distances[k - e]
           S == {k \in Nat : k <= MaxSize => \A e : 2 * e \in Distances[k] /\ e \in Nat => P(k, e)}
<1>0. MaxSize \in Nat
  BY AllocAssumption
<1>1. ASSUME NEW k \in Nat, \A m \in 0..(k - 1) : m \in S
      PROVE  k \in S
  <2> SUFFICES ASSUME k <= MaxSize, NEW e \in Nat, 2 * e \in Distances[k] PROVE P(k, e)
    OBVIOUS
  <2>1. k # 0
    BY DistancesOfZero
  <2>2. 2 * e # 1
    OBVIOUS
  <2>3. k % 2 = 0 /\ e \in Distances[k \div 2]
    <3>1. PICK g \in Distances[k \div 2] : k % 2 = 0 /\ 2 * e = 2 * g
      BY <1>0, <2>1, <2>2, DistanceCases
    <3>2. k \div 2 \in 0..MaxSize
      BY <1>0
    <3>3. g \in Nat
      BY <3>1, <3>2, DistancesAre
    <3>4. e = g
      BY <3>1, <3>3
    <3> QED
      BY <3>1, <3>4
  <2>4. k \div 2 \in 1..(k - 1) /\ k = 2 * (k \div 2)
    BY <2>1, <2>3, Halves
  <2> DEFINE h == k \div 2
  <2>5. h \in 1..(k - 1) /\ k = 2 * h /\ h <= MaxSize /\ h \in S /\ h \in 0..MaxSize
    BY <1>0, <1>1, <2>4
  <2>6. e \in 1..h
    BY <2>3, <2>5, DistanceBounds
  <2>7. k - e \in 1..MaxSize
    BY <1>0, <2>5, <2>6
  <2> HIDE DEF h
  <2>8. CASE e = 1
    BY <1>0, <2>1, <2>7, <2>8, FirstDistance
  <2>9. CASE e # 1
    <3>1. h % 2 = 0 /\ \E g \in Distances[h \div 2] : e = 2 * g
      BY <1>0, <2>3, <2>5, <2>9, DistanceCases DEF h
    <3>2. PICK g \in Distances[h \div 2] : e = 2 * g
      BY <3>1
    <3>3. g \in Nat
      <4>1. h \div 2 \in 0..MaxSize
        BY <1>0, <2>5
      <4> QED
        BY <3>2, <4>1, DistancesAre
    <3>4. 2 * g \in Distances[h]
      BY <2>3, <3>2 DEF h
    <3>5. P(h, g)
      <4>1. \A x : 2 * x \in Distances[h] /\ x \in Nat => P(h, x)
        BY <2>5
      <4> HIDE DEF P
      <4> QED
        BY <4>1, <3>3, <3>4
    <3>6. (k - e) % 2 = 0 /\ (k - e) \div 2 = h - g
      BY <2>5, <3>2, <3>3
    <3>7. e \in Distances[k - e]
      BY <2>7, <3>2, <3>5, <3>6, DistanceCases
    <3>8. e \in Distances[k]
      BY <1>0, <2>1, <2>3, <2>5, <3>2, <3>5, DistanceCases DEF h
    <3> QED
      BY <1>0, <2>7, <3>7, <3>8
  <2> QED
    BY <2>8, <2>9
<1>2. Nat \subseteq S
  <2> HIDE DEF S
  <2> QED
    BY <1>1, AllNumbers
<1>3. ASSUME NEW d \in Distances[i], d # 1
      PROVE  d % 2 = 0 /\ P(i, d \div 2)
  <2>1. i # 0
    BY <1>3, DistancesOfZero
  <2>2. PICK e \in Distances[i \div 2] : i % 2 = 0 /\ d = 2 * e
    BY <1>0, <1>3, <2>1, DistanceCases
  <2>3. e \in Nat
    <3>1. i \div 2 \in 0..MaxSize
      BY <1>0
    <3> QED
      BY <2>2, <3>1, DistancesAre
  <2>4. d % 2 = 0 /\ d \div 2 = e
    BY <2>2, <2>3
  <2>5. i \in S
    BY <1>0, <1>2
  <2>6. \A x : 2 * x \in Distances[i] /\ x \in Nat => P(i, x)
    BY <1>0, <2>5
  <2>7. P(i, e)
    <3> HIDE DEF P
    <3> QED
      BY <1>3, <2>2, <2>3, <2>6
  <2> QED
    BY <2>4, <2>7
<1> QED
  BY <1>3

-----------------------------------------------------------------------------
(* Lists of blocks.  Chain says that a sequence of blocks is linked by its *)
(* pointers; lfs_ctz_find and lfs_ctz_traverse follow the links.           *)

(* The place of a file's n-th piece in its block.                          *)
Position(n) == ((n - 1) % PerBlock) + 1

(* What holds of a store: pointers lead to blocks.                         *)
Points(store) ==
  \A b \in Blocks : \A d \in DOMAIN store[b].ptrs : store[b].ptrs[d] \in Blocks

(* The blocks 0..n of a file, each with its pointers.                      *)
Chain(store, c, n) ==
  /\ c \in [0..n -> Blocks]
  /\ \A i \in 0..n :
       /\ DOMAIN store[c[i]].ptrs = Distances[i]
       /\ \A d \in Distances[i] : store[c[i]].ptrs[d] = c[i - d]

LEMMA SizesAreNumbers ==
  /\ MaxSize \in Nat /\ BlockCount \in Nat /\ BlockCount > 2 /\ PerBlock \in Nat \ {0}
  /\ InlineMax \in 0..PerBlock /\ Window \in 1..BlockCount /\ NoBlock \notin Blocks
BY AllocAssumption DEF NoBlock, Blocks

(* The pointer that lfs_ctz_find follows.                                  *)
LEMMA HopLeadsBack ==
  ASSUME NEW i \in 1..MaxSize, NEW target \in 0..(i - 1)
  PROVE  /\ Hop(i, target) \in Distances[i]
         /\ Hop(i, target) \in 1..(i - target)
         /\ i - Hop(i, target) \in target..(i - 1)
<1> DEFINE S == {d \in Distances[i] : d <= i - target}
           T == {i - d : d \in S}
<1>0. MaxSize \in Nat
  BY AllocAssumption
<1>1. \A d \in Distances[i] : d \in 1..i
  BY <1>0, DistanceBounds
<1>2. 1 \in S
  BY <1>0, FirstDistance
<1>3. T \in SUBSET Nat /\ T # {}
  BY <1>1, <1>2
<1>4. PICK t \in T : \A u \in T : t <= u
  BY <1>3, LeastNumber
<1>5. PICK x \in S : t = i - x
  BY <1>4
<1>6. ASSUME NEW y \in S PROVE x >= y
  <2>1. i - y \in T
    OBVIOUS
  <2>2. i - x <= i - y
    BY <1>4, <1>5, <2>1
  <2>3. x \in Nat /\ y \in Nat
    BY <1>1
  <2> QED
    BY <1>0, <2>2, <2>3
<1>7. Hop(i, target) \in S
  BY <1>5, <1>6 DEF Hop, Max
<1> QED
  BY <1>0, <1>1, <1>7

(* lfs_ctz_find finds the block of the file it looks for.                  *)
LEMMA FindFinds ==
  ASSUME NEW store, NEW c, NEW n \in 0..MaxSize, NEW target \in 0..n,
         Points(store), Chain(store, c, n)
  PROVE  Find(store, c[n], n, target) = c[target]
<1> DEFINE T == [Blocks -> Blocks \cup {NoBlock}]
           G == [0..n -> T]
           Body(i, g) ==
             [b \in Blocks |->
               IF i <= target THEN b
               ELSE IF Hop(i, target) \in DOMAIN store[b].ptrs
                    THEN g[i - Hop(i, target)][store[b].ptrs[Hop(i, target)]]
                    ELSE NoBlock]
           D == [p \in (0..n) \X G |-> Body(p[1], p[2])]
<1>0. n \in Nat /\ MaxSize \in Nat
  BY AllocAssumption
<1>1. ASSUME NEW i \in 0..n, ~(i <= target)
      PROVE  /\ Hop(i, target) \in Distances[i]
             /\ i - Hop(i, target) \in 0..(i - 1)
             /\ i - Hop(i, target) \in target..n
  BY <1>0, <1>1, HopLeadsBack
<1>2. \A i \in 0..n, g \in G : Body(i, g) \in T
  <2> SUFFICES ASSUME NEW i \in 0..n, NEW g \in G, NEW b \in Blocks,
                      ~(i <= target), Hop(i, target) \in DOMAIN store[b].ptrs
               PROVE  g[i - Hop(i, target)][store[b].ptrs[Hop(i, target)]] \in Blocks \cup {NoBlock}
    OBVIOUS
  <2>1. i - Hop(i, target) \in 0..n
    BY <1>0, <1>1
  <2>2. store[b].ptrs[Hop(i, target)] \in Blocks
    BY DEF Points
  <2> QED
    BY <2>1, <2>2
<1>3. D \in [(0..n) \X G -> T]
  BY <1>2, SMTT(30)
<1>4. \A i \in 0..n, g \in G : D[<<i, g>>] = Body(i, g)
  OBVIOUS
<1>5. ASSUME NEW i \in 0..n, NEW g \in G, NEW h \in G, \A j \in 0..(i - 1) : g[j] = h[j]
      PROVE  Body(i, g) = Body(i, h)
  BY <1>1, <1>5
<1> HIDE DEF D, Body, T
<1>6. Determined(D, n, T)
  <2> SUFFICES ASSUME NEW i \in 0..n, NEW g \in G, NEW h \in G,
                      \A j \in 0..(i - 1) : g[j] = h[j]
               PROVE  D[<<i, g>>] = D[<<i, h>>]
    BY <1>3, Zenon DEF Determined
  <2>1. Body(i, g) = Body(i, h)
    BY <1>5
  <2> QED
    BY <1>4, <2>1
<1>7. T # {}
  <2>1. [b \in Blocks |-> NoBlock] \in T
    BY DEF T
  <2> QED
    BY <2>1
<1> DEFINE g == Solution(D, n, T)
<1>8. g \in G /\ \A i \in 0..n : g[i] = D[<<i, g>>]
  BY <1>0, <1>6, <1>7, Recursion, ZenonT(30)
<1> HIDE DEF g
<1>9. g = [i \in 0..n |-> Body(i, g)]
  BY <1>4, <1>8
<1> DEFINE from == CHOOSE d : d = [i \in 0..n |-> Body(i, d)]
<1>10. from = [i \in 0..n |-> Body(i, from)]
  BY <1>9
<1> HIDE DEF from
<1>11. \A i \in 0..n : \A b \in Blocks :
         from[i][b] = IF i <= target THEN b
                      ELSE IF Hop(i, target) \in DOMAIN store[b].ptrs
                      THEN from[i - Hop(i, target)][store[b].ptrs[Hop(i, target)]]
                      ELSE NoBlock
  <2>1. \A i \in 0..n : from[i] = Body(i, from)
    BY <1>10
  <2> QED
    BY <2>1, Zenon DEF Body
<1>12. c \in [0..n -> Blocks]
  BY DEF Chain
<1> DEFINE S == {i \in Nat : i \in target..n => from[i][c[i]] = c[target]}
<1>13. ASSUME NEW i \in Nat, \A m \in 0..(i - 1) : m \in S
       PROVE  i \in S
  <2> SUFFICES ASSUME i \in target..n PROVE from[i][c[i]] = c[target]
    OBVIOUS
  <2>1. i \in 0..n /\ c[i] \in Blocks
    BY <1>12
  <2>2. CASE i = target
    BY <1>11, <2>1, <2>2
  <2>3. CASE ~(i <= target)
    <3> DEFINE d == Hop(i, target)
    <3>1. d \in Distances[i] /\ i - d \in 0..(i - 1) /\ i - d \in target..n
      BY <1>1, <2>1, <2>3
    <3>2. DOMAIN store[c[i]].ptrs = Distances[i] /\ store[c[i]].ptrs[d] = c[i - d]
      BY <2>1, <3>1 DEF Chain
    <3>3. from[i][c[i]] = from[i - d][c[i - d]]
      BY <1>11, <2>1, <2>3, <3>1, <3>2
    <3>4. i - d \in S
      BY <1>13, <3>1
    <3> QED
      BY <3>1, <3>3, <3>4
  <2> QED
    BY <2>2, <2>3
<1> HIDE DEF S
<1>14. Nat \subseteq S
  BY <1>13, AllNumbers
<1>15. from[n][c[n]] = c[target]
  BY <1>0, <1>14 DEF S
<1>16. Find(store, c[n], n, target) = IF c[n] \in Blocks THEN from[n][c[n]] ELSE NoBlock
  BY DEF Find, from, Body
<1>17. c[n] \in Blocks
  BY <1>0, <1>12
<1> QED
  BY <1>15, <1>16, <1>17

(* lfs_ctz_traverse as a function of the index and the block it starts at. *)
Visits(from, store, n) ==
  /\ \A i \in 0..n : \A b \in Blocks :
       from[i][b] =
         {b} \cup IF i = 0 \/ Reads(i) \notin DOMAIN store[b].ptrs THEN {}
                  ELSE {store[b].ptrs[d] : d \in 1..Reads(i)}
                         \cup from[i - Reads(i)][store[b].ptrs[Reads(i)]]
  /\ \A b \in Blocks : Visit(store, b, n) = from[n][b]

LEMMA VisitUnfolds ==
  ASSUME NEW store, Points(store), NEW n \in Nat
  PROVE  \E from : Visits(from, store, n)
<1> DEFINE X == Blocks \cup {store[b].ptrs[d] : b \in Blocks, d \in {1, 2}}
           T == [Blocks -> SUBSET X]
           G == [0..n -> T]
           Next_(i, g, b) ==
               {b} \cup IF i = 0 \/ Reads(i) \notin DOMAIN store[b].ptrs THEN {}
                        ELSE {store[b].ptrs[d] : d \in 1..Reads(i)}
                               \cup g[i - Reads(i)][store[b].ptrs[Reads(i)]]
           Body(i, g) == [b \in Blocks |-> Next_(i, g, b)]
           D == [p \in (0..n) \X G |-> Body(p[1], p[2])]
<1>1. \A i \in 0..n : i # 0 => Reads(i) \in {1, 2} /\ i - Reads(i) \in 0..(i - 1)
      /\ i - Reads(i) \in 0..n
  BY DEF Reads
<1>2. ASSUME NEW i \in 0..n, NEW g \in G, NEW b \in Blocks PROVE Next_(i, g, b) \subseteq X
  <2>1. b \in X
    OBVIOUS
  <2>2. CASE i = 0 \/ Reads(i) \notin DOMAIN store[b].ptrs
    BY <2>1, <2>2
  <2>3. CASE i # 0 /\ Reads(i) \in DOMAIN store[b].ptrs
    <3>1. store[b].ptrs[Reads(i)] \in Blocks
      BY <2>3 DEF Points
    <3>2. g[i - Reads(i)] \in T
      BY <1>1, <2>3
    <3>3. g[i - Reads(i)][store[b].ptrs[Reads(i)]] \subseteq X
      <4> HIDE DEF X
      <4> QED
        BY <3>1, <3>2
    <3>4. {store[b].ptrs[d] : d \in 1..Reads(i)} \subseteq X
      <4>1. Reads(i) \in {1, 2}
        BY <1>1, <2>3
      <4>2. \A d \in 1..Reads(i) : d \in {1, 2}
        BY <4>1
      <4> QED
        BY <4>2
    <3> HIDE DEF X
    <3> QED
      BY <2>1, <2>3, <3>3, <3>4
  <2> QED
    BY <2>2, <2>3
<1>3. \A i \in 0..n, g \in G : Body(i, g) \in T
  <2> HIDE DEF X, Next_
  <2> QED
    BY <1>2
<1>4. D \in [(0..n) \X G -> T]
  <2> HIDE DEF T, Body
  <2> QED
    BY <1>3
<1>5. \A i \in 0..n, g \in G : D[<<i, g>>] = Body(i, g)
  <2> HIDE DEF T, Body
  <2> QED
    OBVIOUS
<1>6. ASSUME NEW i \in 0..n, NEW g \in G, NEW h \in G, \A j \in 0..(i - 1) : g[j] = h[j]
      PROVE  Body(i, g) = Body(i, h)
  <2>1. \A b \in Blocks : Next_(i, g, b) = Next_(i, h, b)
    BY <1>1, <1>6
  <2> HIDE DEF Next_
  <2> QED
    BY <2>1
<1> HIDE DEF D, Body, T
<1>7. Determined(D, n, T)
  <2> SUFFICES ASSUME NEW i \in 0..n, NEW g \in G, NEW h \in G,
                      \A j \in 0..(i - 1) : g[j] = h[j]
               PROVE  D[<<i, g>>] = D[<<i, h>>]
    BY <1>4, Zenon DEF Determined
  <2>1. Body(i, g) = Body(i, h)
    BY <1>6
  <2> QED
    BY <1>5, <2>1
<1>8. T # {}
  <2>1. [b \in Blocks |-> {}] \in T
    BY DEF T
  <2> QED
    BY <2>1
<1> DEFINE g == Solution(D, n, T)
<1>9. g \in G /\ \A i \in 0..n : g[i] = D[<<i, g>>]
  BY <1>7, <1>8, Recursion
<1> HIDE DEF g
<1>10. g = [i \in 0..n |-> Body(i, g)]
  BY <1>5, <1>9
<1> DEFINE from == CHOOSE d : d = [i \in 0..n |-> Body(i, d)]
<1>11. from = [i \in 0..n |-> Body(i, from)]
  BY <1>10
<1>12. \A b \in Blocks : Visit(store, b, n) = from[n][b]
  BY DEF Visit, Body
<1> HIDE DEF from
<1>13. ASSUME NEW i \in 0..n, NEW b \in Blocks PROVE from[i][b] = Next_(i, from, b)
  <2>1. from[i] = Body(i, from)
    BY <1>11
  <2> HIDE DEF Next_
  <2> QED
    BY <2>1 DEF Body
<1>14. Visits(from, store, n)
  BY <1>12, <1>13 DEF Visits
<1> QED
  BY <1>14

(* From any block of a file lfs_ctz_traverse stays within the blocks up to *)
(* it, whatever index it is given.                                         *)
LEMMA VisitWithin ==
  ASSUME NEW store, NEW c, NEW n \in 0..MaxSize, Points(store), Chain(store, c, n),
         NEW k \in Nat, NEW j \in 0..n
  PROVE  Visit(store, c[j], k) \subseteq {c[i] : i \in 0..j}
<1>0. n \in Nat /\ MaxSize \in Nat
  BY AllocAssumption
<1>1. PICK from : Visits(from, store, k)
  BY VisitUnfolds
<1> USE DEF Visits
<1>2. c \in [0..n -> Blocks]
  BY DEF Chain
<1> DEFINE S == {i \in Nat : i <= k => \A m \in 0..n : from[i][c[m]] \subseteq {c[q] : q \in 0..m}}
<1>3. ASSUME NEW i \in Nat, \A p \in 0..(i - 1) : p \in S
      PROVE  i \in S
  <2> SUFFICES ASSUME i \in 0..k, NEW m \in 0..n PROVE from[i][c[m]] \subseteq {c[q] : q \in 0..m}
    OBVIOUS
  <2>1. c[m] \in Blocks /\ c[m] \in {c[q] : q \in 0..m}
    BY <1>0, <1>2
  <2>2. DOMAIN store[c[m]].ptrs = Distances[m]
    BY DEF Chain
  <2>3. CASE i = 0 \/ Reads(i) \notin Distances[m]
    <3>1. from[i][c[m]] = {c[m]}
      BY <1>1, <2>1, <2>2, <2>3
    <3> QED
      BY <2>1, <3>1
  <2>4. CASE i # 0 /\ Reads(i) \in Distances[m]
    <3>1. Reads(i) \in {1, 2} /\ i - Reads(i) \in 0..(i - 1)
      BY <2>4 DEF Reads
    <3>2. m \in 0..MaxSize /\ \A d \in Distances[m] : d \in 1..m
      BY <1>0, DistanceBounds
    <3>3. \A d \in 1..Reads(i) : d \in Distances[m]
      <4>1. m \in 1..MaxSize
        BY <2>4, <3>2
      <4> QED
        BY <2>4, <3>1, <4>1, FirstDistance
    <3>4. \A d \in 1..Reads(i) : store[c[m]].ptrs[d] = c[m - d] /\ m - d \in 0..m
      BY <3>2, <3>3 DEF Chain
    <3>5. {store[c[m]].ptrs[d] : d \in 1..Reads(i)} \subseteq {c[q] : q \in 0..m}
      BY <3>4
    <3> DEFINE e == m - Reads(i)
    <3>6. e \in 0..m /\ e \in 0..n /\ store[c[m]].ptrs[Reads(i)] = c[e]
      BY <1>0, <3>1, <3>2, <3>4
    <3>7. i - Reads(i) \in S /\ i - Reads(i) <= k
      BY <1>3, <3>1
    <3> HIDE DEF e
    <3>8. from[i - Reads(i)][c[e]] \subseteq {c[q] : q \in 0..e}
      BY <3>6, <3>7
    <3>9. {c[q] : q \in 0..e} \subseteq {c[q] : q \in 0..m}
      BY <3>6
    <3>10. from[i][c[m]] = {c[m]} \cup {store[c[m]].ptrs[d] : d \in 1..Reads(i)}
                             \cup from[i - Reads(i)][c[e]]
      BY <1>1, <2>1, <2>2, <2>4, <3>6
    <3> QED
      BY <2>1, <3>5, <3>8, <3>9, <3>10
  <2> QED
    BY <2>3, <2>4
<1> HIDE DEF S
<1>4. Nat \subseteq S
  BY <1>3, AllNumbers
<1>5. c[j] \in Blocks
  BY <1>2
<1> QED
  BY <1>1, <1>4, <1>5 DEF S

(* From its last block it visits them all.                                 *)
LEMMA VisitAll ==
  ASSUME NEW store, NEW c, NEW n \in 0..MaxSize, Points(store), Chain(store, c, n)
  PROVE  Visit(store, c[n], n) = {c[i] : i \in 0..n}
<1>0. n \in Nat /\ MaxSize \in Nat
  BY AllocAssumption
<1>1. PICK from : Visits(from, store, n)
  BY <1>0, VisitUnfolds
<1> USE DEF Visits
<1>2. c \in [0..n -> Blocks]
  BY DEF Chain
<1> DEFINE S == {i \in Nat : i <= n => \A q \in 0..i : c[q] \in from[i][c[i]]}
<1>3. ASSUME NEW i \in Nat, \A p \in 0..(i - 1) : p \in S
      PROVE  i \in S
  <2> SUFFICES ASSUME i \in 0..n, NEW q \in 0..i PROVE c[q] \in from[i][c[i]]
    OBVIOUS
  <2>1. c[i] \in Blocks /\ DOMAIN store[c[i]].ptrs = Distances[i]
    BY <1>2 DEF Chain
  <2>2. CASE q = i
    BY <1>1, <2>1, <2>2
  <2>3. CASE q < i
    <3>1. Reads(i) \in {1, 2} /\ i - Reads(i) \in 0..(i - 1) /\ i # 0
      BY <2>3 DEF Reads
    <3>2. Reads(i) \in Distances[i] /\ 1 \in Distances[i]
      <4>1. i \in 1..MaxSize
        BY <1>0, <3>1
      <4>2. CASE i % 2 = 0
        BY <4>1, <4>2, SecondDistance, FirstDistance DEF Reads
      <4>3. CASE i % 2 = 1
        BY <4>1, <4>3, FirstDistance DEF Reads
      <4> QED
        BY <4>1, <4>2, <4>3
    <3>3. store[c[i]].ptrs[1] = c[i - 1] /\ store[c[i]].ptrs[Reads(i)] = c[i - Reads(i)]
      BY <3>2 DEF Chain
    <3>4. from[i][c[i]] = {c[i]} \cup {store[c[i]].ptrs[d] : d \in 1..Reads(i)}
                            \cup from[i - Reads(i)][c[i - Reads(i)]]
      BY <1>1, <2>1, <3>1, <3>2, <3>3
    <3>5. i - Reads(i) \in S
      BY <1>3, <3>1
    <3>6. CASE q <= i - Reads(i)
      <4>1. c[q] \in from[i - Reads(i)][c[i - Reads(i)]]
        BY <3>1, <3>5, <3>6
      <4> QED
        BY <3>4, <4>1
    <3>7. CASE q = i - 1
      <4>1. c[q] \in {store[c[i]].ptrs[d] : d \in 1..Reads(i)}
        BY <3>1, <3>3, <3>7
      <4> QED
        BY <3>4, <4>1
    <3> QED
      BY <2>3, <3>1, <3>6, <3>7
  <2> QED
    BY <2>2, <2>3
<1> HIDE DEF S
<1>4. Nat \subseteq S
  BY <1>3, AllNumbers
<1>5. \A q \in 0..n : c[q] \in from[n][c[n]]
  BY <1>0, <1>4 DEF S
<1>6. c[n] \in Blocks
  BY <1>0, <1>2
<1>7. {c[i] : i \in 0..n} \subseteq Visit(store, c[n], n)
  BY <1>1, <1>5, <1>6
<1>8. Visit(store, c[n], n) \subseteq {c[i] : i \in 0..n}
  BY <1>0, VisitWithin
<1> QED
  BY <1>7, <1>8

(* The pointers that lfs_ctz_extend collects for a new last block.         *)
LEMMA SkipsAre ==
  ASSUME NEW store, NEW c, NEW n \in 0..MaxSize, n + 1 <= MaxSize,
         Points(store), Chain(store, c, n)
  PROVE  /\ DOMAIN Skips(store, c[n], n + 1) = Distances[n + 1]
         /\ \A d \in Distances[n + 1] :
              Skips(store, c[n], n + 1)[d] = c[(n + 1) - d] /\ c[(n + 1) - d] \in Blocks
<1> DEFINE m == n + 1
           Right(p) == \A d \in Distances[m] :
                         p[d] = IF d = 1 THEN c[n] ELSE store[p[d \div 2]].ptrs[d \div 2]
           s == [d \in Distances[m] |-> c[m - d]]
<1>0. n \in Nat /\ MaxSize \in Nat /\ m \in 1..MaxSize /\ m \in 0..MaxSize
  BY AllocAssumption
<1>1. c \in [0..n -> Blocks]
  BY DEF Chain
<1>2. \A d \in Distances[m] : d \in 1..m
  BY <1>0, DistanceBounds
<1>3. \A d \in Distances[m] \ {1} :
        d % 2 = 0 /\ d \div 2 \in Distances[m] /\ d \div 2 \in Distances[m - (d \div 2)]
  BY <1>0, DoubledDistance
<1>4. ASSUME NEW d \in Distances[m], d # 1
      PROVE  /\ d \div 2 \in Distances[m] /\ d \div 2 \in 1..(d - 1)
             /\ store[c[m - (d \div 2)]].ptrs[d \div 2] = c[m - d]
  <2> DEFINE e == d \div 2
  <2>1. d % 2 = 0 /\ e \in Distances[m] /\ e \in Distances[m - e] /\ d \in 1..m
    BY <1>2, <1>3, <1>4
  <2>2. d = 2 * e /\ e \in 1..(d - 1) /\ m - e \in 0..n /\ (m - e) - e = m - d
    BY <1>0, <2>1
  <2>3. store[c[m - e]].ptrs[e] = c[(m - e) - e]
    BY <2>1, <2>2 DEF Chain
  <2> QED
    BY <2>1, <2>2, <2>3
<1>5. s \in [Distances[m] -> Blocks]
  BY <1>0, <1>1, <1>2
<1>6. Right(s)
  <2> SUFFICES ASSUME NEW d \in Distances[m]
               PROVE  s[d] = IF d = 1 THEN c[n] ELSE store[s[d \div 2]].ptrs[d \div 2]
    OBVIOUS
  <2>1. CASE d = 1
    BY <1>0, <2>1
  <2>2. CASE d # 1
    BY <1>4, <2>2
  <2> QED
    BY <2>1, <2>2
<1>7. Skips(store, c[n], m) \in [Distances[m] -> Blocks] /\ Right(Skips(store, c[n], m))
  <2> HIDE DEF s
  <2> QED
    BY <1>5, <1>6, Zenon DEF Skips
<1> DEFINE p == Skips(store, c[n], m)
           S == {d \in Nat : d \in Distances[m] => p[d] = c[m - d]}
<1> HIDE DEF p
<1>8. p \in [Distances[m] -> Blocks] /\ Right(p)
  BY <1>7 DEF p
<1>9. ASSUME NEW d \in Nat, \A e \in 0..(d - 1) : e \in S
      PROVE  d \in S
  <2> SUFFICES ASSUME d \in Distances[m] PROVE p[d] = c[m - d]
    OBVIOUS
  <2>1. CASE d = 1
    BY <1>0, <1>8, <2>1
  <2>2. CASE d # 1
    <3>1. d \div 2 \in Distances[m] /\ d \div 2 \in 1..(d - 1)
      BY <1>4, <2>2
    <3>2. d \div 2 \in S
      BY <1>9, <3>1
    <3>3. p[d \div 2] = c[m - (d \div 2)]
      BY <3>1, <3>2
    <3> QED
      BY <1>4, <1>8, <2>2, <3>3
  <2> QED
    BY <2>1, <2>2
<1> HIDE DEF S
<1>10. Nat \subseteq S
  BY <1>9, AllNumbers
<1>11. \A d \in Distances[m] : p[d] = c[m - d]
  BY <1>2, <1>10 DEF S
<1>12. \A d \in Distances[m] : c[m - d] \in Blocks
  BY <1>5
<1>13. DOMAIN p = Distances[m]
  BY <1>8
<1> QED
  BY <1>11, <1>12, <1>13 DEF p

-----------------------------------------------------------------------------
(* Arithmetic: pieces, blocks and the wrapped window.                      *)

(* Quotient and remainder.                                                 *)
LEMMA Divided ==
  ASSUME NEW a \in Int, NEW m \in Nat \ {0}
  PROVE  /\ a \div m \in Int /\ a % m \in 0..(m - 1)
         /\ a = m * (a \div m) + (a % m)
OBVIOUS

LEMMA Smaller ==
  ASSUME NEW m \in Nat \ {0}, NEW j \in Int, NEW k \in Int, j < k
  PROVE  m * j + m <= m * k
<1>1. m * k - m * j = m * (k - j)
  OBVIOUS
<1>2. k - j >= 1
  OBVIOUS
<1>3. m * (k - j) >= m
  BY <1>2
<1>4. m * k \in Int /\ m * j \in Int
  OBVIOUS
<1> QED
  BY <1>1, <1>3, <1>4

LEMMA Quotient ==
  ASSUME NEW a \in Int, NEW m \in Nat \ {0}, NEW q \in Int, NEW r \in 0..(m - 1),
         a = m * q + r
  PROVE  a \div m = q /\ a % m = r
<1> DEFINE p == a \div m
<1>1. p \in Int /\ a % m \in 0..(m - 1) /\ a = m * p + (a % m)
  BY Divided
<1> HIDE DEF p
<1>2. m * p \in Int /\ m * q \in Int
  BY <1>1
<1>3. ~(p < q)
  <2> SUFFICES ASSUME p < q PROVE FALSE
    OBVIOUS
  <2>1. m * p + m <= m * q
    BY <1>1, Smaller
  <2> QED
    BY <1>1, <1>2, <2>1
<1>4. ~(q < p)
  <2> SUFFICES ASSUME q < p PROVE FALSE
    OBVIOUS
  <2>1. m * q + m <= m * p
    BY <1>1, Smaller
  <2> QED
    BY <1>1, <1>2, <2>1
<1>5. p = q
  BY <1>1, <1>3, <1>4
<1> QED
  BY <1>1, <1>2, <1>5 DEF p

LEMMA AddedLater ==
  ASSUME NEW x \in Int, NEW y \in Int, NEW m \in Nat \ {0}
  PROVE  ((x % m) + y) % m = (x + y) % m
<1> DEFINE p == x \div m
           r == x % m
           q == (r + y) \div m
           s == (r + y) % m
<1>1. p \in Int /\ r \in 0..(m - 1) /\ x = m * p + r
  BY Divided
<1>2. r + y \in Int
  BY <1>1
<1>3. q \in Int /\ s \in 0..(m - 1) /\ r + y = m * q + s
  BY <1>2, Divided
<1> HIDE DEF p, q, r, s
<1>4. m * (p + q) = m * p + m * q /\ m * p \in Int /\ m * q \in Int
  BY <1>1, <1>3
<1>5. x + y = m * (p + q) + s
  BY <1>1, <1>3, <1>4
<1>6. (x + y) % m = s
  <2> DEFINE a == x + y
             k == p + q
  <2>1. a \in Int /\ k \in Int /\ a = m * k + s
    BY <1>1, <1>3, <1>5
  <2> HIDE DEF a, k
  <2>2. a % m = s
    BY <1>3, <2>1, Quotient
  <2> QED
    BY <2>2 DEF a
<1> QED
  BY <1>6 DEF r, s

LEMMA NearbyDiffer ==
  ASSUME NEW x \in Int, NEW y \in Int, NEW m \in Nat \ {0},
         x < y, y - x < m
  PROVE  x % m # y % m
<1> SUFFICES ASSUME x % m = y % m PROVE FALSE
  OBVIOUS
<1> DEFINE p == x \div m
           q == y \div m
           r == x % m
<1>1. p \in Int /\ r \in 0..(m - 1) /\ x = m * p + r
  BY Divided
<1>2. q \in Int /\ y = m * q + r
  BY Divided
<1> HIDE DEF p, q, r
<1>3. m * p \in Int /\ m * q \in Int
  BY <1>1, <1>2
<1>4. p < q
  <2> SUFFICES ASSUME q <= p PROVE FALSE
    BY <1>1, <1>2
  <2>1. CASE q = p
    BY <1>1, <1>2, <1>3, <2>1
  <2>2. CASE q < p
    <3>1. m * q + m <= m * p
      BY <1>1, <1>2, <2>2, Smaller
    <3> QED
      BY <1>1, <1>2, <1>3, <3>1
  <2> QED
    BY <1>1, <1>2, <2>1, <2>2
<1>5. m * p + m <= m * q
  BY <1>1, <1>2, <1>4, Smaller
<1> QED
  BY <1>1, <1>2, <1>3, <1>5

(* The least of some numbers.                                              *)
LEMMA LeastOf ==
  ASSUME NEW S \in SUBSET Nat, S # {}
  PROVE  Least(S) \in S /\ \A y \in S : Least(S) <= y
<1>1. PICK x \in S : \A y \in S : x <= y
  BY LeastNumber
<1> QED
  BY <1>1 DEF Least, Min

(* The window: positions on the disk.                                      *)
LEMMA Wraps ==
  ASSUME NEW a \in Int
  PROVE  a % BlockCount \in Blocks
<1>1. BlockCount \in Nat \ {0}
  BY SizesAreNumbers
<1>2. a % BlockCount \in 0..(BlockCount - 1)
  BY <1>1, Divided
<1> QED
  BY <1>2 DEF Blocks

(* A file's pieces and its blocks.                                         *)
LEMMA PieceInBlock ==
  ASSUME NEW j \in Nat, NEW o \in 1..PerBlock
  PROVE  /\ j * PerBlock + o \in Nat \ {0}
         /\ LastIndex(j * PerBlock + o) = j
         /\ Position(j * PerBlock + o) = o
<1> DEFINE a == (j * PerBlock + o) - 1
<1>0. PerBlock \in Nat \ {0}
  BY SizesAreNumbers
<1>1. j * PerBlock \in Nat /\ j * PerBlock = PerBlock * j
  BY <1>0
<1>2. a \in Int /\ a = PerBlock * j + (o - 1) /\ o - 1 \in 0..(PerBlock - 1)
  BY <1>0, <1>1
<1>3. a \div PerBlock = j /\ a % PerBlock = o - 1
  BY <1>0, <1>2, Quotient
<1> QED
  BY <1>0, <1>1, <1>3 DEF LastIndex, Position

LEMMA BlockOfPiece ==
  ASSUME NEW n \in Nat \ {0}
  PROVE  /\ LastIndex(n) \in 0..(n - 1) /\ Position(n) \in 1..PerBlock
         /\ n = LastIndex(n) * PerBlock + Position(n)
         /\ Position(n) <= n
<1> DEFINE q == (n - 1) \div PerBlock
           r == (n - 1) % PerBlock
<1>0. PerBlock \in Nat \ {0}
  BY SizesAreNumbers
<1>1. q \in Int /\ r \in 0..(PerBlock - 1) /\ n - 1 = PerBlock * q + r
  <2> DEFINE a == n - 1
  <2>1. a \in Int
    OBVIOUS
  <2> HIDE DEF a
  <2>2. a \div PerBlock \in Int /\ a % PerBlock \in 0..(PerBlock - 1)
        /\ a = PerBlock * (a \div PerBlock) + (a % PerBlock)
    BY <1>0, <2>1, Divided
  <2> QED
    BY <2>2 DEF a
<1> HIDE DEF q, r
<1>2. PerBlock * q \in Int /\ PerBlock * q = q * PerBlock
  BY <1>0, <1>1
<1>3. q >= 0
  <2> SUFFICES ASSUME q < 0 PROVE FALSE
    BY <1>1
  <2>1. PerBlock * q + PerBlock <= PerBlock * 0
    BY <1>0, <1>1, Smaller
  <2> QED
    BY <1>0, <1>1, <1>2, <2>1
<1>4. q <= PerBlock * q /\ PerBlock * q >= 0
  <2>1. CASE PerBlock = 1
    BY <1>1, <1>3, <2>1
  <2>2. PerBlock * q - q = (PerBlock - 1) * q
    BY <1>0, <1>1
  <2>3. (PerBlock - 1) * q >= 0
    BY <1>0, <1>1, <1>3
  <2> QED
    BY <1>0, <1>1, <1>2, <1>3, <2>2, <2>3
<1> QED
  BY <1>0, <1>1, <1>2, <1>3, <1>4 DEF LastIndex, Position, q, r

LEMMA LaterBlock ==
  ASSUME NEW m \in Nat \ {0}, NEW n \in Nat, m <= n
  PROVE  LastIndex(m) <= LastIndex(n)
<1>0. PerBlock \in Nat \ {0}
  BY SizesAreNumbers
<1>1. LastIndex(m) \in Nat /\ Position(m) \in 1..PerBlock
      /\ m = LastIndex(m) * PerBlock + Position(m)
  BY BlockOfPiece
<1>2. LastIndex(n) \in Nat /\ Position(n) \in 1..PerBlock
      /\ n = LastIndex(n) * PerBlock + Position(n)
  BY BlockOfPiece
<1> SUFFICES ASSUME LastIndex(n) < LastIndex(m) PROVE FALSE
  BY <1>1, <1>2
<1>3. PerBlock * LastIndex(n) + PerBlock <= PerBlock * LastIndex(m)
  BY <1>0, <1>1, <1>2, Smaller
<1>4. /\ PerBlock * LastIndex(n) = LastIndex(n) * PerBlock /\ PerBlock * LastIndex(n) \in Int
      /\ PerBlock * LastIndex(m) = LastIndex(m) * PerBlock /\ PerBlock * LastIndex(m) \in Int
  BY <1>0, <1>1, <1>2
<1> QED
  BY <1>0, <1>1, <1>2, <1>3, <1>4

-----------------------------------------------------------------------------
(* Files in a store: where their pieces lie, and what it takes to keep them. *)

(* What a block holds piece by piece: of which file, and which of its pieces. *)
Piece == (Names \cup {NoName}) \X Nat

(* What a block holds.                                                     *)
IsContent(x) ==
  /\ x = [ptrs |-> x.ptrs, text |-> x.text]
  /\ \A d \in DOMAIN x.ptrs : x.ptrs[d] \in Blocks
  /\ x.text \in Seq(Piece)

Stored(store) ==
  /\ store = [b \in Blocks |-> store[b]]
  /\ \A b \in Blocks : IsContent(store[b])

(* The pieces of a file are in its blocks 0..n, off of them in the last.   *)
Filled(store, c, name, n, off) ==
  \A i \in 0..n : \A o \in 1..(IF i = n THEN off ELSE PerBlock) :
    o \in DOMAIN store[c[i]].text /\ store[c[i]].text[o] = <<name, i * PerBlock + o>>

FileAt(store, name, head, n, off) ==
  \E c : Chain(store, c, n) /\ Filled(store, c, name, n, off) /\ c[n] = head

(* Its last block is none of the others.                                   *)
Heads(store, name, head, n, off) ==
  \E c : /\ Chain(store, c, n) /\ Filled(store, c, name, n, off) /\ c[n] = head
         /\ \A j \in 0..(n - 1) : c[j] # head

LEMMA StoredPoints ==
  ASSUME NEW store, Stored(store)
  PROVE  Points(store)
BY DEF Stored, IsContent, Points

LEMMA HeadsIsFile ==
  ASSUME NEW store, NEW name, NEW head, NEW n, NEW off, Heads(store, name, head, n, off)
  PROVE  FileAt(store, name, head, n, off)
BY Zenon DEF Heads, FileAt

UpTo(c, n) == {c[i] : i \in 0..n}

(* The blocks of a file are those that lfs_ctz_traverse visits.            *)
LEMMA FileVisited ==
  ASSUME NEW store, NEW c, NEW n \in 0..MaxSize, Points(store), Chain(store, c, n)
  PROVE  /\ n \in Nat /\ c \in [0..n -> Blocks]
         /\ Visit(store, c[n], n) = UpTo(c, n)
         /\ \A i \in 0..n : c[i] \in Visit(store, c[n], n)
         /\ Visit(store, c[n], n) \subseteq Blocks
<1>1. n \in Nat /\ c \in [0..n -> Blocks]
  BY SizesAreNumbers DEF Chain
<1>2. Visit(store, c[n], n) = {c[i] : i \in 0..n}
  BY VisitAll
<1> QED
  BY <1>1, <1>2 DEF UpTo

(* A file whose blocks are left alone is left alone.                       *)
LEMMA FileUnharmed ==
  ASSUME NEW store, NEW store2, NEW name, NEW head, NEW n \in 0..MaxSize, NEW off,
         Points(store), Points(store2), FileAt(store, name, head, n, off),
         \A b \in Visit(store, head, n) : store2[b] = store[b]
  PROVE  /\ FileAt(store2, name, head, n, off)
         /\ Visit(store2, head, n) = Visit(store, head, n)
         /\ head \in Visit(store, head, n)
         /\ Visit(store, head, n) \subseteq Blocks
<1>1. PICK c : Chain(store, c, n) /\ Filled(store, c, name, n, off) /\ c[n] = head
  BY Zenon DEF FileAt
<1>2. n \in Nat /\ c \in [0..n -> Blocks] /\ \A i \in 0..n : c[i] \in Visit(store, head, n)
  BY <1>1, FileVisited
<1>3. \A i \in 0..n : store2[c[i]] = store[c[i]]
  BY <1>2
<1>4. Chain(store2, c, n)
  BY <1>1, <1>3 DEF Chain
<1>5. Filled(store2, c, name, n, off)
  <2> SUFFICES ASSUME NEW i \in 0..n, NEW o \in 1..(IF i = n THEN off ELSE PerBlock)
               PROVE  /\ o \in DOMAIN store2[c[i]].text
                      /\ store2[c[i]].text[o] = <<name, i * PerBlock + o>>
    BY DEF Filled
  <2>1. o \in DOMAIN store[c[i]].text /\ store[c[i]].text[o] = <<name, i * PerBlock + o>>
    BY <1>1 DEF Filled
  <2> QED
    BY <1>3, <2>1
<1>6. FileAt(store2, name, head, n, off)
  BY <1>1, <1>4, <1>5, Zenon DEF FileAt
<1>7. Visit(store2, c[n], n) = UpTo(c, n)
  BY <1>4, FileVisited
<1>8. Visit(store, c[n], n) = UpTo(c, n)
  BY <1>1, FileVisited
<1>9. head \in Visit(store, head, n) /\ Visit(store, head, n) \subseteq Blocks
  BY <1>1, <1>2, <1>8, SMTT(30) DEF UpTo
<1> QED
  BY <1>1, <1>6, <1>7, <1>8, <1>9

LEMMA HeadsUnharmed ==
  ASSUME NEW store, NEW store2, NEW name, NEW head, NEW n \in 0..MaxSize, NEW off,
         Points(store), Heads(store, name, head, n, off),
         \A b \in Visit(store, head, n) : store2[b] = store[b]
  PROVE  Heads(store2, name, head, n, off)
<1>1. PICK c : /\ Chain(store, c, n) /\ Filled(store, c, name, n, off) /\ c[n] = head
               /\ \A j \in 0..(n - 1) : c[j] # head
  BY Zenon DEF Heads
<1>2. \A i \in 0..n : c[i] \in Visit(store, head, n)
  BY <1>1, FileVisited
<1>3. \A i \in 0..n : store2[c[i]] = store[c[i]]
  BY <1>2
<1>4. Chain(store2, c, n)
  BY <1>1, <1>3 DEF Chain
<1>5. Filled(store2, c, name, n, off)
  <2> SUFFICES ASSUME NEW i \in 0..n, NEW o \in 1..(IF i = n THEN off ELSE PerBlock)
               PROVE  /\ o \in DOMAIN store2[c[i]].text
                      /\ store2[c[i]].text[o] = <<name, i * PerBlock + o>>
    BY DEF Filled
  <2>1. o \in DOMAIN store[c[i]].text /\ store[c[i]].text[o] = <<name, i * PerBlock + o>>
    BY <1>1 DEF Filled
  <2> QED
    BY <1>3, <2>1
<1> QED
  BY <1>1, <1>4, <1>5, Zenon DEF Heads

(* Read the way lfs_ctz_find reads it, a file has its pieces in place.     *)
LEMMA FileReads ==
  ASSUME NEW store, NEW name, NEW head, NEW size \in 1..MaxSize, Points(store),
         FileAt(store, name, head, LastIndex(size), Position(size)),
         NEW i \in 1..size
  PROVE  LET b == Find(store, head, LastIndex(size), LastIndex(i))
             p == Position(i)
         IN b \in Blocks /\ p \in DOMAIN store[b].text /\ store[b].text[p] = <<name, i>>
<1> DEFINE n == LastIndex(size)
           m == LastIndex(i)
           p == Position(i)
<1>0. MaxSize \in Nat /\ PerBlock \in Nat \ {0}
  BY SizesAreNumbers
<1>1. n \in 0..MaxSize /\ Position(size) \in 1..PerBlock /\ size = n * PerBlock + Position(size)
  BY <1>0, BlockOfPiece
<1>2. m \in Nat /\ p \in 1..PerBlock /\ i = m * PerBlock + p
  BY BlockOfPiece
<1>3. m <= n
  BY <1>0, LaterBlock
<1> HIDE DEF n, m, p
<1>4. PICK c : Chain(store, c, n) /\ Filled(store, c, name, n, Position(size)) /\ c[n] = head
  BY Zenon DEF FileAt, n
<1>5. m \in 0..n
  BY <1>1, <1>2, <1>3
<1>6. Find(store, head, n, m) = c[m]
  BY <1>1, <1>4, <1>5, FindFinds
<1>7. c[m] \in Blocks
  BY <1>4, <1>5 DEF Chain
<1>8. p \in 1..(IF m = n THEN Position(size) ELSE PerBlock)
  <2>1. CASE m # n
    BY <1>2, <2>1
  <2>2. CASE m = n
    <3>1. m * PerBlock \in Int
      BY <1>0, <1>2
    <3> QED
      BY <1>0, <1>1, <1>2, <2>2, <3>1
  <2> QED
    BY <2>1, <2>2
<1>9. p \in DOMAIN store[c[m]].text /\ store[c[m]].text[p] = <<name, i>>
  BY <1>2, <1>4, <1>5, <1>8 DEF Filled
<1> QED
  BY <1>6, <1>7, <1>9 DEF n, m, p

(* The last block of a file was head, and now is b.                        *)
Moved(store, store2, name, head, b, n, off) ==
  /\ Heads(store2, name, b, n, off)
  /\ Visit(store2, b, n) \subseteq Visit(store, head, n) \cup {b}
  /\ Visit(store, head, n) \subseteq Visit(store2, b, n) \cup {head}

(* The last block of a file is copied into another one, which takes its    *)
(* place.                                                                  *)
LEMMA FileMoved ==
  ASSUME NEW store, NEW store2, NEW name, NEW head, NEW n \in 0..MaxSize, NEW off \in 0..PerBlock,
         Stored(store), Stored(store2), FileAt(store, name, head, n, off), NEW b \in Blocks,
         b \notin Visit(store, head, n),
         \A x \in Visit(store, head, n) : store2[x] = store[x],
         store2[b].ptrs = store[head].ptrs,
         \A o \in 1..off : o \in DOMAIN store2[b].text /\ store2[b].text[o] = store[head].text[o]
  PROVE  Moved(store, store2, name, head, b, n, off)
<1>0. n \in Nat /\ Points(store) /\ Points(store2) /\ PerBlock \in Nat \ {0}
  BY StoredPoints, SizesAreNumbers
<1>1. PICK c : Chain(store, c, n) /\ Filled(store, c, name, n, off) /\ c[n] = head
  BY Zenon DEF FileAt
<1>2. /\ c \in [0..n -> Blocks] /\ \A i \in 0..n : c[i] \in Visit(store, head, n)
      /\ Visit(store, head, n) = {c[i] : i \in 0..n}
  <2>1. Visit(store, c[n], n) = UpTo(c, n)
    BY <1>0, <1>1, FileVisited
  <2>2. c \in [0..n -> Blocks] /\ \A i \in 0..n : c[i] \in Visit(store, c[n], n)
    BY <1>0, <1>1, FileVisited
  <2> QED
    BY <1>1, <2>1, <2>2 DEF UpTo
<1> DEFINE e == [c EXCEPT ![n] = b]
<1>3. e \in [0..n -> Blocks] /\ e[n] = b /\ \A i \in 0..(n - 1) : e[i] = c[i] /\ e[i] # b
  BY <1>0, <1>2
<1> HIDE DEF e
<1>5. \A i \in 0..(n - 1) : store2[e[i]] = store[c[i]]
  <2> SUFFICES ASSUME NEW i \in 0..(n - 1) PROVE store2[e[i]] = store[c[i]]
    OBVIOUS
  <2>1. i \in 0..n /\ e[i] = c[i]
    BY <1>0, <1>3
  <2>2. c[i] \in Visit(store, head, n)
    BY <1>2, <2>1
  <2> QED
    BY <2>1, <2>2
<1>6. Chain(store2, e, n)
  <2> SUFFICES ASSUME NEW i \in 0..n
               PROVE  /\ DOMAIN store2[e[i]].ptrs = Distances[i]
                      /\ \A d \in Distances[i] : store2[e[i]].ptrs[d] = e[i - d]
    BY <1>3 DEF Chain
  <2>1. store2[e[i]].ptrs = store[c[i]].ptrs
    <3>1. CASE i = n
      BY <1>1, <1>3, <3>1
    <3>2. CASE i # n
      BY <1>0, <1>5, <3>2
    <3> QED
      BY <3>1, <3>2
  <2>2. \A d \in Distances[i] : d \in 1..i
    <3>1. i \in 0..MaxSize
      BY SizesAreNumbers
    <3> QED
      BY <3>1, DistanceBounds
  <2>3. \A d \in Distances[i] : e[i - d] = c[i - d]
    BY <1>0, <1>3, <2>2
  <2> QED
    BY <1>1, <2>1, <2>3 DEF Chain
<1>7. Filled(store2, e, name, n, off)
  <2> SUFFICES ASSUME NEW i \in 0..n, NEW o \in 1..(IF i = n THEN off ELSE PerBlock)
               PROVE  /\ o \in DOMAIN store2[e[i]].text
                      /\ store2[e[i]].text[o] = <<name, i * PerBlock + o>>
    BY DEF Filled
  <2>1. o \in DOMAIN store[c[i]].text /\ store[c[i]].text[o] = <<name, i * PerBlock + o>>
    BY <1>1 DEF Filled
  <2>2. CASE i # n
    <3>1. i \in 0..(n - 1)
      BY <1>0, <2>2
    <3> QED
      BY <1>5, <2>1, <3>1
  <2>3. CASE i = n
    <3>1. o \in 1..off
      BY <2>3
    <3> QED
      BY <1>1, <1>3, <2>1, <2>3, <3>1
  <2> QED
    BY <2>2, <2>3
<1>8. Heads(store2, name, b, n, off)
  BY <1>3, <1>6, <1>7, Zenon DEF Heads
<1>9. Visit(store2, b, n) = {e[i] : i \in 0..n}
  <2>1. Visit(store2, e[n], n) = UpTo(e, n)
    BY <1>0, <1>6, FileVisited
  <2> QED
    BY <1>3, <2>1 DEF UpTo
<1>10. \A i \in 0..n : e[i] = b \/ e[i] \in Visit(store, head, n)
  BY <1>0, <1>2, <1>3
<1>11. \A i \in 0..n : c[i] = head \/ c[i] \in {e[k] : k \in 0..n}
  <2> SUFFICES ASSUME NEW i \in 0..n, i # n PROVE c[i] \in {e[k] : k \in 0..n}
    BY <1>1
  <2>1. c[i] = e[i]
    BY <1>0, <1>3
  <2> QED
    BY <2>1
<1>12. Visit(store2, b, n) \subseteq Visit(store, head, n) \cup {b}
  BY <1>9, <1>10
<1>13. Visit(store, head, n) \subseteq Visit(store2, b, n) \cup {head}
  <2> SUFFICES ASSUME NEW v \in Visit(store, head, n), v # head PROVE v \in Visit(store2, b, n)
    OBVIOUS
  <2>1. PICK i \in 0..n : v = c[i]
    BY <1>2
  <2> QED
    BY <1>9, <1>11, <2>1
<1> QED
  BY <1>8, <1>12, <1>13 DEF Moved

-----------------------------------------------------------------------------
(* A file that grows by a block.                                           *)

(* Block b is added to a file that ended in head.                          *)
Extended(store, store2, name, head, b, n) ==
  /\ Heads(store2, name, b, n + 1, 0)
  /\ Visit(store2, b, n + 1) = Visit(store, head, n) \cup {b}

(* A file whose last block is full gets another one.                       *)
LEMMA FileExtended ==
  ASSUME NEW store, NEW store2, NEW name, NEW head, NEW n \in 0..MaxSize, n + 1 <= MaxSize,
         Stored(store), Stored(store2), FileAt(store, name, head, n, PerBlock), NEW b \in Blocks,
         b \notin Visit(store, head, n),
         \A x \in Visit(store, head, n) : store2[x] = store[x],
         store2[b].ptrs = Skips(store, head, n + 1)
  PROVE  Extended(store, store2, name, head, b, n)
<1>0. n \in Nat /\ Points(store) /\ Points(store2) /\ PerBlock \in Nat \ {0} /\ n + 1 \in 0..MaxSize
  BY StoredPoints, SizesAreNumbers
<1>1. PICK c : Chain(store, c, n) /\ Filled(store, c, name, n, PerBlock) /\ c[n] = head
  BY Zenon DEF FileAt
<1>2. /\ c \in [0..n -> Blocks] /\ \A i \in 0..n : c[i] \in Visit(store, head, n)
      /\ Visit(store, head, n) = {c[i] : i \in 0..n}
  <2>1. Visit(store, c[n], n) = UpTo(c, n)
    BY <1>0, <1>1, FileVisited
  <2>2. c \in [0..n -> Blocks] /\ \A i \in 0..n : c[i] \in Visit(store, c[n], n)
    BY <1>0, <1>1, FileVisited
  <2> QED
    BY <1>1, <2>1, <2>2 DEF UpTo
<1> DEFINE e == [i \in 0..(n + 1) |-> IF i = n + 1 THEN b ELSE c[i]]
<1>3. e \in [0..(n + 1) -> Blocks] /\ e[n + 1] = b /\ \A i \in 0..n : e[i] = c[i] /\ e[i] # b
  BY <1>0, <1>2
<1> HIDE DEF e
<1>4. \A i \in 0..n : store2[e[i]] = store[c[i]]
  BY <1>2, <1>3
<1>5. /\ DOMAIN store2[b].ptrs = Distances[n + 1]
      /\ \A d \in Distances[n + 1] : store2[b].ptrs[d] = c[(n + 1) - d]
  BY <1>0, <1>1, SkipsAre
<1>6. Chain(store2, e, n + 1)
  <2> SUFFICES ASSUME NEW i \in 0..(n + 1)
               PROVE  /\ DOMAIN store2[e[i]].ptrs = Distances[i]
                      /\ \A d \in Distances[i] : store2[e[i]].ptrs[d] = e[i - d]
    BY <1>3 DEF Chain
  <2>1. \A d \in Distances[i] : d \in 1..i
    <3>1. i \in 0..MaxSize
      BY <1>0, SizesAreNumbers
    <3> QED
      BY <3>1, DistanceBounds
  <2>2. \A d \in Distances[i] : i - d \in 0..n /\ e[i - d] = c[i - d]
    BY <1>0, <1>3, <2>1
  <2>3. CASE i = n + 1
    BY <1>3, <1>5, <2>2, <2>3
  <2>4. CASE i # n + 1
    <3>1. i \in 0..n
      BY <1>0, <2>4
    <3> QED
      BY <1>1, <1>4, <2>2, <3>1 DEF Chain
  <2> QED
    BY <2>3, <2>4
<1>7. Filled(store2, e, name, n + 1, 0)
  <2> SUFFICES ASSUME NEW i \in 0..(n + 1), NEW o \in 1..(IF i = n + 1 THEN 0 ELSE PerBlock)
               PROVE  /\ o \in DOMAIN store2[e[i]].text
                      /\ store2[e[i]].text[o] = <<name, i * PerBlock + o>>
    BY DEF Filled
  <2>1. i \in 0..n /\ o \in 1..(IF i = n THEN PerBlock ELSE PerBlock)
    BY <1>0
  <2>2. o \in DOMAIN store[c[i]].text /\ store[c[i]].text[o] = <<name, i * PerBlock + o>>
    BY <1>1, <2>1 DEF Filled
  <2> QED
    BY <1>4, <2>1, <2>2
<1>8. Heads(store2, name, b, n + 1, 0)
  <2>1. \A i \in 0..((n + 1) - 1) : e[i] # b
    BY <1>0, <1>3
  <2> QED
    BY <1>3, <1>6, <1>7, <2>1, Zenon DEF Heads
<1>9. Visit(store2, b, n + 1) = {e[i] : i \in 0..(n + 1)}
  <2>1. Visit(store2, e[n + 1], n + 1) = UpTo(e, n + 1)
    BY <1>0, <1>6, FileVisited
  <2> QED
    BY <1>3, <2>1 DEF UpTo
<1>10. Visit(store2, b, n + 1) \subseteq Visit(store, head, n) \cup {b}
  <2>1. \A i \in 0..(n + 1) : e[i] = b \/ e[i] \in Visit(store, head, n)
    BY <1>0, <1>2, <1>3
  <2> QED
    BY <1>9, <2>1
<1>11. Visit(store, head, n) \cup {b} \subseteq Visit(store2, b, n + 1)
  <2>1. \A i \in 0..n : c[i] \in {e[k] : k \in 0..(n + 1)}
    <3> SUFFICES ASSUME NEW i \in 0..n PROVE c[i] \in {e[k] : k \in 0..(n + 1)}
      OBVIOUS
    <3>1. c[i] = e[i] /\ i \in 0..(n + 1)
      BY <1>0, <1>3
    <3> QED
      BY <3>1
  <2>2. b \in {e[k] : k \in 0..(n + 1)}
    BY <1>0, <1>3
  <2> QED
    BY <1>2, <1>9, <2>1, <2>2
<1> QED
  BY <1>8, <1>10, <1>11 DEF Extended

(* Pieces are programmed behind those that the last block holds.           *)
LEMMA FileProgrammed ==
  ASSUME NEW store, NEW store2, NEW name, NEW head, NEW n \in 0..MaxSize,
         NEW off \in 0..PerBlock, NEW k \in 0..(PerBlock - off),
         Stored(store), Stored(store2), Heads(store, name, head, n, off),
         \A x \in Blocks : x # head => store2[x] = store[x],
         NEW pieces \in Seq(Piece), Len(pieces) = k,
         \A i \in 1..k : pieces[i] = <<name, n * PerBlock + off + i>>,
         store2[head].ptrs = store[head].ptrs,
         store2[head].text = SubSeq(store[head].text, 1, off) \o pieces
  PROVE  /\ Heads(store2, name, head, n, off + k)
         /\ Visit(store2, head, n) = Visit(store, head, n)
<1>0. n \in Nat /\ Points(store) /\ Points(store2) /\ PerBlock \in Nat \ {0}
  BY StoredPoints, SizesAreNumbers
<1>1. PICK c : /\ Chain(store, c, n) /\ Filled(store, c, name, n, off) /\ c[n] = head
               /\ \A j \in 0..(n - 1) : c[j] # head
  BY Zenon DEF Heads
<1>2. c \in [0..n -> Blocks] /\ Visit(store, head, n) = UpTo(c, n)
  BY <1>0, <1>1, FileVisited
<1>3. \A i \in 0..n : i # n => store2[c[i]] = store[c[i]]
  <2> SUFFICES ASSUME NEW i \in 0..n, i # n PROVE store2[c[i]] = store[c[i]]
    OBVIOUS
  <2>1. i \in 0..(n - 1) /\ c[i] \in Blocks
    BY <1>0, <1>2
  <2> QED
    BY <1>1, <2>1
<1>4. \A i \in 0..n : store2[c[i]].ptrs = store[c[i]].ptrs
  <2> SUFFICES ASSUME NEW i \in 0..n PROVE store2[c[i]].ptrs = store[c[i]].ptrs
    OBVIOUS
  <2>1. CASE i = n
    BY <1>1, <2>1
  <2>2. CASE i # n
    BY <1>3, <2>2
  <2> QED
    BY <2>1, <2>2
<1>5. Chain(store2, c, n)
  BY <1>1, <1>4, ZenonT(30) DEF Chain
<1>6. Filled(store2, c, name, n, off + k)
  <2> SUFFICES ASSUME NEW i \in 0..n, NEW o \in 1..(IF i = n THEN off + k ELSE PerBlock)
               PROVE  /\ o \in DOMAIN store2[c[i]].text
                      /\ store2[c[i]].text[o] = <<name, i * PerBlock + o>>
    BY DEF Filled
  <2>1. CASE i # n
    <3>1. o \in 1..(IF i = n THEN off ELSE PerBlock)
      BY <2>1
    <3>2. o \in DOMAIN store[c[i]].text /\ store[c[i]].text[o] = <<name, i * PerBlock + o>>
      BY <1>1, <3>1 DEF Filled
    <3> QED
      BY <1>3, <2>1, <3>2
  <2>2. CASE i = n
    <3> DEFINE t == store[head].text
               s == SubSeq(t, 1, off)
    <3>0. store2[c[i]].text = s \o pieces
      BY <1>1, <2>2
    <3>1. t \in Seq(Piece)
      BY <1>0, <1>1, <1>2 DEF Stored, IsContent
    <3>2. off \in 0..Len(t)
      <4>1. CASE off = 0
        BY <3>1, <4>1
      <4>2. CASE off # 0
        <5>1. n \in 0..n /\ off \in 1..off
          BY <1>0, <4>2
        <5>2. off \in DOMAIN t
          BY <1>1, <5>1 DEF Filled
        <5> HIDE DEF t
        <5> QED
          BY <3>1, <5>2
      <4> QED
        BY <4>1, <4>2
    <3> HIDE DEF t
    <3>3. s \in Seq(Piece) /\ Len(s) = off /\ \A q \in 1..off : s[q] = t[q]
      BY <3>1, <3>2
    <3> HIDE DEF s
    <3>4. o \in 1..(off + k)
      BY <2>2
    <3>5. o \in DOMAIN (s \o pieces)
          /\ (s \o pieces)[o] = IF o <= off THEN s[o] ELSE pieces[o - off]
      BY <3>3, <3>4
    <3>6. CASE o <= off
      <4>1. o \in 1..(IF i = n THEN off ELSE PerBlock)
        BY <2>2, <3>4, <3>6
      <4>2. t[o] = <<name, i * PerBlock + o>>
        BY <1>1, <2>2, <4>1 DEF Filled, t
      <4> QED
        BY <3>0, <3>3, <3>4, <3>5, <3>6, <4>2
    <3>7. CASE o > off
      <4>1. o - off \in 1..k
        BY <3>4, <3>7
      <4>2. n * PerBlock \in Int
        BY <1>0
      <4>3. n * PerBlock + off + (o - off) = i * PerBlock + o
        BY <2>2, <3>4, <4>2
      <4>4. pieces[o - off] = <<name, i * PerBlock + o>>
        BY <4>1, <4>3
      <4> QED
        BY <3>0, <3>4, <3>5, <3>7, <4>4
    <3> QED
      BY <3>4, <3>6, <3>7
  <2> QED
    BY <2>1, <2>2
<1>7. Heads(store2, name, head, n, off + k)
  BY <1>1, <1>5, <1>6, Zenon DEF Heads
<1>8. Visit(store2, head, n) = UpTo(c, n)
  BY <1>0, <1>1, <1>5, FileVisited
<1> QED
  BY <1>2, <1>7, <1>8

(* Block b is the first and only one of a file.                            *)
Begun(store2, name, b, off) ==
  Heads(store2, name, b, 0, off) /\ Visit(store2, b, 0) = {b}

(* A file is begun in a block.                                             *)
LEMMA FileBegun ==
  ASSUME NEW store2, NEW name, NEW b \in Blocks, NEW off \in 0..PerBlock,
         Stored(store2), DOMAIN store2[b].ptrs = {},
         \A o \in 1..off : o \in DOMAIN store2[b].text /\ store2[b].text[o] = <<name, o>>
  PROVE  Begun(store2, name, b, off)
<1>0. 0 \in 0..MaxSize /\ PerBlock \in Nat \ {0} /\ Points(store2) /\ Distances[0] = {}
  BY SizesAreNumbers, StoredPoints, DistancesOfZero
<1> DEFINE c == [i \in 0..0 |-> b]
<1>1. c \in [0..0 -> Blocks] /\ c[0] = b /\ \A i \in 0..0 : i = 0
  OBVIOUS
<1> HIDE DEF c
<1>2. Chain(store2, c, 0)
  BY <1>0, <1>1 DEF Chain
<1>3. Filled(store2, c, name, 0, off)
  <2> SUFFICES ASSUME NEW i \in 0..0, NEW o \in 1..(IF i = 0 THEN off ELSE PerBlock)
               PROVE  /\ o \in DOMAIN store2[c[i]].text
                      /\ store2[c[i]].text[o] = <<name, i * PerBlock + o>>
    BY DEF Filled
  <2>1. i = 0 /\ o \in 1..off /\ i * PerBlock + o = o
    BY <1>0, <1>1
  <2> QED
    BY <1>1, <2>1
<1>4. Heads(store2, name, b, 0, off)
  <2>1. \A j \in 0..(0 - 1) : c[j] # b
    OBVIOUS
  <2> QED
    BY <1>1, <1>2, <1>3, <2>1, Zenon DEF Heads
<1>5. Visit(store2, b, 0) = UpTo(c, 0)
  BY <1>0, <1>1, <1>2, FileVisited
<1>6. UpTo(c, 0) = {b}
  BY <1>1 DEF UpTo
<1> QED
  BY <1>4, <1>5, <1>6 DEF Begun

-----------------------------------------------------------------------------
(* What is known of every state.                                           *)

(* The file `name` lies where its entry says.                              *)
Sound(store, name, e) ==
  ~e.inline =>
    e.size \in 1..MaxSize /\ FileAt(store, name, e.head, LastIndex(e.size), Position(e.size))

(* The index of the block that the open file is being written into, and    *)
(* the blocks of that file: as it is written, and as it will be committed. *)
Index == (f.pos - f.off) \div PerBlock
Written == IF f.inline \/ ~f.writing THEN {} ELSE Visit(data, f.block, Index)
Pending == IF f.inline \/ ~f.dirty THEN {} ELSE Traverse(data, f.head, f.size)
Used == InDirectory \cup Written \cup Pending

(* Within a call that writes; within a commit.                             *)
InCall == at \in {"write", "flush", "failed"} \/ (at \in {"alloc", "got"} /\ FileCaller)
Committing == at \in {"commit", "sync"} \/ (at \in {"alloc", "got"} /\ ~FileCaller)

-----------------------------------------------------------------------------
(* The inductive invariant.                                                *)
(*                                                                         *)
(* The window: what is left of it is no more than the blocks that may still *)
(* be handed out before the next checkpoint.                               *)
LookaheadInv ==
  /\ la \in [start : Blocks, size : 0..Window, next : 0..Window, ckpoint : 0..BlockCount,
             used : SUBSET (0..(Window - 1))]
  /\ la.next <= la.size /\ la.size - la.next <= la.ckpoint

(* Where the code stands: a caller is noted while it waits for a block.    *)
PlaceInv ==
  /\ at \in Place /\ caller \in Caller /\ got \in Blocks \cup {NoBlock} /\ listed \in BOOLEAN
  /\ at \in {"alloc", "got", "failed"} <=> caller # "none"
  /\ at = "failed" => FileCaller

(* The open file: the call in progress ends within the announced size; a   *)
(* file to be committed has all its pieces on the disk.                    *)
FileInv ==
  /\ f \in [name : Names \cup {NoName}, inline : BOOLEAN, writing : BOOLEAN, dirty : BOOLEAN,
            block : Blocks \cup {NoBlock}, pos : 0..MaxSize, off : 0..PerBlock,
            head : Blocks \cup {NoBlock}, size : 0..MaxSize, left : 0..MaxSize]
  /\ f.pos + f.left <= MaxSize
  /\ f.inline => f.pos <= InlineMax
  /\ f.dirty => ~f.writing /\ f.size = f.pos

(* What each place in the code implies about the open file: which caller   *)
(* waits for which block, and that a block written into holds something.   *)
CallInv ==
  /\ at = "idle" => f = NoFile /\ todo = <<>>
  /\ ~Committing => held = {}
  /\ InCall => /\ session # NoName /\ f.name = session /\ ~f.dirty /\ todo = <<>>
               /\ ~f.writing => f.left > 0
  /\ at = "write" /\ f.left = 0 /\ ~f.inline => f.off > 0
  /\ at = "flush" => f.left = 0 /\ (~f.inline => f.off > 0)
  /\ caller \in {"extend", "outline", "relocate"} => f.left > 0
  /\ caller = "extend" =>
       ~f.inline /\ (f.writing => f.off = PerBlock) /\ (~f.writing => f.block = f.head)
  /\ caller = "outline" => f.inline /\ f.off = f.pos
  /\ caller \in {"relocate", "reflush"} => ~f.inline /\ f.writing /\ (f.off > 0 \/ f.pos = 0)
  /\ caller = "reflush" => f.left = 0 /\ f.off > 0

(* The commits to make: an entry created or deleted, the entry that a file *)
(* moved by a split has, or the entry of the open file once it is flushed. *)
TodoInv ==
  /\ Committing => todo # <<>>
  /\ todo \in Seq([name : Names, entry : Entry \cup {Gone}]) /\ Len(todo) <= 2
  /\ Len(todo) = 2 => f = NoFile
  /\ \A i \in DOMAIN todo :
       \/ todo[i].entry \in {Created, Gone}
       \/ todo[i].entry = entries[todo[i].name] /\ i = 1 /\ Len(todo) = 2
       \/ /\ f.dirty
          /\ todo[i] = [name |-> f.name,
                        entry |-> [inline |-> f.inline,
                                   head |-> IF f.inline THEN NoBlock ELSE f.head,
                                   size |-> f.size]]

(* A session is about a file that exists, or is about to.                  *)
SessionInv ==
  \/ session = NoName
  \/ /\ session \in Names
     /\ todo = <<>> => entries[session] # Gone
     /\ \A i \in DOMAIN todo : todo[i].name = session /\ todo[i].entry # Gone

(* On the disk: blocks are well formed, and those of the directory hold it; *)
(* every file lies where its entry says (StoreInv, EntriesInv).  The file  *)
(* being written lies behind f.block, outside the directory's blocks       *)
(* (WriteInv); behind f.head once flushed (PendingInv); where its entry says *)
(* before the first write to it (OpenInv).                                 *)
StoreInv == Stored(data) /\ meta \subseteq Blocks /\ \A b \in meta : data[b] = Directory

EntriesInv ==
  /\ entries \in [Names -> Entry \cup {Gone}]
  /\ \A n \in Names : Sound(data, n, entries[n])
    /\ (entries[n].inline => entries[n].size <= InlineMax)

WriteInv ==
  ~f.inline /\ f.writing =>
    /\ Index \in 0..MaxSize /\ f.pos = Index * PerBlock + f.off
    /\ Heads(data, f.name, f.block, Index, f.off)
    /\ f.block \notin InDirectory
    /\ f.off = 0 => f.block \in handed

PendingInv == ~f.inline
  /\ f.dirty => Sound(data, f.name, [inline |-> FALSE, head |-> f.head, size |-> f.size])

OpenInv ==
  ~f.inline /\ ~f.writing /\ ~f.dirty =>
    /\ f.name \in Names /\ f.pos = f.size
    /\ entries[f.name] = [inline |-> FALSE, head |-> f.head, size |-> f.size]

(* Blocks on their way into the directory or the file are in no use yet.   *)
HeldInv ==
  /\ held \subseteq handed /\ held \cap Used = {}
  /\ at = "got" => got \in handed /\ got \notin Used /\ got \notin held

(* What was handed out since the checkpoint lies behind the window: the    *)
(* `ckpoint` blocks from la.next on were not handed out.                   *)
HandedInv ==
  /\ handed \subseteq Blocks
  /\ \A t \in 0..(la.ckpoint - 1) : (la.start + la.next + t) % BlockCount \notin handed

(* A block the window shows as free is in use by nothing: not by the       *)
(* directory, and not by the open file, flushed or not.                    *)
AheadInv == \A o \in FreeAhead : At(o) \notin Used

(* A block of the open file that holds nothing yet but pointers.           *)
Fresh == ~f.inline /\ f.writing /\ f.off = 0 /\ f.pos > 0
FreshInv == Fresh => at = "write"
(* Where the walk that fills the window in would find all of the open file. *)
Looking ==
  /\ \/ at \in {"write", "flush"} /\ f.writing
     \/ at \in {"alloc", "got"} /\ FileCaller
  /\ ~Fresh
Accounted == handed \cup missed \cup InUse

(* Every block that the allocator has passed by, marked in the window or   *)
(* before it, is in use, was handed out, or became free since.             *)
SeenInv ==
  Looking =>
    /\ \A o \in Ahead \cap la.used : At(o) \in Accounted
    /\ \A t \in la.ckpoint..(BlockCount - 1) : (la.start + la.next + t) % BlockCount \in Accounted

ControlInv == LookaheadInv /\ PlaceInv /\ FileInv /\ CallInv /\ TodoInv /\ SessionInv
FilesInv == StoreInv /\ EntriesInv /\ WriteInv /\ PendingInv /\ OpenInv
BlocksInv == HeldInv /\ HandedInv /\ AheadInv /\ SeenInv /\ FreshInv
AllocInv == ControlInv /\ FilesInv /\ BlocksInv

-----------------------------------------------------------------------------
(* Frames.                                                                 *)

LEMMA SameBlocks ==
  ASSUME UNCHANGED <<disk, f>>
  PROVE  InUse' = InUse /\ Used' = Used /\ InDirectory' = InDirectory /\ Index' = Index
         /\ (Fresh' <=> Fresh)
<1>1. entries' = entries /\ meta' = meta /\ data' = data /\ f' = f
  BY DEF disk
<1>2. InDirectory' = InDirectory
  BY <1>1 DEF InDirectory
<1>3. Index' = Index /\ (Fresh' <=> Fresh)
  BY <1>1 DEF Index, Fresh
<1>4. Written' = Written
  BY <1>1, <1>3 DEF Written
<1>5. Pending' = Pending
  BY <1>1 DEF Pending
<1>6. InFile' = InFile
  BY <1>1 DEF InFile
<1> QED
  BY <1>2, <1>3, <1>4, <1>5, <1>6 DEF InUse, Used

LEMMA SameFiles ==
  ASSUME UNCHANGED <<disk, f>>, handed \subseteq handed', FilesInv
  PROVE  FilesInv'
<1>1. entries' = entries /\ meta' = meta /\ data' = data /\ f' = f
  BY DEF disk
<1>2. InDirectory' = InDirectory /\ Index' = Index
  BY SameBlocks
<1>3. StoreInv' /\ EntriesInv' /\ PendingInv' /\ OpenInv'
  BY <1>1 DEF FilesInv, StoreInv, EntriesInv, PendingInv, OpenInv
<1>4. WriteInv'
  BY <1>1, <1>2 DEF FilesInv, WriteInv
<1> QED
  BY <1>3, <1>4 DEF FilesInv

(* The free blocks that the window still shows stay free.                  *)
LEMMA AheadNotHanded ==
  ASSUME LookaheadInv, HandedInv
  PROVE  \A o \in Ahead : o \in Nat /\ At(o) \notin handed /\ At(o) \in Blocks
<1> SUFFICES ASSUME NEW o \in Ahead PROVE o \in Nat /\ At(o) \notin handed /\ At(o) \in Blocks
  OBVIOUS
<1>0. BlockCount \in Nat /\ Window \in Nat
  BY SizesAreNumbers
<1>1. /\ la.start \in Nat /\ la.next \in Nat /\ la.size \in Nat /\ la.ckpoint \in Nat
      /\ la.size - la.next <= la.ckpoint
  BY <1>0 DEF LookaheadInv, Blocks
<1>2. o \in la.next..(la.size - 1)
  BY DEF Ahead
<1>3. o - la.next \in 0..(la.ckpoint - 1) /\ la.start + la.next + (o - la.next) = la.start + o
  BY <1>1, <1>2
<1>4. At(o) \notin handed
  BY <1>3 DEF HandedInv, At
<1>5. At(o) \in Blocks
  BY <1>1, <1>2, Wraps DEF At
<1> QED
  BY <1>1, <1>2, <1>4, <1>5

LEMMA SameWindow ==
  ASSUME LookaheadInv, HandedInv, AheadInv, FreeAhead' \subseteq FreeAhead, la'.start = la.start,
         Used' \subseteq Used \cup handed
  PROVE  AheadInv'
<1>1. \A o \in FreeAhead' : At(o)' = At(o)
  BY DEF At
<1>2. \A o \in FreeAhead : At(o) \notin Used /\ At(o) \notin handed
  BY AheadNotHanded DEF AheadInv, FreeAhead
<1> QED
  BY <1>1, <1>2 DEF AheadInv

(* What lfs_fs_traverse_ finds, and what of the open file it does not.     *)
LEMMA WhatIsFound ==
  ASSUME ControlInv, FilesInv
  PROVE  /\ InUse \subseteq Used
         /\ ~Fresh => Used \subseteq InUse \cup handed
         /\ ~Fresh /\ ~(f.writing /\ ~f.inline /\ f.pos = 0) => Used = InUse
<1>0. FileInv /\ WriteInv /\ Stored(data) /\ Points(data) /\ PerBlock \in Nat \ {0}
      /\ MaxSize \in Nat
  BY StoredPoints, SizesAreNumbers DEF ControlInv, FilesInv, StoreInv
<1>1. CASE f.inline \/ ~f.writing
  BY <1>1 DEF InUse, Used, InFile, Written, Pending
<1>2. CASE ~f.inline /\ f.writing
  <2>1. ~f.dirty /\ f.pos \in Nat /\ f.off \in 0..PerBlock
    BY <1>0, <1>2 DEF FileInv
  <2>2. InUse = InDirectory \cup Traverse(data, f.block, f.pos)
        /\ Used = InDirectory \cup Visit(data, f.block, Index)
    BY <1>2, <2>1 DEF InUse, Used, InFile, Written, Pending
  <2>3. Index \in 0..MaxSize /\ f.pos = Index * PerBlock + f.off
        /\ Heads(data, f.name, f.block, Index, f.off)
        /\ (f.off = 0 => f.block \in handed)
    BY <1>0, <1>2 DEF WriteInv
  <2>4. PICK c : Chain(data, c, Index) /\ c[Index] = f.block
    BY <2>3 DEF Heads
  <2>5. Visit(data, f.block, Index) = UpTo(c, Index) /\ Index \in Nat
    BY <1>0, <2>3, <2>4, FileVisited
  <2>6. Traverse(data, f.block, f.pos) \subseteq UpTo(c, Index)
    <3>1. CASE f.pos = 0
      BY <3>1 DEF Traverse
    <3>2. CASE f.pos # 0
      <4>1. LastIndex(f.pos) \in Nat
        BY <2>1, <3>2, BlockOfPiece
      <4>2. Visit(data, c[Index], LastIndex(f.pos)) \subseteq UpTo(c, Index)
        BY <1>0, <2>3, <2>4, <2>5, <4>1, VisitWithin DEF UpTo
      <4> QED
        BY <2>4, <3>2, <4>2 DEF Traverse
    <3> QED
      BY <3>1, <3>2
  <2>7. CASE f.off > 0
    <3>1. LastIndex(f.pos) = Index /\ f.pos # 0
      BY <2>1, <2>3, <2>5, <2>7, PieceInBlock
    <3>2. Traverse(data, f.block, f.pos) = Visit(data, f.block, Index)
      BY <3>1 DEF Traverse
    <3> QED
      BY <2>2, <3>2
  <2>8. CASE f.off = 0 /\ f.pos = 0
    <3>1. Index = 0
      <4>1. Index * PerBlock = 0
        BY <1>0, <2>3, <2>5, <2>8
      <4> QED
        BY <1>0, <2>5, <4>1
    <3>2. UpTo(c, Index) = {f.block}
      BY <2>4, <3>1 DEF UpTo
    <3> QED
      BY <1>2, <2>2, <2>3, <2>5, <2>6, <2>8, <3>2
  <2>9. CASE f.off = 0 /\ f.pos > 0
    <3>1. Fresh
      BY <1>2, <2>9 DEF Fresh
    <3> QED
      BY <2>2, <2>5, <2>6, <3>1
  <2> QED
    BY <2>1, <2>7, <2>8, <2>9
<1> QED
  BY <1>1, <1>2

-----------------------------------------------------------------------------
(* Files whose blocks are not touched.                                     *)

(* A file is unharmed when its own blocks are.                             *)
LEMMA SoundUnharmed ==
  ASSUME NEW store, NEW store2, Points(store), Points(store2), NEW name, NEW e, ~e.inline,
         Sound(store, name, e),
         \A b \in Traverse(store, e.head, e.size) : store2[b] = store[b]
  PROVE  /\ Sound(store2, name, e)
         /\ Traverse(store2, e.head, e.size) = Traverse(store, e.head, e.size)
         /\ Traverse(store, e.head, e.size) \subseteq Blocks /\ e.head \in Blocks
<1> DEFINE n == LastIndex(e.size)
           off == Position(e.size)
<1>0. MaxSize \in Nat
  BY SizesAreNumbers
<1>1. e.size \in 1..MaxSize /\ FileAt(store, name, e.head, n, off)
  BY DEF Sound
<1>2. n \in 0..MaxSize
  BY <1>0, <1>1, BlockOfPiece
<1>3. \A s : Traverse(s, e.head, e.size) = Visit(s, e.head, n)
  BY <1>0, <1>1 DEF Traverse
<1> HIDE DEF n, off
<1>4. /\ FileAt(store2, name, e.head, n, off)
      /\ Visit(store2, e.head, n) = Visit(store, e.head, n)
      /\ e.head \in Visit(store, e.head, n) /\ Visit(store, e.head, n) \subseteq Blocks
  BY <1>1, <1>2, <1>3, FileUnharmed
<1> QED
  BY <1>1, <1>3, <1>4 DEF Sound, n, off

LEMMA EntryBlocks ==
  ASSUME NEW n \in Names, ~entries[n].inline
  PROVE  Traverse(data, entries[n].head, entries[n].size) \subseteq InDirectory
BY DEF InDirectory

(* Commits aside, the directory is unharmed when its blocks are.           *)
LEMMA DirectoryUnharmed ==
  ASSUME StoreInv, EntriesInv, Stored(data'), entries' = entries, meta' = meta,
         \A b \in InDirectory : data'[b] = data[b]
  PROVE  StoreInv' /\ EntriesInv' /\ InDirectory' = InDirectory
<1>1. Points(data) /\ Points(data')
  BY StoredPoints DEF StoreInv
<1>2. ASSUME NEW n \in Names, ~entries[n].inline
      PROVE  /\ Sound(data', n, entries[n])
             /\ Traverse(data', entries[n].head, entries[n].size)
                  = Traverse(data, entries[n].head, entries[n].size)
  <2>1. Sound(data, n, entries[n])
    BY DEF EntriesInv
  <2>2. \A b \in Traverse(data, entries[n].head, entries[n].size) : data'[b] = data[b]
    BY <1>2, EntryBlocks
  <2> QED
    BY <1>1, <1>2, <2>1, <2>2, SoundUnharmed
<1>3. EntriesInv'
  BY <1>2 DEF EntriesInv, Sound
<1>4. meta \subseteq InDirectory
  BY DEF InDirectory
<1>5. StoreInv'
  BY <1>4 DEF StoreInv
<1>6. InDirectory' = InDirectory
  BY <1>2 DEF InDirectory
<1> QED
  BY <1>3, <1>5, <1>6

(* So is everything else when all blocks in use are.                       *)
LEMMA FilesUnharmed ==
  ASSUME ControlInv, FilesInv, Stored(data'), entries' = entries, meta' = meta, f' = f,
    handed' = handed,
         \A b \in Used : data'[b] = data[b]
  PROVE  FilesInv' /\ Used' = Used /\ (~Fresh => InUse' = InUse)
<1>0. StoreInv /\ EntriesInv /\ FileInv /\ WriteInv /\ PendingInv /\ OpenInv
      /\ Points(data) /\ Points(data')
  BY StoredPoints DEF ControlInv, FilesInv, StoreInv
<1>1. StoreInv' /\ EntriesInv' /\ InDirectory' = InDirectory
  BY <1>0, DirectoryUnharmed DEF Used
<1>2. Index' = Index
  BY DEF Index
<1>3. WriteInv' /\ Written' = Written /\
      (~f.inline /\ f.writing /\ ~Fresh =>
         Traverse(data', f.block, f.pos) = Traverse(data, f.block, f.pos))
  <2>1. CASE f.inline \/ ~f.writing
    BY <2>1 DEF WriteInv, Written
  <2>2. CASE ~f.inline /\ f.writing
    <3>1. /\ Index \in 0..MaxSize /\ f.pos = Index * PerBlock + f.off
          /\ Heads(data, f.name, f.block, Index, f.off)
          /\ f.block \notin InDirectory
          /\ f.off = 0 => f.block \in handed
      BY <1>0, <2>2 DEF WriteInv
    <3>2. FileAt(data, f.name, f.block, Index, f.off)
      BY <3>1, HeadsIsFile
    <3>3. \A b \in Visit(data, f.block, Index) : data'[b] = data[b]
      BY <2>2 DEF Used, Written
    <3>4. Heads(data', f.name, f.block, Index, f.off)
      BY <1>0, <3>1, <3>3, HeadsUnharmed
    <3>5. Visit(data', f.block, Index) = Visit(data, f.block, Index)
      BY <1>0, <3>1, <3>2, <3>3, FileUnharmed
    <3>6. WriteInv'
      BY <1>1, <1>2, <3>1, <3>4 DEF WriteInv
    <3>7. Written' = Written
      BY <1>2, <3>5 DEF Written
    <3>8. ASSUME ~Fresh
          PROVE  Traverse(data', f.block, f.pos) = Traverse(data, f.block, f.pos)
      <4>0. f.off \in 0..PerBlock /\ f.pos \in Nat /\ Index \in Nat /\ PerBlock \in Nat
        BY <1>0, <3>1, SizesAreNumbers DEF FileInv
      <4>1. CASE f.off > 0
        <5>1. LastIndex(f.pos) = Index
          BY <3>1, <4>0, <4>1, PieceInBlock
        <5> QED
          BY <3>5, <5>1 DEF Traverse
      <4>2. CASE f.pos = 0
        BY <4>2 DEF Traverse
      <4> QED
        BY <2>2, <3>8, <4>0, <4>1, <4>2 DEF Fresh
    <3> QED
      BY <3>6, <3>7, <3>8
  <2> QED
    BY <2>1, <2>2
<1>4. PendingInv' /\ Pending' = Pending
  <2>1. CASE f.inline \/ ~f.dirty
    BY <2>1 DEF PendingInv, Pending
  <2>2. CASE ~f.inline /\ f.dirty
    <3> DEFINE e == [inline |-> FALSE, head |-> f.head, size |-> f.size]
    <3>1. Sound(data, f.name, e) /\ ~e.inline /\ e.head = f.head /\ e.size = f.size
      BY <1>0, <2>2 DEF PendingInv
    <3>2. \A b \in Traverse(data, e.head, e.size) : data'[b] = data[b]
      BY <2>2, <3>1 DEF Used, Pending
    <3> HIDE DEF e
    <3>3. Sound(data', f.name, e)
          /\ Traverse(data', e.head, e.size) = Traverse(data, e.head, e.size)
      BY <1>0, <3>1, <3>2, SoundUnharmed
    <3> QED
      BY <2>2, <3>1, <3>3 DEF PendingInv, Pending, e
  <2> QED
    BY <2>1, <2>2
<1>5. OpenInv'
  BY <1>0 DEF OpenInv
<1>6. Used' = Used
  BY <1>1, <1>3, <1>4 DEF Used
<1>7. ASSUME ~Fresh PROVE InUse' = InUse
  BY <1>1, <1>3, <1>4, <1>7 DEF InUse, InFile, Pending
<1> QED
  BY <1>0, <1>1, <1>3, <1>4, <1>5, <1>6, <1>7 DEF FilesInv

-----------------------------------------------------------------------------
(* Facts about single steps.                                               *)

(* The block handed out, and the next one that is free.                    *)
LEMMA NextFree ==
  ASSUME LookaheadInv, FreeAhead # {}, NEW o, NEW next,
         o = Least(FreeAhead), next = Least((FreeAhead \ {o}) \cup {la.size})
  PROVE  /\ o \in FreeAhead /\ o \in la.next..(la.size - 1)
         /\ next \in (o + 1)..la.size
         /\ \A p \in la.next..(next - 1) : p = o \/ p \in la.used
<1>0. la.next \in Nat /\ la.size \in Nat
  BY SizesAreNumbers DEF LookaheadInv
<1>1. FreeAhead \in SUBSET Nat /\ \A p \in FreeAhead : p \in la.next..(la.size - 1)
  BY <1>0 DEF FreeAhead, Ahead
<1>2. o \in FreeAhead /\ \A p \in FreeAhead : o <= p
  BY <1>1, LeastOf
<1> DEFINE R == (FreeAhead \ {o}) \cup {la.size}
<1>3. R \in SUBSET Nat /\ R # {}
  BY <1>0, <1>1
<1>4. next \in R /\ \A q \in R : next <= q
  BY <1>3, LeastOf
<1>5. next \in (o + 1)..la.size
  BY <1>0, <1>1, <1>2, <1>4
<1> HIDE DEF R
<1>6. ASSUME NEW p \in la.next..(next - 1), p # o
      PROVE  p \in la.used
  <2>1. p \in Ahead /\ p \in Nat
    BY <1>0, <1>5, <1>1, <1>2 DEF Ahead
  <2>2. p \notin R
    <3> SUFFICES ASSUME p \in R PROVE FALSE
      OBVIOUS
    <3>1. next <= p
      BY <1>4
    <3>2. next \in Int /\ o \in Int
      BY <1>0, <1>1, <1>2, <1>5
    <3> QED
      BY <1>0, <2>1, <3>1, <3>2
  <2> QED
    BY <1>6, <2>1, <2>2 DEF FreeAhead, R
<1> QED
  BY <1>1, <1>2, <1>5, <1>6

LEMMA ChunkFits ==
  ASSUME FileInv, f.left > 0, f.off # PerBlock
  PROVE  Chunk \in 1..f.left /\ f.off + Chunk \in 1..PerBlock
<1>1. f.left \in Nat /\ f.off \in 0..PerBlock /\ PerBlock \in Nat
  BY SizesAreNumbers DEF FileInv
<1> DEFINE S == {f.left, PerBlock - f.off}
<1>2. S \in SUBSET Nat /\ S # {}
  BY <1>1
<1>3. Chunk \in S /\ \A y \in S : Chunk <= y
  BY <1>2, LeastOf DEF Chunk
<1> QED
  BY <1>1, <1>3

LEMMA WindowFits ==
  ASSUME LookaheadInv, Remaining > 0
  PROVE  /\ Remaining \in 1..BlockCount /\ WindowSize(Remaining) \in 1..Window
         /\ WindowSize(Remaining) <= Remaining /\ NewStart \in Blocks
<1>1. Remaining \in 1..BlockCount /\ Window \in Nat \ {0} /\ la.size \in Nat /\ la.start \in Nat
  BY SizesAreNumbers DEF LookaheadInv, Remaining, Blocks
<1> DEFINE S == {Window, Remaining}
<1>2. S \in SUBSET Nat /\ S # {}
  BY <1>1
<1>3. WindowSize(Remaining) \in S /\ \A y \in S : WindowSize(Remaining) <= y
  BY <1>2, LeastOf DEF WindowSize
<1>4. NewStart \in Blocks
  BY <1>1, Wraps DEF NewStart, At
<1> QED
  BY <1>1, <1>3, <1>4

(* A file that is opened is found at its head.                             *)
LEMMA OpenedAtHead ==
  ASSUME ControlInv, FilesInv, ~f.inline, ~f.writing, ~f.dirty
  PROVE  /\ f.name \in Names /\ f.pos = f.size /\ f.pos \in 1..MaxSize /\ f.head \in Blocks
         /\ FileAt(data, f.name, f.head, LastIndex(f.pos), Position(f.pos))
         /\ Find(data, f.head, LastIndex(f.size), LastIndex(f.pos)) = f.head
         /\ Visit(data, f.head, LastIndex(f.pos)) \subseteq InDirectory
         /\ LastIndex(f.pos) \in 0..(f.pos - 1) /\ LastIndex(f.pos) \in 0..MaxSize
         /\ Position(f.pos) \in 1..PerBlock
         /\ f.pos = LastIndex(f.pos) * PerBlock + Position(f.pos)
<1>0. MaxSize \in Nat /\ Points(data)
  BY SizesAreNumbers, StoredPoints DEF FilesInv, StoreInv
<1>1. f.name \in Names /\ f.pos = f.size
      /\ entries[f.name] = [inline |-> FALSE, head |-> f.head, size |-> f.size]
  BY DEF FilesInv, OpenInv
<1>2. Sound(data, f.name, entries[f.name])
  BY <1>1 DEF FilesInv, EntriesInv
<1>3. ~entries[f.name].inline /\ entries[f.name].head = f.head /\ entries[f.name].size = f.size
  BY <1>1
<1>4. f.size \in 1..MaxSize /\ FileAt(data, f.name, f.head, LastIndex(f.size), Position(f.size))
      /\ f.head \in Blocks
  <2>1. entries[f.name].head \in Blocks
    BY <1>0, <1>2, <1>3, SoundUnharmed
  <2> QED
    BY <1>2, <1>3, <2>1 DEF Sound
<1> DEFINE n == LastIndex(f.size)
<1>5. n \in 0..(f.size - 1) /\ n \in 0..MaxSize /\ Position(f.size) \in 1..PerBlock
      /\ f.size = n * PerBlock + Position(f.size)
  BY <1>0, <1>4, BlockOfPiece
<1>6. PICK c : Chain(data, c, n) /\ c[n] = f.head
  BY <1>4 DEF FileAt
<1> HIDE DEF n
<1>7. Find(data, f.head, n, n) = f.head
  <2>1. n \in 0..n
    BY <1>5
  <2> QED
    BY <1>0, <1>5, <1>6, <2>1, FindFinds
<1>8. Visit(data, f.head, n) \subseteq InDirectory
  <2>1. Traverse(data, entries[f.name].head, entries[f.name].size) \subseteq InDirectory
    BY <1>1, <1>3, EntryBlocks
  <2> QED
    BY <1>3, <1>4, <2>1 DEF Traverse, n
<1> QED
  BY <1>1, <1>4, <1>5, <1>7, <1>8 DEF n
LEMMA LookaheadMoves ==
  ASSUME LookaheadInv, NEW n \in 0..Window, NEW c \in 0..BlockCount,
         la' = [la EXCEPT !.next = n, !.ckpoint = c], n <= la.size, la.size - n <= c
  PROVE  LookaheadInv'
BY DEF LookaheadInv

LEMMA NoFileFits ==
  ASSUME f' = NoFile
  PROVE  FileInv'
BY SizesAreNumbers DEF FileInv, NoFile

LEMMA OneTodo ==
  ASSUME NEW S, NEW x \in S
  PROVE  /\ <<x>> \in Seq(S) /\ Len(<<x>>) = 1 /\ <<x>> # <<>>
         /\ \A i \in DOMAIN <<x>> : i = 1 /\ <<x>>[i] = x
OBVIOUS

LEMMA TwoTodo ==
  ASSUME NEW S, NEW x \in S, NEW y \in S
  PROVE  /\ <<x, y>> \in Seq(S) /\ Len(<<x, y>>) = 2 /\ <<x, y>> # <<>>
         /\ \A i \in DOMAIN <<x, y>> :
              (i = 1 /\ <<x, y>>[i] = x) \/ (i = 2 /\ <<x, y>>[i] = y)
OBVIOUS

LEMMA NextTodo ==
  ASSUME NEW S, NEW q \in Seq(S), q # <<>>, Len(q) <= 2
  PROVE  /\ 1 \in DOMAIN q /\ q[1] \in S /\ Head(q) = q[1]
         /\ Tail(q) \in Seq(S) /\ Len(Tail(q)) <= 2 /\ Len(Tail(q)) # 2 /\ Len(q) \in {1, 2}
         /\ Len(q) = 1 <=> Tail(q) = <<>>
         /\ Len(q) > 1 <=> Len(q) = 2
         /\ \A i \in DOMAIN Tail(q) :
              Len(q) = 2 /\ i = 1 /\ 2 \in DOMAIN q /\ Tail(q)[i] = q[2] /\ q[2] \in S
<1>1. Len(q) \in Nat \ {0} /\ q \in [1..Len(q) -> S] /\ DOMAIN q = 1..Len(q)
  BY EmptySeq, LenProperties
<1>2. /\ Tail(q) \in Seq(S) /\ Len(Tail(q)) = Len(q) - 1
      /\ \A i \in 1..Len(Tail(q)) : Tail(q)[i] = q[i + 1]
  BY HeadTailProperties
<1>3. DOMAIN Tail(q) = 1..Len(Tail(q)) /\ (Tail(q) # <<>> => Len(Tail(q)) # 0) /\ Len(<<>>) = 0
  BY <1>2, EmptySeq, LenProperties
<1>4. Head(q) = q[1]
  BY <1>1
<1>5. ASSUME NEW i \in DOMAIN Tail(q)
      PROVE  Len(q) = 2 /\ i = 1 /\ 2 \in DOMAIN q /\ Tail(q)[i] = q[2] /\ q[2] \in S
  <2>1. Len(q) = 2 /\ i = 1
    BY <1>1, <1>2, <1>3, <1>5
  <2> QED
    BY <1>1, <1>2, <1>3, <2>1
<1>6. Len(q) = 1 <=> Tail(q) = <<>>
  BY <1>1, <1>2, <1>3
<1>7. Len(q) \in {1, 2}
  BY <1>1
<1>8. 1 \in DOMAIN q /\ q[1] \in S
  BY <1>1
<1>9. Len(Tail(q)) = 0 \/ Len(Tail(q)) = 1
  BY <1>2, <1>7
<1>10. Len(Tail(q)) <= 2 /\ Len(Tail(q)) # 2
  BY <1>9, SMTT(30)
<1>11. Len(q) > 1 <=> Len(q) = 2
  BY <1>7, SMTT(30)
<1> QED
  BY <1>2, <1>4, <1>5, <1>6, <1>7, <1>8, <1>10, <1>11

(* Where lfs_ctz_extend goes on.                                           *)
LEMMA ExtensionFits ==
  ASSUME FileInv
  PROVE  /\ Extension.off \in 0..PerBlock
         /\ f.pos = 0 => Extension = [off |-> 0, content |-> [ptrs |-> <<>>, text |-> <<>>]]
         /\ f.pos > 0 /\ Position(f.pos) < PerBlock =>
              Extension = [off |-> Position(f.pos), content |-> Copied(Position(f.pos))]
         /\ f.pos > 0 /\ Position(f.pos) = PerBlock =>
              Extension = [off |-> 0,
                           content |-> [ptrs |-> Skips(data, f.block, LastIndex(f.pos) + 1),
                                        text |-> <<>>]]
<1>1. f.pos \in Nat /\ PerBlock \in Nat \ {0}
  BY SizesAreNumbers DEF FileInv
<1>2. ASSUME f.pos > 0 PROVE Position(f.pos) \in 1..PerBlock
  <2>1. f.pos \in Nat \ {0}
    BY <1>1, <1>2
  <2> QED
    BY <2>1, BlockOfPiece
<1> QED
  BY <1>1, <1>2 DEF Extension, Position

-----------------------------------------------------------------------------
(* ControlInv, one lemma for each action.                                  *)

LEMMA AllocFoundControl ==
  ASSUME AllocInv, AllocFound
  PROVE  ControlInv'
<1>0. AllocInv /\ ControlInv /\ LookaheadInv /\ PlaceInv /\ FileInv /\ CallInv /\ TodoInv
      /\ SessionInv /\ HandedInv /\ FilesInv
  BY DEF AllocInv, ControlInv, BlocksInv
<1> USE SizesAreNumbers DEF AllocFound, disk, Place, Caller, FileCaller, InCall, Committing
<1>1. LookaheadInv'
  <2> DEFINE o == Least(FreeAhead)
             next == Least((FreeAhead \ {o}) \cup {la.size})
  <2>1. o \in la.next..(la.size - 1) /\ next \in (o + 1)..la.size
    BY <1>0, NextFree
  <2>2. la' = [la EXCEPT !.next = next, !.ckpoint = @ - (next - la.next)]
    OBVIOUS
  <2> HIDE DEF o, next
  <2>3. /\ next \in 0..Window /\ la.ckpoint - (next - la.next) \in 0..BlockCount
        /\ next <= la.size /\ la.size - next <= la.ckpoint - (next - la.next)
    BY <1>0, <2>1 DEF LookaheadInv
  <2> QED
    BY <1>0, <2>2, <2>3 DEF LookaheadInv
<1>2. PlaceInv'
  <2>1. Least(FreeAhead) \in FreeAhead
    BY <1>0, NextFree
  <2>2. At(Least(FreeAhead)) \in Blocks
    BY <1>0, <2>1, AheadNotHanded DEF FreeAhead, AllocInv, BlocksInv
  <2> QED
    BY <1>0, <2>2 DEF PlaceInv
<1>3. FileInv'
  BY <1>0 DEF FileInv, PlaceInv
<1>4. CallInv'
  BY <1>0 DEF CallInv, PlaceInv
<1>5. TodoInv'
  BY <1>0 DEF TodoInv, PlaceInv
<1>6. SessionInv'
  BY <1>0 DEF SessionInv, PlaceInv
<1> QED
  BY <1>1, <1>2, <1>3, <1>4, <1>5, <1>6 DEF ControlInv

LEMMA AllocScanControl ==
  ASSUME AllocInv, AllocScan
  PROVE  ControlInv'
<1>0. AllocInv /\ ControlInv /\ LookaheadInv /\ PlaceInv /\ FileInv /\ CallInv /\ TodoInv
      /\ SessionInv /\ HandedInv /\ FilesInv
  BY DEF AllocInv, ControlInv, BlocksInv
<1> USE SizesAreNumbers DEF AllocScan, disk, place, seen, Place, Caller, FileCaller, InCall,
  Committing
<1>1. LookaheadInv'
  <2>1. /\ Remaining \in 1..BlockCount /\ WindowSize(Remaining) \in 1..Window
        /\ WindowSize(Remaining) <= Remaining /\ NewStart \in Blocks
    BY <1>0, WindowFits
  <2> QED
    BY <1>0, <2>1 DEF LookaheadInv, Kept
<1>2. PlaceInv'
  BY <1>0 DEF PlaceInv
<1>3. FileInv'
  BY <1>0 DEF FileInv, PlaceInv
<1>4. CallInv'
  BY <1>0 DEF CallInv, PlaceInv
<1>5. TodoInv'
  BY <1>0 DEF TodoInv, PlaceInv
<1>6. SessionInv'
  BY <1>0 DEF SessionInv, PlaceInv
<1> QED
  BY <1>1, <1>2, <1>3, <1>4, <1>5, <1>6 DEF ControlInv

LEMMA AllocFailsControl ==
  ASSUME AllocInv, AllocFails
  PROVE  ControlInv'
<1>0. AllocInv /\ ControlInv /\ LookaheadInv /\ PlaceInv /\ FileInv /\ CallInv /\ TodoInv
      /\ SessionInv /\ HandedInv /\ FilesInv
  BY DEF AllocInv, ControlInv, BlocksInv
<1> USE SizesAreNumbers DEF AllocFails, OutOfSpace, disk, seen, Place, Caller, FileCaller,
  InCall, Committing
<1>1. LookaheadInv'
  <2>1. la.size \in 0..Window /\ Remaining \in 0..BlockCount /\ la.size - la.size <= Remaining
    BY <1>0 DEF LookaheadInv, Remaining
  <2>2. la' = [la EXCEPT !.next = la.size, !.ckpoint = Remaining]
    OBVIOUS
  <2> DEFINE r == Remaining
  <2>3. r \in 0..BlockCount /\ la.size - la.size <= r
        /\ la' = [la EXCEPT !.next = la.size, !.ckpoint = r]
    BY <2>1, <2>2
  <2>4. la.size <= la.size /\ la.size \in 0..Window
    BY <1>0, <2>1
  <2> HIDE DEF r
  <2> QED
    BY <1>0, <2>3, <2>4, LookaheadMoves
<1>2. PlaceInv'
  BY <1>0 DEF PlaceInv
<1>3. FileInv'
  BY <1>0 DEF FileInv, PlaceInv
<1>4. CallInv'
  BY <1>0 DEF CallInv, PlaceInv
<1>5. TodoInv'
  BY <1>0 DEF TodoInv, PlaceInv
<1>6. SessionInv'
  BY <1>0 DEF SessionInv, PlaceInv
<1> QED
  BY <1>1, <1>2, <1>3, <1>4, <1>5, <1>6 DEF ControlInv

LEMMA WriteInlineControl ==
  ASSUME AllocInv, WriteInline
  PROVE  ControlInv'
<1>0. AllocInv /\ ControlInv /\ LookaheadInv /\ PlaceInv /\ FileInv /\ CallInv /\ TodoInv
      /\ SessionInv /\ HandedInv /\ FilesInv
  BY DEF AllocInv, ControlInv, BlocksInv
<1> USE SizesAreNumbers DEF WriteInline, Checkpoint, disk, place, Place, Caller, FileCaller,
  InCall, Committing
<1>1. LookaheadInv'
  BY <1>0 DEF LookaheadInv, PlaceInv
<1>2. PlaceInv'
  BY <1>0 DEF PlaceInv
<1>3. FileInv'
  <2>1. ~f.dirty
    BY <1>0 DEF CallInv
  <2>2. f.pos + f.left \in 0..MaxSize /\ 0 \in 0..MaxSize /\ f.pos + f.left + 0 <= MaxSize
        /\ f.pos + f.left <= InlineMax
    BY <1>0 DEF FileInv
  <2>3. f' = [f EXCEPT !.pos = f.pos + f.left, !.left = 0, !.writing = TRUE]
    OBVIOUS
  <2> QED
    BY <1>0, <2>1, <2>2, <2>3 DEF FileInv
<1>4. CallInv'
  BY <1>0 DEF CallInv, PlaceInv
<1>5. TodoInv'
  <2>1. todo = <<>> /\ todo' = <<>>
    BY <1>0 DEF CallInv
  <2> QED
    BY <1>0, <2>1 DEF TodoInv, PlaceInv
<1>6. SessionInv'
  BY <1>0 DEF SessionInv, PlaceInv
<1> QED
  BY <1>1, <1>2, <1>3, <1>4, <1>5, <1>6 DEF ControlInv

LEMMA OutlineControl ==
  ASSUME AllocInv, Outline
  PROVE  ControlInv'
<1>0. AllocInv /\ ControlInv /\ LookaheadInv /\ PlaceInv /\ FileInv /\ CallInv /\ TodoInv
      /\ SessionInv /\ HandedInv /\ FilesInv
  BY DEF AllocInv, ControlInv, BlocksInv
<1> USE SizesAreNumbers DEF Outline, Alloc, Checkpoint, disk, Place, Caller, FileCaller, InCall,
  Committing
<1>1. LookaheadInv'
  BY <1>0 DEF LookaheadInv, PlaceInv
<1>2. PlaceInv'
  BY <1>0 DEF PlaceInv
<1>3. FileInv'
  BY <1>0 DEF FileInv, PlaceInv
<1>4. CallInv'
  BY <1>0 DEF CallInv, PlaceInv
<1>5. TodoInv'
  <2>1. todo = <<>> /\ todo' = <<>>
    BY <1>0 DEF CallInv
  <2> QED
    BY <1>0, <2>1 DEF TodoInv, PlaceInv
<1>6. SessionInv'
  BY <1>0 DEF SessionInv, PlaceInv
<1> QED
  BY <1>1, <1>2, <1>3, <1>4, <1>5, <1>6 DEF ControlInv

LEMMA ExtendControl ==
  ASSUME AllocInv, Extend
  PROVE  ControlInv'
<1>0. AllocInv /\ ControlInv /\ LookaheadInv /\ PlaceInv /\ FileInv /\ CallInv /\ TodoInv
      /\ SessionInv /\ HandedInv /\ FilesInv
  BY DEF AllocInv, ControlInv, BlocksInv
<1> USE SizesAreNumbers DEF Extend, Alloc, Checkpoint, disk, NeedsBlock, Place, Caller,
  FileCaller, InCall, Committing
<1>1. LookaheadInv'
  BY <1>0 DEF LookaheadInv, PlaceInv
<1>2. PlaceInv'
  BY <1>0 DEF PlaceInv
<1>3. FileInv'
  <2>1. CASE f.writing \/ f.pos = 0
    BY <1>0, <2>1 DEF FileInv
  <2>2. CASE ~f.writing /\ f.pos # 0
    <3>1. ~f.dirty
      BY <1>0 DEF CallInv
    <3>2. f.head \in Blocks /\ Find(data, f.head, LastIndex(f.size), LastIndex(f.pos)) = f.head
      BY <1>0, <2>2, <3>1, OpenedAtHead DEF AllocInv
    <3> QED
      BY <1>0, <2>2, <3>2 DEF FileInv
  <2> QED
    BY <2>1, <2>2
<1>4. CallInv'
  <2>1. ~f.dirty
    BY <1>0 DEF CallInv
  <2>2. ~f.writing =>
          f.pos > 0 /\ Find(data, f.head, LastIndex(f.size), LastIndex(f.pos)) = f.head
    BY <1>0, <2>1, OpenedAtHead DEF AllocInv
  <2> QED
    BY <1>0, <2>2 DEF CallInv, PlaceInv
<1>5. TodoInv'
  <2>1. todo = <<>> /\ todo' = <<>>
    BY <1>0 DEF CallInv
  <2> QED
    BY <1>0, <2>1 DEF TodoInv, PlaceInv
<1>6. SessionInv'
  BY <1>0 DEF SessionInv, PlaceInv
<1> QED
  BY <1>1, <1>2, <1>3, <1>4, <1>5, <1>6 DEF ControlInv

LEMMA ProgramControl ==
  ASSUME AllocInv, Program
  PROVE  ControlInv'
<1>0. AllocInv /\ ControlInv /\ LookaheadInv /\ PlaceInv /\ FileInv /\ CallInv /\ TodoInv
      /\ SessionInv /\ HandedInv /\ FilesInv
  BY DEF AllocInv, ControlInv, BlocksInv
<1>7. \A k \in 1..f.left : /\ f.pos + k \in 0..MaxSize /\ f.left - k \in 0..MaxSize
                            /\ f.pos + k + (f.left - k) <= MaxSize
  <2>1. f.pos \in Nat /\ f.left \in Nat /\ f.pos + f.left <= MaxSize /\ MaxSize \in Nat
    BY <1>0, SizesAreNumbers DEF FileInv
  <2> QED
    BY <2>1
<1> USE SizesAreNumbers DEF Program, Checkpoint, place, NeedsBlock, Place, Caller, FileCaller,
  InCall, Committing
<1>1. LookaheadInv'
  BY <1>0, SMTT(30) DEF LookaheadInv, PlaceInv
<1>2. PlaceInv'
  BY <1>0 DEF PlaceInv
<1>3. FileInv'
  <2>1. Chunk \in 1..f.left /\ f.off + Chunk \in 1..PerBlock
    BY <1>0, ChunkFits
  <2> DEFINE k == Chunk
  <2>3. k \in 1..f.left /\ f.off + k \in 1..PerBlock
    BY <2>1
  <2>4. f' = [f EXCEPT !.pos = f.pos + k, !.off = f.off + k, !.left = f.left - k]
    OBVIOUS
  <2> HIDE DEF k
  <2>6. /\ f.pos + k \in 0..MaxSize /\ f.left - k \in 0..MaxSize
        /\ f.pos + k + (f.left - k) <= MaxSize /\ f.off + k \in 0..PerBlock
    BY <1>7, <2>3
  <2>5. ~f.dirty
    BY <1>0 DEF CallInv
  <2> QED
    BY <1>0, <2>4, <2>5, <2>6, ZenonT(30) DEF FileInv
<1>4. CallInv'
  <2>1. Chunk \in 1..f.left /\ f.off + Chunk \in 1..PerBlock
    BY <1>0, ChunkFits
  <2>2. f.off \in Nat /\ f.left \in Nat
    BY <1>0 DEF FileInv
  <2> QED
    BY <1>0, <2>1, <2>2 DEF CallInv, PlaceInv
<1>5. TodoInv'
  <2>1. todo = <<>> /\ todo' = <<>>
    BY <1>0 DEF CallInv
  <2> QED
    BY <1>0, <2>1 DEF TodoInv, PlaceInv
<1>6. SessionInv'
  BY <1>0 DEF SessionInv, PlaceInv
<1> QED
  BY <1>1, <1>2, <1>3, <1>4, <1>5, <1>6 DEF ControlInv

LEMMA ProgramFailsControl ==
  ASSUME AllocInv, ~BadFirst, ProgramFails
  PROVE  ControlInv'
<1>0. AllocInv /\ ControlInv /\ LookaheadInv /\ PlaceInv /\ FileInv /\ CallInv /\ TodoInv
      /\ SessionInv /\ HandedInv /\ FilesInv
  BY DEF AllocInv, ControlInv, BlocksInv
<1> USE SizesAreNumbers DEF ProgramFails, Alloc, disk, seen, NeedsBlock, MayBeBad, CountBad,
  Place, Caller, FileCaller, InCall, Committing
<1>1. LookaheadInv'
  BY <1>0 DEF LookaheadInv, PlaceInv
<1>2. PlaceInv'
  BY <1>0 DEF PlaceInv
<1>3. FileInv'
  BY <1>0 DEF FileInv, PlaceInv
<1>4. CallInv'
  <2>1. f.off > 0 \/ f.pos = 0
    OBVIOUS
  <2> QED
    BY <1>0, <2>1 DEF CallInv, PlaceInv
<1>5. TodoInv'
  BY <1>0 DEF TodoInv, PlaceInv
<1>6. SessionInv'
  BY <1>0 DEF SessionInv, PlaceInv
<1> QED
  BY <1>1, <1>2, <1>3, <1>4, <1>5, <1>6 DEF ControlInv

LEMMA WriteDoneControl ==
  ASSUME AllocInv, WriteDone
  PROVE  ControlInv'
<1>0. AllocInv /\ ControlInv /\ LookaheadInv /\ PlaceInv /\ FileInv /\ CallInv /\ TodoInv
      /\ SessionInv /\ HandedInv /\ FilesInv
  BY DEF AllocInv, ControlInv, BlocksInv
<1> USE SizesAreNumbers DEF WriteDone, disk, seen, Place, Caller, FileCaller, InCall, Committing
<1>1. LookaheadInv'
  BY <1>0 DEF LookaheadInv, PlaceInv
<1>2. PlaceInv'
  BY <1>0 DEF PlaceInv
<1>3. FileInv'
  BY <1>0 DEF FileInv, PlaceInv
<1>4. CallInv'
  BY <1>0 DEF CallInv, PlaceInv
<1>5. TodoInv'
  BY <1>0 DEF TodoInv, PlaceInv
<1>6. SessionInv'
  BY <1>0 DEF SessionInv, PlaceInv
<1> QED
  BY <1>1, <1>2, <1>3, <1>4, <1>5, <1>6 DEF ControlInv

LEMMA UseBlockControl ==
  ASSUME AllocInv, UseBlock
  PROVE  ControlInv'
<1>0. AllocInv /\ ControlInv /\ LookaheadInv /\ PlaceInv /\ FileInv /\ CallInv /\ TodoInv
      /\ SessionInv /\ HandedInv /\ FilesInv
  BY DEF AllocInv, ControlInv, BlocksInv
<1> USE SizesAreNumbers DEF UseBlock, Place, Caller, FileCaller, InCall, Committing
<1>1. LookaheadInv'
  BY <1>0 DEF LookaheadInv, PlaceInv
<1>2. PlaceInv'
  BY <1>0 DEF PlaceInv
<1>3. FileInv'
  <2>1. NewBlock.off \in 0..PerBlock
    BY <1>0, ExtensionFits DEF NewBlock, Relocation, FileInv
  <2>2. got \in Blocks
    BY <1>0 DEF AllocInv, BlocksInv, HeldInv, HandedInv
  <2>3. ~f.dirty
    BY <1>0 DEF CallInv
  <2> QED
    BY <1>0, <2>1, <2>2, <2>3 DEF FileInv
<1>4. CallInv'
  <2>1. ~f.dirty /\ todo = <<>> /\ session # NoName /\ f.name = session /\ held = {}
    BY <1>0 DEF CallInv
  <2>2. f' = [f EXCEPT !.block = got, !.off = NewBlock.off, !.writing = TRUE, !.inline = FALSE]
    OBVIOUS
  <2>3. f'.name = f.name /\ f'.dirty = f.dirty /\ f'.writing /\ f'.left = f.left
        /\ f'.off = NewBlock.off
    BY <1>0, <2>2 DEF FileInv
  <2>4. CASE caller = "reflush"
    <3>1. f.left = 0 /\ f.off > 0 /\ NewBlock.off = f.off
      BY <1>0, <2>4 DEF CallInv, NewBlock, Relocation
    <3> QED
      BY <1>0, <2>1, <2>3, <2>4, <3>1 DEF CallInv, PlaceInv
  <2>5. CASE caller \in {"extend", "outline", "relocate"}
    <3>1. f.left > 0 /\ f.left # 0
      BY <1>0, <2>5 DEF CallInv, FileInv
    <3> QED
      BY <1>0, <2>1, <2>3, <2>5, <3>1 DEF CallInv, PlaceInv
  <2> QED
    BY <2>4, <2>5
<1>5. TodoInv'
  <2>1. todo = <<>> /\ todo' = <<>>
    BY <1>0 DEF CallInv
  <2> QED
    BY <1>0, <2>1 DEF TodoInv, PlaceInv
<1>6. SessionInv'
  BY <1>0 DEF SessionInv, PlaceInv
<1> QED
  BY <1>1, <1>2, <1>3, <1>4, <1>5, <1>6 DEF ControlInv

LEMMA BlockIsBadControl ==
  ASSUME AllocInv, BlockIsBad
  PROVE  ControlInv'
<1>0. AllocInv /\ ControlInv /\ LookaheadInv /\ PlaceInv /\ FileInv /\ CallInv /\ TodoInv
      /\ SessionInv /\ HandedInv /\ FilesInv
  BY DEF AllocInv, ControlInv, BlocksInv
<1> USE SizesAreNumbers DEF BlockIsBad, Alloc, seen, MayBeBad, CountBad, Place, Caller,
  FileCaller, InCall, Committing
<1>1. LookaheadInv'
  BY <1>0 DEF LookaheadInv, PlaceInv
<1>2. PlaceInv'
  BY <1>0 DEF PlaceInv
<1>3. FileInv'
  BY <1>0 DEF FileInv, PlaceInv
<1>4. CallInv'
  BY <1>0 DEF CallInv, PlaceInv
<1>5. TodoInv'
  BY <1>0 DEF TodoInv, PlaceInv
<1>6. SessionInv'
  BY <1>0 DEF SessionInv, PlaceInv
<1> QED
  BY <1>1, <1>2, <1>3, <1>4, <1>5, <1>6 DEF ControlInv

LEMMA FlushControl ==
  ASSUME AllocInv, Flush
  PROVE  ControlInv'
<1>0. AllocInv /\ ControlInv /\ LookaheadInv /\ PlaceInv /\ FileInv /\ CallInv /\ TodoInv
      /\ SessionInv /\ HandedInv /\ FilesInv
  BY DEF AllocInv, ControlInv, BlocksInv
<1> USE SizesAreNumbers DEF Flush, disk, seen, Place, Caller, FileCaller, InCall, Committing
<1>1. LookaheadInv'
  BY <1>0 DEF LookaheadInv, PlaceInv
<1>2. PlaceInv'
  BY <1>0 DEF PlaceInv
<1>3. FileInv'
  BY <1>0 DEF FileInv, PlaceInv
<1>4. CallInv'
  BY <1>0 DEF CallInv, PlaceInv
<1>5. TodoInv'
  <2> DEFINE e == [inline |-> f.inline, head |-> IF f.inline THEN NoBlock ELSE f.block,
    size |-> f.pos]
             x == [name |-> f.name, entry |-> e]
  <2>0. f' = [f EXCEPT !.head = f.block, !.size = f.pos, !.writing = FALSE, !.dirty = TRUE]
        /\ todo' = <<x>>
    OBVIOUS
  <2>1. f'.name = f.name /\ f'.inline = f.inline /\ f'.dirty /\ f'.head = f.block /\ f'.size = f.pos
    BY <1>0, <2>0 DEF FileInv
  <2>2. f.name \in Names
    BY <1>0 DEF CallInv, SessionInv
  <2>3. e \in Entry
    BY <1>0 DEF FileInv, Entry
  <2>4. x \in [name : Names, entry : Entry \cup {Gone}]
    BY <2>2, <2>3
  <2>5. x = [name |-> f'.name, entry |-> [inline |-> f'.inline,
                                          head |-> IF f'.inline THEN NoBlock ELSE f'.head,
                                          size |-> f'.size]]
    BY <2>1
  <2> HIDE DEF x, e
  <2>6. /\ <<x>> \in Seq([name : Names, entry : Entry \cup {Gone}]) /\ Len(<<x>>) = 1
        /\ <<x>> # <<>>
        /\ \A i \in DOMAIN <<x>> : i = 1 /\ <<x>>[i] = x
    BY <2>4, OneTodo
  <2> QED
    BY <2>0, <2>1, <2>5, <2>6 DEF TodoInv
<1>6. SessionInv'
  <2> DEFINE e == [inline |-> f.inline, head |-> IF f.inline THEN NoBlock ELSE f.block,
    size |-> f.pos]
             x == [name |-> f.name, entry |-> e]
  <2>1. todo' = <<x>> /\ session' = session /\ entries' = entries
    OBVIOUS
  <2>2. e # Gone /\ x.entry = e /\ x.name = f.name
    BY <1>0 DEF FileInv, Gone
  <2>3. f.name = session
    BY <1>0 DEF CallInv
  <2> HIDE DEF x
  <2>4. <<x>> # <<>> /\ \A i \in DOMAIN <<x>> : i = 1 /\ <<x>>[i] = x
    OBVIOUS
  <2> QED
    BY <1>0, <2>1, <2>2, <2>3, <2>4 DEF SessionInv
<1> QED
  BY <1>1, <1>2, <1>3, <1>4, <1>5, <1>6 DEF ControlInv

LEMMA FlushFailsControl ==
  ASSUME AllocInv, FlushFails
  PROVE  ControlInv'
<1>0. AllocInv /\ ControlInv /\ LookaheadInv /\ PlaceInv /\ FileInv /\ CallInv /\ TodoInv
      /\ SessionInv /\ HandedInv /\ FilesInv
  BY DEF AllocInv, ControlInv, BlocksInv
<1> USE SizesAreNumbers DEF FlushFails, Alloc, disk, seen, MayBeBad, CountBad, Place, Caller,
  FileCaller, InCall, Committing
<1>1. LookaheadInv'
  BY <1>0 DEF LookaheadInv, PlaceInv
<1>2. PlaceInv'
  BY <1>0 DEF PlaceInv
<1>3. FileInv'
  BY <1>0 DEF FileInv, PlaceInv
<1>4. CallInv'
  BY <1>0 DEF CallInv, PlaceInv
<1>5. TodoInv'
  BY <1>0 DEF TodoInv, PlaceInv
<1>6. SessionInv'
  BY <1>0 DEF SessionInv, PlaceInv
<1> QED
  BY <1>1, <1>2, <1>3, <1>4, <1>5, <1>6 DEF ControlInv

LEMMA TakeForDirectoryControl ==
  ASSUME AllocInv, TakeForDirectory
  PROVE  ControlInv'
<1>0. AllocInv /\ ControlInv /\ LookaheadInv /\ PlaceInv /\ FileInv /\ CallInv /\ TodoInv
      /\ SessionInv /\ HandedInv /\ FilesInv
  BY DEF AllocInv, ControlInv, BlocksInv
<1> USE SizesAreNumbers DEF TakeForDirectory, Alloc, disk, seen, Place, Caller, FileCaller,
  InCall, Committing
<1>1. LookaheadInv'
  BY <1>0 DEF LookaheadInv, PlaceInv
<1>2. PlaceInv'
  BY <1>0 DEF PlaceInv
<1>3. FileInv'
  BY <1>0 DEF FileInv, PlaceInv
<1>4. CallInv'
  BY <1>0 DEF CallInv, PlaceInv
<1>5. TodoInv'
  BY <1>0 DEF TodoInv, PlaceInv
<1>6. SessionInv'
  BY <1>0 DEF SessionInv, PlaceInv
<1> QED
  BY <1>1, <1>2, <1>3, <1>4, <1>5, <1>6 DEF ControlInv

LEMMA HoldBlockControl ==
  ASSUME AllocInv, HoldBlock
  PROVE  ControlInv'
<1>0. AllocInv /\ ControlInv /\ LookaheadInv /\ PlaceInv /\ FileInv /\ CallInv /\ TodoInv
      /\ SessionInv /\ HandedInv /\ FilesInv
  BY DEF AllocInv, ControlInv, BlocksInv
<1> USE SizesAreNumbers DEF HoldBlock, Alloc, disk, seen, Place, Caller, FileCaller, InCall,
  Committing
<1>1. LookaheadInv'
  BY <1>0 DEF LookaheadInv, PlaceInv
<1>2. PlaceInv'
  BY <1>0 DEF PlaceInv
<1>3. FileInv'
  BY <1>0 DEF FileInv, PlaceInv
<1>4. CallInv'
  BY <1>0 DEF CallInv, PlaceInv
<1>5. TodoInv'
  BY <1>0 DEF TodoInv, PlaceInv
<1>6. SessionInv'
  BY <1>0 DEF SessionInv, PlaceInv
<1> QED
  BY <1>1, <1>2, <1>3, <1>4, <1>5, <1>6 DEF ControlInv

LEMMA CommitDirectoryControl ==
  ASSUME AllocInv, CommitDirectory
  PROVE  ControlInv'
<1>0. AllocInv /\ ControlInv /\ LookaheadInv /\ PlaceInv /\ FileInv /\ CallInv /\ TodoInv
      /\ SessionInv /\ HandedInv /\ FilesInv
  BY DEF AllocInv, ControlInv, BlocksInv
<1> USE SizesAreNumbers DEF CommitDirectory, seen, NoFile, Place, Caller, FileCaller, InCall,
  Committing
<1>1. LookaheadInv'
  BY <1>0 DEF LookaheadInv, PlaceInv
<1>2. PlaceInv'
  BY <1>0 DEF PlaceInv
<1>3. FileInv'
  <2>1. CASE UNCHANGED f
    BY <1>0, <2>1 DEF FileInv
  <2>2. CASE f' = NoFile
    BY <2>2, NoFileFits
  <2> QED
    BY <2>1, <2>2
<1>4. CallInv'
  BY <1>0 DEF CallInv, PlaceInv
<1>5. TodoInv'
  <2> DEFINE c == Head(todo)
  <2>1. /\ entries' = [entries EXCEPT ![c.name] = c.entry] /\ todo' = Tail(todo)
        /\ session' = session
        /\ Len(todo) > 1 => f' = f /\ at' = "commit"
        /\ ~(Len(todo) > 1) => at' = "idle"
    OBVIOUS
  <2> DEFINE S == [name : Names, entry : Entry \cup {Gone}]
  <2>2. todo \in Seq(S) /\ todo # <<>> /\ Len(todo) <= 2
    BY <1>0 DEF TodoInv
  <2> HIDE DEF S
  <2>3. /\ 1 \in DOMAIN todo /\ todo[1] \in S /\ c = todo[1]
        /\ Tail(todo) \in Seq(S) /\ Len(Tail(todo)) <= 2 /\ Len(Tail(todo)) # 2
          /\ Len(todo) \in {1, 2}
        /\ Len(todo) = 1 <=> Tail(todo) = <<>>
        /\ Len(todo) > 1 <=> Len(todo) = 2
        /\ \A i \in DOMAIN Tail(todo) :
             Len(todo) = 2 /\ i = 1 /\ 2 \in DOMAIN todo /\ Tail(todo)[i] = todo[2] /\ todo[2] \in S
    BY <2>2, NextTodo
  <2> HIDE DEF c
  <2>4. Len(todo) \in Nat /\ (Len(todo) = 1 \/ Len(todo) = 2)
    BY <2>3
  <2>5. ASSUME NEW i \in DOMAIN todo' PROVE todo'[i].entry \in {Created, Gone}
    <3>1. Len(todo) = 2 /\ 2 \in DOMAIN todo /\ todo'[i] = todo[2] /\ f = NoFile
      BY <1>0, <2>1, <2>3, <2>5 DEF TodoInv
    <3>2. ~f.dirty
      BY <3>1
    <3> QED
      BY <1>0, <3>1, <3>2 DEF TodoInv
  <2>6. Len(todo') <= 2 /\ Len(todo') # 2
    BY <2>1, <2>3, Zenon
  <2>7. Committing' => todo' # <<>>
    BY <2>1, <2>3, <2>4
  <2> QED
    BY <2>1, <2>3, <2>5, <2>6, <2>7 DEF TodoInv, S
<1>6. SessionInv'
  <2> DEFINE c == Head(todo)
  <2>1. /\ entries' = [entries EXCEPT ![c.name] = c.entry] /\ todo' = Tail(todo)
        /\ session' = session
        /\ Len(todo) > 1 => f' = f /\ at' = "commit"
        /\ ~(Len(todo) > 1) => at' = "idle"
    OBVIOUS
  <2> DEFINE S == [name : Names, entry : Entry \cup {Gone}]
  <2>2. todo \in Seq(S) /\ todo # <<>> /\ Len(todo) <= 2
    BY <1>0 DEF TodoInv
  <2> HIDE DEF S
  <2>3. /\ 1 \in DOMAIN todo /\ todo[1] \in S /\ c = todo[1]
        /\ Tail(todo) \in Seq(S) /\ Len(Tail(todo)) <= 2 /\ Len(Tail(todo)) # 2
          /\ Len(todo) \in {1, 2}
        /\ Len(todo) = 1 <=> Tail(todo) = <<>>
        /\ Len(todo) > 1 <=> Len(todo) = 2
        /\ \A i \in DOMAIN Tail(todo) :
             Len(todo) = 2 /\ i = 1 /\ 2 \in DOMAIN todo /\ Tail(todo)[i] = todo[2] /\ todo[2] \in S
    BY <2>2, NextTodo
  <2> HIDE DEF c
  <2>4. Len(todo) \in Nat /\ (Len(todo) = 1 \/ Len(todo) = 2)
    BY <2>3
  <2>5. CASE session = NoName
    BY <2>1, <2>5 DEF SessionInv
  <2>6. CASE session # NoName
    <3>1. \A i \in DOMAIN todo : todo[i].name = session /\ todo[i].entry # Gone
      BY <1>0, <2>6 DEF SessionInv
    <3>2. c.name = session /\ c.entry # Gone
      BY <2>3, <3>1
    <3>3. entries'[session] # Gone
      BY <1>0, <2>1, <2>6, <3>2 DEF SessionInv, FilesInv, EntriesInv
    <3>4. \A i \in DOMAIN todo' : todo'[i].name = session /\ todo'[i].entry # Gone
      BY <2>1, <2>3, <3>1
    <3> QED
      BY <1>0, <2>1, <2>6, <3>3, <3>4 DEF SessionInv
  <2> QED
    BY <2>5, <2>6
<1> QED
  BY <1>1, <1>2, <1>3, <1>4, <1>5, <1>6 DEF ControlInv

LEMMA filesys_start_file_writeControl ==
  ASSUME AllocInv, filesys_start_file_write
  PROVE  ControlInv'
<1>0. AllocInv /\ ControlInv /\ LookaheadInv /\ PlaceInv /\ FileInv /\ CallInv /\ TodoInv
      /\ SessionInv /\ HandedInv /\ FilesInv
  BY DEF AllocInv, ControlInv, BlocksInv
<1> USE SizesAreNumbers DEF filesys_start_file_write, Begin, Walked, disk, seen, Place, Caller,
  FileCaller, InCall, Committing
<1>1. LookaheadInv'
  BY <1>0 DEF LookaheadInv, PlaceInv
<1>2. PlaceInv'
  BY <1>0 DEF PlaceInv
<1>3. FileInv'
  BY <1>0 DEF FileInv, PlaceInv
<1>4. CallInv'
  BY <1>0 DEF CallInv, PlaceInv
<1>5. TodoInv'
  <2>0. f = NoFile /\ todo = <<>>
    BY <1>0 DEF CallInv
  <2>1. PICK n \in Names, size \in Announced :
          /\ session' = n
          /\ todo' = IF entries[n] = Gone
                     THEN <<[name |-> n, entry |-> Created], [name |-> n, entry |-> Created]>>
                     ELSE <<[name |-> n, entry |-> entries[n]], [name |-> n, entry |-> Created]>>
    OBVIOUS
  <2> DEFINE S == [name : Names, entry : Entry \cup {Gone}]
             x == [name |-> n, entry |-> IF entries[n] = Gone THEN Created ELSE entries[n]]
             y == [name |-> n, entry |-> Created]
  <2>2. Created \in Entry /\ Created # Gone /\ entries[n] \in Entry \cup {Gone}
    BY <1>0 DEF Created, Entry, Gone, FilesInv, EntriesInv
  <2>3. x \in S /\ y \in S /\ todo' = <<x, y>>
    BY <2>1, <2>2
  <2>4. /\ x.name = n /\ (x.entry = Created \/ x.entry = entries[n]) /\ x.entry # Gone
        /\ y.name = n /\ y.entry = Created
    BY <2>2
  <2> HIDE DEF S, x, y
  <2>5. /\ todo' \in Seq(S) /\ Len(todo') = 2 /\ todo' # <<>>
        /\ \A i \in DOMAIN todo' : (i = 1 /\ todo'[i] = x) \/ (i = 2 /\ todo'[i] = y)
    BY <2>3, TwoTodo
  <2>6. ASSUME NEW i \in DOMAIN todo'
        PROVE  \/ todo'[i].entry \in {Created, Gone}
               \/ todo'[i].entry = entries'[todo'[i].name] /\ i = 1 /\ Len(todo') = 2
    BY <2>4, <2>5
  <2>7. f' = NoFile
    BY <2>0
  <2> QED
    BY <2>5, <2>6, <2>7 DEF TodoInv, S
<1>6. SessionInv'
  <2>0. f = NoFile /\ todo = <<>>
    BY <1>0 DEF CallInv
  <2>1. PICK n \in Names, size \in Announced :
          /\ session' = n
          /\ todo' = IF entries[n] = Gone
                     THEN <<[name |-> n, entry |-> Created], [name |-> n, entry |-> Created]>>
                     ELSE <<[name |-> n, entry |-> entries[n]], [name |-> n, entry |-> Created]>>
    OBVIOUS
  <2> DEFINE S == [name : Names, entry : Entry \cup {Gone}]
             x == [name |-> n, entry |-> IF entries[n] = Gone THEN Created ELSE entries[n]]
             y == [name |-> n, entry |-> Created]
  <2>2. Created \in Entry /\ Created # Gone /\ entries[n] \in Entry \cup {Gone}
    BY <1>0 DEF Created, Entry, Gone, FilesInv, EntriesInv
  <2>3. x \in S /\ y \in S /\ todo' = <<x, y>>
    BY <2>1, <2>2
  <2>4. /\ x.name = n /\ (x.entry = Created \/ x.entry = entries[n]) /\ x.entry # Gone
        /\ y.name = n /\ y.entry = Created
    BY <2>2
  <2> HIDE DEF S, x, y
  <2>5. /\ todo' \in Seq(S) /\ Len(todo') = 2 /\ todo' # <<>>
        /\ \A i \in DOMAIN todo' : (i = 1 /\ todo'[i] = x) \/ (i = 2 /\ todo'[i] = y)
    BY <2>3, TwoTodo
  <2>6. session' = n
    BY <2>1
  <2> QED
    BY <2>2, <2>4, <2>5, <2>6 DEF SessionInv
<1> QED
  BY <1>1, <1>2, <1>3, <1>4, <1>5, <1>6 DEF ControlInv

LEMMA filesys_write_buffer_to_mramControl ==
  ASSUME AllocInv, filesys_write_buffer_to_mram
  PROVE  ControlInv'
<1>0. AllocInv /\ ControlInv /\ LookaheadInv /\ PlaceInv /\ FileInv /\ CallInv /\ TodoInv
      /\ SessionInv /\ HandedInv /\ FilesInv
  BY DEF AllocInv, ControlInv, BlocksInv
<1> USE SizesAreNumbers DEF filesys_write_buffer_to_mram, Begin, disk, seen, NoFile, Place,
  Caller, FileCaller, InCall, Committing
<1>1. LookaheadInv'
  BY <1>0 DEF LookaheadInv, PlaceInv
<1>2. PlaceInv'
  BY <1>0 DEF PlaceInv
<1>3. FileInv'
  <2> DEFINE e == entries[session]
  <2>1. /\ session \in Names /\ todo = <<>>
        /\ e # Gone
    BY <1>0 DEF SessionInv, CallInv
  <2>2. e \in Entry /\ (e.inline => e.size <= InlineMax)
    BY <1>0, <2>1 DEF FilesInv, EntriesInv
  <2>3. PICK k \in 1..(MaxSize - e.size) :
          f' = [NoFile EXCEPT !.name = session, !.inline = e.inline, !.head = e.head,
                              !.size = e.size, !.pos = e.size, !.left = k]
    OBVIOUS
  <2> HIDE DEF e
  <2>4. MaxSize \in Nat
    BY AllocAssumption
  <2>5. e.inline \in BOOLEAN /\ e.head \in Blocks \cup {NoBlock} /\ e.size \in 0..MaxSize
    BY <2>2 DEF Entry
  <2>6. k \in 0..MaxSize /\ e.size + k <= MaxSize
    BY <2>3, <2>4, <2>5
  <2>7. f' = [name |-> session, inline |-> e.inline, writing |-> FALSE, dirty |-> FALSE,
              block |-> NoBlock, pos |-> e.size, off |-> 0, head |-> e.head, size |-> e.size,
              left |-> k]
    BY <2>3
  <2>8. /\ f'.pos + f'.left <= MaxSize /\ ~f'.dirty /\ (f'.inline => f'.pos <= InlineMax)
    BY <2>2, <2>6, <2>7
  <2>9. f' \in [name : Names \cup {NoName}, inline : BOOLEAN, writing : BOOLEAN, dirty : BOOLEAN,
                block : Blocks \cup {NoBlock}, pos : 0..MaxSize, off : 0..PerBlock,
                head : Blocks \cup {NoBlock}, size : 0..MaxSize, left : 0..MaxSize]
    <3>1. session \in Names \cup {NoName} /\ NoBlock \in Blocks \cup {NoBlock}
          /\ 0 \in 0..PerBlock
      BY <2>1
    <3> QED
      BY <2>5, <2>6, <2>7, <3>1
  <2> QED
    BY <2>8, <2>9 DEF FileInv
<1>4. CallInv'
  BY <1>0 DEF CallInv, PlaceInv
<1>5. TodoInv'
  <2>1. todo = <<>> /\ todo' = <<>>
    BY <1>0 DEF CallInv
  <2> QED
    BY <1>0, <2>1 DEF TodoInv, PlaceInv
<1>6. SessionInv'
  BY <1>0 DEF SessionInv, PlaceInv
<1> QED
  BY <1>1, <1>2, <1>3, <1>4, <1>5, <1>6 DEF ControlInv

LEMMA WriteFailedControl ==
  ASSUME AllocInv, WriteFailed
  PROVE  ControlInv'
<1>0. AllocInv /\ ControlInv /\ LookaheadInv /\ PlaceInv /\ FileInv /\ CallInv /\ TodoInv
      /\ SessionInv /\ HandedInv /\ FilesInv
  BY DEF AllocInv, ControlInv, BlocksInv
<1> USE SizesAreNumbers DEF WriteFailed, disk, seen, NoFile, Place, Caller, FileCaller, InCall,
  Committing
<1>1. LookaheadInv'
  BY <1>0 DEF LookaheadInv, PlaceInv
<1>2. PlaceInv'
  BY <1>0 DEF PlaceInv
<1>3. FileInv'
  BY <1>0 DEF FileInv, PlaceInv
<1>4. CallInv'
  BY <1>0 DEF CallInv, PlaceInv
<1>5. TodoInv'
  <2> DEFINE S == [name : Names, entry : Entry \cup {Gone}]
             x == [name |-> f.name, entry |-> Gone]
  <2>1. x \in S /\ x.entry = Gone /\ todo' = <<x>>
    BY <1>0 DEF CallInv, SessionInv
  <2> HIDE DEF S, x
  <2>2. /\ todo' \in Seq(S) /\ Len(todo') = 1 /\ todo' # <<>>
        /\ \A i \in DOMAIN todo' : i = 1 /\ todo'[i] = x
    BY <2>1, OneTodo
  <2> QED
    BY <2>1, <2>2 DEF TodoInv, S
<1>6. SessionInv'
  BY <1>0 DEF SessionInv, PlaceInv
<1> QED
  BY <1>1, <1>2, <1>3, <1>4, <1>5, <1>6 DEF ControlInv

LEMMA CloseFailedControl ==
  ASSUME AllocInv, CloseFailed
  PROVE  ControlInv'
<1>0. AllocInv /\ ControlInv /\ LookaheadInv /\ PlaceInv /\ FileInv /\ CallInv /\ TodoInv
      /\ SessionInv /\ HandedInv /\ FilesInv
  BY DEF AllocInv, ControlInv, BlocksInv
<1> USE SizesAreNumbers DEF CloseFailed, disk, seen, NoFile, Place, Caller, FileCaller, InCall,
  Committing
<1>1. LookaheadInv'
  BY <1>0 DEF LookaheadInv, PlaceInv
<1>2. PlaceInv'
  BY <1>0 DEF PlaceInv
<1>3. FileInv'
  BY <1>0 DEF FileInv, PlaceInv
<1>4. CallInv'
  BY <1>0 DEF CallInv, PlaceInv
<1>5. TodoInv'
  <2>1. todo = <<>> /\ todo' = <<>>
    BY <1>0 DEF CallInv
  <2> QED
    BY <1>0, <2>1 DEF TodoInv, PlaceInv
<1>6. SessionInv'
  BY <1>0 DEF SessionInv, PlaceInv
<1> QED
  BY <1>1, <1>2, <1>3, <1>4, <1>5, <1>6 DEF ControlInv

LEMMA filesys_complete_file_writeControl ==
  ASSUME AllocInv, filesys_complete_file_write
  PROVE  ControlInv'
<1>0. AllocInv /\ ControlInv /\ LookaheadInv /\ PlaceInv /\ FileInv /\ CallInv /\ TodoInv
      /\ SessionInv /\ HandedInv /\ FilesInv
  BY DEF AllocInv, ControlInv, BlocksInv
<1> USE SizesAreNumbers DEF filesys_complete_file_write, disk, place, seen, Place, Caller,
  FileCaller, InCall, Committing
<1>1. LookaheadInv'
  BY <1>0 DEF LookaheadInv, PlaceInv
<1>2. PlaceInv'
  BY <1>0 DEF PlaceInv
<1>3. FileInv'
  BY <1>0 DEF FileInv, PlaceInv
<1>4. CallInv'
  BY <1>0 DEF CallInv, PlaceInv
<1>5. TodoInv'
  BY <1>0 DEF TodoInv, PlaceInv
<1>6. SessionInv'
  BY <1>0 DEF SessionInv, PlaceInv
<1> QED
  BY <1>1, <1>2, <1>3, <1>4, <1>5, <1>6 DEF ControlInv

LEMMA filesys_cancel_file_writeControl ==
  ASSUME AllocInv, filesys_cancel_file_write
  PROVE  ControlInv'
<1>0. AllocInv /\ ControlInv /\ LookaheadInv /\ PlaceInv /\ FileInv /\ CallInv /\ TodoInv
      /\ SessionInv /\ HandedInv /\ FilesInv
  BY DEF AllocInv, ControlInv, BlocksInv
<1> USE SizesAreNumbers DEF filesys_cancel_file_write, Begin, Walked, disk, seen, Place, Caller,
  FileCaller, InCall, Committing
<1>1. LookaheadInv'
  BY <1>0 DEF LookaheadInv, PlaceInv
<1>2. PlaceInv'
  BY <1>0 DEF PlaceInv
<1>3. FileInv'
  BY <1>0 DEF FileInv, PlaceInv
<1>4. CallInv'
  BY <1>0 DEF CallInv, PlaceInv
<1>5. TodoInv'
  <2> DEFINE S == [name : Names, entry : Entry \cup {Gone}]
             x == [name |-> session, entry |-> Gone]
  <2>1. x \in S /\ x.entry = Gone /\ todo' = <<x>>
    BY <1>0 DEF CallInv, SessionInv
  <2> HIDE DEF S, x
  <2>2. /\ todo' \in Seq(S) /\ Len(todo') = 1 /\ todo' # <<>>
        /\ \A i \in DOMAIN todo' : i = 1 /\ todo'[i] = x
    BY <2>1, OneTodo
  <2> QED
    BY <2>1, <2>2 DEF TodoInv, S
<1>6. SessionInv'
  BY <1>0 DEF SessionInv, PlaceInv
<1> QED
  BY <1>1, <1>2, <1>3, <1>4, <1>5, <1>6 DEF ControlInv

LEMMA PowerLossControl ==
  ASSUME AllocInv, PowerLoss
  PROVE  ControlInv'
<1>0. AllocInv /\ ControlInv /\ LookaheadInv /\ PlaceInv /\ FileInv /\ CallInv /\ TodoInv
      /\ SessionInv /\ HandedInv /\ FilesInv
  BY DEF AllocInv, ControlInv, BlocksInv
<1> USE SizesAreNumbers DEF PowerLoss, Mounted, disk, NoFile, Place, Caller, FileCaller, InCall,
  Committing
<1>1. LookaheadInv'
  <2>1. Starts \subseteq Blocks
    BY AllocAssumption DEF Blocks
  <2> QED
    BY <1>0, <2>1 DEF LookaheadInv
<1>2. PlaceInv'
  BY <1>0 DEF PlaceInv
<1>3. FileInv'
  BY <1>0 DEF FileInv, PlaceInv
<1>4. CallInv'
  BY <1>0 DEF CallInv, PlaceInv
<1>5. TodoInv'
  <2>1. todo' = <<>> /\ ~Committing'
    OBVIOUS
  <2> QED
    BY <2>1 DEF TodoInv
<1>6. SessionInv'
  BY <1>0 DEF SessionInv, PlaceInv
<1> QED
  BY <1>1, <1>2, <1>3, <1>4, <1>5, <1>6 DEF ControlInv

LEMMA ResetControl ==
  ASSUME AllocInv, Reset
  PROVE  ControlInv'
<1>0. AllocInv /\ ControlInv /\ LookaheadInv /\ PlaceInv /\ FileInv /\ CallInv /\ TodoInv
      /\ SessionInv /\ HandedInv /\ FilesInv
  BY DEF AllocInv, ControlInv, BlocksInv
<1> USE SizesAreNumbers DEF Reset, Mounted, disk, NoFile, Place, Caller, FileCaller, InCall,
  Committing
<1>1. LookaheadInv'
  <2>1. Starts \subseteq Blocks
    BY AllocAssumption DEF Blocks
  <2> QED
    BY <1>0, <2>1 DEF LookaheadInv
<1>2. PlaceInv'
  BY <1>0 DEF PlaceInv
<1>3. FileInv'
  BY <1>0 DEF FileInv, PlaceInv
<1>4. CallInv'
  BY <1>0 DEF CallInv, PlaceInv
<1>5. TodoInv'
  <2>1. todo' = <<>> /\ ~Committing'
    OBVIOUS
  <2> QED
    BY <2>1 DEF TodoInv
<1>6. SessionInv'
  BY <1>0 DEF SessionInv, PlaceInv
<1> QED
  BY <1>1, <1>2, <1>3, <1>4, <1>5, <1>6 DEF ControlInv

-----------------------------------------------------------------------------
(* FilesInv and BlocksInv.  First the steps of the allocator and those that *)
(* only set a checkpoint.                                                  *)

(* Block numbers wrap.                                                     *)
LEMMA FullTurn ==
  ASSUME NEW x \in Int
  PROVE  (x + BlockCount) % BlockCount = x % BlockCount
<1> DEFINE q == x \div BlockCount
           r == x % BlockCount
<1>1. BlockCount \in Nat \ {0}
  BY SizesAreNumbers
<1>2. q \in Int /\ r \in 0..(BlockCount - 1) /\ x = BlockCount * q + r
  BY <1>1, Divided
<1> HIDE DEF q, r
<1>3. BlockCount * (q + 1) = BlockCount * q + BlockCount /\ BlockCount * q \in Int
  BY <1>1, <1>2
<1>4. x + BlockCount = BlockCount * (q + 1) + r /\ q + 1 \in Int /\ x + BlockCount \in Int
  BY <1>1, <1>2, <1>3
<1> DEFINE y == x + BlockCount
           k == q + 1
<1>5. y \in Int /\ k \in Int /\ y = BlockCount * k + r
  BY <1>4
<1> HIDE DEF y, k
<1>6. y % BlockCount = r
  BY <1>1, <1>2, <1>5, Quotient
<1> QED
  BY <1>6 DEF y, r

(* What the invariant says of a step after which no block is looked for.   *)
LEMMA NotLooking ==
  ASSUME at' # "write", at' \in {"alloc", "got"} => ~FileCaller',
         at' = "flush" => ~f'.writing
  PROVE  SeenInv'
BY DEF SeenInv, Looking

(* The allocator is not called.                                            *)
LEMMA SameWindows ==
  ASSUME LookaheadInv, HandedInv, AheadInv, la' = la, handed' = handed,
         Used' \subseteq Used \cup handed
  PROVE  HandedInv' /\ AheadInv'
<1>1. HandedInv'
  BY DEF HandedInv
<1>2. FreeAhead' \subseteq FreeAhead
  BY DEF FreeAhead, Ahead
<1> QED
  BY <1>1, <1>2, SameWindow

LEMMA SameSeen ==
  ASSUME LookaheadInv, SeenInv, la' = la, Looking' => Looking /\ Accounted \subseteq Accounted'
  PROVE  SeenInv'
BY DEF SeenInv, Ahead, At

(* lfs_alloc_ckpoint forgets what was handed out: none of it is lost.      *)
LEMMA CheckpointBlocks ==
  ASSUME LookaheadInv, HandedInv, AheadInv, Checkpoint, Used' \subseteq Used \cup handed,
         Looking' => InUse \subseteq InUse', held' = {}, at' # "got", FreshInv'
  PROVE  BlocksInv'
<1>1. /\ la' = [la EXCEPT !.ckpoint = BlockCount]
      /\ handed' = {}
      /\ missed' = {At(o) : o \in {p \in Ahead \cap la.used : At(p) \notin InUse}}
  BY DEF Checkpoint
<1>2. la'.start = la.start /\ la'.size = la.size /\ la'.next = la.next /\ la'.used = la.used
      /\ la'.ckpoint = BlockCount
  BY <1>1 DEF LookaheadInv
<1>3. HeldInv'
  BY DEF HeldInv
<1>4. HandedInv'
  BY <1>1 DEF HandedInv
<1>5. AheadInv'
  <2>1. FreeAhead' \subseteq FreeAhead
    BY <1>2 DEF FreeAhead, Ahead
  <2> QED
    BY <1>2, <2>1, SameWindow
<1>6. SeenInv'
  <2> SUFFICES ASSUME Looking'
               PROVE  /\ \A o \in Ahead' \cap la'.used : At(o)' \in Accounted'
                      /\ \A t \in la'.ckpoint..(BlockCount - 1) :
                           (la'.start + la'.next + t) % BlockCount \in Accounted'
    BY DEF SeenInv
  <2>1. ASSUME NEW o \in Ahead' \cap la'.used
        PROVE  At(o)' \in Accounted'
    <3>1. o \in Ahead \cap la.used /\ At(o)' = At(o)
      BY <1>2 DEF Ahead, At
    <3>2. CASE At(o) \in InUse
      BY <3>1, <3>2 DEF Accounted
    <3>3. CASE At(o) \notin InUse
      BY <1>1, <3>1, <3>3 DEF Accounted
    <3> QED
      BY <3>2, <3>3
  <2>2. la'.ckpoint..(BlockCount - 1) = {}
    BY <1>2, SizesAreNumbers
  <2> QED
    BY <2>1, <2>2
<1> QED
  BY <1>3, <1>4, <1>5, <1>6 DEF BlocksInv

(* The window is passed over up to n.                                      *)
LEMMA SeenMoves ==
  ASSUME LookaheadInv, SeenInv, Looking, NEW n \in la.next..la.size,
         NEW S, Accounted \subseteq S,
         \A p \in la.next..(n - 1) : At(p) \in S
  PROVE  \A t \in (la.ckpoint - (n - la.next))..(BlockCount - 1) :
           (la.start + n + t) % BlockCount \in S
<1> SUFFICES ASSUME NEW t \in (la.ckpoint - (n - la.next))..(BlockCount - 1)
             PROVE  (la.start + n + t) % BlockCount \in S
  OBVIOUS
<1>0. /\ BlockCount \in Nat \ {0} /\ la.start \in Nat /\ la.next \in Nat /\ la.size \in Nat
      /\ la.ckpoint \in 0..BlockCount /\ n \in Nat /\ n <= la.size /\ la.next <= n /\ t \in Int
      /\ la.size - la.next <= la.ckpoint
  BY SizesAreNumbers DEF LookaheadInv, Blocks
<1> DEFINE u == t + (n - la.next)
<1>1. u \in Int /\ la.start + la.next + u = la.start + n + t /\ la.ckpoint <= u
  BY <1>0
<1>2. CASE u <= BlockCount - 1
  <2>1. u \in la.ckpoint..(BlockCount - 1)
    BY <1>0, <1>1, <1>2
  <2>2. (la.start + la.next + u) % BlockCount \in Accounted
    BY <2>1 DEF SeenInv
  <2> QED
    BY <1>1, <2>2
<1>3. CASE u > BlockCount - 1
  <2> DEFINE p == la.next + (u - BlockCount)
  <2>1. p \in la.next..(n - 1)
    BY <1>0, <1>3
  <2>2. At(p) \in S
    BY <2>1
  <2>3. At(p) = (la.start + p) % BlockCount /\ la.start + p \in Int
    BY <1>0 DEF At
  <2>4. (la.start + p) + BlockCount = la.start + n + t
    BY <1>0
  <2>5. ((la.start + p) + BlockCount) % BlockCount = (la.start + p) % BlockCount
    BY <2>3, FullTurn
  <2> HIDE DEF p, u
  <2> QED
    BY <2>2, <2>3, <2>4, <2>5
<1> HIDE DEF u
<1> QED
  BY <1>0, <1>1, <1>2, <1>3

LEMMA AllocFoundBlocks ==
  ASSUME AllocInv, AllocFound
  PROVE  BlocksInv'
<1> DEFINE o == Least(FreeAhead)
           next == Least((FreeAhead \ {o}) \cup {la.size})
<1>0. LookaheadInv /\ HeldInv /\ HandedInv /\ AheadInv /\ SeenInv /\ FreshInv
  BY DEF AllocInv, ControlInv, BlocksInv
<1>1. /\ la' = [la EXCEPT !.next = next, !.ckpoint = @ - (next - la.next)]
      /\ got' = At(o) /\ handed' = handed \cup {At(o)}
      /\ at = "alloc" /\ FreeAhead # {} /\ at' = "got"
      /\ UNCHANGED <<disk, f, caller, held, missed>>
  BY DEF AllocFound
<1>2. /\ o \in FreeAhead /\ o \in la.next..(la.size - 1) /\ next \in (o + 1)..la.size
      /\ \A p \in la.next..(next - 1) : p = o \/ p \in la.used
  BY <1>0, <1>1, NextFree
<1> HIDE DEF o, next
<1>3. /\ InUse' = InUse /\ Used' = Used /\ (Fresh' <=> Fresh)
  BY <1>1, SameBlocks
<1>4. /\ la.start \in Nat /\ la.next \in Nat /\ la.size \in Nat /\ la.ckpoint \in 0..BlockCount
      /\ la.size - la.next <= la.ckpoint /\ BlockCount \in Nat \ {0}
      /\ o \in Nat /\ next \in Nat
  BY <1>0, <1>2, SizesAreNumbers DEF LookaheadInv, Blocks
<1>5. /\ la'.start = la.start /\ la'.size = la.size /\ la'.used = la.used /\ la'.next = next
      /\ la'.ckpoint = la.ckpoint - (next - la.next)
  BY <1>0, <1>1 DEF LookaheadInv
<1>6. At(o) \notin handed /\ At(o) \in Blocks /\ At(o) \notin Used
  BY <1>0, <1>2, AheadNotHanded DEF FreeAhead, AheadInv
<1>7. HeldInv'
  BY <1>0, <1>1, <1>3, <1>6 DEF HeldInv
<1>8. HandedInv'
  <2>1. ASSUME NEW t \in 0..(la'.ckpoint - 1)
        PROVE  (la'.start + la'.next + t) % BlockCount \notin handed'
    <3> DEFINE u == t + (next - la.next)
    <3>1. u \in 0..(la.ckpoint - 1) /\ la.start + la.next + u = la'.start + la'.next + t
      BY <1>2, <1>4, <1>5
    <3>2. (la.start + la.next + u) % BlockCount \notin handed
      BY <1>0, <3>1 DEF HandedInv
    <3>3. (la.start + next + t) % BlockCount # (la.start + o) % BlockCount
      <4>1. la.start + o < la.start + next + t
        BY <1>2, <1>4
      <4>2. (la.start + next + t) - (la.start + o) < BlockCount
        BY <1>2, <1>4, <1>5
      <4>3. la.start + next + t \in Int /\ la.start + o \in Int
        BY <1>4
      <4> QED
        BY <1>4, <4>1, <4>2, <4>3, NearbyDiffer
    <3> HIDE DEF u
    <3> QED
      BY <1>1, <1>5, <3>1, <3>2, <3>3 DEF At
  <2>2. handed' \subseteq Blocks
    BY <1>0, <1>1, <1>6 DEF HandedInv
  <2> QED
    BY <2>1, <2>2 DEF HandedInv
<1>9. AheadInv'
  <2>1. FreeAhead' \subseteq FreeAhead
    BY <1>2, <1>4, <1>5 DEF FreeAhead, Ahead
  <2> QED
    BY <1>0, <1>3, <1>5, <2>1, SameWindow
<1>10. SeenInv'
  <2> SUFFICES ASSUME Looking' PROVE SeenInv'
    BY DEF SeenInv
  <2>1. Looking
    BY <1>1, <1>3 DEF Looking, FileCaller
  <2>2. Accounted \subseteq Accounted' /\ At(o) \in Accounted'
    BY <1>1, <1>3 DEF Accounted
  <2>3. \A p \in Ahead \cap la.used : At(p) \in Accounted'
    BY <1>0, <2>1, <2>2 DEF SeenInv
  <2>4. \A p \in la.next..(next - 1) : At(p) \in Accounted'
    <3> SUFFICES ASSUME NEW p \in la.next..(next - 1) PROVE At(p) \in Accounted'
      OBVIOUS
    <3>1. p \in Ahead
      BY <1>2, <1>4 DEF Ahead
    <3> QED
      BY <1>2, <2>2, <2>3, <3>1
  <2>5. next \in la.next..la.size
    BY <1>2, <1>4
  <2>6. \A t \in (la.ckpoint - (next - la.next))..(BlockCount - 1) :
           (la.start + next + t) % BlockCount \in Accounted'
    BY <1>0, <2>1, <2>2, <2>4, <2>5, SeenMoves
  <2>7. \A p \in Ahead' \cap la'.used : p \in Ahead \cap la.used /\ At(p)' = At(p)
    BY <1>2, <1>4, <1>5 DEF Ahead, At
  <2> QED
    BY <1>5, <2>3, <2>6, <2>7 DEF SeenInv
<1>11. FreshInv'
  BY <1>0, <1>1, <1>3 DEF FreshInv
<1> QED
  BY <1>7, <1>8, <1>9, <1>10, <1>11 DEF BlocksInv

LEMMA AllocScanBlocks ==
  ASSUME AllocInv, AllocScan
  PROVE  BlocksInv'
<1> DEFINE size == WindowSize(Remaining)
<1>0. LookaheadInv /\ HeldInv /\ HandedInv /\ AheadInv /\ SeenInv /\ FreshInv /\ ControlInv
      /\ FilesInv
  BY DEF AllocInv, ControlInv, BlocksInv
<1>1. /\ at = "alloc" /\ FreeAhead = {} /\ Remaining > 0
      /\ la' = [start |-> NewStart, size |-> size, next |-> 0, ckpoint |-> Remaining,
               used |-> {o \in 0..(size - 1) : (NewStart + o) % BlockCount \in InUse}]
      /\ UNCHANGED <<disk, f, at, caller, got, held, handed, missed>>
  BY DEF AllocScan, Kept, place, seen
<1>2. /\ Remaining \in 1..BlockCount /\ size \in 1..Window /\ size <= Remaining
      /\ NewStart \in Blocks
  BY <1>0, <1>1, WindowFits
<1>3. /\ InUse' = InUse /\ Used' = Used /\ (Fresh' <=> Fresh)
  BY <1>1, SameBlocks
<1>4. /\ la.start \in Nat /\ la.next \in Nat /\ la.size \in Nat /\ la.ckpoint \in 0..BlockCount
      /\ la.next <= la.size /\ la.size - la.next <= la.ckpoint /\ BlockCount \in Nat \ {0}
      /\ NewStart \in Nat /\ size \in Nat /\ Remaining = la.ckpoint - (la.size - la.next)
      /\ NewStart = (la.start + la.size) % BlockCount
  BY <1>0, <1>2, SizesAreNumbers DEF LookaheadInv, Blocks, Remaining, NewStart, At
<1> HIDE DEF size
<1>5. /\ la'.start = NewStart /\ la'.size = size /\ la'.next = 0 /\ la'.ckpoint = Remaining
      /\ la'.used = {o \in 0..(size - 1) : (NewStart + o) % BlockCount \in InUse}
  BY <1>1
<1>6. \A t \in Int : (NewStart + 0 + t) % BlockCount = (la.start + la.size + t) % BlockCount
  <2> SUFFICES ASSUME NEW t \in Int
               PROVE  (NewStart + 0 + t) % BlockCount = (la.start + la.size + t) % BlockCount
    OBVIOUS
  <2> DEFINE x == la.start + la.size
  <2>0. x \in Int /\ t \in Int /\ BlockCount \in Nat \ {0}
    BY <1>4
  <2> HIDE DEF x
  <2>3. ((x % BlockCount) + t) % BlockCount = (x + t) % BlockCount
    BY <2>0, AddedLater
  <2>1. (((la.start + la.size) % BlockCount) + t) % BlockCount = ((la.start + la.size) + t) % BlockCount
    BY <2>3 DEF x
  <2>2. NewStart + 0 + t = NewStart + t
    BY <1>4
  <2> QED
    BY <1>4, <2>1, <2>2
<1>7. HeldInv'
  BY <1>0, <1>1, <1>3 DEF HeldInv
<1>8. HandedInv'
  <2>1. ASSUME NEW t \in 0..(Remaining - 1)
        PROVE  (NewStart + 0 + t) % BlockCount \notin handed
    <3> DEFINE u == t + (la.size - la.next)
    <3>1. u \in 0..(la.ckpoint - 1) /\ la.start + la.next + u = la.start + la.size + t /\ t \in Int
      BY <1>4
    <3>2. (la.start + la.next + u) % BlockCount \notin handed
      BY <1>0, <3>1 DEF HandedInv
    <3> QED
      BY <1>6, <3>1, <3>2
  <2> QED
    BY <1>0, <1>1, <1>5, <2>1 DEF HandedInv
<1>9. AheadInv'
  <2> SUFFICES ASSUME NEW o \in FreeAhead' PROVE At(o)' \notin Used'
    BY DEF AheadInv
  <2>1. o \in 0..(size - 1) /\ o \notin la'.used
    BY <1>5 DEF FreeAhead, Ahead
  <2>2. At(o)' = (NewStart + o) % BlockCount
    BY <1>5 DEF At
  <2>3. At(o)' \notin InUse
    BY <1>5, <2>1, <2>2
  <2>4. At(o)' \notin handed
    <3>1. o \in 0..(la'.ckpoint - 1) /\ la'.start + la'.next + o = NewStart + o
      BY <1>2, <1>4, <1>5, <2>1
    <3>2. (la'.start + la'.next + o) % BlockCount \notin handed'
      BY <1>8, <3>1 DEF HandedInv
    <3> QED
      BY <1>1, <2>2, <3>1, <3>2
  <2>5. ~Fresh
    BY <1>0, <1>1 DEF FreshInv
  <2>6. Used \subseteq InUse \cup handed
    BY <1>0, <2>5, WhatIsFound
  <2> QED
    BY <1>3, <2>3, <2>4, <2>6
<1>10. SeenInv'
  <2> SUFFICES ASSUME Looking' PROVE SeenInv'
    BY DEF SeenInv
  <2>1. Looking /\ Accounted' = Accounted
    BY <1>1, <1>3 DEF Looking, FileCaller, Accounted
  <2>2. \A p \in la.next..(la.size - 1) : At(p) \in Accounted
    BY <1>0, <1>1, <2>1 DEF SeenInv, FreeAhead, Ahead
  <2>3. la.size \in la.next..la.size
    BY <1>4
  <2>4. \A t \in (la.ckpoint - (la.size - la.next))..(BlockCount - 1) :
           (la.start + la.size + t) % BlockCount \in Accounted
    BY <1>0, <2>1, <2>2, <2>3, SeenMoves
  <2>5. ASSUME NEW t \in la'.ckpoint..(BlockCount - 1)
        PROVE  (la'.start + la'.next + t) % BlockCount \in Accounted'
    <3>1. t \in (la.ckpoint - (la.size - la.next))..(BlockCount - 1) /\ t \in Int
      BY <1>4, <1>5
    <3> QED
      BY <1>5, <1>6, <2>1, <2>4, <3>1
  <2>6. ASSUME NEW o \in Ahead' \cap la'.used
        PROVE  At(o)' \in Accounted'
    <3>1. (NewStart + o) % BlockCount \in InUse
      BY <1>5
    <3> QED
      BY <1>5, <2>1, <3>1 DEF At, Accounted
  <2> QED
    BY <2>5, <2>6 DEF SeenInv
<1>11. FreshInv'
  BY <1>0, <1>1, <1>3 DEF FreshInv
<1> QED
  BY <1>7, <1>8, <1>9, <1>10, <1>11 DEF BlocksInv

-----------------------------------------------------------------------------
(* Steps that write no block and commit nothing.                           *)

(* Steps that touch neither the disk nor the open file nor the window.     *)
LEMMA NothingMoves ==
  ASSUME AllocInv, UNCHANGED <<disk, f>>, la' = la, handed' = handed,
         held' \subseteq held, at' # "got",
         Fresh => at' = "write", Looking' => Looking /\ missed' = missed
  PROVE  FilesInv' /\ BlocksInv'
<1>0. LookaheadInv /\ HeldInv /\ HandedInv /\ AheadInv /\ SeenInv /\ FreshInv /\ FilesInv
  BY DEF AllocInv, ControlInv, BlocksInv
<1>1. InUse' = InUse /\ Used' = Used /\ (Fresh' <=> Fresh)
  BY SameBlocks
<1>2. FilesInv'
  BY <1>0, SameFiles
<1>3. HandedInv' /\ AheadInv'
  BY <1>0, <1>1, SameWindows
<1>4. HeldInv'
  BY <1>0, <1>1 DEF HeldInv
<1>5. SeenInv'
  <2>1. Looking' => Looking /\ Accounted \subseteq Accounted'
    BY <1>1 DEF Accounted
  <2> QED
    BY <1>0, <2>1, SameSeen
<1>6. FreshInv'
  BY <1>1 DEF FreshInv
<1> QED
  BY <1>2, <1>3, <1>4, <1>5, <1>6 DEF BlocksInv

LEMMA AllocFoundFiles ==
  ASSUME AllocInv, AllocFound
  PROVE  FilesInv'
<1>1. UNCHANGED <<disk, f>> /\ handed \subseteq handed' /\ FilesInv
  BY DEF AllocFound, AllocInv
<1> QED
  BY <1>1, SameFiles

LEMMA AllocScanFiles ==
  ASSUME AllocInv, AllocScan
  PROVE  FilesInv'
<1>1. UNCHANGED <<disk, f>> /\ handed \subseteq handed' /\ FilesInv
  BY DEF AllocScan, AllocInv, seen
<1> QED
  BY <1>1, SameFiles

LEMMA AllocFailsBlocks ==
  ASSUME AllocInv, AllocFails
  PROVE  FilesInv' /\ BlocksInv'
<1>0. LookaheadInv /\ HeldInv /\ HandedInv /\ AheadInv /\ SeenInv /\ FreshInv /\ FilesInv
  BY DEF AllocInv, ControlInv, BlocksInv
<1>1. /\ at = "alloc" /\ Remaining <= 0
      /\ la' = [la EXCEPT !.next = la.size, !.ckpoint = Remaining]
      /\ at' \in {"failed", "sync"} /\ held' \subseteq held
      /\ UNCHANGED <<disk, f, handed, missed>>
  BY DEF AllocFails, OutOfSpace, seen
<1>2. InUse' = InUse /\ Used' = Used /\ (Fresh' <=> Fresh)
  BY <1>1, SameBlocks
<1>3. FilesInv'
  BY <1>0, <1>1, SameFiles
<1>4. /\ la'.start = la.start /\ la'.size = la.size /\ la'.next = la.size /\ la'.ckpoint = Remaining
      /\ Remaining \in Int /\ la.size \in Nat /\ BlockCount \in Nat
  BY <1>0, <1>1, SizesAreNumbers DEF LookaheadInv, Remaining
<1>5. HandedInv'
  <2>1. 0..(la'.ckpoint - 1) = {}
    BY <1>1, <1>4
  <2> QED
    BY <1>0, <1>1, <2>1 DEF HandedInv
<1>6. AheadInv'
  <2>1. Ahead' = {}
    BY <1>4 DEF Ahead
  <2> QED
    BY <2>1 DEF AheadInv, FreeAhead
<1>7. HeldInv'
  BY <1>0, <1>1, <1>2 DEF HeldInv
<1>8. SeenInv'
  BY <1>1, NotLooking
<1>9. FreshInv'
  BY <1>0, <1>1, <1>2 DEF FreshInv
<1> QED
  BY <1>3, <1>5, <1>6, <1>7, <1>8, <1>9 DEF BlocksInv

LEMMA ProgramFailsBlocks ==
  ASSUME AllocInv, ~BadFirst, ProgramFails
  PROVE  FilesInv' /\ BlocksInv'
<1>1. /\ at = "write" /\ ~f.inline /\ ~NeedsBlock /\ (f.off > 0 \/ f.pos = 0)
      /\ at' = "alloc" /\ UNCHANGED <<disk, f, la, held, handed, missed>>
  BY DEF ProgramFails, Alloc, seen
<1>2. f.off \in Nat /\ f.pos \in Nat
  BY SizesAreNumbers DEF AllocInv, ControlInv, FileInv
<1>3. ~Fresh /\ Looking
  BY <1>1, <1>2 DEF Fresh, Looking, NeedsBlock
<1> QED
  BY <1>1, <1>3, NothingMoves

LEMMA WriteDoneBlocks ==
  ASSUME AllocInv, WriteDone
  PROVE  FilesInv' /\ BlocksInv'
<1>1. /\ at = "write" /\ f.left = 0
      /\ at' = "flush" /\ UNCHANGED <<disk, f, la, held, handed, missed>>
  BY DEF WriteDone, seen
<1>2. f.inline \/ f.off > 0
  BY <1>1 DEF AllocInv, ControlInv, CallInv
<1>3. f.off \in Nat
  BY SizesAreNumbers DEF AllocInv, ControlInv, FileInv
<1>4. ~Fresh /\ (Looking' => Looking)
  BY <1>1, <1>2, <1>3 DEF Fresh, Looking
<1> QED
  BY <1>1, <1>4, NothingMoves

LEMMA FlushFailsBlocks ==
  ASSUME AllocInv, FlushFails
  PROVE  FilesInv' /\ BlocksInv'
<1>1. /\ at = "flush" /\ f.writing
      /\ at' = "alloc" /\ UNCHANGED <<disk, f, la, held, handed, missed>>
  BY DEF FlushFails, Alloc, seen
<1>2. ~Fresh
  BY <1>1 DEF AllocInv, BlocksInv, FreshInv
<1>4. Looking' => Looking
  BY <1>1, <1>2 DEF Looking
<1> QED
  BY <1>1, <1>2, <1>4, NothingMoves

LEMMA TakeForDirectoryBlocks ==
  ASSUME AllocInv, TakeForDirectory
  PROVE  FilesInv' /\ BlocksInv'
<1>1. /\ at = "commit" /\ (at' = "sync" \/ (at' = "alloc" /\ caller' \in {"split", "move"}))
      /\ UNCHANGED <<disk, f, la, held, handed, missed>>
  BY DEF TakeForDirectory, Alloc, seen
<1>2. ~Fresh
  BY <1>1 DEF AllocInv, BlocksInv, FreshInv
<1>4. ~Looking'
  BY <1>1 DEF Looking, FileCaller
<1> QED
  BY <1>1, <1>2, <1>4, NothingMoves

LEMMA filesys_start_file_writeBlocks ==
  ASSUME AllocInv, filesys_start_file_write
  PROVE  FilesInv' /\ BlocksInv'
<1>1. /\ at = "idle" /\ at' \in {"halt", "commit"}
      /\ UNCHANGED <<disk, f, la, held, handed, missed>>
  BY DEF filesys_start_file_write, Begin, Walked, seen
<1>2. ~Fresh
  BY <1>1 DEF AllocInv, BlocksInv, FreshInv
<1>4. ~Looking'
  BY <1>1 DEF Looking
<1> QED
  BY <1>1, <1>2, <1>4, NothingMoves

LEMMA filesys_cancel_file_writeBlocks ==
  ASSUME AllocInv, filesys_cancel_file_write
  PROVE  FilesInv' /\ BlocksInv'
<1>1. /\ at = "idle" /\ at' \in {"halt", "commit"}
      /\ UNCHANGED <<disk, f, la, held, handed, missed>>
  BY DEF filesys_cancel_file_write, Begin, Walked, seen
<1>2. ~Fresh
  BY <1>1 DEF AllocInv, BlocksInv, FreshInv
<1>4. ~Looking'
  BY <1>1 DEF Looking
<1> QED
  BY <1>1, <1>2, <1>4, NothingMoves

LEMMA filesys_complete_file_writeBlocks ==
  ASSUME AllocInv, filesys_complete_file_write
  PROVE  FilesInv' /\ BlocksInv'
<1>1. /\ at = "idle" /\ at' = "idle"
      /\ UNCHANGED <<disk, f, la, held, handed, missed>>
  BY DEF filesys_complete_file_write, place, seen
<1>2. ~Fresh
  BY <1>1 DEF AllocInv, BlocksInv, FreshInv
<1>4. ~Looking'
  BY <1>1 DEF Looking
<1> QED
  BY <1>1, <1>2, <1>4, NothingMoves

LEMMA WriteFailedBlocks ==
  ASSUME AllocInv, WriteFailed
  PROVE  FilesInv' /\ BlocksInv'
<1>1. /\ at = "failed" /\ at' = "commit"
      /\ UNCHANGED <<disk, f, la, held, handed, missed>>
  BY DEF WriteFailed, seen
<1>2. ~Fresh
  BY <1>1 DEF AllocInv, BlocksInv, FreshInv
<1>4. ~Looking'
  BY <1>1 DEF Looking
<1> QED
  BY <1>1, <1>2, <1>4, NothingMoves

LEMMA HoldBlockBlocks ==
  ASSUME AllocInv, HoldBlock
  PROVE  FilesInv' /\ BlocksInv'
<1>0. LookaheadInv /\ PlaceInv /\ HeldInv /\ HandedInv /\ AheadInv /\ SeenInv /\ FreshInv
      /\ FilesInv
  BY DEF AllocInv, ControlInv, BlocksInv
<1>1. /\ at = "got" /\ ~FileCaller /\ held' = held \cup {got}
      /\ at' \in {"commit", "sync"} \/ (at' = "alloc" /\ caller' = "split2")
      /\ UNCHANGED <<disk, f, la, handed, missed>>
  BY DEF HoldBlock, Alloc, seen
<1>2. InUse' = InUse /\ Used' = Used /\ (Fresh' <=> Fresh)
  BY <1>1, SameBlocks
<1>3. FilesInv'
  BY <1>0, <1>1, SameFiles
<1>4. HandedInv' /\ AheadInv'
  BY <1>0, <1>1, <1>2, SameWindows
<1>5. HeldInv'
  BY <1>0, <1>1, <1>2 DEF HeldInv
<1>6. SeenInv'
  BY <1>1, NotLooking DEF FileCaller
<1>7. FreshInv'
  BY <1>0, <1>1, <1>2 DEF FreshInv
<1> QED
  BY <1>3, <1>4, <1>5, <1>6, <1>7 DEF BlocksInv

-----------------------------------------------------------------------------
(* Steps on a file within the directory, flushing, opening, and mounting.  *)

(* An open file that lies within the directory has no blocks.              *)
LEMMA InlineFile ==
  ASSUME FilesInv, UNCHANGED disk, f'.inline
  PROVE  /\ FilesInv' /\ FreshInv'
         /\ Used' = InDirectory /\ InUse' = InDirectory /\ InDirectory' = InDirectory
<1>1. entries' = entries /\ meta' = meta /\ data' = data
  BY DEF disk
<1>2. InDirectory' = InDirectory
  BY <1>1 DEF InDirectory
<1>3. StoreInv' /\ EntriesInv'
  BY <1>1 DEF FilesInv, StoreInv, EntriesInv
<1>4. WriteInv' /\ PendingInv' /\ OpenInv' /\ FreshInv'
  BY DEF WriteInv, PendingInv, OpenInv, FreshInv, Fresh
<1>5. Used' = InDirectory /\ InUse' = InDirectory
  BY <1>2 DEF Used, Written, Pending, InUse, InFile
<1> QED
  BY <1>2, <1>3, <1>4, <1>5 DEF FilesInv

LEMMA WriteInlineBlocks ==
  ASSUME AllocInv, WriteInline
  PROVE  FilesInv' /\ BlocksInv'
<1>0. LookaheadInv /\ HandedInv /\ AheadInv /\ FilesInv /\ FileInv /\ CallInv
  BY DEF AllocInv, ControlInv, BlocksInv
<1>1. /\ at = "write" /\ f.inline /\ UNCHANGED <<disk, at, held>> /\ Checkpoint
      /\ f' = [f EXCEPT !.pos = @ + f.left, !.left = 0, !.writing = TRUE]
  BY DEF WriteInline, place
<1>2. f'.inline /\ held = {}
  BY <1>0, <1>1 DEF FileInv, CallInv, Committing
<1>3. FilesInv' /\ FreshInv' /\ Used' = InDirectory /\ InUse' = InDirectory
  BY <1>0, <1>1, <1>2, InlineFile
<1>4. InUse = InDirectory /\ InDirectory \subseteq Used
  BY <1>1 DEF InUse, InFile, Used
<1> QED
  BY <1>0, <1>1, <1>2, <1>3, <1>4, CheckpointBlocks

LEMMA OutlineBlocks ==
  ASSUME AllocInv, Outline
  PROVE  FilesInv' /\ BlocksInv'
<1>0. LookaheadInv /\ HandedInv /\ AheadInv /\ FilesInv /\ FileInv /\ CallInv
  BY DEF AllocInv, ControlInv, BlocksInv
<1>1. /\ at = "write" /\ f.inline /\ UNCHANGED <<disk, held>> /\ Checkpoint /\ at' = "alloc"
      /\ f' = [f EXCEPT !.off = f.pos]
  BY DEF Outline, Alloc
<1>2. f'.inline /\ held = {}
  BY <1>0, <1>1 DEF FileInv, CallInv, Committing
<1>3. FilesInv' /\ FreshInv' /\ Used' = InDirectory /\ InUse' = InDirectory
  BY <1>0, <1>1, <1>2, InlineFile
<1>4. InUse = InDirectory /\ InDirectory \subseteq Used
  BY <1>1 DEF InUse, InFile, Used
<1> QED
  BY <1>0, <1>1, <1>2, <1>3, <1>4, CheckpointBlocks

LEMMA ExtendBlocks ==
  ASSUME AllocInv, Extend
  PROVE  FilesInv' /\ BlocksInv'
<1>0. LookaheadInv /\ HandedInv /\ AheadInv /\ FilesInv /\ FileInv /\ CallInv /\ FreshInv
  BY DEF AllocInv, ControlInv, BlocksInv
<1>1. /\ at = "write" /\ ~f.inline /\ NeedsBlock /\ UNCHANGED <<disk, held>>
      /\ Checkpoint /\ at' = "alloc"
  BY DEF Extend, Alloc
<1>2. held = {} /\ ~f.dirty
  BY <1>0, <1>1 DEF CallInv, Committing, InCall
<1>3. CASE f.writing
  <2>1. f' = f /\ f.off = PerBlock
    BY <1>0, <1>1, <1>3 DEF Extend, NeedsBlock, FileInv
  <2>2. ~Fresh
    BY <2>1, SizesAreNumbers DEF Fresh
  <2>3. InUse' = InUse /\ Used' = Used /\ (Fresh' <=> Fresh)
    BY <1>1, <2>1, SameBlocks
  <2>4. entries' = entries /\ meta' = meta /\ data' = data /\ InDirectory' = InDirectory
        /\ Index' = Index
    BY <1>1, <2>1, SameBlocks DEF disk
  <2>5. FilesInv'
    <3>1. StoreInv' /\ EntriesInv' /\ PendingInv' /\ OpenInv'
      BY <1>0, <2>1, <2>4 DEF FilesInv, StoreInv, EntriesInv, PendingInv, OpenInv
    <3>2. f.off # 0
      BY <2>1, SizesAreNumbers
    <3>3. WriteInv'
      BY <1>0, <2>1, <2>4, <3>2 DEF FilesInv, WriteInv
    <3> QED
      BY <3>1, <3>3 DEF FilesInv
  <2>6. FreshInv'
    BY <2>2, <2>3 DEF FreshInv
  <2> QED
    BY <1>0, <1>1, <1>2, <2>3, <2>5, <2>6, CheckpointBlocks
<1>4. CASE ~f.writing
  <2>1. f' = [f EXCEPT !.block = f'.block]
    BY <1>0, <1>4 DEF Extend, FileInv
  <2>2. /\ ~f'.writing /\ ~f'.inline /\ ~f'.dirty /\ f'.name = f.name /\ f'.head = f.head
        /\ f'.size = f.size /\ f'.pos = f.pos
    BY <1>0, <1>1, <1>2, <1>4, <2>1 DEF FileInv
  <2>3. entries' = entries /\ meta' = meta /\ data' = data
    BY <1>1 DEF disk
  <2>4. InDirectory' = InDirectory
    BY <2>3 DEF InDirectory
  <2>5. FilesInv'
    <3>1. StoreInv' /\ EntriesInv'
      BY <1>0, <2>3 DEF FilesInv, StoreInv, EntriesInv
    <3>2. WriteInv' /\ PendingInv'
      BY <2>2 DEF WriteInv, PendingInv
    <3>3. OpenInv'
      BY <1>0, <1>1, <1>2, <1>4, <2>2, <2>3 DEF FilesInv, OpenInv
    <3> QED
      BY <3>1, <3>2, <3>3 DEF FilesInv
  <2>6. FreshInv' /\ Used' = InDirectory /\ InUse' = InDirectory /\ InUse = InDirectory
        /\ InDirectory \subseteq Used
    BY <1>2, <1>4, <2>2, <2>4 DEF FreshInv, Fresh, Used, Written, Pending, InUse, InFile
  <2> QED
    BY <1>0, <1>1, <1>2, <2>5, <2>6, CheckpointBlocks
<1> QED
  BY <1>3, <1>4

LEMMA FlushBlocks ==
  ASSUME AllocInv, Flush
  PROVE  FilesInv' /\ BlocksInv'
<1>0. LookaheadInv /\ HeldInv /\ HandedInv /\ AheadInv /\ FilesInv /\ FileInv /\ CallInv /\ FreshInv
  BY DEF AllocInv, ControlInv, BlocksInv
<1>1. /\ at = "flush" /\ at' = "commit" /\ UNCHANGED <<disk, la, held, handed, missed>>
      /\ f' = [f EXCEPT !.head = f.block, !.size = f.pos, !.writing = FALSE, !.dirty = TRUE]
  BY DEF Flush, seen
<1>2. /\ f'.inline = f.inline /\ f'.name = f.name /\ f'.head = f.block /\ f'.size = f.pos
      /\ ~f'.writing /\ f'.dirty
  BY <1>0, <1>1 DEF FileInv
<1>3. InDirectory \subseteq Used
  BY DEF Used
<1>4. FilesInv' /\ FreshInv' /\ Used' \subseteq Used
  <2>1. CASE f.inline
    BY <1>0, <1>1, <1>2, <1>3, <2>1, InlineFile
  <2>2. CASE ~f.inline
    <3>1. f.writing /\ f.off \in 1..PerBlock /\ f.pos \in 0..MaxSize /\ MaxSize \in Nat
      <4>1. InCall /\ f.left = 0 /\ f.off > 0
        BY <1>0, <1>1, <2>2 DEF CallInv, InCall
      <4>2. f.writing
        BY <1>0, <4>1 DEF CallInv
      <4> QED
        BY <1>0, <4>1, <4>2, SizesAreNumbers DEF FileInv
    <3>2. /\ Index \in 0..MaxSize /\ f.pos = Index * PerBlock + f.off
          /\ Heads(data, f.name, f.block, Index, f.off)
      BY <1>0, <2>2, <3>1 DEF FilesInv, WriteInv
    <3>3. f.pos # 0 /\ LastIndex(f.pos) = Index /\ Position(f.pos) = f.off
      <4>1. Index \in Nat
        BY <3>1, <3>2
      <4> QED
        BY <3>1, <3>2, <4>1, PieceInBlock
    <3>4. FileAt(data, f.name, f.block, LastIndex(f.pos), Position(f.pos))
      BY <3>2, <3>3, HeadsIsFile
    <3>5. entries' = entries /\ meta' = meta /\ data' = data
      BY <1>1 DEF disk
    <3>6. InDirectory' = InDirectory
      BY <3>5 DEF InDirectory
    <3>7. StoreInv' /\ EntriesInv'
      BY <1>0, <3>5 DEF FilesInv, StoreInv, EntriesInv
    <3>8. WriteInv' /\ OpenInv' /\ FreshInv'
      BY <1>2 DEF WriteInv, OpenInv, FreshInv, Fresh
    <3>9. PendingInv'
      <4>1. f.pos \in 1..MaxSize
        BY <3>1, <3>3
      <4> QED
        BY <1>2, <3>4, <3>5, <4>1 DEF PendingInv, Sound
    <3>10. Pending' = Written
      BY <1>2, <2>2, <3>1, <3>3, <3>5 DEF Pending, Written, Traverse
    <3>11. Used' \subseteq Used
      BY <1>2, <3>6, <3>10 DEF Used, Written
    <3> QED
      BY <3>7, <3>8, <3>9, <3>11 DEF FilesInv
  <2> QED
    BY <2>1, <2>2
<1>5. HandedInv' /\ AheadInv'
  BY <1>0, <1>1, <1>4, SameWindows
<1>6. HeldInv'
  BY <1>0, <1>1, <1>4 DEF HeldInv
<1>7. SeenInv'
  BY <1>1, NotLooking
<1> QED
  BY <1>4, <1>5, <1>6, <1>7 DEF BlocksInv

(* A file is closed, or opened.                                            *)
LEMMA NewFile ==
  ASSUME AllocInv, UNCHANGED disk, la' = la, handed' = handed, held' = held, at' # "got",
         Used' \subseteq Used, FreshInv', ~Looking'
  PROVE  BlocksInv'
<1>0. LookaheadInv /\ HeldInv /\ HandedInv /\ AheadInv
  BY DEF AllocInv, ControlInv, BlocksInv
<1>1. HandedInv' /\ AheadInv'
  BY <1>0, SameWindows
<1>2. HeldInv'
  BY <1>0 DEF HeldInv
<1>3. SeenInv'
  BY DEF SeenInv
<1> QED
  BY <1>1, <1>2, <1>3 DEF BlocksInv

LEMMA filesys_write_buffer_to_mramBlocks ==
  ASSUME AllocInv, filesys_write_buffer_to_mram
  PROVE  FilesInv' /\ BlocksInv'
<1>0. LookaheadInv /\ FilesInv /\ FileInv /\ CallInv /\ SessionInv /\ EntriesInv
  BY DEF AllocInv, ControlInv, BlocksInv, FilesInv
<1> DEFINE e == entries[session]
<1>1. /\ at = "idle" /\ session # NoName /\ at' \in {"halt", "write"}
      /\ UNCHANGED <<disk, la, held, handed, missed>>
      /\ \E k \in 1..(MaxSize - e.size) :
           f' = [NoFile EXCEPT !.name = session, !.inline = e.inline, !.head = e.head,
                               !.size = e.size, !.pos = e.size, !.left = k]
  BY DEF filesys_write_buffer_to_mram, Begin, seen
<1> HIDE DEF e
<1>2. /\ f'.name = session /\ f'.inline = e.inline /\ f'.head = e.head /\ f'.size = e.size
      /\ f'.pos = e.size /\ ~f'.writing /\ ~f'.dirty
  BY <1>1 DEF NoFile
<1>3. InDirectory \subseteq Used
  BY DEF Used
<1>4. FilesInv' /\ FreshInv' /\ Used' \subseteq Used
  <2>1. CASE f'.inline
    BY <1>0, <1>1, <1>3, <2>1, InlineFile
  <2>2. CASE ~f'.inline
    <3>1. entries' = entries /\ meta' = meta /\ data' = data
      BY <1>1 DEF disk
    <3>2. InDirectory' = InDirectory
      BY <3>1 DEF InDirectory
    <3>3. StoreInv' /\ EntriesInv'
      BY <1>0, <3>1 DEF FilesInv, StoreInv, EntriesInv
    <3>4. WriteInv' /\ PendingInv' /\ FreshInv'
      BY <1>2 DEF WriteInv, PendingInv, FreshInv, Fresh
    <3>5. session \in Names
      BY <1>0, <1>1 DEF SessionInv
    <3>6. e = [inline |-> FALSE, head |-> e.head, size |-> e.size]
      <4>1. e \in Entry \cup {Gone}
        BY <1>0, <3>5 DEF EntriesInv, e
      <4>2. ~e.inline
        BY <1>2, <2>2
      <4>3. Gone.inline
        BY DEF Gone
      <4>4. e \in Entry
        BY <4>1, <4>2, <4>3, Zenon
      <4>5. e.inline = FALSE
        BY <4>2, <4>4 DEF Entry
      <4> QED
        BY <4>4, <4>5 DEF Entry
    <3>7. OpenInv'
      BY <1>2, <3>1, <3>5, <3>6 DEF OpenInv, e
    <3>8. Used' = InDirectory
      BY <1>2, <3>2 DEF Used, Written, Pending
    <3> QED
      BY <1>3, <3>3, <3>4, <3>7, <3>8 DEF FilesInv
  <2> QED
    BY <2>1, <2>2
<1>5. ~Looking'
  BY <1>1, <1>2 DEF Looking
<1> QED
  BY <1>1, <1>4, <1>5, NewFile

LEMMA CloseFailedBlocks ==
  ASSUME AllocInv, CloseFailed
  PROVE  FilesInv' /\ BlocksInv'
<1>1. at' = "idle" /\ f' = NoFile /\ UNCHANGED <<disk, la, held, handed, missed>> /\ f'.inline
  BY DEF CloseFailed, seen, NoFile
<1>2. FilesInv' /\ FreshInv' /\ Used' = InDirectory
  BY <1>1, InlineFile DEF AllocInv
<1>3. Used' \subseteq Used
  BY <1>2 DEF Used
<1>4. ~Looking'
  BY <1>1 DEF Looking
<1> QED
  BY <1>1, <1>2, <1>3, <1>4, NewFile

LEMMA MountedBlocks ==
  ASSUME AllocInv, NEW start, Mounted(start), UNCHANGED disk
  PROVE  FilesInv' /\ BlocksInv'
<1>1. /\ la' = [start |-> start, size |-> 0, next |-> 0, ckpoint |-> BlockCount, used |-> {}]
      /\ f' = NoFile /\ at' = "idle" /\ held' = {} /\ handed' = {} /\ f'.inline
  BY DEF Mounted, NoFile
<1>2. FilesInv' /\ FreshInv'
  BY <1>1, InlineFile DEF AllocInv
<1>3. HeldInv' /\ HandedInv' /\ SeenInv'
  BY <1>1 DEF HeldInv, HandedInv, SeenInv, Looking
<1>4. AheadInv'
  <2>1. Ahead' = {}
    BY <1>1 DEF Ahead
  <2> QED
    BY <2>1 DEF AheadInv, FreeAhead
<1> QED
  BY <1>2, <1>3, <1>4 DEF BlocksInv

LEMMA PowerLossBlocks ==
  ASSUME AllocInv, PowerLoss
  PROVE  FilesInv' /\ BlocksInv'
BY MountedBlocks DEF PowerLoss

LEMMA ResetBlocks ==
  ASSUME AllocInv, Reset
  PROVE  FilesInv' /\ BlocksInv'
<1>1. UNCHANGED disk /\ \E start : Mounted(start)
  BY DEF Reset
<1> QED
  BY <1>1, MountedBlocks

-----------------------------------------------------------------------------
(* Programming a block of the open file, or finding one that cannot be.    *)

(* One block of the disk is given a new content.                           *)
LEMMA StoreWith ==
  ASSUME NEW store, Stored(store), NEW b \in Blocks, NEW x, IsContent(x), NEW store2,
         store2 = [store EXCEPT ![b] = x]
  PROVE  /\ Stored(store2)
         /\ store2[b] = x
         /\ \A y \in Blocks : y # b => store2[y] = store[y]
<1>1. DOMAIN store = Blocks
  BY DEF Stored
<1>2. store2[b] = x /\ (\A y \in Blocks : y # b => store2[y] = store[y])
      /\ store2 = [y \in Blocks |-> store2[y]]
  BY <1>1
<1>3. \A y \in Blocks : IsContent(store2[y])
  BY <1>2 DEF Stored
<1> QED
  BY <1>2, <1>3 DEF Stored

LEMMA SamePointers ==
  ASSUME NEW store, NEW store2, NEW n \in 0..MaxSize, NEW name, NEW head, NEW off,
         Points(store), Points(store2), Heads(store, name, head, n, off),
         \A b \in Blocks : store2[b].ptrs = store[b].ptrs
  PROVE  Visit(store2, head, n) = Visit(store, head, n)
<1>1. PICK c : Chain(store, c, n) /\ c[n] = head
  BY DEF Heads
<1>2. \A i \in 0..n : c[i] \in Blocks
  BY <1>1 DEF Chain
<1>3. Chain(store2, c, n)
  BY <1>1, <1>2 DEF Chain
<1>4. Visit(store, c[n], n) = UpTo(c, n) /\ Visit(store2, c[n], n) = UpTo(c, n)
  BY <1>1, <1>3, FileVisited
<1> QED
  BY <1>1, <1>4

(* What is kept of a block.                                                *)
LEMMA KeptContent ==
  ASSUME IsContent(data[f.block]), NEW off \in Nat,
    \A o \in 1..off : o \in DOMAIN data[f.block].text
  PROVE  /\ IsContent(Copied(off)) /\ Copied(off).ptrs = data[f.block].ptrs
         /\ Copied(off).text = SubSeq(data[f.block].text, 1, off)
         /\ \A o \in 1..off : o \in DOMAIN Copied(off).text
                               /\ Copied(off).text[o] = data[f.block].text[o]
<1> DEFINE x == data[f.block]
           y == Copied(off)
<1>1. x = [ptrs |-> x.ptrs, text |-> x.text] /\ x.text \in Seq(Piece)
  BY DEF IsContent
<1>2. y = [ptrs |-> x.ptrs, text |-> SubSeq(x.text, 1, off)]
  <2>1. y = [x EXCEPT !.text = SubSeq(@, 1, off)]
    BY DEF Copied
  <2> HIDE DEF x, y
  <2>2. ASSUME NEW q, NEW t, x = [ptrs |-> q, text |-> t]
        PROVE  y = [ptrs |-> q, text |-> SubSeq(t, 1, off)]
    BY <2>1, <2>2
  <2> QED
    BY <1>1, <2>2
<1> HIDE DEF x, y
<1>3. off <= Len(x.text) /\ Len(x.text) \in Nat
  <2>1. Len(x.text) \in Nat /\ DOMAIN x.text = 1..Len(x.text)
    BY <1>1, LenProperties
  <2>2. CASE off = 0
    BY <2>1, <2>2
  <2>3. CASE off # 0
    <3>1. off \in 1..off
      BY <2>3
    <3> QED
      BY <2>1, <3>1 DEF x
  <2> QED
    BY <2>2, <2>3
<1>4. /\ SubSeq(x.text, 1, off) \in Seq(Piece) /\ DOMAIN SubSeq(x.text, 1, off) = 1..off
      /\ \A o \in 1..off : SubSeq(x.text, 1, off)[o] = x.text[o]
  BY <1>1, <1>3
<1>5. y.ptrs = x.ptrs /\ y.text = SubSeq(x.text, 1, off) /\ y = [ptrs |-> y.ptrs, text |-> y.text]
  BY <1>2
<1>6. \A d \in DOMAIN y.ptrs : y.ptrs[d] \in Blocks
  BY <1>5 DEF IsContent, x
<1>7. IsContent(y)
  BY <1>4, <1>5, <1>6 DEF IsContent
<1>8. \A o \in 1..off : o \in DOMAIN y.text /\ y.text[o] = x.text[o]
  BY <1>4, <1>5
<1> QED
  BY <1>5, <1>7, <1>8 DEF x, y

LEMMA AddedContent ==
  ASSUME NEW x, IsContent(x), NEW p \in Seq(Piece)
  PROVE  LET y == [x EXCEPT !.text = @ \o p]
         IN IsContent(y) /\ y.ptrs = x.ptrs /\ y.text = x.text \o p
<1> DEFINE y == [x EXCEPT !.text = @ \o p]
<1>1. x = [ptrs |-> x.ptrs, text |-> x.text] /\ x.text \in Seq(Piece)
  BY DEF IsContent
<1>2. y = [ptrs |-> x.ptrs, text |-> x.text \o p]
  <2>1. ASSUME NEW q, NEW t, x = [ptrs |-> q, text |-> t]
        PROVE  y = [ptrs |-> q, text |-> t \o p]
    <3>1. x.text = t
      BY <2>1
    <3> DEFINE z == x.text \o p
    <3> HIDE DEF z
    <3>2. [x EXCEPT !.text = z] = [ptrs |-> q, text |-> z]
      BY <2>1
    <3> QED
      BY <3>1, <3>2, Zenon DEF z
  <2> HIDE DEF y
  <2> QED
    BY <1>1, <2>1
<1>3. x.text \o p \in Seq(Piece)
  BY <1>1
<1> HIDE DEF y
<1>4. y.ptrs = x.ptrs /\ y.text = x.text \o p /\ y = [ptrs |-> y.ptrs, text |-> y.text]
  BY <1>2
<1>5. IsContent(y)
  BY <1>3, <1>4 DEF IsContent
<1> QED
  BY <1>4, <1>5 DEF y

LEMMA DirectoryBlocks ==
  ASSUME StoreInv, EntriesInv
  PROVE  InDirectory \subseteq Blocks
<1>1. ASSUME NEW n \in Names, ~entries[n].inline
      PROVE  Traverse(data, entries[n].head, entries[n].size) \subseteq Blocks
  <2>1. Sound(data, n, entries[n]) /\ Points(data)
    BY StoredPoints DEF StoreInv, EntriesInv
  <2>2. \A b \in Traverse(data, entries[n].head, entries[n].size) : data[b] = data[b]
    OBVIOUS
  <2> QED
    BY <1>1, <2>1, <2>2, SoundUnharmed
<1> QED
  BY <1>1 DEF InDirectory, StoreInv

(* The open file while it is being written.                                *)
LEMMA WrittenFile ==
  ASSUME AllocInv, ~f.inline, f.writing
  PROVE  /\ f.block \in Blocks /\ IsContent(data[f.block])
         /\ \A o \in 1..f.off : o \in DOMAIN data[f.block].text
         /\ Index \in 0..MaxSize /\ Index \in Nat /\ f.pos = Index * PerBlock + f.off
         /\ Heads(data, f.name, f.block, Index, f.off)
         /\ FileAt(data, f.name, f.block, Index, f.off)
         /\ f.block \notin InDirectory /\ f.off \in Nat /\ f.off \in 0..PerBlock /\ f.pos \in Nat
         /\ Written = Visit(data, f.block, Index) /\ f.block \in Written
         /\ Written \subseteq Blocks /\ Used = InDirectory \cup Written
<1>1. FileInv /\ WriteInv /\ Stored(data) /\ Points(data)
  BY StoredPoints DEF AllocInv, ControlInv, FilesInv, StoreInv
<1>2. /\ Index \in 0..MaxSize /\ f.pos = Index * PerBlock + f.off
      /\ Heads(data, f.name, f.block, Index, f.off) /\ f.block \notin InDirectory
  BY <1>1 DEF WriteInv
<1>3. /\ f.off \in Nat /\ f.off \in 0..PerBlock /\ f.pos \in Nat /\ Index \in Nat /\ ~f.dirty
  BY <1>1, <1>2, SizesAreNumbers DEF FileInv
<1>4. FileAt(data, f.name, f.block, Index, f.off)
  BY <1>2, HeadsIsFile
<1>5. f.block \in Visit(data, f.block, Index) /\ Visit(data, f.block, Index) \subseteq Blocks
  <2>1. \A b \in Visit(data, f.block, Index) : data[b] = data[b]
    OBVIOUS
  <2> QED
    BY <1>1, <1>2, <1>4, <2>1, FileUnharmed
<1>6. Written = Visit(data, f.block, Index) /\ Pending = {}
  BY <1>3 DEF Written, Pending
<1>7. \A o \in 1..f.off : o \in DOMAIN data[f.block].text
  <2>1. PICK c : Filled(data, c, f.name, Index, f.off) /\ c[Index] = f.block
    BY <1>2 DEF Heads
  <2>2. Index \in 0..Index
    BY <1>3
  <2> QED
    BY <2>1, <2>2 DEF Filled
<1>8. IsContent(data[f.block])
  BY <1>1, <1>5 DEF Stored
<1> QED
  BY <1>2, <1>3, <1>4, <1>5, <1>6, <1>7, <1>8 DEF Used

LEMMA UsedBlocks ==
  ASSUME AllocInv
  PROVE  Used \subseteq Blocks
<1>0. StoreInv /\ EntriesInv /\ PendingInv /\ Points(data)
  BY StoredPoints DEF AllocInv, FilesInv, StoreInv
<1>1. InDirectory \subseteq Blocks
  BY <1>0, DirectoryBlocks
<1>2. Written \subseteq Blocks
  <2>1. CASE f.inline \/ ~f.writing
    BY <2>1 DEF Written
  <2>2. CASE ~f.inline /\ f.writing
    BY <2>2, WrittenFile
  <2> QED
    BY <2>1, <2>2
<1>3. Pending \subseteq Blocks
  <2>1. CASE f.inline \/ ~f.dirty
    BY <2>1 DEF Pending
  <2>2. CASE ~f.inline /\ f.dirty
    <3> DEFINE e == [inline |-> FALSE, head |-> f.head, size |-> f.size]
    <3>1. Sound(data, f.name, e) /\ ~e.inline /\ e.head = f.head /\ e.size = f.size
      BY <1>0, <2>2 DEF PendingInv
    <3>2. \A b \in Traverse(data, e.head, e.size) : data[b] = data[b]
      OBVIOUS
    <3> HIDE DEF e
    <3>3. Traverse(data, e.head, e.size) \subseteq Blocks
      BY <1>0, <3>1, <3>2, SoundUnharmed
    <3> QED
      BY <2>2, <3>1, <3>3 DEF Pending
  <2> QED
    BY <2>1, <2>2
<1> QED
  BY <1>1, <1>2, <1>3 DEF Used

LEMMA ProgramBlocks ==
  ASSUME AllocInv, Program
  PROVE  FilesInv' /\ BlocksInv'
<1>0. LookaheadInv /\ HandedInv /\ AheadInv /\ FilesInv /\ FileInv /\ CallInv /\ SessionInv
      /\ StoreInv
      /\ EntriesInv /\ Stored(data) /\ ControlInv
  BY DEF AllocInv, ControlInv, BlocksInv, FilesInv, StoreInv
<1>1. /\ at = "write" /\ ~f.inline /\ f.left > 0 /\ f.writing /\ f.off # PerBlock
      /\ data' = [data EXCEPT ![f.block] = [Copied(f.off) EXCEPT !.text = @ \o Pieces(Chunk)]]
      /\ f' = [f EXCEPT !.pos = @ + Chunk, !.off = @ + Chunk, !.left = @ - Chunk]
      /\ Checkpoint /\ UNCHANGED <<entries, meta, held, at>>
  BY DEF Program, NeedsBlock, place
<1>2. held = {} /\ ~f.dirty /\ f.name \in Names
  <2>1. InCall /\ ~Committing
    BY <1>1 DEF InCall, Committing
  <2> QED
    BY <1>0, <2>1 DEF CallInv, SessionInv
<1>3. Chunk \in 1..f.left /\ f.off + Chunk \in 1..PerBlock
  BY <1>0, <1>1, ChunkFits
<1>4. /\ f.block \in Blocks /\ IsContent(data[f.block])
      /\ \A o \in 1..f.off : o \in DOMAIN data[f.block].text
      /\ Index \in 0..MaxSize /\ Index \in Nat /\ f.pos = Index * PerBlock + f.off
      /\ Heads(data, f.name, f.block, Index, f.off)
      /\ f.block \notin InDirectory /\ f.off \in Nat /\ f.off \in 0..PerBlock /\ f.pos \in Nat
      /\ Written = Visit(data, f.block, Index) /\ Used = InDirectory \cup Written
      /\ Written \subseteq Blocks
  BY <1>1, WrittenFile
<1> DEFINE k == Chunk
           pieces == Pieces(k)
           x == Copied(f.off)
           y == [x EXCEPT !.text = @ \o pieces]
<1>5. k \in Nat \ {0} /\ f.off + k \in 1..PerBlock /\ k \in 0..(PerBlock - f.off)
      /\ PerBlock \in Nat \ {0}
  BY <1>0, <1>3, <1>4, SizesAreNumbers DEF FileInv
<1>6. f' = [f EXCEPT !.pos = f.pos + k, !.off = f.off + k, !.left = f.left - k]
  BY <1>1
<1>7. data' = [data EXCEPT ![f.block] = y]
  BY <1>1
<1> HIDE DEF k, y
<1>8. IsContent(x) /\ x.ptrs = data[f.block].ptrs /\ x.text = SubSeq(data[f.block].text, 1, f.off)
  BY <1>4, KeptContent
<1>9. /\ pieces \in Seq(Piece) /\ Len(pieces) = k
      /\ \A i \in 1..k : pieces[i] = <<f.name, Index * PerBlock + f.off + i>>
  <2>1. pieces = [i \in 1..k |-> <<f.name, f.pos + i>>]
    BY DEF Pieces
  <2>2. \A i \in 1..k : <<f.name, f.pos + i>> \in Piece
    BY <1>2, <1>4, <1>5 DEF Piece
  <2>3. pieces \in [1..k -> Piece]
    BY <2>1, <2>2
  <2>4. pieces \in Seq(Piece) /\ Len(pieces) = k
    BY <1>5, <2>3
  <2> QED
    BY <1>4, <2>1, <2>4
<1> HIDE DEF x, pieces
<1>10. IsContent(y) /\ y.ptrs = data[f.block].ptrs
       /\ y.text = SubSeq(data[f.block].text, 1, f.off) \o pieces
  <2>1. IsContent(x) /\ pieces \in Seq(Piece)
    BY <1>8, <1>9
  <2>2. LET z == [x EXCEPT !.text = @ \o pieces]
        IN IsContent(z) /\ z.ptrs = x.ptrs /\ z.text = x.text \o pieces
    BY <2>1, AddedContent, Zenon
  <2>3. IsContent(y) /\ y.ptrs = x.ptrs /\ y.text = x.text \o pieces
    BY <2>2 DEF y
  <2> QED
    BY <1>8, <2>3
<1>11. Stored(data') /\ data'[f.block] = y /\ \A b \in Blocks : b # f.block => data'[b] = data[b]
  <2>1. Stored(data) /\ f.block \in Blocks /\ IsContent(y)
    BY <1>0, <1>4, <1>10
  <2>2. Stored(data')
    BY <1>7, <2>1, StoreWith
  <2>4. data'[f.block] = y
    BY <1>7, <2>1 DEF Stored
  <2>3. \A b \in Blocks : b # f.block => data'[b] = data[b]
    BY <1>7, <2>1, StoreWith
  <2> QED
    BY <2>2, <2>3, <2>4
<1>12. Heads(data', f.name, f.block, Index, f.off + k) /\ Visit(data', f.block, Index) = Written
  <2>1. data'[f.block].ptrs = data[f.block].ptrs
        /\ data'[f.block].text = SubSeq(data[f.block].text, 1, f.off) \o pieces
    BY <1>10, <1>11
  <2>2. Heads(data', f.name, f.block, Index, f.off + k)
        /\ Visit(data', f.block, Index) = Visit(data, f.block, Index)
    <3>1. /\ Stored(data) /\ Stored(data') /\ Heads(data, f.name, f.block, Index, f.off)
          /\ Index \in 0..MaxSize /\ f.off \in 0..PerBlock /\ k \in 0..(PerBlock - f.off)
          /\ \A b \in Blocks : b # f.block => data'[b] = data[b]
      BY <1>0, <1>4, <1>5, <1>11
    <3>2. Heads(data', f.name, f.block, Index, f.off + k)
      BY <1>9, <2>1, <3>1, FileProgrammed
    <3>3. Visit(data', f.block, Index) = Visit(data, f.block, Index)
      <4>1. \A b \in Blocks : data'[b].ptrs = data[b].ptrs
        BY <2>1, <3>1
      <4>2. Points(data) /\ Points(data')
        BY <3>1, StoredPoints
      <4> QED
        BY <3>1, <4>1, <4>2, SamePointers
    <3> QED
      BY <3>2, <3>3
  <2> QED
    BY <1>4, <2>2
<1>13. StoreInv' /\ EntriesInv' /\ InDirectory' = InDirectory
  <2>1. \A b \in InDirectory : data'[b] = data[b]
    <3>1. \A b \in InDirectory : b # f.block
      BY <1>4
    <3> QED
      BY <1>0, <1>11, <3>1, DirectoryBlocks
  <2> QED
    BY <1>0, <1>1, <1>11, <2>1, DirectoryUnharmed
<1>14. /\ f'.pos = f.pos + k /\ f'.off = f.off + k /\ f'.block = f.block /\ f'.name = f.name
       /\ f'.writing /\ ~f'.inline /\ ~f'.dirty
  BY <1>0, <1>1, <1>2, <1>6 DEF FileInv
<1>15. Index' = Index
  <2>1. f'.pos - f'.off = f.pos - f.off
    BY <1>4, <1>5, <1>14
  <2> QED
    BY <2>1 DEF Index
<1>16. f'.pos = Index' * PerBlock + f'.off /\ f'.off # 0
  BY <1>4, <1>5, <1>14, <1>15
<1>17. WriteInv'
  BY <1>4, <1>12, <1>13, <1>14, <1>15, <1>16 DEF WriteInv
<1>18. FilesInv' /\ FreshInv'
  BY <1>13, <1>14, <1>16, <1>17 DEF FilesInv, PendingInv, OpenInv, FreshInv, Fresh
<1>19. Used' = Used
  <2>1. Written' = Written /\ Pending' = {}
    BY <1>12, <1>14, <1>15 DEF Written, Pending
  <2> QED
    BY <1>4, <1>13, <2>1 DEF Used
<1>20. InUse \subseteq InUse'
  <2>1. InUse \subseteq Used
    BY <1>0, WhatIsFound
  <2>2. LastIndex(f'.pos) = Index /\ f'.pos # 0
    <3>1. f'.pos = Index * PerBlock + (f.off + k)
      BY <1>14, <1>15, <1>16
    <3> QED
      BY <1>4, <1>5, <3>1, PieceInBlock
  <2>3. Traverse(data', f'.block, f'.pos) = Written
    BY <1>12, <1>14, <2>2 DEF Traverse
  <2> QED
    BY <1>4, <1>13, <1>14, <2>1, <2>3 DEF InUse, InFile
<1> QED
  BY <1>0, <1>1, <1>2, <1>18, <1>19, <1>20, CheckpointBlocks

LEMMA BlockIsBadBlocks ==
  ASSUME AllocInv, BlockIsBad
  PROVE  FilesInv' /\ BlocksInv'
<1>0. LookaheadInv /\ PlaceInv /\ HandedInv /\ HeldInv /\ AheadInv /\ FilesInv /\ SeenInv
      /\ FreshInv
      /\ Stored(data) /\ ControlInv
  BY DEF AllocInv, ControlInv, BlocksInv, FilesInv, StoreInv
<1>1. /\ at = "got" /\ at' = "alloc" /\ caller' = caller
      /\ data' = [data EXCEPT ![got] = Garbage]
      /\ UNCHANGED <<entries, meta, la, f, held, handed, missed>>
  BY DEF BlockIsBad, Alloc, seen
<1>2. got \notin Used /\ got \in Blocks
  BY <1>0, <1>1 DEF HeldInv, HandedInv
<1>3. Stored(data') /\ \A b \in Used : data'[b] = data[b]
  <2>1. IsContent(Garbage)
    BY DEF IsContent, Garbage, Piece
  <2>2. Stored(data') /\ \A b \in Blocks : b # got => data'[b] = data[b]
    <3>1. Stored(data) /\ data' = [data EXCEPT ![got] = Garbage] /\ got \in Blocks
      BY <1>0, <1>1, <1>2
    <3>2. Stored(data')
      BY <2>1, <3>1, StoreWith
    <3>3. \A b \in Blocks : b # got => data'[b] = data[b]
      BY <2>1, <3>1, StoreWith
    <3> QED
      BY <3>2, <3>3
  <2>3. Used \subseteq Blocks
    BY <1>0, UsedBlocks DEF AllocInv
  <2> QED
    BY <1>2, <2>2, <2>3
<1>4. FilesInv' /\ Used' = Used /\ (~Fresh => InUse' = InUse)
  BY <1>0, <1>1, <1>3, FilesUnharmed
<1>5. ~Fresh
  BY <1>0, <1>1 DEF FreshInv
<1>6. FreshInv'
  BY <1>1, <1>5 DEF FreshInv, Fresh
<1>7. HandedInv' /\ AheadInv'
  BY <1>0, <1>1, <1>4, SameWindows
<1>8. HeldInv'
  BY <1>0, <1>1, <1>4 DEF HeldInv
<1>9. SeenInv'
  <2>1. Looking' => Looking
    BY <1>1, <1>5 DEF Looking, FileCaller
  <2>2. Accounted' = Accounted
    BY <1>1, <1>4, <1>5 DEF Accounted
  <2> QED
    BY <1>0, <1>1, <2>1, <2>2, SameSeen
<1> QED
  BY <1>4, <1>6, <1>7, <1>8, <1>9 DEF BlocksInv

-----------------------------------------------------------------------------
(* A new block for the open file.                                          *)

(* The block that a relocation leaves behind.                              *)
Spared == IF caller \in {"relocate", "reflush"} THEN {f.block} ELSE {}

(* With its new block, the open file is in its place again.                *)
Placed(store2) ==
  /\ IsContent(NewBlock.content) /\ NewBlock.off \in 0..PerBlock
  /\ \E j \in 0..MaxSize :
       /\ f.pos = j * PerBlock + NewBlock.off
       /\ Heads(store2, f.name, got, j, NewBlock.off)
       /\ Visit(store2, got, j) \subseteq Used \cup {got}
       /\ InUse \subseteq InDirectory \cup Spared \cup (IF f.pos = 0 THEN {} ELSE Visit(store2, got, j))

(* The file that is about to be extended.                                  *)
LEMMA FileToExtend ==
  ASSUME AllocInv, caller = "extend"
  PROVE  LET n == LastIndex(f.pos)
             p == Position(f.pos)
         IN /\ f.pos \in 1..(MaxSize - 1) /\ n \in 0..MaxSize /\ n + 1 \in 0..MaxSize
            /\ p \in 1..PerBlock /\ f.pos = n * PerBlock + p
            /\ FileAt(data, f.name, f.block, n, p)
            /\ Visit(data, f.block, n) \subseteq Used
            /\ InUse \subseteq InDirectory \cup Visit(data, f.block, n)
            /\ p # PerBlock => InUse = InDirectory
<1>0. ControlInv /\ FilesInv /\ FileInv /\ CallInv /\ MaxSize \in Nat /\ PerBlock \in Nat \ {0}
  BY SizesAreNumbers DEF AllocInv, ControlInv
<1>1. /\ ~f.inline /\ f.left > 0 /\ (f.writing => f.off = PerBlock)
      /\ (~f.writing => f.block = f.head)
      /\ f.pos \in Nat /\ f.pos <= MaxSize - 1
  BY <1>0 DEF CallInv, FileInv
<1>2. CASE f.writing
  <2>1. /\ Index \in 0..MaxSize /\ Index \in Nat /\ f.pos = Index * PerBlock + PerBlock
        /\ FileAt(data, f.name, f.block, Index, PerBlock) /\ Written = Visit(data, f.block, Index)
        /\ Used = InDirectory \cup Written
    BY <1>1, <1>2, WrittenFile
  <2>2. /\ LastIndex(f.pos) = Index /\ Position(f.pos) = PerBlock /\ f.pos \in Nat \ {0}
    BY <1>0, <2>1, PieceInBlock
  <2>3. Index \in 0..(f.pos - 1)
    BY <2>2, BlockOfPiece
  <2>4. InUse \subseteq Used
    BY <1>0, WhatIsFound
  <2>5. f.pos \in 1..(MaxSize - 1) /\ Index + 1 \in 0..MaxSize /\ PerBlock \in 1..PerBlock
    BY <1>0, <1>1, <2>2, <2>3
  <2> QED
    BY <2>1, <2>2, <2>4, <2>5
<1>3. CASE ~f.writing
  <2>1. ~f.dirty
    <3>1. InCall
      BY <1>0 DEF PlaceInv, ControlInv, InCall, FileCaller
    <3> QED
      BY <1>0, <3>1 DEF CallInv
  <2>2. /\ f.pos \in 1..MaxSize /\ FileAt(data, f.name, f.head, LastIndex(f.pos), Position(f.pos))
        /\ Visit(data, f.head, LastIndex(f.pos)) \subseteq InDirectory
        /\ LastIndex(f.pos) \in 0..(f.pos - 1) /\ LastIndex(f.pos) \in 0..MaxSize
        /\ Position(f.pos) \in 1..PerBlock
        /\ f.pos = LastIndex(f.pos) * PerBlock + Position(f.pos)
    BY <1>0, <1>1, <1>3, <2>1, OpenedAtHead
  <2>3. f.pos \in 1..(MaxSize - 1) /\ LastIndex(f.pos) + 1 \in 0..MaxSize
    BY <1>0, <1>1, <2>2
  <2>4. InUse = InDirectory /\ InDirectory \subseteq Used
    BY <1>3, <2>1 DEF InUse, InFile, Used
  <2> QED
    BY <1>1, <1>3, <2>2, <2>3, <2>4
<1> QED
  BY <1>2, <1>3

LEMMA BlockOfExtend ==
  ASSUME AllocInv, at = "got", caller = "extend", NEW store2,
         store2 = [data EXCEPT ![got] = NewBlock.content]
  PROVE  Placed(store2)
<1> DEFINE n == LastIndex(f.pos)
           p == Position(f.pos)
<1>1. /\ f.pos \in 1..(MaxSize - 1) /\ n \in 0..MaxSize /\ n + 1 \in 0..MaxSize
      /\ p \in 1..PerBlock /\ f.pos = n * PerBlock + p
      /\ FileAt(data, f.name, f.block, n, p)
      /\ Visit(data, f.block, n) \subseteq Used
      /\ InUse \subseteq InDirectory \cup Visit(data, f.block, n)
      /\ p # PerBlock => InUse = InDirectory
  BY FileToExtend
<1>2. Extension.off \in 0..PerBlock
      /\ (p < PerBlock => Extension = [off |-> p, content |-> Copied(p)])
      /\ (p = PerBlock => Extension = [off |-> 0, content |-> [ptrs |-> Skips(data, f.block, n + 1), text |-> <<>>]])
  <2>1. FileInv /\ f.pos > 0
    BY <1>1, SizesAreNumbers DEF AllocInv, ControlInv
  <2> QED
    BY <2>1, ExtensionFits
<1>3. NewBlock = Extension
  BY DEF NewBlock
<1> HIDE DEF n, p
<1>4. Stored(data) /\ Points(data) /\ got \in Blocks /\ got \notin Used /\ PerBlock \in Nat \ {0}
      /\ MaxSize \in Nat /\ n \in Nat
  BY <1>1, StoredPoints, SizesAreNumbers DEF AllocInv, FilesInv, StoreInv, BlocksInv, HeldInv,
    HandedInv
<1>5. got \notin Visit(data, f.block, n)
  BY <1>1, <1>4
<1>6. f.block \in Visit(data, f.block, n) /\ Visit(data, f.block, n) \subseteq Blocks
  <2>1. \A b \in Visit(data, f.block, n) : data[b] = data[b]
    OBVIOUS
  <2> QED
    BY <1>1, <1>4, <2>1, FileUnharmed
<1>7. ASSUME IsContent(NewBlock.content)
      PROVE  /\ Stored(store2) /\ store2[got] = NewBlock.content
             /\ \A b \in Visit(data, f.block, n) : store2[b] = data[b]
  <2>1. Stored(store2)
    BY <1>4, <1>7, StoreWith
  <2>2. DOMAIN data = Blocks
    BY <1>4 DEF Stored
  <2> QED
    BY <1>4, <1>5, <1>6, <2>1, <2>2
<1>8. CASE p # PerBlock
  <2>1. NewBlock.off = p /\ NewBlock.content = Copied(p)
    BY <1>1, <1>2, <1>3, <1>4, <1>8
  <2>2. IsContent(data[f.block]) /\ \A o \in 1..p : o \in DOMAIN data[f.block].text
    <3>1. PICK c : Filled(data, c, f.name, n, p) /\ c[n] = f.block
      BY <1>1 DEF FileAt
    <3>2. n \in 0..n
      BY <1>4
    <3> QED
      BY <1>4, <1>6, <3>1, <3>2 DEF Filled, Stored
  <2>4. p \in Nat /\ p \in 0..PerBlock
    BY <1>1, <1>4
  <2>5. IsContent(NewBlock.content)
    BY <2>1, <2>2, <2>4, KeptContent
  <2>6. Moved(data, store2, f.name, f.block, got, n, p)
    <3>1. Stored(store2) /\ store2[got] = Copied(p)
          /\ \A b \in Visit(data, f.block, n) : store2[b] = data[b]
      BY <1>7, <2>1, <2>5
    <3>2. store2[got].ptrs = data[f.block].ptrs
      BY <2>2, <2>4, <3>1, KeptContent
    <3>3. \A o \in 1..p : o \in DOMAIN store2[got].text
          /\ store2[got].text[o] = data[f.block].text[o]
      BY <2>2, <2>4, <3>1, KeptContent
    <3> QED
      BY <1>1, <1>4, <1>5, <2>4, <3>1, <3>2, <3>3, FileMoved
  <2>7. Heads(store2, f.name, got, n, p)
        /\ Visit(store2, got, n) \subseteq Visit(data, f.block, n) \cup {got}
    BY <2>6 DEF Moved
  <2> QED
    BY <1>1, <1>8, <2>1, <2>4, <2>5, <2>7 DEF Placed
<1>9. CASE p = PerBlock
  <2>1. /\ NewBlock.off = 0 /\ NewBlock.content.ptrs = Skips(data, f.block, n + 1)
        /\ NewBlock.content = [ptrs |-> Skips(data, f.block, n + 1), text |-> <<>>]
    BY <1>2, <1>3, <1>9
  <2>2. IsContent(NewBlock.content)
    <3>1. PICK c : Chain(data, c, n) /\ c[n] = f.block
      BY <1>1 DEF FileAt
    <3>2. n + 1 <= MaxSize
      BY <1>1, <1>4
    <3>3. /\ DOMAIN Skips(data, c[n], n + 1) = Distances[n + 1]
          /\ \A d \in Distances[n + 1] :
              Skips(data, c[n], n + 1)[d] = c[(n + 1) - d] /\ c[(n + 1) - d] \in Blocks
      BY <1>1, <1>4, <3>1, <3>2, SkipsAre
    <3>4. \A d \in DOMAIN Skips(data, f.block, n + 1) : Skips(data, f.block, n + 1)[d] \in Blocks
      BY <3>1, <3>3
    <3>5. <<>> \in Seq(Piece)
      OBVIOUS
    <3> QED
      BY <2>1, <3>4, <3>5 DEF IsContent
  <2>3. Stored(store2) /\ store2[got].ptrs = Skips(data, f.block, n + 1)
        /\ \A b \in Visit(data, f.block, n) : store2[b] = data[b]
    BY <1>7, <2>1, <2>2
  <2>4. n + 1 <= MaxSize /\ FileAt(data, f.name, f.block, n, PerBlock)
    BY <1>1, <1>4, <1>9
  <2>5. Extended(data, store2, f.name, f.block, got, n)
    BY <1>1, <1>4, <1>5, <2>3, <2>4, FileExtended
  <2>6. /\ Heads(store2, f.name, got, n + 1, 0)
        /\ Visit(store2, got, n + 1) \subseteq Visit(data, f.block, n) \cup {got}
        /\ Visit(data, f.block, n) \subseteq Visit(store2, got, n + 1)
    BY <2>5 DEF Extended
  <2>7. f.pos = (n + 1) * PerBlock + 0 /\ f.pos # 0 /\ 0 \in 0..PerBlock
    <3>1. (n + 1) * PerBlock = n * PerBlock + PerBlock /\ n * PerBlock \in Nat
      BY <1>4
    <3> QED
      BY <1>1, <1>4, <1>9, <3>1
  <2> DEFINE j == n + 1
  <2>8. /\ j \in 0..MaxSize /\ f.pos = j * PerBlock + NewBlock.off
        /\ Heads(store2, f.name, got, j, NewBlock.off)
        /\ Visit(store2, got, j) \subseteq Used \cup {got}
        /\ InUse \subseteq InDirectory \cup Spared \cup (IF f.pos = 0 THEN {} ELSE Visit(store2, got, j))
    BY <1>1, <2>1, <2>6, <2>7
  <2> HIDE DEF j
  <2> QED
    BY <2>1, <2>2, <2>7, <2>8 DEF Placed
<1> QED
  BY <1>8, <1>9

LEMMA BlockOfOutline ==
  ASSUME AllocInv, at = "got", caller = "outline", NEW store2,
         store2 = [data EXCEPT ![got] = NewBlock.content]
  PROVE  Placed(store2)
<1>0. FileInv /\ CallInv /\ Stored(data) /\ got \in Blocks /\ InDirectory \subseteq Used
  BY DEF AllocInv, ControlInv, FilesInv, StoreInv, BlocksInv, HeldInv, HandedInv, Used
<1>1. f.inline /\ f.off = f.pos /\ f.off \in 0..PerBlock /\ f.name \in Names \cup {NoName}
      /\ f.off \in Nat
  BY <1>0, SizesAreNumbers DEF CallInv, FileInv
<1> DEFINE t == [i \in 1..f.off |-> <<f.name, i>>]
<1>2. NewBlock = [off |-> f.off, content |-> [ptrs |-> <<>>, text |-> t]]
  BY DEF NewBlock, Relocation
<1>3. t \in [1..f.off -> Piece] /\ t \in Seq(Piece) /\ DOMAIN t = 1..f.off
      /\ \A o \in 1..f.off : t[o] = <<f.name, o>>
  <2>1. \A i \in 1..f.off : <<f.name, i>> \in Piece
    BY <1>1 DEF Piece
  <2>2. t \in [1..f.off -> Piece]
    BY <2>1
  <2> QED
    BY <1>1, <2>2
<1> HIDE DEF t
<1>4. NewBlock.off = f.off /\ NewBlock.content = [ptrs |-> <<>>, text |-> t]
  BY <1>2
<1>5. IsContent(NewBlock.content)
  BY <1>3, <1>4 DEF IsContent
<1>6. Stored(store2)
  BY <1>0, <1>5, StoreWith
<1>7. store2[got] = NewBlock.content
  BY <1>0 DEF Stored
<1>8. DOMAIN store2[got].ptrs = {} /\
      \A o \in 1..f.off : o \in DOMAIN store2[got].text /\ store2[got].text[o] = <<f.name, o>>
  <2>1. store2[got].ptrs = <<>> /\ store2[got].text = t
    BY <1>4, <1>7
  <2>2. DOMAIN store2[got].ptrs = {}
    BY <2>1
  <2> QED
    BY <1>3, <2>1, <2>2
<1>9. Begun(store2, f.name, got, f.off)
  BY <1>0, <1>1, <1>6, <1>8, FileBegun
<1>10. Heads(store2, f.name, got, 0, f.off) /\ Visit(store2, got, 0) = {got}
  BY <1>9 DEF Begun
<1>11. InUse = InDirectory
  BY <1>1 DEF InUse, InFile
<1>12. f.pos = 0 * PerBlock + f.off /\ 0 \in 0..MaxSize
  BY <1>1, SizesAreNumbers
<1> QED
  BY <1>1, <1>4, <1>5, <1>10, <1>11, <1>12 DEF Placed

LEMMA BlockOfRelocate ==
  ASSUME AllocInv, at = "got", caller \in {"relocate", "reflush"}, NEW store2,
         store2 = [data EXCEPT ![got] = NewBlock.content]
  PROVE  Placed(store2)
<1>0. FileInv /\ CallInv /\ Stored(data) /\ got \in Blocks /\ got \notin Used
  BY DEF AllocInv, ControlInv, FilesInv, StoreInv, BlocksInv, HeldInv, HandedInv
<1>1. ~f.inline /\ f.writing /\ (f.off > 0 \/ f.pos = 0)
  BY <1>0 DEF CallInv
<1>2. /\ f.block \in Blocks /\ IsContent(data[f.block])
      /\ \A o \in 1..f.off : o \in DOMAIN data[f.block].text
      /\ Index \in 0..MaxSize /\ Index \in Nat /\ f.pos = Index * PerBlock + f.off
      /\ FileAt(data, f.name, f.block, Index, f.off) /\ f.off \in 0..PerBlock
      /\ f.off \in Nat /\ f.pos \in Nat
      /\ Written = Visit(data, f.block, Index) /\ Used = InDirectory \cup Written
      /\ Written \subseteq Blocks
  BY <1>1, WrittenFile
<1>3. NewBlock.off = f.off /\ NewBlock.content = Copied(f.off)
  BY DEF NewBlock, Relocation
<1>4. IsContent(NewBlock.content)
  BY <1>2, <1>3, KeptContent
<1>5. Stored(store2)
  BY <1>0, <1>4, StoreWith
<1>6. store2[got] = NewBlock.content /\ \A b \in Visit(data, f.block, Index) : store2[b] = data[b]
  <2>1. DOMAIN data = Blocks
    BY <1>0 DEF Stored
  <2>2. store2[got] = NewBlock.content
    BY <1>0, <2>1
  <2>3. \A b \in Visit(data, f.block, Index) : store2[b] = data[b]
    BY <1>0, <1>2, <2>1
  <2> QED
    BY <2>2, <2>3
<1>7. got \notin Visit(data, f.block, Index)
  BY <1>0, <1>2
<1>8. store2[got].ptrs = data[f.block].ptrs
  BY <1>2, <1>3, <1>6, KeptContent
<1>9. \A o \in 1..f.off : o \in DOMAIN store2[got].text
      /\ store2[got].text[o] = data[f.block].text[o]
  BY <1>2, <1>3, <1>6, KeptContent
<1>12. Moved(data, store2, f.name, f.block, got, Index, f.off)
  BY <1>0, <1>2, <1>5, <1>6, <1>7, <1>8, <1>9, FileMoved
<1>10. /\ Heads(store2, f.name, got, Index, f.off)
       /\ Visit(store2, got, Index) \subseteq Visit(data, f.block, Index) \cup {got}
       /\ Visit(data, f.block, Index) \subseteq Visit(store2, got, Index) \cup {f.block}
  BY <1>12 DEF Moved
<1>11. InUse \subseteq InDirectory \cup Spared \cup (IF f.pos = 0 THEN {} ELSE Visit(store2, got,
  Index))
  <2>0. ~f.dirty
    BY <1>0, <1>1 DEF FileInv
  <2>1. CASE f.pos = 0
    BY <1>1, <2>0, <2>1 DEF InUse, InFile, Traverse
  <2>2. CASE f.pos # 0
    <3>1. InUse \subseteq Used
      BY WhatIsFound DEF AllocInv
    <3> QED
      BY <1>2, <1>10, <2>2, <3>1 DEF Spared
  <2> QED
    BY <2>1, <2>2
<1> QED
  BY <1>2, <1>3, <1>4, <1>10, <1>11 DEF Placed

-----------------------------------------------------------------------------
(* A block for any of its callers, and a commit to the directory.          *)

LEMMA UseBlockBlocks ==
  ASSUME AllocInv, UseBlock
  PROVE  FilesInv' /\ BlocksInv'
<1>0. LookaheadInv /\ HandedInv /\ HeldInv /\ AheadInv /\ SeenInv /\ FreshInv /\ FileInv /\ CallInv
      /\ StoreInv /\ EntriesInv /\ Stored(data) /\ PlaceInv
  BY DEF AllocInv, ControlInv, BlocksInv, FilesInv, StoreInv
<1>1. /\ at = "got" /\ FileCaller /\ at' \in {"write", "flush"}
      /\ data' = [data EXCEPT ![got] = NewBlock.content]
      /\ f' = [f EXCEPT !.block = got, !.off = NewBlock.off, !.writing = TRUE, !.inline = FALSE]
      /\ at' = IF caller = "reflush" THEN "flush" ELSE "write"
      /\ missed' = missed \cup Spared
      /\ UNCHANGED <<entries, meta, la, held, handed>>
  BY DEF UseBlock, Spared
<1>2. Placed(data')
  <2>1. caller \in {"extend", "outline", "relocate", "reflush"}
    BY <1>1 DEF FileCaller
  <2> QED
    BY <1>1, <2>1, BlockOfExtend, BlockOfOutline, BlockOfRelocate
<1>3. IsContent(NewBlock.content) /\ NewBlock.off \in 0..PerBlock
  BY <1>2 DEF Placed
<1>4. PICK j \in 0..MaxSize :
       /\ f.pos = j * PerBlock + NewBlock.off
       /\ Heads(data', f.name, got, j, NewBlock.off)
       /\ Visit(data', got, j) \subseteq Used \cup {got}
       /\ InUse \subseteq InDirectory \cup Spared \cup (IF f.pos = 0 THEN {} ELSE Visit(data', got, j))
  BY <1>2 DEF Placed
<1>5. got \in Blocks /\ got \notin Used /\ got \in handed
  BY <1>0, <1>1 DEF HeldInv, HandedInv
<1>6. Stored(data')
  BY <1>0, <1>1, <1>3, <1>5, StoreWith
<1>7. \A b \in Blocks : b # got => data'[b] = data[b]
  BY <1>0, <1>1, <1>3, <1>5, StoreWith
<1>8. StoreInv' /\ EntriesInv' /\ InDirectory' = InDirectory
  <2>1. InDirectory \subseteq Blocks
    BY <1>0, DirectoryBlocks
  <2>2. \A b \in InDirectory : b # got
    BY <1>5 DEF Used
  <2>3. \A b \in InDirectory : data'[b] = data[b]
    BY <1>7, <2>1, <2>2
  <2> QED
    BY <1>0, <1>1, <1>6, <2>3, DirectoryUnharmed
<1>9. /\ f'.pos = f.pos /\ f'.off = NewBlock.off /\ f'.block = got /\ f'.name = f.name
      /\ f'.writing /\ ~f'.inline /\ f'.dirty = f.dirty
  BY <1>0, <1>1 DEF FileInv
<1>10. ~f.dirty
  <2>1. InCall
    BY <1>1 DEF InCall
  <2> QED
    BY <1>0, <2>1 DEF CallInv
<1>11. PerBlock \in Nat \ {0} /\ MaxSize \in Nat /\ j \in Nat /\ NewBlock.off \in Nat
       /\ f.pos \in Nat
  BY <1>0, <1>3, <1>4, SizesAreNumbers DEF FileInv
<1> DEFINE o == NewBlock.off
<1> HIDE DEF o
<1>12. Index' = j
  <2>1. f'.pos - f'.off = j * PerBlock
    <3>1. j * PerBlock \in Int
      BY <1>11
    <3> QED
      BY <1>4, <1>9, <1>11, <3>1
  <2>2. (PerBlock * j) \div PerBlock = j
    <3> DEFINE a == PerBlock * j
    <3>1. a \in Int /\ a = PerBlock * j + 0 /\ 0 \in 0..(PerBlock - 1)
      BY <1>11
    <3> HIDE DEF a
    <3>2. a \div PerBlock = j
      BY <1>11, <3>1, Quotient
    <3> QED
      BY <3>2 DEF a
  <2>3. PerBlock * j = j * PerBlock
    BY <1>11
  <2> QED
    BY <2>1, <2>2, <2>3 DEF Index
<1>13. WriteInv'
  <2>1. f'.pos = j * PerBlock + f'.off /\ Heads(data', f'.name, f'.block, j, f'.off)
    BY <1>4, <1>9
  <2>2. f'.block \notin InDirectory' /\ f'.block \in handed'
    BY <1>1, <1>5, <1>8, <1>9 DEF Used
  <2> QED
    BY <1>4, <1>12, <2>1, <2>2 DEF WriteInv
<1>14. FilesInv'
  BY <1>8, <1>9, <1>10, <1>13 DEF FilesInv, PendingInv, OpenInv
<1>15. Used' \subseteq Used \cup {got}
  <2>1. Written' = Visit(data', got, j) /\ Pending' = {}
    BY <1>9, <1>10, <1>12 DEF Written, Pending
  <2>2. InDirectory \subseteq Used
    BY DEF Used
  <2> QED
    BY <1>4, <1>8, <2>1, <2>2 DEF Used
<1>16. HandedInv' /\ AheadInv'
  BY <1>0, <1>1, <1>5, <1>15, SameWindows
<1>17. HeldInv'
  <2>1. ~Committing
    BY <1>1 DEF Committing
  <2>2. held' = {}
    BY <1>0, <1>1, <2>1 DEF CallInv
  <2> QED
    BY <1>1, <2>2 DEF HeldInv
<1>18. FreshInv'
  <2>1. CASE caller = "reflush"
    <3>1. f.off > 0
      BY <1>0, <2>1 DEF CallInv
    <3>2. NewBlock.off = f.off
      BY <2>1 DEF NewBlock, Relocation
    <3> QED
      BY <1>9, <3>1, <3>2, <1>11 DEF FreshInv, Fresh
  <2>2. CASE caller # "reflush"
    BY <1>1, <2>2 DEF FreshInv
  <2> QED
    BY <2>1, <2>2
<1>19. SeenInv'
  <2> SUFFICES ASSUME Looking' PROVE SeenInv'
    BY DEF SeenInv
  <2>1. Looking
    BY <1>0, <1>1 DEF Looking, FreshInv
  <2>2. f'.off # 0 \/ f.pos = 0
    BY <1>9, <1>11 DEF Looking, Fresh
  <2>3. InUse \subseteq InUse' \cup Spared
    <3>1. CASE f.pos = 0
      BY <1>4, <1>8, <3>1 DEF InUse
    <3>2. CASE f.pos # 0
      <4>1. NewBlock.off \in 1..PerBlock
        BY <1>3, <1>9, <2>2, <3>2, <1>11
      <4>2. LastIndex(f.pos) = j
        BY <1>4, <1>11, <4>1, PieceInBlock
      <4>3. Traverse(data', f'.block, f'.pos) = Visit(data', got, j)
        BY <1>9, <3>2, <4>2 DEF Traverse
      <4>4. InUse' = InDirectory \cup Visit(data', got, j)
        BY <1>8, <1>9, <1>10, <4>3 DEF InUse, InFile
      <4> QED
        BY <1>4, <3>2, <4>4
    <3> QED
      BY <3>1, <3>2
  <2>4. Accounted \subseteq Accounted'
    BY <1>1, <2>3 DEF Accounted
  <2> QED
    BY <1>0, <1>1, <2>1, <2>4, SameSeen
<1> QED
  BY <1>14, <1>16, <1>17, <1>18, <1>19 DEF BlocksInv

(* The entry that a commit writes, and the blocks it brings along.         *)
LEMMA CommittedEntry ==
  ASSUME AllocInv, at = "sync"
  PROVE  LET c == Head(todo)
         IN /\ c.name \in Names /\ c.entry \in Entry \cup {Gone}
            /\ Sound(data, c.name, c.entry)
            /\ c.entry.inline => c.entry.size <= InlineMax
            /\ ~c.entry.inline => Traverse(data, c.entry.head, c.entry.size) \subseteq Used
<1> DEFINE c == Head(todo)
<1>0. TodoInv /\ EntriesInv /\ PendingInv /\ FileInv /\ Committing
  BY DEF AllocInv, ControlInv, FilesInv, Committing
<1>1. todo \in Seq([name : Names, entry : Entry \cup {Gone}]) /\ Len(todo) <= 2 /\ todo # <<>>
  BY <1>0 DEF TodoInv
<1>2. 1 \in DOMAIN todo /\ c = todo[1] /\ c \in [name : Names, entry : Entry \cup {Gone}]
  <2> DEFINE S == [name : Names, entry : Entry \cup {Gone}]
  <2>1. todo \in Seq(S) /\ Len(todo) <= 2 /\ todo # <<>>
    BY <1>1
  <2> HIDE DEF S
  <2>2. 1 \in DOMAIN todo /\ todo[1] \in S /\ Head(todo) = todo[1]
    BY <2>1, NextTodo
  <2> QED
    BY <2>2 DEF S
<1>3. \/ c.entry \in {Created, Gone}
      \/ c.entry = entries[c.name]
      \/ /\ f.dirty
         /\ c = [name |-> f.name,
                 entry |-> [inline |-> f.inline,
                            head |-> IF f.inline THEN NoBlock ELSE f.head,
                            size |-> f.size]]
  BY <1>0, <1>2 DEF TodoInv
<1> HIDE DEF c
<1>4. c.name \in Names /\ c.entry \in Entry \cup {Gone}
  BY <1>2
<1>5. CASE c.entry \in {Created, Gone}
  <2>1. c.entry.inline /\ c.entry.size <= 0 /\ c.entry.size \in Int /\ InlineMax \in Nat
    BY <1>5, SizesAreNumbers DEF Created, Gone
  <2>2. c.entry.size <= InlineMax
    BY <2>1
  <2> QED
    BY <1>4, <2>1, <2>2 DEF Sound, c
<1>6. CASE c.entry = entries[c.name]
  <2>1. Sound(data, c.name, c.entry) /\ (c.entry.inline => c.entry.size <= InlineMax)
    BY <1>0, <1>4, <1>6 DEF EntriesInv
  <2>2. ~c.entry.inline => Traverse(data, c.entry.head, c.entry.size) \subseteq Used
    BY <1>4, <1>6, EntryBlocks DEF Used
  <2> QED
    BY <1>4, <2>1, <2>2 DEF c
<1>7. CASE /\ f.dirty
           /\ c = [name |-> f.name,
                   entry |-> [inline |-> f.inline,
                              head |-> IF f.inline THEN NoBlock ELSE f.head,
                              size |-> f.size]]
  <2>0. c.name = f.name
        /\ c.entry = [inline |-> f.inline, head |-> IF f.inline THEN NoBlock ELSE f.head, size |-> f.size]
    BY <1>7
  <2>1. c.entry.inline = f.inline /\ c.entry.size = f.size
        /\ c.entry.head = IF f.inline THEN NoBlock ELSE f.head
    BY <2>0
  <2>2. CASE f.inline
    <3>1. f.size = f.pos /\ f.pos <= InlineMax
      BY <1>0, <1>7, <2>2 DEF FileInv
    <3> QED
      BY <1>4, <2>1, <2>2, <3>1 DEF Sound, c
  <2>3. CASE ~f.inline
    <3>1. c.entry = [inline |-> FALSE, head |-> f.head, size |-> f.size]
      <4>1. f.inline = FALSE
        BY <1>0, <2>3 DEF FileInv
      <4> QED
        BY <2>0, <4>1
    <3>2. Sound(data, c.name, c.entry)
      BY <1>0, <1>7, <2>0, <2>3, <3>1 DEF PendingInv
    <3>3. Traverse(data, c.entry.head, c.entry.size) \subseteq Used
      BY <1>7, <2>1, <2>3 DEF Used, Pending
    <3> QED
      BY <1>4, <2>1, <2>3, <3>2, <3>3 DEF c
  <2> QED
    BY <2>2, <2>3
<1> QED
  BY <1>3, <1>5, <1>6, <1>7

LEMMA CommitDirectoryBlocks ==
  ASSUME AllocInv, CommitDirectory
  PROVE  FilesInv' /\ BlocksInv'
<1> DEFINE c == Head(todo)
<1>0. LookaheadInv /\ HandedInv /\ HeldInv /\ AheadInv /\ TodoInv /\ StoreInv /\ EntriesInv
      /\ Stored(data) /\ Points(data)
  BY StoredPoints DEF AllocInv, ControlInv, BlocksInv, FilesInv, StoreInv
<1>1. /\ at = "sync" /\ at' \in {"commit", "idle"}
      /\ entries' = [entries EXCEPT ![c.name] = c.entry]
      /\ meta' \subseteq meta \cup held /\ held' = {}
      /\ data' = [b \in Blocks |-> IF b \in held THEN Directory ELSE data[b]]
      /\ UNCHANGED <<la, handed>>
  BY DEF CommitDirectory, seen
<1>2. f' = NoFile
  <2>1. CASE Len(todo) > 1
    <3>1. Committing /\ todo # <<>> /\ Len(todo) <= 2
          /\ todo \in Seq([name : Names, entry : Entry \cup {Gone}])
      BY <1>0, <1>1 DEF TodoInv, Committing
    <3>2. Len(todo) = 2
      BY <2>1, <3>1, NextTodo
    <3> QED
      BY <1>0, <2>1, <3>2 DEF CommitDirectory, TodoInv
  <2>2. CASE ~(Len(todo) > 1)
    BY <2>2 DEF CommitDirectory
  <2> QED
    BY <2>1, <2>2
<1>3. /\ c.name \in Names /\ c.entry \in Entry \cup {Gone}
      /\ Sound(data, c.name, c.entry)
      /\ c.entry.inline => c.entry.size <= InlineMax
      /\ ~c.entry.inline => Traverse(data, c.entry.head, c.entry.size) \subseteq Used
  BY <1>1, CommittedEntry
<1> HIDE DEF c
<1>4. held \subseteq Blocks /\ held \cap Used = {} /\ held \subseteq handed
  BY <1>0 DEF HeldInv, HandedInv
<1>5. Stored(data')
  <2>1. IsContent(Directory)
    <3>1. Directory.ptrs = <<>> /\ Directory.text = <<<<NoName, 0>>>>
          /\ Directory = [ptrs |-> Directory.ptrs, text |-> Directory.text]
      BY DEF Directory
    <3>2. <<NoName, 0>> \in Piece
      BY DEF Piece
    <3>3. <<<<NoName, 0>>>> \in Seq(Piece)
      BY <3>2
    <3>4. DOMAIN Directory.ptrs = {}
      BY <3>1
    <3> QED
      BY <3>1, <3>3, <3>4 DEF IsContent
  <2>2. \A b \in Blocks : IsContent(data'[b])
    BY <1>0, <1>1, <2>1 DEF Stored
  <2>3. data' = [b \in Blocks |-> data'[b]]
    BY <1>1
  <2> QED
    BY <2>2, <2>3 DEF Stored
<1>6. Points(data')
  BY <1>5, StoredPoints
<1>7. ASSUME NEW name, NEW e, ~e.inline, Sound(data, name, e), Traverse(data, e.head,
  e.size) \subseteq Used
      PROVE  Sound(data', name, e)
        /\ Traverse(data', e.head, e.size) = Traverse(data, e.head, e.size)
  <2>1. Traverse(data, e.head, e.size) \subseteq Blocks
    BY <1>7, UsedBlocks
  <2>2. \A b \in Traverse(data, e.head, e.size) : data'[b] = data[b]
    BY <1>1, <1>4, <1>7, <2>1
  <2> QED
    BY <1>0, <1>6, <1>7, <2>2, SoundUnharmed
<1>8. \A n \in Names : entries'[n] = IF n = c.name THEN c.entry ELSE entries[n]
  BY <1>0, <1>1 DEF EntriesInv
<1>9. \A n \in Names : ~entries'[n].inline =>
        Sound(data, n, entries'[n])
          /\ Traverse(data, entries'[n].head, entries'[n].size) \subseteq Used
  <2> SUFFICES ASSUME NEW n \in Names, ~entries'[n].inline
               PROVE  Sound(data, n, entries'[n])
                 /\ Traverse(data, entries'[n].head, entries'[n].size) \subseteq Used
    OBVIOUS
  <2>1. CASE n = c.name
    BY <1>3, <1>8, <2>1
  <2>2. CASE n # c.name
    <3>1. entries'[n] = entries[n]
      BY <1>8, <2>2
    <3>2. Sound(data, n, entries[n])
      BY <1>0 DEF EntriesInv
    <3>3. Traverse(data, entries[n].head, entries[n].size) \subseteq Used
      BY <3>1, EntryBlocks DEF Used
    <3> QED
      BY <3>1, <3>2, <3>3
  <2> QED
    BY <2>1, <2>2
<1>10. \A n \in Names : ~entries'[n].inline =>
         /\ Sound(data', n, entries'[n])
         /\ Traverse(data', entries'[n].head, entries'[n].size) \subseteq Used
  BY <1>7, <1>9
<1>11. EntriesInv'
  <2>1. entries' \in [Names -> Entry \cup {Gone}]
    BY <1>0, <1>1, <1>3 DEF EntriesInv
  <2>2. ASSUME NEW n \in Names
        PROVE  Sound(data', n, entries'[n]) /\ (entries'[n].inline => entries'[n].size <= InlineMax)
    <3>1. CASE ~entries'[n].inline
      BY <1>10, <3>1
    <3>2. CASE entries'[n].inline
      <4>1. Sound(data', n, entries'[n])
        BY <3>2 DEF Sound
      <4>2. entries'[n].size <= InlineMax
        BY <1>0, <1>3, <1>8, <3>2 DEF EntriesInv
      <4> QED
        BY <4>1, <4>2
    <3> QED
      BY <3>1, <3>2
  <2> QED
    BY <2>1, <2>2 DEF EntriesInv
<1>12. StoreInv'
  <2>1. \A b \in meta' : b \in Blocks /\ data'[b] = Directory
    BY <1>0, <1>1, <1>4 DEF StoreInv
  <2> QED
    BY <1>5, <2>1 DEF StoreInv
<1>13. f'.inline
  BY <1>2 DEF NoFile
<1>14. FilesInv' /\ FreshInv'
  BY <1>11, <1>12, <1>13 DEF FilesInv, WriteInv, PendingInv, OpenInv, FreshInv, Fresh
<1>15. Used' \subseteq Used \cup handed
  <2>1. Written' = {} /\ Pending' = {}
    BY <1>13 DEF Written, Pending
  <2>2. meta \subseteq Used
    BY DEF Used, InDirectory
  <2>3. InDirectory' \subseteq Used \cup handed
    BY <1>1, <1>4, <1>10, <2>2 DEF InDirectory
  <2> QED
    BY <2>1, <2>3 DEF Used
<1>16. HandedInv' /\ AheadInv'
  BY <1>0, <1>1, <1>15, SameWindows
<1>17. HeldInv'
  BY <1>1 DEF HeldInv
<1>18. SeenInv'
  BY <1>1, NotLooking
<1> QED
  BY <1>14, <1>16, <1>17, <1>18 DEF BlocksInv

-----------------------------------------------------------------------------
(* The invariant, and what follows from it.                                *)

(* Counting from anywhere, every block comes up.                           *)
LEMMA EveryBlock ==
  ASSUME NEW x \in Int, NEW b \in Blocks
  PROVE  \E t \in 0..(BlockCount - 1) : (x + t) % BlockCount = b
<1> DEFINE t == (b - x) % BlockCount
<1>0. BlockCount \in Nat \ {0} /\ b \in 0..(BlockCount - 1)
  BY SizesAreNumbers DEF Blocks
<1>1. t \in 0..(BlockCount - 1) /\ b - x \in Int
  BY <1>0
<1>2. (((b - x) % BlockCount) + x) % BlockCount = ((b - x) + x) % BlockCount
  BY <1>0, <1>1, AddedLater
<1>3. b % BlockCount = b
  <2>1. b \in Int /\ b = BlockCount * 0 + b /\ 0 \in Int
    BY <1>0
  <2> QED
    BY <1>0, <2>1, Quotient
<1>4. (b - x) + x = b /\ t + x = x + t
  BY <1>0, <1>1
<1> HIDE DEF t
<1>5. (t + x) % BlockCount = b
  BY <1>2, <1>3, <1>4 DEF t
<1> QED
  BY <1>1, <1>4, <1>5

LEMMA DirectoryContent == IsContent(Directory) /\ IsContent(Garbage)
<1>1. /\ Directory.ptrs = <<>> /\ Directory.text = <<<<NoName, 0>>>>
      /\ Directory = [ptrs |-> Directory.ptrs, text |-> Directory.text]
      /\ Garbage.ptrs = <<>> /\ Garbage.text = <<<<NoName, 1>>>>
      /\ Garbage = [ptrs |-> Garbage.ptrs, text |-> Garbage.text]
  BY DEF Directory, Garbage
<1>2. <<NoName, 0>> \in Piece /\ <<NoName, 1>> \in Piece
  BY DEF Piece
<1>3. <<<<NoName, 0>>>> \in Seq(Piece) /\ <<<<NoName, 1>>>> \in Seq(Piece)
  BY <1>2
<1>4. DOMAIN Directory.ptrs = {} /\ DOMAIN Garbage.ptrs = {}
  BY <1>1
<1> QED
  BY <1>1, <1>3, <1>4 DEF IsContent

LEMMA AllocInitInv == AllocInit => AllocInv
<1> SUFFICES ASSUME AllocInit PROVE AllocInv
  OBVIOUS
<1>0. /\ BlockCount \in Nat /\ BlockCount > 2 /\ Window \in Nat \ {0} /\ Starts \subseteq Blocks
      /\ MaxSize \in Nat /\ InlineMax \in Nat
  BY SizesAreNumbers, AllocAssumption DEF Blocks
<1>1. /\ entries = [n \in Names |-> Gone] /\ meta = Super /\ Super \subseteq Blocks
      /\ data = [b \in Blocks |-> IF b \in Super THEN Directory ELSE Garbage]
      /\ f = NoFile /\ ~listed /\ listed \in BOOLEAN /\ session = NoName
      /\ at = "idle" /\ caller = "none" /\ got = NoBlock /\ held = {} /\ todo = <<>>
      /\ handed = {} /\ missed = {}
  <2>1. Super \subseteq Blocks
    BY <1>0 DEF Super, Blocks
  <2> QED
    BY <2>1 DEF AllocInit
<1>2. PICK start \in Starts :
        la = [start |-> start, size |-> 0, next |-> 0, ckpoint |-> BlockCount, used |-> {}]
  BY DEF AllocInit
<1>3. LookaheadInv
  BY <1>0, <1>2 DEF LookaheadInv
<1>4. PlaceInv
  BY <1>1 DEF PlaceInv, Place, Caller, FileCaller
<1>5. FileInv
  BY <1>0, <1>1, SizesAreNumbers DEF FileInv, NoFile
<1>6. CallInv
  BY <1>1 DEF CallInv, Committing, InCall
<1>7. TodoInv
  <2>1. <<>> \in Seq([name : Names, entry : Entry \cup {Gone}]) /\ Len(<<>>) = 0 /\ DOMAIN <<>> = {}
    OBVIOUS
  <2> QED
    BY <1>1, <2>1 DEF TodoInv, Committing
<1>8. SessionInv
  BY <1>1 DEF SessionInv
<1>9. StoreInv
  <2>1. IsContent(Directory) /\ IsContent(Garbage)
    BY DirectoryContent
  <2>2. \A b \in Blocks : IsContent(data[b])
    BY <1>1, <2>1
  <2>3. data = [b \in Blocks |-> data[b]]
    BY <1>1
  <2>4. \A b \in meta : data[b] = Directory
    BY <1>1
  <2> QED
    BY <1>1, <2>2, <2>3, <2>4 DEF StoreInv, Stored
<1>10. EntriesInv
  <2>1. Gone.inline /\ Gone.size = -1
    BY DEF Gone
  <2>2. entries \in [Names -> Entry \cup {Gone}]
    BY <1>1
  <2>3. \A n \in Names : entries[n] = Gone
    BY <1>1
  <2>4. \A n \in Names : Sound(data, n, entries[n])
    BY <2>1, <2>3 DEF Sound
  <2>5. \A n \in Names : entries[n].size <= InlineMax
    BY <1>0, <2>1, <2>3
  <2> QED
    BY <2>2, <2>4, <2>5 DEF EntriesInv
<1>11. f.inline
  BY <1>1 DEF NoFile
<1>12. WriteInv /\ PendingInv /\ OpenInv /\ FreshInv
  BY <1>11 DEF WriteInv, PendingInv, OpenInv, FreshInv, Fresh
<1>13. HeldInv /\ HandedInv /\ SeenInv
  BY <1>1 DEF HeldInv, HandedInv, SeenInv, Looking
<1>14. AheadInv
  <2>1. Ahead = {}
    BY <1>2 DEF Ahead
  <2> QED
    BY <2>1 DEF AheadInv, FreeAhead
<1> QED
  BY <1>3, <1>4, <1>5, <1>6, <1>7, <1>8, <1>9, <1>10, <1>12, <1>13, <1>14
     DEF AllocInv, ControlInv, FilesInv, BlocksInv

LEMMA AllocStays ==
  ASSUME AllocInv, UNCHANGED allocVars
  PROVE  AllocInv'
<1>0. /\ LookaheadInv /\ PlaceInv /\ FileInv /\ CallInv /\ TodoInv /\ SessionInv
      /\ FilesInv /\ HeldInv /\ HandedInv /\ AheadInv /\ SeenInv /\ FreshInv
  BY DEF AllocInv, ControlInv, BlocksInv
<1>1. /\ UNCHANGED <<disk, f>> /\ entries' = entries
      /\ UNCHANGED <<la, f, listed, session, at, caller, got, held, todo, counts, handed, missed>>
  BY DEF allocVars, place, seen, disk
<1>2. LookaheadInv' /\ PlaceInv' /\ FileInv'
  BY <1>0, <1>1 DEF LookaheadInv, PlaceInv, FileInv, FileCaller
<1>3. CallInv'
  BY <1>0, <1>1 DEF CallInv, Committing, InCall, FileCaller
<1>4. TodoInv' /\ SessionInv'
  BY <1>0, <1>1 DEF TodoInv, SessionInv, Committing, FileCaller
<1>5. InUse' = InUse /\ Used' = Used /\ (Fresh' <=> Fresh)
  BY <1>1, SameBlocks
<1>6. FilesInv'
  BY <1>0, <1>1, SameFiles
<1>7. HandedInv' /\ AheadInv'
  BY <1>0, <1>1, <1>5, SameWindows
<1>8. HeldInv' /\ FreshInv'
  BY <1>0, <1>1, <1>5 DEF HeldInv, FreshInv
<1>9. SeenInv'
  <2>1. Looking' => Looking /\ Accounted \subseteq Accounted'
    BY <1>1, <1>5 DEF Looking, FileCaller, Accounted
  <2> QED
    BY <1>0, <1>1, <2>1, SameSeen
<1> QED
  BY <1>2, <1>3, <1>4, <1>6, <1>7, <1>8, <1>9 DEF AllocInv, ControlInv, BlocksInv

LEMMA AllocNextInv ==
  ASSUME AllocInv, ~BadFirst, [AllocNext]_allocVars
  PROVE  AllocInv'
<1>1. CASE AllocFound
  BY <1>1, AllocFoundControl, AllocFoundFiles, AllocFoundBlocks DEF AllocInv
<1>2. CASE AllocScan
  BY <1>2, AllocScanControl, AllocScanFiles, AllocScanBlocks DEF AllocInv
<1>3. CASE AllocFails
  BY <1>3, AllocFailsControl, AllocFailsBlocks DEF AllocInv
<1>4. CASE WriteInline
  BY <1>4, WriteInlineControl, WriteInlineBlocks DEF AllocInv
<1>5. CASE Outline
  BY <1>5, OutlineControl, OutlineBlocks DEF AllocInv
<1>6. CASE Extend
  BY <1>6, ExtendControl, ExtendBlocks DEF AllocInv
<1>7. CASE Program
  BY <1>7, ProgramControl, ProgramBlocks DEF AllocInv
<1>8. CASE WriteDone
  BY <1>8, WriteDoneControl, WriteDoneBlocks DEF AllocInv
<1>9. CASE UseBlock
  BY <1>9, UseBlockControl, UseBlockBlocks DEF AllocInv
<1>10. CASE Flush
  BY <1>10, FlushControl, FlushBlocks DEF AllocInv
<1>11. CASE TakeForDirectory
  BY <1>11, TakeForDirectoryControl, TakeForDirectoryBlocks DEF AllocInv
<1>12. CASE HoldBlock
  BY <1>12, HoldBlockControl, HoldBlockBlocks DEF AllocInv
<1>13. CASE CommitDirectory
  BY <1>13, CommitDirectoryControl, CommitDirectoryBlocks DEF AllocInv
<1>14. CASE WriteFailed
  BY <1>14, WriteFailedControl, WriteFailedBlocks DEF AllocInv
<1>15. CASE CloseFailed
  BY <1>15, CloseFailedControl, CloseFailedBlocks DEF AllocInv
<1>16. CASE Reset
  BY <1>16, ResetControl, ResetBlocks DEF AllocInv
<1>17. CASE ProgramFails
  BY <1>17, ProgramFailsControl, ProgramFailsBlocks DEF AllocInv
<1>18. CASE BlockIsBad
  BY <1>18, BlockIsBadControl, BlockIsBadBlocks DEF AllocInv
<1>19. CASE FlushFails
  BY <1>19, FlushFailsControl, FlushFailsBlocks DEF AllocInv
<1>20. CASE filesys_start_file_write
  BY <1>20, filesys_start_file_writeControl, filesys_start_file_writeBlocks DEF AllocInv
<1>21. CASE filesys_write_buffer_to_mram
  BY <1>21, filesys_write_buffer_to_mramControl, filesys_write_buffer_to_mramBlocks DEF AllocInv
<1>22. CASE filesys_complete_file_write
  BY <1>22, filesys_complete_file_writeControl, filesys_complete_file_writeBlocks DEF AllocInv
<1>23. CASE filesys_cancel_file_write
  BY <1>23, filesys_cancel_file_writeControl, filesys_cancel_file_writeBlocks DEF AllocInv
<1>24. CASE PowerLoss
  BY <1>24, PowerLossControl, PowerLossBlocks DEF AllocInv
<1>25. CASE UNCHANGED allocVars
  BY <1>25, AllocStays
<1> QED
  BY <1>1, <1>2, <1>3, <1>4, <1>5, <1>6, <1>7, <1>8, <1>9, <1>10, <1>11, <1>12, <1>13, <1>14,
     <1>15, <1>16, <1>17, <1>18, <1>19, <1>20, <1>21, <1>22, <1>23, <1>24, <1>25
     DEF AllocNext, Step, Bad, Call

LEMMA AllocInvariance == ~BadFirst /\ AllocSpec => []AllocInv
<1>1. ~BadFirst /\ AllocInv /\ [AllocNext]_allocVars => AllocInv'
  BY AllocNextInv
<1>2. ~BadFirst => (AllocInv /\ [AllocNext]_allocVars => AllocInv')
  BY <1>1
<1>3. CASE BadFirst
  BY <1>3
<1>4. CASE ~BadFirst
  <2>1. AllocInv /\ [AllocNext]_allocVars => AllocInv'
    BY <1>2, <1>4
  <2> QED
    BY <2>1, AllocInitInv, PTL DEF AllocSpec
<1> QED
  BY <1>3, <1>4

(* The variables keep their types, and the count of the allocator, which   *)
(* is unsigned, is never less than what its window still shows.            *)
THEOREM AllocTypeCorrect == ~BadFirst /\ AllocSpec => []AllocTypeOK
<1>1. AllocInv => AllocTypeOK
  <2> SUFFICES ASSUME AllocInv PROVE AllocTypeOK
    OBVIOUS
  <2>1. LookaheadInv /\ PlaceInv /\ FileInv /\ StoreInv /\ EntriesInv /\ HeldInv /\ HandedInv
    BY DEF AllocInv, ControlInv, FilesInv, BlocksInv
  <2>2. /\ la.start \in Blocks /\ la.size \in 0..Window /\ la.next \in 0..la.size
        /\ la.ckpoint \in (la.size - la.next)..BlockCount
        /\ la.used \subseteq 0..(Window - 1)
    BY <2>1, SizesAreNumbers DEF LookaheadInv
  <2>3. f.block \in Blocks \cup {NoBlock} /\ f.pos \in 0..MaxSize /\ f.off \in 0..PerBlock
    BY <2>1 DEF FileInv
  <2> QED
    BY <2>1, <2>2, <2>3 DEF AllocTypeOK, PlaceInv, StoreInv, EntriesInv, HeldInv, HandedInv
<1> QED
  BY <1>1, AllocInvariance, PTL

(* Whatever was allocated, given up, deleted or interrupted: every file in *)
(* the directory, read the way lfs_ctz_find reads it, has its pieces.      *)
THEOREM FilesStayIntact == ~BadFirst /\ AllocSpec => []FilesIntact
<1>1. AllocInv => FilesIntact
  <2> SUFFICES ASSUME AllocInv PROVE FilesIntact
    OBVIOUS
  <2>0. StoreInv /\ EntriesInv /\ Points(data)
    BY StoredPoints DEF AllocInv, FilesInv, StoreInv
  <2>1. \A b \in meta : data[b] = Directory
    BY <2>0 DEF StoreInv
  <2>2. ASSUME NEW n \in Names, ~entries[n].inline, NEW i \in 1..entries[n].size
        PROVE  LET e == entries[n]
                   b == Find(data, e.head, LastIndex(e.size), LastIndex(i))
                   at_ == ((i - 1) % PerBlock) + 1
               IN b \in Blocks /\ at_ \in DOMAIN data[b].text /\ data[b].text[at_] = <<n, i>>
    <3>1. /\ entries[n].size \in 1..MaxSize
          /\ FileAt(data, n, entries[n].head, LastIndex(entries[n].size), Position(entries[n].size))
      BY <2>0, <2>2 DEF EntriesInv, Sound
    <3>2. Position(i) = ((i - 1) % PerBlock) + 1
      BY DEF Position
    <3> QED
      BY <2>0, <3>1, <3>2, FileReads
  <2> QED
    BY <2>1, <2>2 DEF FilesIntact
<1> QED
  BY <1>1, AllocInvariance, PTL

(* A write is told that there is no space only when every block that is    *)
(* not in use was handed out since the checkpoint, or became free after    *)
(* the window in force was filled in.                                      *)
THEOREM NoSpaceStaysReal == ~BadFirst /\ AllocSpec => []NoSpaceIsReal
<1>1. AllocInv => NoSpaceIsReal
  <2> SUFFICES ASSUME AllocInv, OutOfSpace, FileCaller, NEW b \in Blocks, b \notin InUse
               PROVE  b \in handed \cup missed
    BY DEF NoSpaceIsReal
  <2>0. LookaheadInv /\ SeenInv /\ FreshInv /\ BlockCount \in Nat
    BY SizesAreNumbers DEF AllocInv, ControlInv, BlocksInv
  <2>1. at = "alloc" /\ FreeAhead = {} /\ Remaining <= 0
    BY DEF OutOfSpace
  <2>2. Looking
    BY <2>0, <2>1 DEF Looking, FreshInv
  <2>3. /\ la.start \in Int /\ la.next \in Nat /\ la.size \in Nat /\ la.next <= la.size
        /\ la.ckpoint \in Nat /\ la.size - la.next <= la.ckpoint
          /\ la.ckpoint - (la.size - la.next) <= 0
    BY <2>0, <2>1, SizesAreNumbers DEF LookaheadInv, Remaining, Blocks
  <2>4. \A p \in la.next..(la.size - 1) : At(p) \in Accounted
    BY <2>0, <2>1, <2>2 DEF SeenInv, FreeAhead, Ahead
  <2>5. la.size \in la.next..la.size /\ la.ckpoint - (la.size - la.next) = 0
    BY <2>3
  <2>6. \A t \in (la.ckpoint - (la.size - la.next))..(BlockCount - 1) :
          (la.start + la.size + t) % BlockCount \in Accounted
    BY <2>0, <2>2, <2>4, <2>5, SeenMoves
  <2>7. la.start + la.size \in Int
    BY <2>3
  <2>8. PICK t \in 0..(BlockCount - 1) : (la.start + la.size + t) % BlockCount = b
    BY <2>7, EveryBlock
  <2>9. b \in Accounted
    BY <2>5, <2>6, <2>8
  <2> QED
    BY <2>9 DEF Accounted
<1> QED
  BY <1>1, AllocInvariance, PTL
=============================================================================
