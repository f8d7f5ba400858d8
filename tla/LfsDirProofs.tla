---------------------------- MODULE LfsDirProofs ----------------------------
(***************************************************************************)
(* Proofs about LfsDir, for a disk of any number of blocks, any number of  *)
(* files, blocks of any size, and revision counts of any range: the list   *)
(* of pairs on the disk is whole after every write, whatever is appended,  *)
(* compacted, split, moved or dropped, wherever a write is cut short; and  *)
(* it implements the directory littlefs promises (LfsDirectory).           *)
(*                                                                         *)
(* The list of pairs is read by a recursive function.  What it computes is *)
(* proved from a list that is given: ReadFrom says that one is read, pair  *)
(* after pair, and ChainFromIs that the function finds it then.            *)
(***************************************************************************)
EXTENDS LfsDir, FiniteSetTheorems, WellFoundedInduction, SequenceTheorems, TLAPS

-----------------------------------------------------------------------------
(* A set of natural numbers has a least element.                           *)
LEMMA LeastNumber ==
  ASSUME NEW S \in SUBSET Nat, S # {}
  PROVE  \E x \in S : \A y \in S : x <= y
<1> DEFINE R == OpToRel(<, Nat)
<1>1. IsWellFoundedOn(R, Nat)
  BY NatLessThanWellFounded, Zenon
<1>2. \A x, y \in Nat : x < y => <<x, y>> \in R
  BY DEF OpToRel
<1> HIDE DEF R
<1>3. PICK x \in S : \A y \in S : ~(<<y, x>> \in R)
  BY <1>1, WFMin, Zenon
<1>4. \A y \in S : ~(y < x)
  BY <1>2, <1>3, Zenon
<1> QED
  BY <1>4

(* A bounded set of natural numbers has a greatest element.                *)
LEMMA GreatestNumber ==
  ASSUME NEW n \in Nat, NEW S \in SUBSET (0..n), S # {}
  PROVE  Max(S) \in S /\ \A y \in S : y <= Max(S)
<1> DEFINE T == {n - x : x \in S}
<1>1. T \in SUBSET Nat /\ T # {}
  <2>1. \A x \in S : n - x \in Nat
    OBVIOUS
  <2> QED
    BY <2>1
<1>2. PICK t \in T : \A u \in T : t <= u
  <2> HIDE DEF T
  <2> QED
    BY <1>1, LeastNumber
<1>3. PICK x \in S : t = n - x
  BY <1>2
<1>4. \A y \in S : n - y \in T
  OBVIOUS
<1>5. \A y \in S : y <= x
  BY <1>2, <1>3, <1>4
<1>6. \E z \in S : \A y \in S : z >= y
  BY <1>3, <1>5
<1>7. Max(S) \in S /\ \A y \in S : Max(S) >= y
  <2> HIDE DEF T
  <2> QED
    BY <1>6, Zenon DEF Max
<1> QED
  BY <1>7

-----------------------------------------------------------------------------
(* Revision counts.                                                        *)

LEMMA Geometry ==
  /\ R0 # R1 /\ R0 \notin Spare /\ R1 \notin Spare /\ IsFiniteSet(Spare)
  /\ NFiles \in Nat /\ Slots \in Nat /\ Slots >= 2 /\ Half \in Nat /\ Half > 0
  /\ Cycles \in Nat /\ Cycles >= 3
  /\ RevMod \in Nat /\ RevMod \div 2 > Cycles
  BY GeometryAssumption DEF RevMod

LEMMA HalfModulus ==
  RevMod \in Nat /\ Cycles \in Nat /\ Cycles >= 3 /\ RevMod \div 2 \in Nat
  /\ 2 * (RevMod \div 2) <= RevMod /\ RevMod \div 2 > Cycles
  BY Geometry

(* Quotient and remainder.                                                 *)
LEMMA Divided ==
  ASSUME NEW a \in Int, NEW m \in Nat \ {0}
  PROVE  /\ a \div m \in Int /\ a % m \in 0..(m - 1)
         /\ a = m * (a \div m) + (a % m)
OBVIOUS

LEMMA Smaller ==
  ASSUME NEW m \in Nat \ {0}, NEW j \in Int, NEW k \in Int, j < k
  PROVE  m * j + m <= m * k
<1>1. m * k - m * j = m * (k - j)
  OBVIOUS
<1>2. k - j >= 1
  OBVIOUS
<1>3. m * (k - j) >= m
  BY <1>2
<1>4. m * k \in Int /\ m * j \in Int
  OBVIOUS
<1> QED
  BY <1>1, <1>3, <1>4

LEMMA Quotient ==
  ASSUME NEW a \in Int, NEW m \in Nat \ {0}, NEW q \in Int, NEW r \in 0..(m - 1),
         a = m * q + r
  PROVE  a \div m = q /\ a % m = r
<1> DEFINE p == a \div m
<1>1. p \in Int /\ a % m \in 0..(m - 1) /\ a = m * p + (a % m)
  BY Divided
<1> HIDE DEF p
<1>2. m * p \in Int /\ m * q \in Int
  BY <1>1
<1>3. ~(p < q)
  <2> SUFFICES ASSUME p < q PROVE FALSE
    OBVIOUS
  <2>1. m * p + m <= m * q
    BY <1>1, Smaller
  <2> QED
    BY <1>1, <1>2, <2>1
<1>4. ~(q < p)
  <2> SUFFICES ASSUME q < p PROVE FALSE
    OBVIOUS
  <2>1. m * q + m <= m * p
    BY <1>1, Smaller
  <2> QED
    BY <1>1, <1>2, <2>1
<1>5. p = q
  BY <1>1, <1>3, <1>4
<1> QED
  BY <1>1, <1>2, <1>5 DEF p

LEMMA Wraps ==
  ASSUME NEW m \in Nat \ {0}, NEW r \in 0..(m - 1)
  PROVE  r % m = r /\ r \div m = 0 /\ (r + m) % m = r /\ (r - m) % m = r
<1>1. r = m * 0 + r /\ r + m = m * 1 + r /\ r - m = m * (-1) + r
  OBVIOUS
<1>2. r % m = r /\ r \div m = 0
  BY <1>1, Quotient
<1>3. (r + m) % m = r
  BY <1>1, Quotient
<1>4. (r - m) % m = r
  BY <1>1, Quotient
<1> QED
  BY <1>2, <1>3, <1>4

(* A count is newer than another when it is less than half the range ahead. *)
Ahead(r, s, k) == r = s + k \/ r = s + k - RevMod

LEMMA NewerIsAhead ==
  ASSUME NEW r \in Rev, NEW s \in Rev
  PROVE  Newer(r, s) <=> \E k \in 1..(RevMod \div 2 - 1) : Ahead(r, s, k)
<1>0. r \in Nat /\ s \in Nat /\ r < RevMod /\ s < RevMod /\ RevMod \in Nat \ {0}
  BY HalfModulus DEF Rev
<1>1. CASE r >= s
  <2>1. (r - s) % RevMod = r - s
    BY <1>0, <1>1, Wraps
  <2>2. Newer(r, s) <=> r - s \in 1..(RevMod \div 2 - 1)
    BY <2>1 DEF Newer
  <2>3. Newer(r, s) => Ahead(r, s, r - s)
    BY <1>0 DEF Ahead
  <2>4. ASSUME NEW k \in 1..(RevMod \div 2 - 1), Ahead(r, s, k) PROVE k = r - s
    BY <1>0, <1>1, <2>4, HalfModulus DEF Ahead
  <2> QED
    BY <2>2, <2>3, <2>4
<1>2. CASE r < s
  <2>0. (r - s) + RevMod \in 0..(RevMod - 1) /\ ((r - s) + RevMod) - RevMod = r - s
    BY <1>0, <1>2
  <2>1. (r - s) % RevMod = (r - s) + RevMod
    BY <1>0, <2>0, Wraps, ZenonT(60)
  <2> QED
    BY <1>0, <1>2, <2>1, HalfModulus DEF Newer, Ahead
<1> QED
  BY <1>0, <1>1, <1>2

(* Between two counts at most one is the newer.                            *)
LEMMA NewerOneWay ==
  ASSUME NEW r \in Rev, NEW s \in Rev, Newer(r, s)
  PROVE  ~Newer(s, r)
<1>1. PICK k \in 1..(RevMod \div 2 - 1) : Ahead(r, s, k)
  BY NewerIsAhead
<1> SUFFICES ASSUME NEW j \in 1..(RevMod \div 2 - 1), Ahead(s, r, j) PROVE FALSE
  BY NewerIsAhead
<1> QED
  BY <1>1, HalfModulus DEF Ahead, Rev

LEMMA IncIsNewer ==
  ASSUME NEW r \in Rev
  PROVE  Inc(r) \in Rev /\ Newer(Inc(r), r)
<1>0. r \in Nat /\ r < RevMod /\ RevMod > 6 /\ RevMod \in Nat \ {0}
  BY HalfModulus DEF Rev
<1>1. Inc(r) \in Rev
  BY <1>0, Divided DEF Inc, Rev
<1>2. Ahead(Inc(r), r, 1)
  <2>1. CASE r + 1 < RevMod
    BY <1>0, <2>1, Wraps DEF Inc, Ahead
  <2>2. CASE r + 1 = RevMod
    <3>1. (0 + RevMod) % RevMod = 0
      BY <1>0, Wraps
    <3> QED
      BY <1>0, <2>2, <3>1 DEF Inc, Ahead
  <2> QED
    BY <1>0, <2>1, <2>2
<1> QED
  BY <1>1, <1>2, NewerIsAhead, HalfModulus

(* lfs_alignup: less than Cycles further, or round to zero.                *)
LEMMA AlignedIsAhead ==
  ASSUME NEW r \in Rev
  PROVE  Aligned(r) \in Rev /\ \E k \in 0..(Cycles - 1) : Ahead(Aligned(r), r, k)
<1>0. r \in Nat /\ r < RevMod /\ RevMod > 6 /\ Cycles \in Nat \ {0} /\ RevMod \in Nat \ {0}
      /\ Cycles < RevMod
  BY HalfModulus DEF Rev
<1> DEFINE u == (r + Cycles - 1) % RevMod
           q == u \div Cycles
           a == q * Cycles
<1>1. a = Aligned(r)
  BY DEF Aligned
<1>2. u \in 0..(RevMod - 1)
  BY <1>0, Divided
<1>3. q \in Int /\ u % Cycles \in 0..(Cycles - 1) /\ u = Cycles * q + (u % Cycles)
  <2> HIDE DEF u
  <2> QED
    BY <1>0, <1>2, Divided
<1>4. a = Cycles * q /\ Cycles * q \in Int
  <2> HIDE DEF u, q
  <2> QED
    BY <1>0, <1>3
<1>5. a \in Int /\ a <= u /\ u < a + Cycles
  <2> HIDE DEF a, q, u
  <2> QED
    BY <1>0, <1>2, <1>3, <1>4
<1>6. CASE r + Cycles - 1 < RevMod
  <2>1. u = r + Cycles - 1
    BY <1>0, <1>6, Wraps
  <2> HIDE DEF a, u
  <2> QED
    BY <1>0, <1>1, <1>2, <1>5, <2>1 DEF Ahead, Rev
<1>7. CASE r + Cycles - 1 >= RevMod
  <2>1. u = r + Cycles - 1 - RevMod
    <3> DEFINE v == r + Cycles - 1 - RevMod
    <3>1. v \in 0..(RevMod - 1) /\ v + RevMod = r + Cycles - 1
      BY <1>0, <1>7
    <3> HIDE DEF v
    <3>2. (v + RevMod) % RevMod = v
      BY <1>0, <3>1, Wraps
    <3> QED
      BY <3>1, <3>2 DEF v
  <2>2. u \in 0..(Cycles - 1)
    BY <1>0, <1>2, <2>1
  <2>3. q = 0
    <3> HIDE DEF u
    <3> QED
      BY <1>0, <2>2, Wraps
  <2>4. a = 0
    BY <1>0, <2>3
  <2>5. RevMod - r \in 0..(Cycles - 1)
    BY <1>0, <1>7
  <2> HIDE DEF a
  <2> QED
    BY <1>0, <1>1, <2>4, <2>5 DEF Ahead, Rev
<1> QED
  BY <1>0, <1>6, <1>7

(* The revision count of a new pair: up to Cycles ahead of what was found. *)
LEMMA AlignedIsNewer ==
  ASSUME NEW r \in Rev
  PROVE  Inc(Aligned(r)) \in Rev /\ Newer(Inc(Aligned(r)), r)
<1> DEFINE a == Aligned(r)
<1>1. a \in Rev
  BY AlignedIsAhead
<1>2. PICK k \in 0..(Cycles - 1) : Ahead(a, r, k)
  BY AlignedIsAhead
<1> HIDE DEF a
<1>0. RevMod \in Nat \ {0} /\ RevMod > 6
  BY HalfModulus
<1>3. Inc(a) \in Rev
  BY <1>1, IncIsNewer
<1>4. Inc(a) = a + 1 \/ (Inc(a) = 0 /\ a + 1 = RevMod)
  <2>1. CASE a + 1 < RevMod
    BY <1>0, <1>1, <2>1, Wraps DEF Inc, Rev
  <2>2. CASE a + 1 = RevMod
    <3>1. (0 + RevMod) % RevMod = 0
      BY <1>0, Wraps
    <3> QED
      BY <1>0, <2>2, <3>1 DEF Inc
  <2> QED
    BY <1>0, <1>1, <2>1, <2>2 DEF Rev
<1>5. k + 1 \in 1..(RevMod \div 2 - 1)
  BY <1>2, HalfModulus
<1>6. Ahead(Inc(a), r, k + 1)
  BY <1>0, <1>1, <1>2, <1>3, <1>4, <1>5, HalfModulus DEF Ahead, Rev
<1>7. Newer(Inc(a), r)
  BY <1>3, <1>5, <1>6, NewerIsAhead
<1> QED
  BY <1>3, <1>7 DEF a

(* A revision count that is cut short while it is written still is one.    *)
LEMMA MixedIsRev ==
  ASSUME NEW was \in Rev, NEW new \in Rev, NEW r \in Mixed(was, new)
  PROVE  r \in Rev
<1>0. was \in Nat /\ was < RevMod /\ new \in Nat /\ RevMod \in Nat
  BY HalfModulus DEF Rev
<1>1. PICK m \in 1..RevMod : RevMod % m = 0 /\ r = (was \div m) * m + (new % m)
  BY DEF Mixed
<1> DEFINE q == was \div m
           k == RevMod \div m
<1>2. m \in Nat \ {0}
  BY <1>0, <1>1
<1>3. q \in Int /\ was % m \in 0..(m - 1) /\ was = m * q + (was % m)
  BY <1>0, <1>2, Divided
<1>4. k \in Int /\ RevMod = m * k
  <2>1. k \in Int /\ RevMod = m * k + (RevMod % m)
    BY <1>0, <1>2, Divided
  <2> HIDE DEF k
  <2>2. m * k \in Int
    BY <1>2, <2>1
  <2> QED
    BY <1>0, <1>1, <2>1, <2>2
<1>5. new % m \in 0..(m - 1)
  BY <1>0, <1>2, Divided
<1>6. r = q * m + (new % m)
  BY <1>1
<1> HIDE DEF q, k
<1>7. m * q \in Int /\ m * k \in Int /\ q * m = m * q
  BY <1>2, <1>3, <1>4
<1>8. q < k
  <2> SUFFICES ASSUME q >= k PROVE FALSE
    BY <1>3, <1>4
  <2>1. q = k \/ k < q
    BY <1>3, <1>4
  <2>2. k < q => m * k + m <= m * q
    BY <1>2, <1>3, <1>4, Smaller
  <2>3. m * k <= m * q
    BY <1>2, <1>7, <2>1, <2>2
  <2> QED
    BY <1>0, <1>2, <1>3, <1>4, <1>7, <2>3
<1>9. m * q + m <= m * k
  BY <1>2, <1>3, <1>4, <1>8, Smaller
<1>10. -1 < q
  <2> SUFFICES ASSUME q <= -1 PROVE FALSE
    BY <1>3
  <2>1. q < 0
    BY <1>3
  <2>2. m * q + m <= m * 0
    BY <1>2, <1>3, <2>1, Smaller
  <2> QED
    BY <1>0, <1>2, <1>3, <1>7, <2>2
<1>11. m * q >= 0
  BY <1>2, <1>3, <1>10
<1> QED
  BY <1>0, <1>2, <1>4, <1>5, <1>6, <1>7, <1>9, <1>11 DEF Rev

Log == [1..Slots -> Slot]
Disk == [Blocks -> [rev : Rev, log : Log]]
Flip(p) == <<p[2], p[1]>>
Both(p) == {p[1], p[2]}

-----------------------------------------------------------------------------
(* What a log holds.                                                       *)

LEMMA PairKinds ==
  ASSUME NEW p \in Pair
  PROVE  /\ p[1] \in Blocks /\ p[2] \in Blocks /\ p = <<p[1], p[2]>>
         /\ p # Nil /\ p # <<Keep>> /\ Flip(p) \in Pair /\ Flip(Flip(p)) = p
  BY DEF Pair, Nil, Flip

LEMMA NilKeep == Nil # <<Keep>>
  BY DEF Nil

(* The commits of a log: as many as are valid from the first on.           *)
LEMMA CommitsAre ==
  ASSUME NEW log \in Log
  PROVE  /\ Commits(log) \in 0..Slots
         /\ \A i \in 1..Commits(log) : Valid(log, i)
         /\ Commits(log) < Slots => ~Valid(log, Commits(log) + 1)
<1> DEFINE S == {n \in 0..Slots : \A i \in 1..n : Valid(log, i)}
<1>0. Slots \in Nat /\ S \in SUBSET (0..Slots) /\ 0 \in S
  BY Geometry
<1>1. Commits(log) = Max(S)
  BY DEF Commits
<1>2. Max(S) \in S /\ \A y \in S : y <= Max(S)
  <2> HIDE DEF S
  <2> QED
    BY <1>0, GreatestNumber
<1>3. ASSUME Max(S) < Slots, Valid(log, Max(S) + 1) PROVE FALSE
  <2> DEFINE m == Max(S)
  <2>1. m \in 0..Slots /\ \A i \in 1..m : Valid(log, i)
    BY <1>2
  <2> HIDE DEF m
  <2>2. m + 1 \in S
    <3>1. \A i \in 1..(m + 1) : i \in 1..m \/ i = m + 1
      BY <2>1
    <3> QED
      BY <1>0, <1>3, <2>1, <3>1 DEF m
  <2> HIDE DEF S
  <2>3. m + 1 <= m
    BY <1>2, <2>2 DEF m
  <2> QED
    BY <2>1, <2>3
<1> QED
  BY <1>1, <1>2, <1>3

LEMMA CommitsIs ==
  ASSUME NEW log \in Log, NEW n \in 0..Slots,
         \A i \in 1..n : Valid(log, i), n < Slots => ~Valid(log, n + 1)
  PROVE  Commits(log) = n
<1> DEFINE m == Commits(log)
<1>0. Slots \in Nat
  BY Geometry
<1>1. m \in 0..Slots /\ (\A i \in 1..m : Valid(log, i)) /\ (m < Slots => ~Valid(log, m + 1))
  BY CommitsAre
<1> HIDE DEF m
<1>2. ~(m < n)
  BY <1>0, <1>1
<1>3. ~(n < m)
  BY <1>0, <1>1
<1> QED
  BY <1>0, <1>1, <1>2, <1>3 DEF m

LEMMA LatestTyped ==
  ASSUME NEW log \in Log, NEW n \in 0..Slots, NEW x \in Names
  PROVE  Latest(log, n, x) \in Values \cup {Gone}
<1> DEFINE S == {i \in 1..n : log[i].put[x] # Keep}
<1>0. Slots \in Nat /\ n \in Nat
  BY Geometry
<1>1. CASE S = {}
  BY <1>1 DEF Latest
<1>2. CASE S # {}
  <2>1. S \in SUBSET (0..n)
    BY <1>0
  <2>2. Max(S) \in S
    <3> HIDE DEF S
    <3> QED
      BY <1>0, <1>2, <2>1, GreatestNumber
  <2>3. Latest(log, n, x) = log[Max(S)].put[x]
    BY <1>2 DEF Latest
  <2>4. Max(S) \in 1..Slots /\ log[Max(S)].put[x] # Keep
    BY <1>0, <2>2
  <2> HIDE DEF S
  <2>5. log[Max(S)].put[x] \in Values \cup {Gone, Keep}
    BY <2>4 DEF Log, Slot
  <2> QED
    BY <2>3, <2>4, <2>5
<1> QED
  BY <1>1, <1>2

LEMMA LatestTailTyped ==
  ASSUME NEW log \in Log, NEW n \in 0..Slots
  PROVE  LatestTail(log, n) \in Pair \cup {Nil}
<1> DEFINE S == {i \in 1..n : log[i].tail # <<Keep>>}
<1>0. Slots \in Nat /\ n \in Nat
  BY Geometry
<1>1. CASE S = {}
  BY <1>1 DEF LatestTail
<1>2. CASE S # {}
  <2>1. S \in SUBSET (0..n)
    BY <1>0
  <2>2. Max(S) \in S
    <3> HIDE DEF S
    <3> QED
      BY <1>0, <1>2, <2>1, GreatestNumber
  <2>3. LatestTail(log, n) = log[Max(S)].tail
    BY <1>2, SMTT(60) DEF LatestTail
  <2>4. Max(S) \in 1..Slots /\ log[Max(S)].tail # <<Keep>>
    BY <1>0, <2>2
  <2> HIDE DEF S
  <2>5. log[Max(S)].tail \in Pair \cup {Nil, <<Keep>>}
    BY <2>4 DEF Log, Slot
  <2> QED
    BY <2>3, <2>4, <2>5
<1> QED
  BY <1>1, <1>2

(* One more commit: what it puts, or what was there.                       *)
LEMMA GreatestAdded ==
  ASSUME NEW n \in Nat, NEW S \in SUBSET (1..n)
  PROVE  Max(S \cup {n + 1}) = n + 1
<1> DEFINE T == S \cup {n + 1}
<1>1. T \in SUBSET (0..(n + 1)) /\ T # {} /\ n + 1 \in T
  OBVIOUS
<1>2. Max(T) \in T /\ \A y \in T : y <= Max(T)
  <2>1. n + 1 \in Nat
    OBVIOUS
  <2> HIDE DEF T
  <2> QED
    BY <1>1, <2>1, GreatestNumber
<1>3. \A t \in T : t \in 1..(n + 1)
  OBVIOUS
<1>4. Max(T) \in 1..(n + 1) /\ n + 1 <= Max(T)
  <2> HIDE DEF T
  <2> QED
    BY <1>1, <1>2, <1>3
<1> QED
  BY <1>4

Agree(log, new, n) == \A i \in 1..n : new[i] = log[i]

LEMMA LatestAdded ==
  ASSUME NEW log, NEW new, NEW n \in Nat, NEW k, k = n + 1, NEW x, Agree(log, new, n)
  PROVE  Latest(new, k, x) =
           IF new[k].put[x] = Keep THEN Latest(log, n, x) ELSE new[k].put[x]
<1> DEFINE S == {i \in 1..n : log[i].put[x] # Keep}
           T == {i \in 1..(n + 1) : new[i].put[x] # Keep}
<1>0. \A i \in 1..n : new[i] = log[i]
  BY DEF Agree
<1>1. \A i : i \in 1..(n + 1) <=> (i \in 1..n \/ i = n + 1)
  OBVIOUS
<1>2. CASE new[n + 1].put[x] = Keep
  <2>1. T = S
    BY <1>0, <1>1, <1>2
  <2>2. S # {} => Max(S) \in 1..n
    <3>1. S # {} => Max(S) \in S
      <4>1. S \in SUBSET (0..n)
        OBVIOUS
      <4> HIDE DEF S
      <4> QED
        BY <4>1, GreatestNumber
    <3> QED
      BY <3>1
  <2>3. Latest(new, n + 1, x) = IF T = {} THEN Gone ELSE new[Max(T)].put[x]
    BY DEF Latest
  <2>4. Latest(log, n, x) = IF S = {} THEN Gone ELSE log[Max(S)].put[x]
    BY DEF Latest
  <2> HIDE DEF S, T
  <2> QED
    BY <1>0, <1>2, <2>1, <2>2, <2>3, <2>4
<1>3. CASE new[n + 1].put[x] # Keep
  <2>1. T = S \cup {n + 1}
    BY <1>0, <1>1, <1>3
  <2>2. Max(S \cup {n + 1}) = n + 1
    BY GreatestAdded
  <2>3. Latest(new, n + 1, x) = IF T = {} THEN Gone ELSE new[Max(T)].put[x]
    BY DEF Latest
  <2> HIDE DEF S, T
  <2> QED
    BY <1>3, <2>1, <2>2, <2>3
<1> QED
  BY <1>2, <1>3

LEMMA LatestTailAdded ==
  ASSUME NEW log, NEW new, NEW n \in Nat, NEW k, k = n + 1, Agree(log, new, n)
  PROVE  LatestTail(new, k) =
           IF new[k].tail = <<Keep>> THEN LatestTail(log, n) ELSE new[k].tail
<1> DEFINE S == {i \in 1..n : log[i].tail # <<Keep>>}
           T == {i \in 1..(n + 1) : new[i].tail # <<Keep>>}
<1>0. \A i \in 1..n : new[i] = log[i]
  BY DEF Agree
<1>1. \A i : i \in 1..(n + 1) <=> (i \in 1..n \/ i = n + 1)
  OBVIOUS
<1>2. CASE new[n + 1].tail = <<Keep>>
  <2>1. T = S
    BY <1>0, <1>1, <1>2
  <2>2. S # {} => Max(S) \in 1..n
    <3>1. S # {} => Max(S) \in S
      <4>1. S \in SUBSET (0..n)
        OBVIOUS
      <4> HIDE DEF S
      <4> QED
        BY <4>1, GreatestNumber
    <3> QED
      BY <3>1
  <2>3. LatestTail(new, n + 1) = IF T = {} THEN Nil ELSE new[Max(T)].tail
    BY DEF LatestTail
  <2>4. LatestTail(log, n) = IF S = {} THEN Nil ELSE log[Max(S)].tail
    BY DEF LatestTail
  <2> HIDE DEF S, T
  <2> QED
    BY <1>0, <1>2, <2>1, <2>2, <2>3, <2>4
<1>3. CASE new[n + 1].tail # <<Keep>>
  <2>1. T = S \cup {n + 1}
    BY <1>0, <1>1, <1>3
  <2>2. Max(S \cup {n + 1}) = n + 1
    BY GreatestAdded
  <2>3. LatestTail(new, n + 1) = IF T = {} THEN Nil ELSE new[Max(T)].tail
    BY DEF LatestTail
  <2> HIDE DEF S, T
  <2> QED
    BY <1>3, <2>1, <2>2, <2>3
<1> QED
  BY <1>2, <1>3

LEMMA LatestOfNone ==
  ASSUME NEW log, NEW x
  PROVE  Latest(log, 0, x) = Gone /\ LatestTail(log, 0) = Nil
  BY DEF Latest, LatestTail

(* What is left of a log does not depend on what lies behind its commits.  *)
LEMMA LatestSame ==
  ASSUME NEW log, NEW new, NEW n \in Nat,
         \A i \in 1..n : new[i] = log[i]
  PROVE  /\ \A x : Latest(new, n, x) = Latest(log, n, x)
         /\ LatestTail(new, n) = LatestTail(log, n)
<1>1. ASSUME NEW x PROVE Latest(new, n, x) = Latest(log, n, x)
  <2> DEFINE S == {i \in 1..n : log[i].put[x] # Keep}
             T == {i \in 1..n : new[i].put[x] # Keep}
  <2>1. T = S
    OBVIOUS
  <2>2. S # {} => Max(S) \in 1..n
    <3>1. S # {} => Max(S) \in S
      <4>1. S \in SUBSET (0..n)
        OBVIOUS
      <4> HIDE DEF S
      <4> QED
        BY <4>1, GreatestNumber
    <3> QED
      BY <3>1
  <2>3. Latest(new, n, x) = IF T = {} THEN Gone ELSE new[Max(T)].put[x]
    BY DEF Latest
  <2>4. Latest(log, n, x) = IF S = {} THEN Gone ELSE log[Max(S)].put[x]
    BY DEF Latest
  <2> HIDE DEF S, T
  <2> QED
    BY <2>1, <2>2, <2>3, <2>4
<1>2. LatestTail(new, n) = LatestTail(log, n)
  <2> DEFINE S == {i \in 1..n : log[i].tail # <<Keep>>}
             T == {i \in 1..n : new[i].tail # <<Keep>>}
  <2>1. T = S
    OBVIOUS
  <2>2. S # {} => Max(S) \in 1..n
    <3>1. S # {} => Max(S) \in S
      <4>1. S \in SUBSET (0..n)
        OBVIOUS
      <4> HIDE DEF S
      <4> QED
        BY <4>1, GreatestNumber
    <3> QED
      BY <3>1
  <2>3. LatestTail(new, n) = IF T = {} THEN Nil ELSE new[Max(T)].tail
    BY DEF LatestTail
  <2>4. LatestTail(log, n) = IF S = {} THEN Nil ELSE log[Max(S)].tail
    BY DEF LatestTail
  <2> HIDE DEF S, T
  <2> QED
    BY <2>1, <2>2, <2>3, <2>4
<1> QED
  BY <1>1, <1>2

-----------------------------------------------------------------------------
(* What fetching a pair finds.                                             *)

PhaseOf(log) == IF Commits(log) = 0 THEN 1 ELSE log[Commits(log)].phase

(* A pair whose first block is in force.                                   *)
Loaded(d, p) ==
  [pair |-> p, rev |-> d[p[1]].rev,
   entries |-> [x \in Names |-> Latest(d[p[1]].log, Commits(d[p[1]].log), x)],
   tail |-> LatestTail(d[p[1]].log, Commits(d[p[1]].log)),
   off |-> Commits(d[p[1]].log), phase |-> PhaseOf(d[p[1]].log),
   erased |-> /\ Commits(d[p[1]].log) \in 1..(Slots - 1)
              /\ d[p[1]].log[Commits(d[p[1]].log) + 1].lead # PhaseOf(d[p[1]].log)
              /\ d[p[1]].log[Commits(d[p[1]].log) + 1].fresh]

FirstInForce(d, p) ==
  IF Newer(d[p[2]].rev, d[p[1]].rev) THEN Commits(d[p[2]].log) = 0
                                     ELSE Commits(d[p[1]].log) > 0

(* A pair is read from one of its blocks, or has no commit.                *)
LEMMA FetchIs ==
  ASSUME NEW d \in Disk, NEW p \in Pair
  PROVE  Fetch(d, p) = Loaded(d, IF FirstInForce(d, p) THEN p ELSE Flip(p))
<1>0. p[1] \in Blocks /\ p[2] \in Blocks /\ p = <<p[1], p[2]>>
  BY PairKinds
<1>1. d[p[1]].log \in Log /\ d[p[2]].log \in Log
  BY <1>0 DEF Disk
<1>2. Commits(d[p[1]].log) \in 0..Slots /\ Commits(d[p[2]].log) \in 0..Slots
  BY <1>1, CommitsAre
<1> DEFINE r == IF Newer(d[p[2]].rev, d[p[1]].rev) THEN 2 ELSE 1
           a == IF Commits(d[p[r]].log) > 0 THEN r ELSE 3 - r
           log == d[p[a]].log
           n == Commits(log)
           q == <<p[a], p[3 - a]>>
<1>3. Fetch(d, p) = [pair |-> q, rev |-> d[p[a]].rev,
                     entries |-> [x \in Names |-> Latest(log, n, x)],
                     tail |-> LatestTail(log, n), off |-> n, phase |-> PhaseOf(log),
                     erased |-> /\ n \in 1..(Slots - 1) /\ log[n + 1].lead # PhaseOf(log)
                                /\ log[n + 1].fresh]
  BY Zenon DEF Fetch, PhaseOf
<1>4. Fetch(d, p) = Loaded(d, q)
  <2>1. q[1] = p[a]
    OBVIOUS
  <2> HIDE DEF a, q, r
  <2> QED
    BY <1>3, <2>1 DEF Loaded
<1>5. CASE FirstInForce(d, p)
  <2>1. a = 1
    BY <1>2, <1>5 DEF FirstInForce
  <2> HIDE DEF a
  <2> QED
    BY <1>0, <1>4, <1>5, <2>1
<1>6. CASE ~FirstInForce(d, p)
  <2>1. a = 2
    BY <1>2, <1>6 DEF FirstInForce
  <2> HIDE DEF a
  <2> QED
    BY <1>0, <1>4, <1>6, <2>1 DEF Flip
<1> QED
  BY <1>5, <1>6

-----------------------------------------------------------------------------
(* What is loaded from a pair is an mdir.                                  *)
LEMMA LoadedTyped ==
  ASSUME NEW d \in Disk, NEW p \in Pair
  PROVE  Loaded(d, p) \in Mdir
<1>0. p[1] \in Blocks
  BY PairKinds
<1>1. d[p[1]].log \in Log /\ d[p[1]].rev \in Rev
  BY <1>0 DEF Disk
<1> DEFINE log == d[p[1]].log
           n == Commits(log)
<1>2. n \in 0..Slots
  BY <1>1, CommitsAre
<1>3. PhaseOf(log) \in 0..1
  <2> HIDE DEF log
  <2>1. log \in Log
    BY <1>1 DEF log
  <2>2. CASE n = 0
    BY <2>2 DEF PhaseOf
  <2>3. CASE n # 0
    <3>1. n \in 1..Slots
      BY <1>2, <2>3, Geometry
    <3>2. log[n] \in Slot
      BY <2>1, <3>1 DEF Log
    <3>3. log[n].phase \in 0..1
      BY <3>2 DEF Slot
    <3> QED
      BY <2>3, <3>3 DEF PhaseOf
  <2> QED
    BY <2>2, <2>3
<1>4. [x \in Names |-> Latest(log, n, x)] \in [Names -> Values \cup {Gone}]
  BY <1>1, <1>2, LatestTyped
<1>5. LatestTail(log, n) \in Pair \cup {Nil}
  BY <1>1, <1>2, LatestTailTyped
<1>6. (n \in 1..(Slots - 1) /\ log[n + 1].lead # PhaseOf(log) /\ log[n + 1].fresh) \in BOOLEAN
  <2>1. CASE n \in 1..(Slots - 1)
    <3>1. n + 1 \in 1..Slots
      BY <2>1, Geometry
    <3>2. log[n + 1] \in Slot
      BY <1>1, <3>1 DEF Log
    <3>3. log[n + 1].fresh \in BOOLEAN
      BY <3>2 DEF Slot
    <3> HIDE DEF log, n
    <3> QED
      BY <3>3
  <2>2. CASE n \notin 1..(Slots - 1)
    BY <2>2
  <2> QED
    BY <2>1, <2>2
<1>7. Loaded(d, p) = [pair |-> p, rev |-> d[p[1]].rev,
                      entries |-> [x \in Names |-> Latest(log, n, x)],
                      tail |-> LatestTail(log, n), off |-> n, phase |-> PhaseOf(log),
                      erased |-> (n \in 1..(Slots - 1) /\ log[n + 1].lead # PhaseOf(log)
                                  /\ log[n + 1].fresh)]
  BY Zenon DEF Loaded
<1> HIDE DEF log, n
<1> QED
  BY <1>1, <1>2, <1>3, <1>4, <1>5, <1>6, <1>7 DEF Mdir

(* A pair is read the same way from either of its blocks, and has a commit. *)
Reads(d, p, m) ==
  /\ p \in Pair /\ p[1] # p[2]
  /\ m = Fetch(d, p) /\ m = Fetch(d, Flip(p)) /\ m.off > 0

(* Block a of a pair is the one in force, and b is not.                    *)
Rules(d, a, b) ==
  /\ Commits(d[a].log) > 0
  /\ Commits(d[b].log) = 0 \/ Newer(d[a].rev, d[b].rev)

LEMMA LoadedFields ==
  ASSUME NEW d, NEW p
  PROVE  /\ Loaded(d, p).pair = p /\ Loaded(d, p).rev = d[p[1]].rev
         /\ Loaded(d, p).off = Commits(d[p[1]].log)
         /\ Loaded(d, p).tail = LatestTail(d[p[1]].log, Commits(d[p[1]].log))
         /\ Loaded(d, p).entries = [x \in Names |-> Latest(d[p[1]].log, Commits(d[p[1]].log), x)]
         /\ Loaded(d, p).phase = PhaseOf(d[p[1]].log)
  BY DEF Loaded

LEMMA CommitsNat ==
  ASSUME NEW d \in Disk, NEW a \in Blocks
  PROVE  d[a].log \in Log /\ d[a].rev \in Rev /\ Commits(d[a].log) \in Nat
<1>1. d[a].log \in Log /\ d[a].rev \in Rev
  BY DEF Disk
<1>2. Commits(d[a].log) \in 0..Slots
  BY <1>1, CommitsAre
<1> QED
  BY <1>1, <1>2, Geometry

(* A pair is read from the block in force.                                 *)
LEMMA RuledReads ==
  ASSUME NEW d \in Disk, NEW a \in Blocks, NEW b \in Blocks, a # b, Rules(d, a, b)
  PROVE  Reads(d, <<a, b>>, Loaded(d, <<a, b>>)) /\ Reads(d, <<b, a>>, Loaded(d, <<a, b>>))
<1> DEFINE p == <<a, b>>
           q == <<b, a>>
<1>1. p \in Pair /\ q \in Pair /\ Flip(p) = q /\ Flip(q) = p
      /\ p[1] = a /\ p[2] = b /\ q[1] = b /\ q[2] = a
  BY DEF Pair, Flip
<1>2. d[a].rev \in Rev /\ d[b].rev \in Rev /\ Commits(d[a].log) \in Nat /\ Commits(d[b].log) \in Nat
  BY CommitsNat
<1>3. Newer(d[a].rev, d[b].rev) => ~Newer(d[b].rev, d[a].rev)
  BY <1>2, NewerOneWay
<1> HIDE DEF p, q
<1>4. FirstInForce(d, p)
  BY <1>1, <1>2, <1>3 DEF FirstInForce, Rules
<1>5. ~FirstInForce(d, q)
  BY <1>1, <1>2, <1>3 DEF FirstInForce, Rules
<1>6. Fetch(d, p) = Loaded(d, p)
  BY <1>1, <1>4, FetchIs
<1>7. Fetch(d, q) = Loaded(d, p)
  BY <1>1, <1>5, FetchIs
<1>8. Loaded(d, p).off > 0
  BY <1>1 DEF Rules, Loaded
<1>9. Reads(d, p, Loaded(d, p)) /\ Reads(d, q, Loaded(d, p))
  BY <1>1, <1>6, <1>7, <1>8 DEF Reads
<1> QED
  BY <1>9 DEF p, q

(* What is read of a pair comes from its block in force.                   *)
LEMMA ReadsRuled ==
  ASSUME NEW d \in Disk, NEW p, NEW m, Reads(d, p, m)
  PROVE  /\ m \in Mdir /\ m.pair \in Pair /\ m.pair[1] # m.pair[2]
         /\ m.pair = p \/ m.pair = Flip(p)
         /\ m.pair[1] \in Blocks /\ m.pair[2] \in Blocks /\ m.pair = <<m.pair[1], m.pair[2]>>
         /\ m = Loaded(d, m.pair)
         /\ Rules(d, m.pair[1], m.pair[2])
<1>0. p \in Pair /\ p[1] # p[2] /\ m = Fetch(d, p) /\ m = Fetch(d, Flip(p)) /\ m.off > 0
  BY DEF Reads
<1> DEFINE q == Flip(p)
<1>1. p[1] \in Blocks /\ p[2] \in Blocks /\ q \in Pair /\ Flip(q) = p
      /\ q[1] = p[2] /\ q[2] = p[1] /\ p # q /\ p = <<p[1], p[2]>> /\ q = <<q[1], q[2]>>
  BY <1>0, PairKinds DEF Flip
<1>2. Commits(d[p[1]].log) \in Nat /\ Commits(d[p[2]].log) \in Nat
  BY <1>1, CommitsNat
<1> HIDE DEF q
<1>3. m = Loaded(d, IF FirstInForce(d, p) THEN p ELSE q)
  BY <1>0, FetchIs DEF q
<1>4. m = Loaded(d, IF FirstInForce(d, q) THEN q ELSE p)
  BY <1>0, <1>1, FetchIs DEF q
<1>5. CASE FirstInForce(d, p)
  <2>1. m = Loaded(d, p)
    BY <1>3, <1>5
  <2>2. m.pair = p /\ m.off = Commits(d[p[1]].log)
    BY <2>1 DEF Loaded
  <2>3. ~FirstInForce(d, q)
    <3>1. Loaded(d, q).pair = q
      BY DEF Loaded
    <3> QED
      BY <1>1, <1>4, <2>2, <3>1
  <2>4. Rules(d, p[1], p[2])
    BY <1>0, <1>1, <1>2, <2>2, <2>3 DEF Rules, FirstInForce
  <2>5. m \in Mdir
    BY <1>0, <2>1, LoadedTyped
  <2> QED
    BY <1>0, <1>1, <2>1, <2>2, <2>4, <2>5
<1>6. CASE ~FirstInForce(d, p)
  <2>1. m = Loaded(d, q)
    BY <1>3, <1>6
  <2>2. m.pair = q /\ m.off = Commits(d[q[1]].log)
    BY <2>1 DEF Loaded
  <2>4. Rules(d, q[1], q[2])
    BY <1>0, <1>1, <1>2, <2>2, <1>6 DEF Rules, FirstInForce
  <2>5. m \in Mdir
    BY <1>1, <2>1, LoadedTyped
  <2> QED
    BY <1>0, <1>1, <2>1, <2>2, <2>4, <2>5 DEF q
<1> QED
  BY <1>5, <1>6

(* The same pair from its other block, and from the one in force.          *)
LEMMA ReadsEitherWay ==
  ASSUME NEW d \in Disk, NEW p, NEW m, Reads(d, p, m)
  PROVE  Reads(d, m.pair, m) /\ Reads(d, Flip(m.pair), m)
<1>1. Reads(d, p, m) /\ p \in Pair /\ Flip(Flip(p)) = p /\ Flip(p) \in Pair
  BY PairKinds DEF Reads
<1>2. Reads(d, Flip(p), m)
  BY <1>1 DEF Reads, Flip
<1>3. m.pair = p \/ m.pair = Flip(p)
  BY ReadsRuled
<1> QED
  BY <1>1, <1>2, <1>3

(* What is read depends on the two blocks only.                            *)
LEMMA ReadsUnharmed ==
  ASSUME NEW d \in Disk, NEW e \in Disk, NEW p, NEW m, Reads(d, p, m),
         e[p[1]] = d[p[1]], e[p[2]] = d[p[2]]
  PROVE  Reads(e, p, m)
<1>0. p \in Pair /\ Flip(p) \in Pair /\ Flip(p)[1] = p[2] /\ Flip(p)[2] = p[1]
  BY PairKinds DEF Reads, Flip
<1>1. FirstInForce(e, p) = FirstInForce(d, p) /\ FirstInForce(e, Flip(p)) = FirstInForce(d, Flip(p))
  BY <1>0 DEF FirstInForce
<1>2. Loaded(e, p) = Loaded(d, p) /\ Loaded(e, Flip(p)) = Loaded(d, Flip(p))
  BY <1>0 DEF Loaded
<1>3. Fetch(e, p) = Fetch(d, p)
  BY <1>0, <1>1, <1>2, FetchIs
<1>4. Fetch(e, Flip(p)) = Fetch(d, Flip(p))
  BY <1>0, <1>1, <1>2, FetchIs, PairKinds
<1> QED
  BY <1>3, <1>4 DEF Reads

(* A write to the block not in force that comes to nothing.                *)
LEMMA ReadsPastTorn ==
  ASSUME NEW d \in Disk, NEW e \in Disk, NEW p, NEW m, Reads(d, p, m),
         e[m.pair[1]] = d[m.pair[1]], Commits(e[m.pair[2]].log) = 0
  PROVE  Reads(e, p, m)
<1> DEFINE a == m.pair[1]
           b == m.pair[2]
<1>1. a \in Blocks /\ b \in Blocks /\ a # b /\ m.pair = <<a, b>> /\ Rules(d, a, b)
      /\ m = Loaded(d, <<a, b>>) /\ (m.pair = p \/ m.pair = Flip(p))
  BY ReadsRuled
<1>2. p = <<a, b>> \/ p = <<b, a>>
  BY <1>1, PairKinds DEF Flip, Reads
<1>3. Rules(e, a, b)
  BY <1>1, SMTT(60) DEF Rules
<1>4. Loaded(e, <<a, b>>) = Loaded(d, <<a, b>>)
  BY DEF Loaded
<1> HIDE DEF a, b
<1>5. Reads(e, <<a, b>>, m) /\ Reads(e, <<b, a>>, m)
  BY <1>1, <1>3, <1>4, RuledReads
<1> QED
  BY <1>2, <1>5

Puts == [Names -> Values \cup {Gone, Keep}]
Tails == Pair \cup {Nil, <<Keep>>}

LEMMA BadIsSlot ==
  ASSUME NEW lead \in 0..1
  PROVE  Bad(lead) \in Slot /\ Bad(lead).good = FALSE /\ Bad(lead).lead = lead
         /\ Bad(lead).put = Nothing /\ Bad(lead).tail = <<Keep>>
<1>1. Nothing \in Puts
  BY DEF Nothing, Puts
<1> QED
  BY <1>1 DEF Bad, Slot, Puts

LEMMA ExpectedIs ==
  ASSUME NEW log \in Log, NEW i \in 1..Slots
  PROVE  Expected(log, i) \in 0..1
<1>1. CASE i = 1
  BY <1>1 DEF Expected
<1>2. CASE i # 1
  <2>1. i - 1 \in 1..Slots
    BY <1>2, Geometry
  <2>2. log[i - 1] \in Slot
    BY <2>1 DEF Log
  <2>3. log[i - 1].phase \in 0..1
    BY <2>2 DEF Slot
  <2> QED
    BY <1>2, <2>3 DEF Expected
<1> QED
  BY <1>1, <1>2

(* A slot that is no good ends the log there.                              *)
LEMMA CommitsBefore ==
  ASSUME NEW log \in Log, NEW new \in Log, NEW n \in 0..Slots,
         \A i \in 1..n : new[i] = log[i], \A i \in 1..n : Valid(log, i),
         n < Slots => ~Valid(new, n + 1)
  PROVE  Commits(new) = n
<1>1. ASSUME NEW i \in 1..n PROVE Valid(new, i)
  <2>1. Valid(log, i) /\ new[i] = log[i]
    OBVIOUS
  <2>2. i # 1 => i - 1 \in 1..n
    BY Geometry
  <2>3. i # 1 => new[i - 1] = log[i - 1]
    BY <2>2
  <2>4. Expected(new, i) = Expected(log, i)
    BY <2>3 DEF Expected
  <2> QED
    BY <2>1, <2>4 DEF Valid
<1> QED
  BY <1>1, CommitsIs

(* A commit in slot i of a log: good, and nothing behind it is taken for   *)
(* one, whatever lies there.                                               *)
LEMMA WithCommitIs ==
  ASSUME NEW log \in Log, NEW i \in 1..Slots, NEW put \in Puts, NEW tail \in Tails,
         NEW new, new = WithCommit(log, i, put, tail)
  PROVE  /\ new \in Log
         /\ \A j \in 1..(i - 1) : new[j] = log[j]
         /\ new[i].put = put /\ new[i].tail = tail /\ Valid(new, i)
         /\ i < Slots => ~Valid(new, i + 1)
<1>0. Slots \in Nat /\ i \in Nat
  BY Geometry
<1> DEFINE S == [lead |-> Expected(log, i), good |-> TRUE, phase |-> Perturb(log, i),
                 fresh |-> FALSE, put |-> put, tail |-> tail]
<1>1. Perturb(log, i) \in 0..1
  <2>1. i < Slots => i + 1 \in 1..Slots
    BY <1>0
  <2>2. i < Slots => log[i + 1].lead \in 0..1
    BY <2>1 DEF Log, Slot
  <2> QED
    BY <2>2 DEF Perturb
<1>2. S \in Slot
  BY <1>1, ExpectedIs DEF Slot, Puts, Tails
<1>3. \A j \in 1..Slots : [log[j] EXCEPT !.fresh = TRUE] \in Slot
  BY DEF Log, Slot
<1>4. new = [j \in 1..Slots |-> IF j = i THEN S
                                ELSE IF j = i + 1 THEN [log[j] EXCEPT !.fresh = TRUE] ELSE log[j]]
  BY Zenon DEF WithCommit
<1>5. new \in Log
  <2> HIDE DEF S
  <2> QED
    BY <1>2, <1>3, <1>4 DEF Log
<1>6. \A j \in 1..(i - 1) : new[j] = log[j]
  <2> HIDE DEF S
  <2> QED
    BY <1>0, <1>4
<1>7. new[i] = S
  BY <1>4
<1>8. i # 1 => new[i - 1] = log[i - 1]
  BY <1>0, <1>6
<1>9. Expected(new, i) = Expected(log, i)
  BY <1>8 DEF Expected
<1>10. new[i].put = put /\ new[i].tail = tail /\ Valid(new, i)
  BY <1>7, <1>9 DEF Valid
<1>11. ASSUME i < Slots PROVE ~Valid(new, i + 1)
  <2>1. new[i + 1] = [log[i + 1] EXCEPT !.fresh = TRUE]
    <3> HIDE DEF S
    <3> QED
      BY <1>0, <1>4, <1>11
  <2>2. i + 1 \in 1..Slots /\ log[i + 1] \in Slot
    BY <1>0, <1>11 DEF Log
  <2>3. new[i + 1].lead = log[i + 1].lead /\ log[i + 1].lead \in 0..1
    BY <2>1, <2>2 DEF Slot
  <2>4. Expected(new, i + 1) = 1 - log[i + 1].lead
    <3>1. i + 1 # 1 /\ (i + 1) - 1 = i
      BY <1>0
    <3>2. Expected(new, i + 1) = new[i].phase
      BY <3>1 DEF Expected
    <3> QED
      BY <1>7, <1>11, <3>2 DEF Perturb
  <2> QED
    BY <2>3, <2>4 DEF Valid
<1> QED
  BY <1>5, <1>6, <1>10, <1>11

(* A compacted block holds one commit, with all of the mdir.               *)
LEMMA CompactedIs ==
  ASSUME NEW m \in Mdir, NEW log \in Log, NEW new, new = Compacted(m, log)
  PROVE  /\ new \in Log /\ Commits(new) = 1
         /\ new[1].put = [x \in Names |-> IF x \in Present(m) THEN m.entries[x] ELSE Keep]
         /\ new[1].tail = m.tail
<1> DEFINE whole == Cardinality(Present(m)) > Half
           put == [x \in Names |-> IF x \in Present(m) THEN m.entries[x] ELSE Keep]
           over == IF whole THEN [j \in 1..Slots |-> Bad(0)] ELSE log
           one == WithCommit(over, 1, put, m.tail)
<1>0. Slots \in Nat /\ Slots >= 2 /\ 1 \in 1..Slots /\ 2 \in 1..Slots /\ 1 \in 0..Slots
  BY Geometry
<1>1. put \in Puts /\ m.tail \in Tails
  BY DEF Mdir, Puts, Tails
<1>2. [j \in 1..Slots |-> Bad(0)] \in Log
  BY BadIsSlot DEF Log
<1>3. over \in Log
  BY <1>2
<1>4. new = IF whole THEN [one EXCEPT ![1].phase = 0, ![2].fresh = FALSE] ELSE one
  BY Zenon DEF Compacted
<1> HIDE DEF over, put, whole
<1>5. /\ one \in Log /\ one[1].put = put /\ one[1].tail = m.tail /\ Valid(one, 1)
      /\ 1 < Slots => ~Valid(one, 1 + 1)
  <2> HIDE DEF one
  <2>1. one = WithCommit(over, 1, put, m.tail)
    BY DEF one
  <2> QED
    BY <1>0, <1>1, <1>3, <2>1, WithCommitIs
<1>6. CASE ~whole
  <2> HIDE DEF one
  <2>1. new = one
    BY <1>4, <1>6
  <2>2. \A i \in 1..1 : Valid(one, i)
    BY <1>5
  <2>3. Commits(one) = 1
    BY <1>0, <1>5, <2>2, CommitsIs
  <2> QED
    BY <1>5, <2>1, <2>3 DEF put
<1>7. CASE whole
  <2>0. over = [j \in 1..Slots |-> Bad(0)]
    BY <1>7 DEF over
  <2>1. one[2].good = FALSE
    <3>1. one[2] = [over[2] EXCEPT !.fresh = TRUE]
      BY <1>0 DEF WithCommit
    <3>2. over[2] = Bad(0)
      BY <1>0, <2>0
    <3> QED
      BY <3>1, <3>2, BadIsSlot DEF Bad
  <2> HIDE DEF one
  <2>2. one[1] \in Slot /\ one[2] \in Slot
    BY <1>0, <1>5 DEF Log
  <2>3. new = [one EXCEPT ![1].phase = 0, ![2].fresh = FALSE]
    BY <1>4, <1>7
  <2> DEFINE s1 == [one[1] EXCEPT !.phase = 0]
             s2 == [one[2] EXCEPT !.fresh = FALSE]
  <2>4. s1 \in Slot /\ s2 \in Slot
    <3>1. \A s \in Slot : [s EXCEPT !.phase = 0] \in Slot
      BY DEF Slot
    <3>2. \A s \in Slot : [s EXCEPT !.fresh = FALSE] \in Slot
      BY DEF Slot
    <3> QED
      BY <2>2, <3>1, <3>2
  <2>5. new = [one EXCEPT ![1] = s1, ![2] = s2]
    BY <2>3
  <2>6. /\ s1.put = one[1].put /\ s1.tail = one[1].tail
        /\ s1.good = one[1].good /\ s1.lead = one[1].lead
        /\ s2.good = one[2].good
    <3>1. \A s \in Slot : LET t == [s EXCEPT !.phase = 0]
                           IN t.put = s.put /\ t.tail = s.tail /\ t.good = s.good /\ t.lead = s.lead
      BY DEF Slot
    <3>2. \A s \in Slot : [s EXCEPT !.fresh = FALSE].good = s.good
      BY DEF Slot
    <3> QED
      BY <2>2, <3>1, <3>2
  <2> HIDE DEF s1, s2
  <2>7. new \in Log /\ new[1] = s1 /\ new[2] = s2
    BY <1>0, <1>5, <2>4, <2>5 DEF Log
  <2>8. Valid(new, 1)
    BY <1>5, <2>6, <2>7 DEF Valid, Expected
  <2>9. ~Valid(new, 2)
    BY <2>1, <2>6, <2>7 DEF Valid
  <2>10. (\A i \in 1..1 : Valid(new, i)) /\ (1 < Slots => ~Valid(new, 1 + 1))
    BY <2>8, <2>9
  <2>11. Commits(new) = 1
    BY <1>0, <2>7, <2>10, CommitsIs
  <2> QED
    BY <1>5, <2>6, <2>7, <2>11 DEF put
<1> QED
  BY <1>6, <1>7

-----------------------------------------------------------------------------
(* A compaction: block pair[2] is written and is in force.                 *)

Written(d, m) ==
  [d EXCEPT ![m.pair[2]] = [rev |-> m.rev, log |-> Compacted(m, @.log)]]

LEMMA WrittenIs ==
  ASSUME NEW d \in Disk, NEW m \in Mdir, NEW e, e = Written(d, m)
  PROVE  /\ e \in Disk
         /\ \A b \in Blocks : b # m.pair[2] => e[b] = d[b]
         /\ e[m.pair[2]] = [rev |-> m.rev, log |-> Compacted(m, d[m.pair[2]].log)]
<1>1. m.pair[2] \in Blocks /\ m.rev \in Rev
  BY PairKinds DEF Mdir
<1>2. d[m.pair[2]].log \in Log
  BY <1>1, CommitsNat
<1>3. Compacted(m, d[m.pair[2]].log) \in Log
  BY <1>2, CompactedIs
<1> DEFINE new == [rev |-> m.rev, log |-> Compacted(m, d[m.pair[2]].log)]
<1>4. new \in [rev : Rev, log : Log]
  BY <1>1, <1>3
<1>5. e = [d EXCEPT ![m.pair[2]] = new]
  BY DEF Written
<1> HIDE DEF new
<1>6. e \in Disk /\ (\A b \in Blocks : b # m.pair[2] => e[b] = d[b]) /\ e[m.pair[2]] = new
  BY <1>1, <1>4, <1>5 DEF Disk
<1> QED
  BY <1>6 DEF new

LEMMA LatestFirst ==
  ASSUME NEW log, NEW x
  PROVE  Latest(log, 1, x) = IF log[1].put[x] = Keep THEN Gone ELSE log[1].put[x]
<1> DEFINE S == {i \in 1..1 : log[i].put[x] # Keep}
<1>1. Latest(log, 1, x) = IF S = {} THEN Gone ELSE log[Max(S)].put[x]
  BY DEF Latest
<1>2. CASE log[1].put[x] = Keep
  <2>1. S = {}
    BY <1>2
  <2> QED
    BY <1>1, <1>2, <2>1
<1>3. CASE log[1].put[x] # Keep
  <2>1. S = {} \cup {0 + 1}
    BY <1>3
  <2>2. Max({} \cup {0 + 1}) = 0 + 1
    BY GreatestAdded
  <2> HIDE DEF S
  <2> QED
    BY <1>1, <1>3, <2>1, <2>2
<1> QED
  BY <1>2, <1>3

(* After a compaction the pair is read from the block that was not in      *)
(* force.                                                                  *)
LEMMA WrittenReads ==
  ASSUME NEW d \in Disk, NEW m \in Mdir, NEW e, e = Written(d, m),
         m.pair[1] # m.pair[2], Newer(m.rev, d[m.pair[1]].rev)
  PROVE  \E F \in Mdir :
           /\ Reads(e, m.pair, F) /\ Reads(e, Flip(m.pair), F)
           /\ F.pair = Flip(m.pair) /\ F.entries = m.entries /\ F.tail = m.tail /\ F.rev = m.rev
<1> DEFINE a == m.pair[1]
           b == m.pair[2]
           F == Loaded(e, <<b, a>>)
<1>1. a \in Blocks /\ b \in Blocks /\ m.pair = <<a, b>> /\ a # b /\ Flip(m.pair) = <<b, a>>
  BY PairKinds DEF Mdir, Flip
<1>2. e \in Disk /\ (\A x \in Blocks : x # b => e[x] = d[x])
      /\ e[b] = [rev |-> m.rev, log |-> Compacted(m, d[b].log)]
  BY WrittenIs
<1> DEFINE log == e[b].log
<1>3. log = Compacted(m, d[b].log) /\ e[b].rev = m.rev /\ e[a] = d[a] /\ d[b].log \in Log
  BY <1>1, <1>2, CommitsNat
<1>4. log \in Log /\ Commits(log) = 1 /\ log[1].tail = m.tail
      /\ log[1].put = [x \in Names |-> IF x \in Present(m) THEN m.entries[x] ELSE Keep]
  <2> HIDE DEF log
  <2> QED
    BY <1>3, CompactedIs
<1>5. Rules(e, b, a)
  BY <1>3, <1>4 DEF Rules
<1>6. Reads(e, <<b, a>>, F) /\ Reads(e, <<a, b>>, F)
  BY <1>1, <1>2, <1>5, RuledReads
<1>7. ASSUME NEW x \in Names PROVE Latest(log, 1, x) = m.entries[x]
  <2>1. Latest(log, 1, x) = IF log[1].put[x] = Keep THEN Gone ELSE log[1].put[x]
    BY LatestFirst
  <2>3. log[1].put[x] = IF x \in Present(m) THEN m.entries[x] ELSE Keep
    BY <1>4
  <2>4. m.entries[x] \in Values \cup {Gone}
    BY DEF Mdir
  <2>5. x \in Present(m) => m.entries[x] # Keep
    BY <2>4 DEF Present, Values, Gone, Keep
  <2>6. x \notin Present(m) => m.entries[x] = Gone
    BY DEF Present
  <2> HIDE DEF log
  <2> QED
    BY <2>1, <2>3, <2>5, <2>6
<1>8. LatestTail(log, 1) = m.tail
  <2>1. LatestTail(log, 1) = IF log[1].tail = <<Keep>> THEN LatestTail(log, 0) ELSE log[1].tail
    <3>1. Agree(log, log, 0)
      BY DEF Agree
    <3>2. 0 \in Nat /\ 1 = 0 + 1
      OBVIOUS
    <3> HIDE DEF log
    <3> QED
      BY <3>1, <3>2, LatestTailAdded
  <2>2. m.tail # <<Keep>>
    BY PairKinds, NilKeep DEF Mdir
  <2> HIDE DEF log
  <2> QED
    BY <1>4, <2>1, <2>2
<1>9. F.pair = <<b, a>> /\ F.rev = e[b].rev /\ F.tail = LatestTail(log, Commits(log))
      /\ F.entries = [x \in Names |-> Latest(log, Commits(log), x)]
  BY DEF Loaded
<1>10. F.entries = m.entries
  <2>1. F.entries = [x \in Names |-> Latest(log, 1, x)]
    BY <1>4, <1>9
  <2>2. m.entries = [x \in Names |-> m.entries[x]]
    BY DEF Mdir
  <2> HIDE DEF F, log
  <2> QED
    BY <1>7, <2>1, <2>2
<1>11. F \in Mdir
  BY <1>1, <1>2, LoadedTyped DEF Pair
<1> HIDE DEF F, log
<1>12. F.tail = m.tail /\ F.rev = m.rev
  BY <1>3, <1>4, <1>8, <1>9
<1> QED
  BY <1>1, <1>6, <1>9, <1>10, <1>11, <1>12

-----------------------------------------------------------------------------
(* An appended commit.                                                     *)

Appended(d, m, put, tail) ==
  [d EXCEPT ![m.pair[1]].log = WithCommit(@, m.off + 1, put, tail)]

ChangedEntries(m, put) == [x \in Names |-> IF put[x] = Keep THEN m.entries[x] ELSE put[x]]
ChangedTail(m, tail) == IF tail = <<Keep>> THEN m.tail ELSE tail

(* Reading goes on in the block in force after something behind its        *)
(* commits has changed.                                                    *)
LEMMA StillRules ==
  ASSUME NEW d \in Disk, NEW e \in Disk, NEW p, NEW m, Reads(d, p, m),
         e[m.pair[2]] = d[m.pair[2]], e[m.pair[1]].rev = d[m.pair[1]].rev,
         Commits(e[m.pair[1]].log) > 0
  PROVE  /\ Reads(e, p, Loaded(e, m.pair)) /\ Loaded(e, m.pair) \in Mdir
         /\ Loaded(e, m.pair).pair = m.pair /\ Loaded(e, m.pair).rev = m.rev
<1> DEFINE a == m.pair[1]
           b == m.pair[2]
<1>1. a \in Blocks /\ b \in Blocks /\ a # b /\ m.pair = <<a, b>> /\ Rules(d, a, b)
      /\ m = Loaded(d, <<a, b>>) /\ (m.pair = p \/ m.pair = Flip(p)) /\ m.pair \in Pair
  BY ReadsRuled
<1>2. p = <<a, b>> \/ p = <<b, a>>
  BY <1>1, PairKinds DEF Flip, Reads
<1>3. Rules(e, a, b)
  BY <1>1 DEF Rules
<1>4. Loaded(e, m.pair).pair = m.pair /\ Loaded(e, m.pair).rev = e[a].rev
  BY DEF Loaded
<1>5. m.rev = d[a].rev
  <2>1. Loaded(d, m.pair).rev = d[m.pair[1]].rev
    BY DEF Loaded
  <2> QED
    BY <1>1, <2>1
<1>6. Loaded(e, m.pair) \in Mdir
  BY <1>1, LoadedTyped
<1>7. e[a].rev = d[a].rev
  OBVIOUS
<1> HIDE DEF a, b
<1>8. Reads(e, <<a, b>>, Loaded(e, m.pair)) /\ Reads(e, <<b, a>>, Loaded(e, m.pair))
  BY <1>1, <1>3, RuledReads
<1> QED
  BY <1>2, <1>4, <1>5, <1>6, <1>7, <1>8

(* After an append the pair is read with what was put and the rest as      *)
(* before.                                                                 *)
LEMMA AppendedReads ==
  ASSUME NEW d \in Disk, NEW p, NEW m, Reads(d, p, m), m.erased,
         NEW put \in Puts, NEW tail \in Tails,
         NEW e, e = Appended(d, m, put, tail)
  PROVE  /\ e \in Disk
         /\ \A b \in Blocks : b # m.pair[1] => e[b] = d[b]
         /\ \E F \in Mdir :
              /\ Reads(e, p, F) /\ F.pair = m.pair /\ F.rev = m.rev
              /\ F.entries = ChangedEntries(m, put) /\ F.tail = ChangedTail(m, tail)
<1> DEFINE a == m.pair[1]
           b == m.pair[2]
           log == d[a].log
           n == Commits(log)
           new == WithCommit(log, n + 1, put, tail)
<1>0. m.pair \in Pair /\ a \in Blocks /\ b \in Blocks /\ a # b /\ m = Loaded(d, m.pair)
  BY ReadsRuled
<1>1. log \in Log /\ n \in 0..Slots /\ (\A i \in 1..n : Valid(log, i)) /\ Slots \in Nat
  BY <1>0, CommitsNat, CommitsAre, Geometry
<1>2. m.off = n /\ m.entries = [x \in Names |-> Latest(log, n, x)] /\ m.tail = LatestTail(log, n)
      /\ m.erased = (/\ n \in 1..(Slots - 1) /\ log[n + 1].lead # PhaseOf(log) /\ log[n + 1].fresh)
  <2>1. /\ Loaded(d, m.pair).off = n
        /\ Loaded(d, m.pair).entries = [x \in Names |-> Latest(log, n, x)]
        /\ Loaded(d, m.pair).tail = LatestTail(log, n)
        /\ Loaded(d, m.pair).erased = (/\ n \in 1..(Slots - 1) /\ log[n + 1].lead # PhaseOf(log)
                                       /\ log[n + 1].fresh)
    BY DEF Loaded
  <2> HIDE DEF log, n
  <2> QED
    BY <1>0, <2>1
<1>3. n \in 1..(Slots - 1)
  BY <1>2
<1>4. n + 1 \in 1..Slots /\ n + 1 \in 0..Slots /\ n \in Nat /\ (n + 1) - 1 = n
  BY <1>1, <1>3
<1>5. /\ new \in Log /\ \A j \in 1..n : new[j] = log[j]
      /\ new[n + 1].put = put /\ new[n + 1].tail = tail /\ Valid(new, n + 1)
      /\ n + 1 < Slots => ~Valid(new, (n + 1) + 1)
  <2> HIDE DEF log, n
  <2>1. new = WithCommit(log, n + 1, put, tail)
    OBVIOUS
  <2> HIDE DEF new
  <2> QED
    BY <1>1, <1>4, <2>1, WithCommitIs
<1>6. Commits(new) = n + 1
  <2> HIDE DEF log, n, new
  <2>1. ASSUME NEW i \in 1..n PROVE Valid(new, i)
    <3>1. Valid(log, i) /\ new[i] = log[i]
      BY <1>1, <1>5
    <3>2. i # 1 => i - 1 \in 1..n
      BY <1>4
    <3>3. i # 1 => new[i - 1] = log[i - 1]
      BY <1>5, <3>2
    <3> QED
      BY <3>1, <3>3 DEF Valid, Expected
  <2>2. \A i \in 1..(n + 1) : Valid(new, i)
    <3>1. \A i \in 1..(n + 1) : i \in 1..n \/ i = n + 1
      BY <1>4
    <3> QED
      BY <1>5, <2>1, <3>1
  <2> QED
    BY <1>4, <1>5, <2>2, CommitsIs
<1>7. /\ e \in Disk /\ \A x \in Blocks : x # a => e[x] = d[x]
      /\ e[a].log = new /\ e[a].rev = d[a].rev
  <2>1. e = [d EXCEPT ![a] = [d[a] EXCEPT !.log = WithCommit(d[a].log, m.off + 1, put, tail)]]
    BY DEF Appended
  <2>2. WithCommit(d[a].log, m.off + 1, put, tail) = new
    BY <1>2
  <2> HIDE DEF new, n
  <2>3. d[a] \in [rev : Rev, log : Log]
    BY <1>0 DEF Disk
  <2> DEFINE blk == [d[a] EXCEPT !.log = new]
  <2>4. blk \in [rev : Rev, log : Log] /\ blk.log = new /\ blk.rev = d[a].rev
    BY <1>5, <2>3
  <2>5. e = [d EXCEPT ![a] = blk]
    BY <2>1, <2>2
  <2> HIDE DEF blk
  <2>6. e \in Disk /\ (\A x \in Blocks : x # a => e[x] = d[x]) /\ e[a] = blk
    BY <1>0, <2>4, <2>5 DEF Disk
  <2> QED
    BY <2>4, <2>6
<1> DEFINE F == Loaded(e, m.pair)
<1>8. F.entries = [x \in Names |-> Latest(new, n + 1, x)] /\ F.tail = LatestTail(new, n + 1)
  <2>1. /\ F.entries = [x \in Names |-> Latest(e[a].log, Commits(e[a].log), x)]
        /\ F.tail = LatestTail(e[a].log, Commits(e[a].log))
    BY DEF Loaded
  <2> HIDE DEF F, n, new, a
  <2> QED
    BY <1>6, <1>7, <2>1
<1>9. Reads(e, p, F) /\ F \in Mdir /\ F.pair = m.pair /\ F.rev = m.rev
  <2>1. e[m.pair[2]] = d[m.pair[2]] /\ e[m.pair[1]].rev = d[m.pair[1]].rev
        /\ Commits(e[m.pair[1]].log) > 0
    BY <1>0, <1>4, <1>6, <1>7
  <2> HIDE DEF n, new, a, b, log
  <2> QED
    BY <1>7, <2>1, StillRules
<1>10. F.entries = ChangedEntries(m, put)
  <2>1. ASSUME NEW x \in Names
        PROVE  Latest(new, n + 1, x) = IF put[x] = Keep THEN m.entries[x] ELSE put[x]
    <3> HIDE DEF new, n, log
    <3>1. Latest(new, n + 1, x) =
            IF new[n + 1].put[x] = Keep THEN Latest(log, n, x) ELSE new[n + 1].put[x]
      <4>1. Agree(log, new, n)
        BY <1>5 DEF Agree
      <4> DEFINE k == n + 1
      <4>2. k = n + 1 /\ n \in Nat
        BY <1>4
      <4> HIDE DEF k
      <4>3. Latest(new, k, x) = IF new[k].put[x] = Keep THEN Latest(log, n, x) ELSE new[k].put[x]
        BY <4>1, <4>2, LatestAdded
      <4> QED
        BY <4>3 DEF k
    <3>2. m.entries[x] = Latest(log, n, x)
      BY <1>2
    <3> QED
      BY <1>5, <3>1, <3>2
  <2> HIDE DEF new, n, log, F
  <2> QED
    BY <1>8, <2>1 DEF ChangedEntries
<1>11. F.tail = ChangedTail(m, tail)
  <2> HIDE DEF new, n, log, F
  <2>1. LatestTail(new, n + 1) =
          IF new[n + 1].tail = <<Keep>> THEN LatestTail(log, n) ELSE new[n + 1].tail
    <3>1. Agree(log, new, n)
      BY <1>5 DEF Agree
    <3> DEFINE k == n + 1
    <3>2. k = n + 1 /\ n \in Nat
      BY <1>4
    <3> HIDE DEF k
    <3>3. LatestTail(new, k) = IF new[k].tail = <<Keep>> THEN LatestTail(log, n) ELSE new[k].tail
      BY <3>1, <3>2, LatestTailAdded
    <3> QED
      BY <3>3 DEF k
  <2> QED
    BY <1>2, <1>5, <1>8, <2>1 DEF ChangedTail
<1> HIDE DEF F
<1> QED
  BY <1>7, <1>9, <1>10, <1>11

(* An appended commit cut short: the log is as it was.                     *)
TornAppended(d, m) == [d EXCEPT ![m.pair[1]].log[m.off + 1] = Bad(m.phase)]

(* After an append cut short the pair is read as before, and needs         *)
(* compacting.                                                             *)
LEMMA TornAppendedReads ==
  ASSUME NEW d \in Disk, NEW p, NEW m, Reads(d, p, m), m.erased,
         NEW e, e = TornAppended(d, m)
  PROVE  /\ e \in Disk
         /\ \A b \in Blocks : b # m.pair[1] => e[b] = d[b]
         /\ \E F \in Mdir :
              /\ Reads(e, p, F) /\ F.pair = m.pair /\ F.rev = m.rev
              /\ F.entries = m.entries /\ F.tail = m.tail
<1> DEFINE a == m.pair[1]
           b == m.pair[2]
           log == d[a].log
           n == Commits(log)
           new == [log EXCEPT ![n + 1] = Bad(m.phase)]
<1>0. m.pair \in Pair /\ a \in Blocks /\ b \in Blocks /\ a # b /\ m = Loaded(d, m.pair) /\ m \in Mdir
  BY ReadsRuled
<1>1. log \in Log /\ n \in 0..Slots /\ (\A i \in 1..n : Valid(log, i)) /\ Slots \in Nat
  BY <1>0, CommitsNat, CommitsAre, Geometry
<1>2. m.off = n /\ m.entries = [x \in Names |-> Latest(log, n, x)] /\ m.tail = LatestTail(log, n)
      /\ m.erased = (/\ n \in 1..(Slots - 1) /\ log[n + 1].lead # PhaseOf(log) /\ log[n + 1].fresh)
  <2>1. /\ Loaded(d, m.pair).off = n
        /\ Loaded(d, m.pair).entries = [x \in Names |-> Latest(log, n, x)]
        /\ Loaded(d, m.pair).tail = LatestTail(log, n)
        /\ Loaded(d, m.pair).erased = (/\ n \in 1..(Slots - 1) /\ log[n + 1].lead # PhaseOf(log)
                                       /\ log[n + 1].fresh)
    BY DEF Loaded
  <2> HIDE DEF log, n
  <2> QED
    BY <1>0, <2>1
<1>3. n \in 1..(Slots - 1)
  BY <1>2
<1>4. n + 1 \in 1..Slots /\ n \in Nat
  BY <1>1, <1>3
<1>5. Bad(m.phase) \in Slot /\ Bad(m.phase).good = FALSE
  <2>1. m.phase \in 0..1
    BY <1>0 DEF Mdir
  <2> QED
    BY <2>1, BadIsSlot
<1>6. new \in Log /\ (\A j \in 1..n : new[j] = log[j]) /\ new[n + 1] = Bad(m.phase)
  <2> HIDE DEF n, log
  <2> QED
    BY <1>1, <1>4, <1>5 DEF Log
<1>7. Commits(new) = n
  <2> HIDE DEF n, log, new
  <2>1. ~Valid(new, n + 1)
    BY <1>5, <1>6 DEF Valid
  <2> QED
    BY <1>1, <1>6, <2>1, CommitsBefore
<1>8. /\ e \in Disk /\ \A x \in Blocks : x # a => e[x] = d[x]
      /\ e[a].log = new /\ e[a].rev = d[a].rev
  <2>1. e = [d EXCEPT ![a] = [d[a] EXCEPT !.log = [d[a].log EXCEPT ![m.off + 1] = Bad(m.phase)]]]
    BY DEF TornAppended
  <2>2. [d[a].log EXCEPT ![m.off + 1] = Bad(m.phase)] = new
    BY <1>2
  <2> HIDE DEF new, n
  <2>3. d[a] \in [rev : Rev, log : Log]
    BY <1>0 DEF Disk
  <2> DEFINE blk == [d[a] EXCEPT !.log = new]
  <2>4. blk \in [rev : Rev, log : Log] /\ blk.log = new /\ blk.rev = d[a].rev
    BY <1>6, <2>3
  <2>5. e = [d EXCEPT ![a] = blk]
    BY <2>1, <2>2
  <2> HIDE DEF blk
  <2>6. e \in Disk /\ (\A x \in Blocks : x # a => e[x] = d[x]) /\ e[a] = blk
    BY <1>0, <2>4, <2>5 DEF Disk
  <2> QED
    BY <2>4, <2>6
<1> DEFINE F == Loaded(e, m.pair)
<1>9. F.entries = [x \in Names |-> Latest(new, n, x)] /\ F.tail = LatestTail(new, n)
  <2>1. /\ F.entries = [x \in Names |-> Latest(e[a].log, Commits(e[a].log), x)]
        /\ F.tail = LatestTail(e[a].log, Commits(e[a].log))
    BY DEF Loaded
  <2> HIDE DEF F, n, new, a
  <2> QED
    BY <1>7, <1>8, <2>1
<1>10. Reads(e, p, F) /\ F \in Mdir /\ F.pair = m.pair /\ F.rev = m.rev
  <2>1. e[m.pair[2]] = d[m.pair[2]] /\ e[m.pair[1]].rev = d[m.pair[1]].rev
        /\ Commits(e[m.pair[1]].log) > 0
    BY <1>0, <1>3, <1>7, <1>8
  <2> HIDE DEF n, new, a, b, log
  <2> QED
    BY <1>8, <2>1, StillRules
<1>11. F.entries = m.entries /\ F.tail = m.tail
  <2> HIDE DEF new, n, log, F
  <2>1. (\A x : Latest(new, n, x) = Latest(log, n, x)) /\ LatestTail(new, n) = LatestTail(log, n)
    BY <1>4, <1>6, LatestSame
  <2> QED
    BY <1>2, <1>9, <2>1
<1> HIDE DEF F
<1> QED
  BY <1>8, <1>10, <1>11

(* A compaction cut short leaves no commit in the block.                   *)
LEMMA TornBlockIs ==
  ASSUME disk \in Disk, NEW m \in Mdir, NEW e \in TornBlock(m)
  PROVE  /\ e \in Disk
         /\ \A b \in Blocks : b # m.pair[2] => e[b] = disk[b]
         /\ Commits(e[m.pair[2]].log) = 0
<1> DEFINE b == m.pair[2]
<1>0. b \in Blocks /\ m.rev \in Rev
  BY PairKinds DEF Mdir
<1>1. disk[b].log \in Log /\ disk[b].rev \in Rev /\ disk[b] \in [rev : Rev, log : Log]
  BY <1>0, CommitsNat DEF Disk
<1>2. 1 \in 1..Slots /\ 0 \in 0..Slots
  BY Geometry, SMTT(60)
<1>3. PICK r \in Rev, lead \in 0..1 :
         e = [disk EXCEPT ![b].rev = r, ![b].log[1] = Bad(lead)]
  <2>1. CASE e = [disk EXCEPT ![b].rev = m.rev, ![b].log[1] = Bad(1)]
    <3>1. 1 \in 0..1
      BY SMTT(60)
    <3> QED
      BY <1>0, <2>1, <3>1, Zenon
  <2>2. CASE \E r \in Mixed(disk[b].rev, m.rev) :
               e = [disk EXCEPT ![b].rev = r, ![b].log[1] = Bad(@.lead)]
    <3>1. PICK r \in Mixed(disk[b].rev, m.rev) :
               e = [disk EXCEPT ![b].rev = r, ![b].log[1] = Bad(@.lead)]
      BY <2>2
    <3>2. r \in Rev
      BY <1>0, <1>1, MixedIsRev
    <3>3. disk[b].log[1] \in Slot
      BY <1>1, <1>2 DEF Log
    <3>4. disk[b].log[1].lead \in 0..1
      BY <3>3 DEF Slot
    <3>5. e = [disk EXCEPT ![b].rev = r, ![b].log[1] = Bad(disk[b].log[1].lead)]
      BY <1>0, <1>1, <3>1 DEF Disk
    <3> QED
      BY <3>2, <3>4, <3>5, ZenonT(60)
  <2> QED
    BY <2>1, <2>2, ZenonT(60) DEF TornBlock
<1> DEFINE new == [disk[b].log EXCEPT ![1] = Bad(lead)]
           blk == [disk[b] EXCEPT !.rev = r, !.log = new]
<1>4. Bad(lead) \in Slot /\ Bad(lead).good = FALSE
  BY BadIsSlot
<1>5. new \in Log /\ new[1] = Bad(lead)
  BY <1>1, <1>2, <1>4 DEF Log
<1>6. Commits(new) = 0
  <2> HIDE DEF new
  <2>1. ~Valid(new, 0 + 1)
    BY <1>4, <1>5 DEF Valid
  <2>2. \A i \in 1..0 : Valid(new, i)
    OBVIOUS
  <2> QED
    BY <1>2, <1>5, <2>1, <2>2, CommitsIs
<1>7. e = [disk EXCEPT ![b] = blk]
  BY <1>0, <1>3 DEF Disk
<1>8. blk \in [rev : Rev, log : Log] /\ blk.log = new
  <2> DEFINE X == Log
  <2>1. new \in X /\ disk[b] \in [rev : Rev, log : X]
    BY <1>1, <1>5
  <2> HIDE DEF X, new
  <2>2. \A k \in [rev : Rev, log : X] :
          /\ [k EXCEPT !.rev = r, !.log = new] \in [rev : Rev, log : X]
          /\ [k EXCEPT !.rev = r, !.log = new].log = new
    BY <2>1
  <2> QED
    BY <2>1, <2>2 DEF X
<1> HIDE DEF blk, new
<1>9. e \in Disk /\ (\A x \in Blocks : x # b => e[x] = disk[x]) /\ e[b] = blk
  BY <1>0, <1>7, <1>8 DEF Disk
<1> QED
  BY <1>6, <1>8, <1>9

-----------------------------------------------------------------------------
(* Lists.                                                                  *)

LEMMA ListMade ==
  ASSUME NEW T, NEW n \in Nat, NEW f \in [1..n -> T]
  PROVE  f \in Seq(T) /\ Len(f) = n
<1>1. f \in Seq(T)
  BY SeqDef
<1>2. DOMAIN f = 1..n /\ DOMAIN f = 1..Len(f) /\ Len(f) \in Nat
  BY <1>1, LenProperties
<1> QED
  BY <1>2

(* What ChainFrom is defined by.                                           *)
NextList(d, p, list, k) ==
  IF k = 0 THEN <<Fetch(d, p)>>
  ELSE LET l == list[k - 1]
           m == l[Len(l)]
       IN IF Ends(m) THEN l ELSE Append(l, Fetch(d, m.tail))

Lists(d, p) ==
  CHOOSE list : list = [k \in 0..Cardinality(Blocks) |-> NextList(d, p, list, k)]

LEMMA ChainFromIsLast ==
  ASSUME NEW d, NEW p
  PROVE  ChainFrom(d, p) = Lists(d, p)[Cardinality(Blocks)]
BY Zenon DEF ChainFrom, Lists, NextList

LEMMA BlocksFinite == IsFiniteSet(Blocks) /\ Cardinality(Blocks) \in Nat
<1>1. IsFiniteSet({R0, R1})
  <2>1. IsFiniteSet({R0}) /\ {R0, R1} = {R0} \cup {R1}
    BY FS_Singleton
  <2> QED
    BY <2>1, FS_AddElement
<1>2. IsFiniteSet(Blocks)
  BY <1>1, Geometry, FS_Union DEF Blocks
<1> QED
  BY <1>2, FS_CardinalityType

(* A list that is read from p on, pair after pair, up to an end.           *)
ReadFrom(d, p, c, T) ==
  /\ c \in Seq(T) /\ Len(c) \in 1..(Cardinality(Blocks) + 1)
  /\ c[1] = Fetch(d, p)
  /\ \A i \in 2..Len(c) : c[i] = Fetch(d, c[i - 1].tail) /\ ~Ends(c[i - 1])
  /\ Ends(c[Len(c)])

First(c, k) == SubSeq(c, 1, IF k < Len(c) THEN k ELSE Len(c))

LEMMA FirstIs ==
  ASSUME NEW T, NEW c \in Seq(T), Len(c) > 0, NEW k \in Nat, k > 0, NEW n,
         n = IF k < Len(c) THEN k ELSE Len(c)
  PROVE  /\ First(c, k) \in Seq(T) /\ Len(First(c, k)) = n
         /\ \A i \in 1..n : First(c, k)[i] = c[i]
<1>1. Len(c) \in Nat /\ n \in Int /\ n >= 1 /\ n <= Len(c)
  BY LenProperties
<1>2. \A i \in 1..n : c[i] \in T
  BY <1>1, ElementOfSeq
<1>3. First(c, k) = SubSeq(c, 1, n)
  BY DEF First
<1>4. SubSeq(c, 1, n) \in Seq(T) /\ Len(SubSeq(c, 1, n)) = n
  BY <1>1, <1>2, SubSeqProperties
<1>5. \A i \in 1..(n - 1 + 1) : SubSeq(c, 1, n)[i] = c[1 + i - 1]
  BY <1>1, <1>2, SubSeqProperties
<1>6. \A i \in 1..n : SubSeq(c, 1, n)[i] = c[i]
  BY <1>1, <1>5
<1> QED
  BY <1>3, <1>4, <1>6

LEMMA FirstNext ==
  ASSUME NEW T, NEW d, NEW p, NEW c, ReadFrom(d, p, c, T),
         NEW list, NEW k \in Nat, k = 0 \/ list[k - 1] = First(c, k)
  PROVE  NextList(d, p, list, k) = First(c, k + 1)
<1>0. c \in Seq(T) /\ Len(c) \in Nat /\ Len(c) > 0
  BY BlocksFinite DEF ReadFrom
<1>1. \A i \in 1..Len(c) : c[i] \in T
  BY <1>0, ElementOfSeq
<1>2. CASE k = 0
  <2> DEFINE f == First(c, 1)
  <2>1. f \in Seq(T) /\ Len(f) = 1 /\ f[1] = c[1]
    <3>1. PICK j \in Nat : j = 1
      OBVIOUS
    <3>2. \A l \in Nat : l > 0 => j > 0 /\ j = IF j < l THEN j ELSE l
      BY <3>1
    <3>3. j > 0 /\ j = IF j < Len(c) THEN j ELSE Len(c)
      BY <1>0, <3>2, Zenon
    <3>4. /\ First(c, j) \in Seq(T) /\ Len(First(c, j)) = j
          /\ \A i \in 1..j : First(c, j)[i] = c[i]
      BY <1>0, <3>3, FirstIs
    <3>5. f \in Seq(T) /\ Len(f) = 1 /\ \A i \in 1..1 : f[i] = c[i]
      BY <3>1, <3>4
    <3> HIDE DEF f
    <3> QED
      BY <3>5
  <2>2. <<c[1]>> \in Seq(T) /\ Len(<<c[1]>>) = 1 /\ <<c[1]>>[1] = c[1]
    BY <1>0, <1>1
  <2> HIDE DEF f
  <2>3. f = <<c[1]>>
    BY <2>1, <2>2, SeqEqual
  <2>4. k + 1 = 1 /\ NextList(d, p, list, k) = <<c[1]>>
    BY <1>2 DEF NextList, ReadFrom
  <2> QED
    BY <2>3, <2>4 DEF f
<1>3. CASE k # 0
  <2> DEFINE l == First(c, k)
             g == First(c, k + 1)
             n == IF k < Len(c) THEN k ELSE Len(c)
  <2>1. n \in 1..Len(c) /\ n \in Nat
    BY <1>0, <1>3
  <2>2. l \in Seq(T) /\ Len(l) = n /\ \A i \in 1..n : l[i] = c[i]
    BY <1>0, <1>3, FirstIs
  <2>3. l[Len(l)] = c[n]
    BY <2>1, <2>2
  <2>4. NextList(d, p, list, k) = IF Ends(c[n]) THEN l ELSE Append(l, Fetch(d, c[n].tail))
    <3> HIDE DEF l, n
    <3>1. list[k - 1] = l
      BY <1>3 DEF l
    <3> QED
      BY <1>3, <2>3, <3>1 DEF NextList
  <2>5. CASE k < Len(c)
    <3>1. n = k /\ k + 1 \in 2..Len(c) /\ (k + 1) - 1 = k
      BY <1>0, <1>3, <2>5
    <3>2. c[k + 1] = Fetch(d, c[k].tail) /\ ~Ends(c[k])
      BY <3>1 DEF ReadFrom
    <3>3. g \in Seq(T) /\ Len(g) = k + 1 /\ \A i \in 1..(k + 1) : g[i] = c[i]
      <4>1. k + 1 \in Nat /\ k + 1 > 0 /\ k + 1 = IF k + 1 < Len(c) THEN k + 1 ELSE Len(c)
        BY <1>0, <2>5
      <4> QED
        BY <1>0, <4>1, FirstIs
    <3>4. c[k + 1] \in T
      BY <1>1, <3>1
    <3> DEFINE h == Append(l, c[k + 1])
    <3> HIDE DEF l, g, n
    <3>5. h \in Seq(T) /\ Len(h) = k + 1 /\ \A i \in 1..(k + 1) : h[i] = c[i]
      BY <2>2, <3>1, <3>4
    <3> HIDE DEF h
    <3>6. h = g
      BY <3>3, <3>5, SeqEqual
    <3>7. NextList(d, p, list, k) = h
      BY <2>4, <3>1, <3>2 DEF h
    <3> QED
      BY <3>6, <3>7 DEF g
  <2>6. CASE k >= Len(c)
    <3>1. n = Len(c)
      BY <1>0, <2>6
    <3>2. g = l
      BY <1>0, <2>6 DEF First
    <3>3. Ends(c[n])
      BY <3>1 DEF ReadFrom
    <3> HIDE DEF l, g, n
    <3>4. NextList(d, p, list, k) = l
      BY <2>4, <3>3
    <3> QED
      BY <3>2, <3>4 DEF g
  <2> QED
    BY <1>0, <2>5, <2>6
<1> QED
  BY <1>2, <1>3

(* Where a list is read pair after pair, this is the list ChainFrom finds. *)
LEMMA ChainFromIs ==
  ASSUME NEW T, NEW d, NEW p, NEW c, ReadFrom(d, p, c, T)
  PROVE  ChainFrom(d, p) = c
<1> DEFINE N == Cardinality(Blocks)
           g == [k \in 0..N |-> First(c, k + 1)]
           list == Lists(d, p)
<1>0. N \in Nat /\ c \in Seq(T) /\ Len(c) \in 1..(N + 1)
  BY BlocksFinite DEF ReadFrom
<1>1. ASSUME NEW k \in 0..N PROVE NextList(d, p, g, k) = First(c, k + 1)
  <2>1. k = 0 \/ (k - 1 \in 0..N /\ (k - 1) + 1 = k)
    BY <1>0
  <2>2. k = 0 \/ g[k - 1] = First(c, k)
    BY <2>1
  <2> HIDE DEF g
  <2> QED
    BY <1>0, <2>2, FirstNext
<1>2. g = [k \in 0..N |-> NextList(d, p, g, k)]
  <2> HIDE DEF N
  <2>1. [k \in 0..N |-> NextList(d, p, g, k)] = [k \in 0..N |-> First(c, k + 1)]
    BY <1>1
  <2> QED
    BY <2>1
<1>3. list = [k \in 0..N |-> NextList(d, p, list, k)]
  <2>1. \E f : f = [k \in 0..N |-> NextList(d, p, f, k)]
    <3> HIDE DEF g
    <3> QED
      BY <1>2
  <2> QED
    BY <2>1 DEF Lists
<1> HIDE DEF list, g, N
<1>4. \A k \in 0..N : list[k] = First(c, k + 1)
  <2> SUFFICES ASSUME NEW b \in 0..N, list[b] # First(c, b + 1) PROVE FALSE
    OBVIOUS
  <2> DEFINE S == {k \in 0..N : list[k] # First(c, k + 1)}
  <2>1. PICK k \in S : \A j \in S : k <= j
    <3>1. S \in SUBSET Nat /\ S # {}
      BY <1>0
    <3> HIDE DEF S
    <3> QED
      BY <3>1, LeastNumber
  <2>2. k \in 0..N /\ list[k] # First(c, k + 1)
    BY <2>1
  <2>3. k = 0 \/ list[k - 1] = First(c, k)
    <3>1. CASE k # 0
      <4>1. k - 1 \in 0..N /\ k - 1 < k /\ (k - 1) + 1 = k
        BY <1>0, <2>2, <3>1
      <4>2. k - 1 \notin S
        BY <2>1, <4>1
      <4> QED
        BY <4>1, <4>2
    <3> QED
      BY <3>1
  <2> HIDE DEF S
  <2>4. NextList(d, p, list, k) = First(c, k + 1)
    BY <1>0, <2>2, <2>3, FirstNext
  <2>5. list[k] = NextList(d, p, list, k)
    BY <1>3, <2>2
  <2> QED
    BY <2>2, <2>4, <2>5
<1>5. First(c, N + 1) = c
  <2> DEFINE f == First(c, N + 1)
  <2>1. f \in Seq(T) /\ Len(f) = Len(c) /\ \A i \in 1..Len(c) : f[i] = c[i]
    <3>1. Len(c) = IF N + 1 < Len(c) THEN N + 1 ELSE Len(c)
      BY <1>0
    <3>2. N + 1 \in Nat /\ N + 1 > 0 /\ Len(c) > 0
      BY <1>0
    <3> QED
      BY <1>0, <3>1, <3>2, FirstIs
  <2> HIDE DEF f
  <2>2. f = c
    BY <1>0, <2>1, SeqEqual
  <2> QED
    BY <2>2 DEF f
<1>6. ChainFrom(d, p) = list[N]
  BY ChainFromIsLast DEF list, N
<1> QED
  BY <1>0, <1>4, <1>5, <1>6

-----------------------------------------------------------------------------
(* The list of pairs on the disk.                                          *)

Head0 == <<R0, R1>>

IsList(c) == c \in Seq(Mdir) /\ Len(c) > 0

(* From place k + 1 on, each pair is where the one before it points to.    *)
Linked(d, c, k) ==
  /\ \A i \in (k + 1)..Len(c) : Reads(d, c[i - 1].tail, c[i])
  /\ c[Len(c)].tail = Nil

Listed(d, c) == IsList(c) /\ Reads(d, Head0, c[1]) /\ Linked(d, c, 1)

Apart(c) == \A i, j \in 1..Len(c) : i # j => Both(c[i].pair) \cap Both(c[j].pair) = {}

UsedBy(c) == {b \in Blocks : \E i \in 1..Len(c) : b \in Both(c[i].pair)}

LEMMA ListTyped ==
  ASSUME NEW c, IsList(c)
  PROVE  /\ Len(c) \in Nat /\ Len(c) >= 1 /\ DOMAIN c = 1..Len(c)
         /\ \A i \in 1..Len(c) : c[i] \in Mdir /\ c[i].pair \in Pair
<1>1. c \in Seq(Mdir) /\ Len(c) > 0
  BY DEF IsList
<1>2. Len(c) \in Nat /\ DOMAIN c = 1..Len(c)
  BY <1>1, LenProperties
<1>3. \A i \in 1..Len(c) : c[i] \in Mdir
  BY <1>1, ElementOfSeq
<1>4. \A m \in Mdir : m.pair \in Pair
  BY DEF Mdir
<1> QED
  BY <1>1, <1>2, <1>3, <1>4

LEMMA HeadIsPair == Head0 \in Pair /\ Both(Head0) = {R0, R1} /\ R0 \in Blocks /\ R1 \in Blocks /\ R0 # R1
  BY Geometry DEF Head0, Pair, Blocks, Both

LEMMA BothIs ==
  ASSUME NEW p \in Pair
  PROVE  Both(p) \subseteq Blocks /\ p[1] \in Both(p) /\ p[2] \in Both(p) /\ Both(Flip(p)) = Both(p)
  BY PairKinds DEF Both, Flip

LEMMA SameOrFlipped ==
  ASSUME NEW p \in Pair, NEW q \in Pair, Both(p) = Both(q)
  PROVE  q = p \/ q = Flip(p)
<1>1. p = <<p[1], p[2]>> /\ q = <<q[1], q[2]>>
  BY PairKinds
<1>2. {p[1], p[2]} = {q[1], q[2]}
  BY DEF Both
<1>3. (q[1] = p[1] /\ q[2] = p[2]) \/ (q[1] = p[2] /\ q[2] = p[1])
  BY <1>2
<1> QED
  BY <1>1, <1>3 DEF Flip

LEMMA SamePairIs ==
  ASSUME NEW p, NEW q
  PROVE  SamePair(p, q) <=> Both(p) \cap Both(q) # {}
  BY DEF SamePair, Both

LEMMA ReadsPlace ==
  ASSUME NEW d \in Disk, NEW p, NEW m, Reads(d, p, m)
  PROVE  /\ p \in Pair /\ p # Nil /\ Both(p) = Both(m.pair) /\ Both(p) # {}
         /\ m \in Mdir /\ m.pair \in Pair /\ m.off > 0 /\ m.pair[1] # m.pair[2]
<1>1. p \in Pair /\ m.off > 0
  BY DEF Reads
<1>2. m \in Mdir /\ m.pair \in Pair /\ (m.pair = p \/ m.pair = Flip(p)) /\ m.pair[1] # m.pair[2]
  BY ReadsRuled
<1>3. Both(m.pair) = Both(p) /\ p[1] \in Both(p) /\ p # Nil
  BY <1>1, <1>2, BothIs, PairKinds
<1> QED
  BY <1>1, <1>2, <1>3

(* Each pair of the list is read at the place it is linked from.           *)
LEMMA ReadsAt ==
  ASSUME NEW d \in Disk, NEW p, NEW m, Reads(d, p, m), NEW q \in Pair, Both(q) = Both(p)
  PROVE  Reads(d, q, m)
<1>1. p \in Pair
  BY ReadsPlace
<1>2. q = p \/ q = Flip(p)
  BY <1>1, SameOrFlipped
<1>3. Reads(d, m.pair, m) /\ Reads(d, Flip(m.pair), m)
  BY ReadsEitherWay
<1>4. m.pair = p \/ m.pair = Flip(p)
  BY ReadsRuled
<1>5. Flip(Flip(p)) = p
  BY <1>1, PairKinds
<1> QED
  BY <1>2, <1>3, <1>4, <1>5

(* A list of pairs that share no block is no longer than there are blocks. *)
LEMMA ShortList ==
  ASSUME NEW c, IsList(c), Apart(c)
  PROVE  Len(c) <= Cardinality(Blocks)
<1> DEFINE n == Len(c)
           f == [i \in 1..n |-> c[i].pair[1]]
<1>0. n \in Nat /\ n >= 1 /\ \A i \in 1..n : c[i].pair \in Pair
  BY ListTyped
<1>1. f \in [1..n -> Blocks]
  BY <1>0, PairKinds
<1>2. IsFiniteSet(1..n) /\ Cardinality(1..n) = n
  BY <1>0, FS_Interval
<1>3. ASSUME NEW i \in 1..n, NEW j \in 1..n, i # j, f[i] = f[j] PROVE FALSE
  <2>1. c[i].pair \in Pair /\ c[j].pair \in Pair
    BY <1>0
  <2>2. c[i].pair[1] \in Both(c[i].pair) /\ c[j].pair[1] \in Both(c[j].pair)
    BY <2>1, BothIs
  <2>3. c[i].pair[1] = c[j].pair[1]
    BY <1>3
  <2> QED
    BY <1>3, <2>2, <2>3 DEF Apart
<1>4. IsFiniteSet(Blocks) /\ Cardinality(Blocks) \in Nat
  BY BlocksFinite
<1>5. ASSUME Cardinality(Blocks) < n PROVE FALSE
  <2> HIDE DEF f, n
  <2>1. Cardinality(Blocks) < Cardinality(1..n)
    BY <1>2, <1>5
  <2>2. \E x, y \in 1..n : x # y /\ f[x] = f[y]
    BY <1>1, <1>2, <1>4, <2>1, FS_PigeonHole, Zenon
  <2> QED
    BY <1>3, <2>2
<1> QED
  BY <1>0, <1>4, <1>5

(* A linked list is read from its first pair on.                           *)
LEMMA LinkedChain ==
  ASSUME NEW d \in Disk, NEW p, NEW c, IsList(c), Apart(c), Reads(d, p, c[1]), Linked(d, c, 1)
  PROVE  ChainFrom(d, p) = c
<1>0. Len(c) \in Nat /\ Len(c) >= 1
  BY ListTyped
<1>1. Len(c) \in 1..(Cardinality(Blocks) + 1)
  BY <1>0, ShortList, BlocksFinite
<1>2. c[1] = Fetch(d, p)
  BY DEF Reads
<1>3. ASSUME NEW i \in 2..Len(c)
      PROVE  c[i] = Fetch(d, c[i - 1].tail) /\ c[i - 1].tail # Nil
  <2>1. Reads(d, c[i - 1].tail, c[i])
    BY <1>0 DEF Linked
  <2> QED
    BY <2>1, ReadsPlace DEF Reads
<1>4. ASSUME NEW i \in 1..Len(c) PROVE c[i].off > 0
  <2>1. i = 1 \/ i \in 2..Len(c)
    BY <1>0
  <2>2. CASE i = 1
    BY <2>2, ReadsPlace
  <2>3. CASE i \in 2..Len(c)
    <3>1. Reads(d, c[i - 1].tail, c[i])
      BY <1>0, <2>3 DEF Linked
    <3> QED
      BY <3>1, ReadsPlace
  <2> QED
    BY <2>1, <2>2, <2>3
<1>5. \A i \in 2..Len(c) : c[i] = Fetch(d, c[i - 1].tail) /\ ~Ends(c[i - 1])
  <2> SUFFICES ASSUME NEW i \in 2..Len(c)
               PROVE  c[i] = Fetch(d, c[i - 1].tail) /\ ~Ends(c[i - 1])
    OBVIOUS
  <2>1. i - 1 \in 1..Len(c)
    BY <1>0
  <2>2. c[i - 1].off > 0 /\ c[i - 1].off \in Nat
    <3>1. c[i - 1] \in Mdir
      BY <2>1, ListTyped
    <3>2. c[i - 1].off \in 0..Slots
      BY <3>1 DEF Mdir
    <3> QED
      BY <1>4, <2>1, <3>2, Geometry
  <2> QED
    BY <1>3, <2>2 DEF Ends
<1>6. Ends(c[Len(c)])
  BY DEF Linked, Ends
<1>7. ReadFrom(d, p, c, Mdir)
  BY <1>1, <1>2, <1>5, <1>6 DEF ReadFrom, IsList
<1> QED
  BY <1>7, ChainFromIs

(* The list on the disk is what Chain finds.                               *)
LEMMA ListedChain ==
  ASSUME NEW d \in Disk, NEW c, Listed(d, c), Apart(c)
  PROVE  Chain(d) = c
  BY LinkedChain DEF Listed, Chain, Head0

(* Each pair of the list is read from its own place.                       *)
LEMMA ListedReads ==
  ASSUME NEW d \in Disk, NEW c, Listed(d, c), NEW i \in 1..Len(c)
  PROVE  Reads(d, c[i].pair, c[i]) /\ c[i] \in Mdir /\ c[i].off > 0
         /\ c[i].pair \in Pair /\ c[i].pair[1] # c[i].pair[2]
<1>0. Len(c) \in Nat /\ Len(c) >= 1
  BY ListTyped DEF Listed
<1>1. \E p \in {Head0, c[i - 1].tail} : Reads(d, p, c[i])
  <2>1. CASE i = 1
    BY <2>1 DEF Listed
  <2>2. CASE i # 1
    <3>1. i \in (1 + 1)..Len(c)
      BY <1>0, <2>2
    <3> QED
      BY <3>1 DEF Listed, Linked
  <2> QED
    BY <2>1, <2>2
<1>2. PICK p \in {Head0, c[i - 1].tail} : Reads(d, p, c[i])
  BY <1>1
<1> QED
  BY <1>2, ReadsEitherWay, ReadsPlace

LEMMA ListedNext ==
  ASSUME NEW d \in Disk, NEW c, Listed(d, c), NEW i \in 1..Len(c), NEW j, j = i + 1
  PROVE  /\ j \in 1..Len(c) => Reads(d, c[i].tail, c[j]) /\ c[i].tail \in Pair /\ c[i].tail # Nil
                               /\ Both(c[i].tail) = Both(c[j].pair)
         /\ j \notin 1..Len(c) => c[i].tail = Nil
<1>0. Len(c) \in Nat /\ Len(c) >= 1
  BY ListTyped DEF Listed
<1>1. CASE j \in 1..Len(c)
  <2>1. j \in (1 + 1)..Len(c) /\ j - 1 = i
    BY <1>0, <1>1
  <2>2. Reads(d, c[i].tail, c[j])
    BY <2>1 DEF Listed, Linked
  <2> QED
    BY <1>1, <2>2, ReadsPlace
<1>2. CASE j \notin 1..Len(c)
  <2>1. i = Len(c)
    BY <1>0, <1>2
  <2> QED
    BY <1>2, <2>1 DEF Listed, Linked
<1> QED
  BY <1>1, <1>2

LEMMA ListedHead ==
  ASSUME NEW d \in Disk, NEW c, Listed(d, c)
  PROVE  Both(c[1].pair) = {R0, R1} /\ 1 \in 1..Len(c)
<1>1. Reads(d, Head0, c[1]) /\ IsList(c)
  BY DEF Listed
<1> QED
  BY <1>1, ReadsPlace, HeadIsPair, ListTyped

(* A list stays when its pairs are still read.                             *)
LEMMA ReadsStill ==
  ASSUME NEW d \in Disk, NEW e \in Disk, NEW p, NEW m, Reads(d, p, m), Reads(e, m.pair, m)
  PROVE  Reads(e, p, m)
<1>1. p \in Pair /\ Both(p) = Both(m.pair)
  BY ReadsPlace
<1> QED
  BY <1>1, ReadsAt

StillRead(e, c, k) == \A i \in (k + 1)..Len(c) : Reads(e, c[i].pair, c[i])

LEMMA LinkedStays ==
  ASSUME NEW d \in Disk, NEW e \in Disk, NEW c, NEW k, Linked(d, c, k), StillRead(e, c, k)
  PROVE  Linked(e, c, k)
<1>1. ASSUME NEW i \in (k + 1)..Len(c) PROVE Reads(e, c[i - 1].tail, c[i])
  <2>1. Reads(d, c[i - 1].tail, c[i]) /\ Reads(e, c[i].pair, c[i])
    BY DEF Linked, StillRead
  <2> QED
    BY <2>1, ReadsStill
<1> QED
  BY <1>1 DEF Linked

LEMMA ListStays ==
  ASSUME NEW d \in Disk, NEW e \in Disk, NEW c, Listed(d, c), StillRead(e, c, 0)
  PROVE  Listed(e, c)
<1>0. Len(c) \in Nat /\ Len(c) >= 1
  BY ListTyped DEF Listed
<1>1. Linked(d, c, 1) /\ Reads(d, Head0, c[1])
  BY DEF Listed
<1>2. StillRead(e, c, 1) /\ Reads(e, c[1].pair, c[1])
  BY <1>0 DEF StillRead
<1> QED
  BY <1>1, <1>2, LinkedStays, ReadsStill DEF Listed

(* The list from a pair of it on.                                          *)
LEMMA SuffixChain ==
  ASSUME NEW d \in Disk, NEW c, Listed(d, c), Apart(c), NEW j \in 1..Len(c),
         NEW r \in Pair, Both(r) = Both(c[j].pair)
  PROVE  /\ Len(ChainFrom(d, r)) = Len(c) - j + 1
         /\ DOMAIN ChainFrom(d, r) = 1..(Len(c) - j + 1)
         /\ \A i \in 1..(Len(c) - j + 1) : ChainFrom(d, r)[i] = c[i + j - 1]
<1> DEFINE n == Len(c) - j + 1
           s == [i \in 1..n |-> c[i + j - 1]]
<1>0. Len(c) \in Nat /\ Len(c) >= 1 /\ \A i \in 1..Len(c) : c[i] \in Mdir
  BY ListTyped DEF Listed
<1>1. n \in Nat /\ n >= 1 /\ \A i \in 1..n : i + j - 1 \in 1..Len(c)
  BY <1>0
<1>2. s \in [1..n -> Mdir]
  BY <1>0, <1>1
<1>3. \A i \in 1..n : s[i] = c[i + j - 1]
  OBVIOUS
<1> HIDE DEF s, n
<1>4. s \in Seq(Mdir) /\ Len(s) = n /\ IsList(s)
  BY <1>1, <1>2, ListMade DEF IsList
<1>5. Apart(s)
  <2> SUFFICES ASSUME NEW a \in 1..n, NEW b \in 1..n, a # b
               PROVE  Both(s[a].pair) \cap Both(s[b].pair) = {}
    BY <1>4 DEF Apart
  <2>1. a + j - 1 \in 1..Len(c) /\ b + j - 1 \in 1..Len(c) /\ a + j - 1 # b + j - 1
    BY <1>1
  <2> QED
    BY <1>3, <2>1 DEF Apart
<1>6. Reads(d, r, s[1])
  <2>1. s[1] = c[j]
    <3>1. 1 \in 1..n /\ 1 + j - 1 = j
      BY <1>1
    <3> QED
      BY <1>3, <3>1
  <2>2. Reads(d, c[j].pair, c[j])
    BY ListedReads
  <2> QED
    BY <2>1, <2>2, ReadsAt
<1>7. Linked(d, s, 1)
  <2>1. ASSUME NEW i \in (1 + 1)..n PROVE Reads(d, s[i - 1].tail, s[i])
    <3>1. i \in 1..n /\ i - 1 \in 1..n
      BY <1>1
    <3>2. i + j - 1 \in (1 + 1)..Len(c) /\ (i - 1) + j - 1 = (i + j - 1) - 1
      BY <1>0, <1>1, <3>1
    <3>3. s[i] = c[i + j - 1] /\ s[i - 1] = c[(i + j - 1) - 1]
      BY <1>3, <3>1, <3>2
    <3> QED
      BY <3>2, <3>3 DEF Listed, Linked
  <2>2. s[n].tail = Nil
    <3>1. n \in 1..n /\ n + j - 1 = Len(c)
      BY <1>0, <1>1 DEF n
    <3>2. s[n] = c[Len(c)]
      BY <1>3, <3>1
    <3> QED
      BY <3>2 DEF Listed, Linked
  <2> QED
    BY <1>4, <2>1, <2>2 DEF Linked
<1>8. ChainFrom(d, r) = s
  BY <1>4, <1>5, <1>6, <1>7, LinkedChain
<1>9. DOMAIN s = 1..n
  BY <1>4, ListTyped
<1> QED
  BY <1>3, <1>4, <1>8, <1>9 DEF n

-----------------------------------------------------------------------------
(* What a list says of the entries.                                        *)

Below(a, b) ==
  /\ \A x \in Present(a), y \in Present(b) : x < y \/ (x = 0 /\ y = 0)
  /\ 0 \in Present(b) => 0 \in Present(a)

Sorted(c) == \A i, j \in 1..Len(c) : i < j => Below(c[i], c[j])

Proper(c) == Apart(c) /\ Sorted(c) /\ 0 \in Present(c[1])

Shows(c, es) ==
  \A f \in Files :
    /\ \A i \in 1..Len(c) : c[i].entries[f] \in {Gone, es[f]}
    /\ es[f] # Gone => \E i \in 1..Len(c) : c[i].entries[f] = es[f]

(* The last pair with a superblock entry is at r.                          *)
Rooted(c, r) ==
  \E j \in 1..Len(c) :
    /\ Both(c[j].pair) = Both(r) /\ 0 \in Present(c[j])
    /\ \A i \in (j + 1)..Len(c) : 0 \notin Present(c[i])

EntryTable == [Files -> Values \cup {Gone}]

LEMMA LeastIs ==
  ASSUME NEW S \in SUBSET Nat, S # {}
  PROVE  Min(S) \in S /\ \A y \in S : Min(S) <= y
<1>1. \E x \in S : \A y \in S : x <= y
  BY LeastNumber
<1> QED
  BY <1>1 DEF Min

LEMMA FilesNames ==
  /\ \A f \in Files : f \in Names /\ f \in Nat /\ f >= 1 /\ f # 0
  /\ 0 \in Names /\ \A x \in Names : x \in Nat /\ (x # 0 => x \in Files)
  BY Geometry DEF Files, Names

LEMMA GoneIsNone == Gone \notin Values /\ Keep \notin Values /\ Gone # Keep /\ Empty \in Values
  BY DEF Gone, Keep, Values, Empty

LEMMA PresentIs ==
  ASSUME NEW m
  PROVE  /\ Present(m) \subseteq Names
         /\ \A x \in Names : x \in Present(m) <=> m.entries[x] # Gone
  BY DEF Present

(* A file is in one pair at most.                                          *)
LEMMA OnePlace ==
  ASSUME NEW c, IsList(c), Sorted(c), NEW f \in Files, NEW i \in 1..Len(c), NEW j \in 1..Len(c),
         f \in Present(c[i]), f \in Present(c[j])
  PROVE  i = j
<1>0. Len(c) \in Nat
  BY ListTyped
<1>1. f \in Nat /\ f # 0
  BY FilesNames
<1>2. ~(i < j) /\ ~(j < i)
  BY <1>1 DEF Sorted, Below
<1> QED
  BY <1>0, <1>2

LEMMA ShownEntries ==
  ASSUME NEW d \in Disk, NEW c, Listed(d, c), Apart(c), NEW es \in EntryTable, Shows(c, es)
  PROVE  EntriesOn(d) = es
<1> DEFINE Holding(f) == {i \in DOMAIN c : f \in Present(c[i])}
<1>0. IsList(c) /\ Len(c) \in Nat /\ DOMAIN c = 1..Len(c)
  BY ListTyped DEF Listed
<1>1. EntriesOn(d) = [f \in Files |-> IF Holding(f) = {} THEN Gone ELSE c[Min(Holding(f))].entries[f]]
  <2>1. Chain(d) = c
    BY ListedChain
  <2> QED
    BY <2>1 DEF EntriesOn
<1>2. ASSUME NEW f \in Files
      PROVE  (IF Holding(f) = {} THEN Gone ELSE c[Min(Holding(f))].entries[f]) = es[f]
  <2>0. f \in Names
    BY FilesNames
  <2>1. CASE Holding(f) = {}
    <3>1. \A i \in 1..Len(c) : c[i].entries[f] = Gone
      BY <1>0, <2>0, <2>1, PresentIs
    <3>2. es[f] = Gone
      BY <3>1 DEF Shows
    <3> QED
      BY <2>1, <3>2
  <2>2. CASE Holding(f) # {}
    <3>1. Holding(f) \in SUBSET Nat
      BY <1>0
    <3>2. Min(Holding(f)) \in Holding(f)
      <4> HIDE DEF Holding
      <4> QED
        BY <2>2, <3>1, LeastIs
    <3> DEFINE i == Min(Holding(f))
    <3>3. i \in 1..Len(c) /\ f \in Present(c[i])
      BY <1>0, <3>2
    <3> HIDE DEF i
    <3>4. c[i].entries[f] # Gone /\ c[i].entries[f] \in {Gone, es[f]}
      BY <2>0, <3>3, PresentIs DEF Shows
    <3> HIDE DEF Holding
    <3> QED
      BY <2>2, <3>4 DEF i
  <2> QED
    BY <2>1, <2>2
<1>3. es = [f \in Files |-> es[f]]
  BY DEF EntryTable
<1> HIDE DEF Holding
<1> QED
  BY <1>1, <1>2, <1>3

(* What a proper list shows is what listing finds.                         *)
LEMMA EntriesShown ==
  ASSUME NEW d \in Disk, NEW c, Listed(d, c), Proper(c)
  PROVE  Shows(c, EntriesOn(d)) /\ EntriesOn(d) \in EntryTable
<1> DEFINE Holding(f) == {i \in DOMAIN c : f \in Present(c[i])}
<1>0. IsList(c) /\ Len(c) \in Nat /\ DOMAIN c = 1..Len(c) /\ Sorted(c) /\ Apart(c)
      /\ \A i \in 1..Len(c) : c[i] \in Mdir
  BY ListTyped DEF Listed, Proper
<1>1. EntriesOn(d) = [f \in Files |-> IF Holding(f) = {} THEN Gone ELSE c[Min(Holding(f))].entries[f]]
  <2>1. Chain(d) = c
    BY <1>0, ListedChain
  <2> QED
    BY <2>1 DEF EntriesOn
<1> DEFINE es == EntriesOn(d)
<1>2. ASSUME NEW f \in Files
      PROVE  /\ \A i \in 1..Len(c) : c[i].entries[f] \in {Gone, es[f]}
             /\ es[f] # Gone => \E i \in 1..Len(c) : c[i].entries[f] = es[f]
             /\ es[f] \in Values \cup {Gone}
  <2>0. f \in Names
    BY FilesNames
  <2>1. CASE Holding(f) = {}
    <3>1. \A i \in 1..Len(c) : c[i].entries[f] = Gone
      BY <1>0, <2>0, <2>1, PresentIs
    <3>2. es[f] = Gone
      BY <1>1, <2>1
    <3> QED
      BY <3>1, <3>2
  <2>2. CASE Holding(f) # {}
    <3>1. Holding(f) \in SUBSET Nat
      BY <1>0
    <3>2. Min(Holding(f)) \in Holding(f)
      <4> HIDE DEF Holding
      <4> QED
        BY <2>2, <3>1, LeastIs
    <3> DEFINE i == Min(Holding(f))
    <3>3. i \in 1..Len(c) /\ f \in Present(c[i])
      BY <1>0, <3>2
    <3>4. es[f] = c[i].entries[f]
      BY <1>1, <2>2
    <3> HIDE DEF i, Holding, es
    <3>5. ASSUME NEW j \in 1..Len(c) PROVE c[j].entries[f] \in {Gone, es[f]}
      <4>1. CASE f \in Present(c[j])
        <5>1. i = j
          BY <1>0, <3>3, <4>1, OnePlace
        <5> QED
          BY <3>4, <5>1
      <4>2. CASE f \notin Present(c[j])
        BY <2>0, <4>2, PresentIs
      <4> QED
        BY <4>1, <4>2
    <3>6. c[i].entries[f] \in Values \cup {Gone}
      <4>1. c[i] \in Mdir
        BY <1>0, <3>3
      <4>2. c[i].entries \in [Names -> Values \cup {Gone}]
        BY <4>1 DEF Mdir
      <4> QED
        BY <2>0, <4>2
    <3> QED
      BY <3>3, <3>4, <3>5, <3>6
  <2> QED
    BY <2>1, <2>2
<1>3. es \in EntryTable
  <2>1. \A f \in Files : es[f] \in Values \cup {Gone}
    BY <1>2
  <2>2. es = [f \in Files |-> es[f]]
    <3> HIDE DEF Holding
    <3> QED
      BY <1>1
  <2> HIDE DEF es
  <2> QED
    BY <2>1, <2>2 DEF EntryTable
<1>4. Shows(c, es)
  <2> HIDE DEF es, Holding
  <2> QED
    BY <1>2 DEF Shows
<1> QED
  BY <1>3, <1>4

(* The root found by mounting.                                             *)
LEMMA RootOfIs ==
  ASSUME NEW d \in Disk, NEW c, Listed(d, c), Proper(c)
  PROVE  RootOf(d) \in Pair /\ Rooted(c, RootOf(d))
<1> DEFINE S == {i \in DOMAIN c : 0 \in Present(c[i])}
<1>0. IsList(c) /\ Len(c) \in Nat /\ Len(c) >= 1 /\ DOMAIN c = 1..Len(c) /\ Apart(c)
      /\ \A i \in 1..Len(c) : c[i] \in Mdir /\ c[i].pair \in Pair
  BY ListTyped DEF Listed, Proper
<1>1. RootOf(d) = c[Max(S)].pair
  <2>1. Chain(d) = c
    BY <1>0, ListedChain
  <2> QED
    BY <2>1 DEF RootOf
<1>2. S \in SUBSET (0..Len(c)) /\ S # {}
  BY <1>0 DEF Proper
<1>3. Max(S) \in S /\ \A y \in S : y <= Max(S)
  <2> HIDE DEF S
  <2> QED
    BY <1>0, <1>2, GreatestNumber
<1> DEFINE j == Max(S)
<1>4. j \in 1..Len(c) /\ 0 \in Present(c[j])
  BY <1>0, <1>3
<1>5. ASSUME NEW i \in (j + 1)..Len(c), 0 \in Present(c[i]) PROVE FALSE
  <2>1. i \in 1..Len(c) /\ i > j
    BY <1>0, <1>4
  <2>2. i \in S
    BY <1>0, <1>5, <2>1
  <2> HIDE DEF S
  <2> QED
    BY <1>0, <1>3, <1>4, <2>1, <2>2
<1>6. RootOf(d) = c[j].pair
  BY <1>1
<1> HIDE DEF S, j
<1> QED
  BY <1>0, <1>4, <1>5, <1>6 DEF Rooted

LEMMA OneRoot ==
  ASSUME NEW c, IsList(c), NEW r, NEW s, Rooted(c, r), Rooted(c, s)
  PROVE  Both(r) = Both(s)
<1>0. Len(c) \in Nat
  BY ListTyped
<1>1. PICK i \in 1..Len(c) :
        /\ Both(c[i].pair) = Both(r) /\ 0 \in Present(c[i])
        /\ \A k \in (i + 1)..Len(c) : 0 \notin Present(c[k])
  BY DEF Rooted
<1>2. PICK j \in 1..Len(c) :
        /\ Both(c[j].pair) = Both(s) /\ 0 \in Present(c[j])
        /\ \A k \in (j + 1)..Len(c) : 0 \notin Present(c[k])
  BY DEF Rooted
<1>3. i = j
  <2>1. ~(i < j)
    BY <1>0, <1>1, <1>2
  <2>2. ~(j < i)
    BY <1>0, <1>1, <1>2
  <2> QED
    BY <1>0, <2>1, <2>2
<1> QED
  BY <1>1, <1>2, <1>3

(* Where a lookup of f ends: what is before it is smaller, and what is     *)
(* behind it greater.                                                      *)
FoundAt(c, k, f) ==
  /\ k \in 1..Len(c)
  /\ \A i \in 1..(k - 1) : \A x \in Present(c[i]) : x < f
  /\ \A i \in (k + 1)..Len(c) : \A x \in Present(c[i]) : x > f

(* A lookup ends at the only pair where the file may be.                   *)
LEMMA FindIs ==
  ASSUME NEW d \in Disk, NEW c, Listed(d, c), Proper(c), NEW r \in Pair, Rooted(c, r),
         NEW f \in Files
  PROVE  \E k \in 1..Len(c) : Find(d, r, f) = c[k] /\ FoundAt(c, k, f)
<1>0. IsList(c) /\ Len(c) \in Nat /\ Len(c) >= 1 /\ Apart(c) /\ Sorted(c)
  BY ListTyped DEF Listed, Proper
<1>1. PICK j \in 1..Len(c) :
        /\ Both(c[j].pair) = Both(r) /\ 0 \in Present(c[j])
        /\ \A k \in (j + 1)..Len(c) : 0 \notin Present(c[k])
  BY DEF Rooted
<1> DEFINE n == Len(c) - j + 1
           s == ChainFrom(d, r)
           S == {i \in DOMAIN s : \E x \in Present(s[i]) : x >= f}
           h == IF S = {} THEN Len(s) ELSE Min(S)
           k == h + j - 1
<1>2. Find(d, r, f) = s[h]
  BY DEF Find
<1>3. Len(s) = n /\ DOMAIN s = 1..n /\ \A i \in 1..n : s[i] = c[i + j - 1]
  <2>1. Len(s) = Len(c) - j + 1
    BY <1>0, <1>1, SuffixChain
  <2>2. DOMAIN s = 1..(Len(c) - j + 1)
    BY <1>0, <1>1, SuffixChain
  <2>3. \A i \in 1..(Len(c) - j + 1) : s[i] = c[i + j - 1]
    BY <1>0, <1>1, SuffixChain
  <2> HIDE DEF s
  <2> QED
    BY <2>1, <2>2, <2>3
<1>4. n \in Nat /\ n >= 1 /\ \A i \in 1..n : i + j - 1 \in 1..Len(c)
  BY <1>0
<1>5. S \in SUBSET Nat /\ \A i : i \in S <=> i \in 1..n /\ \E x \in Present(s[i]) : x >= f
  <2>1. DOMAIN s = 1..n
    BY <1>3
  <2> HIDE DEF s, n
  <2> QED
    BY <2>1
<1> HIDE DEF S, s, n
<1>6. S # {} => Min(S) \in S /\ \A y \in S : Min(S) <= y
  BY <1>5, LeastIs
<1>7. h \in 1..n
  BY <1>3, <1>4, <1>5, <1>6
<1>8. S # {} => h \in S
  BY <1>6
<1>9. S = {} => h = n
  BY <1>3
<1>10. \A y \in S : h <= y
  BY <1>6
<1> HIDE DEF h
<1>11. k \in 1..Len(c) /\ s[h] = c[k]
  BY <1>3, <1>4, <1>7
<1>12. f \in Nat /\ f >= 1 /\ \A x \in Names : x \in Nat
  BY FilesNames
<1>13. ASSUME NEW i \in 1..(k - 1), NEW x \in Present(c[i]) PROVE x < f
  <2>0. x \in Nat
    BY <1>12, PresentIs
  <2>1. CASE i < j
    <3>1. i \in 1..Len(c) /\ Below(c[i], c[j])
      BY <1>0, <1>11, <2>1 DEF Sorted
    <3>2. x = 0
      BY <1>1, <2>0, <3>1 DEF Below
    <3> QED
      BY <1>12, <3>2
  <2>2. CASE i >= j
    <3>1. i - j + 1 \in 1..n /\ i - j + 1 < h /\ (i - j + 1) + j - 1 = i
      BY <1>0, <1>4, <1>7, <1>11, <2>2 DEF k
    <3>2. s[i - j + 1] = c[i]
      BY <1>3, <3>1
    <3>3. i - j + 1 \notin S
      BY <1>7, <1>4, <1>10, <3>1
    <3>4. ~(x >= f)
      BY <1>5, <3>1, <3>2, <3>3
    <3> QED
      BY <1>12, <2>0, <3>4
  <2> QED
    BY <1>11, <2>1, <2>2
<1>14. ASSUME NEW i \in (k + 1)..Len(c), NEW x \in Present(c[i]) PROVE x > f
  <2>0. x \in Nat
    BY <1>12, PresentIs
  <2>1. i \in 1..Len(c) /\ k < i
    BY <1>0, <1>11
  <2>2. S # {}
    <3>1. k # Len(c)
      BY <1>0, <2>1, <1>11
    <3>2. h # n
      BY <3>1, <1>0 DEF k, n
    <3> QED
      BY <1>9, <3>2
  <2>3. PICK y \in Present(s[h]) : y >= f
    BY <1>5, <1>8, <2>2
  <2>4. y \in Present(c[k]) /\ y \in Nat
    BY <1>11, <1>12, <2>3, PresentIs
  <2>5. Below(c[k], c[i])
    BY <1>0, <1>11, <2>1 DEF Sorted
  <2>6. y < x
    BY <1>12, <2>3, <2>4, <2>5 DEF Below
  <2> QED
    BY <1>12, <2>0, <2>3, <2>4, <2>6
<1>15. FoundAt(c, k, f)
  <2> HIDE DEF k
  <2> QED
    BY <1>11, <1>13, <1>14 DEF FoundAt
<1> QED
  BY <1>2, <1>11, <1>15

-----------------------------------------------------------------------------
(* The blocks a list uses, and the pair before another.                    *)

(* The blocks a list uses.                                                 *)
LEMMA UsedIs ==
  ASSUME NEW c, IsList(c), NEW b
  PROVE  b \in UsedBy(c) <=> \E i \in 1..Len(c) : b \in Both(c[i].pair)
<1>1. \A i \in 1..Len(c) : Both(c[i].pair) \subseteq Blocks
  BY ListTyped, BothIs
<1> QED
  BY <1>1 DEF UsedBy

LEMMA InUseIs ==
  ASSUME NEW d \in Disk, NEW c, Listed(d, c), Apart(c)
  PROVE  InUse(d) = UsedBy(c)
<1>1. Chain(d) = c /\ IsList(c) /\ DOMAIN c = 1..Len(c)
  BY ListedChain, ListTyped DEF Listed
<1>2. InUse(d) = UNION {Both(c[i].pair) : i \in 1..Len(c)}
  BY <1>1 DEF InUse, Both
<1>3. \A b : b \in InUse(d) <=> b \in UsedBy(c)
  <2> SUFFICES ASSUME NEW b PROVE b \in InUse(d) <=> b \in UsedBy(c)
    OBVIOUS
  <2>1. b \in UsedBy(c) <=> \E i \in 1..Len(c) : b \in Both(c[i].pair)
    BY <1>1, UsedIs
  <2> QED
    BY <1>2, <2>1
<1> QED
  BY <1>3

(* The pair that points to pair k is the one before it, and no other.      *)
LEMMA PredsAre ==
  ASSUME NEW d \in Disk, NEW c, Listed(d, c), Apart(c), NEW k \in 1..Len(c),
         NEW p, Both(p) = Both(c[k].pair), NEW m \in Preds(d, p)
  PROVE  k > 1 /\ k - 1 \in 1..Len(c) /\ m = c[k - 1]
<1>1. Chain(d) = c /\ IsList(c) /\ DOMAIN c = 1..Len(c) /\ Len(c) \in Nat
  BY ListedChain, ListTyped DEF Listed
<1>2. PICK j \in 1..Len(c) : c[j].tail # Nil /\ SamePair(c[j].tail, p) /\ m = c[j]
  BY <1>1 DEF Preds
<1>3. j + 1 \in 1..Len(c) /\ Both(c[j].tail) = Both(c[j + 1].pair)
  <2> DEFINE i == j + 1
  <2>1. i = j + 1
    OBVIOUS
  <2> HIDE DEF i
  <2>2. i \in 1..Len(c) /\ Both(c[j].tail) = Both(c[i].pair)
    BY <1>2, <2>1, ListedNext
  <2> QED
    BY <2>2 DEF i
<1>4. Both(c[j + 1].pair) \cap Both(c[k].pair) # {}
  BY <1>2, <1>3, SamePairIs
<1>5. j + 1 = k
  BY <1>3, <1>4 DEF Apart
<1> QED
  BY <1>1, <1>2, <1>5

-----------------------------------------------------------------------------
(* Lists with a pair replaced, added or left out.                          *)

Put(c, k, m) == [i \in 1..Len(c) |-> IF i = k THEN m ELSE c[i]]
Insert(c, k, m) ==
  [i \in 1..(Len(c) + 1) |-> IF i <= k THEN c[i] ELSE IF i = k + 1 THEN m ELSE c[i - 1]]
Drop(c, k) == [i \in 1..(Len(c) - 1) |-> IF i < k THEN c[i] ELSE c[i + 1]]

LEMMA PutIs ==
  ASSUME NEW c, IsList(c), NEW k, NEW m \in Mdir, NEW q, q = Put(c, k, m)
  PROVE  /\ IsList(q) /\ Len(q) = Len(c)
         /\ k \in 1..Len(c) => q[k] = m
         /\ \A i \in 1..Len(c) : i # k => q[i] = c[i]
<1>0. Len(c) \in Nat /\ Len(c) >= 1 /\ \A i \in 1..Len(c) : c[i] \in Mdir
  BY ListTyped
<1>1. q \in [1..Len(c) -> Mdir]
  BY <1>0 DEF Put
<1>2. q \in Seq(Mdir) /\ Len(q) = Len(c)
  BY <1>0, <1>1, ListMade
<1>3. (k \in 1..Len(c) => q[k] = m) /\ \A i \in 1..Len(c) : i # k => q[i] = c[i]
  BY DEF Put
<1> QED
  BY <1>0, <1>2, <1>3 DEF IsList

LEMMA InsertIs ==
  ASSUME NEW c, IsList(c), NEW k \in 1..Len(c), NEW m \in Mdir, NEW q, q = Insert(c, k, m)
  PROVE  /\ IsList(q) /\ Len(q) = Len(c) + 1
         /\ q[k + 1] = m
         /\ \A i \in 1..k : q[i] = c[i]
         /\ \A i \in (k + 2)..(Len(c) + 1) : q[i] = c[i - 1]
<1>0. Len(c) \in Nat /\ Len(c) >= 1 /\ \A i \in 1..Len(c) : c[i] \in Mdir
  BY ListTyped
<1> DEFINE n == Len(c) + 1
<1>1. q = [i \in 1..n |-> IF i <= k THEN c[i] ELSE IF i = k + 1 THEN m ELSE c[i - 1]]
  BY DEF Insert
<1>2. n \in Nat /\ n = Len(c) + 1
  BY <1>0
<1> HIDE DEF n
<1>3. q \in [1..n -> Mdir]
  <2>1. \A i \in 1..n : (IF i <= k THEN c[i] ELSE IF i = k + 1 THEN m ELSE c[i - 1]) \in Mdir
    BY <1>0, <1>2
  <2> QED
    BY <1>1, <2>1
<1>4. q \in Seq(Mdir) /\ Len(q) = n
  BY <1>2, <1>3, ListMade
<1>5. q[k + 1] = m
  BY <1>0, <1>1, <1>2
<1>6. \A i \in 1..k : q[i] = c[i]
  BY <1>0, <1>1, <1>2
<1>7. \A i \in (k + 2)..n : q[i] = c[i - 1]
  BY <1>0, <1>1, <1>2
<1> QED
  BY <1>0, <1>2, <1>4, <1>5, <1>6, <1>7 DEF IsList

LEMMA DropIs ==
  ASSUME NEW c, IsList(c), NEW k \in 2..Len(c), NEW q, q = Drop(c, k)
  PROVE  /\ IsList(q) /\ Len(q) = Len(c) - 1
         /\ \A i \in 1..(k - 1) : q[i] = c[i]
         /\ \A i \in k..(Len(c) - 1) : q[i] = c[i + 1]
<1>0. Len(c) \in Nat /\ Len(c) >= 1 /\ \A i \in 1..Len(c) : c[i] \in Mdir
  BY ListTyped
<1> DEFINE n == Len(c) - 1
<1>1. q = [i \in 1..n |-> IF i < k THEN c[i] ELSE c[i + 1]]
  BY DEF Drop
<1>2. n \in Nat /\ n = Len(c) - 1 /\ n >= 1
  BY <1>0
<1> HIDE DEF n
<1>3. q \in [1..n -> Mdir]
  <2>1. \A i \in 1..n : (IF i < k THEN c[i] ELSE c[i + 1]) \in Mdir
    BY <1>0, <1>2
  <2> QED
    BY <1>1, <2>1
<1>4. q \in Seq(Mdir) /\ Len(q) = n
  BY <1>2, <1>3, ListMade
<1>5. \A i \in 1..(k - 1) : q[i] = c[i]
  BY <1>0, <1>1, <1>2
<1>6. \A i \in k..n : q[i] = c[i + 1]
  BY <1>0, <1>1, <1>2
<1> QED
  BY <1>2, <1>4, <1>5, <1>6 DEF IsList

(* Lists that differ in their blocks and pointers only.                    *)
Alike(c, q) == Len(q) = Len(c) /\ \A i \in 1..Len(c) : q[i].entries = c[i].entries

LEMMA AlikePresent ==
  ASSUME NEW m, NEW n, m.entries = n.entries
  PROVE  Present(m) = Present(n)
  BY DEF Present

LEMMA AlikeProper ==
  ASSUME NEW c, IsList(c), NEW q, IsList(q), Alike(c, q), Sorted(c), 0 \in Present(c[1]), Apart(q)
  PROVE  Proper(q)
<1>1. Len(q) = Len(c) /\ 1 \in 1..Len(c) /\ \A i \in 1..Len(c) : Present(q[i]) = Present(c[i])
  BY AlikePresent, ListTyped DEF Alike
<1>2. Sorted(q)
  BY <1>1 DEF Sorted, Below
<1> QED
  BY <1>1, <1>2 DEF Proper

LEMMA AlikeShows ==
  ASSUME NEW c, NEW q, Alike(c, q), NEW es, Shows(c, es)
  PROVE  Shows(q, es)
  BY DEF Alike, Shows

LEMMA PutAlike ==
  ASSUME NEW c, IsList(c), NEW k \in 1..Len(c), NEW m \in Mdir, m.entries = c[k].entries
  PROVE  Alike(c, Put(c, k, m))
<1> DEFINE q == Put(c, k, m)
<1>1. Len(q) = Len(c) /\ q[k] = m /\ \A i \in 1..Len(c) : i # k => q[i] = c[i]
  BY PutIs
<1> HIDE DEF q
<1>2. Alike(c, q)
  BY <1>1 DEF Alike
<1> QED
  BY <1>2 DEF q

LEMMA PutApart ==
  ASSUME NEW c, IsList(c), Apart(c), NEW k \in 1..Len(c), NEW m \in Mdir,
         \A i \in 1..Len(c) : i # k => Both(c[i].pair) \cap Both(m.pair) = {}
  PROVE  Apart(Put(c, k, m))
<1> DEFINE q == Put(c, k, m)
<1>1. Len(q) = Len(c) /\ q[k] = m /\ \A i \in 1..Len(c) : i # k => q[i] = c[i]
  BY PutIs
<1> HIDE DEF q
<1>2. Apart(q)
  BY <1>1 DEF Apart
<1> QED
  BY <1>2 DEF q

(* A pair that is read again, or written, where it was.                    *)
LEMMA PutSamePlace ==
  ASSUME NEW c, IsList(c), Proper(c), NEW k \in 1..Len(c), NEW m \in Mdir,
         m.entries = c[k].entries, Both(m.pair) = Both(c[k].pair)
  PROVE  Proper(Put(c, k, m)) /\ IsList(Put(c, k, m)) /\ Alike(c, Put(c, k, m))
<1>1. \A i \in 1..Len(c) : i # k => Both(c[i].pair) \cap Both(m.pair) = {}
  BY DEF Proper, Apart
<1>2. Apart(c) /\ Sorted(c) /\ 0 \in Present(c[1])
  BY DEF Proper
<1>3. Apart(Put(c, k, m)) /\ Alike(c, Put(c, k, m)) /\ IsList(Put(c, k, m))
  BY <1>1, <1>2, PutApart, PutAlike, PutIs
<1> QED
  BY <1>2, <1>3, AlikeProper

LEMMA PutUsed ==
  ASSUME NEW c, IsList(c), NEW k \in 1..Len(c), NEW m \in Mdir
  PROVE  UsedBy(Put(c, k, m)) \subseteq UsedBy(c) \cup Both(m.pair)
<1> DEFINE q == Put(c, k, m)
<1>1. IsList(q) /\ Len(q) = Len(c) /\ q[k] = m /\ \A i \in 1..Len(c) : i # k => q[i] = c[i]
  BY PutIs
<1> HIDE DEF q
<1>2. UsedBy(q) \subseteq UsedBy(c) \cup Both(m.pair)
  BY <1>1, UsedIs
<1> QED
  BY <1>2 DEF q

(* The root, where the pair it is in moves.                                *)
LEMMA PutRooted ==
  ASSUME NEW c, IsList(c), Apart(c), NEW k \in 1..Len(c), NEW m \in Mdir,
         0 \in Present(m) <=> 0 \in Present(c[k]),
         NEW r, Rooted(c, r), NEW s,
         Both(s) = IF Both(c[k].pair) \cap Both(r) # {} THEN Both(m.pair) ELSE Both(r)
  PROVE  Rooted(Put(c, k, m), s)
<1> DEFINE q == Put(c, k, m)
<1>0. Len(c) \in Nat
  BY ListTyped
<1>1. Len(q) = Len(c) /\ q[k] = m /\ \A i \in 1..Len(c) : i # k => q[i] = c[i]
  BY PutIs
<1>2. PICK j \in 1..Len(c) :
        /\ Both(c[j].pair) = Both(r) /\ 0 \in Present(c[j])
        /\ \A i \in (j + 1)..Len(c) : 0 \notin Present(c[i])
  BY DEF Rooted
<1> HIDE DEF q
<1>3. \A i \in 1..Len(c) : 0 \in Present(q[i]) <=> 0 \in Present(c[i])
  BY <1>1
<1>4. Both(q[j].pair) = Both(s)
  <2>1. CASE j = k
    <3>1. c[j].pair \in Pair
      BY ListTyped
    <3>2. c[j].pair[1] \in Both(c[j].pair)
      BY <3>1, BothIs
    <3> QED
      BY <1>1, <1>2, <2>1, <3>2
  <2>2. CASE j # k
    <3>1. Both(c[k].pair) \cap Both(r) = {}
      BY <1>2, <2>2 DEF Apart
    <3> QED
      BY <1>1, <1>2, <2>2, <3>1
  <2> QED
    BY <2>1, <2>2
<1>5. \A i \in (j + 1)..Len(c) : 0 \notin Present(q[i])
  BY <1>0, <1>2, <1>3
<1>6. Rooted(q, s)
  BY <1>1, <1>2, <1>3, <1>4, <1>5 DEF Rooted
<1> QED
  BY <1>6 DEF q

-----------------------------------------------------------------------------
(* A pair is divided in two: k becomes a, and f comes behind it.           *)
Divides(c, k, a, f, q) ==
  /\ IsList(c) /\ k \in 1..Len(c)
  /\ IsList(q) /\ Len(q) = Len(c) + 1
  /\ \A i \in 1..(k - 1) : q[i] = c[i]
  /\ q[k] = a /\ q[k + 1] = f
  /\ \A i \in (k + 2)..(Len(c) + 1) : q[i] = c[i - 1]
  /\ Both(a.pair) = Both(c[k].pair) /\ Both(f.pair) \cap UsedBy(c) = {}
  /\ Present(a) \subseteq Present(c[k]) /\ Present(f) \subseteq Present(c[k])
  /\ 0 \in Present(c[k]) => 0 \in Present(a)

LEMMA DividedFrom ==
  ASSUME NEW c, NEW k, NEW a, NEW f, NEW q, Divides(c, k, a, f, q), NEW i \in 1..Len(q),
         NEW s, s = IF i <= k THEN i ELSE i - 1
  PROVE  /\ s \in 1..Len(c) /\ Present(q[i]) \subseteq Present(c[s])
         /\ i # k + 1 => Both(q[i].pair) = Both(c[s].pair)
         /\ i \notin {k, k + 1} => q[i] = c[s]
<1>0. Len(c) \in Nat /\ Len(c) >= 1 /\ Len(q) = Len(c) + 1 /\ k \in 1..Len(c)
  BY ListTyped DEF Divides
<1>1. CASE i < k
  <2>1. i \in 1..(k - 1) /\ s = i
    BY <1>0, <1>1
  <2> QED
    BY <1>0, <2>1 DEF Divides
<1>2. CASE i = k
  <2>1. s = k
    BY <1>0, <1>2
  <2> QED
    BY <1>0, <1>2, <2>1 DEF Divides
<1>3. CASE i = k + 1
  <2>1. s = k
    BY <1>0, <1>3
  <2> QED
    BY <1>0, <1>3, <2>1 DEF Divides
<1>4. CASE i > k + 1
  <2>1. i \in (k + 2)..(Len(c) + 1) /\ s = i - 1
    BY <1>0, <1>4
  <2>2. q[i] = c[s]
    BY <2>1 DEF Divides
  <2>3. s \in 1..Len(c)
    BY <1>0, <1>4, <2>1
  <2> QED
    BY <1>4, <2>2, <2>3
<1> QED
  BY <1>0, <1>1, <1>2, <1>3, <1>4

(* A pair divided in two: still in order, and no block twice.              *)
LEMMA DividedProper ==
  ASSUME NEW c, NEW k, NEW a, NEW f, NEW q, Divides(c, k, a, f, q), Proper(c), Below(a, f),
         0 \in Present(f) \/ \A i \in (k + 1)..Len(c) : 0 \notin Present(c[i])
  PROVE  Proper(q)
<1> DEFINE S(i) == IF i <= k THEN i ELSE i - 1
<1>0. Len(c) \in Nat /\ Len(c) >= 1 /\ Len(q) = Len(c) + 1 /\ k \in 1..Len(c)
      /\ Apart(c) /\ Sorted(c) /\ 0 \in Present(c[1]) /\ IsList(c)
  BY ListTyped DEF Divides, Proper
<1>1. \A i \in 1..Len(q) :
        /\ S(i) \in 1..Len(c) /\ Present(q[i]) \subseteq Present(c[S(i)])
        /\ i # k + 1 => Both(q[i].pair) = Both(c[S(i)].pair)
        /\ i \notin {k, k + 1} => q[i] = c[S(i)]
  <2> SUFFICES ASSUME NEW i \in 1..Len(q)
      PROVE  /\ S(i) \in 1..Len(c) /\ Present(q[i]) \subseteq Present(c[S(i)])
             /\ i # k + 1 => Both(q[i].pair) = Both(c[S(i)].pair)
             /\ i \notin {k, k + 1} => q[i] = c[S(i)]
    BY Zenon
  <2> DEFINE s == S(i)
  <2>1. s = IF i <= k THEN i ELSE i - 1
    OBVIOUS
  <2> HIDE DEF s
  <2>2. s \in 1..Len(c) /\ Present(q[i]) \subseteq Present(c[s])
    BY <2>1, DividedFrom, SMTT(60)
  <2>3. (i # k + 1 => Both(q[i].pair) = Both(c[s].pair)) /\ (i \notin {k, k + 1} => q[i] = c[s])
    BY <2>1, DividedFrom, SMTT(60)
  <2> QED
    BY <2>2, <2>3 DEF s
<1>2. \A i, j \in 1..Len(q) : i < j => S(i) < S(j) \/ (i = k /\ j = k + 1)
  BY <1>0
<1>3. \A i, j \in 1..Len(q) : (i # j /\ i # k + 1 /\ j # k + 1) => S(i) # S(j)
  BY <1>0
<1>4. q[k] = a /\ q[k + 1] = f /\ k \in 1..Len(q) /\ k + 1 \in 1..Len(q) /\ S(k) = k /\ S(k + 1) = k
  BY <1>0 DEF Divides
<1> HIDE DEF S
<1>5. Apart(q)
  <2>1. ASSUME NEW j \in 1..Len(q), j # k + 1 PROVE Both(f.pair) \cap Both(q[j].pair) = {}
    <3>1. Both(q[j].pair) = Both(c[S(j)].pair) /\ S(j) \in 1..Len(c)
      BY <1>1, <2>1
    <3>2. \A b \in Both(c[S(j)].pair) : b \in UsedBy(c)
      BY <1>0, <3>1, UsedIs
    <3>3. Both(f.pair) \cap UsedBy(c) = {}
      BY DEF Divides
    <3> QED
      BY <3>1, <3>2, <3>3
  <2>2. ASSUME NEW i \in 1..Len(q), NEW j \in 1..Len(q), i # j
        PROVE  Both(q[i].pair) \cap Both(q[j].pair) = {}
    <3>1. CASE i = k + 1
      BY <1>4, <2>1, <2>2, <3>1
    <3>2. CASE j = k + 1
      BY <1>4, <2>1, <2>2, <3>2
    <3>3. CASE i # k + 1 /\ j # k + 1
      <4>1. S(i) # S(j) /\ S(i) \in 1..Len(c) /\ S(j) \in 1..Len(c)
        BY <1>1, <1>3, <2>2, <3>3
      <4>2. Both(q[i].pair) = Both(c[S(i)].pair) /\ Both(q[j].pair) = Both(c[S(j)].pair)
        BY <1>1, <3>3
      <4>3. Both(c[S(i)].pair) \cap Both(c[S(j)].pair) = {}
        BY <1>0, <4>1 DEF Apart
      <4> QED
        BY <4>2, <4>3
    <3> QED
      BY <3>1, <3>2, <3>3
  <2> QED
    BY <2>2 DEF Apart
<1>6. ASSUME NEW i \in 1..Len(q), NEW j \in 1..Len(q), i < j PROVE Below(q[i], q[j])
  <2>1. CASE i = k /\ j = k + 1
    BY <1>4, <2>1
  <2>2. CASE S(i) < S(j)
    <3>1. Below(c[S(i)], c[S(j)])
      BY <1>0, <1>1, <2>2 DEF Sorted
    <3>2. Present(q[i]) \subseteq Present(c[S(i)]) /\ Present(q[j]) \subseteq Present(c[S(j)])
      BY <1>1
    <3>3. 0 \in Present(q[j]) => 0 \in Present(q[i])
      <4>1. CASE i = k + 1
        <5>1. S(i) = k /\ S(j) \in (k + 1)..Len(c)
          BY <1>0, <1>1, <1>4, <2>2, <4>1
        <5> QED
          BY <1>4, <3>2, <4>1, <5>1
      <4>2. CASE i = k
        BY <1>4, <3>1, <3>2, <4>2 DEF Below, Divides
      <4>3. CASE i # k + 1 /\ i # k
        <5>1. q[i] = c[S(i)]
          BY <1>1, <4>3
        <5> QED
          BY <3>1, <3>2, <5>1 DEF Below
      <4> QED
        BY <4>1, <4>2, <4>3
    <3> QED
      BY <3>1, <3>2, <3>3 DEF Below
  <2> QED
    BY <1>2, <1>6, <2>1, <2>2
<1>7. 0 \in Present(q[1])
  <2>1. CASE k = 1
    BY <1>0, <1>4, <2>1 DEF Divides
  <2>2. CASE k # 1
    <3>1. 1 \in 1..(k - 1)
      BY <1>0, <2>2
    <3> QED
      BY <1>0, <3>1 DEF Divides
  <2> QED
    BY <2>1, <2>2
<1>8. Sorted(q)
  BY <1>6 DEF Sorted
<1> QED
  BY <1>5, <1>7, <1>8 DEF Proper

(* The entries of m are shared by a and f.                                 *)
Shares(m, a, f) ==
  \A x \in Files : /\ a.entries[x] \in {Gone, m.entries[x]} /\ f.entries[x] \in {Gone, m.entries[x]}
                   /\ m.entries[x] \in {a.entries[x], f.entries[x]}

(* A pair divided in two: every file where a lookup finds it.              *)
LEMMA DividedShows ==
  ASSUME NEW c, NEW k, NEW a, NEW f, NEW q, Divides(c, k, a, f, q), Shares(c[k], a, f),
         NEW es, Shows(c, es)
  PROVE  Shows(q, es)
<1>0. Len(c) \in Nat /\ Len(c) >= 1 /\ Len(q) = Len(c) + 1 /\ k \in 1..Len(c)
      /\ q[k] = a /\ q[k + 1] = f /\ k \in 1..Len(q) /\ k + 1 \in 1..Len(q)
  BY ListTyped DEF Divides
<1>1. ASSUME NEW x \in Files, NEW i \in 1..Len(q) PROVE q[i].entries[x] \in {Gone, es[x]}
  <2> DEFINE s == IF i <= k THEN i ELSE i - 1
  <2>1. s = IF i <= k THEN i ELSE i - 1
    OBVIOUS
  <2>2. i = k + 1 => s = k
    BY <1>0
  <2> HIDE DEF s
  <2>3. s \in 1..Len(c) /\ (i \notin {k, k + 1} => q[i] = c[s])
    BY <2>1, DividedFrom, SMTT(60)
  <2>4. \A j \in 1..Len(c) : c[j].entries[x] \in {Gone, es[x]}
    BY DEF Shows
  <2>5. CASE i \notin {k, k + 1}
    BY <2>3, <2>4, <2>5
  <2>6. CASE i \in {k, k + 1}
    BY <1>0, <2>4, <2>6 DEF Shares
  <2> QED
    BY <2>5, <2>6
<1>2. ASSUME NEW x \in Files, es[x] # Gone PROVE \E i \in 1..Len(q) : q[i].entries[x] = es[x]
  <2>1. PICK j \in 1..Len(c) : c[j].entries[x] = es[x]
    BY <1>2 DEF Shows
  <2>2. CASE j < k
    <3>1. j \in 1..(k - 1) /\ j \in 1..Len(q)
      BY <1>0, <2>2
    <3>2. q[j] = c[j]
      BY <3>1 DEF Divides
    <3> QED
      BY <2>1, <3>1, <3>2
  <2>3. CASE j = k
    BY <1>0, <2>1, <2>3 DEF Shares
  <2>4. CASE j > k
    <3> DEFINE i == j + 1
    <3>1. i \in (k + 2)..(Len(c) + 1) /\ i \in 1..Len(q) /\ i - 1 = j
      BY <1>0, <2>4
    <3> HIDE DEF i
    <3>2. q[i] = c[j]
      BY <3>1 DEF Divides
    <3> QED
      BY <2>1, <3>1, <3>2
  <2> QED
    BY <1>0, <2>2, <2>3, <2>4
<1> QED
  BY <1>1, <1>2 DEF Shows

(* A pair divided in two: where the root is.                               *)
LEMMA DividedRooted ==
  ASSUME NEW c, NEW k, NEW a, NEW f, NEW q, Divides(c, k, a, f, q), Apart(c),
         NEW r, Rooted(c, r), NEW s,
         Both(s) = IF Both(c[k].pair) \cap Both(r) # {} /\ 0 \in Present(f)
                   THEN Both(f.pair) ELSE Both(r)
  PROVE  Rooted(q, s)
<1>0. Len(c) \in Nat /\ Len(c) >= 1 /\ Len(q) = Len(c) + 1 /\ k \in 1..Len(c)
      /\ q[k] = a /\ q[k + 1] = f /\ k \in 1..Len(q) /\ k + 1 \in 1..Len(q) /\ IsList(c)
  BY ListTyped DEF Divides
<1>1. PICK j \in 1..Len(c) :
        /\ Both(c[j].pair) = Both(r) /\ 0 \in Present(c[j])
        /\ \A i \in (j + 1)..Len(c) : 0 \notin Present(c[i])
  BY DEF Rooted
<1>2. ASSUME NEW i \in (k + 2)..Len(q) PROVE q[i] = c[i - 1] /\ i - 1 \in (k + 1)..Len(c)
  <2>1. i \in (k + 2)..(Len(c) + 1)
    BY <1>0
  <2> QED
    BY <1>0, <2>1 DEF Divides
<1>3. ASSUME NEW i \in 1..(k - 1) PROVE q[i] = c[i] /\ i \in 1..Len(c) /\ i \in 1..Len(q)
  BY <1>0 DEF Divides
<1>4. Present(f) \subseteq Present(c[k]) /\ (0 \in Present(c[k]) => 0 \in Present(a))
      /\ Present(a) \subseteq Present(c[k]) /\ Both(a.pair) = Both(c[k].pair)
  BY DEF Divides
<1>5. CASE j < k
  <2>1. j \in 1..(k - 1) /\ j \in 1..Len(q)
    BY <1>0, <1>5
  <2>2. q[j] = c[j]
    BY <1>3, <2>1
  <2>3. Both(s) = Both(r)
    BY <1>0, <1>1, <1>5 DEF Apart
  <2>4. ASSUME NEW i \in (j + 1)..Len(q), 0 \in Present(q[i]) PROVE FALSE
    <3>0. i < k \/ i = k \/ i = k + 1 \/ i \in (k + 2)..Len(q)
      BY <1>0, <1>5
    <3>1. CASE i < k
      <4>1. i \in 1..(k - 1) /\ i \in (j + 1)..Len(c)
        BY <1>0, <1>5, <3>1
      <4> QED
        BY <1>1, <1>3, <2>4, <4>1
    <3>2. CASE i = k \/ i = k + 1
      <4>1. k \in (j + 1)..Len(c)
        BY <1>0, <1>5
      <4> QED
        BY <1>0, <1>1, <1>4, <2>4, <3>2, <4>1
    <3>3. CASE i \in (k + 2)..Len(q)
      <4>1. i - 1 \in (j + 1)..Len(c) /\ q[i] = c[i - 1]
        BY <1>0, <1>2, <1>5, <3>3
      <4> QED
        BY <1>1, <2>4, <4>1
    <3> QED
      BY <3>0, <3>1, <3>2, <3>3
  <2> QED
    BY <1>1, <2>1, <2>2, <2>3, <2>4 DEF Rooted
<1>6. CASE j = k
  <2>1. Both(c[k].pair) \cap Both(r) # {}
    <3>1. c[k].pair \in Pair
      BY <1>0, ListTyped
    <3>2. c[k].pair[1] \in Both(c[k].pair)
      BY <3>1, BothIs
    <3> QED
      BY <1>1, <1>6, <3>2
  <2>2. ASSUME NEW i \in (k + 2)..Len(q) PROVE 0 \notin Present(q[i])
    BY <1>1, <1>2, <1>6
  <2>3. CASE 0 \in Present(f)
    <3>1. Both(q[k + 1].pair) = Both(s) /\ 0 \in Present(q[k + 1])
      BY <1>0, <2>1, <2>3
    <3> DEFINE h == k + 1
    <3>2. h \in 1..Len(q) /\ Both(q[h].pair) = Both(s) /\ 0 \in Present(q[h])
      BY <1>0, <3>1
    <3>3. \A i \in (h + 1)..Len(q) : i \in (k + 2)..Len(q)
      BY <1>0
    <3> HIDE DEF h
    <3> QED
      BY <2>2, <3>2, <3>3 DEF Rooted
  <2>4. CASE 0 \notin Present(f)
    <3>1. Both(q[k].pair) = Both(s) /\ 0 \in Present(q[k])
      BY <1>0, <1>1, <1>4, <1>6, <2>4
    <3>2. ASSUME NEW i \in (k + 1)..Len(q) PROVE 0 \notin Present(q[i])
      <4>1. i = k + 1 \/ i \in (k + 2)..Len(q)
        BY <1>0
      <4> QED
        BY <1>0, <2>2, <2>4, <4>1
    <3> QED
      BY <1>0, <3>1, <3>2 DEF Rooted
  <2> QED
    BY <2>3, <2>4
<1>7. CASE j > k
  <2> DEFINE h == j + 1
  <2>1. h \in (k + 2)..Len(q) /\ h - 1 = j /\ h \in 1..Len(q)
    BY <1>0, <1>7
  <2>2. \A i \in (h + 1)..Len(q) : i \in (k + 2)..Len(q) /\ i - 1 \in (j + 1)..Len(c)
    BY <1>0, <1>7
  <2> HIDE DEF h
  <2>3. q[h] = c[j]
    BY <1>2, <2>1
  <2>4. Both(s) = Both(r)
    BY <1>0, <1>1, <1>7, SMTT(60) DEF Apart
  <2>5. \A i \in (h + 1)..Len(q) : 0 \notin Present(q[i])
    BY <1>1, <1>2, <2>2
  <2> QED
    BY <1>1, <2>1, <2>3, <2>4, <2>5 DEF Rooted
<1> QED
  BY <1>0, <1>5, <1>6, <1>7

LEMMA DividedUsed ==
  ASSUME NEW c, NEW k, NEW a, NEW f, NEW q, Divides(c, k, a, f, q)
  PROVE  UsedBy(q) \subseteq UsedBy(c) \cup Both(f.pair)
<1>0. IsList(c) /\ IsList(q)
  BY DEF Divides
<1> SUFFICES ASSUME NEW i \in 1..Len(q), NEW b \in Both(q[i].pair), b \notin Both(f.pair)
             PROVE  b \in UsedBy(c)
  BY <1>0, UsedIs
<1> DEFINE s == IF i <= k THEN i ELSE i - 1
<1>1. s = IF i <= k THEN i ELSE i - 1
  OBVIOUS
<1> HIDE DEF s
<1>2. s \in 1..Len(c) /\ (i # k + 1 => Both(q[i].pair) = Both(c[s].pair))
  BY <1>1, DividedFrom
<1>3. i # k + 1
  BY DEF Divides
<1> QED
  BY <1>0, <1>2, <1>3, UsedIs

-----------------------------------------------------------------------------
(* A pair is left out.                                                     *)
LEMMA DropFrom ==
  ASSUME NEW c, IsList(c), NEW k \in 2..Len(c), NEW q, q = Drop(c, k), NEW i \in 1..Len(q),
         NEW s, s = IF i < k THEN i ELSE i + 1
  PROVE  s \in 1..Len(c) /\ q[i] = c[s] /\ s # k
<1>0. Len(c) \in Nat
  BY ListTyped
<1>1. Len(q) = Len(c) - 1
  BY DropIs
<1>2. CASE i < k
  <2>1. i \in 1..(k - 1) /\ s = i
    BY <1>0, <1>2
  <2>2. q[i] = c[i]
    BY <2>1, DropIs
  <2> QED
    BY <1>0, <2>1, <2>2
<1>3. CASE i >= k
  <2>1. i \in k..(Len(c) - 1) /\ s = i + 1 /\ s \in 1..Len(c)
    BY <1>0, <1>1, <1>3
  <2>2. q[i] = c[i + 1]
    BY <2>1, DropIs
  <2> QED
    BY <1>0, <1>3, <2>1, <2>2
<1> QED
  BY <1>0, <1>2, <1>3

LEMMA DropProper ==
  ASSUME NEW c, IsList(c), Proper(c), NEW k \in 2..Len(c)
  PROVE  Proper(Drop(c, k)) /\ UsedBy(Drop(c, k)) \subseteq UsedBy(c)
<1> DEFINE q == Drop(c, k)
           S(i) == IF i < k THEN i ELSE i + 1
<1>0. Len(c) \in Nat /\ Len(q) = Len(c) - 1 /\ IsList(q) /\ Len(q) >= 1
  BY ListTyped, DropIs
<1>1. ASSUME NEW i \in 1..Len(q) PROVE S(i) \in 1..Len(c) /\ q[i] = c[S(i)]
  <2> DEFINE s == S(i)
  <2>1. s = IF i < k THEN i ELSE i + 1
    OBVIOUS
  <2>2. q = Drop(c, k)
    OBVIOUS
  <2> HIDE DEF s, q
  <2>3. s \in 1..Len(c) /\ q[i] = c[s]
    BY <2>1, <2>2, DropFrom
  <2> QED
    BY <2>3 DEF s
<1> HIDE DEF q
<1>2. \A i, j \in 1..Len(q) : (i < j => S(i) < S(j)) /\ (i # j => S(i) # S(j))
  BY <1>0
<1>3. 1 \in 1..Len(q) /\ S(1) = 1
  BY <1>0
<1> HIDE DEF S
<1>4. Apart(q) /\ Sorted(q)
  BY <1>1, <1>2 DEF Proper, Apart, Sorted
<1>5. 0 \in Present(q[1])
  BY <1>1, <1>3 DEF Proper
<1>6. UsedBy(q) \subseteq UsedBy(c)
  BY <1>0, <1>1, UsedIs
<1> QED
  BY <1>4, <1>5, <1>6 DEF Proper, q

(* Leaving out a pair with no entry: every file is still there.            *)
LEMMA DropShows ==
  ASSUME NEW c, IsList(c), Sorted(c), NEW k \in 2..Len(c), NEW f \in Files, Present(c[k]) = {f},
         NEW es \in EntryTable, Shows(c, es)
  PROVE  Shows(Drop(c, k), [es EXCEPT ![f] = Gone])
<1> DEFINE q == Drop(c, k)
           S(i) == IF i < k THEN i ELSE i + 1
           fs == [es EXCEPT ![f] = Gone]
<1>0. Len(c) \in Nat /\ Len(q) = Len(c) - 1 /\ k \in 1..Len(c)
  BY ListTyped, DropIs
<1>1. ASSUME NEW i \in 1..Len(q) PROVE S(i) \in 1..Len(c) /\ q[i] = c[S(i)] /\ S(i) # k
  <2> DEFINE s == S(i)
  <2>1. s = IF i < k THEN i ELSE i + 1
    OBVIOUS
  <2>2. q = Drop(c, k)
    OBVIOUS
  <2> HIDE DEF s, q
  <2>3. s \in 1..Len(c) /\ q[i] = c[s] /\ s # k
    BY <2>1, <2>2, DropFrom
  <2> QED
    BY <2>3 DEF s
<1>2. ASSUME NEW j \in 1..Len(c), j # k PROVE \E i \in 1..Len(q) : S(i) = j
  <2>1. CASE j < k
    BY <1>0, <2>1
  <2>2. CASE j > k
    <3>1. j - 1 \in 1..Len(q) /\ S(j - 1) = j
      BY <1>0, <2>2
    <3> QED
      BY <3>1
  <2> QED
    BY <1>0, <1>2, <2>1, <2>2
<1>3. fs[f] = Gone /\ \A x \in Files : x # f => fs[x] = es[x]
  BY DEF EntryTable
<1>4. ASSUME NEW j \in 1..Len(c), j # k PROVE c[j].entries[f] = Gone
  <2>1. f \in Present(c[k]) /\ f \in Names
    BY FilesNames
  <2>2. f \notin Present(c[j])
    BY <1>0, <1>4, <2>1, OnePlace
  <2> QED
    BY <2>1, <2>2, PresentIs
<1>5. ASSUME NEW x \in Files, x # f PROVE c[k].entries[x] = Gone
  <2>1. x \in Names /\ x \notin Present(c[k])
    BY <1>5, FilesNames
  <2> QED
    BY <2>1, PresentIs
<1> HIDE DEF q, S, fs
<1>6. ASSUME NEW x \in Files, NEW i \in 1..Len(q) PROVE q[i].entries[x] \in {Gone, fs[x]}
  <2> DEFINE j == S(i)
  <2>1. j \in 1..Len(c) /\ q[i] = c[j] /\ j # k
    BY <1>1
  <2> HIDE DEF j
  <2>2. c[j].entries[x] \in {Gone, es[x]}
    BY <2>1 DEF Shows
  <2>3. x = f => c[j].entries[x] = Gone
    BY <1>4, <2>1
  <2> QED
    BY <1>3, <2>1, <2>2, <2>3
<1>7. ASSUME NEW x \in Files, fs[x] # Gone PROVE \E i \in 1..Len(q) : q[i].entries[x] = fs[x]
  <2>1. x # f /\ fs[x] = es[x]
    BY <1>3, <1>7
  <2>2. PICK j \in 1..Len(c) : c[j].entries[x] = es[x]
    BY <1>7, <2>1 DEF Shows
  <2>3. j # k
    BY <1>5, <1>7, <2>1, <2>2
  <2>4. PICK i \in 1..Len(q) : S(i) = j
    BY <1>2, <2>3
  <2> QED
    BY <1>1, <2>1, <2>2, <2>4
<1>8. Shows(q, fs)
  BY <1>6, <1>7 DEF Shows
<1> QED
  BY <1>8 DEF q, fs

LEMMA DropRooted ==
  ASSUME NEW c, IsList(c), NEW k \in 2..Len(c), 0 \notin Present(c[k]), NEW r, Rooted(c, r)
  PROVE  Rooted(Drop(c, k), r)
<1> DEFINE q == Drop(c, k)
           S(i) == IF i < k THEN i ELSE i + 1
<1>0. Len(c) \in Nat /\ Len(q) = Len(c) - 1
  BY ListTyped, DropIs
<1>1. ASSUME NEW i \in 1..Len(q) PROVE S(i) \in 1..Len(c) /\ q[i] = c[S(i)]
  <2> DEFINE s == S(i)
  <2>1. s = IF i < k THEN i ELSE i + 1
    OBVIOUS
  <2>2. q = Drop(c, k)
    OBVIOUS
  <2> HIDE DEF s, q
  <2>3. s \in 1..Len(c) /\ q[i] = c[s]
    BY <2>1, <2>2, DropFrom
  <2> QED
    BY <2>3 DEF s
<1>2. PICK j \in 1..Len(c) :
        /\ Both(c[j].pair) = Both(r) /\ 0 \in Present(c[j])
        /\ \A i \in (j + 1)..Len(c) : 0 \notin Present(c[i])
  BY DEF Rooted
<1> DEFINE h == IF j < k THEN j ELSE j - 1
<1>3. j # k
  BY <1>2
<1> HIDE DEF q
<1>4. h \in 1..Len(q) /\ S(h) = j
  BY <1>0, <1>3
<1>5. \A i \in (h + 1)..Len(q) : i \in 1..Len(q) /\ S(i) \in (j + 1)..Len(c)
  BY <1>0, <1>3
<1> HIDE DEF h, S
<1>6. Rooted(q, r)
  BY <1>1, <1>2, <1>4, <1>5 DEF Rooted
<1> QED
  BY <1>6 DEF q

-----------------------------------------------------------------------------
(* The entry of a file is changed where a lookup of it ends.               *)
Changes(m, f, v, n) ==
  n.pair = m.pair /\ \A x \in Names : n.entries[x] = IF x = f THEN v ELSE m.entries[x]

LEMMA ChangedPresent ==
  ASSUME NEW m, NEW f \in Files, NEW v, NEW n, Changes(m, f, v, n)
  PROVE  /\ \A x \in Names : x # f => (x \in Present(n) <=> x \in Present(m))
         /\ Present(n) \subseteq Present(m) \cup {f}
         /\ 0 \in Present(n) <=> 0 \in Present(m)
<1>1. \A x \in Names : x # f => (x \in Present(n) <=> x \in Present(m))
  BY PresentIs DEF Changes
<1>2. 0 \in Names /\ f # 0
  BY FilesNames
<1>3. Present(n) \subseteq Names
  BY PresentIs
<1> QED
  BY <1>1, <1>2, <1>3

LEMMA ChangedProper ==
  ASSUME NEW c, IsList(c), Proper(c), NEW k, NEW f \in Files, FoundAt(c, k, f),
         NEW v, NEW n \in Mdir, Changes(c[k], f, v, n)
  PROVE  Proper(Put(c, k, n))
<1> DEFINE q == Put(c, k, n)
<1>0. Len(c) \in Nat /\ k \in 1..Len(c)
  BY ListTyped DEF FoundAt
<1>1. Len(q) = Len(c) /\ q[k] = n /\ \A i \in 1..Len(c) : i # k => q[i] = c[i]
  BY <1>0, PutIs
<1>2. Apart(q)
  <2>1. \A i \in 1..Len(c) : i # k => Both(c[i].pair) \cap Both(n.pair) = {}
    BY <1>0 DEF Proper, Apart, Changes
  <2> QED
    BY <1>0, <2>1, PutApart DEF Proper
<1> HIDE DEF q
<1>3. Present(n) \subseteq Present(c[k]) \cup {f} /\ (0 \in Present(n) <=> 0 \in Present(c[k])) /\ f # 0
  BY ChangedPresent, FilesNames
<1>4. ASSUME NEW i \in 1..Len(q), NEW j \in 1..Len(q), i < j PROVE Below(q[i], q[j])
  <2>1. Below(c[i], c[j])
    BY <1>1, <1>4 DEF Proper, Sorted
  <2>2. CASE i = k
    <3>1. j \in (k + 1)..Len(c) /\ q[j] = c[j]
      BY <1>0, <1>1, <1>4, <2>2
    <3>2. \A y \in Present(c[j]) : y > f
      BY <3>1 DEF FoundAt
    <3>3. \A y \in Present(c[j]) : y \in Nat
      BY FilesNames, PresentIs
    <3>4. f \in Nat
      BY FilesNames
    <3>5. \A y \in Present(c[j]) : f < y
      BY <3>2, <3>3, <3>4
    <3> QED
      BY <1>1, <1>3, <2>1, <2>2, <3>1, <3>5 DEF Below
  <2>3. CASE j = k
    <3>1. i \in 1..(k - 1) /\ q[i] = c[i]
      BY <1>0, <1>1, <1>4, <2>3
    <3>2. \A x \in Present(c[i]) : x < f
      BY <3>1 DEF FoundAt
    <3> QED
      BY <1>1, <1>3, <2>1, <2>3, <3>1, <3>2 DEF Below
  <2>4. CASE i # k /\ j # k
    BY <1>1, <2>1, <2>4
  <2> QED
    BY <2>2, <2>3, <2>4
<1>5. 0 \in Present(q[1])
  <2>1. 1 \in 1..Len(c) /\ 0 \in Present(c[1])
    BY ListTyped DEF Proper
  <2> QED
    BY <1>1, <1>3, <2>1
<1>6. Sorted(q)
  BY <1>4 DEF Sorted
<1> QED
  BY <1>2, <1>5, <1>6 DEF Proper, q

(* The change of an entry is all that shows.                               *)
LEMMA ChangedShows ==
  ASSUME NEW c, IsList(c), NEW k, NEW f \in Files, FoundAt(c, k, f),
         NEW v, NEW n \in Mdir, Changes(c[k], f, v, n), NEW es \in EntryTable, Shows(c, es)
  PROVE  Shows(Put(c, k, n), [es EXCEPT ![f] = v])
<1> DEFINE q == Put(c, k, n)
           fs == [es EXCEPT ![f] = v]
<1>0. Len(c) \in Nat /\ k \in 1..Len(c)
  BY ListTyped DEF FoundAt
<1>1. Len(q) = Len(c) /\ q[k] = n /\ \A i \in 1..Len(c) : i # k => q[i] = c[i]
  BY <1>0, PutIs
<1>2. fs[f] = v /\ \A x \in Files : x # f => fs[x] = es[x]
  BY DEF EntryTable
<1>3. ASSUME NEW i \in 1..Len(c), i # k PROVE c[i].entries[f] = Gone
  <2>1. i \in 1..(k - 1) \/ i \in (k + 1)..Len(c)
    BY <1>0, <1>3
  <2>2. f \in Names /\ f \in Nat /\ ~(f < f) /\ ~(f > f)
    BY FilesNames
  <2>3. f \notin Present(c[i])
    BY <2>1, <2>2 DEF FoundAt
  <2> QED
    BY <2>2, <2>3, PresentIs
<1>4. n.entries[f] = v /\ \A x \in Files : x # f => n.entries[x] = c[k].entries[x]
  BY FilesNames DEF Changes
<1> HIDE DEF q, fs
<1>5. ASSUME NEW x \in Files, NEW i \in 1..Len(q) PROVE q[i].entries[x] \in {Gone, fs[x]}
  <2>1. c[i].entries[x] \in {Gone, es[x]}
    BY <1>1 DEF Shows
  <2>2. CASE i = k
    BY <1>1, <1>2, <1>4, <2>1, <2>2
  <2>3. CASE i # k
    BY <1>1, <1>2, <1>3, <2>1, <2>3
  <2> QED
    BY <2>2, <2>3
<1>6. ASSUME NEW x \in Files, fs[x] # Gone PROVE \E i \in 1..Len(q) : q[i].entries[x] = fs[x]
  <2>1. CASE x = f
    BY <1>0, <1>1, <1>2, <1>4, <2>1
  <2>2. CASE x # f
    <3>1. PICK i \in 1..Len(c) : c[i].entries[x] = es[x]
      BY <1>2, <1>6, <2>2 DEF Shows
    <3>2. q[i].entries[x] = es[x]
      BY <1>1, <1>4, <2>2, <3>1
    <3> QED
      BY <1>1, <1>2, <2>2, <3>2
  <2> QED
    BY <2>1, <2>2
<1>7. Shows(q, fs)
  BY <1>5, <1>6 DEF Shows
<1> QED
  BY <1>7 DEF q, fs

-----------------------------------------------------------------------------
(* The list c on the disk, and the list q it is to become: alike before k, *)
(* and from k + 1 on already on the disk.                                  *)
Plan(d, c, q, k) ==
  /\ Listed(d, c) /\ Proper(c)
  /\ IsList(q) /\ k \in 1..Len(q) /\ k \in 1..Len(c)
  /\ \A i \in 1..(k - 1) : q[i] = c[i]
  /\ Linked(d, q, k)
  /\ Proper(q)

(* The disk differs in the blocks of x only.                               *)
Differs(d, e, x) == \A b \in Blocks : b \notin x => e[b] = d[b]

LEMMA Unharmed ==
  ASSUME NEW d \in Disk, NEW e \in Disk, NEW p, NEW m, Reads(d, p, m),
         NEW x, Differs(d, e, x), Both(m.pair) \cap x = {}
  PROVE  Reads(e, p, m) /\ Reads(e, m.pair, m)
<1>1. p \in Pair /\ Both(p) = Both(m.pair) /\ m.pair \in Pair
  BY ReadsPlace
<1>2. p[1] \in Both(p) /\ p[2] \in Both(p) /\ p[1] \in Blocks /\ p[2] \in Blocks
  BY <1>1, BothIs, PairKinds
<1>3. e[p[1]] = d[p[1]] /\ e[p[2]] = d[p[2]]
  BY <1>1, <1>2 DEF Differs
<1>4. Reads(e, p, m)
  BY <1>3, ReadsUnharmed
<1> QED
  BY <1>1, <1>4, ReadsAt

LEMMA PlanSizes ==
  ASSUME NEW d \in Disk, NEW c, NEW q, NEW k, Plan(d, c, q, k)
  PROVE  /\ Listed(d, c) /\ IsList(c) /\ IsList(q) /\ Proper(c) /\ Proper(q) /\ Apart(c) /\ Apart(q)
         /\ Len(c) \in Nat /\ Len(q) \in Nat /\ k \in 1..Len(c) /\ k \in 1..Len(q) /\ k \in Nat
         /\ Linked(d, q, k)
         /\ c[k].pair \in Pair /\ c[k] \in Mdir /\ Reads(d, c[k].pair, c[k])
<1>1. Listed(d, c) /\ IsList(c) /\ IsList(q) /\ Proper(c) /\ Proper(q) /\ k \in 1..Len(c) /\ k \in 1..Len(q)
      /\ Linked(d, q, k)
  BY DEF Plan, Listed
<1>2. Len(c) \in Nat /\ Len(q) \in Nat
  BY <1>1, ListTyped
<1> QED
  BY <1>1, <1>2, ListedReads DEF Proper

LEMMA PairUsed ==
  ASSUME NEW c, IsList(c), NEW i \in 1..Len(c), NEW x, x \cap UsedBy(c) = {}
  PROVE  Both(c[i].pair) \cap x = {}
  BY UsedIs

LEMMA OthersApart ==
  ASSUME NEW c, Apart(c), NEW k \in 1..Len(c), NEW i \in 1..Len(c), i # k,
         NEW x, x \subseteq Both(c[k].pair)
  PROVE  Both(c[i].pair) \cap x = {}
<1>1. Both(c[i].pair) \cap Both(c[k].pair) = {}
  BY DEF Apart
<1> QED
  BY <1>1

(* A write to blocks that neither list has.                                *)
LEMMA AsideStays ==
  ASSUME NEW d \in Disk, NEW e \in Disk, NEW c, Listed(d, c),
         NEW x, Differs(d, e, x), x \cap UsedBy(c) = {}
  PROVE  Listed(e, c)
<1>1. ASSUME NEW i \in (0 + 1)..Len(c) PROVE Reads(e, c[i].pair, c[i])
  <2>1. i \in 1..Len(c) /\ IsList(c)
    BY DEF Listed
  <2>2. Both(c[i].pair) \cap x = {}
    BY <2>1, PairUsed
  <2>3. Reads(d, c[i].pair, c[i])
    BY <2>1, ListedReads
  <2> QED
    BY <2>2, <2>3, Unharmed
<1>2. StillRead(e, c, 0)
  BY <1>1 DEF StillRead
<1> QED
  BY <1>2, ListStays

LEMMA AsideLinked ==
  ASSUME NEW d \in Disk, NEW e \in Disk, NEW c, IsList(c), NEW k \in 1..Len(c), Linked(d, c, k),
         NEW x, Differs(d, e, x), x \cap UsedBy(c) = {}
  PROVE  Linked(e, c, k)
<1>0. Len(c) \in Nat
  BY ListTyped
<1>1. ASSUME NEW i \in (k + 1)..Len(c) PROVE Reads(e, c[i].pair, c[i])
  <2>1. i \in 1..Len(c)
    BY <1>0
  <2>2. Both(c[i].pair) \cap x = {}
    BY <2>1, PairUsed
  <2>3. Reads(d, c[i - 1].tail, c[i])
    BY DEF Linked
  <2> QED
    BY <2>2, <2>3, Unharmed
<1>2. StillRead(e, c, k)
  BY <1>1 DEF StillRead
<1> QED
  BY <1>2, LinkedStays

LEMMA PlanAside ==
  ASSUME NEW d \in Disk, NEW e \in Disk, NEW c, NEW q, NEW k, Plan(d, c, q, k),
         NEW x, Differs(d, e, x), x \cap UsedBy(c) = {}, x \cap UsedBy(q) = {}
  PROVE  Plan(e, c, q, k)
<1>1. Listed(e, c)
  BY AsideStays, PlanSizes
<1>2. Linked(e, q, k)
  BY AsideLinked, PlanSizes
<1> QED
  BY <1>1, <1>2 DEF Plan

(* What lies behind a pair does not depend on its blocks.                  *)
LEMMA BehindStays ==
  ASSUME NEW d \in Disk, NEW e \in Disk, NEW c, IsList(c), Apart(c), NEW k \in 1..Len(c),
         Linked(d, c, k), NEW x, Differs(d, e, x), x \subseteq Both(c[k].pair)
  PROVE  Linked(e, c, k)
<1>0. Len(c) \in Nat
  BY ListTyped
<1>1. ASSUME NEW i \in (k + 1)..Len(c) PROVE Reads(e, c[i].pair, c[i])
  <2>1. i \in 1..Len(c) /\ i # k
    BY <1>0
  <2>2. Both(c[i].pair) \cap x = {}
    BY <2>1, OthersApart
  <2>3. Reads(d, c[i - 1].tail, c[i])
    BY DEF Linked
  <2> QED
    BY <2>2, <2>3, Unharmed
<1>2. StillRead(e, c, k)
  BY <1>1 DEF StillRead
<1> QED
  BY <1>2, LinkedStays

(* A write to the block of pair k that is not in force, which comes to     *)
(* nothing.                                                                *)
LEMMA TornStays ==
  ASSUME NEW d \in Disk, NEW e \in Disk, NEW c, Listed(d, c), Apart(c), NEW k \in 1..Len(c),
         Differs(d, e, {c[k].pair[2]}), Commits(e[c[k].pair[2]].log) = 0
  PROVE  Listed(e, c)
<1>0. IsList(c) /\ Len(c) \in Nat
  BY ListTyped DEF Listed
<1>1. ASSUME NEW i \in (0 + 1)..Len(c) PROVE Reads(e, c[i].pair, c[i])
  <2>1. i \in 1..Len(c) /\ Reads(d, c[i].pair, c[i]) /\ c[k].pair \in Pair
    BY ListedReads
  <2>2. CASE i = k
    <3>1. c[k].pair[1] # c[k].pair[2] /\ c[k].pair[1] \in Blocks
      BY ListedReads, PairKinds
    <3>2. e[c[k].pair[1]] = d[c[k].pair[1]]
      BY <3>1 DEF Differs
    <3> QED
      BY <2>1, <2>2, <3>2, ReadsPastTorn
  <2>3. CASE i # k
    <3>1. {c[k].pair[2]} \subseteq Both(c[k].pair)
      BY <2>1, BothIs
    <3>2. Both(c[i].pair) \cap {c[k].pair[2]} = {}
      BY <2>1, <2>3, <3>1, OthersApart
    <3> QED
      BY <2>1, <3>2, Unharmed
  <2> QED
    BY <2>2, <2>3
<1>2. StillRead(e, c, 0)
  BY <1>1 DEF StillRead
<1> QED
  BY <1>2, ListStays

LEMMA PlanTorn ==
  ASSUME NEW d \in Disk, NEW e \in Disk, NEW c, NEW q, NEW k, Plan(d, c, q, k),
         Both(q[k].pair) = Both(c[k].pair),
         Differs(d, e, {c[k].pair[2]}), Commits(e[c[k].pair[2]].log) = 0
  PROVE  Plan(e, c, q, k)
<1>1. Listed(e, c)
  BY TornStays, PlanSizes
<1>2. {c[k].pair[2]} \subseteq Both(q[k].pair)
  BY PlanSizes, BothIs
<1>3. Linked(e, q, k)
  BY <1>2, BehindStays, PlanSizes
<1> QED
  BY <1>1, <1>3 DEF Plan

(* A write to pair k that puts in force what it is to become: the list on  *)
(* the disk is the new one.                                                *)
LEMMA PlanEffect ==
  ASSUME NEW d \in Disk, NEW e \in Disk, NEW c, NEW q, NEW k, Plan(d, c, q, k),
         Both(q[k].pair) = Both(c[k].pair), Differs(d, e, Both(c[k].pair)),
         NEW f, Reads(e, c[k].pair, f), f.entries = q[k].entries, f.tail = q[k].tail
  PROVE  /\ Listed(e, Put(q, k, f)) /\ Proper(Put(q, k, f)) /\ Alike(q, Put(q, k, f))
         /\ IsList(Put(q, k, f))
<1>0. /\ Listed(d, c) /\ IsList(c) /\ IsList(q) /\ Proper(q) /\ Apart(c) /\ Apart(q)
      /\ Len(c) \in Nat /\ Len(q) \in Nat /\ k \in 1..Len(c) /\ k \in 1..Len(q) /\ k \in Nat
      /\ c[k].pair \in Pair /\ Linked(d, q, k)
  BY PlanSizes
<1>1. f \in Mdir /\ Both(f.pair) = Both(c[k].pair)
  BY ReadsPlace
<1> DEFINE n == Put(q, k, f)
<1>2. IsList(n) /\ Len(n) = Len(q) /\ n[k] = f /\ \A i \in 1..Len(q) : i # k => n[i] = q[i]
  BY <1>0, <1>1, PutIs
<1>3. Proper(n) /\ Alike(q, n)
  BY <1>0, <1>1, PutSamePlace
<1> HIDE DEF n
<1>4. \A i \in 1..(k - 1) : n[i] = c[i] /\ i \in 1..Len(c)
  BY <1>0, <1>2 DEF Plan
<1>5. ASSUME NEW p, NEW i \in 1..Len(c), i # k, Reads(d, p, c[i]) PROVE Reads(e, p, c[i])
  <2>1. Both(c[i].pair) \cap Both(c[k].pair) = {}
    BY <1>0, <1>5 DEF Apart
  <2> QED
    BY <1>5, <2>1, Unharmed
<1>6. Reads(e, Head0, n[1])
  <2>1. CASE k = 1
    <3>1. Both(c[k].pair) = Both(Head0) /\ Head0 \in Pair
      BY <1>0, <2>1, ListedHead, HeadIsPair
    <3> QED
      BY <1>2, <2>1, <3>1, ReadsAt
  <2>2. CASE k # 1
    <3>1. 1 \in 1..(k - 1)
      BY <1>0, <2>2
    <3>2. Reads(d, Head0, c[1])
      BY <1>0 DEF Listed
    <3>3. Reads(e, Head0, c[1])
      BY <1>4, <1>5, <2>2, <3>1, <3>2
    <3> QED
      BY <1>4, <3>1, <3>3
  <2> QED
    BY <2>1, <2>2
<1>7. ASSUME NEW i \in (1 + 1)..Len(n) PROVE Reads(e, n[i - 1].tail, n[i])
  <2>1. CASE i < k
    <3>1. i \in 1..(k - 1) /\ i - 1 \in 1..(k - 1) /\ i \in (1 + 1)..Len(c)
      BY <1>0, <2>1
    <3>2. Reads(d, c[i - 1].tail, c[i])
      BY <1>0, <3>1 DEF Listed, Linked
    <3>3. Reads(e, c[i - 1].tail, c[i])
      BY <1>4, <1>5, <2>1, <3>1, <3>2, SMTT(60)
    <3> QED
      BY <1>4, <3>1, <3>3
  <2>2. CASE i = k
    <3>1. i - 1 \in 1..(k - 1) /\ i \in (1 + 1)..Len(c)
      BY <1>0, <2>2
    <3>2. Reads(d, c[i - 1].tail, c[i])
      BY <1>0, <3>1 DEF Listed, Linked
    <3>3. c[i - 1].tail \in Pair /\ Both(c[i - 1].tail) = Both(c[k].pair)
      BY <2>2, <3>2, ReadsPlace
    <3>4. Reads(e, c[i - 1].tail, f)
      BY <3>3, ReadsAt
    <3> QED
      BY <1>2, <1>4, <2>2, <3>1, <3>4
  <2>3. CASE i > k
    <3>1. i \in (k + 1)..Len(q) /\ i \in 1..Len(q) /\ i - 1 \in 1..Len(q) /\ i # k
      BY <1>0, <1>2, <2>3
    <3>2. Reads(d, q[i - 1].tail, q[i])
      BY <1>0, <3>1 DEF Linked
    <3>3. Both(q[i].pair) \cap Both(c[k].pair) = {}
      BY <1>0, <2>3, <3>1 DEF Apart
    <3>4. Reads(e, q[i - 1].tail, q[i])
      BY <3>2, <3>3, Unharmed
    <3>5. n[i] = q[i] /\ n[i - 1].tail = q[i - 1].tail
      BY <1>2, <2>3, <3>1
    <3> QED
      BY <3>4, <3>5
  <2> QED
    BY <1>0, <1>2, <2>1, <2>2, <2>3
<1>8. n[Len(n)].tail = Nil
  <2>1. Len(q) \in 1..Len(q) /\ q[Len(q)].tail = Nil
    BY <1>0 DEF Linked
  <2> QED
    BY <1>2, <2>1
<1>9. Listed(e, n)
  BY <1>2, <1>6, <1>7, <1>8 DEF Listed, Linked
<1> QED
  BY <1>2, <1>3, <1>9 DEF n

(* A list is a plan for itself.                                            *)
LEMMA PlanSelf ==
  ASSUME NEW d \in Disk, NEW c, Listed(d, c), Proper(c), NEW k \in 1..Len(c)
  PROVE  Plan(d, c, c, k)
<1>1. IsList(c) /\ Len(c) \in Nat /\ Linked(d, c, 1)
  BY ListTyped DEF Listed
<1>2. \A i \in (k + 1)..Len(c) : i \in (1 + 1)..Len(c)
  BY <1>1
<1>3. Linked(d, c, k)
  BY <1>1, <1>2 DEF Linked
<1> QED
  BY <1>1, <1>3 DEF Plan

(* A write to pair k that changes nothing of what it says.                 *)
LEMMA PlanTouched ==
  ASSUME NEW d \in Disk, NEW e \in Disk, NEW c, NEW q, NEW k, Plan(d, c, q, k),
         Both(q[k].pair) = Both(c[k].pair), Differs(d, e, Both(c[k].pair)),
         NEW f, Reads(e, c[k].pair, f), f.entries = c[k].entries, f.tail = c[k].tail
  PROVE  /\ Plan(e, Put(c, k, f), q, k) /\ Alike(c, Put(c, k, f))
         /\ UsedBy(Put(c, k, f)) = UsedBy(c)
<1>0. /\ Listed(d, c) /\ IsList(c) /\ IsList(q) /\ Proper(c) /\ Proper(q) /\ Apart(c) /\ Apart(q)
      /\ Len(c) \in Nat /\ Len(q) \in Nat /\ k \in 1..Len(c) /\ k \in 1..Len(q) /\ k \in Nat
      /\ c[k].pair \in Pair /\ Linked(d, q, k)
  BY PlanSizes
<1>1. f \in Mdir /\ Both(f.pair) = Both(c[k].pair)
  BY ReadsPlace
<1> DEFINE n == Put(c, k, f)
<1>2. IsList(n) /\ Len(n) = Len(c) /\ n[k] = f /\ \A i \in 1..Len(c) : i # k => n[i] = c[i]
  BY <1>0, <1>1, PutIs
<1>3. Plan(d, c, c, k)
  BY <1>0, PlanSelf
<1>4. Listed(e, n) /\ Proper(n) /\ Alike(c, n)
  BY <1>3, PlanEffect
<1> HIDE DEF n
<1>5. \A i \in 1..(k - 1) : q[i] = n[i]
  BY <1>0, <1>2 DEF Plan
<1>6. Linked(e, q, k)
  BY <1>0, BehindStays
<1>7. UsedBy(n) = UsedBy(c)
  <2>1. \A i \in 1..Len(c) : Both(n[i].pair) = Both(c[i].pair)
    BY <1>1, <1>2
  <2> QED
    BY <1>2, <2>1 DEF UsedBy
<1>8. Plan(e, n, q, k)
  BY <1>0, <1>2, <1>4, <1>5, <1>6 DEF Plan
<1> QED
  BY <1>4, <1>7, <1>8 DEF n

(* What pair k is to become is written elsewhere.                          *)
LEMMA PlanMoved ==
  ASSUME NEW d \in Disk, NEW e \in Disk, NEW c, NEW q, NEW k, Plan(d, c, q, k),
         NEW x, Differs(d, e, x), x \cap UsedBy(c) = {}, x \cap UsedBy(q) = {},
         NEW f \in Mdir, f.entries = q[k].entries, f.tail = q[k].tail,
         Both(f.pair) \subseteq Both(q[k].pair) \cup x
  PROVE  Plan(e, c, Put(q, k, f), k) /\ Alike(q, Put(q, k, f))
<1>0. /\ Listed(d, c) /\ IsList(c) /\ IsList(q) /\ Proper(c) /\ Proper(q) /\ Apart(c) /\ Apart(q)
      /\ Len(c) \in Nat /\ Len(q) \in Nat /\ k \in 1..Len(c) /\ k \in 1..Len(q) /\ k \in Nat
  BY PlanSizes
<1> DEFINE n == Put(q, k, f)
<1>1. IsList(n) /\ Len(n) = Len(q) /\ n[k] = f /\ \A i \in 1..Len(q) : i # k => n[i] = q[i]
  BY <1>0, PutIs
<1>2. ASSUME NEW i \in 1..Len(q), i # k PROVE Both(q[i].pair) \cap Both(f.pair) = {}
  <2>1. Both(q[i].pair) \cap Both(q[k].pair) = {}
    BY <1>0, <1>2 DEF Apart
  <2>2. Both(q[i].pair) \cap x = {}
    BY <1>0, PairUsed
  <2> QED
    BY <2>1, <2>2
<1>3. Apart(n) /\ Alike(q, n)
  BY <1>0, <1>2, PutApart, PutAlike
<1>4. Plan(e, c, q, k)
  BY PlanAside
<1> HIDE DEF n
<1>5. Proper(n)
  BY <1>0, <1>1, <1>3, AlikeProper DEF Proper
<1>6. Linked(e, n, k)
  <2>1. ASSUME NEW i \in (k + 1)..Len(n) PROVE Reads(e, n[i - 1].tail, n[i])
    <3>1. i \in 1..Len(q) /\ i - 1 \in 1..Len(q) /\ i # k /\ i \in (k + 1)..Len(q)
      BY <1>0, <1>1
    <3>2. n[i] = q[i] /\ n[i - 1].tail = q[i - 1].tail
      BY <1>1, <3>1
    <3>3. Reads(e, q[i - 1].tail, q[i])
      BY <1>4, <3>1 DEF Plan, Linked
    <3> QED
      BY <3>2, <3>3
  <2>2. n[Len(n)].tail = Nil
    <3>1. Len(q) \in 1..Len(q) /\ q[Len(q)].tail = Nil
      BY <1>0, <1>4 DEF Plan, Linked
    <3> QED
      BY <1>1, <3>1
  <2> QED
    BY <2>1, <2>2 DEF Linked
<1>7. \A i \in 1..(k - 1) : n[i] = c[i]
  BY <1>0, <1>1 DEF Plan
<1>8. Plan(e, c, n, k)
  BY <1>0, <1>1, <1>4, <1>5, <1>6, <1>7 DEF Plan
<1> QED
  BY <1>3, <1>8 DEF n

(* Pair k is to be two, and the second of them is written.                 *)
LEMMA PlanDivided ==
  ASSUME NEW d \in Disk, NEW e \in Disk, NEW c, NEW q, NEW k, Plan(d, c, q, k),
         NEW x, Differs(d, e, x), x \cap UsedBy(c) = {}, x \cap UsedBy(q) = {},
         NEW a, NEW f, NEW n, Divides(q, k, a, f, n), Proper(n),
         Reads(e, a.tail, f), f.tail = q[k].tail
  PROVE  Plan(e, c, n, k)
<1>0. /\ Listed(d, c) /\ IsList(c) /\ IsList(q) /\ Proper(c) /\ Proper(q) /\ Apart(c) /\ Apart(q)
      /\ Len(c) \in Nat /\ Len(q) \in Nat /\ k \in 1..Len(c) /\ k \in 1..Len(q) /\ k \in Nat
  BY PlanSizes
<1>1. /\ IsList(n) /\ Len(n) = Len(q) + 1 /\ n[k] = a /\ n[k + 1] = f
      /\ \A i \in 1..(k - 1) : n[i] = q[i]
      /\ \A i \in (k + 2)..(Len(q) + 1) : n[i] = q[i - 1]
  BY DEF Divides
<1>2. Plan(e, c, q, k)
  BY PlanAside
<1>3. ASSUME NEW i \in (k + 1)..Len(n) PROVE Reads(e, n[i - 1].tail, n[i])
  <2>1. CASE i = k + 1
    <3>1. i - 1 = k
      BY <1>0, <2>1
    <3> QED
      BY <1>1, <2>1, <3>1
  <2>2. CASE i = k + 2
    <3>1. i - 1 = k + 1 /\ i \in (k + 2)..(Len(q) + 1) /\ i - 1 \in (k + 1)..Len(q) /\ (i - 1) - 1 = k
      BY <1>0, <1>1, <2>2
    <3>2. Reads(e, q[k].tail, q[i - 1])
      BY <1>2, <3>1 DEF Plan, Linked
    <3>3. n[i] = q[i - 1] /\ n[i - 1] = f
      BY <1>1, <3>1
    <3> QED
      BY <3>2, <3>3
  <2>3. CASE i > k + 2
    <3>1. i \in (k + 2)..(Len(q) + 1) /\ i - 1 \in (k + 2)..(Len(q) + 1) /\ i - 1 \in (k + 1)..Len(q)
      BY <1>0, <1>1, <2>3
    <3>2. Reads(e, q[(i - 1) - 1].tail, q[i - 1])
      BY <1>2, <3>1 DEF Plan, Linked
    <3>3. n[i] = q[i - 1] /\ n[i - 1] = q[(i - 1) - 1]
      BY <1>1, <3>1
    <3> QED
      BY <3>2, <3>3
  <2> QED
    BY <1>0, <1>1, <2>1, <2>2, <2>3
<1>4. n[Len(n)].tail = Nil
  <2>1. q[Len(q)].tail = Nil
    BY <1>2 DEF Plan, Linked
  <2>2. CASE k = Len(q)
    BY <1>1, <2>1, <2>2
  <2>3. CASE k # Len(q)
    <3>1. Len(n) \in (k + 2)..(Len(q) + 1) /\ Len(n) - 1 = Len(q)
      BY <1>0, <1>1, <2>3
    <3> QED
      BY <1>1, <2>1, <3>1
  <2> QED
    BY <2>2, <2>3
<1>5. Linked(e, n, k)
  BY <1>3, <1>4 DEF Linked
<1>6. \A i \in 1..(k - 1) : n[i] = c[i]
  BY <1>1 DEF Plan
<1>7. k \in 1..Len(n) /\ Listed(e, c)
  BY <1>0, <1>1, <1>2 DEF Plan
<1> QED
  BY <1>0, <1>1, <1>5, <1>6, <1>7 DEF Plan

(* The pair before a moved one is to point to it.                          *)
LEMMA PlanBack ==
  ASSUME NEW d \in Disk, NEW c, NEW q, NEW k, Plan(d, c, q, k), k > 1,
         NEW a \in Mdir, NEW j, j = k - 1, a.pair = c[j].pair, a.entries = c[j].entries,
         Reads(d, a.tail, q[k])
  PROVE  Plan(d, c, Put(q, j, a), j) /\ Alike(q, Put(q, j, a))
<1>0. /\ Listed(d, c) /\ IsList(c) /\ IsList(q) /\ Proper(c) /\ Proper(q) /\ Apart(c) /\ Apart(q)
      /\ Len(c) \in Nat /\ Len(q) \in Nat /\ k \in 1..Len(c) /\ k \in 1..Len(q) /\ k \in Nat
  BY PlanSizes
<1>1. j \in 1..(k - 1) /\ j \in 1..Len(q) /\ j \in 1..Len(c) /\ j + 1 = k
  BY <1>0
<1>2. q[j] = c[j]
  BY <1>1 DEF Plan
<1> DEFINE n == Put(q, j, a)
<1>3. IsList(n) /\ Len(n) = Len(q) /\ n[j] = a /\ \A i \in 1..Len(q) : i # j => n[i] = q[i]
  BY <1>0, <1>1, PutIs
<1>4. Proper(n) /\ Alike(q, n)
  BY <1>0, <1>1, <1>2, PutSamePlace
<1> HIDE DEF n
<1>5. \A i \in 1..(j - 1) : n[i] = c[i]
  BY <1>0, <1>1, <1>3 DEF Plan
<1>6. ASSUME NEW i \in (j + 1)..Len(n) PROVE Reads(d, n[i - 1].tail, n[i])
  <2>1. CASE i = k
    <3>1. i - 1 = j /\ n[i] = q[k] /\ n[i - 1] = a
      BY <1>0, <1>1, <1>3, <2>1
    <3> QED
      BY <3>1
  <2>2. CASE i # k
    <3>1. i \in (k + 1)..Len(q) /\ n[i] = q[i] /\ n[i - 1] = q[i - 1]
      BY <1>0, <1>1, <1>3, <2>2
    <3> QED
      BY <3>1 DEF Plan, Linked
  <2> QED
    BY <2>1, <2>2
<1>7. n[Len(n)].tail = Nil
  <2>1. Len(q) \in 1..Len(q) /\ Len(q) # j
    BY <1>0, <1>1
  <2> QED
    BY <1>3, <2>1 DEF Plan, Linked
<1>8. Plan(d, c, n, j)
  BY <1>0, <1>1, <1>3, <1>4, <1>5, <1>6, <1>7 DEF Plan, Linked
<1> QED
  BY <1>4, <1>8 DEF n

(* An entry of pair k is to change.                                        *)
LEMMA PlanChanged ==
  ASSUME NEW d \in Disk, NEW c, Listed(d, c), NEW k \in 1..Len(c), Proper(c),
         NEW a \in Mdir, a.tail = c[k].tail, Proper(Put(c, k, a))
  PROVE  Plan(d, c, Put(c, k, a), k)
<1>0. IsList(c) /\ Len(c) \in Nat
  BY ListTyped DEF Listed
<1> DEFINE n == Put(c, k, a)
<1>1. IsList(n) /\ Len(n) = Len(c) /\ n[k] = a /\ \A i \in 1..Len(c) : i # k => n[i] = c[i]
  BY <1>0, PutIs
<1>2. Proper(n)
  OBVIOUS
<1> HIDE DEF n
<1>3. \A i \in 1..(k - 1) : n[i] = c[i]
  BY <1>0, <1>1
<1>4. \A i \in 1..Len(c) : n[i].tail = c[i].tail
  BY <1>1
<1>5. ASSUME NEW i \in (k + 1)..Len(n) PROVE Reads(d, n[i - 1].tail, n[i])
  <2>1. i \in (1 + 1)..Len(c) /\ i - 1 \in 1..Len(c) /\ i \in 1..Len(c) /\ i # k
    BY <1>0, <1>1
  <2>2. Reads(d, c[i - 1].tail, c[i])
    BY <2>1 DEF Listed, Linked
  <2> QED
    BY <1>1, <1>4, <2>1, <2>2
<1>6. n[Len(n)].tail = Nil
  <2>1. Len(c) \in 1..Len(c) /\ c[Len(c)].tail = Nil
    BY <1>0 DEF Listed, Linked
  <2> QED
    BY <1>1, <1>4, <2>1
<1>7. Plan(d, c, n, k)
  BY <1>0, <1>1, <1>2, <1>3, <1>5, <1>6 DEF Plan, Linked
<1> QED
  BY <1>7 DEF n

(* Pair k is to be left out: the pair before it gets its pointer.          *)
LEMMA PlanDropped ==
  ASSUME NEW d \in Disk, NEW c, Listed(d, c), Proper(c), NEW k \in 2..Len(c),
         NEW j, j = k - 1,
         NEW a \in Mdir, a.tail = c[k].tail, a.pair = c[j].pair, a.entries = c[j].entries
  PROVE  /\ Plan(d, c, Drop(Put(c, j, a), k), j) /\ Drop(Put(c, j, a), k)[j] = a
         /\ UsedBy(Drop(Put(c, j, a), k)) \subseteq UsedBy(c)
<1>0. IsList(c) /\ Len(c) \in Nat /\ j \in 1..Len(c) /\ j # k /\ k \in 1..Len(c)
  BY ListTyped DEF Listed
<1> DEFINE n == Put(c, j, a)
           q == Drop(n, k)
<1>1. IsList(n) /\ Len(n) = Len(c) /\ n[j] = a /\ \A i \in 1..Len(c) : i # j => n[i] = c[i]
  BY <1>0, PutIs
<1>2. Proper(n)
  BY <1>0, PutSamePlace
<1>3. UsedBy(n) = UsedBy(c)
  <2> HIDE DEF n
  <2>1. \A i \in 1..Len(c) : Both(n[i].pair) = Both(c[i].pair)
    BY <1>1
  <2> QED
    BY <1>1, <2>1 DEF UsedBy
<1> HIDE DEF n
<1>4. Proper(q) /\ UsedBy(q) \subseteq UsedBy(c)
  BY <1>1, <1>2, <1>3, DropProper
<1>5. /\ IsList(q) /\ Len(q) = Len(c) - 1
      /\ \A i \in 1..(k - 1) : q[i] = n[i]
      /\ \A i \in k..(Len(c) - 1) : q[i] = n[i + 1]
  <2>1. q = Drop(n, k) /\ k \in 2..Len(n)
    BY <1>1
  <2> HIDE DEF q
  <2>2. IsList(q) /\ Len(q) = Len(n) - 1 /\ \A i \in 1..(k - 1) : q[i] = n[i]
    BY <1>1, <2>1, DropIs
  <2>3. \A i \in k..(Len(n) - 1) : q[i] = n[i + 1]
    BY <1>1, <2>1, DropIs, ZenonT(60)
  <2> QED
    BY <1>1, <2>2, <2>3
<1> HIDE DEF q
<1>6. q[j] = a /\ j \in 1..Len(q)
  BY <1>0, <1>1, <1>5
<1>7. \A i \in 1..(j - 1) : q[i] = c[i]
  BY <1>0, <1>1, <1>5
<1>8. \A i \in k..(Len(c) - 1) : q[i] = c[i + 1] /\ i + 1 \in (1 + 1)..Len(c)
  BY <1>0, <1>1, <1>5
<1>9. ASSUME NEW i \in (j + 1)..Len(q) PROVE Reads(d, q[i - 1].tail, q[i])
  <2>1. i \in k..(Len(c) - 1) /\ (i + 1) - 1 = i
    BY <1>0, <1>5
  <2>2. Reads(d, c[i].tail, c[i + 1]) /\ q[i] = c[i + 1]
    BY <1>8, <2>1 DEF Listed, Linked
  <2>3. q[i - 1].tail = c[i].tail
    <3>1. CASE i = k
      BY <1>0, <1>6, <3>1
    <3>2. CASE i # k
      <4>1. i - 1 \in k..(Len(c) - 1) /\ (i - 1) + 1 = i
        BY <1>0, <2>1, <3>2
      <4> QED
        BY <1>8, <4>1
    <3> QED
      BY <3>1, <3>2
  <2> QED
    BY <2>2, <2>3
<1>10. q[Len(q)].tail = Nil
  <2>0. c[Len(c)].tail = Nil
    BY DEF Listed, Linked
  <2>1. CASE k = Len(c)
    <3>1. Len(q) = j
      BY <1>0, <1>5, <2>1
    <3> QED
      BY <1>6, <2>0, <2>1, <3>1
  <2>2. CASE k # Len(c)
    <3>1. Len(q) \in k..(Len(c) - 1) /\ Len(q) + 1 = Len(c)
      BY <1>0, <1>5, <2>2
    <3> QED
      BY <1>8, <2>0, <3>1
  <2> QED
    BY <2>1, <2>2
<1>11. Plan(d, c, q, j)
  BY <1>0, <1>4, <1>5, <1>6, <1>7, <1>9, <1>10 DEF Plan, Linked
<1> QED
  BY <1>4, <1>6, <1>11 DEF q, n

-----------------------------------------------------------------------------
(* Changed mdirs.                                                          *)

EntrySet == [Names -> Values \cup {Gone}]
SameRest(n, m) == n.off = m.off /\ n.phase = m.phase /\ n.erased = m.erased

LEMMA MdirFields ==
  ASSUME NEW m \in Mdir
  PROVE  /\ m.pair \in Pair /\ m.rev \in Rev /\ m.entries \in EntrySet /\ m.tail \in Pair \cup {Nil}
         /\ m.off \in 0..Slots /\ m.phase \in 0..1 /\ m.erased \in BOOLEAN
  BY DEF Mdir, EntrySet

Filled(m, es, t) == [m EXCEPT !.entries = es, !.tail = t]

LEMMA WithEntries ==
  ASSUME NEW m \in Mdir, NEW es \in EntrySet, NEW t \in Pair \cup {Nil}, NEW n,
         n = Filled(m, es, t)
  PROVE  n \in Mdir /\ n.pair = m.pair /\ n.rev = m.rev /\ n.entries = es /\ n.tail = t /\ SameRest(n, m)
<1> DEFINE TT == Pair \cup {Nil}
<1>1. Mdir = [pair : Pair, rev : Rev, entries : EntrySet, tail : TT, off : 0..Slots,
              phase : 0..1, erased : BOOLEAN]
  BY DEF Mdir, EntrySet
<1>2. t \in TT
  OBVIOUS
<1> HIDE DEF TT
<1>3. \A x \in [pair : Pair, rev : Rev, entries : EntrySet, tail : TT, off : 0..Slots,
              phase : 0..1, erased : BOOLEAN] :
        /\ [x EXCEPT !.entries = es, !.tail = t] \in
             [pair : Pair, rev : Rev, entries : EntrySet, tail : TT, off : 0..Slots,
              phase : 0..1, erased : BOOLEAN]
        /\ [x EXCEPT !.entries = es, !.tail = t].pair = x.pair
        /\ [x EXCEPT !.entries = es, !.tail = t].rev = x.rev
        /\ [x EXCEPT !.entries = es, !.tail = t].entries = es
        /\ [x EXCEPT !.entries = es, !.tail = t].tail = t
        /\ [x EXCEPT !.entries = es, !.tail = t].off = x.off
        /\ [x EXCEPT !.entries = es, !.tail = t].phase = x.phase
        /\ [x EXCEPT !.entries = es, !.tail = t].erased = x.erased
  BY <1>2
<1> QED
  BY <1>1, <1>3 DEF SameRest, Filled

LEMMA WithRev ==
  ASSUME NEW m \in Mdir, NEW r \in Rev, NEW n, n = [m EXCEPT !.rev = r]
  PROVE  n \in Mdir /\ n.pair = m.pair /\ n.rev = r /\ n.entries = m.entries /\ n.tail = m.tail
         /\ SameRest(n, m)
  BY DEF Mdir, SameRest

LEMMA WithPair ==
  ASSUME NEW m \in Mdir, NEW p \in Pair, NEW n, n = [m EXCEPT !.pair = p]
  PROVE  n \in Mdir /\ n.pair = p /\ n.rev = m.rev /\ n.entries = m.entries /\ n.tail = m.tail
         /\ SameRest(n, m)
  BY DEF Mdir, SameRest

LEMMA SwappedIs ==
  ASSUME NEW m \in Mdir
  PROVE  /\ Swapped(m) \in Mdir /\ Swapped(m).pair = Flip(m.pair) /\ Swapped(m).rev = m.rev
         /\ Swapped(m).entries = m.entries /\ Swapped(m).tail = m.tail
<1>1. Swapped(m) = [m EXCEPT !.pair = Flip(m.pair)]
  BY DEF Swapped, Flip, Mdir
<1>2. Flip(m.pair) \in Pair
  BY MdirFields, PairKinds
<1> QED
  BY <1>1, <1>2, WithPair

(* Another second block.                                                   *)
LEMMA WithBlock ==
  ASSUME NEW m \in Mdir, NEW b \in Blocks, NEW n, n = [m EXCEPT !.pair[2] = b]
  PROVE  n \in Mdir /\ n.pair = <<m.pair[1], b>> /\ n.rev = m.rev /\ n.entries = m.entries
         /\ n.tail = m.tail /\ SameRest(n, m)
<1>1. m.pair \in Pair
  BY MdirFields
<1>2. \A p \in Blocks \X Blocks : [p EXCEPT ![2] = b] = <<p[1], b>> /\ <<p[1], b>> \in Blocks \X Blocks
  OBVIOUS
<1>3. [m.pair EXCEPT ![2] = b] = <<m.pair[1], b>> /\ <<m.pair[1], b>> \in Pair
  BY <1>1, <1>2 DEF Pair
<1>4. n = [m EXCEPT !.pair = [m.pair EXCEPT ![2] = b]]
  OBVIOUS
<1>5. n = [m EXCEPT !.pair = <<m.pair[1], b>>]
  BY <1>3, <1>4
<1> QED
  BY <1>3, <1>5, WithPair

LEMMA NoMdirIs ==
  /\ NoMdir \in Mdir /\ NoMdir.pair = Head0 /\ NoMdir.tail = Nil /\ NoMdir.rev = 0
  /\ \A x \in Names : NoMdir.entries[x] = Gone
<1>1. Head0 \in Pair
  BY HeadIsPair
<1>2. 0 \in Rev /\ 0 \in 0..Slots /\ 1 \in 0..1 /\ FALSE \in BOOLEAN
  BY Geometry DEF Rev
<1>3. [x \in Names |-> Gone] \in EntrySet
  BY DEF EntrySet
<1> DEFINE es == [x \in Names |-> Gone]
<1>4. \A x \in Names : es[x] = Gone
  OBVIOUS
<1>5. NoMdir = [pair |-> Head0, rev |-> 0, entries |-> es, tail |-> Nil, off |-> 0, phase |-> 1,
                erased |-> FALSE]
  BY Zenon DEF NoMdir, Head0
<1> HIDE DEF es
<1>6. NoMdir \in [pair : Pair, rev : Rev, entries : EntrySet, tail : Pair \cup {Nil}, off : 0..Slots,
                  phase : 0..1, erased : BOOLEAN]
  BY <1>1, <1>2, <1>3, <1>5 DEF es
<1>7. NoMdir \in Mdir
  BY <1>6 DEF Mdir, EntrySet
<1>8. NoMdir.pair = Head0 /\ NoMdir.tail = Nil /\ NoMdir.rev = 0 /\ NoMdir.entries = es
  BY <1>5
<1> QED
  BY <1>4, <1>7, <1>8

(* A new mdir: where it is, its revision count, what it says.              *)
Made(p, r, es, t) == [NoMdir EXCEPT !.pair = p, !.rev = r, !.entries = es, !.tail = t]

LEMMA NewPair ==
  ASSUME NEW p \in Pair, NEW r \in Rev, NEW es \in EntrySet, NEW t \in Pair \cup {Nil}, NEW n,
         n = Made(p, r, es, t)
  PROVE  n \in Mdir /\ n.pair = p /\ n.rev = r /\ n.entries = es /\ n.tail = t
<1> DEFINE u == [NoMdir EXCEPT !.pair = p]
           v == [u EXCEPT !.rev = r]
           w == Filled(v, es, t)
<1>1. u \in Mdir /\ u.pair = p
  BY NoMdirIs, WithPair
<1>2. n = w
  BY DEF Filled, Made
<1> HIDE DEF u
<1>3. v \in Mdir /\ v.pair = p /\ v.rev = r
  BY <1>1, WithRev
<1> HIDE DEF v
<1>4. w \in Mdir /\ w.pair = p /\ w.rev = r /\ w.entries = es /\ w.tail = t
  BY <1>3, WithEntries
<1> HIDE DEF w
<1> QED
  BY <1>2, <1>4

(* The mdir a commit is made to, with the change applied.                  *)
LEMMA ChangedIs ==
  ASSUME NEW m \in Mdir, NEW put \in Puts, NEW tail \in Tails
  PROVE  /\ ChangedEntries(m, put) \in EntrySet /\ ChangedTail(m, tail) \in Pair \cup {Nil}
         /\ \A x \in Names : ChangedEntries(m, put)[x] = IF put[x] = Keep THEN m.entries[x] ELSE put[x]
<1>1. m.entries \in EntrySet /\ m.tail \in Pair \cup {Nil}
  BY MdirFields
<1>2. \A x \in Names : (IF put[x] = Keep THEN m.entries[x] ELSE put[x]) \in Values \cup {Gone}
  BY <1>1, GoneIsNone DEF Puts, EntrySet
<1>3. ChangedEntries(m, put) \in EntrySet
  BY <1>2 DEF ChangedEntries, EntrySet
<1>4. ChangedTail(m, tail) \in Pair \cup {Nil}
  BY <1>1 DEF ChangedTail, Tails
<1> QED
  BY <1>3, <1>4 DEF ChangedEntries

(* lfs_dir_commit's mdir after the change.                                 *)
ToCommit(m, put, tail) ==
  [m EXCEPT !.entries = [x \in Names |-> IF put[x] = Keep THEN m.entries[x] ELSE put[x]],
            !.tail = IF tail = <<Keep>> THEN @ ELSE tail]

LEMMA StartedIs ==
  ASSUME NEW m \in Mdir, NEW put \in Puts, NEW tail \in Tails, NEW n,
         n = ToCommit(m, put, tail)
  PROVE  /\ n \in Mdir /\ n.pair = m.pair /\ n.rev = m.rev /\ n.entries = ChangedEntries(m, put)
         /\ n.tail = ChangedTail(m, tail) /\ SameRest(n, m)
<1>1. n = Filled(m, ChangedEntries(m, put), ChangedTail(m, tail))
  BY DEF ChangedEntries, ChangedTail, Filled, ToCommit
<1> DEFINE es == ChangedEntries(m, put)
           t == ChangedTail(m, tail)
<1>2. es \in EntrySet /\ t \in Pair \cup {Nil}
  BY ChangedIs
<1>3. n = Filled(m, es, t)
  BY <1>1
<1> HIDE DEF es, t
<1>4. n \in Mdir /\ n.pair = m.pair /\ n.rev = m.rev /\ n.entries = es /\ n.tail = t /\ SameRest(n, m)
  BY <1>2, <1>3, WithEntries
<1> QED
  BY <1>4 DEF es, t

LEMMA RestrictedIs ==
  ASSUME NEW es \in EntrySet, NEW S
  PROVE  /\ Restricted(es, S) \in EntrySet
         /\ \A x \in Names : Restricted(es, S)[x] = IF x \in S THEN es[x] ELSE Gone
  BY DEF Restricted, EntrySet

-----------------------------------------------------------------------------
(* Writes to one pair, and what they do to entries and root.               *)

SamePlaces(c, q) == \A i \in 1..Len(c) : Both(q[i].pair) = Both(c[i].pair)

LEMMA PutSamePlaces ==
  ASSUME NEW c, IsList(c), NEW k \in 1..Len(c), NEW m \in Mdir, Both(m.pair) = Both(c[k].pair)
  PROVE  SamePlaces(c, Put(c, k, m))
<1> DEFINE q == Put(c, k, m)
<1>1. Len(q) = Len(c) /\ q[k] = m /\ \A i \in 1..Len(c) : i # k => q[i] = c[i]
  BY PutIs
<1> HIDE DEF q
<1>2. SamePlaces(c, q)
  BY <1>1 DEF SamePlaces
<1> QED
  BY <1>2 DEF q

LEMMA SameRooted ==
  ASSUME NEW c, IsList(c), NEW q, Alike(c, q), SamePlaces(c, q), NEW r, Rooted(c, r)
  PROVE  Rooted(q, r)
<1>0. Len(c) \in Nat /\ Len(q) = Len(c)
  BY ListTyped DEF Alike
<1>1. PICK j \in 1..Len(c) :
        /\ Both(c[j].pair) = Both(r) /\ 0 \in Present(c[j])
        /\ \A i \in (j + 1)..Len(c) : 0 \notin Present(c[i])
  BY DEF Rooted
<1>2. \A i \in 1..Len(c) : Present(q[i]) = Present(c[i])
  BY AlikePresent DEF Alike
<1>3. \A i \in (j + 1)..Len(c) : i \in 1..Len(c)
  BY <1>0
<1> QED
  BY <1>0, <1>1, <1>2, <1>3 DEF Rooted, SamePlaces

LEMMA SameUsed ==
  ASSUME NEW c, NEW q, Alike(c, q), SamePlaces(c, q)
  PROVE  UsedBy(q) = UsedBy(c)
  BY DEF UsedBy, Alike, SamePlaces

(* The planned list is on the disk: it shows what the operation is to do.  *)
LEMMA TakesEffect ==
  ASSUME NEW d \in Disk, NEW e \in Disk, NEW c, NEW q, NEW k, Plan(d, c, q, k),
         Both(q[k].pair) = Both(c[k].pair), Differs(d, e, Both(c[k].pair)),
         NEW f, Reads(e, c[k].pair, f), f.entries = q[k].entries, f.tail = q[k].tail,
         NEW es \in EntryTable, Shows(q, es), NEW r, Rooted(q, r),
         NEW n, n = Put(q, k, f)
  PROVE  /\ Listed(e, n) /\ Proper(n) /\ Shows(n, es) /\ Rooted(n, r) /\ EntriesOn(e) = es
         /\ UsedBy(n) = UsedBy(q) /\ SamePlaces(q, n) /\ Alike(q, n)
         /\ n[k] = f /\ Len(n) = Len(q) /\ \A i \in 1..Len(q) : i # k => n[i] = q[i]
<1>0. IsList(q) /\ k \in 1..Len(q)
  BY PlanSizes
<1>1. f \in Mdir /\ Both(f.pair) = Both(q[k].pair)
  BY ReadsPlace, PlanSizes
<1>2. Listed(e, n) /\ Proper(n) /\ Alike(q, n)
  BY PlanEffect
<1>3. SamePlaces(q, n)
  BY <1>0, <1>1, PutSamePlaces
<1>4. Shows(n, es)
  BY <1>2, AlikeShows
<1>5. Rooted(n, r) /\ UsedBy(n) = UsedBy(q)
  BY <1>0, <1>2, <1>3, SameRooted, SameUsed
<1>6. EntriesOn(e) = es
  BY <1>2, <1>4, ShownEntries DEF Proper
<1>7. n[k] = f /\ Len(n) = Len(q) /\ \A i \in 1..Len(q) : i # k => n[i] = q[i]
  BY <1>0, <1>1, PutIs
<1> QED
  BY <1>2, <1>3, <1>4, <1>5, <1>6, <1>7

LEMMA SameEntries ==
  ASSUME NEW d \in Disk, NEW e \in Disk, NEW c, NEW n, Listed(d, c), Proper(c),
         Listed(e, n), Apart(n), Alike(c, n)
  PROVE  EntriesOn(e) = EntriesOn(d)
<1>1. Shows(c, EntriesOn(d)) /\ EntriesOn(d) \in EntryTable
  BY EntriesShown
<1>2. Shows(n, EntriesOn(d))
  BY <1>1, AlikeShows
<1> QED
  BY <1>1, <1>2, ShownEntries

LEMMA AlikeSelf ==
  ASSUME NEW c
  PROVE  Alike(c, c) /\ SamePlaces(c, c)
  BY DEF Alike, SamePlaces

(* A write that changes nothing of what the list says.                     *)
LEMMA Touches ==
  ASSUME NEW d \in Disk, NEW e \in Disk, NEW c, NEW q, NEW k, Plan(d, c, q, k),
         Both(q[k].pair) = Both(c[k].pair), Differs(d, e, Both(c[k].pair)),
         NEW f, Reads(e, c[k].pair, f), f.entries = c[k].entries, f.tail = c[k].tail,
         NEW n, n = Put(c, k, f)
  PROVE  /\ Plan(e, n, q, k) /\ EntriesOn(e) = EntriesOn(d)
         /\ UsedBy(n) = UsedBy(c) /\ SamePlaces(c, n) /\ Alike(c, n)
         /\ n[k] = f /\ Listed(e, n) /\ Proper(n)
<1>0. IsList(c) /\ k \in 1..Len(c) /\ Listed(d, c) /\ Proper(c)
  BY PlanSizes
<1>1. f \in Mdir /\ Both(f.pair) = Both(c[k].pair)
  BY ReadsPlace
<1>2. Plan(e, n, q, k) /\ Alike(c, n) /\ UsedBy(n) = UsedBy(c)
  BY PlanTouched
<1>3. SamePlaces(c, n)
  BY <1>0, <1>1, PutSamePlaces
<1>4. n[k] = f
  BY <1>0, <1>1, PutIs
<1>5. Listed(e, n) /\ Proper(n) /\ Apart(n)
  BY <1>2, PlanSizes
<1>6. EntriesOn(e) = EntriesOn(d)
  BY <1>0, <1>2, <1>5, SameEntries
<1> QED
  BY <1>2, <1>3, <1>4, <1>5, <1>6

-----------------------------------------------------------------------------
(* The inductive invariant.                                                *)

(* A disk with no directory, with a list of pairs, and with a list whose   *)
(* root is where RAM has it.                                               *)
Blank(d) == Commits(d[R0].log) = 0 /\ Commits(d[R1].log) = 0
Formed(d) == \E c \in Seq(Mdir) : Listed(d, c) /\ Proper(c)
Sound(d, r) == \E c \in Seq(Mdir) : Listed(d, c) /\ Proper(c) /\ Rooted(c, r)

(* While formatting: the directory is to have a superblock entry only.     *)
Zero(m) == m.tail = Nil /\ m.entries = [x \in Names |-> IF x = 0 THEN Empty ELSE Gone]
Formatting ==
  /\ Zero(dir)
  /\ \/ /\ dir.pair = <<R1, R0>> /\ Blank(disk) /\ Newer(dir.rev, disk[R1].rev)
     \/ /\ dir.pair = <<R0, R1>> /\ Newer(dir.rev, disk[R0].rev)
        /\ \E c \in Seq(Mdir) : Listed(disk, c) /\ Len(c) = 1 /\ Zero(c[1]) /\ c[1].pair = <<R0, R1>>

(* During an operation there are two lists: c, which is on the disk, and   *)
(* q, which will be when the commit to pair k is done.                     *)
Fresh(c, q, x) == x \subseteq taken /\ x \cap UsedBy(c) = {} /\ x \cap UsedBy(q) = {}
Behind(q, k) == \A i \in 1..k : 0 \in Present(q[i]) /\ Both(q[i].pair) \cap Both(root) = {}

(* The commit is one to pair k itself: RAM has what it is to become.       *)
AtPair(c, q, k) ==
  /\ c[k].pair = old /\ q[k].pair = old
  /\ q[k].entries = dir.entries /\ q[k].tail = dir.tail
  /\ Rooted(c, root) \/ Behind(q, k)
(* Pair k was compacted elsewhere, and the commit to the pair before it is *)
(* still to be made: what q has at k is already on the disk.               *)
AtPred(c, q, k) ==
  /\ k > 1 /\ Both(c[k].pair) = Both(old) /\ Reads(disk, dir.pair, q[k])
  /\ Rooted(c, root) \/ Behind(q, k - 1)
(* The step an operation is at: appending, compacting, or writing a second *)
(* pair that is to come behind pair k.                                     *)
AtAppend(c, k) ==
  /\ c[k].erased /\ dir.off = c[k].off /\ dir.phase = c[k].phase
  /\ dir.entries = ChangedEntries(c[k], change.put) /\ dir.tail = ChangedTail(c[k], change.tail)
AtWrite(c, q, k) ==
  /\ dir.rev = Inc(c[k].rev)
  /\ dir.pair = old \/ /\ ~IsHead(old) /\ dir.pair[1] = old[1] /\ Fresh(c, q, {dir.pair[2]})
AtSplit(c, q) ==
  /\ split.pair[1] # split.pair[2] /\ Fresh(c, q, Both(split.pair))
  /\ Newer(split.rev, disk[split.pair[1]].rev) /\ split.tail = dir.tail
Upper0 ==
  /\ \A x \in Names : split.entries[x] \in {Gone, dir.entries[x]}
  /\ \A x \in Present(dir) \ Present(split), y \in Present(split) : x < y
  /\ 0 \notin Present(split) /\ Present(dir) # {0}

(* What RAM holds while the commit to pair k is under way.                 *)
Standing(c, q, k) ==
  /\ at = "pred" => AtPred(c, q, k)
  /\ at # "pred" => AtPair(c, q, k)
  /\ at \notin {"pred", "write"} => dir.pair = old /\ dir.rev = c[k].rev
  /\ at = "append" => AtAppend(c, k)
  /\ at = "write" => AtWrite(c, q, k)
  /\ at \in {"split", "expand"} => AtSplit(c, q)
  /\ at = "split" => Upper0
  /\ at = "expand" => IsHead(old) /\ split.entries = dir.entries

(* The list q has the entries that the operation is to leave.              *)
GoalEntries == [entries EXCEPT ![op[1]] = op[2]]
Goal(q) == Shows(q, GoalEntries) /\ Rooted(q, root)

Working(c, q, k) ==
  Plan(disk, c, q, k) /\ Goal(q) /\ UsedBy(q) \subseteq UsedBy(c) \cup taken /\ Standing(c, q, k)

(* The invariant.                                                          *)
InOp == \E c \in Seq(Mdir), q \in Seq(Mdir), k \in Nat : Working(c, q, k)

IInv ==
  /\ TypeOK
  /\ entries = EntriesOn(disk)
  /\ at \in {"blank", "mount", "idle"} => op = <<>>
  /\ op = <<>> => at \in {"blank", "mount", "idle", "write"}
  /\ at = "blank" => Blank(disk)
  /\ at = "mount" => Blank(disk) \/ Formed(disk)
  /\ at = "idle" => Sound(disk, root)
  /\ (at = "write" /\ op = <<>>) => Formatting
  /\ op # <<>> => InOp

-----------------------------------------------------------------------------
(* What every action starts from, and what it has to show.                 *)

LEMMA Typed ==
  ASSUME TypeOK
  PROVE  /\ disk \in Disk /\ root \in Pair /\ dir \in Mdir /\ split \in Mdir /\ old \in Pair
         /\ change.put \in Puts /\ change.tail \in Tails /\ taken \subseteq Blocks
         /\ entries \in EntryTable /\ error \in BOOLEAN /\ at \in Place
         /\ op # <<>> => op[1] \in Files /\ op[2] \in Values \cup {Gone} /\ GoalEntries \in EntryTable
<1>1. disk \in Disk /\ root \in Pair /\ dir \in Mdir /\ split \in Mdir /\ old \in Pair
      /\ taken \subseteq Blocks /\ entries \in EntryTable /\ error \in BOOLEAN /\ at \in Place
  BY DEF TypeOK, Disk, Log, EntryTable
<1>2. change.put \in Puts /\ change.tail \in Tails
  BY DEF TypeOK, Puts, Tails
<1>3. op # <<>> => op[1] \in Files /\ op[2] \in Values \cup {Gone}
  BY DEF TypeOK
<1>4. op # <<>> => GoalEntries \in EntryTable
  BY <1>1, <1>3 DEF GoalEntries, EntryTable
<1> QED
  BY <1>1, <1>2, <1>3, <1>4

LEMMA Started ==
  ASSUME IInv, op # <<>>
  PROVE  \E c, q, k : Working(c, q, k) /\ Shows(c, entries)
<1>1. PICK c \in Seq(Mdir), q \in Seq(Mdir), k \in Nat : Working(c, q, k)
  BY DEF IInv, InOp
<1>2. disk \in Disk /\ entries = EntriesOn(disk)
  BY Typed DEF IInv
<1>3. Listed(disk, c) /\ Proper(c)
  BY <1>1, <1>2, PlanSizes DEF Working
<1>4. Shows(c, entries)
  BY <1>2, <1>3, EntriesShown
<1> QED
  BY <1>1, <1>4

Quiet == UNCHANGED <<entries, op, error>>

(* What an operation that is over has to leave behind.                     *)
LEMMA ToIdle ==
  ASSUME TypeOK', entries' = EntriesOn(disk'), at' = "idle", op' = <<>>,
         NEW c, Listed(disk', c), Proper(c), Rooted(c, root')
  PROVE  IInv'
<1>1. c \in Seq(Mdir)
  BY DEF Listed, IsList
<1>2. Sound(disk, root)'
  BY <1>1 DEF Sound
<1> QED
  BY <1>2 DEF IInv

(* What a loss of power has to leave behind.                               *)
LEMMA ToMount ==
  ASSUME TypeOK', entries' = EntriesOn(disk'), at' = "mount", op' = <<>>,
         NEW c, Listed(disk', c), Proper(c)
  PROVE  IInv'
<1>1. c \in Seq(Mdir)
  BY DEF Listed, IsList
<1>2. Formed(disk)'
  BY <1>1 DEF Formed
<1> QED
  BY <1>2 DEF IInv

(* What an operation that goes on has to leave behind.                     *)
LEMMA ToOp ==
  ASSUME TypeOK', entries' = EntriesOn(disk'), at' \notin {"blank", "mount", "idle"}, op' # <<>>,
         NEW c, NEW q, NEW k, Working(c, q, k)'
  PROVE  IInv'
<1>1. c \in Seq(Mdir) /\ q \in Seq(Mdir) /\ k \in Nat
  <2>1. disk' \in Disk /\ Plan(disk', c, q, k)
    BY Typed DEF Working, TypeOK, Disk, Log
  <2> QED
    BY <2>1, PlanSizes DEF IsList
<1>2. InOp'
  BY <1>1 DEF InOp
<1> QED
  BY <1>2 DEF IInv

-----------------------------------------------------------------------------
(* Appending.                                                              *)

LEMMA ClearedIs ==
  ASSUME Cleared
  PROVE  /\ dir' \in Mdir /\ split' \in Mdir /\ old' \in Pair /\ taken' \subseteq Blocks
         /\ change' \in [put : [Names -> Values \cup {Gone, Keep}], tail : Pair \cup {Nil, <<Keep>>}]
<1>1. <<R0, R1>> \in Pair
  BY HeadIsPair DEF Pair
<1>2. Nothing \in [Names -> Values \cup {Gone, Keep}]
  BY DEF Nothing
<1> QED
  BY <1>1, <1>2, NoMdirIs DEF Cleared, NoChange

LEMMA Returned ==
  ASSUME TypeOK, NEW e \in BOOLEAN, Return(e), disk' \in Disk, root' \in Pair, entries' \in EntryTable
  PROVE  TypeOK' /\ at' = "idle" /\ op' = <<>> /\ error' = e
<1>1. at' = "idle" /\ op' = <<>> /\ error' = e /\ Cleared
  BY DEF Return
<1>2. at' \in Place
  BY <1>1 DEF Place
<1> QED
  BY <1>1, <1>2, ClearedIs DEF TypeOK, Disk, Log, EntryTable

LEMMA InOperation ==
  ASSUME IInv, at \notin {"blank", "mount", "idle"}, at = "write" => op # <<>>
  PROVE  /\ TypeOK /\ op # <<>> /\ entries = EntriesOn(disk)
         /\ \E c, q, k : /\ Working(c, q, k) /\ Shows(c, entries)
                         /\ Plan(disk, c, q, k) /\ Goal(q) /\ UsedBy(q) \subseteq UsedBy(c) \cup taken
                         /\ Standing(c, q, k)
<1>1. TypeOK /\ op # <<>> /\ entries = EntriesOn(disk)
  BY DEF IInv
<1>2. PICK c, q, k : Working(c, q, k) /\ Shows(c, entries)
  BY <1>1, Started
<1> QED
  BY <1>1, <1>2 DEF Working

(* An append that goes through: the list on the disk is the planned one.   *)
LEMMA AppendCommitStep ==
  ASSUME IInv, AppendCommit, entries' = EntriesOn(disk')
  PROVE  IInv' /\ Directory!Return
<1>1. at = "append" /\ Return(FALSE) /\ root' = root
      /\ disk' = [disk EXCEPT ![dir.pair[1]].log =
                    WithCommit(@, dir.off + 1, change.put, change.tail)]
  BY DEF AppendCommit
<1>2. TypeOK /\ op # <<>>
  BY <1>1, InOperation
<1>3. PICK c, q, k :
        Plan(disk, c, q, k) /\ Goal(q) /\ Standing(c, q, k)
  BY <1>1, InOperation
<1>4. AtPair(c, q, k) /\ AtAppend(c, k) /\ dir.pair = old
  BY <1>1, <1>3 DEF Standing
<1>5. /\ disk \in Disk /\ root \in Pair /\ change.put \in Puts /\ change.tail \in Tails
      /\ GoalEntries \in EntryTable
  BY <1>2, Typed
<1>6. /\ k \in 1..Len(c) /\ c[k] \in Mdir /\ Reads(disk, c[k].pair, c[k]) /\ c[k].pair \in Pair
      /\ Both(q[k].pair) = Both(c[k].pair)
  BY <1>3, <1>4, <1>5, PlanSizes DEF AtPair
<1>7. disk' = Appended(disk, c[k], change.put, change.tail)
  BY <1>1, <1>4 DEF Appended, AtPair, AtAppend
<1>8. c[k].erased
  BY <1>4 DEF AtAppend
<1>9. /\ disk' \in Disk
      /\ \A b \in Blocks : b # c[k].pair[1] => disk'[b] = disk[b]
      /\ \E F \in Mdir :
           /\ Reads(disk', c[k].pair, F)
           /\ F.entries = ChangedEntries(c[k], change.put) /\ F.tail = ChangedTail(c[k], change.tail)
  BY <1>5, <1>6, <1>7, <1>8, AppendedReads
<1>10. PICK F \in Mdir :
         /\ Reads(disk', c[k].pair, F)
         /\ F.entries = ChangedEntries(c[k], change.put) /\ F.tail = ChangedTail(c[k], change.tail)
  BY <1>9
<1>11. F.entries = q[k].entries /\ F.tail = q[k].tail
  BY <1>4, <1>10 DEF AtPair, AtAppend
<1>12. Differs(disk, disk', Both(c[k].pair))
  BY <1>6, <1>9, BothIs DEF Differs
<1>13. Shows(q, GoalEntries) /\ Rooted(q, root)
  BY <1>3 DEF Goal
<1>14. PICK n : n = Put(q, k, F)
  OBVIOUS
<1>15. /\ Listed(disk', n) /\ Proper(n) /\ Rooted(n, root) /\ EntriesOn(disk') = GoalEntries
  BY <1>3, <1>5, <1>6, <1>9, <1>10, <1>11, <1>12, <1>13, <1>14, TakesEffect
<1>16. TypeOK' /\ at' = "idle" /\ op' = <<>> /\ error' = FALSE
  BY <1>1, <1>2, <1>5, <1>9, <1>15, Returned
<1>17. IInv'
  BY <1>1, <1>15, <1>16, ToIdle
<1>18. entries' = [entries EXCEPT ![op[1]] = op[2]]
  BY <1>15 DEF GoalEntries
<1> QED
  BY <1>2, <1>16, <1>17, <1>18 DEF Directory!Return

(* An append that is cut short.                                            *)
LEMMA AppendTorn ==
  ASSUME TypeOK, entries = EntriesOn(disk), disk' = TornAppend, dir.pair = old,
         NEW c, NEW q, NEW k, Plan(disk, c, q, k), AtPair(c, q, k), AtAppend(c, k)
  PROVE  \E n : /\ disk' \in Disk /\ Plan(disk', n, q, k) /\ EntriesOn(disk') = entries
                 /\ UsedBy(n) = UsedBy(c) /\ SamePlaces(c, n) /\ Alike(c, n)
                 /\ n[k].pair = c[k].pair /\ n[k].rev = c[k].rev
                 /\ Listed(disk', n) /\ Proper(n)
<1>1. disk \in Disk
  BY Typed
<1>2. /\ k \in 1..Len(c) /\ c[k] \in Mdir /\ Reads(disk, c[k].pair, c[k]) /\ c[k].pair \in Pair
      /\ Both(q[k].pair) = Both(c[k].pair)
  BY <1>1, PlanSizes DEF AtPair
<1>3. disk' = TornAppended(disk, c[k])
  BY DEF TornAppended, TornAppend, AtPair, AtAppend
<1>4. c[k].erased
  BY DEF AtAppend
<1>5. /\ disk' \in Disk
      /\ \A b \in Blocks : b # c[k].pair[1] => disk'[b] = disk[b]
      /\ \E F \in Mdir :
           /\ Reads(disk', c[k].pair, F) /\ F.pair = c[k].pair /\ F.rev = c[k].rev
           /\ F.entries = c[k].entries /\ F.tail = c[k].tail
  BY <1>1, <1>2, <1>3, <1>4, TornAppendedReads
<1>6. PICK F \in Mdir :
        /\ Reads(disk', c[k].pair, F) /\ F.pair = c[k].pair /\ F.rev = c[k].rev
        /\ F.entries = c[k].entries /\ F.tail = c[k].tail
  BY <1>5
<1>7. Differs(disk, disk', Both(c[k].pair))
  BY <1>2, <1>5, BothIs DEF Differs
<1>8. PICK n : n = Put(c, k, F)
  OBVIOUS
<1>9. /\ Plan(disk', n, q, k) /\ EntriesOn(disk') = EntriesOn(disk)
      /\ UsedBy(n) = UsedBy(c) /\ SamePlaces(c, n) /\ Alike(c, n)
      /\ n[k] = F /\ Listed(disk', n) /\ Proper(n)
  BY <1>1, <1>2, <1>5, <1>6, <1>7, <1>8, Touches
<1> QED
  BY <1>5, <1>6, <1>9

(* An append that fails leaves the list alone; the pair is written anew.   *)
LEMMA AppendFailsStep ==
  ASSUME IInv, AppendFails, entries' = EntriesOn(disk')
  PROVE  IInv' /\ Quiet
<1>1. at = "append" /\ at' = "compact" /\ (disk' = disk \/ disk' = TornAppend)
      /\ UNCHANGED <<root, op, error, commit, counts>>
  BY DEF AppendFails
<1>2. TypeOK /\ op # <<>> /\ entries = EntriesOn(disk)
  BY <1>1, InOperation
<1>3. PICK c, q, k :
        /\ Plan(disk, c, q, k) /\ Goal(q) /\ UsedBy(q) \subseteq UsedBy(c) \cup taken
        /\ Standing(c, q, k)
  BY <1>1, InOperation
<1>4. AtPair(c, q, k) /\ AtAppend(c, k) /\ dir.pair = old /\ dir.rev = c[k].rev
  BY <1>1, <1>3 DEF Standing
<1>5. PICK n : /\ disk' \in Disk /\ Plan(disk', n, q, k) /\ EntriesOn(disk') = entries
               /\ UsedBy(n) = UsedBy(c) /\ SamePlaces(c, n) /\ Alike(c, n)
               /\ n[k].pair = c[k].pair /\ n[k].rev = c[k].rev
  <2>1. CASE disk' = disk
    <3>1. disk' \in Disk /\ Plan(disk', c, q, k) /\ EntriesOn(disk') = entries
      BY <1>2, <1>3, <2>1, Typed
    <3>2. SamePlaces(c, c) /\ Alike(c, c)
      BY DEF SamePlaces, Alike
    <3> QED
      BY <3>1, <3>2
  <2>2. CASE disk' = TornAppend
    BY <1>2, <1>3, <1>4, <2>2, AppendTorn
  <2> QED
    BY <1>1, <2>1, <2>2
<1>6. entries' = entries
  BY <1>5
<1>7. TypeOK'
  <2>1. disk' \in [Blocks -> [rev : Rev, log : [1..Slots -> Slot]]]
    BY <1>5 DEF Disk, Log
  <2>2. at' \in Place
    BY <1>1 DEF Place
  <2> QED
    BY <1>1, <1>2, <1>6, <2>1, <2>2 DEF TypeOK, commit
<1>8. Working(n, q, k)'
  <2>1. Goal(q)'
    BY <1>1, <1>3, <1>6 DEF Goal, GoalEntries
  <2>2. (UsedBy(q) \subseteq UsedBy(n) \cup taken)'
    BY <1>1, <1>3, <1>5 DEF commit
  <2>3. Rooted(c, root) => Rooted(n, root)
    <3>1. IsList(c)
      BY <1>2, <1>3, Typed, PlanSizes
    <3> QED
      BY <1>5, <3>1, SameRooted
  <2>4. Behind(q, k)' <=> Behind(q, k)
    BY <1>1 DEF Behind
  <2>5. AtPair(n, q, k)'
    BY <1>1, <1>4, <1>5, <2>3, <2>4 DEF AtPair, commit
  <2>6. dir'.pair = old' /\ dir'.rev = n[k].rev
    BY <1>1, <1>4, <1>5 DEF commit
  <2>7. Standing(n, q, k)'
    BY <1>1, <2>5, <2>6 DEF Standing
  <2> QED
    BY <1>5, <2>1, <2>2, <2>7 DEF Working
<1>9. IInv'
  BY <1>1, <1>2, <1>7, <1>8, ToOp
<1> QED
  BY <1>1, <1>6, <1>9 DEF Quiet

-----------------------------------------------------------------------------
(* How many entries move to a new pair.                                    *)

LEMMA NamesFinite ==
  IsFiniteSet(Names) /\ Cardinality(Names) = NFiles + 1
<1>1. NFiles \in Nat
  BY Geometry
<1> QED
  BY <1>1, FS_Interval DEF Names

(* Induction: a set that holds a number when it holds all smaller ones     *)
(* holds them all.                                                         *)
LEMMA AllNumbers ==
  ASSUME NEW S,
         \A n \in Nat : (\A m \in 0..(n - 1) : m \in S) => n \in S
  PROVE  Nat \subseteq S
<1> SUFFICES ASSUME Nat \ S # {} PROVE FALSE
  OBVIOUS
<1>1. PICK x \in Nat \ S : \A y \in Nat \ S : x <= y
  BY LeastNumber
<1>2. \A m \in 0..(x - 1) : m \in S
  BY <1>1
<1> QED
  BY <1>1, <1>2

(* A recursive definition on 0..n has a solution, when what it says of a   *)
(* number depends on smaller ones only.                                    *)
Determined(D, n, T) ==
  /\ D \in [(0..n) \X [0..n -> T] -> T]
  /\ \A i \in 0..n : \A g, h \in [0..n -> T] :
       (\A j \in 0..(i - 1) : g[j] = h[j]) => D[<<i, g>>] = D[<<i, h>>]

Solution(D, n, T) ==
  CHOOSE g \in [0..n -> T] : \A i \in 0..n : g[i] = D[<<i, g>>]

LEMMA Recursion ==
  ASSUME NEW n \in Nat, NEW T, T # {}, NEW D, Determined(D, n, T)
  PROVE  /\ Solution(D, n, T) \in [0..n -> T]
         /\ \A i \in 0..n : Solution(D, n, T)[i] = D[<<i, Solution(D, n, T)>>]
<1> USE DEF Determined
<1> DEFINE G == [0..n -> T]
           Solves(g, m) == \A i \in 0..n : i < m => g[i] = D[<<i, g>>]
           Has(m) == \E g \in G : Solves(g, m)
           Good == {m \in Nat : m <= n + 1 => Has(m)}
<1>1. 0 \in Good
  <2>1. PICK t \in T : TRUE
    OBVIOUS
  <2>2. [i \in 0..n |-> t] \in G
    OBVIOUS
  <2>3. \A g \in G : Solves(g, 0)
    OBVIOUS
  <2> QED
    BY <2>2, <2>3
<1>2. ASSUME NEW k \in 0..n, k \in Good PROVE k + 1 \in Good
  <2>0. Has(k)
    <3> HIDE DEF Has
    <3> QED
      BY <1>2
  <2>1. PICK g \in G : Solves(g, k)
    BY <2>0
  <2> DEFINE h == [g EXCEPT ![k] = D[<<k, g>>]]
  <2>2. D[<<k, g>>] \in T
    OBVIOUS
  <2>3. h \in G /\ h[k] = D[<<k, g>>] /\ \A i \in 0..n : i # k => h[i] = g[i]
    BY <2>2
  <2> HIDE DEF h
  <2>4. ASSUME NEW i \in 0..n, i < k + 1 PROVE h[i] = D[<<i, h>>]
    <3>1. \A j \in 0..(i - 1) : g[j] = h[j]
      BY <2>3, <2>4
    <3>2. D[<<i, g>>] = D[<<i, h>>]
      BY <2>3, <3>1
    <3>3. CASE i = k
      BY <2>3, <3>2, <3>3
    <3>4. CASE i < k
      BY <2>1, <2>3, <3>2, <3>4
    <3> QED
      BY <2>4, <3>3, <3>4
  <2>5. Solves(h, k + 1)
    BY <2>4
  <2>6. Has(k + 1)
    BY <2>3, <2>5
  <2> HIDE DEF Has
  <2> QED
    BY <2>6
<1> HIDE DEF Has
<1>3. \A m \in Nat : (\A k \in 0..(m - 1) : k \in Good) => m \in Good
  <2> SUFFICES ASSUME NEW m \in Nat, \A k \in 0..(m - 1) : k \in Good PROVE m \in Good
    OBVIOUS
  <2>1. CASE m = 0
    BY <1>1, <2>1
  <2>2. CASE m > n + 1
    BY <2>2
  <2>3. CASE m > 0 /\ m <= n + 1
    <3>1. m - 1 \in 0..n /\ m - 1 \in Good /\ (m - 1) + 1 = m
      BY <2>3
    <3> HIDE DEF Good
    <3> QED
      BY <1>2, <3>1
  <2> HIDE DEF Good
  <2> QED
    BY <2>1, <2>2, <2>3
<1>4. n + 1 \in Good
  <2> HIDE DEF Good
  <2> QED
    BY <1>3, AllNumbers
<1>5. Has(n + 1)
  BY <1>4
<1>6. PICK g \in G : Solves(g, n + 1)
  BY <1>5 DEF Has
<1>7. \A i \in 0..n : g[i] = D[<<i, g>>]
  BY <1>6
<1> QED
  BY <1>7 DEF Solution

(* How many entries move: at least one, and not all of them.               *)
LEMMA MovedIs ==
  LET N == Cardinality(Names)
  IN /\ Moved \in [0..N -> Nat]
     /\ \A i \in 0..N : Moved[i] = IF i <= Half \/ i = 1 THEN i ELSE Moved[i - i \div 2]
<1> DEFINE N == Cardinality(Names)
           G == [0..N -> Nat]
           Body(i, g) == IF i <= Half \/ i = 1 THEN i ELSE g[i - i \div 2]
           D == [p \in (0..N) \X G |-> Body(p[1], p[2])]
<1>0. N \in Nat /\ Half \in Nat
  BY NamesFinite, Geometry
<1> HIDE DEF N
<1>1. \A i \in 0..N : ~(i <= Half \/ i = 1) => i - i \div 2 \in 0..(i - 1)
  BY <1>0
<1>2. \A i \in 0..N, g \in G : Body(i, g) \in Nat
  <2> SUFFICES ASSUME NEW i \in 0..N, NEW g \in G, ~(i <= Half \/ i = 1)
               PROVE  g[i - i \div 2] \in Nat
    BY <1>0
  <2>1. i - i \div 2 \in 0..N
    BY <1>0, <1>1
  <2> QED
    BY <2>1
<1>3. D \in [(0..N) \X G -> Nat]
  BY <1>2
<1>4. \A i \in 0..N, g \in G : D[<<i, g>>] = Body(i, g)
  OBVIOUS
<1>5. ASSUME NEW i \in 0..N, NEW g \in G, NEW h \in G, \A j \in 0..(i - 1) : g[j] = h[j]
      PROVE  Body(i, g) = Body(i, h)
  BY <1>1, <1>5
<1> HIDE DEF D, Body
<1>6. Determined(D, N, Nat)
  <2> SUFFICES ASSUME NEW i \in 0..N, NEW g \in G, NEW h \in G,
                      \A j \in 0..(i - 1) : g[j] = h[j]
               PROVE  D[<<i, g>>] = D[<<i, h>>]
    BY <1>3, Zenon DEF Determined
  <2>1. Body(i, g) = Body(i, h)
    BY <1>5
  <2>2. D[<<i, g>>] = Body(i, g) /\ D[<<i, h>>] = Body(i, h)
    BY <1>4
  <2> QED
    BY <2>1, <2>2
<1> DEFINE g == Solution(D, N, Nat)
<1>8. g \in G /\ \A i \in 0..N : g[i] = D[<<i, g>>]
  <2>1. Nat # {}
    OBVIOUS
  <2> QED
    BY <1>0, <1>6, <2>1, Recursion, ZenonT(60)
<1> HIDE DEF g
<1>9. g = [i \in 0..N |-> Body(i, g)]
  BY <1>4, <1>8
<1>10. Moved = CHOOSE m : m = [i \in 0..N |-> Body(i, m)]
  BY DEF Moved, Body, N
<1>11. Moved = [i \in 0..N |-> Body(i, Moved)]
  BY <1>9, <1>10
<1>12. \A i \in 0..N : Moved[i] = Body(i, Moved)
  BY <1>11
<1>13. Moved \in [0..N -> Nat]
  <2> DEFINE S == {i \in Nat : i <= N => Moved[i] \in Nat}
  <2>1. ASSUME NEW i \in Nat, \A j \in 0..(i - 1) : j \in S PROVE i \in S
    <3> SUFFICES ASSUME i \in 0..N PROVE Moved[i] \in Nat
      BY <1>0
    <3>1. Moved[i] = Body(i, Moved)
      BY <1>12
    <3>2. CASE i <= Half \/ i = 1
      BY <3>1, <3>2 DEF Body
    <3>3. CASE ~(i <= Half \/ i = 1)
      <4>1. i - i \div 2 \in S /\ i - i \div 2 <= N
        BY <1>0, <1>1, <2>1, <3>3
      <4> QED
        BY <3>1, <3>3, <4>1 DEF Body
    <3> QED
      BY <3>2, <3>3
  <2> HIDE DEF S
  <2>2. Nat \subseteq S
    BY <2>1, AllNumbers
  <2> QED
    BY <1>0, <1>11, <2>2 DEF S
<1> QED
  BY <1>12, <1>13 DEF Body, N

(* The upper part of a pair's entries: never all of them.                  *)
LEMMA UpperIs ==
  ASSUME NEW S \in SUBSET Names, NEW n \in Nat, n < Cardinality(S)
  PROVE  /\ Upper(S, n) \subseteq S /\ 0 \notin Upper(S, n)
         /\ \A x \in S \ Upper(S, n), y \in Upper(S, n) : x < y
<1>0. IsFiniteSet(S) /\ S \subseteq Nat
  BY NamesFinite, FS_Subset, FilesNames
<1> DEFINE Above(x) == {y \in S : y > x}
<1>1. Upper(S, n) = {x \in S : Cardinality(Above(x)) < n}
  BY DEF Upper
<1>2. \A x \in S : IsFiniteSet(Above(x)) /\ Cardinality(Above(x)) \in Nat
  BY <1>0, FS_Subset, FS_CardinalityType
<1>3. 0 \notin Upper(S, n)
  <2> SUFFICES ASSUME 0 \in S PROVE ~(Cardinality(Above(0)) < n)
    BY <1>1
  <2>1. Above(0) = S \ {0}
    <3>1. \A z \in S : z > 0 <=> z # 0
      BY <1>0
    <3> QED
      BY <3>1
  <2>2. Cardinality(S \ {0}) = Cardinality(S) - 1
    BY <1>0, FS_RemoveElement
  <2>3. Cardinality(S) \in Nat
    BY <1>0, FS_CardinalityType
  <2> QED
    BY <2>1, <2>2, <2>3
<1>4. ASSUME NEW x \in S \ Upper(S, n), NEW y \in Upper(S, n) PROVE x < y
  <2>0. x \in S /\ y \in S /\ x \in Nat /\ y \in Nat /\ x # y
    BY <1>0, <1>1
  <2>1. SUFFICES ASSUME y < x PROVE FALSE
    BY <2>0
  <2>2. Above(x) \subseteq Above(y)
    <3>1. \A z \in S : z > x => z > y
      BY <1>0, <2>0, <2>1
    <3> QED
      BY <3>1
  <2>3. Cardinality(Above(x)) <= Cardinality(Above(y))
    BY <1>2, <2>0, <2>2, FS_Subset
  <2>4. Cardinality(Above(y)) < n /\ ~(Cardinality(Above(x)) < n)
    BY <1>1, <2>0
  <2> QED
    BY <1>2, <2>0, <2>3, <2>4
<1> QED
  BY <1>1, <1>3, <1>4

-----------------------------------------------------------------------------
(* Splitting a pair, and expanding the superblock: what is to be written.  *)

LEMMA FreeIs ==
  ASSUME TypeOK, NEW c, Listed(disk, c), Apart(c)
  PROVE  Free \subseteq Blocks /\ Free \cap UsedBy(c) = {} /\ Free \cap taken = {}
<1>1. disk \in Disk
  BY Typed
<1>2. InUse(disk) = UsedBy(c)
  BY <1>1, InUseIs
<1> QED
  BY <1>2 DEF Free

LEMMA SplitOffIs ==
  ASSUME TypeOK, NEW c, Listed(disk, c), Apart(c), NEW S, NEW next, SplitOff(S, next)
  PROVE  /\ split' \in Mdir /\ split'.pair[1] # split'.pair[2] /\ split'.tail = dir.tail
         /\ split'.entries = Restricted(dir.entries, S)
         /\ Newer(split'.rev, disk[split'.pair[1]].rev)
         /\ taken' = taken \cup Both(split'.pair) /\ taken' \subseteq Blocks
         /\ Both(split'.pair) \cap UsedBy(c) = {} /\ Both(split'.pair) \cap taken = {}
         /\ at' = next
<1>1. PICK a \in Free : \E b \in Free \ {a} :
        /\ split' = [NoMdir EXCEPT !.pair = <<a, b>>, !.rev = Inc(Aligned(disk[a].rev)),
                                   !.entries = Restricted(dir.entries, S), !.tail = dir.tail]
        /\ taken' = taken \cup {a, b}
        /\ at' = next
  BY Zenon DEF SplitOff
<1>1a. PICK b \in Free \ {a} :
        /\ split' = [NoMdir EXCEPT !.pair = <<a, b>>, !.rev = Inc(Aligned(disk[a].rev)),
                                   !.entries = Restricted(dir.entries, S), !.tail = dir.tail]
        /\ taken' = taken \cup {a, b}
        /\ at' = next
  BY <1>1
<1>2. /\ Free \subseteq Blocks /\ Free \cap UsedBy(c) = {} /\ Free \cap taken = {}
      /\ disk \in Disk /\ dir \in Mdir /\ taken \subseteq Blocks
  BY FreeIs, Typed
<1>3. a \in Blocks /\ b \in Blocks /\ a # b /\ b \in Free
  BY <1>1a, <1>2
<1> DEFINE p == <<a, b>>
           r == Inc(Aligned(disk[a].rev))
           es == Restricted(dir.entries, S)
           t == dir.tail
<1>4. disk[a].rev \in Rev
  BY <1>2, <1>3, CommitsNat
<1>5. r \in Rev /\ Newer(r, disk[a].rev)
  BY <1>4, AlignedIsNewer
<1>6. p \in Pair /\ p[1] = a /\ p[2] = b
  BY <1>3 DEF Pair
<1>7. es \in EntrySet /\ t \in Pair \cup {Nil}
  BY <1>2, MdirFields, RestrictedIs
<1>8. split' = Made(p, r, es, t)
  BY <1>1a, Zenon DEF Made
<1> HIDE DEF p, r, es, t
<1>9. split' \in Mdir /\ split'.pair = p /\ split'.rev = r /\ split'.entries = es
      /\ split'.tail = t
  BY <1>5, <1>6, <1>7, <1>8, NewPair
<1>10. Both(split'.pair) = {a, b}
  BY <1>6, <1>9 DEF Both
<1>11. /\ split'.entries = Restricted(dir.entries, S) /\ split'.pair[1] = a /\ split'.pair[2] = b
       /\ Newer(split'.rev, disk[split'.pair[1]].rev) /\ split'.tail = dir.tail
  BY <1>5, <1>6, <1>9 DEF es, t
<1> QED
  BY <1>1a, <1>2, <1>3, <1>9, <1>10, <1>11

(* Everything but at, split and taken is as before.                        *)
LEMMA StillAtPair ==
  ASSUME NEW c, NEW q, NEW k, Plan(disk, c, q, k), Goal(q), UsedBy(q) \subseteq UsedBy(c) \cup taken,
         Standing(c, q, k), at \in {"compact", "unsplit"}, taken \subseteq taken',
         UNCHANGED <<disk, root, op, entries, dir, old>>
  PROVE  /\ Plan(disk, c, q, k)' /\ Goal(q)' /\ (UsedBy(q) \subseteq UsedBy(c) \cup taken)'
         /\ AtPair(c, q, k)' /\ dir'.pair = old' /\ dir'.rev = c[k].rev
<1>1. AtPair(c, q, k) /\ dir.pair = old /\ dir.rev = c[k].rev
  BY DEF Standing
<1>2. Goal(q)'
  BY DEF Goal, GoalEntries
<1>3. AtPair(c, q, k)'
  BY <1>1 DEF AtPair, Behind
<1> QED
  BY <1>1, <1>2, <1>3

(* A pair that is full gets a second pair for the upper part of its        *)
(* entries.                                                                *)
LEMMA SplitEntriesStep ==
  ASSUME IInv, SplitEntries, entries' = EntriesOn(disk')
  PROVE  IInv' /\ Quiet
<1> DEFINE here == Present(dir)
           n == Moved[Cardinality(here)]
<1>1. at = "compact" /\ UNCHANGED <<disk, root, op, error, dir, change, old, counts>>
  BY DEF SplitEntries
<1>2. TypeOK /\ op # <<>> /\ entries = EntriesOn(disk)
  BY <1>1, InOperation
<1>3. PICK c, q, k :
        /\ Plan(disk, c, q, k) /\ Goal(q) /\ UsedBy(q) \subseteq UsedBy(c) \cup taken
        /\ Standing(c, q, k)
  BY <1>1, InOperation
<1>4. entries' = entries
  BY <1>1, <1>2
<1>5. disk \in Disk /\ dir \in Mdir /\ Listed(disk, c) /\ Apart(c)
  BY <1>2, <1>3, Typed, PlanSizes
<1>6. \/ n < Cardinality(here) /\ SplitOff(Upper(here, n), "split")
      \/ at' = "unsplit" /\ UNCHANGED <<split, taken>>
  BY DEF SplitEntries
<1>7. taken \subseteq taken' /\ taken' \subseteq Blocks /\ split' \in Mdir /\ at' \in {"split", "unsplit"}
  <2>1. CASE at' = "unsplit" /\ UNCHANGED <<split, taken>>
    BY <1>2, <2>1, Typed
  <2>2. CASE SplitOff(Upper(here, n), "split")
    <3> HIDE DEF here, n
    <3> QED
      BY <1>2, <1>5, <2>2, SplitOffIs
  <2> QED
    BY <1>6, <2>1, <2>2
<1>8. TypeOK'
  <2>1. at' \in Place
    BY <1>7 DEF Place
  <2> QED
    BY <1>1, <1>2, <1>4, <1>7, <2>1 DEF TypeOK
<1>9. /\ Plan(disk, c, q, k)' /\ Goal(q)' /\ (UsedBy(q) \subseteq UsedBy(c) \cup taken)'
      /\ AtPair(c, q, k)' /\ dir'.pair = old' /\ dir'.rev = c[k].rev
  BY <1>1, <1>3, <1>4, <1>7, StillAtPair
<1>10. at' = "split" => AtSplit(c, q)' /\ Upper0'
  <2> SUFFICES ASSUME at' = "split" PROVE AtSplit(c, q)' /\ Upper0'
    OBVIOUS
  <2>1. n < Cardinality(here) /\ SplitOff(Upper(here, n), "split")
    BY <1>6
  <2> DEFINE S == Upper(here, n)
  <2>2. here \subseteq Names /\ \A x \in Names : x \in here <=> dir.entries[x] # Gone
    BY PresentIs
  <2>3. n \in Nat
    <3>1. Cardinality(here) \in 0..Cardinality(Names)
      BY <2>2, NamesFinite, FS_Subset, FS_CardinalityType
    <3> QED
      BY <3>1, MovedIs
  <2>4. /\ S \subseteq here /\ 0 \notin S
        /\ \A x \in here \ S, y \in S : x < y
    <3> HIDE DEF here, n
    <3> QED
      BY <2>1, <2>2, <2>3, UpperIs
  <2>5. here # {0}
    <3> SUFFICES ASSUME here = {0} PROVE FALSE
      OBVIOUS
    <3>1. Cardinality({0}) = 1
      BY FS_Singleton
    <3>2. 1 \in 0..Cardinality(Names)
      BY Geometry, NamesFinite
    <3>3. Moved[1] = 1
      BY <3>2, MovedIs
    <3> QED
      BY <2>1, <3>1, <3>3
  <2> HIDE DEF S
  <2>6. SplitOff(S, "split")
    BY <2>1 DEF S
  <2>7. /\ split'.pair[1] # split'.pair[2] /\ split'.tail = dir.tail
        /\ split'.entries = Restricted(dir.entries, S)
        /\ Newer(split'.rev, disk[split'.pair[1]].rev)
        /\ taken' = taken \cup Both(split'.pair) /\ taken' \subseteq Blocks
        /\ Both(split'.pair) \cap UsedBy(c) = {} /\ Both(split'.pair) \cap taken = {}
    BY <1>2, <1>5, <2>6, SplitOffIs
  <2>8. dir.entries \in EntrySet
    BY <1>5, MdirFields
  <2>9. \A x \in Names : split'.entries[x] = IF x \in S THEN dir.entries[x] ELSE Gone
    BY <2>7, <2>8, RestrictedIs
  <2>10. Present(split') = S
    <3>1. Present(split') \subseteq Names /\ \A x \in Names : x \in Present(split') <=> split'.entries[x] # Gone
      BY PresentIs
    <3> QED
      BY <2>2, <2>4, <2>9, <3>1
  <2>11. Upper0'
    <3>1. Present(dir') = here /\ dir' = dir
      BY <1>1
    <3> HIDE DEF here, n
    <3> QED
      BY <2>4, <2>5, <2>9, <2>10, <3>1 DEF Upper0
  <2>12. AtSplit(c, q)'
    <3>1. Fresh(c, q, Both(split.pair))'
      BY <1>3, <2>7 DEF Fresh
    <3> QED
      BY <1>1, <2>7, <3>1 DEF AtSplit
  <2> QED
    BY <2>11, <2>12
<1>11. Standing(c, q, k)'
  BY <1>7, <1>9, <1>10 DEF Standing
<1>12. Working(c, q, k)'
  BY <1>9, <1>11 DEF Working
<1>13. IInv'
  BY <1>1, <1>2, <1>7, <1>8, <1>12, ToOp
<1> QED
  BY <1>1, <1>4, <1>13 DEF Quiet

(* A head that has been compacted often gets a pair for its entries.       *)
LEMMA ExpandSuperblockStep ==
  ASSUME IInv, ExpandSuperblock, entries' = EntriesOn(disk')
  PROVE  IInv' /\ Quiet
<1> DEFINE here == Present(dir)
<1>1. at = "unsplit" /\ UNCHANGED <<disk, root, op, error, dir, change, old, counts>>
  BY DEF ExpandSuperblock
<1>2. TypeOK /\ op # <<>> /\ entries = EntriesOn(disk)
  BY <1>1, InOperation
<1>3. PICK c, q, k :
        /\ Plan(disk, c, q, k) /\ Goal(q) /\ UsedBy(q) \subseteq UsedBy(c) \cup taken
        /\ Standing(c, q, k)
  BY <1>1, InOperation
<1>4. entries' = entries
  BY <1>1, <1>2
<1>5. disk \in Disk /\ dir \in Mdir /\ Listed(disk, c) /\ Apart(c)
  BY <1>2, <1>3, Typed, PlanSizes
<1>6. \/ IsHead(dir.pair) /\ SplitOff(here, "expand")
      \/ at' = "ready" /\ UNCHANGED <<split, taken>>
  BY DEF ExpandSuperblock
<1> HIDE DEF here
<1>7. taken \subseteq taken' /\ taken' \subseteq Blocks /\ split' \in Mdir /\ at' \in {"expand", "ready"}
  <2>1. CASE at' = "ready" /\ UNCHANGED <<split, taken>>
    BY <1>2, <2>1, Typed
  <2>2. CASE SplitOff(here, "expand")
    BY <1>2, <1>5, <2>2, SplitOffIs
  <2> QED
    BY <1>6, <2>1, <2>2
<1>8. TypeOK'
  <2>1. at' \in Place
    BY <1>7 DEF Place
  <2> QED
    BY <1>1, <1>2, <1>4, <1>7, <2>1 DEF TypeOK
<1>9. /\ Plan(disk, c, q, k)' /\ Goal(q)' /\ (UsedBy(q) \subseteq UsedBy(c) \cup taken)'
      /\ AtPair(c, q, k)' /\ dir'.pair = old' /\ dir'.rev = c[k].rev
  BY <1>1, <1>3, <1>4, <1>7, StillAtPair
<1>10. at' = "expand" => AtSplit(c, q)' /\ IsHead(old') /\ split'.entries = dir'.entries
  <2> SUFFICES ASSUME at' = "expand" PROVE AtSplit(c, q)' /\ IsHead(old') /\ split'.entries = dir'.entries
    OBVIOUS
  <2>1. IsHead(dir.pair) /\ SplitOff(here, "expand")
    BY <1>6
  <2>7. /\ split' \in Mdir /\ split'.pair[1] # split'.pair[2] /\ split'.tail = dir.tail
        /\ split'.entries = Restricted(dir.entries, here)
        /\ Newer(split'.rev, disk[split'.pair[1]].rev)
        /\ taken' = taken \cup Both(split'.pair) /\ taken' \subseteq Blocks
        /\ Both(split'.pair) \cap UsedBy(c) = {} /\ Both(split'.pair) \cap taken = {}
    BY <1>2, <1>5, <2>1, SplitOffIs
  <2>8. dir.entries \in EntrySet /\ split'.entries \in EntrySet
    BY <1>5, <2>7, MdirFields
  <2>9. \A x \in Names : split'.entries[x] = IF x \in here THEN dir.entries[x] ELSE Gone
    BY <2>7, <2>8, RestrictedIs
  <2>10. \A x \in Names : split'.entries[x] = dir.entries[x]
    BY <2>9, PresentIs DEF here
  <2>11. split'.entries = dir.entries
    BY <2>8, <2>10 DEF EntrySet
  <2>12. AtSplit(c, q)'
    <3>1. Fresh(c, q, Both(split.pair))'
      BY <1>3, <2>7 DEF Fresh
    <3> QED
      BY <1>1, <2>7, <3>1 DEF AtSplit
  <2> QED
    BY <1>1, <1>9, <2>1, <2>11, <2>12
<1>11. Standing(c, q, k)'
  BY <1>7, <1>9, <1>10 DEF Standing
<1>12. Working(c, q, k)'
  BY <1>9, <1>11 DEF Working
<1>13. IInv'
  BY <1>1, <1>2, <1>7, <1>8, <1>12, ToOp
<1> QED
  BY <1>1, <1>4, <1>13 DEF Quiet

-----------------------------------------------------------------------------
(* Writing the second part of a pair.                                      *)

(* Both parts together are the pair that was.                              *)
Parts(m, a, f) ==
  /\ Below(a, f) /\ Shares(m, a, f)
  /\ Present(a) \subseteq Present(m) /\ Present(f) \subseteq Present(m)
  /\ 0 \in Present(m) => 0 \in Present(a)

(* The two parts of a divided pair have its entries.                       *)
LEMMA SplitParts ==
  ASSUME NEW m \in Mdir, NEW a \in Mdir, NEW f \in Mdir,
         a.entries = Restricted(m.entries, Present(m) \ Present(f)),
         \A x \in Names : f.entries[x] \in {Gone, m.entries[x]},
         \A x \in Present(m) \ Present(f), y \in Present(f) : x < y, 0 \notin Present(f)
  PROVE  Parts(m, a, f)
<1>1. /\ Present(m) \subseteq Names /\ \A x \in Names : x \in Present(m) <=> m.entries[x] # Gone
      /\ Present(a) \subseteq Names /\ \A x \in Names : x \in Present(a) <=> a.entries[x] # Gone
      /\ Present(f) \subseteq Names /\ \A x \in Names : x \in Present(f) <=> f.entries[x] # Gone
  BY PresentIs
<1>2. \A x \in Names : a.entries[x] = IF x \in Present(m) \ Present(f) THEN m.entries[x] ELSE Gone
  BY MdirFields, RestrictedIs
<1>3. Present(a) = Present(m) \ Present(f)
  BY <1>1, <1>2
<1>4. Present(f) \subseteq Present(m)
  BY <1>1
<1>5. Below(a, f)
  BY <1>3 DEF Below
<1>6. Shares(m, a, f)
  <2> SUFFICES ASSUME NEW x \in Files
               PROVE  /\ a.entries[x] \in {Gone, m.entries[x]} /\ f.entries[x] \in {Gone, m.entries[x]}
                      /\ m.entries[x] \in {a.entries[x], f.entries[x]}
    BY DEF Shares
  <2>1. x \in Names
    BY FilesNames
  <2> QED
    BY <1>1, <1>2, <2>1
<1> QED
  BY <1>3, <1>4, <1>5, <1>6 DEF Parts

(* The superblock entry stays, and the other entries move.                 *)
LEMMA ExpandParts ==
  ASSUME NEW m \in Mdir, NEW a \in Mdir, NEW f \in Mdir,
         a.entries = Restricted(m.entries, {0}), f.entries = m.entries, 0 \in Present(m)
  PROVE  Parts(m, a, f) /\ 0 \in Present(f) /\ 0 \in Present(a)
<1>1. /\ Present(m) \subseteq Names /\ \A x \in Names : x \in Present(m) <=> m.entries[x] # Gone
      /\ Present(a) \subseteq Names /\ \A x \in Names : x \in Present(a) <=> a.entries[x] # Gone
      /\ Present(f) = Present(m)
  BY PresentIs, AlikePresent
<1>2. \A x \in Names : a.entries[x] = IF x \in {0} THEN m.entries[x] ELSE Gone
  BY MdirFields, RestrictedIs
<1>3. Present(a) = {0}
  BY <1>1, <1>2
<1>4. Below(a, f)
  <2>1. ASSUME NEW y \in Present(f) PROVE 0 < y \/ y = 0
    BY <1>1, FilesNames
  <2> QED
    BY <1>3, <2>1 DEF Below
<1>5. Shares(m, a, f)
  <2> SUFFICES ASSUME NEW x \in Files
               PROVE  /\ a.entries[x] \in {Gone, m.entries[x]} /\ f.entries[x] \in {Gone, m.entries[x]}
                      /\ m.entries[x] \in {a.entries[x], f.entries[x]}
    BY DEF Shares
  <2>1. x \in Names /\ x # 0
    BY FilesNames
  <2> QED
    BY <1>2, <2>1
<1> QED
  BY <1>1, <1>3, <1>4, <1>5 DEF Parts

Halved(c, k, a, f) == Insert(Put(c, k, a), k, f)

LEMMA HalvedIs ==
  ASSUME NEW c, IsList(c), NEW k \in 1..Len(c), NEW a \in Mdir, NEW f \in Mdir,
         Both(a.pair) = Both(c[k].pair), Both(f.pair) \cap UsedBy(c) = {}, Parts(c[k], a, f),
         NEW n, n = Halved(c, k, a, f)
  PROVE  Divides(c, k, a, f, n) /\ n[k] = a /\ \A i \in 1..(k - 1) : n[i] = c[i]
<1>0. Len(c) \in Nat
  BY ListTyped
<1> DEFINE q == Put(c, k, a)
<1>1. IsList(q) /\ Len(q) = Len(c) /\ q[k] = a /\ \A i \in 1..Len(c) : i # k => q[i] = c[i]
  BY PutIs
<1>2. n = Insert(q, k, f)
  BY DEF Halved
<1> HIDE DEF q
<1>3. /\ IsList(n) /\ Len(n) = Len(q) + 1 /\ n[k + 1] = f
      /\ \A i \in 1..k : n[i] = q[i]
      /\ \A i \in (k + 2)..(Len(q) + 1) : n[i] = q[i - 1]
  BY <1>1, <1>2, InsertIs, SMTT(60)
<1>4. n[k] = a
  BY <1>0, <1>1, <1>3
<1>5. \A i \in 1..(k - 1) : n[i] = c[i]
  <2> TAKE i \in 1..(k - 1)
  <2>1. i \in 1..k /\ i \in 1..Len(c) /\ i # k
    BY <1>0
  <2> QED
    BY <1>1, <1>3, <2>1
<1>6. \A i \in (k + 2)..(Len(c) + 1) : n[i] = c[i - 1]
  <2> TAKE i \in (k + 2)..(Len(c) + 1)
  <2>1. i - 1 \in 1..Len(c) /\ i - 1 # k
    BY <1>0
  <2>2. n[i] = q[i - 1]
    BY <1>1, <1>3
  <2> QED
    BY <1>1, <2>1, <2>2
<1> QED
  BY <1>1, <1>3, <1>4, <1>5, <1>6 DEF Divides, Parts

(* A pair with more than a superblock entry has no superblock behind it.   *)
LEMMA NoneBehind ==
  ASSUME NEW c, IsList(c), Sorted(c), NEW k \in 1..Len(c), Present(c[k]) # {0}
  PROVE  \A i \in (k + 1)..Len(c) : 0 \notin Present(c[i])
<1> SUFFICES ASSUME NEW i \in (k + 1)..Len(c), 0 \in Present(c[i]) PROVE FALSE
  OBVIOUS
<1>0. Len(c) \in Nat
  BY ListTyped
<1>1. i \in 1..Len(c) /\ k < i
  BY <1>0
<1>2. Below(c[k], c[i])
  BY <1>1 DEF Sorted
<1>3. Present(c[k]) \subseteq Names /\ Names \subseteq Nat
  BY PresentIs, FilesNames
<1>4. ASSUME NEW x \in Present(c[k]) PROVE x = 0
  <2>1. x < 0 \/ x = 0
    BY <1>2 DEF Below
  <2>2. x \in Nat
    BY <1>3
  <2> QED
    BY <2>1, <2>2
<1>5. 0 \in Present(c[k])
  BY <1>2 DEF Below
<1> QED
  BY <1>4, <1>5

(* The head of the list is where it always is.                             *)
LEMMA HeadIsFirst ==
  ASSUME NEW d \in Disk, NEW c, Listed(d, c), Apart(c), NEW k \in 1..Len(c), IsHead(c[k].pair)
  PROVE  k = 1
<1>1. Both(c[1].pair) = {R0, R1} /\ 1 \in 1..Len(c)
  BY ListedHead
<1>2. Both(c[k].pair) \cap {R0, R1} # {}
  BY SamePairIs, HeadIsPair DEF IsHead, Head0
<1> QED
  BY <1>1, <1>2 DEF Apart

LEMMA WrittenDiffers ==
  ASSUME NEW d \in Disk, NEW m \in Mdir, NEW e, e = Written(d, m)
  PROVE  e \in Disk /\ Differs(d, e, {m.pair[2]}) /\ Differs(d, e, Both(m.pair))
<1> DEFINE p == m.pair
           new == e[p[2]]
<1>0. p \in Pair
  BY MdirFields
<1>1. /\ e \in Disk
      /\ \A b \in Blocks : b # p[2] => e[b] = d[b]
      /\ new = [rev |-> m.rev, log |-> Compacted(m, d[p[2]].log)]
  BY WrittenIs
<1> QED
  BY <1>1 DEF Differs, Both

LEMMA WriteSplitTyped ==
  ASSUME TypeOK, WriteSplit, split.pair[1] # split.pair[2],
         Newer(split.rev, disk[split.pair[1]].rev)
  PROVE  /\ disk' = Written(disk, split) /\ disk' \in Disk
         /\ Differs(disk, disk', Both(split.pair))
         /\ dir' \in Mdir /\ dir'.pair = dir.pair /\ dir'.rev = dir.rev /\ dir'.tail = Flip(split.pair)
         /\ dir'.entries = Restricted(dir.entries,
              IF at = "expand" THEN {0} ELSE Present(dir) \ Present(split))
         /\ root' = IF at = "expand" /\ SamePair(dir.pair, root) THEN Flip(split.pair) ELSE root
         /\ root' \in Pair /\ split' \in Mdir
<1>1. /\ WriteBlock(split)
      /\ dir' = [dir EXCEPT !.entries = Restricted(@, IF at = "expand" THEN {0}
                                                      ELSE Present(dir) \ Present(split)),
                            !.tail = Swapped(split).pair]
      /\ root' = IF at = "expand" /\ SamePair(dir.pair, root) THEN Swapped(split).pair ELSE root
      /\ split' = NoMdir
  BY DEF WriteSplit
<1>2. disk \in Disk /\ dir \in Mdir /\ split \in Mdir /\ root \in Pair
  BY Typed
<1>3. disk' = Written(disk, split)
  BY <1>1 DEF WriteBlock, Written
<1>4. disk' \in Disk /\ Differs(disk, disk', Both(split.pair))
  BY <1>2, <1>3, WrittenDiffers
<1>6. Swapped(split).pair = Flip(split.pair) /\ Flip(split.pair) \in Pair
  BY <1>2, SwappedIs, MdirFields, PairKinds
<1> DEFINE S == IF at = "expand" THEN {0} ELSE Present(dir) \ Present(split)
           es == Restricted(dir.entries, S)
           t == Flip(split.pair)
<1>7. dir' = Filled(dir, es, t)
  BY <1>1, <1>6 DEF Filled
<1>8. es \in EntrySet /\ t \in Pair \cup {Nil}
  BY <1>2, <1>6, MdirFields, RestrictedIs
<1> HIDE DEF es, t
<1>9. dir' \in Mdir /\ dir'.pair = dir.pair /\ dir'.rev = dir.rev /\ dir'.entries = es /\ dir'.tail = t
  BY <1>2, <1>7, <1>8, WithEntries
<1>10. /\ dir'.entries = Restricted(dir.entries,
            IF at = "expand" THEN {0} ELSE Present(dir) \ Present(split))
       /\ dir'.tail = Flip(split.pair)
  BY <1>9 DEF es, t
<1>11. split' \in Mdir
  BY <1>1, NoMdirIs
<1>12. /\ root' = IF at = "expand" /\ SamePair(dir.pair, root) THEN Flip(split.pair) ELSE root
       /\ root' \in Pair
  BY <1>1, <1>2, <1>6
<1> QED
  BY <1>3, <1>4, <1>9, <1>10, <1>11, <1>12

(* The second pair is written: the list on the disk does not have it yet.  *)
LEMMA WriteSplitStep ==
  ASSUME IInv, WriteSplit, entries' = EntriesOn(disk')
  PROVE  IInv' /\ Quiet
<1>1. /\ at \in {"split", "expand"} /\ at' = IF at = "split" THEN "compact" ELSE "ready"
      /\ UNCHANGED <<op, error, change, old, taken, counts>>
  BY DEF WriteSplit
<1>2. TypeOK /\ op # <<>> /\ entries = EntriesOn(disk)
  BY <1>1, InOperation
<1>3. PICK c, q, k :
        /\ Plan(disk, c, q, k) /\ Goal(q) /\ UsedBy(q) \subseteq UsedBy(c) \cup taken
        /\ Standing(c, q, k)
  BY <1>1, InOperation
<1>4. /\ AtPair(c, q, k) /\ dir.pair = old /\ dir.rev = c[k].rev /\ AtSplit(c, q)
      /\ at = "split" => Upper0
      /\ at = "expand" => IsHead(old) /\ split.entries = dir.entries
  BY <1>1, <1>3 DEF Standing
<1>5. disk \in Disk /\ dir \in Mdir /\ split \in Mdir /\ root \in Pair /\ taken \subseteq Blocks /\ old \in Pair
  BY <1>2, Typed
<1>6. /\ Listed(disk, c) /\ IsList(q) /\ Proper(c) /\ Proper(q) /\ Apart(c) /\ Apart(q) /\ IsList(c)
      /\ k \in 1..Len(c) /\ k \in 1..Len(q) /\ Sorted(q) /\ Len(q) \in Nat /\ k \in Nat
  BY <1>3, <1>5, PlanSizes DEF Proper
<1>7. /\ c[k].pair = old /\ q[k].pair = old /\ q[k].entries = dir.entries /\ q[k].tail = dir.tail
      /\ Rooted(c, root) \/ Behind(q, k)
  BY <1>4 DEF AtPair
<1>8. /\ split.pair[1] # split.pair[2] /\ split.tail = dir.tail
      /\ Newer(split.rev, disk[split.pair[1]].rev)
      /\ Both(split.pair) \subseteq taken /\ Both(split.pair) \cap UsedBy(c) = {}
      /\ Both(split.pair) \cap UsedBy(q) = {}
  BY <1>4 DEF AtSplit, Fresh
<1>9. /\ disk' = Written(disk, split) /\ disk' \in Disk
      /\ Differs(disk, disk', Both(split.pair))
      /\ dir' \in Mdir /\ dir'.pair = old /\ dir'.rev = c[k].rev /\ dir'.tail = Flip(split.pair)
      /\ dir'.entries = Restricted(dir.entries,
           IF at = "expand" THEN {0} ELSE Present(dir) \ Present(split))
      /\ root' = IF at = "expand" /\ SamePair(dir.pair, root) THEN Flip(split.pair) ELSE root
      /\ root' \in Pair /\ split' \in Mdir
  BY <1>2, <1>4, <1>8, WriteSplitTyped
<1>10. PICK f \in Mdir :
         /\ Reads(disk', Flip(split.pair), f)
         /\ f.pair = Flip(split.pair) /\ f.entries = split.entries /\ f.tail = split.tail
  BY <1>5, <1>8, <1>9, WrittenReads
<1>11. Both(f.pair) = Both(split.pair)
  BY <1>5, <1>10, MdirFields, BothIs
<1>12. q[k] \in Mdir /\ Present(q[k]) = Present(dir) /\ Present(f) = Present(split)
  BY <1>6, <1>7, <1>10, ListTyped, AlikePresent
<1>13. at = "expand" => k = 1 /\ 0 \in Present(q[k])
  BY <1>4, <1>5, <1>6, <1>7, HeadIsFirst DEF Proper
<1>14. Parts(q[k], dir', f)
  <2>1. CASE at = "split"
    <3>1. /\ \A x \in Names : f.entries[x] \in {Gone, q[k].entries[x]}
          /\ \A x \in Present(q[k]) \ Present(f), y \in Present(f) : x < y
          /\ 0 \notin Present(f)
      BY <1>4, <1>7, <1>10, <1>12, <2>1 DEF Upper0
    <3>2. dir'.entries = Restricted(q[k].entries, Present(q[k]) \ Present(f))
      BY <1>7, <1>9, <1>12, <2>1
    <3> QED
      BY <1>9, <1>12, <3>1, <3>2, SplitParts
  <2>2. CASE at = "expand"
    <3>1. f.entries = q[k].entries /\ dir'.entries = Restricted(q[k].entries, {0})
      BY <1>4, <1>7, <1>9, <1>10, <2>2
    <3> QED
      BY <1>9, <1>12, <1>13, <2>2, <3>1, ExpandParts
  <2> QED
    BY <1>1, <2>1, <2>2
<1>15. (0 \in Present(f) <=> at = "expand") /\ (0 \in Present(q[k]) => 0 \in Present(dir'))
  BY <1>1, <1>4, <1>7, <1>10, <1>12, <1>13, <1>14, AlikePresent DEF Upper0, Parts
<1>16. PICK n : n = Halved(q, k, dir', f)
  OBVIOUS
<1>17. Divides(q, k, dir', f, n) /\ n[k] = dir' /\ \A i \in 1..(k - 1) : n[i] = q[i]
  BY <1>6, <1>7, <1>8, <1>9, <1>11, <1>14, <1>16, HalvedIs
<1>18. Proper(n)
  <2>1. 0 \in Present(f) \/ \A i \in (k + 1)..Len(q) : 0 \notin Present(q[i])
    BY <1>1, <1>4, <1>6, <1>12, <1>15, NoneBehind DEF Upper0
  <2> QED
    BY <1>6, <1>14, <1>17, <2>1, DividedProper DEF Parts
<1>19. Plan(disk', c, n, k)
  BY <1>3, <1>5, <1>7, <1>8, <1>9, <1>10, <1>17, <1>18, PlanDivided
<1>20. entries' = entries
  <2>1. Listed(disk', c)
    BY <1>9, <1>19, PlanSizes
  <2> QED
    BY <1>2, <1>5, <1>6, <1>9, <2>1, SameEntries, AlikeSelf
<1>21. Goal(n)'
  <2>1. Shows(q, GoalEntries) /\ Rooted(q, root)
    BY <1>3 DEF Goal
  <2>2. Shows(n, GoalEntries)
    BY <1>14, <1>17, <2>1, DividedShows DEF Parts
  <2>3. Both(root') = IF Both(q[k].pair) \cap Both(root) # {} /\ 0 \in Present(f)
                      THEN Both(f.pair) ELSE Both(root)
    BY <1>4, <1>7, <1>9, <1>10, <1>15, SamePairIs
  <2>4. Rooted(n, root')
    BY <1>6, <1>17, <2>1, <2>3, DividedRooted
  <2>5. GoalEntries' = GoalEntries
    BY <1>1, <1>20 DEF GoalEntries
  <2> QED
    BY <2>2, <2>4, <2>5 DEF Goal
<1>22. UsedBy(n) \subseteq UsedBy(c) \cup taken
  BY <1>3, <1>8, <1>11, <1>17, DividedUsed
<1>23. AtPair(c, n, k)'
  <2>1. Rooted(c, root') \/ Behind(n, k)'
    <3>1. CASE at = "split"
      <4>1. root' = root
        BY <1>9, <3>1
      <4>2. ASSUME Behind(q, k), NEW i \in 1..k
            PROVE  0 \in Present(n[i]) /\ Both(n[i].pair) \cap Both(root) = {}
        <5>1. CASE i = k
          BY <1>7, <1>9, <1>15, <1>17, <4>2, <5>1 DEF Behind
        <5>2. CASE i # k
          BY <1>6, <1>17, <4>2, <5>2 DEF Behind
        <5> QED
          BY <5>1, <5>2
      <4> QED
        BY <1>7, <4>1, <4>2 DEF Behind
    <3>2. CASE at = "expand"
      <4>1. k = 1 /\ 0 \in Present(n[1])
        BY <1>13, <1>15, <1>17, <3>2
      <4>2. Both(n[1].pair) \cap Both(root') = {}
        <5>1. n[1].pair = old
          BY <1>9, <1>17, <4>1
        <5>2. CASE SamePair(dir.pair, root)
          <6>1. Both(root') = Both(split.pair)
            BY <1>9, <1>10, <1>11, <3>2, <5>2
          <6>2. Both(c[k].pair) \cap Both(split.pair) = {}
            BY <1>6, <1>8, PairUsed
          <6> QED
            BY <1>7, <5>1, <6>1, <6>2
        <5>3. CASE ~SamePair(dir.pair, root)
          BY <1>4, <1>9, <5>1, <5>3, SamePairIs
        <5> QED
          BY <5>2, <5>3
      <4>3. \A i \in 1..k : i = 1
        BY <4>1
      <4> QED
        BY <4>1, <4>2, <4>3 DEF Behind
    <3> QED
      BY <1>1, <3>1, <3>2
  <2> QED
    BY <1>1, <1>7, <1>9, <1>17, <2>1 DEF AtPair
<1>24. Standing(c, n, k)'
  BY <1>1, <1>9, <1>23 DEF Standing
<1>25. Working(c, n, k)'
  BY <1>1, <1>19, <1>21, <1>22, <1>24 DEF Working
<1>26. TypeOK'
  <2>1. disk' \in [Blocks -> [rev : Rev, log : [1..Slots -> Slot]]]
    BY <1>9 DEF Disk, Log
  <2>2. at' \in Place
    BY <1>1 DEF Place
  <2> QED
    BY <1>1, <1>2, <1>9, <1>20, <2>1, <2>2 DEF TypeOK
<1>27. IInv'
  BY <1>1, <1>2, <1>25, <1>26, ToOp
<1> QED
  BY <1>1, <1>20, <1>27 DEF Quiet

-----------------------------------------------------------------------------
(* Compacting a pair.                                                      *)

(* The revision count of a pair to be compacted, and a new block when it   *)
(* is worn.                                                                *)
LEMMA NextRevisionStep ==
  ASSUME IInv, NextRevision, entries' = EntriesOn(disk')
  PROVE  IInv' /\ Quiet
<1> DEFINE m == [dir EXCEPT !.rev = Inc(@)]
<1>1. /\ at = "ready" /\ at' = "write"
      /\ UNCHANGED <<disk, root, op, error, change, old, split, counts>>
  BY DEF NextRevision
<1>2. TypeOK /\ op # <<>> /\ entries = EntriesOn(disk)
  BY <1>1, InOperation
<1>3. PICK c, q, k :
        /\ Plan(disk, c, q, k) /\ Goal(q) /\ UsedBy(q) \subseteq UsedBy(c) \cup taken
        /\ Standing(c, q, k)
  BY <1>1, InOperation
<1>4. AtPair(c, q, k) /\ dir.pair = old /\ dir.rev = c[k].rev
  BY <1>1, <1>3 DEF Standing
<1>5. disk \in Disk /\ dir \in Mdir /\ Listed(disk, c) /\ Apart(c) /\ taken \subseteq Blocks
  BY <1>2, <1>3, Typed, PlanSizes
<1>6. entries' = entries
  BY <1>1, <1>2
<1>7. m \in Mdir /\ m.pair = dir.pair /\ m.rev = Inc(dir.rev) /\ m.entries = dir.entries
      /\ m.tail = dir.tail
  <2>1. Inc(dir.rev) \in Rev
    BY <1>5, MdirFields, IncIsNewer
  <2>2. PICK n : n = [dir EXCEPT !.rev = Inc(dir.rev)]
    OBVIOUS
  <2>3. m = n
    BY <2>2
  <2> HIDE DEF m
  <2> QED
    BY <1>5, <2>1, <2>2, <2>3, WithRev
<1>8. \/ dir' = m /\ UNCHANGED taken
      \/ /\ ~IsHead(dir.pair)
         /\ \E b \in Free : dir' = [m EXCEPT !.pair[2] = b] /\ taken' = taken \cup {b}
  BY DEF NextRevision
<1> HIDE DEF m
<1> DEFINE Out ==
      /\ dir' \in Mdir /\ dir'.rev = Inc(c[k].rev) /\ dir'.entries = dir.entries /\ dir'.tail = dir.tail
      /\ taken \subseteq taken' /\ taken' \subseteq Blocks
      /\ \/ dir'.pair = old
         \/ /\ ~IsHead(old) /\ dir'.pair[1] = old[1]
            /\ {dir'.pair[2]} \subseteq taken' /\ {dir'.pair[2]} \cap UsedBy(c) = {}
            /\ {dir'.pair[2]} \cap taken = {}
<1>9. Out
  <2>1. CASE dir' = m /\ UNCHANGED taken
    BY <1>4, <1>5, <1>7, <2>1
  <2>2. ASSUME ~IsHead(dir.pair), NEW b \in Free, dir' = [m EXCEPT !.pair[2] = b],
               taken' = taken \cup {b}
        PROVE  Out
    <3>1. Free \subseteq Blocks /\ Free \cap UsedBy(c) = {} /\ Free \cap taken = {}
      BY <1>2, <1>5, FreeIs
    <3>2. /\ dir' \in Mdir /\ dir'.pair = <<m.pair[1], b>> /\ dir'.rev = m.rev
          /\ dir'.entries = m.entries /\ dir'.tail = m.tail
      BY <1>7, <2>2, <3>1, WithBlock, ZenonT(60)
    <3>3. dir'.pair[1] = m.pair[1] /\ dir'.pair[2] = b
      BY <3>2
    <3>4. dir'.pair[1] = old[1] /\ ~IsHead(old)
      BY <1>4, <1>7, <2>2, <3>3
    <3>5. b \in taken' /\ b \notin UsedBy(c) /\ b \notin taken /\ taken' \subseteq Blocks
      BY <1>5, <2>2, <3>1
    <3> QED
      BY <1>4, <1>7, <2>2, <3>2, <3>3, <3>4, <3>5
  <2> QED
    BY <1>8, <2>1, <2>2
<1>10. TypeOK'
  <2>1. at' \in Place
    BY <1>1 DEF Place
  <2> QED
    BY <1>1, <1>2, <1>6, <1>9, <2>1 DEF TypeOK
<1>11. AtPair(c, q, k)'
  BY <1>1, <1>4, <1>9 DEF AtPair, Behind
<1>12. AtWrite(c, q, k)'
  <2>1. ASSUME {dir'.pair[2]} \subseteq taken', {dir'.pair[2]} \cap UsedBy(c) = {},
               {dir'.pair[2]} \cap taken = {}
        PROVE  Fresh(c, q, {dir.pair[2]})'
    BY <1>3, <2>1 DEF Fresh
  <2> QED
    BY <1>1, <1>9, <2>1 DEF AtWrite
<1>13. Standing(c, q, k)'
  BY <1>1, <1>11, <1>12 DEF Standing
<1>14. Working(c, q, k)'
  <2>1. Goal(q)'
    BY <1>1, <1>3, <1>6 DEF Goal, GoalEntries
  <2>2. (UsedBy(q) \subseteq UsedBy(c) \cup taken)'
    BY <1>3, <1>9
  <2>3. Plan(disk, c, q, k)'
    BY <1>1, <1>3
  <2> QED
    BY <1>13, <2>1, <2>2, <2>3 DEF Working
<1>15. IInv'
  BY <1>1, <1>2, <1>10, <1>14, ToOp
<1> QED
  BY <1>1, <1>6, <1>15 DEF Quiet

LEMMA RootedPlace ==
  ASSUME NEW c, Apart(c), NEW k \in 1..Len(c), NEW r, Rooted(c, r), Both(c[k].pair) \cap Both(r) # {}
  PROVE  /\ Both(r) = Both(c[k].pair) /\ 0 \in Present(c[k])
         /\ \A s : Both(s) = Both(r) => Rooted(c, s)
<1>1. PICK j \in 1..Len(c) :
        /\ Both(c[j].pair) = Both(r) /\ 0 \in Present(c[j])
        /\ \A i \in (j + 1)..Len(c) : 0 \notin Present(c[i])
  BY DEF Rooted
<1>2. j = k
  BY <1>1 DEF Apart
<1>3. \A s : Both(s) = Both(r) => Rooted(c, s)
  BY <1>1 DEF Rooted
<1> QED
  BY <1>1, <1>2, <1>3

LEMMA ReadRevision ==
  ASSUME NEW d \in Disk, NEW p, NEW m, Reads(d, p, m)
  PROVE  m.rev = d[m.pair[1]].rev /\ m.rev \in Rev
<1>1. m = Loaded(d, m.pair) /\ m \in Mdir
  BY ReadsRuled
<1>2. Loaded(d, m.pair).rev = d[m.pair[1]].rev
  BY Zenon DEF Loaded
<1> QED
  BY <1>1, <1>2, MdirFields

(* The compacted pair is read, where it was or from its new block.         *)
CompactedAt(c, q, k, f) ==
  /\ disk' \in Disk /\ Differs(disk, disk', {dir.pair[2]})
  /\ f \in Mdir /\ Reads(disk', dir.pair, f) /\ Reads(disk', Flip(dir.pair), f)
  /\ f.pair = Flip(dir.pair) /\ Both(f.pair) = Both(dir.pair)
  /\ f.entries = q[k].entries /\ f.tail = q[k].tail
  /\ dir.pair[1] = old[1]

(* A compacted pair is read as planned, from the new block.                *)
LEMMA CompactedReads ==
  ASSUME TypeOK, WriteBlock(dir), NEW c, NEW q, NEW k, Plan(disk, c, q, k),
         AtPair(c, q, k), AtWrite(c, q, k)
  PROVE  \E f : CompactedAt(c, q, k, f)
<1>1. disk \in Disk /\ dir \in Mdir /\ dir.pair \in Pair
  BY Typed, MdirFields
<1>2. /\ k \in 1..Len(c) /\ c[k] \in Mdir /\ Reads(disk, c[k].pair, c[k]) /\ c[k].pair \in Pair
      /\ c[k].pair[1] # c[k].pair[2] /\ IsList(c)
  BY <1>1, PlanSizes, ListedReads
<1>3. c[k].pair = old /\ q[k].entries = dir.entries /\ q[k].tail = dir.tail
  BY DEF AtPair
<1>4. dir.rev = Inc(c[k].rev) /\ dir.pair[1] = old[1] /\ dir.pair[1] # dir.pair[2]
  <2>1. CASE dir.pair = old
    BY <1>2, <1>3, <2>1 DEF AtWrite
  <2>2. CASE dir.pair # old
    <3>1. dir.pair[1] = old[1] /\ {dir.pair[2]} \cap UsedBy(c) = {} /\ dir.rev = Inc(c[k].rev)
      BY <2>2 DEF AtWrite, Fresh
    <3>2. Both(c[k].pair) \cap {dir.pair[2]} = {}
      BY <1>2, <3>1, PairUsed
    <3> QED
      BY <1>2, <1>3, <3>1, <3>2, BothIs
  <2> QED
    BY <2>1, <2>2
<1>5. Newer(dir.rev, disk[dir.pair[1]].rev)
  <2>1. c[k].rev = disk[c[k].pair[1]].rev /\ c[k].rev \in Rev
    BY <1>1, <1>2, ReadRevision
  <2> QED
    BY <1>3, <1>4, <2>1, IncIsNewer
<1>6. disk' = Written(disk, dir)
  BY DEF WriteBlock, Written
<1>7. disk' \in Disk /\ Differs(disk, disk', {dir.pair[2]})
  BY <1>1, <1>6, WrittenDiffers
<1>8. PICK f \in Mdir :
        /\ Reads(disk', dir.pair, f) /\ Reads(disk', Flip(dir.pair), f)
        /\ f.pair = Flip(dir.pair) /\ f.entries = dir.entries /\ f.tail = dir.tail
  BY <1>1, <1>4, <1>5, <1>6, WrittenReads
<1>9. Both(f.pair) = Both(dir.pair)
  BY <1>1, <1>8, BothIs
<1> QED
  BY <1>3, <1>4, <1>7, <1>8, <1>9 DEF CompactedAt

(* Where it was: the operation has taken effect.                           *)
LEMMA CompactedInPlace ==
  ASSUME TypeOK, op # <<>>, NEW c, NEW q, NEW k, Plan(disk, c, q, k), Goal(q), AtPair(c, q, k),
         NEW f, CompactedAt(c, q, k, f), dir.pair = old, NEW n, n = Put(q, k, f)
  PROVE  /\ Listed(disk', n) /\ Proper(n) /\ Shows(n, GoalEntries) /\ Rooted(n, root)
         /\ EntriesOn(disk') = GoalEntries /\ n[k] = f /\ k \in 1..Len(n)
<1>1. disk \in Disk /\ GoalEntries \in EntryTable /\ dir \in Mdir /\ dir.pair \in Pair
  BY Typed, MdirFields
<1>2. c[k].pair = dir.pair /\ q[k].pair = dir.pair
  BY DEF AtPair
<1>3. /\ disk' \in Disk /\ Differs(disk, disk', {dir.pair[2]})
      /\ Reads(disk', c[k].pair, f) /\ f.entries = q[k].entries /\ f.tail = q[k].tail
  BY <1>2 DEF CompactedAt
<1>4. Differs(disk, disk', Both(c[k].pair))
  BY <1>1, <1>2, <1>3, BothIs DEF Differs
<1>5. Shows(q, GoalEntries) /\ Rooted(q, root) /\ Both(q[k].pair) = Both(c[k].pair)
  BY <1>2 DEF Goal
<1>6. /\ Listed(disk', n) /\ Proper(n) /\ Shows(n, GoalEntries) /\ Rooted(n, root)
      /\ EntriesOn(disk') = GoalEntries /\ n[k] = f /\ Len(n) = Len(q)
  BY <1>1, <1>3, <1>4, <1>5, TakesEffect
<1>7. k \in 1..Len(q)
  BY <1>1, PlanSizes
<1> QED
  BY <1>6, <1>7

LEMMA NotHeadNotFirst ==
  ASSUME NEW d \in Disk, NEW c, Listed(d, c), NEW k \in 1..Len(c), ~IsHead(c[k].pair)
  PROVE  k > 1
<1>1. Both(c[1].pair) = {R0, R1}
  BY ListedHead
<1>2. Both(c[k].pair) \cap {R0, R1} = {}
  BY SamePairIs, HeadIsPair DEF IsHead, Head0
<1> QED
  BY <1>1, <1>2

(* What WriteCompacted does to RAM when the pair has moved.                *)
LEMMA MovedTyped ==
  ASSUME TypeOK, op # <<>>, WriteCompacted, Relocated, disk' \in Disk, entries' \in EntryTable
  PROVE  /\ TypeOK' /\ at' = "pred" /\ dir'.pair = Flip(dir.pair) /\ dir'.pair \in Pair
         /\ Both(dir'.pair) = Both(dir.pair)
         /\ root' = IF SamePair(old, root) THEN dir'.pair ELSE root
         /\ UNCHANGED <<op, error, change, old, split, taken>>
<1>1. /\ at' = "pred"
      /\ dir' = Swapped(dir)
      /\ root' = IF SamePair(old, root) THEN dir'.pair ELSE root
      /\ UNCHANGED <<op, error, change, old, split, taken>>
  BY Zenon DEF WriteCompacted
<1>2. dir \in Mdir /\ dir.pair \in Pair /\ root \in Pair
  BY Typed, MdirFields
<1>3. dir' \in Mdir /\ dir'.pair = Flip(dir.pair) /\ dir'.pair \in Pair
      /\ Both(dir'.pair) = Both(dir.pair)
  BY <1>1, <1>2, SwappedIs, PairKinds, BothIs
<1>4. root' \in Pair
  BY <1>1, <1>2, <1>3
<1>5. at' \in Place
  BY <1>1 DEF Place
<1>6. TypeOK'
  BY <1>1, <1>3, <1>4, <1>5 DEF TypeOK, Disk, Log, EntryTable
<1> QED
  BY <1>1, <1>3, <1>6

(* It has moved, and the pair before is to be told.                        *)
LEMMA HereRelocated ==
  ASSUME TypeOK, op # <<>>, entries' = EntriesOn(disk'), WriteCompacted, Relocated,
         NEW c, NEW q, NEW k, Plan(disk, c, q, k), Goal(q), Standing(c, q, k), at = "write",
         NEW f, CompactedAt(c, q, k, f), dir.pair = old
  PROVE  IInv' /\ Directory!TakeEffect
<1>1. AtPair(c, q, k)
  BY DEF Standing
<1>2. PICK n : n = Put(q, k, f)
  OBVIOUS
<1>3. /\ Listed(disk', n) /\ Proper(n) /\ Shows(n, GoalEntries) /\ Rooted(n, root)
      /\ EntriesOn(disk') = GoalEntries /\ n[k] = f /\ k \in 1..Len(n)
  BY <1>1, <1>2, CompactedInPlace
<1>4. disk \in Disk /\ GoalEntries \in EntryTable /\ op[1] \in Files /\ op[2] \in Values \cup {Gone}
      /\ entries \in EntryTable
  BY Typed
<1>5. entries' = GoalEntries
  BY <1>3
<1>6. /\ disk' \in Disk /\ f.pair = Flip(dir.pair) /\ Both(f.pair) = Both(dir.pair)
      /\ Reads(disk', Flip(dir.pair), f)
  BY DEF CompactedAt
<1>7. /\ TypeOK' /\ at' = "pred" /\ dir'.pair = Flip(dir.pair) /\ dir'.pair \in Pair
      /\ Both(dir'.pair) = Both(dir.pair)
      /\ root' = IF SamePair(old, root) THEN dir'.pair ELSE root
      /\ UNCHANGED <<op, error, change, old, split, taken>>
  BY <1>4, <1>5, <1>6, MovedTyped
<1>8. Plan(disk', n, n, k)
  BY <1>3, <1>6, PlanSelf
<1>9. Rooted(n, root')
  <2>1. CASE SamePair(old, root)
    <3>1. Both(n[k].pair) = Both(old) /\ Both(root') = Both(old)
      BY <1>3, <1>6, <1>7, <2>1
    <3>2. Both(n[k].pair) \cap Both(root) # {}
      BY <2>1, <3>1, SamePairIs
    <3> QED
      BY <1>3, <3>1, <3>2, RootedPlace DEF Proper
  <2>2. CASE ~SamePair(old, root)
    BY <1>3, <1>7, <2>2
  <2> QED
    BY <2>1, <2>2
<1>10. GoalEntries' = GoalEntries
  <2> DEFINE g == GoalEntries
  <2>1. [g EXCEPT ![op[1]] = op[2]] = g
    BY <1>4 DEF GoalEntries, EntryTable
  <2> HIDE DEF g
  <2>2. GoalEntries' = [g EXCEPT ![op[1]] = op[2]]
    BY <1>5, <1>7 DEF GoalEntries, g
  <2> QED
    BY <2>1, <2>2 DEF g
<1>11. Goal(n)'
  BY <1>3, <1>9, <1>10 DEF Goal
<1>12. k > 1
  <2>1. ~IsHead(c[k].pair)
    BY <1>1 DEF Relocated, AtPair
  <2> QED
    BY <1>4, <2>1, PlanSizes, NotHeadNotFirst
<1>13. AtPred(n, n, k)'
  BY <1>3, <1>6, <1>7, <1>9, <1>12 DEF AtPred
<1>14. Standing(n, n, k)'
  BY <1>7, <1>13 DEF Standing
<1>15. Working(n, n, k)'
  BY <1>8, <1>11, <1>14 DEF Working
<1>16. IInv'
  BY <1>7, <1>15, ToOp
<1>17. entries' = [entries EXCEPT ![op[1]] = op[2]]
  BY <1>5 DEF GoalEntries
<1> QED
  BY <1>7, <1>16, <1>17 DEF Directory!TakeEffect

LEMMA ElsewhereRelocated ==
  ASSUME TypeOK, op # <<>>, entries = EntriesOn(disk), entries' = EntriesOn(disk'),
         WriteCompacted, Relocated,
         NEW c, NEW q, NEW k, Plan(disk, c, q, k), Goal(q), Standing(c, q, k), at = "write",
         UsedBy(q) \subseteq UsedBy(c) \cup taken,
         NEW f, CompactedAt(c, q, k, f), dir.pair # old
  PROVE  IInv' /\ Quiet
<1> DEFINE x == {dir.pair[2]}
<1>1. AtPair(c, q, k) /\ AtWrite(c, q, k)
  BY DEF Standing
<1>2. disk \in Disk /\ entries \in EntryTable /\ root \in Pair /\ dir \in Mdir
  BY Typed
<1>3. /\ Listed(disk, c) /\ IsList(q) /\ Proper(c) /\ Proper(q) /\ Apart(c) /\ Apart(q) /\ IsList(c)
      /\ k \in 1..Len(c) /\ k \in 1..Len(q) /\ Sorted(q) /\ Len(q) \in Nat /\ k \in Nat
  BY <1>2, PlanSizes DEF Proper
<1>4. /\ c[k].pair = old /\ q[k].pair = old
      /\ Rooted(c, root) \/ Behind(q, k)
  BY <1>1 DEF AtPair
<1>5. /\ ~IsHead(old) /\ dir.pair[1] = old[1]
      /\ x \subseteq taken /\ x \cap UsedBy(c) = {} /\ x \cap UsedBy(q) = {}
  BY <1>1 DEF AtWrite, Fresh
<1>6. /\ disk' \in Disk /\ Differs(disk, disk', x)
      /\ f \in Mdir /\ Reads(disk', Flip(dir.pair), f)
      /\ f.pair = Flip(dir.pair) /\ Both(f.pair) = Both(dir.pair)
      /\ f.entries = q[k].entries /\ f.tail = q[k].tail
  BY DEF CompactedAt
<1>7. Both(f.pair) \subseteq Both(q[k].pair) \cup x
  BY <1>4, <1>5, <1>6 DEF Both
<1> HIDE DEF x
<1>8. PICK n : n = Put(q, k, f)
  OBVIOUS
<1>9. Plan(disk', c, n, k) /\ Alike(q, n)
  BY <1>2, <1>5, <1>6, <1>7, <1>8, PlanMoved
<1>10. n[k] = f /\ Len(n) = Len(q) /\ \A i \in 1..Len(q) : i # k => n[i] = q[i]
  BY <1>3, <1>6, <1>8, PutIs
<1>11. entries' = entries
  <2>1. Listed(disk', c)
    BY <1>6, <1>9, PlanSizes
  <2> QED
    BY <1>2, <1>3, <1>6, <2>1, SameEntries, AlikeSelf
<1>12. /\ TypeOK' /\ at' = "pred" /\ dir'.pair = Flip(dir.pair) /\ dir'.pair \in Pair
       /\ Both(dir'.pair) = Both(dir.pair)
       /\ root' = IF SamePair(old, root) THEN dir'.pair ELSE root
       /\ UNCHANGED <<op, error, change, old, split, taken>>
  BY <1>2, <1>6, <1>11, MovedTyped
<1>13. Shows(q, GoalEntries) /\ Rooted(q, root)
  BY DEF Goal
<1>14. Rooted(n, root')
  <2>1. Present(f) = Present(q[k])
    BY <1>6, AlikePresent
  <2>2. Both(root') = IF Both(q[k].pair) \cap Both(root) # {} THEN Both(f.pair) ELSE Both(root)
    BY <1>4, <1>6, <1>12, SamePairIs
  <2> QED
    BY <1>3, <1>6, <1>8, <1>13, <2>1, <2>2, PutRooted
<1>15. Goal(n)'
  <2>1. Shows(n, GoalEntries)
    BY <1>9, <1>13, AlikeShows
  <2>2. GoalEntries' = GoalEntries
    BY <1>11, <1>12 DEF GoalEntries
  <2> QED
    BY <1>14, <2>1, <2>2 DEF Goal
<1>16. UsedBy(n) \subseteq UsedBy(c) \cup taken
  <2>1. UsedBy(n) \subseteq UsedBy(q) \cup Both(f.pair)
    BY <1>3, <1>6, <1>8, PutUsed
  <2>2. \A b \in Both(q[k].pair) : b \in Blocks => b \in UsedBy(q)
    BY <1>3 DEF UsedBy
  <2>3. Both(q[k].pair) \subseteq Blocks
    BY <1>3, ListTyped, BothIs
  <2> QED
    BY <1>5, <1>7, <2>1, <2>2, <2>3
<1>17. k > 1
  BY <1>2, <1>3, <1>4, <1>5, NotHeadNotFirst
<1>18. Rooted(c, root') \/ Behind(n, k - 1)'
  <2>1. CASE SamePair(old, root)
    <3>1. Both(q[k].pair) \cap Both(root) # {}
      BY <1>4, <2>1, SamePairIs
    <3>2. 0 \in Present(q[k])
      BY <1>3, <1>13, <3>1, RootedPlace
    <3>3. ASSUME NEW i \in 1..(k - 1)
          PROVE  0 \in Present(n[i]) /\ Both(n[i].pair) \cap Both(root') = {}
      <4>1. i \in 1..Len(q) /\ i # k /\ i < k /\ n[i] = q[i]
        BY <1>3, <1>10
      <4>2. 0 \in Present(q[i])
        BY <1>3, <3>2, <4>1 DEF Sorted, Below
      <4>3. Both(root') = Both(n[k].pair)
        BY <1>6, <1>10, <1>12, <2>1
      <4>4. Apart(n) /\ k \in 1..Len(n) /\ i \in 1..Len(n)
        BY <1>3, <1>6, <1>9, <1>10, <4>1, PlanSizes
      <4>5. Both(n[i].pair) \cap Both(n[k].pair) = {}
        BY <4>1, <4>4 DEF Apart
      <4> QED
        BY <4>1, <4>2, <4>3, <4>5
    <3> QED
      BY <3>3 DEF Behind
  <2>2. CASE ~SamePair(old, root)
    <3>1. root' = root
      BY <1>12, <2>2
    <3>2. ASSUME Behind(q, k), NEW i \in 1..(k - 1)
          PROVE  0 \in Present(n[i]) /\ Both(n[i].pair) \cap Both(root') = {}
      <4>1. i \in 1..Len(q) /\ i # k /\ n[i] = q[i] /\ i \in 1..k
        BY <1>3, <1>10
      <4> QED
        BY <3>1, <3>2, <4>1 DEF Behind
    <3> QED
      BY <1>4, <3>1, <3>2 DEF Behind
  <2> QED
    BY <2>1, <2>2
<1>19. AtPred(c, n, k)'
  BY <1>4, <1>6, <1>10, <1>12, <1>17, <1>18 DEF AtPred
<1>20. Standing(c, n, k)'
  BY <1>12, <1>19 DEF Standing
<1>21. Working(c, n, k)'
  BY <1>9, <1>12, <1>15, <1>16, <1>20 DEF Working
<1>22. IInv'
  BY <1>12, <1>21, ToOp
<1> QED
  BY <1>11, <1>12, <1>22 DEF Quiet

(* A compacted pair, where it was or with its new block.                   *)
LEMMA WriteCompactedStep ==
  ASSUME IInv, WriteCompacted, entries' = EntriesOn(disk')
  PROVE  IInv' /\ (Directory!Return \/ Directory!TakeEffect \/ Quiet)
<1>1. at = "write" /\ op # <<>> /\ WriteBlock(dir)
  BY DEF WriteCompacted
<1>2. TypeOK /\ entries = EntriesOn(disk)
  BY <1>1, InOperation
<1>3. PICK c, q, k :
        /\ Plan(disk, c, q, k) /\ Goal(q) /\ UsedBy(q) \subseteq UsedBy(c) \cup taken
        /\ Standing(c, q, k)
  BY <1>1, InOperation
<1>4. AtPair(c, q, k) /\ AtWrite(c, q, k)
  BY <1>1, <1>3 DEF Standing
<1>5. PICK f : CompactedAt(c, q, k, f)
  BY <1>1, <1>2, <1>3, <1>4, CompactedReads
<1>6. CASE Relocated
  BY <1>1, <1>2, <1>3, <1>5, <1>6, HereRelocated, ElsewhereRelocated
<1>7. CASE ~Relocated
  <2>1. Return(FALSE) /\ root' = root
    BY <1>7, Zenon DEF WriteCompacted
  <2>2. dir.pair = old
    <3> SUFFICES ASSUME dir.pair # old PROVE FALSE
      OBVIOUS
    <3>1. ~IsHead(old) /\ dir.pair[1] = old[1] /\ dir.pair[2] \notin UsedBy(c)
      BY <1>4 DEF AtWrite, Fresh
    <3>2. /\ disk \in Disk /\ IsList(c) /\ Listed(disk, c) /\ c[k].pair = old /\ k \in 1..Len(c)
          /\ dir \in Mdir /\ dir.pair \in Pair
      BY <1>2, <1>3, <1>4, Typed, PlanSizes, MdirFields DEF AtPair
    <3>3. dir.pair[2] \notin Both(old) /\ dir.pair[2] \notin {R0, R1}
      <4>1. dir.pair[2] \in Blocks
        BY <3>2, PairKinds
      <4>2. Both(c[1].pair) = {R0, R1} /\ 1 \in 1..Len(c)
        BY <3>2, ListedHead
      <4> QED
        BY <3>1, <3>2, <4>1, <4>2 DEF UsedBy
    <3>4. Both(old) \cap {R0, R1} = {}
      BY <3>1, SamePairIs, HeadIsPair DEF IsHead, Head0
    <3>5. Both(dir.pair) \cap Both(Head0) = {}
      BY <3>1, <3>3, <3>4, HeadIsPair DEF Both
    <3>6. ~IsHead(dir.pair)
      BY <3>5, SamePairIs DEF IsHead, Head0
    <3> QED
      BY <1>7, <3>3, <3>6 DEF Relocated, Both
  <2>3. PICK n : n = Put(q, k, f)
    OBVIOUS
  <2>4. /\ Listed(disk', n) /\ Proper(n) /\ Rooted(n, root)
        /\ EntriesOn(disk') = GoalEntries
    BY <1>1, <1>2, <1>3, <1>4, <1>5, <2>2, <2>3, CompactedInPlace
  <2>5. disk' \in Disk /\ root' \in Pair /\ entries' \in EntryTable /\ entries' = GoalEntries
    BY <1>1, <1>2, <1>5, <2>1, <2>4, Typed DEF CompactedAt
  <2>6. TypeOK' /\ at' = "idle" /\ op' = <<>> /\ error' = FALSE
    BY <1>2, <2>1, <2>5, Returned
  <2>7. IInv'
    BY <2>1, <2>4, <2>6, ToIdle
  <2>8. entries' = [entries EXCEPT ![op[1]] = op[2]]
    BY <2>5 DEF GoalEntries
  <2> QED
    BY <1>1, <2>6, <2>7, <2>8 DEF Directory!Return
<1> QED
  BY <1>6, <1>7

-----------------------------------------------------------------------------
(* The commit to the pair before.                                          *)

(* The mdir that a commit to the pair before is made to.                   *)
LEMMA CommitStarted ==
  ASSUME NEW m \in Mdir, NEW put \in Puts, NEW tail \in Tails,
         StartCommit(m, [put |-> put, tail |-> tail])
  PROVE  /\ dir' \in Mdir /\ dir'.pair = m.pair /\ dir'.rev = m.rev
         /\ dir'.entries = ChangedEntries(m, put) /\ dir'.tail = ChangedTail(m, tail)
         /\ old' = m.pair /\ old' \in Pair
         /\ change' \in [put : [Names -> Values \cup {Gone, Keep}], tail : Pair \cup {Nil, <<Keep>>}]
         /\ at' \in {"append", "compact"}
         /\ \A c, k : c[k] = m /\ at' = "append" => AtAppend(c, k)'
<1> DEFINE ch == [put |-> put, tail |-> tail]
<1>1. ch.put = put /\ ch.tail = tail
  OBVIOUS
<1>2. /\ dir' = [m EXCEPT
           !.entries = [x \in Names |-> IF ch.put[x] = Keep THEN m.entries[x] ELSE ch.put[x]],
           !.tail = IF ch.tail = <<Keep>> THEN @ ELSE ch.tail]
      /\ change' = ch /\ old' = m.pair
      /\ at' = IF m.erased THEN "append" ELSE "compact"
  BY DEF StartCommit
<1> HIDE DEF ch
<1>3. dir' = ToCommit(m, put, tail)
  BY <1>1, <1>2 DEF ToCommit
<1>4. /\ dir' \in Mdir /\ dir'.pair = m.pair /\ dir'.rev = m.rev
      /\ dir'.entries = ChangedEntries(m, put) /\ dir'.tail = ChangedTail(m, tail)
      /\ SameRest(dir', m)
  BY <1>3, StartedIs
<1>5. change' \in [put : [Names -> Values \cup {Gone, Keep}], tail : Pair \cup {Nil, <<Keep>>}]
  BY <1>2 DEF ch, Puts, Tails
<1>6. m.pair \in Pair
  BY MdirFields
<1>7. at' \in {"append", "compact"} /\ (at' = "append" => m.erased)
  BY <1>2, Zenon
<1>8. ASSUME NEW c, NEW k, c[k] = m, at' = "append" PROVE AtAppend(c, k)'
  <2>1. m.erased /\ change'.put = put /\ change'.tail = tail
    BY <1>1, <1>2, <1>7, <1>8
  <2> QED
    BY <1>4, <1>8, <2>1 DEF AtAppend, SameRest
<1> QED
  BY <1>2, <1>4, <1>5, <1>6, <1>7, <1>8

LEMMA NothingChanged ==
  ASSUME NEW m \in Mdir, NEW t \in Pair \cup {Nil}
  PROVE  ChangedEntries(m, Nothing) = m.entries /\ ChangedTail(m, t) = t
         /\ Nothing \in Puts /\ t \in Tails
<1>1. m.entries \in EntrySet /\ t # <<Keep>>
  BY MdirFields, PairKinds, NilKeep
<1>2. ChangedEntries(m, Nothing) = m.entries
  BY <1>1 DEF ChangedEntries, Nothing, EntrySet
<1>3. ChangedTail(m, t) = t
  BY <1>1 DEF ChangedTail
<1> QED
  BY <1>2, <1>3 DEF Nothing, Puts, Tails

(* The pair before gets its pointer to the pair that moved.                *)
LEMMA UpdatePredStep ==
  ASSUME IInv, UpdatePred, entries' = EntriesOn(disk')
  PROVE  IInv' /\ Quiet
<1>1. at = "pred" /\ UNCHANGED <<disk, root, op, error, split, taken, counts>>
  BY DEF UpdatePred
<1>2. TypeOK /\ op # <<>> /\ entries = EntriesOn(disk)
  BY <1>1, InOperation
<1>3. PICK c, q, k :
        /\ Plan(disk, c, q, k) /\ Goal(q) /\ UsedBy(q) \subseteq UsedBy(c) \cup taken
        /\ Standing(c, q, k)
  BY <1>1, InOperation
<1>4. /\ k > 1 /\ Both(c[k].pair) = Both(old) /\ Reads(disk, dir.pair, q[k])
      /\ Rooted(c, root) \/ Behind(q, k - 1)
  BY <1>1, <1>3 DEF Standing, AtPred
<1>5. entries' = entries
  BY <1>1, <1>2
<1>6. disk \in Disk /\ dir \in Mdir /\ dir.pair \in Pair
  BY <1>2, Typed, MdirFields
<1>7. /\ Listed(disk, c) /\ IsList(q) /\ Proper(c) /\ Apart(c) /\ IsList(c)
      /\ k \in 1..Len(c) /\ k \in 1..Len(q) /\ Len(q) \in Nat /\ Len(c) \in Nat /\ k \in Nat
  BY <1>3, <1>6, PlanSizes
<1>8. PICK m \in Preds(disk, old) : StartCommit(m, [put |-> Nothing, tail |-> dir.pair])
  BY DEF UpdatePred
<1>9. PICK j : j = k - 1
  OBVIOUS
<1>10. m = c[j] /\ j \in 1..Len(c) /\ j \in 1..Len(q) /\ q[j] = c[j] /\ m \in Mdir /\ j < k
  <2>1. m = c[k - 1] /\ k - 1 \in 1..Len(c)
    BY <1>4, <1>6, <1>7, <1>8, PredsAre
  <2>2. j \in 1..(k - 1) /\ j \in 1..Len(q) /\ j < k
    BY <1>4, <1>7, <1>9
  <2>3. q[j] = c[j]
    BY <1>3, <2>2 DEF Plan
  <2> QED
    BY <1>7, <1>9, <2>1, <2>2, <2>3, ListTyped
<1>11. /\ ChangedEntries(m, Nothing) = m.entries /\ ChangedTail(m, dir.pair) = dir.pair
       /\ Nothing \in Puts /\ dir.pair \in Tails
  BY <1>6, <1>10, NothingChanged
<1>12. /\ dir' \in Mdir /\ dir'.pair = m.pair /\ dir'.rev = m.rev
       /\ dir'.entries = m.entries /\ dir'.tail = dir.pair
       /\ old' = m.pair /\ old' \in Pair
       /\ change' \in [put : [Names -> Values \cup {Gone, Keep}], tail : Pair \cup {Nil, <<Keep>>}]
       /\ at' \in {"append", "compact"}
       /\ at' = "append" => AtAppend(c, j)'
  <2> HIDE DEF Nothing
  <2> QED
    BY <1>8, <1>10, <1>11, CommitStarted
<1>13. PICK n : n = Put(q, j, dir')
  OBVIOUS
<1>14. Plan(disk, c, n, j) /\ Alike(q, n)
  BY <1>3, <1>4, <1>6, <1>9, <1>10, <1>12, <1>13, PlanBack
<1>15. n[j] = dir' /\ \A i \in 1..Len(q) : i # j => n[i] = q[i]
  BY <1>7, <1>10, <1>12, <1>13, PutIs
<1>16. SamePlaces(q, n)
  BY <1>7, <1>10, <1>12, <1>13, PutSamePlaces
<1>17. Goal(n)'
  <2>1. Shows(q, GoalEntries) /\ Rooted(q, root)
    BY <1>3 DEF Goal
  <2>2. Shows(n, GoalEntries) /\ Rooted(n, root)
    BY <1>7, <1>14, <1>16, <2>1, AlikeShows, SameRooted
  <2>3. GoalEntries' = GoalEntries
    BY <1>1, <1>5 DEF GoalEntries
  <2> QED
    BY <1>1, <2>2, <2>3 DEF Goal
<1>18. (UsedBy(n) \subseteq UsedBy(c) \cup taken)'
  BY <1>1, <1>3, <1>14, <1>16, SameUsed
<1>19. AtPair(c, n, j)'
  <2>1. ASSUME Behind(q, k - 1), NEW i \in 1..j
        PROVE  0 \in Present(n[i]) /\ Both(n[i].pair) \cap Both(root) = {}
    <3>1. i \in 1..Len(q) /\ i \in 1..(k - 1)
      BY <1>7, <1>9, <1>10
    <3>2. 0 \in Present(q[i]) /\ Both(q[i].pair) \cap Both(root) = {}
      BY <2>1, <3>1 DEF Behind
    <3>3. Present(n[i]) = Present(q[i])
      BY <1>14, <3>1, AlikePresent DEF Alike
    <3>4. Both(n[i].pair) = Both(q[i].pair)
      BY <1>16, <3>1 DEF SamePlaces
    <3> QED
      BY <3>2, <3>3, <3>4
  <2>2. Rooted(c, root') \/ Behind(n, j)'
    BY <1>1, <1>4, <2>1 DEF Behind
  <2> QED
    BY <1>10, <1>12, <1>15, <2>2 DEF AtPair
<1>20. Standing(c, n, j)'
  BY <1>10, <1>12, <1>19 DEF Standing
<1>21. Working(c, n, j)'
  BY <1>1, <1>14, <1>17, <1>18, <1>20 DEF Working
<1>22. TypeOK'
  <2>1. at' \in Place
    BY <1>12 DEF Place
  <2> QED
    BY <1>1, <1>2, <1>5, <1>12, <2>1 DEF TypeOK
<1>23. IInv'
  BY <1>1, <1>2, <1>12, <1>21, <1>22, ToOp
<1> QED
  BY <1>1, <1>5, <1>23 DEF Quiet

-----------------------------------------------------------------------------
(* Unwritable blocks.                                                      *)

LEMMA TornIs ==
  ASSUME disk \in Disk, NEW m \in Mdir, disk' \in TornBlock(m)
  PROVE  disk' \in Disk /\ Differs(disk, disk', {m.pair[2]}) /\ Commits(disk'[m.pair[2]].log) = 0
<1>1. /\ disk' \in Disk
      /\ \A b \in Blocks : b # m.pair[2] => disk'[b] = disk[b]
      /\ Commits(disk'[m.pair[2]].log) = 0
  BY TornBlockIs
<1> QED
  BY <1>1 DEF Differs

(* A write to a new pair that is cut short.                                *)
LEMMA SplitTorn ==
  ASSUME TypeOK, entries = EntriesOn(disk), NEW c, NEW q, NEW k, Plan(disk, c, q, k),
         AtSplit(c, q), disk' \in TornBlock(split)
  PROVE  /\ disk' \in Disk /\ Plan(disk', c, q, k) /\ EntriesOn(disk') = entries
         /\ Listed(disk', c) /\ Proper(c)
         /\ disk'[split.pair[1]] = disk[split.pair[1]]
<1>1. disk \in Disk /\ split \in Mdir /\ split.pair \in Pair /\ split.pair[1] \in Blocks
  BY Typed, MdirFields, PairKinds
<1>2. disk' \in Disk /\ Differs(disk, disk', {split.pair[2]})
  BY <1>1, TornIs
<1>3. /\ split.pair[1] # split.pair[2]
      /\ {split.pair[2]} \cap UsedBy(c) = {} /\ {split.pair[2]} \cap UsedBy(q) = {}
  BY <1>1, BothIs DEF AtSplit, Fresh
<1>4. Plan(disk', c, q, k)
  BY <1>1, <1>2, <1>3, PlanAside
<1>5. Listed(disk', c) /\ Listed(disk, c) /\ Proper(c) /\ Apart(c)
  BY <1>1, <1>2, <1>4, PlanSizes
<1>6. EntriesOn(disk') = entries
  BY <1>1, <1>2, <1>5, SameEntries, AlikeSelf
<1>7. disk'[split.pair[1]] = disk[split.pair[1]]
  BY <1>1, <1>2, <1>3 DEF Differs
<1> QED
  BY <1>2, <1>4, <1>5, <1>6, <1>7

(* A compaction that is cut short.                                         *)
LEMMA WriteTorn ==
  ASSUME TypeOK, entries = EntriesOn(disk), NEW c, NEW q, NEW k, Plan(disk, c, q, k),
         AtPair(c, q, k), AtWrite(c, q, k), disk' \in TornBlock(dir)
  PROVE  /\ disk' \in Disk /\ Plan(disk', c, q, k) /\ EntriesOn(disk') = entries
         /\ Listed(disk', c) /\ Proper(c)
<1>1. disk \in Disk /\ dir \in Mdir /\ dir.pair \in Pair
  BY Typed, MdirFields
<1>2. disk' \in Disk /\ Differs(disk, disk', {dir.pair[2]}) /\ Commits(disk'[dir.pair[2]].log) = 0
  BY <1>1, TornIs
<1>3. Plan(disk', c, q, k)
  <2>1. CASE dir.pair = old
    <3>1. c[k].pair = dir.pair /\ Both(q[k].pair) = Both(c[k].pair)
      BY <2>1 DEF AtPair
    <3> QED
      BY <1>1, <1>2, <3>1, PlanTorn
  <2>2. CASE dir.pair # old
    <3>1. {dir.pair[2]} \cap UsedBy(c) = {} /\ {dir.pair[2]} \cap UsedBy(q) = {}
      BY <2>2 DEF AtWrite, Fresh
    <3> QED
      BY <1>1, <1>2, <3>1, PlanAside
  <2> QED
    BY <2>1, <2>2
<1>4. Listed(disk', c) /\ Listed(disk, c) /\ Proper(c) /\ Apart(c)
  BY <1>1, <1>2, <1>3, PlanSizes
<1>5. EntriesOn(disk') = entries
  BY <1>1, <1>2, <1>4, SameEntries, AlikeSelf
<1> QED
  BY <1>2, <1>3, <1>4, <1>5

(* A second pair whose block cannot be written gets another one.           *)
LEMMA BadSplitStep ==
  ASSUME IInv, entries' = EntriesOn(disk'),
         at \in {"split", "expand"}, disk' \in TornBlock(split),
         \/ \E b \in Free : /\ split' = [split EXCEPT !.pair[2] = b]
                            /\ taken' = taken \cup {b}
                            /\ UNCHANGED at
         \/ /\ at' = IF at = "split" THEN "unsplit" ELSE "ready"
            /\ split' = NoMdir
            /\ UNCHANGED taken,
         UNCHANGED <<root, op, error, dir, change, old>>
  PROVE  IInv' /\ Quiet
<1>1. TypeOK /\ op # <<>> /\ entries = EntriesOn(disk)
  BY InOperation
<1>2. PICK c, q, k :
        /\ Plan(disk, c, q, k) /\ Goal(q) /\ UsedBy(q) \subseteq UsedBy(c) \cup taken
        /\ Standing(c, q, k)
  BY InOperation
<1>3. /\ AtPair(c, q, k) /\ dir.pair = old /\ dir.rev = c[k].rev /\ AtSplit(c, q)
      /\ at = "split" => Upper0
      /\ at = "expand" => IsHead(old) /\ split.entries = dir.entries
  BY <1>2 DEF Standing
<1>4. disk \in Disk /\ split \in Mdir /\ split.pair \in Pair /\ taken \subseteq Blocks
      /\ Listed(disk, c) /\ Apart(c)
  BY <1>1, <1>2, Typed, MdirFields, PlanSizes
<1>5. /\ disk' \in Disk /\ Plan(disk', c, q, k) /\ entries' = entries
      /\ disk'[split.pair[1]] = disk[split.pair[1]]
  BY <1>1, <1>2, <1>3, SplitTorn
<1>6. AtPair(c, q, k)' /\ dir'.pair = old' /\ dir'.rev = c[k].rev
  BY <1>3 DEF AtPair, Behind
<1>7. Goal(q)'
  BY <1>2, <1>5 DEF Goal, GoalEntries
<1> DEFINE Out ==
      /\ at' \in {"split", "expand", "unsplit", "ready"} /\ split' \in Mdir
      /\ taken \subseteq taken' /\ taken' \subseteq Blocks
      /\ at' \in {"split", "expand"} => AtSplit(c, q)'
      /\ at' = "split" => Upper0'
      /\ at' = "expand" => IsHead(old') /\ split'.entries = dir'.entries
<1>8. Out
  <2>1. ASSUME NEW b \in Free, split' = [split EXCEPT !.pair[2] = b], taken' = taken \cup {b}, at' = at
        PROVE  Out
    <3>1. b \in Blocks /\ b \notin UsedBy(c) /\ b \notin taken
      BY <1>1, <1>4, FreeIs
    <3>2. /\ split' \in Mdir /\ split'.pair = <<split.pair[1], b>> /\ split'.rev = split.rev
          /\ split'.entries = split.entries /\ split'.tail = split.tail
      BY <1>4, <2>1, <3>1, WithBlock, ZenonT(60)
    <3>3. split'.pair[1] = split.pair[1] /\ split'.pair[2] = b /\ Both(split'.pair) = {split.pair[1], b}
      BY <3>2 DEF Both
    <3>4. /\ split.pair[1] \in taken /\ split.pair[1] \notin UsedBy(c) /\ split.pair[1] \notin UsedBy(q)
          /\ split.tail = dir.tail /\ Newer(split.rev, disk[split.pair[1]].rev)
      BY <1>3, <1>4, BothIs DEF AtSplit, Fresh
    <3>5. Fresh(c, q, Both(split.pair))'
      BY <1>2, <2>1, <3>1, <3>3, <3>4 DEF Fresh
    <3>6. AtSplit(c, q)'
      BY <1>5, <3>1, <3>2, <3>3, <3>4, <3>5 DEF AtSplit
    <3>7. Present(split') = Present(split) /\ Present(dir') = Present(dir)
      BY <3>2, AlikePresent
    <3>8. at' = "split" => Upper0'
      BY <1>3, <2>1, <3>2, <3>7 DEF Upper0
    <3>9. taken \subseteq taken' /\ taken' \subseteq Blocks
      BY <1>4, <2>1, <3>1
    <3>10. at' = "expand" => IsHead(old') /\ split'.entries = dir'.entries
      BY <1>3, <2>1, <3>2
    <3>11. at' \in {"split", "expand", "unsplit", "ready"}
      BY <2>1
    <3> QED
      BY <3>2, <3>6, <3>8, <3>9, <3>10, <3>11
  <2>2. CASE /\ at' = IF at = "split" THEN "unsplit" ELSE "ready"
             /\ split' = NoMdir
             /\ UNCHANGED taken
    <3>1. at' \in {"unsplit", "ready"} /\ split' \in Mdir
      BY <2>2, NoMdirIs
    <3> QED
      BY <1>4, <2>2, <3>1
  <2> HIDE DEF Out
  <2> QED
    BY <2>1, <2>2
<1>9. Standing(c, q, k)'
  BY <1>6, <1>8 DEF Standing
<1>10. Working(c, q, k)'
  BY <1>2, <1>5, <1>7, <1>8, <1>9 DEF Working
<1>11. TypeOK'
  <2>1. disk' \in [Blocks -> [rev : Rev, log : [1..Slots -> Slot]]]
    BY <1>5 DEF Disk, Log
  <2>2. at' \in Place
    BY <1>8 DEF Place
  <2> QED
    BY <1>1, <1>5, <1>8, <2>1, <2>2 DEF TypeOK
<1>12. IInv'
  BY <1>1, <1>8, <1>10, <1>11, ToOp
<1> QED
  BY <1>5, <1>12 DEF Quiet

(* A pair whose block cannot be written moves to another one.              *)
LEMMA BadWriteStep ==
  ASSUME IInv, entries' = EntriesOn(disk'),
         at = "write", op # <<>>, ~IsHead(dir.pair), disk' \in TornBlock(dir),
         NEW b \in Free, dir' = [dir EXCEPT !.pair[2] = b], taken' = taken \cup {b},
         UNCHANGED <<at, op, error, change, old, split, root>>
  PROVE  IInv' /\ Quiet
<1>1. TypeOK /\ op # <<>> /\ entries = EntriesOn(disk)
  BY InOperation
<1>2. PICK c, q, k :
        /\ Plan(disk, c, q, k) /\ Goal(q) /\ UsedBy(q) \subseteq UsedBy(c) \cup taken
        /\ Standing(c, q, k)
  BY InOperation
<1>3. AtPair(c, q, k) /\ AtWrite(c, q, k)
  BY <1>2 DEF Standing
<1>4. disk \in Disk /\ dir \in Mdir /\ taken \subseteq Blocks /\ Listed(disk, c) /\ Apart(c)
  BY <1>1, <1>2, Typed, PlanSizes
<1>5. disk' \in Disk /\ Plan(disk', c, q, k) /\ entries' = entries
  BY <1>1, <1>2, <1>3, WriteTorn
<1>6. b \in Blocks /\ b \notin UsedBy(c) /\ b \notin taken
  BY <1>1, <1>4, FreeIs
<1>7. /\ dir' \in Mdir /\ dir'.pair = <<dir.pair[1], b>> /\ dir'.rev = dir.rev
      /\ dir'.entries = dir.entries /\ dir'.tail = dir.tail
  BY <1>4, <1>6, WithBlock, ZenonT(60)
<1>8. dir'.pair[1] = dir.pair[1] /\ dir'.pair[2] = b
  BY <1>7
<1>9. AtPair(c, q, k)'
  BY <1>3, <1>7 DEF AtPair, Behind
<1>10. AtWrite(c, q, k)'
  <2>1. dir.rev = Inc(c[k].rev) /\ ~IsHead(old) /\ dir.pair[1] = old[1]
    BY <1>3 DEF AtWrite
  <2>2. Fresh(c, q, {dir.pair[2]})'
    BY <1>2, <1>6, <1>8 DEF Fresh
  <2> QED
    BY <1>7, <1>8, <2>1, <2>2 DEF AtWrite
<1>11. Standing(c, q, k)'
  BY <1>9, <1>10 DEF Standing
<1>12. Working(c, q, k)'
  <2>1. Goal(q)'
    BY <1>2, <1>5 DEF Goal, GoalEntries
  <2> QED
    BY <1>2, <1>5, <1>11, <2>1 DEF Working
<1>13. TypeOK'
  <2>1. disk' \in [Blocks -> [rev : Rev, log : [1..Slots -> Slot]]]
    BY <1>5 DEF Disk, Log
  <2>2. taken' \subseteq Blocks
    BY <1>4, <1>6
  <2> QED
    BY <1>1, <1>5, <1>7, <2>1, <2>2 DEF TypeOK
<1>14. IInv'
  BY <1>1, <1>12, <1>13, ToOp
<1> QED
  BY <1>5, <1>14 DEF Quiet

(* The commit fails.  RAM keeps a root that is in the list.                *)
LEMMA CommitFailsStep ==
  ASSUME IInv, entries' = EntriesOn(disk'),
         at = "write", op # <<>>, disk' \in TornBlock(dir),
         0 \notin Present(dir) \/ SamePair(old, root), Return(TRUE), root' = root
  PROVE  IInv' /\ Directory!Fail
<1>1. TypeOK /\ op # <<>> /\ entries = EntriesOn(disk)
  BY InOperation
<1>2. PICK c, q, k :
        /\ Plan(disk, c, q, k) /\ Goal(q) /\ UsedBy(q) \subseteq UsedBy(c) \cup taken
        /\ Standing(c, q, k)
  BY InOperation
<1>3. AtPair(c, q, k) /\ AtWrite(c, q, k)
  BY <1>2 DEF Standing
<1>4. /\ disk' \in Disk /\ entries' = entries /\ Listed(disk', c) /\ Proper(c)
  BY <1>1, <1>2, <1>3, WriteTorn
<1>5. k \in 1..k /\ entries \in EntryTable /\ root \in Pair
  <2>1. disk \in Disk /\ entries \in EntryTable /\ root \in Pair
    BY <1>1, Typed
  <2>2. k \in 1..Len(c) /\ Len(c) \in Nat
    BY <1>2, <2>1, PlanSizes
  <2> QED
    BY <2>1, <2>2
<1>6. Rooted(c, root)
  <2> SUFFICES ASSUME Behind(q, k) PROVE FALSE
    BY <1>3 DEF AtPair
  <2>1. 0 \in Present(q[k]) /\ Both(q[k].pair) \cap Both(root) = {}
    BY <1>5 DEF Behind
  <2>2. Present(q[k]) = Present(dir) /\ q[k].pair = old
    BY <1>3, AlikePresent DEF AtPair
  <2> QED
    BY <2>1, <2>2, SamePairIs
<1>7. TypeOK' /\ at' = "idle" /\ op' = <<>> /\ error' = TRUE
  BY <1>1, <1>4, <1>5, Returned
<1>8. IInv'
  BY <1>4, <1>6, <1>7, ToIdle
<1> QED
  BY <1>1, <1>4, <1>7, <1>8 DEF Directory!Fail

(* A block that cannot be written, wherever an operation meets it.         *)
LEMMA BadBlockStep ==
  ASSUME IInv, BadBlock, entries' = EntriesOn(disk')
  PROVE  IInv' /\ (Directory!Fail \/ Quiet)
<1>1. \/ /\ at \in {"split", "expand"}
         /\ disk' \in TornBlock(split)
         /\ \/ \E b \in Free : /\ split' = [split EXCEPT !.pair[2] = b]
                               /\ taken' = taken \cup {b}
                               /\ UNCHANGED at
            \/ /\ at' = IF at = "split" THEN "unsplit" ELSE "ready"
               /\ split' = NoMdir
               /\ UNCHANGED taken
         /\ UNCHANGED <<root, op, error, dir, change, old>>
      \/ /\ at = "write" /\ op # <<>> /\ ~IsHead(dir.pair)
         /\ disk' \in TornBlock(dir)
         /\ \/ \E b \in Free : /\ dir' = [dir EXCEPT !.pair[2] = b]
                               /\ taken' = taken \cup {b}
                               /\ UNCHANGED <<at, op, error, change, old, split, root>>
            \/ /\ 0 \notin Present(dir) \/ SamePair(old, root)
               /\ Return(TRUE) /\ root' = root
  BY DEF BadBlock
<1>2. CASE /\ at \in {"split", "expand"}
           /\ disk' \in TornBlock(split)
           /\ \/ \E b \in Free : /\ split' = [split EXCEPT !.pair[2] = b]
                                 /\ taken' = taken \cup {b}
                                 /\ UNCHANGED at
              \/ /\ at' = IF at = "split" THEN "unsplit" ELSE "ready"
                 /\ split' = NoMdir
                 /\ UNCHANGED taken
           /\ UNCHANGED <<root, op, error, dir, change, old>>
  BY <1>2, BadSplitStep
<1>3. ASSUME at = "write", op # <<>>, ~IsHead(dir.pair), disk' \in TornBlock(dir),
             NEW b \in Free, dir' = [dir EXCEPT !.pair[2] = b], taken' = taken \cup {b},
             UNCHANGED <<at, op, error, change, old, split, root>>
      PROVE  IInv' /\ Quiet
  BY <1>3, BadWriteStep
<1>4. CASE /\ at = "write" /\ op # <<>> /\ disk' \in TornBlock(dir)
           /\ 0 \notin Present(dir) \/ SamePair(old, root)
           /\ Return(TRUE) /\ root' = root
  BY <1>4, CommitFailsStep
<1> QED
  BY <1>1, <1>2, <1>3, <1>4

-----------------------------------------------------------------------------
(* Beginning an operation.                                                 *)

LEMMA PairIsUsed ==
  ASSUME NEW c, IsList(c), NEW k \in 1..Len(c)
  PROVE  Both(c[k].pair) \subseteq UsedBy(c)
<1>1. Both(c[k].pair) \subseteq Blocks
  BY ListTyped, BothIs
<1> QED
  BY <1>1 DEF UsedBy

(* A plan to start from.                                                   *)
LEMMA Begun ==
  ASSUME IInv, at = "idle", entries' = EntriesOn(disk'),
         UNCHANGED <<disk, root, error, split, taken>>,
         NEW f \in Files, NEW v \in Values \cup {Gone}, op' = <<f, v>>,
         NEW c, NEW q, NEW k, Plan(disk, c, q, k), Rooted(c, root),
         Shows(q, [entries EXCEPT ![f] = v]), Rooted(q, root), UsedBy(q) \subseteq UsedBy(c),
         NEW put \in Puts, NEW tail \in Tails, StartCommit(c[k], [put |-> put, tail |-> tail]),
         q[k] = dir'
  PROVE  IInv' /\ Directory!Begin
<1>1. TypeOK /\ op = <<>> /\ entries = EntriesOn(disk)
  BY DEF IInv
<1>2. disk \in Disk /\ c[k] \in Mdir
  BY <1>1, Typed, PlanSizes
<1>3. entries' = entries
  BY <1>1
<1>4. /\ dir' \in Mdir /\ dir'.pair = c[k].pair /\ dir'.rev = c[k].rev
      /\ old' = c[k].pair /\ old' \in Pair
      /\ change' \in [put : [Names -> Values \cup {Gone, Keep}], tail : Pair \cup {Nil, <<Keep>>}]
      /\ at' \in {"append", "compact"}
      /\ at' = "append" => AtAppend(c, k)'
  BY <1>2, CommitStarted
<1>5. op' # <<>> /\ op'[1] = f /\ op'[2] = v
  OBVIOUS
<1>6. Goal(q)'
  BY <1>3, <1>5 DEF Goal, GoalEntries
<1>7. AtPair(c, q, k)'
  BY <1>4 DEF AtPair
<1>8. Standing(c, q, k)'
  BY <1>4, <1>7 DEF Standing
<1>9. Working(c, q, k)'
  BY <1>6, <1>8 DEF Working
<1>10. TypeOK'
  <2>1. at' \in Place
    BY <1>4 DEF Place
  <2>2. op' \in Files \X (Values \cup {Gone})
    OBVIOUS
  <2> QED
    BY <1>1, <1>3, <1>4, <2>1, <2>2 DEF TypeOK
<1>11. IInv'
  BY <1>4, <1>5, <1>9, <1>10, ToOp
<1> QED
  BY <1>1, <1>3, <1>11 DEF Directory!Begin

LEMMA Idle ==
  ASSUME IInv, at = "idle"
  PROVE  /\ disk \in Disk /\ root \in Pair /\ entries \in EntryTable
         /\ \E c : /\ Listed(disk, c) /\ Proper(c) /\ Rooted(c, root) /\ Shows(c, entries)
                   /\ IsList(c) /\ Apart(c) /\ Sorted(c)
<1>1. TypeOK /\ entries = EntriesOn(disk) /\ Sound(disk, root)
  BY DEF IInv
<1>2. disk \in Disk /\ root \in Pair /\ entries \in EntryTable
  BY <1>1, Typed
<1>3. PICK c : Listed(disk, c) /\ Proper(c) /\ Rooted(c, root)
  BY <1>1 DEF Sound
<1>4. Shows(c, entries)
  BY <1>1, <1>2, <1>3, EntriesShown
<1> QED
  BY <1>2, <1>3, <1>4 DEF Listed, Proper

(* An operation that writes an entry begins.                               *)
LEMMA BeginChange ==
  ASSUME IInv, at = "idle", entries' = EntriesOn(disk'),
         UNCHANGED <<disk, root, error, split, taken>>,
         NEW f \in Files, NEW v \in Values \cup {Gone}, op' = <<f, v>>,
         StartCommit(Find(disk, root, f), [put |-> [Nothing EXCEPT ![f] = v], tail |-> <<Keep>>])
  PROVE  IInv' /\ Directory!Begin
<1>1. disk \in Disk /\ root \in Pair /\ entries \in EntryTable
  BY Idle
<1>2. PICK c : /\ Listed(disk, c) /\ Proper(c) /\ Rooted(c, root) /\ Shows(c, entries)
               /\ IsList(c) /\ Apart(c) /\ Sorted(c)
  BY Idle
<1>3. PICK k \in 1..Len(c) : Find(disk, root, f) = c[k] /\ FoundAt(c, k, f)
  BY <1>1, <1>2, FindIs
<1>4. c[k] \in Mdir
  BY <1>2, ListTyped
<1> DEFINE put == [Nothing EXCEPT ![f] = v]
           tail == <<Keep>>
<1>5. put \in Puts /\ tail \in Tails /\ \A x \in Names : put[x] = IF x = f THEN v ELSE Keep
  <2>1. f \in Names
    BY FilesNames
  <2> QED
    BY <2>1 DEF Nothing, Puts, Tails
<1>6. StartCommit(c[k], [put |-> put, tail |-> tail])
  BY <1>3
<1>7. ChangedTail(c[k], tail) = c[k].tail
  BY DEF ChangedTail
<1> HIDE DEF put, tail
<1>8. /\ dir' \in Mdir /\ dir'.pair = c[k].pair
      /\ dir'.entries = ChangedEntries(c[k], put) /\ dir'.tail = c[k].tail
  BY <1>4, <1>5, <1>6, <1>7, CommitStarted
<1>9. Changes(c[k], f, v, dir')
  <2>1. \A x \in Names : ChangedEntries(c[k], put)[x] = IF put[x] = Keep THEN c[k].entries[x] ELSE put[x]
    BY <1>4, <1>5, ChangedIs
  <2>2. v # Keep
    BY GoneIsNone
  <2> QED
    BY <1>5, <1>8, <2>1, <2>2 DEF Changes
<1>10. PICK q : q = Put(c, k, dir')
  OBVIOUS
<1>11. Proper(q) /\ Shows(q, [entries EXCEPT ![f] = v])
  BY <1>1, <1>2, <1>3, <1>8, <1>9, <1>10, ChangedProper, ChangedShows
<1>12. Plan(disk, c, q, k)
  BY <1>1, <1>2, <1>8, <1>10, <1>11, PlanChanged
<1>13. Rooted(q, root)
  <2>1. 0 \in Present(dir') <=> 0 \in Present(c[k])
    BY <1>9, ChangedPresent
  <2>2. Both(root) = IF Both(c[k].pair) \cap Both(root) # {} THEN Both(dir'.pair) ELSE Both(root)
    BY <1>2, <1>8, RootedPlace
  <2> QED
    BY <1>2, <1>8, <1>10, <2>1, <2>2, PutRooted
<1>14. UsedBy(q) \subseteq UsedBy(c)
  BY <1>2, <1>8, <1>10, PutUsed, PairIsUsed
<1>15. q[k] = dir'
  BY <1>2, <1>8, <1>10, PutIs
<1> QED
  BY <1>2, <1>5, <1>6, <1>11, <1>12, <1>13, <1>14, <1>15, Begun

(* An operation that leaves out a pair with no entry begins.               *)
LEMMA BeginDrop ==
  ASSUME IInv, at = "idle", entries' = EntriesOn(disk'),
         UNCHANGED <<disk, root, error, split, taken>>,
         NEW f \in Files, op' = <<f, Gone>>, NEW m, m = Find(disk, root, f), Present(m) = {f},
         NEW p \in Preds(disk, m.pair), StartCommit(p, [put |-> Nothing, tail |-> m.tail])
  PROVE  IInv' /\ Directory!Begin
<1>1. disk \in Disk /\ root \in Pair /\ entries \in EntryTable
  BY Idle
<1>2. PICK c : /\ Listed(disk, c) /\ Proper(c) /\ Rooted(c, root) /\ Shows(c, entries)
               /\ IsList(c) /\ Apart(c) /\ Sorted(c)
  BY Idle
<1>3. PICK k \in 1..Len(c) : m = c[k]
  BY <1>1, <1>2, FindIs
<1>4. m \in Mdir /\ Len(c) \in Nat
  BY <1>2, <1>3, ListTyped
<1>5. PICK j : j = k - 1
  OBVIOUS
<1>6. k \in 2..Len(c) /\ j \in 1..Len(c) /\ p = c[j] /\ j # k
  <2>1. k > 1 /\ k - 1 \in 1..Len(c) /\ p = c[k - 1]
    BY <1>1, <1>2, <1>3, PredsAre
  <2> QED
    BY <1>4, <1>5, <2>1
<1>7. p \in Mdir /\ m.tail \in Pair \cup {Nil}
  BY <1>2, <1>4, <1>6, ListTyped, MdirFields
<1>8. /\ ChangedEntries(p, Nothing) = p.entries /\ ChangedTail(p, m.tail) = m.tail
      /\ Nothing \in Puts /\ m.tail \in Tails
  BY <1>7, NothingChanged
<1> DEFINE put == Nothing
           tail == m.tail
<1>9. StartCommit(c[j], [put |-> put, tail |-> tail])
  BY <1>6
<1> HIDE DEF put, tail
<1>10. /\ dir' \in Mdir /\ dir'.pair = c[j].pair
       /\ dir'.entries = c[j].entries /\ dir'.tail = c[k].tail
  BY <1>3, <1>6, <1>7, <1>8, <1>9, CommitStarted DEF put, tail
<1>11. PICK g : g = Put(c, j, dir')
  OBVIOUS
<1>12. IsList(g) /\ Len(g) = Len(c) /\ g[k] = c[k] /\ g[j] = dir' /\ k \in 2..Len(g)
  BY <1>2, <1>4, <1>6, <1>10, <1>11, PutIs
<1>13. Alike(c, g) /\ SamePlaces(c, g) /\ Proper(g)
  BY <1>2, <1>6, <1>10, <1>11, PutAlike, PutSamePlaces, PutSamePlace
<1>14. Shows(g, entries) /\ Rooted(g, root) /\ Sorted(g) /\ Present(g[k]) = {f}
  BY <1>2, <1>3, <1>12, <1>13, AlikeShows, SameRooted DEF Proper
<1>15. PICK q : q = Drop(g, k)
  OBVIOUS
<1>16. Plan(disk, c, q, j) /\ q[j] = dir' /\ UsedBy(q) \subseteq UsedBy(c)
  BY <1>1, <1>2, <1>5, <1>6, <1>10, <1>11, <1>15, PlanDropped
<1>17. Shows(q, [entries EXCEPT ![f] = Gone])
  BY <1>1, <1>12, <1>14, <1>15, DropShows
<1>18. Rooted(q, root)
  <2>1. 0 \notin Present(g[k])
    BY <1>14, FilesNames
  <2> QED
    BY <1>12, <1>14, <1>15, <2>1, DropRooted
<1>19. put \in Puts /\ tail \in Tails
  BY <1>8 DEF put, tail
<1> DEFINE v == Gone
<1>20. v \in Values \cup {Gone} /\ op' = <<f, v>> /\ Shows(q, [entries EXCEPT ![f] = v])
  BY <1>17
<1> HIDE DEF v
<1> QED
  BY <1>2, <1>9, <1>16, <1>18, <1>19, <1>20, Begun

(* An operation begins with a plan: the list as it is to become.           *)
LEMMA BeginOpStep ==
  ASSUME IInv, BeginOp, entries' = EntriesOn(disk')
  PROVE  IInv' /\ Directory!Begin
<1>1. at = "idle" /\ UNCHANGED <<disk, root, error, split, taken>>
  BY DEF BeginOp
<1>2. PICK f \in Files, v \in Values \cup {Gone} :
        LET m == Find(disk, root, f)
            empties == v = Gone /\ Present(m) = {f}
        IN /\ op' = <<f, v>>
           /\ IF empties
              THEN \E p \in Preds(disk, m.pair) :
                     StartCommit(p, [put |-> Nothing, tail |-> m.tail])
              ELSE StartCommit(m, [put |-> [Nothing EXCEPT ![f] = v], tail |-> <<Keep>>])
  BY DEF BeginOp
<1> DEFINE m == Find(disk, root, f)
<1>3. CASE v = Gone /\ Present(m) = {f}
  <2>1. PICK p \in Preds(disk, m.pair) : StartCommit(p, [put |-> Nothing, tail |-> m.tail])
    BY <1>2, <1>3
  <2>2. op' = <<f, Gone>>
    BY <1>2, <1>3
  <2> QED
    BY <1>1, <1>3, <2>1, <2>2, BeginDrop
<1>4. CASE ~(v = Gone /\ Present(m) = {f})
  <2>1. StartCommit(m, [put |-> [Nothing EXCEPT ![f] = v], tail |-> <<Keep>>]) /\ op' = <<f, v>>
    BY <1>2, <1>4
  <2> QED
    BY <1>1, <2>1, BeginChange
<1> QED
  BY <1>3, <1>4

-----------------------------------------------------------------------------
(* Formatting.                                                             *)

NoEntries == [f \in Files |-> Gone]

(* A disk without a directory.                                             *)
LEMMA BlankIs ==
  ASSUME NEW d \in Disk, Blank(d)
  PROVE  /\ Chain(d)[1].off = 0 /\ DOMAIN Chain(d) = 1..1
         /\ EntriesOn(d) = NoEntries
<1>1. Head0 \in Pair /\ Flip(Head0) \in Pair /\ Head0[1] = R0 /\ Flip(Head0)[1] = R1
  BY HeadIsPair, PairKinds DEF Head0, Flip
<1>2. PICK p \in Pair : Fetch(d, Head0) = Loaded(d, p) /\ Commits(d[p[1]].log) = 0
  BY <1>1, FetchIs DEF Blank
<1> DEFINE m == Fetch(d, Head0)
<1>3. m.off = 0 /\ m \in Mdir /\ m.entries = [x \in Names |-> Latest(d[p[1]].log, 0, x)]
  BY <1>2, LoadedTyped DEF Loaded
<1>4. Present(m) = {}
  BY <1>3, LatestOfNone, PresentIs
<1> DEFINE c == <<m>>
<1>5. Len(c) = 1 /\ c[1] = m /\ DOMAIN c = 1..1 /\ c \in Seq(Mdir)
  BY <1>3
<1>6. ReadFrom(d, Head0, c, Mdir)
  <2>1. Ends(m)
    BY <1>3 DEF Ends
  <2>2. Len(c) \in 1..(Cardinality(Blocks) + 1)
    BY <1>5, BlocksFinite
  <2> HIDE DEF c, m
  <2>3. c[1] = Fetch(d, Head0) /\ Ends(c[Len(c)]) /\ \A i \in 2..Len(c) : FALSE
    BY <1>5, <2>1 DEF m
  <2> QED
    BY <1>5, <2>2, <2>3 DEF ReadFrom
<1>7. Chain(d) = c
  BY <1>6, ChainFromIs DEF Chain, Head0
<1> HIDE DEF c, m
<1>8. EntriesOn(d) = NoEntries
  <2> DEFINE holding(f) == {i \in DOMAIN Chain(d) : f \in Present(Chain(d)[i])}
  <2>1. \A f : holding(f) = {}
    BY <1>4, <1>5, <1>7
  <2> QED
    BY <2>1 DEF EntriesOn, NoEntries
<1> QED
  BY <1>3, <1>5, <1>7, <1>8

(* A list of one pair with a superblock entry only.                        *)
LEMMA ZeroIs ==
  ASSUME NEW d \in Disk, NEW c, Listed(d, c), Len(c) = 1, Zero(c[1])
  PROVE  Proper(c) /\ EntriesOn(d) = NoEntries
<1>1. c[1].entries = [x \in Names |-> IF x = 0 THEN Empty ELSE Gone]
  BY DEF Zero
<1>2. 0 \in Present(c[1])
  BY <1>1, PresentIs, FilesNames, GoneIsNone
<1>3. Proper(c)
  <2>1. \A i, j \in 1..Len(c) : i = j
    OBVIOUS
  <2> QED
    BY <1>2, <2>1 DEF Proper, Apart, Sorted
<1>4. NoEntries \in EntryTable /\ Shows(c, NoEntries)
  <2>1. ASSUME NEW f \in Files, NEW i \in 1..Len(c) PROVE c[i].entries[f] = Gone
    <3>1. i = 1 /\ f \in Names /\ f # 0
      BY FilesNames
    <3> QED
      BY <1>1, <3>1
  <2> QED
    BY <2>1 DEF NoEntries, EntryTable, Shows
<1> QED
  BY <1>3, <1>4, ShownEntries DEF Proper

LEMMA OnePair ==
  ASSUME NEW d \in Disk, NEW f \in Mdir, Reads(d, Head0, f), f.tail = Nil, NEW c, c = <<f>>
  PROVE  Listed(d, c) /\ Len(c) = 1 /\ c[1] = f /\ c \in Seq(Mdir)
<1>1. Len(c) = 1 /\ c[1] = f /\ c \in Seq(Mdir)
  OBVIOUS
<1>2. \A i \in 2..Len(c) : FALSE
  BY <1>1
<1>3. Linked(d, c, 1)
  BY <1>1, <1>2 DEF Linked
<1> QED
  BY <1>1, <1>3 DEF Listed, IsList

LEMMA ToFormat ==
  ASSUME TypeOK', entries' = EntriesOn(disk'), at' = "write", op' = <<>>, Formatting'
  PROVE  IInv'
  BY DEF IInv

LEMMA ToBlank ==
  ASSUME TypeOK', entries' = EntriesOn(disk'), at' \in {"blank", "mount"}, op' = <<>>, Blank(disk')
  PROVE  IInv'
  BY DEF IInv

(* Formatting a disk that has no list yet.                                 *)
LEMMA FormatStep ==
  ASSUME IInv, Format, entries' = EntriesOn(disk')
  PROVE  IInv' /\ Quiet
<1>1. /\ at = "blank" /\ at' = "write"
      /\ dir' = [NoMdir EXCEPT !.pair = <<R1, R0>>, !.rev = Inc(Aligned(disk[R1].rev)),
                               !.entries[0] = Empty]
      /\ UNCHANGED <<disk, root, op, error, change, old, split, taken, counts>>
  BY DEF Format
<1>2. TypeOK /\ op = <<>> /\ entries = EntriesOn(disk) /\ Blank(disk)
  BY <1>1 DEF IInv
<1>3. disk \in Disk
  BY <1>2, Typed
<1> DEFINE p == <<R1, R0>>
           r == Inc(Aligned(disk[R1].rev))
           es == [x \in Names |-> IF x = 0 THEN Empty ELSE Gone]
<1>4. p \in Pair
  BY HeadIsPair DEF Pair
<1>5. r \in Rev /\ Newer(r, disk[R1].rev)
  BY <1>3, HeadIsPair, CommitsNat, AlignedIsNewer
<1>6. es \in EntrySet
  BY GoneIsNone DEF EntrySet
<1>7. NoMdir.entries \in EntrySet /\ es = [NoMdir.entries EXCEPT ![0] = Empty]
  BY NoMdirIs, MdirFields DEF NoMdir
<1> HIDE DEF p, r, es
<1> DEFINE u == [NoMdir EXCEPT !.pair = p]
           w == [u EXCEPT !.rev = r]
<1>7a. u \in Mdir /\ u.pair = p /\ u.entries = NoMdir.entries /\ u.tail = Nil
  BY <1>4, NoMdirIs, WithPair
<1>7b. dir' = [[u EXCEPT !.rev = r] EXCEPT !.entries = es]
  BY <1>1, <1>7, Zenon DEF p, r, NoMdir
<1> HIDE DEF u
<1>7c. w \in Mdir /\ w.pair = p /\ w.rev = r /\ w.tail = Nil
  BY <1>5, <1>7a, WithRev
<1> HIDE DEF w
<1>7d. dir' = [w EXCEPT !.entries = es]
  BY <1>7b DEF w
<1>8. dir' \in Mdir /\ dir'.pair = p /\ dir'.rev = r /\ dir'.entries = es /\ dir'.tail = Nil
  <2>1. /\ dir' \in Mdir /\ dir'.pair = w.pair /\ dir'.rev = w.rev /\ dir'.entries = es
        /\ dir'.tail = w.tail
    BY <1>6, <1>7c, <1>7d DEF Mdir, EntrySet
  <2> QED
    BY <1>7c, <2>1
<1>9. Formatting'
  BY <1>1, <1>2, <1>5, <1>8 DEF Formatting, Zero, p, es
<1>10. TypeOK'
  <2>1. at' \in Place
    BY <1>1 DEF Place
  <2> QED
    BY <1>1, <1>2, <1>8, <2>1 DEF TypeOK
<1>11. IInv'
  BY <1>1, <1>2, <1>9, <1>10, ToFormat
<1> QED
  BY <1>1, <1>2, <1>11 DEF Quiet

(* The superblock entry is written, in the block that is not in force.     *)
LEMMA FormattedIs ==
  ASSUME TypeOK, Formatting, WriteBlock(dir)
  PROVE  /\ disk' \in Disk /\ EntriesOn(disk') = NoEntries
         /\ EntriesOn(disk) = NoEntries
         /\ disk'[dir.pair[2]].rev = dir.rev /\ dir.rev \in Rev
         /\ dir.pair \in {<<R1, R0>>, <<R0, R1>>}
         /\ \E c \in Seq(Mdir) : /\ Listed(disk', c) /\ Proper(c) /\ Len(c) = 1 /\ Zero(c[1])
                                 /\ c[1].pair = Flip(dir.pair)
<1>1. disk \in Disk /\ dir \in Mdir /\ dir.pair \in Pair /\ dir.rev \in Rev
  BY Typed, MdirFields
<1>2. /\ dir.pair \in {<<R1, R0>>, <<R0, R1>>} /\ Zero(dir)
      /\ Newer(dir.rev, disk[dir.pair[1]].rev) /\ dir.pair[1] # dir.pair[2]
  <2>1. CASE dir.pair = <<R1, R0>>
    <3>1. dir.pair[1] = R1 /\ dir.pair[2] = R0 /\ dir.pair # <<R0, R1>>
      BY <2>1, HeadIsPair
    <3> QED
      BY <2>1, <3>1, HeadIsPair DEF Formatting
  <2>2. CASE dir.pair = <<R0, R1>>
    <3>1. dir.pair[1] = R0 /\ dir.pair[2] = R1 /\ dir.pair # <<R1, R0>>
      BY <2>2, HeadIsPair
    <3> QED
      BY <2>2, <3>1, HeadIsPair DEF Formatting
  <2> QED
    BY <2>1, <2>2 DEF Formatting
<1>3. EntriesOn(disk) = NoEntries
  BY <1>1, BlankIs, ZeroIs DEF Formatting
<1>4. disk' = Written(disk, dir)
  BY DEF WriteBlock, Written
<1>5. disk' \in Disk
  BY <1>1, <1>4, WrittenDiffers
<1>6. PICK f \in Mdir :
        /\ Reads(disk', dir.pair, f)
        /\ f.pair = Flip(dir.pair) /\ f.entries = dir.entries /\ f.tail = dir.tail /\ f.rev = dir.rev
  BY <1>1, <1>2, <1>4, WrittenReads
<1>7. Reads(disk', Head0, f)
  <2>1. Both(Head0) = Both(dir.pair) /\ Head0 \in Pair
    BY <1>2, HeadIsPair DEF Both, Head0
  <2> QED
    BY <1>5, <1>6, <2>1, ReadsAt
<1>8. PICK c : c = <<f>>
  OBVIOUS
<1>9. f.tail = Nil /\ Zero(f)
  BY <1>2, <1>6 DEF Zero
<1>10. Listed(disk', c) /\ Len(c) = 1 /\ c[1] = f /\ c \in Seq(Mdir)
  BY <1>5, <1>7, <1>8, <1>9, OnePair
<1>11. Proper(c) /\ EntriesOn(disk') = NoEntries
  BY <1>5, <1>9, <1>10, ZeroIs
<1>12. disk'[dir.pair[2]].rev = dir.rev
  <2>1. f.rev = disk'[f.pair[1]].rev
    BY <1>5, <1>6, ReadRevision
  <2>2. f.pair[1] = dir.pair[2]
    BY <1>6 DEF Flip
  <2> QED
    BY <1>6, <2>1, <2>2
<1> QED
  BY <1>1, <1>2, <1>3, <1>5, <1>6, <1>9, <1>10, <1>11, <1>12

(* The directory of a new disk is written, to the one block and the other. *)
LEMMA FormatWriteStep ==
  ASSUME IInv, FormatWrite, entries' = EntriesOn(disk')
  PROVE  IInv' /\ Quiet
<1>1. at = "write" /\ op = <<>> /\ WriteBlock(dir) /\ UNCHANGED <<root, op, error, counts>>
  BY DEF FormatWrite
<1>2. TypeOK /\ entries = EntriesOn(disk) /\ Formatting
  BY <1>1 DEF IInv
<1>3. /\ disk' \in Disk /\ EntriesOn(disk') = NoEntries /\ EntriesOn(disk) = NoEntries
      /\ disk'[dir.pair[2]].rev = dir.rev /\ dir.rev \in Rev
      /\ dir.pair \in {<<R1, R0>>, <<R0, R1>>}
  BY <1>1, <1>2, FormattedIs
<1>4. PICK c \in Seq(Mdir) : /\ Listed(disk', c) /\ Proper(c) /\ Len(c) = 1 /\ Zero(c[1])
                             /\ c[1].pair = Flip(dir.pair)
  BY <1>1, <1>2, FormattedIs
<1>5. entries' = entries
  BY <1>2, <1>3
<1>6. disk' \in [Blocks -> [rev : Rev, log : [1..Slots -> Slot]]]
  BY <1>3 DEF Disk, Log
<1>7. CASE dir.pair = <<R1, R0>>
  <2>1. dir' = [Swapped(dir) EXCEPT !.rev = Inc(@)] /\ UNCHANGED <<at, change, old, split, taken>>
    BY <1>7 DEF FormatWrite
  <2>2. dir \in Mdir /\ dir.tail = Nil /\ Zero(dir)
    BY <1>2, Typed DEF Formatting, Zero
  <2>3. /\ Swapped(dir) \in Mdir /\ Swapped(dir).pair = Flip(dir.pair) /\ Swapped(dir).rev = dir.rev
        /\ Swapped(dir).entries = dir.entries /\ Swapped(dir).tail = dir.tail
    BY <2>2, SwappedIs
  <2>4. Inc(dir.rev) \in Rev /\ Newer(Inc(dir.rev), dir.rev)
    BY <1>3, IncIsNewer
  <2>5. dir' = [Swapped(dir) EXCEPT !.rev = Inc(dir.rev)]
    BY <2>1, <2>3
  <2>6. /\ dir' \in Mdir /\ dir'.pair = Flip(dir.pair) /\ dir'.rev = Inc(dir.rev)
        /\ dir'.entries = dir.entries /\ dir'.tail = dir.tail
    BY <2>3, <2>4, <2>5, WithRev
  <2>7. Flip(dir.pair) = <<R0, R1>> /\ dir.pair[2] = R0
    BY <1>7 DEF Flip
  <2>8. Formatting'
    <3>1. Zero(dir')
      BY <2>2, <2>6 DEF Zero
    <3>2. dir'.pair = <<R0, R1>> /\ Newer(dir'.rev, disk'[R0].rev)
      BY <1>3, <2>4, <2>6, <2>7
    <3>3. \E l \in Seq(Mdir) : Listed(disk', l) /\ Len(l) = 1 /\ Zero(l[1]) /\ l[1].pair = <<R0, R1>>
      BY <1>4, <2>7
    <3> QED
      BY <3>1, <3>2, <3>3 DEF Formatting
  <2>9. TypeOK'
    BY <1>1, <1>2, <1>5, <1>6, <2>1, <2>6 DEF TypeOK
  <2>10. IInv'
    BY <1>1, <2>1, <2>8, <2>9, ToFormat
  <2> QED
    BY <1>1, <1>5, <2>10 DEF Quiet
<1>8. CASE dir.pair = <<R0, R1>>
  <2>1. at' = "mount" /\ Cleared
    <3>1. dir.pair[2] # R0
      BY <1>8, HeadIsPair
    <3> QED
      BY <3>1, Zenon DEF FormatWrite
  <2>2. TypeOK'
    <3>1. at' \in Place
      BY <2>1 DEF Place
    <3> QED
      BY <1>1, <1>2, <1>5, <1>6, <2>1, <3>1, ClearedIs DEF TypeOK
  <2>3. IInv'
    BY <1>1, <1>4, <2>1, <2>2, ToMount
  <2> QED
    BY <1>1, <1>5, <2>3 DEF Quiet
<1> QED
  BY <1>3, <1>7, <1>8

(* Mounting finds the list, or that there is none, and the root.           *)
LEMMA MountStep ==
  ASSUME IInv, Mount, entries' = EntriesOn(disk')
  PROVE  IInv' /\ Quiet
<1>1. /\ at = "mount" /\ UNCHANGED <<disk, op, error, commit, counts>>
      /\ \/ Mountable(disk) /\ at' = "idle" /\ root' = RootOf(disk)
         \/ ~Mountable(disk) /\ at' = "blank" /\ root' = root
  BY DEF Mount
<1>2. TypeOK /\ op = <<>> /\ entries = EntriesOn(disk) /\ (Blank(disk) \/ Formed(disk))
  BY <1>1 DEF IInv
<1>3. disk \in Disk /\ root \in Pair
  BY <1>2, Typed
<1>4. ASSUME NEW c \in Seq(Mdir), Listed(disk, c), Proper(c)
      PROVE  Mountable(disk)
  <2>1. Chain(disk) = c
    BY <1>3, <1>4, ListedChain DEF Proper
  <2>2. DOMAIN c = 1..Len(c)
    BY <1>4
  <2>3. \A i \in DOMAIN c : c[i].off > 0
    BY <1>3, <1>4, <2>2, ListedReads
  <2>4. 0 \in Present(c[1])
    BY <1>4 DEF Proper
  <2> QED
    BY <2>1, <2>3, <2>4 DEF Mountable
<1>5. Blank(disk) => ~Mountable(disk)
  <2> SUFFICES ASSUME Blank(disk), Mountable(disk) PROVE FALSE
    OBVIOUS
  <2>1. Chain(disk)[1].off = 0 /\ 1 \in DOMAIN Chain(disk)
    BY <1>3, BlankIs
  <2>2. Chain(disk)[1].off > 0
    BY <2>1 DEF Mountable
  <2> QED
    BY <2>1, <2>2
<1>6. entries' = entries
  BY <1>1, <1>2
<1>7. CASE Mountable(disk) /\ at' = "idle" /\ root' = RootOf(disk)
  <2>1. PICK c \in Seq(Mdir) : Listed(disk, c) /\ Proper(c)
    BY <1>2, <1>5, <1>7 DEF Formed
  <2>2. root' \in Pair /\ Rooted(c, root')
    BY <1>3, <1>7, <2>1, RootOfIs
  <2>3. TypeOK'
    <3>1. at' \in Place
      BY <1>7 DEF Place
    <3> QED
      BY <1>1, <1>2, <1>6, <2>2, <3>1 DEF TypeOK, commit
  <2>4. IInv'
    BY <1>1, <1>2, <1>7, <2>1, <2>2, <2>3, ToIdle
  <2> QED
    BY <1>1, <1>6, <2>4 DEF Quiet
<1>8. CASE ~Mountable(disk) /\ at' = "blank" /\ root' = root
  <2>1. Blank(disk')
    BY <1>1, <1>2, <1>4, <1>8 DEF Formed
  <2>2. TypeOK'
    <3>1. at' \in Place
      BY <1>8 DEF Place
    <3> QED
      BY <1>1, <1>2, <1>6, <1>8, <3>1 DEF TypeOK, commit
  <2>3. IInv'
    BY <1>1, <1>2, <1>8, <2>1, <2>2, ToBlank
  <2> QED
    BY <1>1, <1>6, <2>3 DEF Quiet
<1> QED
  BY <1>1, <1>7, <1>8

-----------------------------------------------------------------------------
(* Losing power.                                                           *)

(* A write to the head of the list while it is formatted is cut short.     *)
LEMMA FormatTorn ==
  ASSUME TypeOK, Formatting, disk' \in TornBlock(dir)
  PROVE  /\ disk' \in Disk /\ EntriesOn(disk') = EntriesOn(disk)
         /\ Blank(disk') \/ Formed(disk')
<1>1. disk \in Disk /\ dir \in Mdir
  BY Typed
<1>2. disk' \in Disk /\ Differs(disk, disk', {dir.pair[2]}) /\ Commits(disk'[dir.pair[2]].log) = 0
  BY <1>1, TornIs
<1>3. CASE dir.pair = <<R1, R0>> /\ Blank(disk)
  <2>1. dir.pair[2] = R0
    BY <1>3
  <2>2. disk'[R1] = disk[R1]
    BY <1>2, <2>1, HeadIsPair DEF Differs
  <2>3. Blank(disk')
    BY <1>2, <1>3, <2>1, <2>2 DEF Blank
  <2> QED
    BY <1>1, <1>2, <1>3, <2>3, BlankIs
<1>4. ASSUME dir.pair = <<R0, R1>>,
             NEW c \in Seq(Mdir), Listed(disk, c), Len(c) = 1, Zero(c[1]), c[1].pair = <<R0, R1>>
      PROVE  Formed(disk') /\ EntriesOn(disk') = EntriesOn(disk)
  <2>1. c[1].pair[2] = dir.pair[2] /\ 1 \in 1..Len(c)
    BY <1>4
  <2>2. Proper(c) /\ EntriesOn(disk) = NoEntries
    BY <1>1, <1>4, ZeroIs
  <2>3. Listed(disk', c)
    BY <1>1, <1>2, <1>4, <2>1, <2>2, TornStays DEF Proper
  <2>4. EntriesOn(disk') = NoEntries
    BY <1>2, <1>4, <2>3, ZeroIs
  <2> QED
    BY <2>2, <2>3, <2>4 DEF Formed
<1> QED
  BY <1>2, <1>3, <1>4 DEF Formatting

(* A write of an operation that is cut short leaves the list as it was.    *)
LEMMA OperationTorn ==
  ASSUME IInv, op # <<>>,
         \/ disk' = disk
         \/ at = "append" /\ disk' = TornAppend
         \/ at \in {"split", "expand"} /\ disk' \in TornBlock(split)
         \/ at = "write" /\ disk' \in TornBlock(dir)
  PROVE  disk' \in Disk /\ EntriesOn(disk') = entries /\ Formed(disk')
<1>1. TypeOK /\ entries = EntriesOn(disk) /\ at \notin {"blank", "mount", "idle"}
  BY DEF IInv
<1>2. PICK c, q, k : Plan(disk, c, q, k) /\ Standing(c, q, k)
  BY <1>1, InOperation
<1>3. disk \in Disk
  BY <1>1, Typed
<1> DEFINE Out == \E n : disk' \in Disk /\ EntriesOn(disk') = entries /\ Listed(disk', n) /\ Proper(n)
<1>4. ASSUME disk' = disk PROVE Out
  BY <1>1, <1>2, <1>3, <1>4, PlanSizes
<1>5. ASSUME at = "append" /\ disk' = TornAppend PROVE Out
  <2>1. AtPair(c, q, k) /\ AtAppend(c, k) /\ dir.pair = old
    BY <1>2, <1>5 DEF Standing
  <2> QED
    BY <1>1, <1>2, <1>5, <2>1, AppendTorn
<1>6. ASSUME at \in {"split", "expand"} /\ disk' \in TornBlock(split) PROVE Out
  <2>1. AtSplit(c, q)
    BY <1>2, <1>6 DEF Standing
  <2> QED
    BY <1>1, <1>2, <1>6, <2>1, SplitTorn
<1>7. ASSUME at = "write" /\ disk' \in TornBlock(dir) PROVE Out
  <2>1. AtPair(c, q, k) /\ AtWrite(c, q, k)
    BY <1>2, <1>7 DEF Standing
  <2> QED
    BY <1>1, <1>2, <1>7, <2>1, WriteTorn
<1>8. Out
  <2> HIDE DEF Out
  <2> QED
    BY <1>4, <1>5, <1>6, <1>7
<1>9. \A n : Listed(disk', n) => n \in Seq(Mdir)
  BY DEF Listed, IsList
<1> QED
  BY <1>8, <1>9 DEF Formed

(* Power is lost, between two writes or in the middle of one.              *)
LEMMA PowerLossStep ==
  ASSUME IInv, PowerLoss, entries' = EntriesOn(disk')
  PROVE  IInv' /\ Directory!PowerLoss
<1>1. at' = "mount" /\ op' = <<>> /\ error' = TRUE /\ Cleared /\ root' = root
  BY DEF PowerLoss
<1>2. \/ disk' = disk
      \/ at = "append" /\ disk' = TornAppend
      \/ at \in {"split", "expand"} /\ disk' \in TornBlock(split)
      \/ at = "write" /\ disk' \in TornBlock(dir)
  <2>1. disk' \in {disk} \cup
          CASE at = "append" -> {TornAppend}
            [] at \in {"split", "expand"} -> TornBlock(split)
            [] at = "write" -> TornBlock(dir)
            [] OTHER -> {}
    BY DEF PowerLoss
  <2>2. CASE at = "append"
    BY <2>1, <2>2
  <2>3. CASE at \in {"split", "expand"}
    BY <2>1, <2>3
  <2>4. CASE at = "write"
    BY <2>1, <2>4
  <2>5. CASE at \notin {"append", "split", "expand", "write"}
    BY <2>1, <2>5
  <2> QED
    BY <2>2, <2>3, <2>4, <2>5
<1>3. TypeOK /\ entries = EntriesOn(disk)
  BY DEF IInv
<1>4. disk \in Disk /\ root \in Pair
  BY <1>3, Typed
<1>5. disk' \in Disk /\ EntriesOn(disk') = entries /\ (Blank(disk') \/ Formed(disk'))
  <2>1. CASE op # <<>>
    BY <1>2, <2>1, OperationTorn
  <2>2. CASE op = <<>> /\ at = "write"
    <3>1. Formatting
      BY <2>2 DEF IInv
    <3>2. CASE disk' = disk
      <4>1. ASSUME NEW c \in Seq(Mdir), Listed(disk, c), Len(c) = 1, Zero(c[1])
            PROVE  Formed(disk)
        BY <1>4, <4>1, ZeroIs DEF Formed
      <4>2. Blank(disk) \/ Formed(disk)
        BY <3>1, <4>1 DEF Formatting
      <4> QED
        BY <1>3, <1>4, <3>2, <4>2
    <3>3. CASE disk' \in TornBlock(dir)
      BY <1>3, <3>1, <3>3, FormatTorn
    <3> QED
      BY <1>2, <2>2, <3>2, <3>3
  <2>3. CASE op = <<>> /\ at # "write"
    <3>1. at \in {"blank", "mount", "idle"}
      BY <2>3 DEF IInv
    <3>2. disk' = disk
      BY <1>2, <3>1
    <3>3. Blank(disk) \/ Formed(disk) \/ Sound(disk, root)
      BY <3>1 DEF IInv
    <3>4. Sound(disk, root) => Formed(disk)
      BY DEF Sound, Formed
    <3> QED
      BY <1>3, <1>4, <3>2, <3>3, <3>4
  <2> QED
    BY <2>1, <2>2, <2>3
<1>6. entries' = entries
  BY <1>5
<1>7. TypeOK'
  <2>1. disk' \in [Blocks -> [rev : Rev, log : [1..Slots -> Slot]]]
    BY <1>5 DEF Disk, Log
  <2>2. at' \in Place
    BY <1>1 DEF Place
  <2> QED
    BY <1>1, <1>3, <1>6, <2>1, <2>2, ClearedIs DEF TypeOK
<1>8. IInv'
  <2>1. CASE Blank(disk')
    BY <1>1, <1>7, <2>1, ToBlank
  <2>2. CASE Formed(disk')
    BY <1>1, <1>7, <2>2, ToMount DEF Formed
  <2> QED
    BY <1>5, <2>1, <2>2
<1> QED
  BY <1>1, <1>6, <1>8 DEF Directory!PowerLoss

-----------------------------------------------------------------------------
(* The theorems.                                                           *)

(* The first state keeps the invariant, and is one of the promised         *)
(* directory.                                                              *)
LEMMA Starts ==
  ASSUME Init
  PROVE  IInv /\ Directory!Init
<1>1. PICK bit \in 0..1 :
        disk = [b \in Blocks |-> [rev |-> bit * (RevMod - 1), log |-> [i \in 1..Slots |-> Bad(bit)]]]
  BY DEF Init
<1> DEFINE r == bit * (RevMod - 1)
           log == [i \in 1..Slots |-> Bad(bit)]
<1>2. r \in Rev
  <2>1. RevMod \in Nat /\ RevMod > 0
    BY HalfModulus
  <2>2. r = 0 \/ r = RevMod - 1
    BY <2>1
  <2> QED
    BY <2>1, <2>2 DEF Rev
<1>3. Bad(bit) \in Slot /\ Bad(bit).good = FALSE
  BY BadIsSlot
<1>4. log \in Log
  BY <1>3 DEF Log
<1> HIDE DEF r
<1>5. disk \in Disk /\ disk[R0].log = log /\ disk[R1].log = log
  <2> HIDE DEF log
  <2> QED
    BY <1>1, <1>2, <1>4, HeadIsPair DEF Disk, r, log
<1>6. Commits(log) = 0
  <2>1. 1 \in 1..Slots /\ 0 \in 0..Slots
    BY Geometry
  <2>2. ~Valid(log, 0 + 1)
    BY <1>3, <2>1 DEF Valid
  <2> HIDE DEF log
  <2> QED
    BY <1>4, <2>1, <2>2, CommitsIs
<1>7. Blank(disk)
  BY <1>5, <1>6 DEF Blank
<1>8. EntriesOn(disk) = NoEntries
  BY <1>5, <1>7, BlankIs
<1>9. /\ root = <<R0, R1>> /\ at = "mount" /\ op = <<>> /\ error = FALSE
      /\ dir = NoMdir /\ split = NoMdir /\ change = NoChange /\ old = <<R0, R1>> /\ taken = {}
      /\ entries = EntriesOn(disk)
  BY DEF Init
<1>10. TypeOK
  <2>1. disk \in [Blocks -> [rev : Rev, log : [1..Slots -> Slot]]]
    BY <1>5 DEF Disk, Log
  <2>2. <<R0, R1>> \in Pair
    BY HeadIsPair DEF Pair
  <2>3. NoChange \in [put : [Names -> Values \cup {Gone, Keep}], tail : Pair \cup {Nil, <<Keep>>}]
    BY DEF NoChange, Nothing
  <2>4. entries \in [Files -> Values \cup {Gone}]
    BY <1>8, <1>9 DEF NoEntries
  <2>5. at \in Place
    BY <1>9 DEF Place
  <2> QED
    BY <1>9, <2>1, <2>2, <2>3, <2>4, <2>5, NoMdirIs DEF TypeOK
<1>11. IInv
  BY <1>7, <1>9, <1>10 DEF IInv
<1> QED
  BY <1>8, <1>9, <1>11 DEF Directory!Init, NoEntries

(* A step that changes nothing.                                            *)
LEMMA Stutters ==
  ASSUME IInv, UNCHANGED vars
  PROVE  IInv' /\ Quiet
<1>1. /\ disk' = disk /\ root' = root /\ at' = at /\ op' = op /\ error' = error
      /\ dir' = dir /\ change' = change /\ old' = old /\ split' = split /\ taken' = taken
      /\ entries' = entries
  BY DEF vars, commit
<1>2. TypeOK'
  BY <1>1 DEF IInv, TypeOK
<1>3. (at = "blank" => Blank(disk))' /\ (at = "mount" => Blank(disk) \/ Formed(disk))'
      /\ (at = "idle" => Sound(disk, root))' /\ (entries = EntriesOn(disk))'
  BY <1>1 DEF IInv
<1>4. ((at = "write" /\ op = <<>>) => Formatting)'
  BY <1>1 DEF IInv, Formatting, Zero
<1>5. (op # <<>> => InOp)'
  <2> SUFFICES ASSUME op # <<>> PROVE InOp'
    BY <1>1
  <2>1. PICK c \in Seq(Mdir), q \in Seq(Mdir), k \in Nat : Working(c, q, k)
    BY DEF IInv, InOp
  <2>2. Goal(q)'
    BY <1>1, <2>1 DEF Working, Goal, GoalEntries
  <2>3. /\ AtPair(c, q, k) => AtPair(c, q, k)'
        /\ AtPred(c, q, k) => AtPred(c, q, k)'
        /\ AtAppend(c, k) => AtAppend(c, k)'
    BY <1>1 DEF AtPair, AtPred, AtAppend, Behind
  <2>4. /\ AtWrite(c, q, k) => AtWrite(c, q, k)'
        /\ AtSplit(c, q) => AtSplit(c, q)'
        /\ Upper0 => Upper0'
    BY <1>1 DEF AtWrite, AtSplit, Upper0, Fresh
  <2>5. Standing(c, q, k)'
    BY <1>1, <2>1, <2>3, <2>4 DEF Working, Standing
  <2>6. Working(c, q, k)'
    BY <1>1, <2>1, <2>2, <2>5 DEF Working
  <2> QED
    BY <2>6 DEF InOp
<1>6. (at \in {"blank", "mount", "idle"} => op = <<>>)'
      /\ (op = <<>> => at \in {"blank", "mount", "idle", "write"})'
  BY <1>1 DEF IInv
<1>7. IInv'
  BY <1>2, <1>3, <1>4, <1>5, <1>6 DEF IInv
<1> QED
  BY <1>1, <1>7 DEF Quiet

(* Every step keeps the invariant, and is a step of the directory that     *)
(* littlefs promises, or leaves it alone.                                  *)
LEMMA Steps ==
  ASSUME IInv, [Next]_vars
  PROVE  IInv' /\ [Directory!Next]_(Directory!vars)
<1>1. Quiet => UNCHANGED Directory!vars
  BY DEF Quiet, Directory!vars
<1>2. CASE UNCHANGED vars
  BY <1>1, <1>2, Stutters
<1>3. CASE Next
  <2>1. entries' = EntriesOn(disk')
    BY <1>3 DEF Next
  <2>2. CASE BeginOp
    BY <2>1, <2>2, BeginOpStep DEF Directory!Next
  <2>3. CASE AppendCommit
    BY <2>1, <2>3, AppendCommitStep DEF Directory!Next
  <2>4. CASE AppendFails
    BY <1>1, <2>1, <2>4, AppendFailsStep
  <2>5. CASE SplitEntries
    BY <1>1, <2>1, <2>5, SplitEntriesStep
  <2>6. CASE ExpandSuperblock
    BY <1>1, <2>1, <2>6, ExpandSuperblockStep
  <2>7. CASE WriteSplit
    BY <1>1, <2>1, <2>7, WriteSplitStep
  <2>8. CASE NextRevision
    BY <1>1, <2>1, <2>8, NextRevisionStep
  <2>9. CASE WriteCompacted
    BY <1>1, <2>1, <2>9, WriteCompactedStep DEF Directory!Next
  <2>10. CASE UpdatePred
    BY <1>1, <2>1, <2>10, UpdatePredStep
  <2>11. CASE BadBlock
    BY <1>1, <2>1, <2>11, BadBlockStep DEF Directory!Next
  <2>12. CASE Format
    BY <1>1, <2>1, <2>12, FormatStep
  <2>13. CASE FormatWrite
    BY <1>1, <2>1, <2>13, FormatWriteStep
  <2>14. CASE Mount
    BY <1>1, <2>1, <2>14, MountStep
  <2>15. CASE PowerLoss
    BY <2>1, <2>15, PowerLossStep DEF Directory!Next
  <2> QED
    BY <1>3, <2>2, <2>3, <2>4, <2>5, <2>6, <2>7, <2>8, <2>9, <2>10, <2>11, <2>12, <2>13, <2>14,
       <2>15 DEF Next, Commit
<1> QED
  BY <1>2, <1>3

(* At every moment the blocks of the disk hold a list of pairs in order    *)
(* and, during an operation, the list it is to become differs from it by   *)
(* one commit to one pair: the invariant, which every step keeps.          *)
THEOREM DirectoryInv == Spec => []IInv
<1>1. Init => IInv
  BY Starts
<1>2. IInv /\ [Next]_vars => IInv'
  BY Steps
<1> QED
  BY <1>1, <1>2, PTL DEF Spec

(* What the invariant says of a mounted directory that no operation is at. *)
LEMMA ListIsSound ==
  ASSUME IInv
  PROVE  ListSound
<1>1. TypeOK /\ entries = EntriesOn(disk)
  BY DEF IInv
<1>2. disk \in Disk /\ root \in Pair /\ entries \in EntryTable
  BY <1>1, Typed
<1> DEFINE mounted == at \notin {"mount", "blank"} /\ (at = "write" => op # <<>>)
<1>3. ASSUME mounted
      PROVE  /\ \A i \in DOMAIN Chain(disk) : Chain(disk)[i].off > 0
             /\ Chain(disk)[Len(Chain(disk))].tail = Nil
             /\ \A i, j \in DOMAIN Chain(disk) :
                  i # j => ~SamePair(Chain(disk)[i].pair, Chain(disk)[j].pair)
  <2>1. PICK c : Listed(disk, c) /\ Proper(c)
    <3>1. CASE at = "idle"
      BY <3>1, Idle
    <3>2. CASE at # "idle"
      <4>1. op # <<>> /\ at \notin {"blank", "mount", "idle"} /\ (at = "write" => op # <<>>)
        BY <1>3, <3>2 DEF IInv
      <4> QED
        BY <1>2, <4>1, InOperation, PlanSizes
    <3> QED
      BY <3>1, <3>2
  <2>2. Chain(disk) = c /\ Apart(c) /\ DOMAIN c = 1..Len(c)
    BY <1>2, <2>1, ListedChain, ListTyped DEF Proper, Listed
  <2>3. \A i \in DOMAIN c : c[i].off > 0
    BY <1>2, <2>1, <2>2, ListedReads
  <2>4. c[Len(c)].tail = Nil
    BY <2>1 DEF Listed, Linked
  <2>5. \A i, j \in DOMAIN c : i # j => ~SamePair(c[i].pair, c[j].pair)
    BY <2>2, SamePairIs DEF Apart
  <2> QED
    BY <2>2, <2>3, <2>4, <2>5
<1>4. ASSUME at = "idle"
      PROVE  /\ \A f \in Files : Find(disk, root, f).entries[f] = entries[f]
             /\ SamePair(root, RootOf(disk))
  <2>1. PICK c : /\ Listed(disk, c) /\ Proper(c) /\ Rooted(c, root) /\ Shows(c, entries)
                 /\ IsList(c) /\ Len(c) \in Nat
    BY <1>4, Idle, ListTyped
  <2>2. ASSUME NEW f \in Files PROVE Find(disk, root, f).entries[f] = entries[f]
    <3>1. PICK k \in 1..Len(c) : Find(disk, root, f) = c[k] /\ FoundAt(c, k, f)
      BY <1>2, <2>1, FindIs
    <3>2. c[k].entries[f] \in {Gone, entries[f]}
      BY <2>1 DEF Shows
    <3>3. CASE entries[f] = Gone
      BY <3>1, <3>2, <3>3
    <3>4. CASE entries[f] # Gone
      <4>1. PICK i \in 1..Len(c) : c[i].entries[f] = entries[f]
        BY <2>1, <3>4 DEF Shows
      <4>2. f \in Present(c[i]) /\ f \in Nat
        BY <3>4, <4>1, PresentIs, FilesNames
      <4>3. i = k
        <5>1. ASSUME i < k PROVE FALSE
          <6>1. i \in 1..(k - 1)
            BY <5>1, <2>1
          <6> QED
            BY <3>1, <4>2, <6>1 DEF FoundAt
        <5>2. ASSUME i > k PROVE FALSE
          <6>1. i \in (k + 1)..Len(c)
            BY <5>2, <2>1
          <6> QED
            BY <3>1, <4>2, <6>1 DEF FoundAt
        <5> QED
          BY <5>1, <5>2
      <4> QED
        BY <3>1, <4>1, <4>3
    <3> QED
      BY <3>3, <3>4
  <2>3. SamePair(root, RootOf(disk))
    <3>1. Rooted(c, RootOf(disk))
      BY <1>2, <2>1, RootOfIs
    <3>2. Both(root) = Both(RootOf(disk))
      BY <2>1, <3>1, OneRoot
    <3>3. Both(root) # {}
      BY DEF Both
    <3> QED
      BY <3>2, <3>3, SamePairIs
  <2> QED
    BY <2>2, <2>3
<1> QED
  BY <1>1, <1>3, <1>4 DEF ListSound

(* The directory on the disk never leaves its type, whatever is compacted, *)
(* split, moved, dropped or cut short, and when a revision count wraps.    *)
THEOREM DirectoryTypes == Spec => []TypeOK
<1>1. IInv => TypeOK
  BY DEF IInv
<1> QED
  BY <1>1, DirectoryInv, PTL

(* While it is mounted, every pair of the list has a good commit, no block *)
(* is in two pairs and the list ends; between operations a lookup from the *)
(* root in RAM finds what listing finds, and mounting would find this root. *)
THEOREM DirectoryListSound == Spec => []ListSound
<1>1. IInv => ListSound
  BY ListIsSound
<1> QED
  BY <1>1, DirectoryInv, PTL

(* The list of pairs implements the directory littlefs promises: every     *)
(* operation takes effect at once and as a whole, has taken effect when it *)
(* returns without an error, and a loss of power at any write leaves the   *)
(* state before it or the one after it.                                    *)
THEOREM DirectoryAtomic == Spec => AtomicOps
<1>1. Init => Directory!Init
  BY Starts
<1>2. IInv /\ [Next]_vars => [Directory!Next]_(Directory!vars)
  BY Steps
<1> QED
  BY <1>1, <1>2, DirectoryInv, PTL DEF Spec, AtomicOps, Directory!Spec

=============================================================================
