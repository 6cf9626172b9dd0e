------------------------- MODULE HybridQueueLemmas -------------------------
(***************************************************************************)
(* Lemmas about the operators of HybridQueue: ranks, the intrusive lists   *)
(* of blocks, the division of sequence numbers into words and blocks, and  *)
(* the order in which deliver_sparse_masks serves blocks.                  *)
(***************************************************************************)
EXTENDS HybridQueue, FiniteSetTheorems, SequenceTheorems,
        WellFoundedInduction, TLAPS

----------------------------------------------------------------------------
(* Every set of naturals that is not empty has a least element. *)
LEMMA LeastNat ==
    ASSUME NEW T \in SUBSET Nat, T # {}
    PROVE  \E m \in T : \A k \in T : m <= k
<1>1. PICK x \in T : \A y \in T : ~ (<<y, x>> \in OpToRel(<, Nat))
  BY WFMin, NatLessThanWellFounded
<1>2. \A y \in T : ~ (y < x)
  BY <1>1 DEF OpToRel
<1> QED
  BY <1>2

(* The numbers of S below i, which Nth counts. *)
Below(S, i) == {j \in S : j < i}

(* For every k up to the size of a finite set of numbers, some element has *)
(* exactly k - 1 elements below it: Nth is defined.                        *)
LEMMA RankExists ==
    ASSUME NEW S \in SUBSET Nat, IsFiniteSet(S),
           NEW k \in 1 .. Cardinality(S)
    PROVE  \E i \in S : Cardinality(Below(S, i)) = k - 1
<1> DEFINE Bad == {n \in 1 .. Cardinality(S) :
                       ~ \E i \in S : Cardinality(Below(S, i)) = n - 1}
<1>0. Cardinality(S) \in Nat
  BY FS_CardinalityType
<1>a. \A j \in S : j \in Nat
  OBVIOUS
<1> SUFFICES ASSUME Bad # {} PROVE FALSE
  OBVIOUS
<1>1. PICK n \in Bad : \A m \in Bad : n <= m
  <2>1. Bad \in SUBSET Nat
    BY <1>0
  <2> HIDE DEF Bad
  <2> QED
    BY <2>1, LeastNat
<1>2. n \in 1 .. Cardinality(S)
  OBVIOUS
<1>3. CASE n = 1
  <2>1. S # {}
    BY <1>0, <1>2, FS_EmptySet
  <2>2. PICK i \in S : \A j \in S : i <= j
    BY <2>1, LeastNat
  <2>3. Below(S, i) = {}
    <3>1. \A j \in S : ~ (j < i)
      BY <2>2, <1>a
    <3> QED
      BY <3>1 DEF Below
  <2> QED
    BY <2>3, <1>3, FS_EmptySet
<1>4. CASE n > 1
  <2>1. PICK i \in S : Cardinality(Below(S, i)) = n - 2
    <3>1. n - 1 \in 1 .. Cardinality(S) /\ n - 1 \notin Bad
      BY <1>0, <1>1, <1>2, <1>4
    <3> QED
      BY <3>1, <1>0, <1>2
  <2> DEFINE L == Below(S, i) \cup {i}
  <2>2. IsFiniteSet(Below(S, i)) /\ i \notin Below(S, i)
    BY FS_Subset DEF Below
  <2>3. IsFiniteSet(L) /\ Cardinality(L) = n - 1
    BY <2>1, <2>2, FS_AddElement, <1>2, <1>0
  <2>4. S \ L # {}
    <3>1. L # S
      BY <2>3, <1>2, <1>0
    <3> QED
      BY <3>1 DEF Below
  <2>5. PICK m \in S \ L : \A j \in S \ L : m <= j
    BY <2>4, LeastNat
  <2>6. Below(S, m) = L
    <3>1. \A j \in S : (j < m) <=> (j < i \/ j = i)
      <4>1. m \in Nat /\ i \in Nat /\ m # i /\ ~ (m < i)
        BY <1>a DEF Below
      <4>2. ASSUME NEW j \in S PROVE (j < m) => (j < i \/ j = i)
        BY <2>5, <1>a, <4>1, <4>2 DEF Below
      <4>3. ASSUME NEW j \in S PROVE (j < i \/ j = i) => (j < m)
        BY <1>a, <4>1, <4>3
      <4> QED
        BY <4>2, <4>3
    <3> QED
      BY <3>1 DEF Below
  <2> QED
    BY <2>3, <2>6, <1>1
<1> QED
  BY <1>2, <1>3, <1>4, <1>0

(* No two elements have the same number of elements below them. *)
LEMMA RankUnique ==
    ASSUME NEW S \in SUBSET Nat, IsFiniteSet(S),
           NEW i \in S, NEW j \in S,
           Cardinality(Below(S, i)) = Cardinality(Below(S, j))
    PROVE  i = j
<1>1. ASSUME NEW a \in S, NEW b \in S, a < b
      PROVE  Cardinality(Below(S, a)) # Cardinality(Below(S, b))
  <2>1. IsFiniteSet(Below(S, a)) /\ IsFiniteSet(Below(S, b))
    BY FS_Subset DEF Below
  <2>2. Below(S, a) \subseteq Below(S, b) /\ a \in Below(S, b) /\ a \notin Below(S, a)
    <3>1. ~ (a < a) /\ \A x \in S : x < a => x < b
      <4>1. a \in Nat /\ b \in Nat /\ \A x \in S : x \in Nat
        OBVIOUS
      <4> QED
        BY <4>1, <1>1
    <3> QED
      BY <3>1, <1>1 DEF Below
  <2> QED
    BY <2>1, <2>2, FS_Subset
<1>2. i \in Nat /\ j \in Nat
  OBVIOUS
<1> QED
  BY <1>1, <1>2

(* Nth enumerates a finite set of numbers: it returns elements, every      *)
(* element, and each for one position.                                     *)
LEMMA NthEnumerates ==
    ASSUME NEW S \in SUBSET Nat, IsFiniteSet(S)
    PROVE  /\ \A k \in 1 .. Cardinality(S) : Nth(S, k) \in S
           /\ \A i \in S : \E k \in 1 .. Cardinality(S) : Nth(S, k) = i
           /\ \A k, l \in 1 .. Cardinality(S) : Nth(S, k) = Nth(S, l) => k = l
<1>0. Cardinality(S) \in Nat
  BY FS_CardinalityType
<1>1. ASSUME NEW k \in 1 .. Cardinality(S)
      PROVE  Nth(S, k) \in S /\ Cardinality(Below(S, Nth(S, k))) = k - 1
  <2>1. \E i \in S : Cardinality({j \in S : j < i}) = k - 1
    BY RankExists DEF Below
  <2> QED
    BY <2>1 DEF Nth, Below
<1>2. ASSUME NEW i \in S
      PROVE  \E k \in 1 .. Cardinality(S) : Nth(S, k) = i
  <2> DEFINE k == Cardinality(Below(S, i)) + 1
  <2>1. IsFiniteSet(Below(S, i)) /\ i \notin Below(S, i) /\ Below(S, i) \subseteq S
    BY FS_Subset DEF Below
  <2>2. Cardinality(Below(S, i)) \in Nat /\ Cardinality(Below(S, i)) < Cardinality(S)
    BY <2>1, FS_Subset, FS_CardinalityType, <1>0
  <2>3. k \in 1 .. Cardinality(S)
    BY <2>2, <1>0
  <2>4. Nth(S, k) = i
    <3>1. Nth(S, k) \in S /\ Cardinality(Below(S, Nth(S, k))) = k - 1
      BY <1>1, <2>3
    <3>2. k - 1 = Cardinality(Below(S, i))
      BY <2>2
    <3>3. Cardinality(Below(S, Nth(S, k))) = Cardinality(Below(S, i))
      BY <3>1, <3>2
    <3> HIDE DEF k
    <3> QED
      BY <3>1, <3>3, RankUnique
  <2> QED
    BY <2>3, <2>4
<1>3. \A k, l \in 1 .. Cardinality(S) : Nth(S, k) = Nth(S, l) => k = l
  BY <1>1, <1>0
<1> QED
  BY <1>1, <1>2, <1>3

----------------------------------------------------------------------------
(* Block lists.  KeepIn returns the elements of a list that are in S, each *)
(* as often as before.                                                     *)
LEMMA KeepInLemma ==
    ASSUME NEW list \in Seq(Nat), NEW S, NEW A, ListsExactly(list, A)
    PROVE  /\ KeepIn(list, S) \in Seq(Nat)
           /\ ListsExactly(KeepIn(list, S), A \cap S)
<1> DEFINE kept == {i \in DOMAIN list : list[i] \in S}
           n    == Cardinality(kept)
           keep == KeepIn(list, S)
<1>1. DOMAIN list = 1 .. Len(list) /\ Len(list) \in Nat
  OBVIOUS
<1>2. kept \in SUBSET Nat /\ IsFiniteSet(kept)
  <2>1. IsFiniteSet(1 .. Len(list))
    BY <1>1, FS_Interval
  <2> QED
    BY <2>1, <1>1, FS_Subset
<1>3. n \in Nat
  BY <1>2, FS_CardinalityType
<1>4. /\ \A k \in 1 .. n : Nth(kept, k) \in kept
      /\ \A i \in kept : \E k \in 1 .. n : Nth(kept, k) = i
      /\ \A k, l \in 1 .. n : Nth(kept, k) = Nth(kept, l) => k = l
  <2> HIDE DEF kept
  <2> QED
    BY <1>2, NthEnumerates
<1>5. keep = [k \in 1 .. n |-> list[Nth(kept, k)]]
  BY DEF KeepIn
<1>6. \A i \in kept : i \in DOMAIN list /\ list[i] \in S /\ list[i] \in Nat
  BY <1>1
<1>7. keep \in Seq(Nat) /\ DOMAIN keep = 1 .. n
  <2> HIDE DEF kept, n, keep
  <2>1. keep \in [1 .. n -> Nat]
    BY <1>4, <1>5, <1>6
  <2> QED
    BY <2>1, <1>3
<1>8. Listed(keep) = A \cap S
  <2>1. Listed(keep) = {list[Nth(kept, k)] : k \in 1 .. n}
    BY <1>5 DEF Listed
  <2>2. \A x \in A : \E i \in DOMAIN list : list[i] = x
    BY DEF ListsExactly, Listed
  <2>3. \A i \in DOMAIN list : list[i] \in A
    BY DEF ListsExactly, Listed
  <2>4. ASSUME NEW x \in A \cap S PROVE x \in Listed(keep)
    <3>1. PICK i \in kept : list[i] = x
      BY <2>2
    <3>2. PICK k \in 1 .. n : Nth(kept, k) = i
      BY <1>4
    <3> HIDE DEF kept, n, keep
    <3> QED
      BY <3>1, <3>2, <2>1
  <2>5. ASSUME NEW x \in Listed(keep) PROVE x \in A \cap S
    <3>1. PICK k \in 1 .. n : x = list[Nth(kept, k)]
      BY <2>1
    <3>2. Nth(kept, k) \in kept
      BY <1>4
    <3> HIDE DEF n, keep
    <3> QED
      BY <3>1, <3>2, <2>3
  <2> QED
    BY <2>4, <2>5
<1>9. \A k, l \in DOMAIN keep : keep[k] = keep[l] => k = l
  <2> SUFFICES ASSUME NEW k \in 1 .. n, NEW l \in 1 .. n, keep[k] = keep[l]
               PROVE  k = l
    BY <1>7
  <2>1. list[Nth(kept, k)] = list[Nth(kept, l)]
    <3> HIDE DEF kept, n, keep
    <3> QED
      BY <1>5
  <2>2. Nth(kept, k) \in DOMAIN list /\ Nth(kept, l) \in DOMAIN list
    BY <1>4
  <2>3. Nth(kept, k) = Nth(kept, l)
    BY <2>1, <2>2 DEF ListsExactly
  <2> QED
    BY <2>3, <1>4
<1> QED
  BY <1>7, <1>8, <1>9 DEF ListsExactly

(* ensure_retry_listed and ensure_sparse_listed list every block once. *)
LEMMA ListUnlistedLemma ==
    ASSUME NEW list \in Seq(Nat), NEW A, ListsExactly(list, A),
           NEW blocks \in Seq(Nat), NEW B, ListsExactly(blocks, B)
    PROVE  /\ ListUnlisted(list, blocks) \in Seq(Nat)
           /\ ListsExactly(ListUnlisted(list, blocks), A \cup B)
<1> DEFINE new == KeepIn(blocks, Listed(blocks) \ Listed(list))
           all == list \o new
<1>1. Listed(list) = A /\ Listed(blocks) = B
  BY DEF ListsExactly
<1>2. new \in Seq(Nat) /\ ListsExactly(new, B \ A)
  <2>1. B \cap (Listed(blocks) \ Listed(list)) = B \ A
    BY <1>1
  <2> QED
    BY <2>1, KeepInLemma
<1> HIDE DEF new
<1>3. all \in Seq(Nat) /\ Len(all) = Len(list) + Len(new)
  BY <1>2
<1>4. \A i \in 1 .. Len(list) : all[i] = list[i]
  BY <1>2
<1>5. \A i \in 1 .. Len(new) : all[Len(list) + i] = new[i]
  BY <1>2
<1>6. \A i \in 1 .. Len(all) :
          \/ i \in 1 .. Len(list)
          \/ \E j \in 1 .. Len(new) : i = Len(list) + j
  <2> SUFFICES ASSUME NEW i \in 1 .. Len(all), i \notin 1 .. Len(list)
               PROVE  \E j \in 1 .. Len(new) : i = Len(list) + j
    OBVIOUS
  <2>1. i - Len(list) \in 1 .. Len(new) /\ i = Len(list) + (i - Len(list))
    BY <1>2, <1>3
  <2> QED
    BY <2>1
<1> HIDE DEF all
<1>7. DOMAIN all = 1 .. Len(all) /\ DOMAIN list = 1 .. Len(list) /\ DOMAIN new = 1 .. Len(new)
  BY <1>2, <1>3
<1>8. /\ \A x \in A : \E i \in 1 .. Len(list) : list[i] = x
      /\ \A i \in 1 .. Len(list) : list[i] \in A
      /\ \A x \in B \ A : \E i \in 1 .. Len(new) : new[i] = x
      /\ \A i \in 1 .. Len(new) : new[i] \in B \ A
  BY <1>2, <1>7 DEF ListsExactly, Listed
<1>9. Listed(all) = A \cup B
  <2>1. ASSUME NEW x \in A PROVE \E i \in 1 .. Len(all) : all[i] = x
    <3>1. PICK i \in 1 .. Len(list) : list[i] = x
      BY <1>8
    <3>2. i \in 1 .. Len(all) /\ all[i] = x
      BY <3>1, <1>4, <1>3, <1>2
    <3> QED
      BY <3>2
  <2>2. ASSUME NEW x \in B \ A PROVE \E i \in 1 .. Len(all) : all[i] = x
    <3>1. PICK i \in 1 .. Len(new) : new[i] = x
      BY <1>8
    <3>2. all[Len(list) + i] = x
      BY <3>1, <1>5
    <3>3. Len(list) \in Nat /\ Len(new) \in Nat
      BY <1>2
    <3>4. Len(list) + i \in 1 .. Len(all)
      BY <3>3, <1>3
    <3> QED
      BY <3>2, <3>4
  <2>3. ASSUME NEW i \in 1 .. Len(all) PROVE all[i] \in A \cup B
    <3>1. CASE i \in 1 .. Len(list)
      BY <3>1, <1>4, <1>8
    <3>2. ASSUME NEW j \in 1 .. Len(new), i = Len(list) + j
          PROVE  all[i] \in A \cup B
      BY <3>2, <1>5, <1>8
    <3> QED
      BY <3>1, <3>2, <1>6
  <2> QED
    BY <2>1, <2>2, <2>3, <1>7 DEF Listed
<1>10. ASSUME NEW i \in 1 .. Len(all), NEW j \in 1 .. Len(all), all[i] = all[j]
       PROVE  i = j
  <2>1. \A k, l \in 1 .. Len(list) : list[k] = list[l] => k = l
    BY <1>7 DEF ListsExactly
  <2>2. \A k, l \in 1 .. Len(new) : new[k] = new[l] => k = l
    BY <1>2, <1>7 DEF ListsExactly
  <2>3. CASE i \in 1 .. Len(list) /\ j \in 1 .. Len(list)
    BY <2>1, <2>3, <1>4, <1>10
  <2>4. ASSUME NEW k \in 1 .. Len(new), NEW l \in 1 .. Len(new),
               i = Len(list) + k, j = Len(list) + l
        PROVE  i = j
    <3>1. new[k] = new[l]
      BY <2>4, <1>5, <1>10
    <3> QED
      BY <3>1, <2>2, <2>4
  <2>5. ASSUME NEW k \in 1 .. Len(list), NEW l \in 1 .. Len(new),
               all[k] = all[Len(list) + l]
        PROVE  FALSE
    <3>1. list[k] = new[l]
      BY <2>5, <1>4, <1>5
    <3> QED
      BY <3>1, <1>8
  <2> QED
    BY <2>3, <2>4, <2>5, <1>6, <1>10
<1> QED
  BY <1>3, <1>7, <1>9, <1>10 DEF ListsExactly, ListUnlisted, all, new

----------------------------------------------------------------------------
(* Euclidean division. *)
LEMMA DivBounds ==
    ASSUME NEW s \in Nat, NEW m \in Nat \ {0}
    PROVE  /\ s \div m \in Nat
           /\ m * (s \div m) <= s
           /\ s < m * (s \div m) + m
OBVIOUS

(* Multiplication is monotonic. *)
LEMMA MulMono ==
    ASSUME NEW m \in Nat, NEW a \in Nat, NEW b \in Nat, a <= b
    PROVE  m * a <= m * b
OBVIOUS

(* The quotient is the only number with the bounds of DivBounds. *)
LEMMA DivUnique ==
    ASSUME NEW s \in Nat, NEW m \in Nat \ {0}, NEW k \in Nat,
           m * k <= s, s < m * k + m
    PROVE  s \div m = k
<1>1. s \div m \in Nat /\ m * (s \div m) <= s /\ s < m * (s \div m) + m
  BY DivBounds
<1> DEFINE d == s \div m
<1> HIDE DEF d
<1>2. d \in Nat /\ m * d <= s /\ s < m * d + m
  BY <1>1 DEF d
<1>3. CASE d < k
  <2>1. m * (d + 1) <= m * k
    BY <1>2, <1>3, MulMono
  <2>2. m * (d + 1) = m * d + m
    BY <1>2
  <2> QED
    BY <2>1, <2>2, <1>2
<1>4. CASE k < d
  <2>1. m * (k + 1) <= m * d
    BY <1>2, <1>4, MulMono
  <2>2. m * (k + 1) = m * k + m
    OBVIOUS
  <2> QED
    BY <2>1, <2>2, <1>2
<1> QED
  BY <1>2, <1>3, <1>4 DEF d

(* Division is monotonic. *)
LEMMA DivMono ==
    ASSUME NEW s \in Nat, NEW t \in Nat, NEW m \in Nat \ {0}, s <= t
    PROVE  s \div m <= t \div m
<1> DEFINE d == s \div m
           e == t \div m
<1>1. d \in Nat /\ m * d <= s /\ s < m * d + m /\ e \in Nat /\ m * e <= t /\ t < m * e + m
  BY DivBounds
<1> HIDE DEF d, e
<1>2. CASE e < d
  <2>1. m * (e + 1) <= m * d
    BY <1>1, <1>2, MulMono
  <2>2. m * (e + 1) = m * e + m
    BY <1>1
  <2> QED
    BY <2>1, <2>2, <1>1
<1> QED
  BY <1>1, <1>2 DEF d, e

(* Dividing into words and then into blocks is dividing into blocks. *)
LEMMA DivDiv ==
    ASSUME NEW s \in Nat, NEW a \in Nat \ {0}, NEW b \in Nat \ {0}
    PROVE  (s \div a) \div b = s \div (a * b)
<1> DEFINE d == s \div a
           e == d \div b
<1>1. d \in Nat /\ a * d <= s /\ s < a * d + a 
  BY DivBounds
<1> HIDE DEF d
<1>2. e \in Nat /\ b * e <= d /\ d < b * e + b
  BY <1>1, DivBounds
<1> HIDE DEF e
<1>3. a * b \in Nat \ {0} /\ b * e \in Nat
  BY <1>2
<1>4. a * (b * e) <= a * d
  BY <1>1, <1>2, <1>3, MulMono
<1>5. a * (d + 1) <= a * (b * e + b)
  BY <1>1, <1>2, <1>3, MulMono
<1>6. a * (b * e) = (a * b) * e /\ a * (b * e + b) = (a * b) * e + a * b /\ a * (d + 1) = a * d + a
  BY <1>1, <1>2
<1>7. (a * b) * e <= s /\ s < (a * b) * e + a * b
  <2> DEFINE x == (a * b) * e
             y == a * b
             z == a * d
  <2>1. x \in Nat /\ y \in Nat /\ z \in Nat
    BY <1>1, <1>2, <1>3
  <2>2. x <= z /\ z + a <= x + y
    BY <1>4, <1>5, <1>6
  <2> HIDE DEF x, y, z
  <2>3. z <= s /\ s < z + a
    BY <1>1 DEF z
  <2>4. x <= s /\ s < x + y
    BY <2>1, <2>2, <2>3
  <2> QED
    BY <2>4 DEF x, y
<1>8. s \div (a * b) = e
  BY <1>2, <1>3, <1>7, DivUnique
<1> QED
  BY <1>8 DEF d, e

(* Every message lies in the block of its word. *)
LEMMA Location ==
    ASSUME NEW s \in Nat
    PROVE  /\ BlockOf(s) \in Nat
           /\ WordOf(s) \in Nat
           /\ BlockOfWord(WordOf(s)) = BlockOf(s)
<1>1. MSGS_PER_BLOCK \in Nat \ {0}
  BY BitsPerWordAssumption, WordsPerBlockAssumption DEF MSGS_PER_BLOCK
<1>2. BlockOf(s) \in Nat /\ WordOf(s) \in Nat
  BY <1>1, DivBounds, BitsPerWordAssumption DEF BlockOf, WordOf
<1>3. BlockOfWord(WordOf(s)) = BlockOf(s)
  BY DivDiv, BitsPerWordAssumption, WordsPerBlockAssumption
     DEF BlockOfWord, WordOf, BlockOf, MSGS_PER_BLOCK
<1> QED
  BY <1>2, <1>3

(* nack_range_to_retry walks over the blocks of its range, each once. *)
LEMMA BlocksOfRangeLemma ==
    ASSUME NEW start \in Nat, NEW len \in Nat \ {0}
    PROVE  /\ BlocksOfRange(start, len) \in Seq(Nat)
           /\ ListsExactly(BlocksOfRange(start, len),
                           BlocksOf(start .. start + len - 1))
<1> DEFINE M == MSGS_PER_BLOCK
           e == start + len - 1
           a == BlockOf(start)
           b == BlockOf(e)
           blocks == BlocksOfRange(start, len)
<1>1. M \in Nat \ {0}
  BY BitsPerWordAssumption, WordsPerBlockAssumption DEF MSGS_PER_BLOCK
<1>2. e \in Nat /\ start <= e
  OBVIOUS
<1>3. a \in Nat /\ b \in Nat
  BY <1>2, Location
<1>4. \A s \in start .. e : s \in Nat /\ BlockOf(s) \in Nat /\ a <= BlockOf(s) /\ BlockOf(s) <= b
  <2> SUFFICES ASSUME NEW s \in start .. e
               PROVE  s \in Nat /\ BlockOf(s) \in Nat /\ a <= BlockOf(s) /\ BlockOf(s) <= b
    OBVIOUS
  <2>1. s \in Nat /\ start <= s /\ s <= e
    BY <1>2
  <2>2. BlockOf(s) \in Nat
    BY <2>1, Location
  <2>3. a <= BlockOf(s)
    BY <2>1, <1>1, DivMono DEF BlockOf
  <2>4. BlockOf(s) <= b
    BY <2>1, <1>1, <1>2, DivMono DEF BlockOf
  <2> QED
    BY <2>1, <2>2, <2>3, <2>4
<1>5. ASSUME NEW c \in Nat, a <= c, c <= b
      PROVE  \E s \in start .. e : BlockOf(s) = c
  <2>1. CASE c = a
    BY <2>1, <1>2
  <2>2. CASE a < c
    <3> DEFINE s == M * c
    <3>1. s \in Nat
      BY <1>1
    <3>2. BlockOf(s) = c
      <4>1. M * c <= s /\ s < M * c + M
        BY <1>1
      <4> HIDE DEF s
      <4> QED
        BY <3>1, <4>1, <1>1, DivUnique DEF BlockOf
    <3>3. M * a <= start /\ start < M * a + M
      BY <1>1, DivBounds DEF BlockOf
    <3>4. M * b <= e
      BY <1>1, <1>2, DivBounds DEF BlockOf
    <3>5. M * (a + 1) <= s
      BY <2>2, <1>1, <1>3, MulMono
    <3>6. M * (a + 1) = M * a + M
      BY <1>1, <1>3
    <3>7. s <= M * b
      BY <1>5, <1>1, <1>3, MulMono
    <3>8. start <= s /\ s <= e
      <4> DEFINE x == M * a
                 y == M * b
                 z == M
      <4>1. x \in Nat /\ y \in Nat /\ z \in Nat
        BY <1>1, <1>3
      <4>2. start < x + z /\ x + z <= s /\ s <= y /\ y <= e
        BY <3>3, <3>4, <3>5, <3>6, <3>7
      <4> HIDE DEF x, y, z, s, e, M
      <4> QED
        BY <4>1, <4>2, <3>1, <1>2
    <3> HIDE DEF s, e
    <3>9. s \in start .. e
      BY <3>1, <3>8, <1>2
    <3> QED
      BY <3>2, <3>9
  <2> QED
    BY <2>1, <2>2, <1>5, <1>3
<1>6. a <= b
  BY <1>2, <1>4
<1>7. blocks = [i \in 1 .. 1 + b - a |-> a + i - 1]
  BY DEF BlocksOfRange
<1> HIDE DEF a, b, blocks
<1>8. 1 + b - a \in Nat
  BY <1>3, <1>6
<1>9. DOMAIN blocks = 1 .. 1 + b - a /\ blocks \in [1 .. 1 + b - a -> Nat]
  BY <1>3, <1>7
<1>10. Listed(blocks) = BlocksOf(start .. e)
  <2>1. ASSUME NEW x \in Listed(blocks) PROVE x \in BlocksOf(start .. e)
    <3>1. PICK i \in 1 .. 1 + b - a : x = a + i - 1
      BY <1>7 DEF Listed
    <3>2. x \in Nat /\ a <= x /\ x <= b
      BY <3>1, <1>3
    <3> QED
      BY <3>2, <1>5 DEF BlocksOf
  <2>2. ASSUME NEW x \in BlocksOf(start .. e) PROVE x \in Listed(blocks)
    <3>1. PICK s \in start .. e : x = BlockOf(s)
      BY DEF BlocksOf
    <3>2. x \in Nat /\ a <= x /\ x <= b
      BY <3>1, <1>4
    <3>3. x - a + 1 \in 1 .. 1 + b - a /\ x = a + (x - a + 1) - 1
      BY <3>2, <1>3
    <3> QED
      BY <3>3, <1>7, <1>9 DEF Listed
  <2> QED
    BY <2>1, <2>2
<1>11. \A i, j \in DOMAIN blocks : blocks[i] = blocks[j] => i = j
  BY <1>3, <1>7, <1>9
<1> QED
  BY <1>8, <1>9, <1>10, <1>11 DEF ListsExactly, blocks

----------------------------------------------------------------------------
(* Dropping the leading blocks with nothing left keeps the rest of the     *)
(* list, from a block with something left onwards.                         *)
LEMMA DropServedDefined ==
    ASSUME NEW list \in Seq(Nat), NEW L
    PROVE  \E n \in 0 .. Len(list) :
               /\ \A i \in 1 .. n : list[i] \notin L
               /\ n < Len(list) => list[n + 1] \in L
               /\ DropServedBlocks(list, L) = SubSeq(list, n + 1, Len(list))
<1> DEFINE P(k) == /\ \A i \in 1 .. k : list[i] \notin L
                   /\ k < Len(list) => list[k + 1] \in L
           Hit  == {i \in 1 .. Len(list) : list[i] \in L}
<1>0. Len(list) \in Nat
  OBVIOUS
<1>1. \E k \in 0 .. Len(list) : P(k)
  <2>1. CASE Hit = {}
    <3>1. P(Len(list))
      BY <2>1, <1>0
    <3> QED
      BY <3>1, <1>0
  <2>2. CASE Hit # {}
    <3>1. Hit \in SUBSET Nat
      BY <1>0
    <3>2. PICK m \in Hit : \A k \in Hit : m <= k
      <4> HIDE DEF Hit
      <4> QED
        BY <2>2, <3>1, LeastNat
    <3>3. m - 1 \in 0 .. Len(list) /\ m \in 1 .. Len(list) /\ list[m] \in L
      BY <1>0, <3>2
    <3>4. \A i \in 1 .. m - 1 : list[i] \notin L
      BY <1>0, <3>2, <3>3
    <3>5. P(m - 1)
      BY <3>3, <3>4, <1>0
    <3> HIDE DEF P
    <3> QED
      BY <3>3, <3>5
  <2> QED
    BY <2>1, <2>2
<1> DEFINE n == CHOOSE k \in 0 .. Len(list) : P(k)
<1>2. n \in 0 .. Len(list) /\ P(n)
  <2> HIDE DEF P
  <2> QED
    BY <1>1
<1>3. DropServedBlocks(list, L) = SubSeq(list, n + 1, Len(list))
  BY DEF DropServedBlocks
<1> HIDE DEF n
<1> QED
  BY <1>2, <1>3

(***************************************************************************)
(* deliver_sparse_masks serves the blocks front to back: if something of a *)
(* block is left, everything of the blocks behind it is.  Hence dropping   *)
(* the leading blocks that were served leaves exactly the blocks with      *)
(* something left, each once.                                              *)
(***************************************************************************)
LEMMA SparseDelivery ==
    ASSUME NEW q \in Queues, NEW max \in Int,
           IsFiniteSet(q.sparse_ready),
           q.sparse_word_mask = WordsOf(q.sparse_ready),
           ListsExactly(q.sparse_blocks, BlocksOf(q.sparse_ready))
    PROVE  LET left == q.sparse_ready \ SparseTake(q, max)
               list == DropServedBlocks(q.sparse_blocks, BlocksOf(left))
           IN  list \in Seq(Nat) /\ ListsExactly(list, BlocksOf(left))
<1> DEFINE ready == q.sparse_ready
           list  == q.sparse_blocks
           left  == ready \ SparseTake(q, max)
           L     == BlocksOf(left)
           pos(s) == PositionIn(list, BlockOf(s))
           earlier(s) == {u \in SparseVisible(q) : ServedBefore(q, u, s)}
<1>1. list \in Seq(Nat) /\ Len(list) \in Nat /\ DOMAIN list = 1 .. Len(list)
      /\ ready \in SUBSET Nat
  BY DEF Queues
<1>2. SparseVisible(q) = ready
  BY DEF SparseVisible, ListsExactly, BlocksOf, WordsOf
<1>3. \A i \in 1 .. Len(list) : PositionIn(list, list[i]) = i
  BY <1>1 DEF PositionIn, ListsExactly
<1>4. \A s \in ready : \E i \in 1 .. Len(list) : list[i] = BlockOf(s)
  <2> SUFFICES ASSUME NEW s \in ready
               PROVE  \E i \in 1 .. Len(list) : list[i] = BlockOf(s)
    OBVIOUS
  <2>1. BlockOf(s) \in Listed(list)
    BY DEF ListsExactly, BlocksOf
  <2> HIDE DEF list
  <2> QED
    BY <2>1, <1>1 DEF Listed
<1>5. \A s \in ready : pos(s) \in 1 .. Len(list) /\ list[pos(s)] = BlockOf(s)
  BY <1>3, <1>4
<1>6. ASSUME NEW s \in left, NEW t \in ready, pos(s) < pos(t)
      PROVE  t \in left
  <2>0. s \in ready /\ s \notin SparseTake(q, max)
    OBVIOUS
  <2>1. earlier(s) \subseteq earlier(t)
    <3> SUFFICES ASSUME NEW u \in ready, ServedBefore(q, u, s)
                 PROVE  ServedBefore(q, u, t)
      BY <1>2
    <3>1. pos(u) \in Nat /\ pos(s) \in Nat /\ pos(t) \in Nat
      BY <1>5, <1>1, <2>0
    <3>2. pos(u) <= pos(s)
      <4>1. pos(u) < pos(s) \/ pos(u) = pos(s)
        BY DEF ServedBefore
      <4> HIDE DEF pos
      <4> QED
        BY <4>1, <3>1
    <3>3. pos(u) < pos(t)
      <4> HIDE DEF pos
      <4> QED
        BY <3>1, <3>2, <1>6
    <3> QED
      BY <3>3 DEF ServedBefore
  <2>2. IsFiniteSet(earlier(t))
    BY <1>2, FS_Subset
  <2>3. /\ Cardinality(earlier(s)) <= Cardinality(earlier(t))
        /\ Cardinality(earlier(s)) \in Nat
        /\ Cardinality(earlier(t)) \in Nat
    <3> HIDE DEF earlier
    <3> QED
      BY <2>1, <2>2, FS_Subset, FS_CardinalityType
  <2>4. ~ (Cardinality(earlier(s)) < max)
    BY <2>0, <1>2 DEF SparseTake
  <2>5. ~ (Cardinality(earlier(t)) < max)
    <3> HIDE DEF earlier
    <3> QED
      BY <2>3, <2>4
  <2> QED
    BY <2>5, <1>2 DEF SparseTake
<1>7. PICK n \in 0 .. Len(list) :
          /\ \A i \in 1 .. n : list[i] \notin L
          /\ n < Len(list) => list[n + 1] \in L
          /\ DropServedBlocks(list, L) = SubSeq(list, n + 1, Len(list))
  <2> HIDE DEF list, L
  <2> QED
    BY <1>1, DropServedDefined
<1> DEFINE new == SubSeq(list, n + 1, Len(list))
<1>8. \A i \in n + 1 .. Len(list) : list[i] \in L
  <2> SUFFICES ASSUME NEW i \in n + 1 .. Len(list), i # n + 1
               PROVE  list[i] \in L
    <3>1. \A i \in n + 1 .. Len(list) : i = n + 1 => n < Len(list)
      <4> HIDE DEF list
      <4> QED
        BY <1>1
    <3> HIDE DEF list, L
    <3> QED
      BY <3>1, <1>7
  <2>1. n < Len(list) /\ n + 1 \in 1 .. Len(list) /\ i \in 1 .. Len(list) /\ n + 1 < i
    BY <1>1
  <2>2. PICK s \in left : BlockOf(s) = list[n + 1]
    BY <2>1, <1>7 DEF BlocksOf
  <2>3. PICK t \in ready : BlockOf(t) = list[i]
    <3>1. list[i] \in BlocksOf(ready)
      BY <2>1, <1>1 DEF ListsExactly, Listed
    <3> QED
      BY <3>1 DEF BlocksOf
  <2>4. pos(s) = n + 1 /\ pos(t) = i
    BY <2>1, <2>2, <2>3, <1>3
  <2>5. t \in left
    BY <2>4, <2>1, <1>6
  <2> QED
    BY <2>5, <2>3 DEF BlocksOf
<1>9. L \subseteq BlocksOf(ready)
  BY DEF BlocksOf
<1> HIDE DEF L
<1>10. /\ new \in Seq(Nat)
       /\ Len(new) = Len(list) - n
       /\ \A i \in 1 .. Len(new) : new[i] = list[n + i]
  <2>1. \A i \in n + 1 .. Len(list) : list[i] \in Nat
    BY <1>1
  <2>2. /\ new \in Seq(Nat)
        /\ Len(new) = IF n + 1 <= Len(list) THEN Len(list) - (n + 1) + 1 ELSE 0
        /\ \A i \in 1 .. Len(list) - (n + 1) + 1 : new[i] = list[(n + 1) + i - 1]
    <3> HIDE DEF list
    <3> QED
      BY <2>1, <1>1, SubSeqProperties
  <2>3. Len(new) = Len(list) - n /\ Len(list) - (n + 1) + 1 = Len(list) - n
    <3>1. n \in Nat /\ n <= Len(list) /\ Len(list) \in Nat
      BY <1>1
    <3>2. Len(new) = IF n + 1 <= Len(list) THEN Len(list) - (n + 1) + 1 ELSE 0
      BY <2>2
    <3> HIDE DEF list, new
    <3> QED
      BY <3>1, <3>2
  <2>4. \A i \in 1 .. Len(new) : new[i] = list[n + i]
    <3> SUFFICES ASSUME NEW i \in 1 .. Len(new) PROVE new[i] = list[n + i]
      OBVIOUS
    <3>1. (n + 1) + i - 1 = n + i
      OBVIOUS
    <3> HIDE DEF list, new
    <3> QED
      BY <2>2, <2>3, <3>1
  <2> QED
    BY <2>2, <2>3, <2>4
<1> HIDE DEF new
<1>11. DOMAIN new = 1 .. Len(new) /\ \A i \in 1 .. Len(new) : n + i \in n + 1 .. Len(list)
  BY <1>10, <1>1
<1>12. Listed(new) = L
  <2>1. ASSUME NEW x \in Listed(new) PROVE x \in L
    <3>1. PICK i \in 1 .. Len(new) : x = new[i]
      BY <1>11 DEF Listed
    <3> QED
      BY <3>1, <1>8, <1>10, <1>11
  <2>2. ASSUME NEW x \in L PROVE x \in Listed(new)
    <3>1. PICK j \in 1 .. Len(list) : list[j] = x
      BY <1>1, <1>9 DEF ListsExactly, Listed
    <3>2. ~ (j \in 1 .. n)
      BY <3>1, <1>7
    <3>3. j - n \in 1 .. Len(new) /\ n + (j - n) = j
      BY <3>2, <1>10, <1>1
    <3>4. new[j - n] = x
      BY <3>1, <3>3, <1>10
    <3> QED
      BY <3>3, <3>4, <1>11 DEF Listed
  <2> QED
    BY <2>1, <2>2
<1>13. ASSUME NEW i \in DOMAIN new, NEW j \in DOMAIN new, new[i] = new[j]
       PROVE  i = j
  <2>1. list[n + i] = list[n + j] /\ n + i \in 1 .. Len(list) /\ n + j \in 1 .. Len(list)
    <3>1. i \in 1 .. Len(new) /\ j \in 1 .. Len(new)
      BY <1>11
    <3>2. list[n + i] = list[n + j]
      BY <3>1, <1>13, <1>10
    <3>3. n + i \in n + 1 .. Len(list) /\ n + j \in n + 1 .. Len(list)
      BY <3>1, <1>11
    <3> HIDE DEF list
    <3> QED
      BY <3>2, <3>3, <1>1
  <2>2. n + i = n + j
    BY <2>1, <1>1 DEF ListsExactly
  <2> QED
    BY <2>2, <1>11, <1>10
<1> QED
  BY <1>7, <1>10, <1>12, <1>13 DEF ListsExactly, new, L
============================================================================
