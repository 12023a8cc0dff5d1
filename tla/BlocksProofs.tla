---------------------------- MODULE BlocksProofs ----------------------------
(***************************************************************************)
(* The block structure of a balanced body.  Without arms, the scopes that  *)
(* are open at a statement are the blocks around it, the innermost last;   *)
(* with arms, what was declared in an arm goes out of scope where the      *)
(* other arm starts.                                                       *)
(***************************************************************************)
EXTENDS Blocks, FiniteSetTheorems, WellFoundedInduction, TLAPS

\* A body of which every block has one arm.
Plain(p) == Balanced(p) /\ Arms(p) = {}

\* A set of natural numbers that is not empty has a least element, and one
\* that is bounded a greatest.
LEMMA LeastNumber ==
  ASSUME NEW S, S \subseteq Nat, S # {}
  PROVE  \E i \in S : \A j \in S : i <= j
<1>1. PICK i \in S : \A j \in S : <<j, i>> \notin OpToRel(<, Nat)
  BY NatLessThanWellFounded, WFMin, Zenon
<1>2. \A j \in S : ~(j < i)
  BY <1>1 DEF OpToRel
<1> QED
  BY <1>2

LEMMA GreatestNumber ==
  ASSUME NEW n \in Nat, NEW S, S \subseteq 1 .. n, S # {}
  PROVE  \E i \in S : \A j \in S : j <= i
<1> DEFINE R == {k \in 0 .. n : n - k \in S}
<1>1. PICK x \in S : TRUE
  OBVIOUS
<1>2. n - x \in 0 .. n /\ n - (n - x) = x
  BY <1>1
<1>3. R \subseteq Nat /\ R # {}
  <2>1. n - x \in R
    BY <1>1, <1>2
  <2>2. R \subseteq Nat
    OBVIOUS
  <2> HIDE DEF R
  <2> QED
    BY <2>1, <2>2
<1>4. PICK k \in R : \A l \in R : k <= l
  <2> HIDE DEF R
  <2> QED
    BY <1>3, LeastNumber
<1>5. ASSUME NEW j \in S
      PROVE  j <= n - k
  <2>1. n - j \in 0 .. n /\ n - (n - j) = j
    OBVIOUS
  <2>2. k <= n - j
    BY <1>4, <2>1
  <2> QED
    BY <2>2
<1> QED
  BY <1>4, <1>5

LEMMA FirstIs ==
  ASSUME NEW S, S \subseteq Int, NEW i \in S, \A j \in S : i <= j
  PROVE  FirstOf(S) = i
<1>1. \A k \in S : (\A j \in S : k <= j) => k = i
  OBVIOUS
<1> DEFINE P(k) == \A j \in S : k <= j
<1>2. P(i) /\ \A k \in S : P(k) => k = i
  BY <1>1
<1>3. FirstOf(S) = CHOOSE k \in S : P(k)
  BY DEF FirstOf
<1> HIDE DEF P
<1> QED
  BY <1>2, <1>3

LEMMA LastIs ==
  ASSUME NEW S, S \subseteq Int, NEW i \in S, \A j \in S : j <= i
  PROVE  LastOf(S) = i
<1>1. \A k \in S : (\A j \in S : j <= k) => k = i
  OBVIOUS
<1> DEFINE P(k) == \A j \in S : j <= k
<1>2. P(i) /\ \A k \in S : P(k) => k = i
  BY <1>1
<1>3. LastOf(S) = CHOOSE k \in S : P(k)
  BY DEF LastOf
<1> HIDE DEF P
<1> QED
  BY <1>2, <1>3

\* How the depth changes from a statement to the next.
Shift(p, s) == IF s \in Openers(p) THEN 1 ELSE IF s \in Ends(p) THEN -1 ELSE 0

LEMMA DepthStep ==
  ASSUME NEW p, Balanced(p)
  PROVE  /\ Depth(p, 1) = 0
         /\ \A s \in 1 .. Len(p) + 1 : Depth(p, s) \in Nat
         /\ \A s \in 1 .. Len(p) : Depth(p, s+1) = Depth(p, s) + Shift(p, s)
<1> DEFINE n == Len(p)
<1>1. n \in Nat /\ DOMAIN p = 1 .. n
  BY DEF Balanced
<1> HIDE DEF n
<1>2. IsFiniteSet(1 .. n)
  <2>1. 1 \in Int /\ n \in Int
    BY <1>1
  <2> QED
    BY <2>1, FS_Interval
<1> DEFINE Before(S, s) == {i \in S : i < s}
<1>3. ASSUME NEW S, S \subseteq 1 .. n
      PROVE  /\ Cardinality(Before(S, 1)) = 0
             /\ \A s \in 1 .. n + 1 : IsFiniteSet(Before(S, s)) /\ Cardinality(Before(S, s)) \in Nat
             /\ \A s \in 1 .. n :
                  Cardinality(Before(S, s+1)) =
                    Cardinality(Before(S, s)) + IF s \in S THEN 1 ELSE 0
  <2>1. Before(S, 1) = {}
    <3>1. \A i \in S : ~(i < 1)
      BY <1>1, <1>3
    <3> QED
      BY <3>1
  <2>2. ASSUME NEW s \in 1 .. n + 1
        PROVE  IsFiniteSet(Before(S, s)) /\ Cardinality(Before(S, s)) \in Nat
    <3>1. Before(S, s) \subseteq 1 .. n
      BY <1>3
    <3> HIDE DEF Before
    <3> QED
      BY <1>2, <3>1, FS_Subset, FS_CardinalityType
  <2>3. ASSUME NEW s \in 1 .. n
        PROVE  Cardinality(Before(S, s+1)) =
                 Cardinality(Before(S, s)) + IF s \in S THEN 1 ELSE 0
    <3>1. s \in 1 .. n + 1 /\ ~(s < s)
      BY <1>1
    <3>2. \A i \in S : i < s + 1 <=> i < s \/ i = s
      BY <1>1, <1>3
    <3>3. IsFiniteSet(Before(S, s)) /\ Cardinality(Before(S, s)) \in Nat
      BY <2>2, <3>1
    <3>4. CASE s \in S
      <4>1. Before(S, s+1) = Before(S, s) \cup {s} /\ s \notin Before(S, s)
        BY <3>1, <3>2, <3>4
      <4> HIDE DEF Before
      <4>2. Cardinality(Before(S, s) \cup {s}) = Cardinality(Before(S, s)) + 1
        BY <4>1, <3>3, FS_AddElement
      <4> QED
        BY <4>1, <4>2, <3>4
    <3>5. CASE s \notin S
      <4>1. Before(S, s+1) = Before(S, s)
        BY <3>1, <3>2, <3>5
      <4> HIDE DEF Before
      <4> QED
        BY <4>1, <3>3, <3>5
    <3> QED
      BY <3>4, <3>5
  <2> HIDE DEF Before
  <2> QED
    BY <2>1, <2>2, <2>3, FS_EmptySet
<1>4. /\ Openers(p) \subseteq 1 .. n /\ Ends(p) \subseteq 1 .. n
      /\ Openers(p) \cap Ends(p) = {}
  BY <1>1 DEF Openers, Ends
<1>5. \A s : Depth(p, s) = Cardinality(Before(Openers(p), s)) - Cardinality(Before(Ends(p), s))
  BY DEF Depth
<1> HIDE DEF Before
<1> DEFINE up(s) == Cardinality(Before(Openers(p), s))
           down(s) == Cardinality(Before(Ends(p), s))
<1>6. /\ up(1) = 0
      /\ \A s \in 1 .. n + 1 : up(s) \in Nat
      /\ \A s \in 1 .. n : up(s+1) = up(s) + IF s \in Openers(p) THEN 1 ELSE 0
  BY <1>3, <1>4
<1>7. /\ down(1) = 0
      /\ \A s \in 1 .. n + 1 : down(s) \in Nat
      /\ \A s \in 1 .. n : down(s+1) = down(s) + IF s \in Ends(p) THEN 1 ELSE 0
  BY <1>3, <1>4
<1>8. \A s : Depth(p, s) = up(s) - down(s)
  BY <1>5
<1> HIDE DEF up, down
<1>9. \A s \in 1 .. n + 1 : Depth(p, s) >= 0
  BY DEF Balanced, n
<1>10. \A s \in 1 .. n + 1 : Depth(p, s) \in Nat
  BY <1>6, <1>7, <1>8, <1>9
<1>11. Depth(p, 1) = 0
  BY <1>6, <1>7, <1>8
<1>12. \A s \in 1 .. n : Depth(p, s+1) = Depth(p, s) + Shift(p, s)
  <2> SUFFICES ASSUME NEW s \in 1 .. n
               PROVE  Depth(p, s+1) = Depth(p, s) + Shift(p, s)
    OBVIOUS
  <2>1. s \in 1 .. n + 1 /\ ~(s \in Openers(p) /\ s \in Ends(p))
    BY <1>1, <1>4
  <2>2. up(s) \in Nat /\ down(s) \in Nat
    BY <1>6, <1>7, <2>1
  <2>3. /\ up(s+1) = up(s) + IF s \in Openers(p) THEN 1 ELSE 0
        /\ down(s+1) = down(s) + IF s \in Ends(p) THEN 1 ELSE 0
    BY <1>6, <1>7
  <2>4. Depth(p, s) = up(s) - down(s) /\ Depth(p, s+1) = up(s+1) - down(s+1)
    BY <1>8
  <2> QED
    BY <2>1, <2>2, <2>3, <2>4 DEF Shift
<1> QED
  BY <1>10, <1>11, <1>12 DEF n

\* The block that i opens is around s.
Inside(p, i, s) ==
  i \in Openers(p) /\ i < s /\ \A k \in i+1 .. s : Depth(p, i) < Depth(p, k)

\* What is known of the depths of a balanced body, as far as the proofs below
\* need it.
LEMMA Depths ==
  ASSUME NEW p, Balanced(p)
  PROVE  /\ Len(p) \in Nat /\ DOMAIN p = 1 .. Len(p)
         /\ Openers(p) \subseteq 1 .. Len(p) /\ Ends(p) \subseteq 1 .. Len(p)
         /\ Openers(p) \cap Ends(p) = {}
         /\ \A s \in 1 .. Len(p) + 1 : Depth(p, s) \in Nat
         /\ Depth(p, 1) = 0 /\ Depth(p, Len(p) + 1) = 0
         /\ \A s \in 1 .. Len(p) :
              /\ s \in Openers(p) => Depth(p, s+1) = Depth(p, s) + 1
              /\ s \in Ends(p) => Depth(p, s+1) = Depth(p, s) - 1
              /\ s \notin Openers(p) \cup Ends(p) => Depth(p, s+1) = Depth(p, s)
<1>2. Len(p) \in Nat /\ DOMAIN p = 1 .. Len(p) /\ Depth(p, Len(p) + 1) = 0
  BY DEF Balanced
<1>3. /\ Openers(p) \subseteq 1 .. Len(p) /\ Ends(p) \subseteq 1 .. Len(p)
      /\ Openers(p) \cap Ends(p) = {}
  BY <1>2 DEF Openers, Ends
<1>4. /\ Depth(p, 1) = 0
      /\ \A s \in 1 .. Len(p) + 1 : Depth(p, s) \in Nat
      /\ \A s \in 1 .. Len(p) : Depth(p, s+1) = Depth(p, s) + Shift(p, s)
  BY DepthStep
<1>5. ASSUME NEW s \in 1 .. Len(p)
      PROVE  /\ s \in Openers(p) => Depth(p, s+1) = Depth(p, s) + 1
             /\ s \in Ends(p) => Depth(p, s+1) = Depth(p, s) - 1
             /\ s \notin Openers(p) \cup Ends(p) => Depth(p, s+1) = Depth(p, s)
  <2>1. s \in 1 .. Len(p) + 1 /\ ~(s \in Openers(p) /\ s \in Ends(p))
    BY <1>2, <1>3
  <2>2. Depth(p, s) \in Nat /\ Depth(p, s+1) = Depth(p, s) + Shift(p, s)
    BY <1>4, <2>1
  <2> QED
    BY <2>1, <2>2 DEF Shift
<1> QED
  BY <1>2, <1>3, <1>4, <1>5

\* The last block that was opened at depth d - 1 before s, where d blocks are
\* open or more, is the one of that depth around s.
LEMMA LastOpener ==
  ASSUME NEW p, Balanced(p), NEW s \in 1 .. Len(p) + 1, NEW d \in 1 .. Depth(p, s)
  PROVE  LET S == {i \in Openers(p) : i < s /\ Depth(p, i) = d - 1} IN
         /\ LastOf(S) \in S /\ Inside(p, LastOf(S), s)
         /\ \A i \in S : i <= LastOf(S)
         /\ \A i : Inside(p, i, s) /\ Depth(p, i) = d - 1 => i = LastOf(S)
<1> DEFINE n == Len(p)
           D(k) == Depth(p, k)
           S == {i \in Openers(p) : i < s /\ D(i) = d - 1}
<1>1. /\ n \in Nat /\ s \in 1 .. n + 1 /\ d \in 1 .. D(s)
      /\ Openers(p) \subseteq 1 .. n
      /\ \A k \in 1 .. n + 1 : D(k) \in Nat
      /\ D(1) = 0
      /\ \A k \in 1 .. n : k \notin Openers(p) => D(k+1) <= D(k)
      /\ \A k \in 1 .. n : k \in Openers(p) => D(k+1) = D(k) + 1
  <2>1. ASSUME NEW k \in 1 .. Len(p), k \notin Openers(p)
        PROVE  Depth(p, k+1) <= Depth(p, k)
    <3>1. k \in 1 .. Len(p) + 1 /\ k + 1 \in 1 .. Len(p) + 1
      BY Depths
    <3>2. Depth(p, k) \in Nat
      BY <3>1, Depths
    <3> QED
      BY <2>1, <3>2, Depths
  <2> QED
    BY <2>1, Depths
<1> HIDE DEF n, D
<1>3. \E j \in S : Inside(p, j, s) /\ \A i \in S : i <= j
  <2> DEFINE T == {k \in 1 .. s : D(k) < d}
  <2>1. 1 \in T
    BY <1>1
  <2>2. PICK j \in T : \A k \in T : k <= j
    <3>1. T \subseteq 1 .. s /\ T # {} /\ s \in Nat
      BY <2>1, <1>1
    <3> HIDE DEF T
    <3> QED
      BY <3>1, GreatestNumber
  <2>3. j \in 1 .. n /\ j < s /\ D(j) < d /\ D(j) \in Nat
    <3>1. s \notin T
      BY <1>1
    <3> QED
      BY <3>1, <1>1
  <2>4. \A k \in j+1 .. s : d <= D(k)
    BY <1>1, <2>2, <2>3
  <2>5. j \in Openers(p) /\ D(j) = d - 1
    <3>1. d <= D(j+1)
      BY <2>3, <2>4
    <3>2. j + 1 \in 1 .. n + 1 /\ D(j+1) \in Nat
      BY <1>1, <2>3
    <3> QED
      BY <1>1, <2>3, <3>1, <3>2
  <2>6. \A i \in S : i <= j
    BY <1>1, <2>2
  <2>7. \A k \in j+1 .. s : D(j) < D(k)
    BY <1>1, <2>3, <2>4, <2>5
  <2> QED
    BY <2>3, <2>5, <2>6, <2>7 DEF Inside, D
<1>4. PICK j \in S : Inside(p, j, s) /\ \A i \in S : i <= j
  BY <1>3
<1>5. S \subseteq Int
  BY <1>1
<1>6. LastOf(S) = j
  <2> HIDE DEF S
  <2> QED
    BY <1>4, <1>5, LastIs
<1>7. ASSUME NEW i, Inside(p, i, s), Depth(p, i) = d - 1
      PROVE  i = j
  <2>1. i \in S /\ \A k \in i+1 .. s : D(i) < D(k)
    BY <1>7 DEF Inside, D
  <2>2. i <= j /\ i \in Int /\ j \in Int /\ j < s /\ D(j) = d - 1 /\ D(i) = d - 1
    BY <1>4, <1>5, <2>1
  <2>3. ~(D(i) < D(j))
    BY <2>2, <1>1
  <2> HIDE DEF S
  <2>4. ~(j \in i+1 .. s)
    BY <2>1, <2>3
  <2> QED
    BY <2>2, <2>4, <1>1
<1>8. /\ LastOf(S) \in S /\ Inside(p, LastOf(S), s) /\ \A i \in S : i <= LastOf(S)
      /\ \A i : Inside(p, i, s) /\ Depth(p, i) = d - 1 => i = LastOf(S)
  <2> HIDE DEF S
  <2> QED
    BY <1>4, <1>6, <1>7
<1> QED
  BY <1>8 DEF D

\* The end of the block that i opens is where the depth falls back to its own.
LEMMA BlockEnd ==
  ASSUME NEW p, Balanced(p), NEW i \in Openers(p)
  PROVE  /\ EndOf(p, i) \in Ends(p) /\ i < EndOf(p, i)
         /\ Depth(p, EndOf(p, i)) = Depth(p, i) + 1
         /\ Depth(p, EndOf(p, i) + 1) = Depth(p, i)
         /\ \A k \in i+1 .. EndOf(p, i) : Depth(p, i) < Depth(p, k)
<1> DEFINE n == Len(p)
           D(k) == Depth(p, k)
           S == {e \in Ends(p) : e > i /\ D(e) = D(i) + 1}
           T == {k \in i+1 .. n+1 : D(k) <= D(i)}
<1>1. /\ n \in Nat /\ i \in 1 .. n /\ Openers(p) \subseteq 1 .. n /\ Ends(p) \subseteq 1 .. n
      /\ \A k \in 1 .. n + 1 : D(k) \in Nat
      /\ D(n + 1) = 0
      /\ D(i + 1) = D(i) + 1
      /\ \A k \in 1 .. n : k \in Ends(p) => D(k+1) = D(k) - 1
  BY Depths
<1>2. \A k \in 1 .. n : k \notin Ends(p) => D(k) <= D(k+1)
  <2> SUFFICES ASSUME NEW k \in 1 .. n, k \notin Ends(p)
               PROVE  D(k) <= D(k+1)
    OBVIOUS
  <2>1. k \in 1 .. n + 1
    BY <1>1
  <2>2. D(k) \in Nat
    BY <1>1, <2>1
  <2>3. D(k+1) = D(k) + 1 \/ D(k+1) = D(k)
    BY Depths
  <2> QED
    BY <2>2, <2>3
<1>3. EndOf(p, i) = FirstOf(S)
  BY DEF EndOf
<1> HIDE DEF n, D
<1>4. PICK m \in T : \A k \in T : m <= k
  <2>1. n + 1 \in T
    BY <1>1
  <2>2. T \subseteq Nat
    BY <1>1
  <2> HIDE DEF T
  <2> QED
    BY <2>1, <2>2, LeastNumber
<1> DEFINE e == m - 1
<1>5. m \in i+1 .. n+1 /\ D(m) <= D(i) /\ D(m) \in Nat /\ D(i) \in Nat
  BY <1>1, <1>4
<1>6. m # i + 1
  BY <1>1, <1>5
<1>7. e \in i+1 .. n /\ e + 1 = m /\ e \in 1 .. n /\ e \in 1 .. n + 1
  BY <1>1, <1>5, <1>6
<1>8. \A k \in i+1 .. e : D(i) < D(k)
  <2> SUFFICES ASSUME NEW k \in i+1 .. e
               PROVE  D(i) < D(k)
    OBVIOUS
  <2>1. k \in i+1 .. n+1 /\ ~(m <= k) /\ k \in 1 .. n+1
    BY <1>1, <1>7
  <2>2. D(k) \in Nat /\ k \notin T
    BY <1>1, <1>4, <2>1
  <2> QED
    BY <1>5, <2>1, <2>2
<1> HIDE DEF T, e
<1>9. e \in Ends(p) /\ D(e) = D(i) + 1 /\ D(e + 1) = D(i)
  <2>1. e \in i+1 .. e /\ D(e + 1) = D(m)
    BY <1>1, <1>7
  <2>2. D(i) < D(e) /\ D(e) \in Nat /\ D(e + 1) <= D(i) /\ D(e + 1) \in Nat
    BY <1>1, <1>5, <1>7, <1>8, <2>1
  <2>3. e \in Ends(p)
    BY <1>2, <1>5, <1>7, <2>2
  <2>4. D(e + 1) = D(e) - 1
    BY <1>1, <1>7, <2>3
  <2> QED
    BY <1>5, <2>2, <2>3, <2>4
<1>10. e \in S /\ S \subseteq Int
  BY <1>1, <1>7, <1>9
<1>11. ASSUME NEW f \in S
       PROVE  e <= f
  <2>1. f \in 1 .. n /\ i < f /\ D(f) = D(i) + 1 /\ f \in Ends(p)
    BY <1>1
  <2>2. D(f+1) = D(i) /\ f + 1 \in i+1 .. n+1
    BY <1>1, <1>5, <2>1
  <2>3. ~(f + 1 \in i+1 .. e)
    BY <1>5, <1>8, <2>2
  <2> QED
    BY <1>1, <1>7, <2>1, <2>3
<1>12. EndOf(p, i) = e
  <2> HIDE DEF S
  <2> QED
    BY <1>3, <1>10, <1>11, FirstIs
<1>13. i < e
  BY <1>1, <1>7
<1>14. /\ e \in Ends(p) /\ i < e
       /\ Depth(p, e) = Depth(p, i) + 1
       /\ Depth(p, e + 1) = Depth(p, i)
       /\ \A k \in i+1 .. e : Depth(p, i) < Depth(p, k)
  BY <1>8, <1>9, <1>13 DEF D
<1> QED
  BY <1>12, <1>14

\* A block is around the statements from its first to its closing brace.
LEMMA BlockSpan ==
  ASSUME NEW p, Balanced(p), NEW i \in Openers(p), NEW s \in 1 .. Len(p) + 1
  PROVE  Inside(p, i, s) <=> i < s /\ s <= EndOf(p, i)
<1> DEFINE n == Len(p)
           D(k) == Depth(p, k)
           e == EndOf(p, i)
<1>1. /\ n \in Nat /\ i \in 1 .. n /\ s \in 1 .. n + 1 /\ Ends(p) \subseteq 1 .. n
      /\ D(i) \in Nat
  <2>1. Len(p) \in Nat /\ i \in 1 .. Len(p) /\ Ends(p) \subseteq 1 .. Len(p)
    BY Depths
  <2>2. i \in 1 .. Len(p) + 1
    BY <2>1
  <2> QED
    BY <2>1, <2>2, Depths
<1>2. e \in Ends(p) /\ i < e /\ D(e + 1) = D(i) /\ \A k \in i+1 .. e : D(i) < D(k)
  BY BlockEnd
<1>3. Inside(p, i, s) <=> i < s /\ \A k \in i+1 .. s : D(i) < D(k)
  BY DEF Inside
<1> HIDE DEF n, D, e
<1>4. ASSUME i < s, s <= e
      PROVE  \A k \in i+1 .. s : D(i) < D(k)
  <2>1. \A k \in i+1 .. s : k \in i+1 .. e
    BY <1>1, <1>2, <1>4
  <2> QED
    BY <1>2, <2>1
<1>5. ASSUME i < s, ~(s <= e)
      PROVE  e + 1 \in i+1 .. s /\ ~(D(i) < D(e + 1))
  BY <1>1, <1>2, <1>5
<1> QED
  BY <1>3, <1>4, <1>5 DEF e

\* The same of a plain body.
LEMMA DepthFacts ==
  ASSUME NEW p, Plain(p)
  PROVE  /\ Len(p) \in Nat /\ DOMAIN p = 1 .. Len(p)
         /\ Openers(p) \subseteq 1 .. Len(p) /\ Ends(p) \subseteq 1 .. Len(p)
         /\ Openers(p) \cap Ends(p) = {}
         /\ \A s \in 1 .. Len(p) + 1 : Depth(p, s) \in Nat
         /\ Depth(p, 1) = 0 /\ Depth(p, Len(p) + 1) = 0
         /\ \A s \in 1 .. Len(p) :
              /\ s \in Openers(p) => Depth(p, s+1) = Depth(p, s) + 1
              /\ s \in Ends(p) => Depth(p, s+1) = Depth(p, s) - 1
              /\ s \notin Openers(p) \cup Ends(p) => Depth(p, s+1) = Depth(p, s)
  BY Depths DEF Plain

\* The scope at depth d of the stack at s is the one block around s that
\* opens at that depth.
LEMMA ScopeIs ==
  ASSUME NEW p, Plain(p), NEW s \in 1 .. Len(p) + 1, NEW d \in 1 .. Depth(p, s)
  PROVE  /\ Inside(p, ScopeAtDepth(p, s, d), s)
         /\ Depth(p, ScopeAtDepth(p, s, d)) = d - 1
         /\ \A i : Inside(p, i, s) /\ Depth(p, i) = d - 1 => i = ScopeAtDepth(p, s, d)
<1>1. Balanced(p) /\ Arms(p) = {}
  BY DEF Plain
<1>2. ScopeAtDepth(p, s, d) = LastOf({i \in Openers(p) : i < s /\ Depth(p, i) = d - 1})
  <2>1. s \in 1 .. Len(p) + 1 /\ Depth(p, s) \in Nat /\ d # 0 /\ ~(d > Depth(p, s))
    BY DepthFacts
  <2> QED
    BY <1>1, <2>1 DEF ScopeAtDepth
<1> QED
  BY <1>1, <1>2, LastOpener

\* The scopes that are open at s are the body and the blocks around s.
LEMMA OpenIs ==
  ASSUME NEW p, Plain(p), NEW s \in 1 .. Len(p) + 1
  PROVE  /\ \A i : i \in OpenScopes(p, s) <=> i = 0 \/ Inside(p, i, s)
         /\ ScopeOf(p, s) \in OpenScopes(p, s)
         /\ Depth(p, s) = 0 => ScopeOf(p, s) = 0
         /\ Depth(p, s) # 0 => /\ Inside(p, ScopeOf(p, s), s)
                               /\ Depth(p, ScopeOf(p, s)) = Depth(p, s) - 1
<1>1. Depth(p, s) \in Nat
  BY DepthFacts
<1>2. ScopeAtDepth(p, s, 0) = 0
  BY DEF ScopeAtDepth
<1>3. \A i : i \in OpenScopes(p, s) <=> \E d \in 0 .. Depth(p, s) : i = ScopeAtDepth(p, s, d)
  BY DEF OpenScopes
<1>4. ASSUME NEW i, i \in OpenScopes(p, s)
      PROVE  i = 0 \/ Inside(p, i, s)
  <2>1. PICK d \in 0 .. Depth(p, s) : i = ScopeAtDepth(p, s, d)
    BY <1>3, <1>4
  <2>2. d = 0 \/ d \in 1 .. Depth(p, s)
    BY <1>1
  <2> QED
    BY <2>1, <2>2, <1>2, ScopeIs
<1>5. 0 \in OpenScopes(p, s)
  <2>1. 0 \in 0 .. Depth(p, s)
    BY <1>1
  <2> QED
    BY <2>1, <1>2, <1>3
<1>6. ASSUME NEW i, Inside(p, i, s)
      PROVE  i \in OpenScopes(p, s)
  <2>1. /\ i \in 1 .. Len(p) /\ i < s /\ s \in i+1 .. s
        /\ i \in 1 .. Len(p) + 1
    BY <1>6, DepthFacts DEF Inside
  <2>2. Depth(p, i) < Depth(p, s) /\ Depth(p, i) \in Nat
    BY <1>6, <2>1, DepthFacts DEF Inside
  <2>3. Depth(p, i) + 1 \in 1 .. Depth(p, s) /\ Depth(p, i) = (Depth(p, i) + 1) - 1
    BY <1>1, <2>2
  <2>4. i = ScopeAtDepth(p, s, Depth(p, i) + 1)
    BY <1>6, <2>3, ScopeIs
  <2>5. Depth(p, i) + 1 \in 0 .. Depth(p, s)
    BY <2>3
  <2> QED
    BY <1>3, <2>4, <2>5
<1>7. ScopeOf(p, s) \in OpenScopes(p, s)
  <2>1. Depth(p, s) \in 0 .. Depth(p, s)
    BY <1>1
  <2> QED
    BY <2>1, <1>3 DEF ScopeOf
<1>8. Depth(p, s) = 0 => ScopeOf(p, s) = 0
  BY <1>2 DEF ScopeOf
<1>9. ASSUME Depth(p, s) # 0
      PROVE  Inside(p, ScopeOf(p, s), s) /\ Depth(p, ScopeOf(p, s)) = Depth(p, s) - 1
  <2>1. Depth(p, s) \in 1 .. Depth(p, s)
    BY <1>1, <1>9
  <2> QED
    BY <2>1, ScopeIs DEF ScopeOf
<1> QED
  BY <1>4, <1>5, <1>6, <1>7, <1>8, <1>9

\* The innermost scope is the last to open.
LEMMA ScopeIsInnermost ==
  ASSUME NEW p, Plain(p), NEW s \in 1 .. Len(p) + 1
  PROVE  /\ ScopeOf(p, s) \in 0 .. s - 1
         /\ \A i \in OpenScopes(p, s) :
              i \in Openers(p) \cup {0} /\ i \in 0 .. s - 1 /\ i <= ScopeOf(p, s)
<1> DEFINE n == Len(p)
           D(k) == Depth(p, k)
           sc == ScopeOf(p, s)
<1>1. /\ n \in Nat /\ s \in 1 .. n + 1 /\ Openers(p) \subseteq 1 .. n
      /\ \A k \in 1 .. n + 1 : D(k) \in Nat
  BY DepthFacts
<1>2. /\ \A i : i \in OpenScopes(p, s) <=> i = 0 \/ Inside(p, i, s)
      /\ sc \in OpenScopes(p, s)
      /\ D(s) = 0 => sc = 0
      /\ D(s) # 0 => Inside(p, sc, s) /\ D(sc) = D(s) - 1
  BY OpenIs
<1>3. \A i : Inside(p, i, s) => i \in Openers(p) /\ i < s /\ \A k \in i+1 .. s : D(i) < D(k)
  BY DEF Inside, D
<1> HIDE DEF n, D, sc
<1>4. \A i \in OpenScopes(p, s) : i \in Openers(p) \cup {0} /\ i \in 0 .. s - 1
  BY <1>1, <1>2, <1>3
<1>5. ASSUME NEW i \in OpenScopes(p, s)
      PROVE  i <= sc
  <2>1. sc \in 0 .. s - 1 /\ i \in 0 .. s - 1
    BY <1>2, <1>4
  <2>2. CASE i = 0
    BY <2>1, <2>2
  <2>3. CASE i # 0
    <3>1. Inside(p, i, s)
      BY <1>2, <2>3
    <3>2. i \in 1 .. n /\ i < s /\ i \in 1 .. n + 1 /\ s \in i+1 .. s
      BY <1>1, <1>3, <3>1
    <3>3. D(i) < D(s) /\ D(i) \in Nat /\ D(s) \in Nat
      BY <1>1, <1>3, <3>1, <3>2
    <3>4. Inside(p, sc, s) /\ D(sc) = D(s) - 1
      BY <1>2, <3>3
    <3>5. ~(D(sc) < D(i))
      BY <3>3, <3>4
    <3>6. ~(i \in sc+1 .. s)
      BY <1>3, <3>4, <3>5
    <3> QED
      BY <2>1, <3>2, <3>6
  <2> QED
    BY <2>2, <2>3
<1> QED
  BY <1>2, <1>4, <1>5 DEF sc

LEMMA EndIs ==
  ASSUME NEW p, Plain(p), NEW i \in Openers(p)
  PROVE  /\ EndOf(p, i) \in Ends(p) /\ i < EndOf(p, i)
         /\ Depth(p, EndOf(p, i)) = Depth(p, i) + 1
         /\ Depth(p, EndOf(p, i) + 1) = Depth(p, i)
         /\ \A k \in i+1 .. EndOf(p, i) : Depth(p, i) < Depth(p, k)
  BY BlockEnd DEF Plain

LEMMA InsideIsBeforeEnd ==
  ASSUME NEW p, Plain(p), NEW i \in Openers(p), NEW s \in 1 .. Len(p) + 1
  PROVE  Inside(p, i, s) <=> i < s /\ s <= EndOf(p, i)
  BY BlockSpan DEF Plain

\* Where a block opens, the scopes around it that open before it are open.
LEMMA Nested ==
  ASSUME NEW p, Plain(p), NEW s \in 1 .. Len(p) + 1, NEW i, Inside(p, i, s)
  PROVE  OpenScopes(p, i) = {j \in OpenScopes(p, s) : j < i}
<1> DEFINE n == Len(p)
           D(k) == Depth(p, k)
<1>1. /\ n \in Nat /\ s \in 1 .. n + 1 /\ i \in 1 .. n /\ i \in 1 .. n + 1 /\ i < s
      /\ Openers(p) \subseteq 1 .. n
      /\ \A k \in 1 .. n + 1 : D(k) \in Nat
      /\ \A k \in i+1 .. s : D(i) < D(k)
  BY DepthFacts DEF Inside
<1>2. /\ \A j : j \in OpenScopes(p, s) <=> j = 0 \/ Inside(p, j, s)
      /\ \A j : j \in OpenScopes(p, i) <=> j = 0 \/ Inside(p, j, i)
  BY <1>1, OpenIs
<1>3. \A j, t : Inside(p, j, t) <=> j \in Openers(p) /\ j < t /\ \A k \in j+1 .. t : D(j) < D(k)
  BY DEF Inside
<1> HIDE DEF n, D
<1>4. ASSUME NEW j, Inside(p, j, i)
      PROVE  Inside(p, j, s) /\ j < i
  <2>1. j \in Openers(p) /\ j \in 1 .. n /\ j < i /\ \A k \in j+1 .. i : D(j) < D(k)
    BY <1>1, <1>3, <1>4
  <2>2. j \in 1 .. n + 1 /\ i \in j+1 .. i
    BY <1>1, <2>1
  <2>3. D(j) < D(i) /\ D(j) \in Nat /\ D(i) \in Nat
    BY <1>1, <2>1, <2>2
  <2>4. ASSUME NEW k \in j+1 .. s
        PROVE  D(j) < D(k)
    <3>1. k \in j+1 .. i \/ k \in i+1 .. s
      BY <1>1, <2>1
    <3>2. k \in 1 .. n + 1
      BY <1>1, <2>1
    <3>3. D(k) \in Nat
      BY <1>1, <3>2
    <3> QED
      BY <1>1, <2>1, <2>3, <3>1, <3>3
  <2>5. j < s
    BY <1>1, <2>1
  <2> QED
    BY <1>3, <2>1, <2>4, <2>5
<1>5. ASSUME NEW j, Inside(p, j, s), j < i
      PROVE  Inside(p, j, i)
  <2>1. j \in Openers(p) /\ j \in 1 .. n /\ \A k \in j+1 .. s : D(j) < D(k)
    BY <1>1, <1>3, <1>5
  <2>2. \A k \in j+1 .. i : k \in j+1 .. s
    BY <1>1, <2>1
  <2> QED
    BY <1>3, <1>5, <2>1, <2>2
<1>6. 0 < i
  BY <1>1
<1>7. \A j : j \in OpenScopes(p, i) <=> j \in OpenScopes(p, s) /\ j < i
  BY <1>2, <1>4, <1>5, <1>6
<1> QED
  BY <1>7

\* A statement that neither opens nor ends a block leaves the scopes as they
\* are, one that opens a block adds it, and the end of a block goes back to
\* the scopes around the block.
LEMMA OpenNext ==
  ASSUME NEW p, Plain(p), NEW s \in 1 .. Len(p)
  PROVE  /\ s \notin Openers(p) \cup Ends(p) => OpenScopes(p, s+1) = OpenScopes(p, s)
         /\ s \in Openers(p) => OpenScopes(p, s+1) = OpenScopes(p, s) \cup {s}
         /\ s \in Ends(p) =>
              /\ ScopeOf(p, s) \in Openers(p) /\ ScopeOf(p, s) < s
              /\ EndOf(p, ScopeOf(p, s)) = s
              /\ OpenScopes(p, s+1) = OpenScopes(p, s) \ {ScopeOf(p, s)}
              /\ OpenScopes(p, s+1) = OpenScopes(p, ScopeOf(p, s))
<1> DEFINE n == Len(p)
           D(k) == Depth(p, k)
           sc == ScopeOf(p, s)
<1>1. /\ n \in Nat /\ s \in 1 .. n /\ s \in 1 .. n + 1 /\ s + 1 \in 1 .. n + 1
      /\ Openers(p) \subseteq 1 .. n /\ Ends(p) \subseteq 1 .. n
      /\ Openers(p) \cap Ends(p) = {}
      /\ \A k \in 1 .. n + 1 : D(k) \in Nat
      /\ s \in Openers(p) => D(s+1) = D(s) + 1
      /\ s \in Ends(p) => D(s+1) = D(s) - 1
      /\ s \notin Openers(p) \cup Ends(p) => D(s+1) = D(s)
  <2>1. Len(p) \in Nat
    BY DepthFacts
  <2>2. s \in 1 .. Len(p) + 1 /\ s + 1 \in 1 .. Len(p) + 1
    BY <2>1
  <2> QED
    BY <2>1, <2>2, DepthFacts
<1>2. /\ \A j : j \in OpenScopes(p, s) <=> j = 0 \/ Inside(p, j, s)
      /\ \A j : j \in OpenScopes(p, s+1) <=> j = 0 \/ Inside(p, j, s+1)
  BY <1>1, OpenIs
<1>3. \A j, t : Inside(p, j, t) <=> j \in Openers(p) /\ j < t /\ \A k \in j+1 .. t : D(j) < D(k)
  BY DEF Inside
<1>4. /\ sc \in OpenScopes(p, s)
      /\ D(s) # 0 => Inside(p, sc, s) /\ D(sc) = D(s) - 1
      /\ \A j : Inside(p, j, s) /\ D(s) # 0 /\ D(j) = D(s) - 1 => j = sc
  <2>1. ASSUME NEW j, Inside(p, j, s), D(s) # 0, D(j) = D(s) - 1
        PROVE  j = sc
    <3>1. D(s) \in 1 .. D(s)
      BY <1>1, <2>1
    <3> QED
      BY <1>1, <2>1, <3>1, ScopeIs DEF ScopeOf
  <2> QED
    BY <1>1, <2>1, OpenIs
<1> HIDE DEF n, D, sc
<1>5. D(s) \in Nat /\ D(s+1) \in Nat
  BY <1>1
\* A block other than s itself is around s + 1 when it is around s and s + 1
\* is deeper than it.
<1>6. ASSUME NEW j
      PROVE  Inside(p, j, s+1) <=> (Inside(p, j, s) /\ D(j) < D(s+1)) \/ (j = s /\ s \in Openers(p))
  <2>1. ASSUME j \in Openers(p), j < s
        PROVE  (\A k \in j+1 .. s+1 : D(j) < D(k)) <=>
                 (\A k \in j+1 .. s : D(j) < D(k)) /\ D(j) < D(s+1)
    <3>1. j \in 1 .. n
      BY <1>1, <2>1
    <3>2. \A k : k \in j+1 .. s+1 <=> k \in j+1 .. s \/ k = s+1
      BY <1>1, <2>1, <3>1
    <3> QED
      BY <3>2
  <2>2. ASSUME j = s, s \in Openers(p)
        PROVE  s < s + 1 /\ \A k \in s+1 .. s+1 : D(s) < D(k)
    <3>1. \A k \in s+1 .. s+1 : k = s + 1
      BY <1>1
    <3>2. D(s) < D(s+1)
      BY <1>1, <1>5, <2>2
    <3>3. s < s + 1
      BY <1>1
    <3> QED
      BY <3>1, <3>2, <3>3
  <2>3. j \in Openers(p) => (j < s + 1 <=> j < s \/ j = s)
    BY <1>1
  <2>4. ~(s < s)
    BY <1>1
  <2> QED
    BY <1>3, <2>1, <2>2, <2>3, <2>4
<1>7. ASSUME NEW j, Inside(p, j, s)
      PROVE  D(j) < D(s) /\ D(j) \in Nat
  <2>1. j \in 1 .. n + 1 /\ s \in j+1 .. s
    BY <1>1, <1>3, <1>7
  <2> QED
    BY <1>1, <1>3, <1>7, <2>1
<1>8. ASSUME s \notin Ends(p)
      PROVE  \A j : Inside(p, j, s) => D(j) < D(s+1)
  BY <1>1, <1>5, <1>7, <1>8
<1>9. ASSUME s \notin Openers(p) \cup Ends(p)
      PROVE  OpenScopes(p, s+1) = OpenScopes(p, s)
  <2>1. \A j : j \in OpenScopes(p, s+1) <=> j \in OpenScopes(p, s)
    BY <1>2, <1>6, <1>8, <1>9
  <2> QED
    BY <2>1
<1>10. ASSUME s \in Openers(p)
       PROVE  OpenScopes(p, s+1) = OpenScopes(p, s) \cup {s}
  <2>1. s \notin Ends(p)
    BY <1>1, <1>10
  <2>2. \A j : j \in OpenScopes(p, s+1) <=> j \in OpenScopes(p, s) \/ j = s
    BY <1>2, <1>6, <1>8, <1>10, <2>1
  <2> QED
    BY <2>2
<1>11. ASSUME s \in Ends(p)
       PROVE  /\ sc \in Openers(p) /\ sc < s
              /\ EndOf(p, sc) = s
              /\ OpenScopes(p, s+1) = OpenScopes(p, s) \ {sc}
              /\ OpenScopes(p, s+1) = OpenScopes(p, sc)
  <2>1. D(s+1) = D(s) - 1 /\ D(s) # 0
    BY <1>1, <1>5, <1>11
  <2>2. Inside(p, sc, s) /\ D(sc) = D(s+1)
    BY <1>4, <2>1
  <2>3. sc \in Openers(p) /\ sc < s /\ sc \in 1 .. n
    BY <1>1, <1>3, <2>2
  <2>4. s \notin Openers(p)
    BY <1>1, <1>11
  <2>5. ~Inside(p, sc, s+1)
    <3>1. ~(D(sc) < D(s+1))
      BY <1>5, <2>2
    <3> QED
      BY <1>6, <2>4, <3>1
  <2>6. s <= EndOf(p, sc) /\ ~(s + 1 <= EndOf(p, sc)) /\ EndOf(p, sc) \in 1 .. n
    <3>1. Inside(p, sc, s) <=> sc < s /\ s <= EndOf(p, sc)
      BY <1>1, <2>3, InsideIsBeforeEnd
    <3>2. Inside(p, sc, s+1) <=> sc < s + 1 /\ s + 1 <= EndOf(p, sc)
      BY <1>1, <2>3, InsideIsBeforeEnd
    <3>3. sc < s + 1
      BY <1>1, <2>3
    <3>4. EndOf(p, sc) \in 1 .. n
      BY <1>1, <2>3, EndIs
    <3> QED
      BY <2>2, <2>5, <3>1, <3>2, <3>3, <3>4
  <2>7. EndOf(p, sc) = s
    BY <1>1, <2>6
  <2>8. ASSUME NEW j, Inside(p, j, s)
        PROVE  D(j) < D(s+1) <=> j # sc
    <3>1. D(j) < D(s) /\ D(j) \in Nat
      BY <1>7, <2>8
    <3>2. D(j) < D(s+1) <=> D(j) # D(s) - 1
      BY <1>5, <2>1, <3>1
    <3>3. D(j) = D(s) - 1 <=> j = sc
      BY <1>4, <2>1, <2>2, <2>8
    <3> QED
      BY <3>2, <3>3
  <2>9. 0 # sc
    BY <1>1, <2>3
  <2>10. \A j : j \in OpenScopes(p, s+1) <=> j \in OpenScopes(p, s) /\ j # sc
    BY <1>2, <1>6, <2>4, <2>8, <2>9
  <2>11. OpenScopes(p, sc) = {j \in OpenScopes(p, s) : j < sc}
    BY <1>1, <2>2, Nested
  <2>12. \A j \in OpenScopes(p, s) : j # sc <=> j < sc
    <3>1. \A j \in OpenScopes(p, s) : j \in 0 .. s - 1 /\ j <= sc
      BY <1>1, ScopeIsInnermost DEF sc
    <3> QED
      BY <1>1, <2>3, <3>1
  <2>13. OpenScopes(p, s+1) = OpenScopes(p, s) \ {sc}
    BY <2>10
  <2>14. OpenScopes(p, s+1) = OpenScopes(p, sc)
    BY <2>10, <2>11, <2>12
  <2> QED
    BY <2>3, <2>7, <2>13, <2>14
<1> QED
  BY <1>9, <1>10, <1>11 DEF sc

\* Behind a block the scopes are those that were open before it.
LEMMA EndScope ==
  ASSUME NEW p, Plain(p), NEW i \in Openers(p)
  PROVE  /\ EndOf(p, i) \in 1 .. Len(p)
         /\ ScopeOf(p, EndOf(p, i)) = i
         /\ OpenScopes(p, EndOf(p, i) + 1) = OpenScopes(p, i)
<1> DEFINE e == EndOf(p, i)
<1>1. /\ e \in Ends(p) /\ e \in 1 .. Len(p) /\ e \in 1 .. Len(p) + 1
      /\ i < e /\ e <= e /\ Depth(p, e) = Depth(p, i) + 1
      /\ i \in 1 .. Len(p) + 1
  <2>1. Len(p) \in Nat /\ e \in 1 .. Len(p) /\ i \in 1 .. Len(p)
    BY EndIs, DepthFacts
  <2> QED
    BY <2>1, EndIs
<1> HIDE DEF e
<1>2. Inside(p, i, e)
  <2>1. e = EndOf(p, i)
    BY DEF e
  <2> QED
    BY <1>1, <2>1, InsideIsBeforeEnd
<1>3. Depth(p, i) \in Nat
  BY <1>1, DepthFacts
<1>4. Depth(p, e) \in 1 .. Depth(p, e) /\ Depth(p, i) = Depth(p, e) - 1
  BY <1>1, <1>3
<1>5. ScopeOf(p, e) = i
  BY <1>1, <1>2, <1>4, ScopeIs DEF ScopeOf
<1>6. OpenScopes(p, e+1) = OpenScopes(p, i)
  BY <1>1, <1>5, OpenNext
<1> QED
  BY <1>1, <1>5, <1>6 DEF e

\* What is written in a block has a scope that opens with the block or later.
LEMMA ScopesOfABlock ==
  ASSUME NEW p, Plain(p), NEW i \in Openers(p), NEW t \in 1 .. Len(p) + 1,
         i < t, t <= EndOf(p, i)
  PROVE  i <= ScopeOf(p, t)
BY InsideIsBeforeEnd, OpenIs, ScopeIsInnermost

\* The depth of a declaration leads back to its scope while that is open.
LEMMA ScopeByDepth ==
  ASSUME NEW p, Plain(p), NEW s \in 1 .. Len(p) + 1, NEW t \in 1 .. Len(p),
         t < s, ScopeOf(p, t) \in OpenScopes(p, s)
  PROVE  ScopeAtDepth(p, s, Depth(p, t)) = ScopeOf(p, t)
<1>1. t \in 1 .. Len(p) + 1 /\ Len(p) \in Nat
  BY DepthFacts
<1>2. Depth(p, t) \in Nat /\ Depth(p, s) \in Nat
  BY <1>1, DepthFacts
<1>3. CASE Depth(p, t) = 0
  BY <1>1, <1>3, OpenIs DEF ScopeAtDepth
<1>4. CASE Depth(p, t) # 0
  <2> DEFINE sc == ScopeOf(p, t)
  <2>1. Inside(p, sc, t) /\ Depth(p, sc) = Depth(p, t) - 1
    BY <1>1, <1>4, OpenIs
  <2>2. sc \in 1 .. Len(p)
    BY <2>1, DepthFacts DEF Inside
  <2>3. Inside(p, sc, s)
    <3>1. sc # 0
      BY <2>2
    <3> QED
      BY <3>1, OpenIs
  <2> HIDE DEF sc
  <2>4. s \in sc+1 .. s
    BY <2>2, <2>3 DEF Inside
  <2>5. Depth(p, sc) < Depth(p, s)
    BY <2>3, <2>4 DEF Inside
  <2>6. Depth(p, t) \in 1 .. Depth(p, s)
    BY <1>2, <1>4, <2>1, <2>5
  <2> QED
    BY <2>1, <2>3, <2>6, ScopeIs DEF sc
<1> QED
  BY <1>3, <1>4

\* The innermost loop around a statement is a block around it.
LEMMA LoopIs ==
  ASSUME NEW p, Plain(p), NEW s \in 1 .. Len(p), LoopsAround(p, s) # {}
  PROVE  Inside(p, LastOf(LoopsAround(p, s)), s)
<1> DEFINE S == LoopsAround(p, s)
<1>1. S \subseteq Openers(p) /\ \A i \in S : i < s /\ s <= EndOf(p, i)
  BY DEF LoopsAround
<1>2. S \subseteq 1 .. Len(p) /\ Len(p) \in Nat
  BY <1>1, DepthFacts
<1> HIDE DEF S
<1>3. PICK l \in S : \A j \in S : j <= l
  BY <1>2, GreatestNumber DEF S
<1>4. LastOf(S) = l
  <2>1. S \subseteq Int
    BY <1>2
  <2> QED
    BY <1>3, <2>1, LastIs
<1>5. s \in 1 .. Len(p) + 1
  BY <1>2
<1> QED
  BY <1>1, <1>3, <1>4, <1>5, InsideIsBeforeEnd DEF S

\* Where control can go from statement s: to the next one, behind the block
\* that s opens, or to the start or behind the end of a block around s.
Successor(p, s, u) ==
  \/ u = s + 1
  \/ s \in Openers(p) /\ u = EndOf(p, s) + 1
  \/ \E i : Inside(p, i, s) /\ (u = i \/ u = EndOf(p, i) + 1)

\* Control never comes to a statement from which more is in scope than was
\* before it: what is before u in a scope that is open at u is s itself, or
\* was before s in a scope that was open there; and what is before s in
\* a scope that is open at u is before u.
LEMMA Flow ==
  ASSUME NEW p, Plain(p), NEW s \in 1 .. Len(p), NEW u, Successor(p, s, u)
  PROVE  /\ u \in 1 .. Len(p) + 1
         /\ OpenScopes(p, u) \subseteq OpenScopes(p, s) \cup {s}
         /\ \A t \in 1 .. Len(p) :
              ScopeOf(p, t) \in OpenScopes(p, u) =>
                /\ t < u => t = s \/ (t < s /\ ScopeOf(p, t) \in OpenScopes(p, s))
                /\ t < s /\ t \notin Openers(p) => t < u
<1> DEFINE n == Len(p)
           O(k) == OpenScopes(p, k)
           sc(k) == ScopeOf(p, k)
<1>1. n \in Nat /\ s \in 1 .. n /\ s \in 1 .. n + 1 /\ Openers(p) \subseteq 1 .. n
  <2>1. Len(p) \in Nat /\ Openers(p) \subseteq 1 .. Len(p)
    BY DepthFacts
  <2> QED
    BY <2>1
<1>2. /\ \A t \in 1 .. n : sc(t) \in Int /\ sc(t) < t
      /\ \A k \in 1 .. n + 1 : \A i \in O(k) : i \in Int /\ i < k
  <2>1. ASSUME NEW t \in 1 .. n
        PROVE  sc(t) \in Int /\ sc(t) < t
    <3>1. t \in 1 .. n + 1
      BY <1>1
    <3>2. sc(t) \in 0 .. t - 1
      BY <3>1, ScopeIsInnermost
    <3> QED
      BY <3>1, <3>2
  <2>2. ASSUME NEW k \in 1 .. n + 1, NEW i \in O(k)
        PROVE  i \in Int /\ i < k
    <3>1. i \in 0 .. k - 1
      BY ScopeIsInnermost
    <3> QED
      BY <1>1, <3>1
  <2> QED
    BY <2>1, <2>2
<1>3. \A i \in Openers(p) : \A t \in 1 .. n : i < t /\ t <= EndOf(p, i) => i <= sc(t)
  <2> SUFFICES ASSUME NEW i \in Openers(p), NEW t \in 1 .. n, i < t, t <= EndOf(p, i)
               PROVE  i <= sc(t)
    OBVIOUS
  <2>1. t \in 1 .. n + 1
    BY <1>1
  <2> QED
    BY <2>1, ScopesOfABlock
\* What is before or behind the block of i in a scope open at i is not in it.
<1>4. ASSUME NEW i \in Openers(p), NEW t \in 1 .. n, sc(t) \in O(i), i < t
      PROVE  EndOf(p, i) < t
  <2>1. i \in 1 .. n + 1 /\ i \in 1 .. n /\ EndOf(p, i) \in 1 .. n
    BY <1>1, EndScope
  <2>2. sc(t) \in Int /\ sc(t) < i
    BY <1>2, <1>4, <2>1
  <2>3. ~(t <= EndOf(p, i))
    BY <1>3, <1>4, <2>1, <2>2
  <2> QED
    BY <2>1, <2>3
<1>5. \A i : Inside(p, i, s) => /\ i \in Openers(p) /\ i < s /\ s <= EndOf(p, i)
                               /\ O(i) \subseteq O(s)
  <2> SUFFICES ASSUME NEW i, Inside(p, i, s)
               PROVE  i \in Openers(p) /\ i < s /\ s <= EndOf(p, i) /\ O(i) \subseteq O(s)
    OBVIOUS
  <2>1. i \in Openers(p) /\ i < s
    BY DEF Inside
  <2> QED
    BY <1>1, <2>1, InsideIsBeforeEnd, Nested
<1>6. \A i \in Openers(p) : EndOf(p, i) \in 1 .. n /\ O(EndOf(p, i) + 1) = O(i)
  BY EndScope
<1>7. O(s+1) \subseteq O(s) \cup {s}
  BY OpenNext
<1> HIDE DEF n, O, sc
<1>8. CASE u = s + 1
  <2>1. u \in 1 .. n + 1
    BY <1>1, <1>8
  <2>2. ASSUME NEW t \in 1 .. n, sc(t) \in O(u), t < u, t # s
        PROVE  t < s /\ sc(t) \in O(s)
    <3>1. t < s
      BY <1>1, <1>8, <2>2
    <3>2. sc(t) # s
      BY <1>1, <1>2, <3>1
    <3> QED
      BY <1>7, <1>8, <2>2, <3>1, <3>2
  <2>3. \A t \in 1 .. n : t < s => t < u
    BY <1>1, <1>8
  <2> QED
    BY <1>7, <1>8, <2>1, <2>2, <2>3 DEF n, O, sc
<1>9. CASE s \in Openers(p) /\ u = EndOf(p, s) + 1
  <2>1. EndOf(p, s) \in 1 .. n /\ O(u) = O(s) /\ s < EndOf(p, s)
    BY <1>6, <1>9, EndIs
  <2>2. u \in 1 .. n + 1 /\ s < u
    BY <1>1, <1>9, <2>1
  <2>3. ASSUME NEW t \in 1 .. n, sc(t) \in O(u), t < u, t # s
        PROVE  t < s
    <3>1. ~(EndOf(p, s) < t)
      BY <1>1, <1>9, <2>1, <2>3
    <3> QED
      BY <1>1, <1>4, <1>9, <2>1, <2>3, <3>1
  <2>4. \A t \in 1 .. n : t < s => t < u
    BY <1>1, <2>2
  <2> QED
    BY <2>1, <2>2, <2>3, <2>4 DEF n, O, sc
<1>10. ASSUME NEW i, Inside(p, i, s), u = i \/ u = EndOf(p, i) + 1
       PROVE  /\ u \in 1 .. n + 1
              /\ O(u) \subseteq O(s) \cup {s}
              /\ \A t \in 1 .. n :
                   sc(t) \in O(u) =>
                     /\ t < u => t = s \/ (t < s /\ sc(t) \in O(s))
                     /\ t < s /\ t \notin Openers(p) => t < u
  <2>1. /\ i \in Openers(p) /\ i \in 1 .. n /\ i < s /\ s <= EndOf(p, i)
        /\ EndOf(p, i) \in 1 .. n /\ O(u) = O(i) /\ O(i) \subseteq O(s)
    BY <1>1, <1>5, <1>6, <1>10
  <2>2. u \in 1 .. n + 1 /\ i <= u
    BY <1>1, <1>10, <2>1
  <2>3. ASSUME NEW t \in 1 .. n, sc(t) \in O(i)
        PROVE  /\ t < u => t < s
               /\ t < s /\ t \notin Openers(p) => t < u
    <3>1. t <= i \/ EndOf(p, i) < t
      BY <1>1, <1>4, <2>1, <2>3
    <3>2. t \notin Openers(p) => t # i
      BY <2>1
    <3>3. CASE u = i
      BY <2>1, <3>1, <3>2, <3>3
    <3>4. CASE u = EndOf(p, i) + 1
      BY <2>1, <3>1, <3>2, <3>4
    <3> QED
      BY <1>10, <3>3, <3>4
  <2> QED
    BY <2>1, <2>2, <2>3
<1> QED
  BY <1>8, <1>9, <1>10 DEF Successor, n, O, sc

-----------------------------------------------------------------------------
(***************************************************************************)
(* Bodies with arms.                                                       *)
(***************************************************************************)

\* A body whose arms are in blocks.
Armed(p) == Balanced(p) /\ \A a \in Arms(p) : Depth(p, a) > 0

\* The scope that is opened at j, by a block or by an arm, is the scope at
\* depth d of those around s.
Encloses(p, j, s, d) ==
  /\ j < s
  /\ \/ j \in Openers(p) /\ Depth(p, j) = d - 1
     \/ j \in Arms(p) /\ Depth(p, j) = d
  /\ \A k \in j+1 .. s : d <= Depth(p, k)
  /\ \A a \in Arms(p) : j < a /\ a < s => d < Depth(p, a)

LEMMA EnclosingScope ==
  ASSUME NEW p, Armed(p), NEW s \in 1 .. Len(p) + 1, NEW d \in 1 .. Depth(p, s)
  PROVE  /\ Encloses(p, ScopeAtDepth(p, s, d), s, d)
         /\ ScopeAtDepth(p, s, d) \in 1 .. Len(p)
         /\ \A j : Encloses(p, j, s, d) => j = ScopeAtDepth(p, s, d)
<1> DEFINE n == Len(p)
           D(k) == Depth(p, k)
           S == {i \in Openers(p) : i < s /\ D(i) = d - 1}
           A == {a \in Arms(p) : a < s /\ D(a) = d}
<1>1. /\ n \in Nat /\ s \in 1 .. n + 1 /\ d \in 1 .. D(s)
      /\ Openers(p) \subseteq 1 .. n /\ Arms(p) \subseteq 1 .. n
      /\ Openers(p) \cap Arms(p) = {}
      /\ \A k \in 1 .. n + 1 : D(k) \in Nat
  <2>1. Balanced(p)
    BY DEF Armed
  <2>2. Arms(p) \subseteq DOMAIN p /\ Openers(p) \cap Arms(p) = {}
    BY DEF Arms, Openers
  <2> QED
    BY <2>1, <2>2, Depths
<1>2. ScopeAtDepth(p, s, d) = LastOf(S \cup A)
  BY <1>1 DEF ScopeAtDepth
<1>3. PICK i \in S : Inside(p, i, s) /\ \A k \in S : k <= i
  BY LastOpener DEF Armed
<1>4. \A k \in i+1 .. s : d <= D(k)
  <2>1. \A k \in i+1 .. s : D(i) < D(k)
    BY <1>3 DEF Inside
  <2> QED
    BY <1>1, <1>3, <2>1
<1> HIDE DEF n, D
<1>5. S \cup A \subseteq 1 .. n /\ i \in S \cup A
  BY <1>1, <1>3
<1>6. PICK j \in S \cup A : \A k \in S \cup A : k <= j
  <2> HIDE DEF S, A
  <2> QED
    BY <1>1, <1>5, GreatestNumber
<1>7. ScopeAtDepth(p, s, d) = j
  <2>1. S \cup A \subseteq Int
    BY <1>1, <1>5
  <2> HIDE DEF S, A
  <2> QED
    BY <1>2, <1>6, <2>1, LastIs
<1>8. /\ i <= j /\ j < s /\ i \in 1 .. n /\ j \in 1 .. n
      /\ \A a \in A : a <= j
  BY <1>1, <1>5, <1>6
<1>9. Encloses(p, j, s, d)
  <2>1. \A k \in j+1 .. s : d <= D(k)
    BY <1>1, <1>4, <1>8
  <2>2. \A a \in Arms(p) : j < a /\ a < s => d < D(a)
    <3> SUFFICES ASSUME NEW a \in Arms(p), j < a, a < s
                 PROVE  d < D(a)
      OBVIOUS
    <3>1. a \in 1 .. n /\ a \in j+1 .. s /\ a \in 1 .. n + 1
      BY <1>1, <1>8
    <3>2. D(a) \in Nat /\ d <= D(a) /\ a \notin A
      BY <1>1, <1>8, <2>1, <3>1
    <3> QED
      BY <1>1, <3>2
  <2> QED
    BY <1>8, <2>1, <2>2 DEF Encloses, D
<1>10. ASSUME NEW k, Encloses(p, k, s, d)
       PROVE  k = j
  <2>1. /\ k \in S \cup A /\ \A l \in k+1 .. s : d <= D(l)
        /\ \A a \in Arms(p) : k < a /\ a < s => d < D(a)
    BY <1>10 DEF Encloses, D
  <2>2. k <= j /\ k \in 1 .. n
    BY <1>5, <1>6, <2>1
  <2>3. CASE j \in S
    <3>1. ~(d <= D(j)) /\ j \in 1 .. s
      BY <1>1, <1>8, <2>3
    <3> QED
      BY <1>1, <1>8, <2>1, <2>2, <3>1
  <2>4. CASE j \in A
    <3>1. ~(d < D(j)) /\ j \in Arms(p) /\ j < s
      BY <1>1, <2>4
    <3>2. ~(k < j)
      BY <2>1, <3>1
    <3> QED
      BY <1>1, <1>8, <2>2, <3>2
  <2> QED
    BY <1>6, <2>3, <2>4
<1> QED
  BY <1>7, <1>8, <1>9, <1>10 DEF n

\* No block or arm that holds t ends between t and s.
Seen(p, t, s) ==
  /\ t < s
  /\ \A k \in t .. s : Depth(p, t) <= Depth(p, k)
  /\ \A a \in Arms(p) : t < a /\ a < s => Depth(p, t) < Depth(p, a)

\* That is when the scope of t is still open at s.
LEMMA InScopeIs ==
  ASSUME NEW p, Armed(p), NEW t \in 1 .. Len(p), t \notin Arms(p),
         NEW s \in 1 .. Len(p) + 1, t < s
  PROVE  ScopeOf(p, t) \in OpenScopes(p, s) <=> Seen(p, t, s)
<1> DEFINE n == Len(p)
           D(k) == Depth(p, k)
           j == ScopeOf(p, t)
<1>1. /\ n \in Nat /\ s \in 1 .. n + 1 /\ t \in 1 .. n /\ t \in 1 .. n + 1
      /\ Arms(p) \subseteq 1 .. n
      /\ \A k \in 1 .. n + 1 : D(k) \in Nat
      /\ \A a \in Arms(p) : D(a) > 0
  <2>1. Balanced(p) /\ \A a \in Arms(p) : D(a) > 0
    BY DEF Armed
  <2>2. Arms(p) \subseteq DOMAIN p
    BY DEF Arms
  <2>3. Len(p) \in Nat /\ DOMAIN p = 1 .. Len(p) /\ \A k \in 1 .. Len(p) + 1 : Depth(p, k) \in Nat
    BY <2>1, Depths
  <2> QED
    BY <2>1, <2>2, <2>3
<1>2. /\ D(t) = 0 => j = 0
      /\ D(t) > 0 => Encloses(p, j, t, D(t)) /\ j \in 1 .. n
  <2>1. D(t) = 0 => j = 0
    BY DEF ScopeOf, ScopeAtDepth
  <2>2. ASSUME D(t) > 0
        PROVE  Encloses(p, j, t, D(t)) /\ j \in 1 .. n
    <3>1. D(t) \in 1 .. D(t)
      BY <1>1, <2>2
    <3> QED
      BY <1>1, <3>1, EnclosingScope DEF ScopeOf
  <2> QED
    BY <2>1, <2>2
<1>3. \A i \in OpenScopes(p, s) : i = 0 \/ \E d \in 1 .. D(s) : i = ScopeAtDepth(p, s, d)
  <2>1. ASSUME NEW i \in OpenScopes(p, s), i # 0
        PROVE  \E d \in 1 .. D(s) : i = ScopeAtDepth(p, s, d)
    <3>1. PICK d \in 0 .. D(s) : i = ScopeAtDepth(p, s, d)
      BY DEF OpenScopes
    <3>2. d # 0
      BY <2>1, <3>1 DEF ScopeAtDepth
    <3> QED
      BY <1>1, <3>1, <3>2
  <2> QED
    BY <2>1
<1>4. 0 \in OpenScopes(p, s)
  <2>1. 0 \in 0 .. D(s) /\ ScopeAtDepth(p, s, 0) = 0
    BY <1>1 DEF ScopeAtDepth
  <2> QED
    BY <2>1 DEF OpenScopes
<1>5. \A d \in 1 .. D(s) : ScopeAtDepth(p, s, d) \in OpenScopes(p, s)
  BY <1>1 DEF OpenScopes
<1> HIDE DEF n, D, j
<1>6. ASSUME j \in OpenScopes(p, s), D(t) > 0
      PROVE  Seen(p, t, s)
  <2>1. Encloses(p, j, t, D(t)) /\ j \in 1 .. n
    BY <1>2, <1>6
  <2>2. PICK d \in 1 .. D(s) : j = ScopeAtDepth(p, s, d)
    BY <1>3, <1>6, <2>1, <1>1
  <2>3. Encloses(p, j, s, d)
    BY <1>1, <2>2, EnclosingScope DEF n, D
  <2>4. d = D(t)
    <3>1. \/ j \in Openers(p) /\ D(j) = d - 1 /\ D(j) = D(t) - 1
          \/ j \in Arms(p) /\ D(j) = d /\ D(j) = D(t)
      <4>1. Openers(p) \cap Arms(p) = {}
        BY DEF Openers, Arms
      <4> QED
        BY <2>1, <2>3, <4>1 DEF Encloses, D
    <3> QED
      BY <1>1, <3>1
  <2>5. /\ j < t
        /\ \A k \in j+1 .. s : d <= D(k)
        /\ \A a \in Arms(p) : j < a /\ a < s => d < D(a)
    BY <2>1, <2>3 DEF Encloses, D
  <2>6. \A k \in t .. s : D(t) <= D(k)
    BY <1>1, <2>1, <2>4, <2>5
  <2>7. \A a \in Arms(p) : t < a /\ a < s => D(t) < D(a)
    BY <1>1, <2>1, <2>4, <2>5
  <2> QED
    BY <2>6, <2>7 DEF Seen, D
<1>7. ASSUME Seen(p, t, s), D(t) > 0
      PROVE  j \in OpenScopes(p, s)
  <2>1. /\ \A k \in t .. s : D(t) <= D(k)
        /\ \A a \in Arms(p) : t < a /\ a < s => D(t) < D(a)
    BY <1>7 DEF Seen, D
  <2>2. /\ j < t /\ j \in 1 .. n
        /\ (j \in Openers(p) /\ D(j) = D(t) - 1) \/ (j \in Arms(p) /\ D(j) = D(t))
        /\ \A k \in j+1 .. t : D(t) <= D(k)
        /\ \A a \in Arms(p) : j < a /\ a < t => D(t) < D(a)
    BY <1>2, <1>7 DEF Encloses, D
  <2>3. j < s /\ \A k \in j+1 .. s : D(t) <= D(k)
    <3>1. \A k \in j+1 .. s : k \in j+1 .. t \/ k \in t .. s
      BY <1>1, <2>2
    <3> QED
      BY <1>1, <2>1, <2>2, <3>1
  <2>4. \A a \in Arms(p) : j < a /\ a < s => D(t) < D(a)
    <3>1. \A a \in Arms(p) : a \in 1 .. n /\ a # t
      BY <1>1
    <3>2. \A a \in 1 .. n : a # t => a < t \/ t < a
      BY <1>1
    <3> QED
      BY <2>1, <2>2, <3>1, <3>2
  <2>5. Encloses(p, j, s, D(t))
    BY <2>2, <2>3, <2>4 DEF Encloses, D
  <2>6. D(t) \in 1 .. D(s)
    BY <1>1, <1>7, <2>1
  <2>7. j = ScopeAtDepth(p, s, D(t))
    BY <1>1, <2>5, <2>6, EnclosingScope DEF n, D
  <2> QED
    BY <1>5, <2>6, <2>7
<1>8. ASSUME D(t) = 0
      PROVE  j \in OpenScopes(p, s) /\ Seen(p, t, s)
  <2>1. j \in OpenScopes(p, s)
    BY <1>2, <1>4, <1>8
  <2>2. \A k \in t .. s : D(t) <= D(k)
    BY <1>1, <1>8
  <2>3. \A a \in Arms(p) : D(t) < D(a)
    BY <1>1, <1>8
  <2> QED
    BY <2>1, <2>2, <2>3 DEF Seen, D
<1>9. D(t) \in Nat
  BY <1>1
<1> QED
  BY <1>6, <1>7, <1>8, <1>9 DEF j

\* The block that is open at s and deeper than all others around s.
LEMMA OpenerIs ==
  ASSUME NEW p, Balanced(p), NEW s \in 1 .. Len(p), Depth(p, s) > 0
  PROVE  /\ Inside(p, OpenerOf(p, s), s)
         /\ Depth(p, s) = Depth(p, OpenerOf(p, s)) + 1
         /\ \A i : Inside(p, i, s) /\ Depth(p, s) = Depth(p, i) + 1 => i = OpenerOf(p, s)
<1> DEFINE d == Depth(p, s)
<1>1. /\ s \in 1 .. Len(p) + 1 /\ d \in Nat /\ d \in 1 .. d
      /\ Openers(p) \subseteq 1 .. Len(p) + 1
      /\ \A i \in Openers(p) : Depth(p, i) \in Nat
  <2>1. s \in 1 .. Len(p) + 1 /\ Openers(p) \subseteq 1 .. Len(p) + 1
    BY Depths
  <2>2. d \in Nat /\ \A i \in Openers(p) : Depth(p, i) \in Nat
    BY <2>1, Depths
  <2> QED
    BY <2>1, <2>2
<1>2. OpenerOf(p, s) = LastOf({i \in Openers(p) : i < s /\ Depth(p, i) = d - 1})
  BY DEF OpenerOf
<1> HIDE DEF d
<1>3. /\ OpenerOf(p, s) \in Openers(p) /\ Inside(p, OpenerOf(p, s), s)
      /\ Depth(p, OpenerOf(p, s)) = d - 1
      /\ \A i : Inside(p, i, s) /\ Depth(p, i) = d - 1 => i = OpenerOf(p, s)
  BY <1>1, <1>2, LastOpener DEF d
<1>4. \A i \in Openers(p) : d = Depth(p, i) + 1 <=> Depth(p, i) = d - 1
  BY <1>1
<1> QED
  BY <1>3, <1>4 DEF d, Inside

LEMMA EndCloses ==
  ASSUME NEW p, Balanced(p), NEW s \in Ends(p)
  PROVE  /\ s \in 1 .. Len(p) /\ OpenerOf(p, s) \in Openers(p)
         /\ EndOf(p, OpenerOf(p, s)) = s
<1> DEFINE i == OpenerOf(p, s)
<1>1. /\ Len(p) \in Nat /\ s \in 1 .. Len(p) /\ s \in 1 .. Len(p) + 1 /\ s + 1 \in 1 .. Len(p) + 1
      /\ Ends(p) \subseteq 1 .. Len(p) /\ Openers(p) \subseteq 1 .. Len(p)
  BY Depths
<1>2. Depth(p, s) > 0 /\ Depth(p, s+1) = Depth(p, s) - 1
  <2>1. Depth(p, s) \in Nat /\ Depth(p, s+1) \in Nat /\ Depth(p, s+1) = Depth(p, s) - 1
    BY <1>1, Depths
  <2> QED
    BY <2>1
<1>3. Inside(p, i, s) /\ Depth(p, s) = Depth(p, i) + 1
  BY <1>1, <1>2, OpenerIs
<1>4. i \in Openers(p) /\ i < s /\ s <= EndOf(p, i) /\ EndOf(p, i) \in 1 .. Len(p)
  BY <1>1, <1>3, BlockSpan, BlockEnd DEF Inside
<1>5. ~(s + 1 <= EndOf(p, i))
  <2>1. i \in 1 .. Len(p) + 1 /\ Depth(p, i) \in Nat
    BY <1>1, <1>4, Depths
  <2>2. Depth(p, s+1) = Depth(p, i) /\ s + 1 \in i+1 .. s+1
    BY <1>1, <1>2, <1>3, <1>4, <2>1
  <2>3. ~Inside(p, i, s+1)
    BY <2>1, <2>2 DEF Inside
  <2> HIDE DEF i
  <2>4. i < s + 1
    BY <1>1, <1>4, <2>1
  <2> QED
    BY <1>1, <1>4, <2>3, <2>4, BlockSpan
<1> HIDE DEF i
<1>6. s = EndOf(p, i)
  BY <1>1, <1>4, <1>5
<1> QED
  BY <1>1, <1>4, <1>6 DEF i

LEMMA ArmIs ==
  ASSUME NEW p, Armed(p)
  PROVE  /\ \A a \in Arms(p) : OpenerOf(p, a) \in Openers(p) /\ a \in ArmsOf(p, OpenerOf(p, a))
         /\ \A i \in Openers(p) : \A a \in ArmsOf(p, i) :
              /\ a \in Arms(p) /\ i = OpenerOf(p, a) /\ i < a /\ a + 1 <= EndOf(p, i)
              /\ Depth(p, a) = Depth(p, i) + 1
<1> DEFINE n == Len(p)
<1>1. /\ Balanced(p) /\ n \in Nat /\ Ends(p) \subseteq 1 .. n /\ Openers(p) \subseteq 1 .. n
      /\ Arms(p) \subseteq 1 .. n /\ Arms(p) \cap Ends(p) = {}
      /\ \A k \in 1 .. n : Depth(p, k) \in Nat
  <2>1. Balanced(p)
    BY DEF Armed
  <2>2. Arms(p) \subseteq DOMAIN p /\ Arms(p) \cap Ends(p) = {}
    BY DEF Arms, Ends
  <2>3. \A k \in 1 .. n : k \in 1 .. n + 1
    BY <2>1, Depths
  <2> QED
    BY <2>1, <2>2, <2>3, Depths
<1>2. \A i \in Openers(p) : EndOf(p, i) \in 1 .. n
  BY <1>1, BlockEnd
<1>3. ASSUME NEW a \in Arms(p)
      PROVE  OpenerOf(p, a) \in Openers(p) /\ a \in ArmsOf(p, OpenerOf(p, a))
  <2> DEFINE i == OpenerOf(p, a)
  <2>1. Inside(p, i, a) /\ Depth(p, a) = Depth(p, i) + 1
    BY <1>1, OpenerIs DEF Armed
  <2>2. a \in 1 .. n /\ a \in 1 .. n + 1
    BY <1>1
  <2>3. i \in Openers(p) /\ i < a /\ a <= EndOf(p, i)
    BY <1>1, <2>1, <2>2, BlockSpan DEF Inside
  <2>4. a # EndOf(p, i)
    BY <1>1, <2>3, BlockEnd
  <2>5. a < EndOf(p, i)
    BY <1>2, <2>2, <2>3, <2>4
  <2> QED
    BY <2>1, <2>3, <2>5 DEF ArmsOf
<1>4. ASSUME NEW i \in Openers(p), NEW a \in ArmsOf(p, i)
      PROVE  /\ a \in Arms(p) /\ i = OpenerOf(p, a) /\ i < a /\ a + 1 <= EndOf(p, i)
             /\ Depth(p, a) = Depth(p, i) + 1
  <2>1. a \in Arms(p) /\ i < a /\ a < EndOf(p, i) /\ Depth(p, a) = Depth(p, i) + 1
    BY DEF ArmsOf
  <2>2. /\ a \in 1 .. n /\ a \in 1 .. n + 1 /\ a + 1 <= EndOf(p, i) /\ a <= EndOf(p, i)
        /\ Depth(p, a) > 0
    BY <1>1, <1>2, <2>1
  <2>3. Inside(p, i, a)
    BY <1>1, <2>1, <2>2, BlockSpan
  <2> QED
    BY <1>1, <2>1, <2>2, <2>3, OpenerIs
<1> QED
  BY <1>3, <1>4

\* How what is seen changes with the statement.
LEMMA SeenFlow ==
  ASSUME NEW p, Armed(p), NEW t \in 1 .. Len(p)
  PROVE  /\ \A s \in 1 .. Len(p) : s \notin Openers(p) \cup Ends(p) \cup Arms(p) =>
              (Seen(p, t, s+1) <=> t = s \/ Seen(p, t, s))
         /\ \A s \in 1 .. Len(p) + 1, u \in 1 .. Len(p) + 1 :
              Seen(p, t, s) /\ t < u /\ u <= s => Seen(p, t, u)
         /\ \A i \in Openers(p) :
              /\ \A s \in i .. EndOf(p, i) + 1 : Seen(p, t, i) => Seen(p, t, s)
              /\ Seen(p, t, i+1) => t = i \/ Seen(p, t, i)
              /\ Seen(p, t, EndOf(p, i) + 1) => t = i \/ Seen(p, t, i)
              /\ \A a \in ArmsOf(p, i) : Seen(p, t, a+1) => t \in {i, a} \/ Seen(p, t, i)
<1> DEFINE n == Len(p)
           D(k) == Depth(p, k)
<1>1. /\ Balanced(p) /\ n \in Nat /\ Openers(p) \subseteq 1 .. n /\ Arms(p) \subseteq 1 .. n
      /\ Ends(p) \subseteq 1 .. n /\ t \in 1 .. n
      /\ \A k \in 1 .. n + 1 : D(k) \in Nat
      /\ \A k \in 1 .. n : k \notin Openers(p) \cup Ends(p) => D(k+1) = D(k)
      /\ \A i \in Openers(p) : i \notin Arms(p)
  <2>1. Balanced(p)
    BY DEF Armed
  <2>2. Arms(p) \subseteq DOMAIN p /\ \A i \in Openers(p) : i \notin Arms(p)
    BY DEF Arms, Openers
  <2> QED
    BY <2>1, <2>2, Depths
<1>2. \A i \in Openers(p) :
        /\ EndOf(p, i) \in 1 .. n /\ i < EndOf(p, i) /\ D(EndOf(p, i) + 1) = D(i)
        /\ \A k \in i+1 .. EndOf(p, i) : D(i) < D(k)
  BY <1>1, BlockEnd
<1>3. \A u : Seen(p, t, u) <=>
        /\ t < u /\ \A k \in t .. u : D(t) <= D(k)
        /\ \A a \in Arms(p) : t < a /\ a < u => D(t) < D(a)
  BY DEF Seen
<1>4. \A i \in Openers(p) : \A a \in ArmsOf(p, i) :
        a \in Arms(p) /\ i < a /\ a + 1 <= EndOf(p, i) /\ D(a) = D(i) + 1
  BY ArmIs
<1> HIDE DEF n, D
<1>5. ASSUME NEW s \in 1 .. n + 1, NEW u \in 1 .. n + 1, Seen(p, t, s), t < u, u <= s
      PROVE  Seen(p, t, u)
  <2>1. \A k \in t .. u : k \in t .. s
    BY <1>1, <1>5
  <2>2. \A a \in Arms(p) : t < a /\ a < u => a < s
    BY <1>1, <1>5
  <2> QED
    BY <1>3, <1>5, <2>1, <2>2
<1>6. ASSUME NEW s \in 1 .. n, s \notin Openers(p) \cup Ends(p) \cup Arms(p)
      PROVE  Seen(p, t, s+1) <=> t = s \/ Seen(p, t, s)
  <2>1. D(s+1) = D(s) /\ D(s) \in Nat /\ s + 1 \in 1 .. n + 1 /\ s \in 1 .. n + 1 /\ s < s + 1
    BY <1>1, <1>6
  <2>2. ASSUME t = s
        PROVE  Seen(p, t, s+1)
    <3>1. \A k \in t .. s+1 : D(t) <= D(k)
      BY <2>1, <2>2
    <3>2. \A a \in Arms(p) : ~(t < a /\ a < s+1)
      BY <1>1, <2>2
    <3> QED
      BY <1>3, <2>1, <2>2, <3>1, <3>2
  <2>3. ASSUME Seen(p, t, s)
        PROVE  Seen(p, t, s+1)
    <3>1. t < s /\ t < s + 1 /\ D(t) <= D(s)
      BY <1>1, <1>3, <2>3
    <3>2. \A k \in t .. s+1 : D(t) <= D(k)
      <4>1. \A k \in t .. s+1 : k \in t .. s \/ k = s + 1
        BY <1>1
      <4> QED
        BY <1>3, <2>1, <2>3, <3>1, <4>1
    <3>3. \A a \in Arms(p) : t < a /\ a < s+1 => D(t) < D(a)
      <4>1. \A a \in Arms(p) : a < s+1 => a < s
        BY <1>1, <1>6
      <4> QED
        BY <1>3, <2>3, <4>1
    <3> QED
      BY <1>3, <3>1, <3>2, <3>3
  <2>4. ASSUME Seen(p, t, s+1), t # s
        PROVE  Seen(p, t, s)
    <3>1. t < s /\ s <= s + 1
      BY <1>1, <1>3, <2>4
    <3> QED
      BY <1>5, <2>1, <2>4, <3>1
  <2> QED
    BY <2>2, <2>3, <2>4
<1>7. ASSUME NEW i \in Openers(p), NEW s \in i .. EndOf(p, i) + 1, Seen(p, t, i)
      PROVE  Seen(p, t, s)
  <2>1. /\ t < i /\ D(t) <= D(i) /\ i \in 1 .. n /\ s \in 1 .. n + 1
        /\ EndOf(p, i) \in 1 .. n
        /\ D(t) \in Nat /\ D(i) \in Nat
    BY <1>1, <1>2, <1>3, <1>7
  <2>2. \A k \in i .. s : D(i) <= D(k)
    <3>1. \A k \in i .. s : k = i \/ k \in i+1 .. EndOf(p, i) \/ k = EndOf(p, i) + 1
      BY <2>1
    <3>2. \A k \in i+1 .. EndOf(p, i) : D(k) \in Nat
      BY <1>1, <2>1
    <3> QED
      BY <1>2, <2>1, <3>1, <3>2
  <2>3. \A k \in t .. s : D(t) <= D(k)
    <3>1. \A k \in t .. s : (k \in t .. i \/ k \in i .. s) /\ k \in 1 .. n + 1
      BY <1>1, <2>1
    <3> QED
      BY <1>1, <1>3, <1>7, <2>1, <2>2, <3>1
  <2>4. \A a \in Arms(p) : t < a /\ a < s => D(t) < D(a)
    <3> SUFFICES ASSUME NEW a \in Arms(p), t < a, a < s
                 PROVE  D(t) < D(a)
      OBVIOUS
    <3>1. a \in 1 .. n /\ a # i /\ a \in 1 .. n + 1 /\ D(a) \in Nat
      BY <1>1
    <3>2. CASE a < i
      BY <1>3, <1>7, <3>2
    <3>3. CASE i < a
      <4>1. a \in i+1 .. EndOf(p, i)
        BY <2>1, <3>1, <3>3
      <4>2. D(i) < D(a)
        BY <1>2, <4>1
      <4> QED
        BY <2>1, <3>1, <4>2
    <3> QED
      BY <2>1, <3>1, <3>2, <3>3
  <2> QED
    BY <1>1, <1>3, <2>1, <2>3, <2>4
<1>8. ASSUME NEW i \in Openers(p)
      PROVE  /\ Seen(p, t, i+1) => t = i \/ Seen(p, t, i)
             /\ Seen(p, t, EndOf(p, i) + 1) => t = i \/ Seen(p, t, i)
             /\ \A a \in ArmsOf(p, i) : Seen(p, t, a+1) => t \in {i, a} \/ Seen(p, t, i)
  <2>1. /\ i \in 1 .. n /\ i \in 1 .. n + 1 /\ D(i) \in Nat
        /\ EndOf(p, i) \in 1 .. n /\ i < EndOf(p, i)
    BY <1>1, <1>2
  <2>2. ASSUME NEW s \in 1 .. n + 1, Seen(p, t, s), t < i, i <= s
        PROVE  Seen(p, t, i)
    BY <1>5, <2>1, <2>2
  <2>3. Seen(p, t, i+1) => t = i \/ Seen(p, t, i)
    <3>1. i + 1 \in 1 .. n + 1 /\ i <= i + 1 /\ (t < i + 1 => t < i \/ t = i)
      BY <1>1, <2>1
    <3> QED
      BY <1>3, <2>2, <3>1
  <2>4. ASSUME Seen(p, t, EndOf(p, i) + 1), t # i
        PROVE  Seen(p, t, i)
    <3>1. t < EndOf(p, i) + 1 /\ D(t) <= D(i)
      BY <1>1, <1>2, <1>3, <2>1, <2>4
    <3>2. t \notin i+1 .. EndOf(p, i)
      <4>1. D(t) \in Nat
        BY <1>1
      <4> QED
        BY <1>2, <2>1, <3>1, <4>1
    <3> QED
      BY <1>1, <2>1, <2>2, <2>4, <3>1, <3>2
  <2>5. ASSUME NEW a \in ArmsOf(p, i), Seen(p, t, a+1), t \notin {i, a}
        PROVE  Seen(p, t, i)
    <3>1. /\ a \in Arms(p) /\ a \in 1 .. n /\ i < a /\ a + 1 <= EndOf(p, i) /\ D(a) = D(i) + 1
          /\ D(t) \in Nat
      BY <1>1, <1>4, <2>5
    <3>2. t < a + 1 /\ t < a /\ a < a + 1
      BY <1>1, <1>3, <2>5, <3>1
    <3>3. D(t) < D(i) + 1
      BY <1>3, <2>5, <3>1, <3>2
    <3>4. t \notin i+1 .. EndOf(p, i)
      BY <1>2, <2>1, <3>1, <3>3
    <3> QED
      BY <1>1, <2>1, <2>2, <2>5, <3>1, <3>2, <3>4
  <2> QED
    BY <2>3, <2>4, <2>5
<1> QED
  BY <1>5, <1>6, <1>7, <1>8 DEF n

\* How the blocks around a statement change.
LEMMA InsideFlow ==
  ASSUME NEW p, Armed(p), NEW j
  PROVE  /\ \A s \in 1 .. Len(p) : Inside(p, j, s+1) => j = s \/ Inside(p, j, s)
         /\ \A i \in Openers(p) :
              /\ Inside(p, j, EndOf(p, i) + 1) => Inside(p, j, i)
              /\ \A a \in ArmsOf(p, i) : Inside(p, j, a+1) => j = i \/ Inside(p, j, i)
              /\ \A s \in 1 .. Len(p) + 1 : Inside(p, j, i) /\ Inside(p, i, s) => Inside(p, j, s)
<1> DEFINE n == Len(p)
           D(k) == Depth(p, k)
<1>1. /\ Balanced(p) /\ n \in Nat /\ Openers(p) \subseteq 1 .. n /\ Arms(p) \subseteq 1 .. n
      /\ \A k \in 1 .. n + 1 : D(k) \in Nat
      /\ \A a \in Arms(p) : a \notin Openers(p)
  <2>1. Balanced(p)
    BY DEF Armed
  <2>2. Arms(p) \subseteq DOMAIN p /\ \A a \in Arms(p) : a \notin Openers(p)
    BY DEF Arms, Openers
  <2> QED
    BY <2>1, <2>2, Depths
<1>2. \A i \in Openers(p) :
        /\ EndOf(p, i) \in 1 .. n /\ i < EndOf(p, i) /\ D(EndOf(p, i) + 1) = D(i)
        /\ EndOf(p, i) \notin Openers(p)
        /\ \A k \in i+1 .. EndOf(p, i) : D(i) < D(k)
  <2>1. \A e \in Ends(p) : e \notin Openers(p)
    BY DEF Ends, Openers
  <2> QED
    BY <1>1, <2>1, BlockEnd, Depths
<1>3. \A s : Inside(p, j, s) <=>
        j \in Openers(p) /\ j < s /\ \A k \in j+1 .. s : D(j) < D(k)
  BY DEF Inside
<1>4. \A i \in Openers(p) : \A a \in ArmsOf(p, i) :
        a \in Arms(p) /\ i < a /\ a + 1 <= EndOf(p, i) /\ D(a) = D(i) + 1
  BY ArmIs
<1>5. \A i, s : Inside(p, i, s) => i < s /\ \A k \in i+1 .. s : D(i) < D(k)
  BY DEF Inside
<1> HIDE DEF n, D
<1>6. ASSUME NEW s \in 1 .. n + 1, NEW u \in 1 .. n + 1, Inside(p, j, s), j < u, u <= s
      PROVE  Inside(p, j, u)
  <2>1. \A k \in j+1 .. u : k \in j+1 .. s
    BY <1>1, <1>6
  <2> QED
    BY <1>3, <1>6, <2>1
<1>7. ASSUME NEW s \in 1 .. n, Inside(p, j, s+1), j # s
      PROVE  Inside(p, j, s)
  <2>1. /\ j \in 1 .. n /\ j < s + 1 /\ s \in 1 .. n + 1 /\ s + 1 \in 1 .. n + 1
        /\ s <= s + 1
    BY <1>1, <1>3, <1>7
  <2>2. j < s
    BY <1>7, <2>1
  <2> QED
    BY <1>6, <1>7, <2>1, <2>2
<1>8. ASSUME NEW i \in Openers(p)
      PROVE  /\ Inside(p, j, EndOf(p, i) + 1) => Inside(p, j, i)
             /\ \A a \in ArmsOf(p, i) : Inside(p, j, a+1) => j = i \/ Inside(p, j, i)
             /\ \A s \in 1 .. n + 1 : Inside(p, j, i) /\ Inside(p, i, s) => Inside(p, j, s)
  <2>1. i \in 1 .. n /\ i \in 1 .. n + 1 /\ D(i) \in Nat /\ EndOf(p, i) \in 1 .. n /\ i < EndOf(p, i)
    BY <1>1, <1>2
  <2>2. ASSUME Inside(p, j, EndOf(p, i) + 1)
        PROVE  Inside(p, j, i)
    <3>1. /\ j \in 1 .. n /\ j < EndOf(p, i) + 1 /\ D(j) \in Nat
          /\ EndOf(p, i) + 1 \in 1 .. n + 1 /\ EndOf(p, i) + 1 \in j+1 .. EndOf(p, i) + 1
          /\ i <= EndOf(p, i) + 1
      BY <1>1, <1>3, <2>1, <2>2
    <3>2. D(j) < D(i)
      BY <1>2, <1>3, <2>2, <3>1
    <3>3. j \notin i+1 .. EndOf(p, i) /\ j # i
      BY <1>2, <2>1, <3>1, <3>2
    <3>4. j < i
      BY <2>1, <3>1, <3>3
    <3> QED
      BY <1>6, <2>1, <2>2, <3>1, <3>4
  <2>3. ASSUME NEW a \in ArmsOf(p, i), Inside(p, j, a+1), j # i
        PROVE  Inside(p, j, i)
    <3>1. /\ a \in 1 .. n /\ a \in Arms(p) /\ i < a /\ a + 1 <= EndOf(p, i) /\ D(a) = D(i) + 1
          /\ a + 1 \in 1 .. n + 1
      BY <1>1, <1>4, <2>1, <2>3
    <3>2. /\ j \in Openers(p) /\ j \in 1 .. n /\ j < a + 1 /\ D(j) \in Nat
          /\ \A k \in j+1 .. a+1 : D(j) < D(k)
      BY <1>1, <1>3, <2>3
    <3>3. j # a /\ j < a /\ a \in j+1 .. a+1
      BY <1>1, <3>1, <3>2
    <3>4. D(j) < D(i) + 1
      BY <3>1, <3>2, <3>3
    <3>5. j \notin i+1 .. EndOf(p, i)
      BY <1>2, <2>1, <3>2, <3>4
    <3>6. j < i /\ i <= a + 1
      BY <2>1, <2>3, <3>1, <3>2, <3>3, <3>5
    <3> QED
      BY <1>6, <2>1, <2>3, <3>1, <3>6
  <2>4. ASSUME NEW s \in 1 .. n + 1, Inside(p, j, i), Inside(p, i, s)
        PROVE  Inside(p, j, s)
    <3>1. /\ j \in Openers(p) /\ j \in 1 .. n /\ j < i /\ D(j) \in Nat
          /\ \A k \in j+1 .. i : D(j) < D(k)
      BY <1>1, <1>3, <2>4
    <3>2. i < s /\ \A k \in i+1 .. s : D(i) < D(k)
      BY <1>5, <2>4
    <3>3. D(j) < D(i) /\ j < s
      BY <2>1, <3>1, <3>2
    <3>4. \A k \in j+1 .. s : D(j) < D(k)
      <4>1. \A k \in j+1 .. s : (k \in j+1 .. i \/ k \in i+1 .. s) /\ k \in 1 .. n + 1
        BY <1>1, <2>1, <3>1
      <4> QED
        BY <1>1, <2>1, <3>1, <3>2, <3>3, <4>1
    <3> QED
      BY <1>3, <3>1, <3>3, <3>4
  <2> QED
    BY <2>2, <2>3, <2>4
<1> QED
  BY <1>7, <1>8 DEF n

\* A block is inside another one or next to it.
LEMMA SpanFlow ==
  ASSUME NEW p, Armed(p), NEW i \in Openers(p), NEW j \in Openers(p)
  PROVE  /\ j < i /\ i <= EndOf(p, j) => EndOf(p, i) + 1 <= EndOf(p, j)
         /\ \A s \in {EndOf(p, i)} \cup ArmsOf(p, i) :
              j < s /\ s <= EndOf(p, j) /\ j # i => j < i /\ i <= EndOf(p, j)
<1> DEFINE n == Len(p)
           D(k) == Depth(p, k)
           E(k) == EndOf(p, k)
<1>1. /\ Balanced(p) /\ n \in Nat /\ Openers(p) \subseteq 1 .. n
      /\ \A k \in 1 .. n + 1 : D(k) \in Nat
  <2>1. Balanced(p)
    BY DEF Armed
  <2> QED
    BY <2>1, Depths
<1>2. \A k \in Openers(p) :
        /\ E(k) \in 1 .. n /\ k < E(k) /\ D(E(k)) = D(k) + 1 /\ D(E(k) + 1) = D(k)
        /\ \A l \in k+1 .. E(k) : D(k) < D(l)
  BY <1>1, BlockEnd, Depths
<1>3. \A k \in Openers(p) : \A s \in 1 .. n + 1 : Inside(p, k, s) <=> k < s /\ s <= E(k)
  BY <1>1, BlockSpan
<1>4. \A s : Inside(p, j, s) <=> j < s /\ \A k \in j+1 .. s : D(j) < D(k)
  BY DEF Inside
<1>5. \A a \in ArmsOf(p, i) : a \in 1 .. n /\ i < a /\ a <= E(i) /\ D(a) = D(i) + 1
  <2>1. \A a \in ArmsOf(p, i) : a \in DOMAIN p
    BY DEF ArmsOf, Arms
  <2> QED
    BY <1>1, <1>2, <2>1, ArmIs, Depths
<1>6. /\ i \in 1 .. n /\ i \in 1 .. n + 1 /\ j \in 1 .. n /\ j \in 1 .. n + 1
      /\ E(i) \in 1 .. n /\ E(j) \in 1 .. n /\ E(i) + 1 \in 1 .. n + 1 /\ i < E(i)
      /\ D(i) \in Nat /\ D(j) \in Nat
  BY <1>1, <1>2
<1> HIDE DEF n, D, E
<1>7. ASSUME j < i, i <= E(j)
      PROVE  E(i) + 1 <= E(j)
  <2>1. \A k \in j+1 .. i : D(j) < D(k)
    BY <1>3, <1>4, <1>6, <1>7
  <2>2. D(j) < D(i)
    BY <1>6, <1>7, <2>1
  <2>3. ASSUME NEW k \in j+1 .. E(i) + 1
        PROVE  D(j) < D(k)
    <3>1. k \in j+1 .. i \/ k \in i+1 .. E(i) \/ k = E(i) + 1
      BY <1>6, <1>7
    <3>2. k \in 1 .. n + 1 /\ D(k) \in Nat
      <4>1. k \in 1 .. n + 1
        BY <1>1, <1>6
      <4> QED
        BY <1>1, <4>1
    <3> QED
      BY <1>2, <1>6, <2>1, <2>2, <3>1, <3>2
  <2>4. j < E(i) + 1
    BY <1>6, <1>7
  <2> QED
    BY <1>3, <1>4, <1>6, <2>3, <2>4
<1>8. ASSUME NEW s \in {E(i)} \cup ArmsOf(p, i), j < s, s <= E(j), j # i
      PROVE  j < i /\ i <= E(j)
  <2>1. s \in 1 .. n /\ s \in 1 .. n + 1 /\ i < s /\ s <= E(i) /\ D(s) = D(i) + 1
    <3>1. s = E(i) \/ s \in ArmsOf(p, i)
      BY <1>8
    <3>2. CASE s = E(i)
      BY <1>1, <1>2, <1>6, <3>2
    <3>3. CASE s \in ArmsOf(p, i)
      BY <1>1, <1>5, <3>3
    <3> QED
      BY <3>1, <3>2, <3>3
  <2>2. \A k \in j+1 .. s : D(j) < D(k)
    BY <1>3, <1>4, <1>8, <2>1
  <2>3. D(j) < D(i) + 1
    BY <1>6, <1>8, <2>1, <2>2
  <2>4. j \notin i+1 .. E(i)
    BY <1>2, <1>6, <2>3
  <2> QED
    BY <1>6, <1>8, <2>1, <2>4
<1> QED
  BY <1>7, <1>8 DEF E
=============================================================================
