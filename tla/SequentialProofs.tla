-------------------------- MODULE SequentialProofs --------------------------
(***************************************************************************)
(* The parts that run to their end, proved for every value of the          *)
(* constants.  The containers of the runtime keep their representations in *)
(* order and implement the collections that they stand for, whatever is    *)
(* stored, at any capacity and wherever an allocation fails.  The tokens   *)
(* of any text are the text.  The two evaluators of a condition agree.     *)
(* The string functions answer what they promise.                          *)
(*                                                                         *)
(* Loops of the code are recursive functions in the model: each has a      *)
(* lemma that there is such a function, by induction on its argument, and  *)
(* one that says what it computes.                                         *)
(***************************************************************************)
EXTENDS Sequential, FiniteSetTheorems, FunctionTheorems, SequenceTheorems, NaturalsInduction, WellFoundedInduction, TLAPS

-----------------------------------------------------------------------------
(***************************************************************************)
(* Numbers and recursion.                                                  *)
(***************************************************************************)
LEMMA LeastNatural ==
  ASSUME NEW S, S \subseteq Nat, S # {}
  PROVE  \E i \in S : \A j \in S : i <= j
<1>1. PICK i \in S : \A j \in S : <<j, i>> \notin OpToRel(<, Nat)
  BY NatLessThanWellFounded, WFMin, Zenon
<1>2. \A j \in S : ~(j < i)
  BY <1>1 DEF OpToRel
<1> QED
  BY <1>2

LEMMA GreatestUpTo ==
  ASSUME NEW n \in Nat, NEW S, S \subseteq 0 .. n, S # {}
  PROVE  \E i \in S : \A j \in S : j <= i
<1> DEFINE R == {n - k : k \in S}
<1>1. R \subseteq Nat /\ R # {}
  <2>1. \A k \in S : n - k \in Nat
    OBVIOUS
  <2>2. PICK k \in S : TRUE
    OBVIOUS
  <2>3. n - k \in R
    OBVIOUS
  <2> QED
    BY <2>1, <2>3
<1> HIDE DEF R
<1>2. PICK x \in R : \A y \in R : x <= y
  BY <1>1, LeastNatural
<1>3. PICK i \in S : x = n - i
  BY DEF R
<1>4. \A j \in S : n - j \in R
  BY DEF R
<1>5. \A j \in S : n - i <= n - j
  BY <1>2, <1>3, <1>4
<1> QED
  BY <1>5

\* What CHOOSE makes of Min and Max.
LEMMA MinIs ==
  ASSUME NEW S, S \subseteq Int, NEW i \in S, \A j \in S : i <= j
  PROVE  (CHOOSE x \in S : \A y \in S : x =< y) = i
<1>1. \A k \in S : (\A j \in S : k <= j) => k = i
  OBVIOUS
<1> QED
  BY <1>1

LEMMA MaxIs ==
  ASSUME NEW S, S \subseteq Int, NEW i \in S, \A j \in S : j <= i
  PROVE  (CHOOSE x \in S : \A y \in S : x >= y) = i
<1>1. \A k \in S : (\A j \in S : k >= j) => k = i
  OBVIOUS
<1>2. \A j \in S : i >= j
  OBVIOUS
<1> QED
  BY <1>1, <1>2

\* A loop of n rounds.
Rounds(f, S, a, step, n) ==
  f \in [0 .. n -> S] /\ f[0] = a /\ \A k \in 1 .. n : f[k] = step[f[k - 1]]

LEMMA Iterates ==
  ASSUME NEW S, NEW a \in S, NEW step \in [S -> S], NEW n \in Nat
  PROVE  \E f : Rounds(f, S, a, step, n)
<1> DEFINE Good(m) == \E f \in [0 .. m -> S] : f[0] = a /\ \A k \in 1 .. m : f[k] = step[f[k - 1]]
           Bad == {m \in Nat : ~Good(m)}
<1>1. Good(0)
  <2> DEFINE g == [k \in 0 .. 0 |-> a]
  <2>1. g \in [0 .. 0 -> S] /\ g[0] = a /\ 1 .. 0 = {}
    OBVIOUS
  <2> QED
    BY <2>1
<1>2. ASSUME NEW m \in Nat, Good(m)
      PROVE  Good(m + 1)
  <2>1. PICK f \in [0 .. m -> S] : f[0] = a /\ \A k \in 1 .. m : f[k] = step[f[k - 1]]
    BY <1>2
  <2> DEFINE g == [k \in 0 .. m + 1 |-> IF k = m + 1 THEN step[f[m]] ELSE f[k]]
  <2>2. g \in [0 .. m + 1 -> S] /\ g[0] = a
    BY <2>1
  <2>3. ASSUME NEW k \in 1 .. m + 1
        PROVE  g[k] = step[g[k - 1]]
    <3>1. k - 1 \in 0 .. m /\ g[k - 1] = f[k - 1]
      OBVIOUS
    <3>2. CASE k = m + 1
      BY <3>1, <3>2
    <3>3. CASE k # m + 1
      BY <2>1, <3>1, <3>3
    <3> QED
      BY <3>2, <3>3
  <2> QED
    BY <2>2, <2>3
<1> HIDE DEF Good
<1>3. Bad = {}
  <2> SUFFICES ASSUME Bad # {} PROVE FALSE
    OBVIOUS
  <2>1. PICK m \in Bad : \A j \in Bad : m <= j
    BY LeastNatural
  <2>2. m # 0 /\ m - 1 \in Nat /\ m - 1 \notin Bad
    BY <1>1, <2>1
  <2>3. Good(m - 1) /\ (m - 1) + 1 = m
    BY <2>2
  <2>4. Good((m - 1) + 1)
    BY <1>2, <2>2, <2>3
  <2> QED
    BY <2>3, <2>4
<1>4. Good(n)
  BY <1>3
<1> QED
  BY <1>4 DEF Good, Rounds

-----------------------------------------------------------------------------
(***************************************************************************)
(* The binary search for w in the n words that d begins with.              *)
(***************************************************************************)
Intervals(n) == (0 .. n) \X (0 .. n)

Middle(r) == (r[1] + r[2]) \div 2

Halved(f, d, w, r) ==
  IF r[1] >= r[2] THEN r[1]
  ELSE IF d[Middle(r)] < w THEN f[<<Middle(r) + 1, r[2]>>] ELSE f[<<r[1], Middle(r)>>]

LEMMA Halves ==
  ASSUME NEW n \in Nat, NEW r \in Intervals(n), r[1] < r[2]
  PROVE  /\ Middle(r) \in 0 .. n - 1 /\ r[1] <= Middle(r) /\ Middle(r) < r[2]
         /\ <<Middle(r) + 1, r[2]>> \in Intervals(n) /\ <<r[1], Middle(r)>> \in Intervals(n)
         /\ r[2] - (Middle(r) + 1) < r[2] - r[1] /\ Middle(r) - r[1] < r[2] - r[1]
<1>1. r[1] \in 0 .. n /\ r[2] \in 0 .. n
  BY DEF Intervals
<1>2. Middle(r) \in Int /\ r[1] <= Middle(r) /\ Middle(r) < r[2]
  BY <1>1 DEF Middle
<1> QED
  BY <1>1, <1>2 DEF Intervals

LEMMA SearchExists ==
  ASSUME NEW n \in Nat, NEW d, NEW w
  PROVE  \E f \in [Intervals(n) -> 0 .. n] : f = [r \in Intervals(n) |-> Halved(f, d, w, r)]
<1> DEFINE D == Intervals(n)
           Good(m) == \E f \in [D -> 0 .. n] :
                        \A r \in D : r[2] - r[1] < m => f[r] = Halved(f, d, w, r)
           Bad == {m \in Nat : ~Good(m)}
<1>1. \A r \in D : r[1] \in 0 .. n /\ r[2] \in 0 .. n
  BY DEF Intervals
<1>2. Good(0)
  <2> DEFINE f == [r \in D |-> r[1]]
  <2>1. f \in [D -> 0 .. n]
    BY <1>1
  <2>2. \A r \in D : r[2] - r[1] < 0 => f[r] = Halved(f, d, w, r)
    BY <1>1 DEF Halved
  <2> QED
    BY <2>1, <2>2
<1>3. ASSUME NEW m \in Nat, Good(m)
      PROVE  Good(m + 1)
  <2>1. PICK f \in [D -> 0 .. n] : \A r \in D : r[2] - r[1] < m => f[r] = Halved(f, d, w, r)
    BY <1>3
  <2> DEFINE g == [r \in D |-> IF r[2] - r[1] < m THEN f[r] ELSE Halved(f, d, w, r)]
  <2>2. ASSUME NEW r \in D
        PROVE  Halved(f, d, w, r) \in 0 .. n
    BY <1>1, Halves DEF Halved
  <2>3. g \in [D -> 0 .. n]
    BY <2>2
  <2>4. ASSUME NEW r \in D, r[2] - r[1] < m + 1
        PROVE  g[r] = Halved(g, d, w, r)
    <3>1. g[r] = Halved(f, d, w, r)
      BY <2>1
    <3>2. CASE r[1] >= r[2]
      BY <3>1, <3>2 DEF Halved
    <3>3. CASE r[1] < r[2]
      <4> DEFINE low == <<r[1], Middle(r)>>
                 high == <<Middle(r) + 1, r[2]>>
      <4>1. /\ low \in D /\ high \in D
            /\ low[2] - low[1] < m /\ high[2] - high[1] < m
        <5>1. /\ low \in D /\ high \in D /\ Middle(r) \in Int
              /\ r[2] - (Middle(r) + 1) < r[2] - r[1] /\ Middle(r) - r[1] < r[2] - r[1]
          BY <3>3, Halves
        <5>2. low[1] = r[1] /\ low[2] = Middle(r) /\ high[1] = Middle(r) + 1 /\ high[2] = r[2]
          OBVIOUS
        <5> QED
          BY <1>1, <2>4, <5>1, <5>2
      <4>2. g[low] = f[low] /\ g[high] = f[high]
        BY <4>1
      <4> QED
        BY <3>1, <4>2 DEF Halved
    <3> QED
      BY <1>1, <3>2, <3>3
  <2> QED
    BY <2>3, <2>4
<1> HIDE DEF Good
<1>4. Bad = {}
  <2> SUFFICES ASSUME Bad # {} PROVE FALSE
    OBVIOUS
  <2>1. PICK m \in Bad : \A j \in Bad : m <= j
    BY LeastNatural
  <2>2. m # 0 /\ m - 1 \in Nat /\ m - 1 \notin Bad
    BY <1>2, <2>1
  <2>3. Good(m - 1) /\ (m - 1) + 1 = m
    BY <2>2
  <2>4. Good((m - 1) + 1)
    BY <1>3, <2>2, <2>3
  <2> QED
    BY <2>3, <2>4
<1>5. Good(n + 1)
  BY <1>4
<1>6. PICK f \in [D -> 0 .. n] : \A r \in D : r[2] - r[1] < n + 1 => f[r] = Halved(f, d, w, r)
  BY <1>5 DEF Good
<1>7. \A r \in D : r[2] - r[1] < n + 1
  BY <1>1
<1>8. f = [r \in D |-> Halved(f, d, w, r)]
  BY <1>6, <1>7
<1> QED
  BY <1>8

\* Neighbours in order make an order.
LEMMA Ordered ==
  ASSUME NEW n \in Nat, NEW d, \A i \in 0 .. n - 1 : d[i] \in Int
  PROVE  /\ (\A i \in 1 .. n - 1 : d[i-1] <= d[i]) =>
              \A i, j \in 0 .. n - 1 : i <= j => d[i] <= d[j]
         /\ (\A i \in 1 .. n - 1 : d[i-1] < d[i]) =>
              \A i, j \in 0 .. n - 1 : i < j => d[i] < d[j]
<1>1. ASSUME \A i \in 1 .. n - 1 : d[i-1] <= d[i]
      PROVE  \A i, j \in 0 .. n - 1 : i <= j => d[i] <= d[j]
  <2> SUFFICES ASSUME NEW i \in 0 .. n - 1 PROVE \A j \in 0 .. n - 1 : i <= j => d[i] <= d[j]
    OBVIOUS
  <2> DEFINE Bad == {j \in 0 .. n - 1 : i <= j /\ ~(d[i] <= d[j])}
  <2> SUFFICES ASSUME Bad # {} PROVE FALSE
    OBVIOUS
  <2>1. PICK j \in Bad : \A k \in Bad : j <= k
    <3>1. Bad \subseteq Nat
      OBVIOUS
    <3> QED
      BY <3>1, LeastNatural
  <2>2. j # i /\ j - 1 \in 0 .. n - 1 /\ i <= j - 1 /\ j \in 1 .. n - 1
    BY <2>1
  <2>3. d[i] <= d[j - 1]
    BY <2>1, <2>2
  <2>4. d[j - 1] <= d[j]
    BY <1>1, <2>2
  <2> QED
    BY <2>1, <2>2, <2>3, <2>4
<1>2. ASSUME \A i \in 1 .. n - 1 : d[i-1] < d[i], NEW i \in 0 .. n - 1, NEW j \in 0 .. n - 1, i < j
      PROVE  d[i] < d[j]
  <2>1. \A k \in 1 .. n - 1 : d[k-1] <= d[k]
    BY <1>2
  <2>2. j \in 1 .. n - 1 /\ j - 1 \in 0 .. n - 1 /\ i <= j - 1
    BY <1>2
  <2>3. d[i] <= d[j - 1]
    BY <1>1, <2>1, <2>2
  <2>4. d[j - 1] < d[j]
    BY <1>2, <2>2
  <2> QED
    BY <2>2, <2>3, <2>4
<1> QED
  BY <1>1, <1>2

\* p is where w is or belongs.
Bounds(d, n, w, p) ==
  /\ p \in 0 .. n
  /\ \A i \in 0 .. p - 1 : d[i] < w
  /\ \A i \in p .. n - 1 : w <= d[i]

LEMMA SearchIs ==
  ASSUME NEW n \in Nat, NEW d, NEW w \in Int, \A i \in 0 .. n - 1 : d[i] \in Int,
         \A i \in 1 .. n - 1 : d[i-1] <= d[i],
         NEW f, f = [r \in Intervals(n) |-> Halved(f, d, w, r)]
  PROVE  Bounds(d, n, w, f[<<0, n>>])
<1> DEFINE D == Intervals(n)
           Apt(r) == /\ r[1] <= r[2]
                     /\ \A i \in 0 .. r[1] - 1 : d[i] < w
                     /\ \A i \in r[2] .. n - 1 : w <= d[i]
           Right(r) == Bounds(d, n, w, f[r])
           Bad == {m \in Nat : \E r \in D : Apt(r) /\ r[2] - r[1] = m /\ ~Right(r)}
<1>1. \A r \in D : r[1] \in 0 .. n /\ r[2] \in 0 .. n
  BY DEF Intervals
<1>2. Bad = {}
  <2> SUFFICES ASSUME Bad # {} PROVE FALSE
    OBVIOUS
  <2>1. PICK m \in Bad : \A j \in Bad : m <= j
    BY LeastNatural
  <2>2. PICK r \in D : Apt(r) /\ r[2] - r[1] = m /\ ~Right(r)
    BY <2>1
  <2>3. f[r] = Halved(f, d, w, r)
    BY <2>2
  <2>4. CASE r[1] = r[2]
    <3>1. f[r] = r[1]
      BY <1>1, <2>3, <2>4 DEF Halved
    <3> QED
      BY <1>1, <2>2, <2>4, <3>1 DEF Bounds
  <2>5. CASE r[1] < r[2]
    <3> DEFINE low == <<r[1], Middle(r)>>
               high == <<Middle(r) + 1, r[2]>>
    <3>1. /\ Middle(r) \in 0 .. n - 1 /\ r[1] <= Middle(r) /\ Middle(r) < r[2]
          /\ low \in D /\ high \in D
          /\ low[1] = r[1] /\ low[2] = Middle(r) /\ high[1] = Middle(r) + 1 /\ high[2] = r[2]
      BY <2>5, Halves
    <3>2. \A i, j \in 0 .. n - 1 : i <= j => d[i] <= d[j]
      BY Ordered
    <3>3. CASE d[Middle(r)] < w
      <4>1. Apt(high)
        BY <1>1, <2>2, <3>1, <3>2, <3>3
      <4>2. high[2] - high[1] \in Nat /\ high[2] - high[1] < m
        BY <1>1, <2>2, <3>1
      <4>3. Right(high)
        BY <2>1, <3>1, <4>1, <4>2
      <4>4. f[r] = f[high]
        BY <1>1, <2>3, <2>5, <3>3 DEF Halved
      <4> QED
        BY <2>2, <4>3, <4>4
    <3>4. CASE ~(d[Middle(r)] < w)
      <4>1. Apt(low)
        BY <1>1, <2>2, <3>1, <3>2, <3>4
      <4>2. low[2] - low[1] \in Nat /\ low[2] - low[1] < m
        BY <1>1, <2>2, <3>1
      <4>3. Right(low)
        BY <2>1, <3>1, <4>1, <4>2
      <4>4. f[r] = f[low]
        BY <1>1, <2>3, <2>5, <3>4 DEF Halved
      <4> QED
        BY <2>2, <4>3, <4>4
    <3> QED
      BY <3>3, <3>4
  <2> QED
    BY <1>1, <2>2, <2>4, <2>5
<1> DEFINE all == <<0, n>>
<1>3. all \in D /\ all[1] = 0 /\ all[2] = n
  BY DEF Intervals
<1>4. Apt(all) /\ all[2] - all[1] = n
  BY <1>3
<1> HIDE DEF Apt, Right, all
<1>5. Right(all)
  BY <1>2, <1>3, <1>4
<1> QED
  BY <1>5 DEF Right, all

-----------------------------------------------------------------------------
(***************************************************************************)
(* Vector, StringBuilder, Set and SortedVec.                               *)
(***************************************************************************)
ArrayInv ==
  /\ Array!WellFormed
  /\ state = "null" => len = 0 /\ cap = 0

LEMMA LowerBoundIs ==
  ASSUME len \in Nat, \A i \in 0 .. len - 1 : data[i] \in Int,
         \A i \in 1 .. len - 1 : data[i-1] <= data[i], NEW w \in Int
  PROVE  Bounds(data, len, w, Array!LowerBound(w))
<1> DEFINE D == Intervals(len)
           search == CHOOSE f : f = [r \in D |-> Halved(f, data, w, r)]
<1>1. search = [r \in D |-> Halved(search, data, w, r)]
  BY SearchExists
<1>2. Array!LowerBound(w) = search[<<0, len>>]
  BY DEF Array!LowerBound, Halved, Middle, Intervals
<1> QED
  BY <1>1, <1>2, SearchIs

\* The sequence of the n words that a block begins with.
Held(d, n) == [i \in 1 .. n |-> d[i - 1]]

LEMMA HeldIs ==
  ASSUME NEW n \in Nat, NEW d, \A i \in 0 .. n - 1 : d[i] \in Words
  PROVE  /\ Held(d, n) \in Seq(Words) /\ Len(Held(d, n)) = n /\ DOMAIN Held(d, n) = 1 .. n
         /\ \A i \in 1 .. n : Held(d, n)[i] = d[i - 1]
         /\ n = 0 <=> Held(d, n) = << >>
<1>1. \A i \in 1 .. n : d[i - 1] \in Words
  OBVIOUS
<1>2. Held(d, n) \in [1 .. n -> Words]
  BY <1>1 DEF Held
<1>3. Held(d, n) \in Seq(Words)
  BY <1>2
<1>4. Len(Held(d, n)) = n /\ DOMAIN Held(d, n) = 1 .. n
  BY <1>2, <1>3, LenProperties
<1>5. \A i \in 1 .. n : Held(d, n)[i] = d[i - 1]
  BY DEF Held
<1>6. n = 0 <=> Held(d, n) = << >>
  BY <1>3, <1>4, EmptySeq
<1> QED
  BY <1>3, <1>4, <1>5, <1>6

LEMMA HeldEqual ==
  ASSUME NEW n \in Nat, NEW d, \A i \in 0 .. n - 1 : d[i] \in Words,
         NEW s \in Seq(Words), Len(s) = n, \A i \in 1 .. n : s[i] = d[i - 1]
  PROVE  s = Held(d, n)
<1> QED
  BY HeldIs, SeqEqual

LEMMA HeldAppend ==
  ASSUME NEW n \in Nat, NEW d, \A i \in 0 .. n - 1 : d[i] \in Words, NEW w \in Words,
         NEW e, e[n] = w, \A i \in 0 .. n - 1 : e[i] = d[i]
  PROVE  Held(e, n + 1) = Append(Held(d, n), w)
<1> DEFINE s == Append(Held(d, n), w)
<1>1. Held(d, n) \in Seq(Words) /\ Len(Held(d, n)) = n /\ \A i \in 1 .. n : Held(d, n)[i] = d[i - 1]
  BY HeldIs
<1> HIDE DEF Held
<1>2. s \in Seq(Words) /\ Len(s) = n + 1 /\ \A i \in 1 .. n + 1 : s[i] = IF i <= n THEN d[i - 1] ELSE w
  BY <1>1, AppendProperties
<1>3. \A i \in 0 .. n : e[i] \in Words
  OBVIOUS
<1>4. \A i \in 1 .. n + 1 : s[i] = e[i - 1]
  BY <1>2
<1> HIDE DEF s
<1>5. s = Held(e, n + 1)
  BY <1>2, <1>3, <1>4, HeldEqual
<1> QED
  BY <1>5 DEF s

LEMMA HeldConcat ==
  ASSUME NEW n \in Nat, NEW d, \A i \in 0 .. n - 1 : d[i] \in Words, NEW t \in Seq(Words),
         NEW e, \A i \in 0 .. n - 1 : e[i] = d[i],
         \A i \in n .. n + Len(t) - 1 : e[i] = t[i - n + 1]
  PROVE  /\ Held(e, n + Len(t)) = Held(d, n) \o t
         /\ \A i \in 0 .. n + Len(t) - 1 : e[i] \in Words
<1> DEFINE m == n + Len(t)
           s == Held(d, n) \o t
<1>1. Held(d, n) \in Seq(Words) /\ Len(Held(d, n)) = n /\ \A i \in 1 .. n : Held(d, n)[i] = d[i - 1]
  BY HeldIs
<1>2. Len(t) \in Nat /\ m \in Nat /\ \A i \in 1 .. Len(t) : t[i] \in Words
  BY LenProperties, ElementOfSeq
<1> HIDE DEF Held
<1>3. s \in Seq(Words) /\ Len(s) = m /\ \A i \in 1 .. m : s[i] = IF i <= n THEN d[i - 1] ELSE t[i - n]
  <2>1. /\ s \in Seq(Words) /\ Len(s) = Len(Held(d, n)) + Len(t)
        /\ \A i \in 1 .. Len(Held(d, n)) + Len(t) :
             s[i] = IF i <= Len(Held(d, n)) THEN Held(d, n)[i] ELSE t[i - Len(Held(d, n))]
    BY <1>1, ConcatProperties, Zenon
  <2> HIDE DEF s
  <2>2. Len(s) = m /\ \A i \in 1 .. m : s[i] = IF i <= n THEN Held(d, n)[i] ELSE t[i - n]
    BY <1>1, <2>1
  <2> HIDE DEF m
  <2>3. \A i \in 1 .. m : i <= n => Held(d, n)[i] = d[i - 1]
    BY <1>1, <1>2
  <2> QED
    BY <2>1, <2>2, <2>3
<1>4. \A i \in 0 .. m - 1 : e[i] \in Words
  <2> SUFFICES ASSUME NEW i \in 0 .. m - 1 PROVE e[i] \in Words
    OBVIOUS
  <2>1. CASE i < n
    BY <1>2, <2>1
  <2>2. CASE i >= n
    <3>1. i \in n .. n + Len(t) - 1 /\ i - n + 1 \in 1 .. Len(t)
      BY <1>2, <2>2
    <3> QED
      BY <1>2, <3>1
  <2> QED
    BY <1>2, <2>1, <2>2
<1> HIDE DEF s
<1>5. \A i \in 1 .. m : s[i] = e[i - 1]
  <2> SUFFICES ASSUME NEW i \in 1 .. m PROVE s[i] = e[i - 1]
    OBVIOUS
  <2>1. CASE i <= n
    BY <1>2, <1>3, <2>1
  <2>2. CASE i > n
    <3>1. i - 1 \in n .. n + Len(t) - 1 /\ (i - 1) - n + 1 = i - n
      BY <1>2, <2>2
    <3>2. s[i] = t[i - n]
      BY <1>3, <2>2
    <3> QED
      BY <3>1, <3>2
  <2> QED
    BY <1>2, <2>1, <2>2
<1> HIDE DEF m
<1>6. s = Held(e, m)
  BY <1>2, <1>3, <1>4, <1>5, HeldEqual
<1> QED
  BY <1>4, <1>6 DEF s, m

LEMMA HeldFront ==
  ASSUME NEW n \in Nat, n > 0, NEW d, \A i \in 0 .. n - 1 : d[i] \in Words
  PROVE  Held(d, n - 1) = SubSeq(Held(d, n), 1, Len(Held(d, n)) - 1)
<1> DEFINE s == SubSeq(Held(d, n), 1, n - 1)
<1>1. Held(d, n) \in Seq(Words) /\ Len(Held(d, n)) = n /\ \A i \in 1 .. n : Held(d, n)[i] = d[i - 1]
  BY HeldIs
<1> HIDE DEF Held
<1>2. \A i \in 1 .. n - 1 : Held(d, n)[i] \in Words
  BY <1>1
<1>3. s \in Seq(Words) /\ Len(s) = n - 1 /\ \A i \in 1 .. n - 1 : s[i] = d[i - 1]
  BY <1>1, <1>2, SubSeqProperties
<1>4. n - 1 \in Nat /\ \A i \in 0 .. (n - 1) - 1 : d[i] \in Words
  OBVIOUS
<1> HIDE DEF s
<1>5. s = Held(d, n - 1)
  BY <1>3, <1>4, HeldEqual
<1> QED
  BY <1>1, <1>5 DEF s

LEMMA HeldExcept ==
  ASSUME NEW n \in Nat, NEW d, \A i \in 0 .. n - 1 : d[i] \in Words, NEW w \in Words,
         NEW i \in 0 .. n - 1, NEW e, e[i] = w, \A j \in 0 .. n - 1 : j # i => e[j] = d[j]
  PROVE  Held(e, n) = [Held(d, n) EXCEPT ![i + 1] = w]
<1> DEFINE s == [Held(d, n) EXCEPT ![i + 1] = w]
<1>1. Held(d, n) \in Seq(Words) /\ Len(Held(d, n)) = n /\ \A j \in 1 .. n : Held(d, n)[j] = d[j - 1]
  BY HeldIs
<1> HIDE DEF Held
<1>2. s \in Seq(Words) /\ Len(s) = n /\ \A j \in 1 .. n : s[j] = IF j = i + 1 THEN w ELSE d[j - 1]
  BY <1>1, ExceptSeq
<1>3. \A j \in 0 .. n - 1 : e[j] \in Words
  OBVIOUS
<1>4. \A j \in 1 .. n : s[j] = e[j - 1]
  BY <1>2
<1> HIDE DEF s
<1>5. s = Held(e, n)
  BY <1>2, <1>3, <1>4, HeldEqual
<1> QED
  BY <1>5 DEF s

\* A word is taken out of the block, and out of the sequence.
LEMMA HeldRemove ==
  ASSUME NEW n \in Nat, NEW d, \A i \in 0 .. n - 1 : d[i] \in Words, NEW i \in 0 .. n - 1,
         NEW e, \A j \in 0 .. i - 1 : e[j] = d[j], \A j \in i .. n - 2 : e[j] = d[j + 1]
  PROVE  /\ Held(e, n - 1) = SubSeq(Held(d, n), 1, (i + 1) - 1)
                               \o SubSeq(Held(d, n), (i + 1) + 1, Len(Held(d, n)))
         /\ \A j \in 0 .. n - 2 : e[j] \in Words
<1> DEFINE a == SubSeq(Held(d, n), 1, i)
           b == SubSeq(Held(d, n), i + 2, n)
           s == a \o b
<1>1. Held(d, n) \in Seq(Words) /\ Len(Held(d, n)) = n /\ \A j \in 1 .. n : Held(d, n)[j] = d[j - 1]
  BY HeldIs
<1> HIDE DEF Held
<1>2. \A j \in 1 .. n : Held(d, n)[j] \in Words
  BY <1>1
<1>3. a \in Seq(Words) /\ Len(a) = i /\ \A j \in 1 .. i : a[j] = d[j - 1]
  <2>1. \A j \in 1 .. i : Held(d, n)[j] \in Words
    BY <1>2
  <2> QED
    BY <1>1, <2>1, SubSeqProperties
<1>4. b \in Seq(Words) /\ Len(b) = n - i - 1 /\ \A j \in 1 .. n - i - 1 : b[j] = d[j + i]
  <2>1. \A j \in i + 2 .. n : Held(d, n)[j] \in Words
    BY <1>2
  <2>2. /\ b \in Seq(Words) /\ Len(b) = IF i + 2 <= n THEN n - (i + 2) + 1 ELSE 0
        /\ \A j \in 1 .. n - (i + 2) + 1 : b[j] = Held(d, n)[i + 2 + j - 1]
    BY <2>1, SubSeqProperties
  <2>3. Len(b) = n - i - 1
    BY <2>2
  <2>4. ASSUME NEW j \in 1 .. n - i - 1
        PROVE  b[j] = d[j + i]
    <3>1. j \in 1 .. n - (i + 2) + 1 /\ i + 2 + j - 1 \in 1 .. n /\ (i + 2 + j - 1) - 1 = j + i
      OBVIOUS
    <3> QED
      BY <1>1, <2>2, <3>1
  <2> QED
    BY <2>2, <2>3, <2>4
<1> HIDE DEF a, b
<1>5. s \in Seq(Words) /\ Len(s) = n - 1 /\ \A j \in 1 .. n - 1 : s[j] = IF j <= i THEN a[j] ELSE b[j - i]
  BY <1>3, <1>4, ConcatProperties
<1> HIDE DEF s
<1>6. \A j \in 0 .. n - 2 : e[j] \in Words
  <2> SUFFICES ASSUME NEW j \in 0 .. n - 2 PROVE e[j] \in Words
    OBVIOUS
  <2>1. CASE j < i
    BY <2>1
  <2>2. CASE j >= i
    BY <2>2
  <2> QED
    BY <2>1, <2>2
<1>7. \A j \in 1 .. n - 1 : s[j] = e[j - 1]
  <2> SUFFICES ASSUME NEW j \in 1 .. n - 1 PROVE s[j] = e[j - 1]
    OBVIOUS
  <2>1. CASE j <= i
    BY <1>3, <1>5, <2>1
  <2>2. CASE j > i
    <3>1. j - i \in 1 .. n - i - 1 /\ j - 1 \in i .. n - 2 /\ (j - i) + i = j /\ (j - 1) + 1 = j
      BY <2>2
    <3>2. s[j] = b[j - i] /\ b[j - i] = d[j] /\ e[j - 1] = d[j]
      BY <1>4, <1>5, <2>2, <3>1
    <3> QED
      BY <3>2
  <2> QED
    BY <2>1, <2>2
<1>8. n - 1 \in Nat /\ (n - 1) - 1 = n - 2 /\ s = Held(e, n - 1)
  <2>1. n - 1 \in Nat /\ (n - 1) - 1 = n - 2
    OBVIOUS
  <2> QED
    BY <1>5, <1>6, <1>7, <2>1, HeldEqual
<1>9. s = SubSeq(Held(d, n), 1, (i + 1) - 1) \o SubSeq(Held(d, n), (i + 1) + 1, Len(Held(d, n)))
  <2>1. (i + 1) - 1 = i /\ (i + 1) + 1 = i + 2
    OBVIOUS
  <2> QED
    BY <1>1, <2>1 DEF s, a, b
<1> QED
  BY <1>6, <1>8, <1>9

\* What the arrays' invariant says of the block, and what they hold.
LEMMA ArrayFacts ==
  ASSUME ArrayInv
  PROVE  /\ len \in Nat /\ cap \in Nat /\ len <= cap /\ cap <= MaxCap /\ MaxCap \in Nat
         /\ DOMAIN data = 0 .. cap - 1
         /\ \A i \in 0 .. len - 1 : data[i] \in Words /\ data[i] \in Int /\ data[i] # 0
<1>1. len \in 0 .. cap /\ cap \in 0 .. MaxCap /\ DOMAIN data = 0 .. cap - 1 /\ \A i \in 0 .. len - 1 : data[i] \in Words
  BY DEF ArrayInv, Array!WellFormed
<1>2. MaxCap \in Nat /\ \A w \in Words : w \in Int /\ w # 0
  BY DataAssumption, SizesAssumption
<1>3. cap \in Nat /\ len \in Nat /\ len <= cap /\ cap <= MaxCap
  BY <1>1, <1>2
<1> QED
  BY <1>1, <1>2, <1>3

LEMMA ArrayHolds ==
  /\ kind \in ArrayKinds \ {"set"} => Contents = Held(data, len)
  /\ kind = "set" => Contents = {data[i] : i \in 0 .. len - 1}
<1> QED
  BY DEF Contents, ArrayKinds, Array!Contents, Held

LEMMA ArrayHoldsNext ==
  /\ kind' \in ArrayKinds \ {"set"} => Contents' = Held(data', len')
  /\ kind' = "set" => Contents' = {data'[i] : i \in 0 .. len' - 1}
<1> QED
  BY DEF Contents, ArrayKinds, Array!Contents, Held

LEMMA DoubledIs ==
  ASSUME cap \in Nat
  PROVE  Array!Doubled \in Nat /\ Array!Doubled > cap
<1> QED
  BY SizesAssumption DEF Array!Doubled

\* A call that leaves the block alone.
LEMMA ArrayAnswers ==
  ASSUME ArrayInv, kind \in ArrayKinds, UNCHANGED sets, NEW a, Array!Answers(a)
  PROVE  ArrayInv' /\ Abstract!Answers(a)
<1>1. UNCHANGED <<kind, state, data, len, cap, sizes, clean>> /\ answer' = a
  BY DEF Array!Answers, Array!block, sets
<1>2. Contents' = Contents
  BY <1>1, ArrayHolds, ArrayHoldsNext DEF ArrayKinds
<1>3. ArrayInv'
  BY <1>1 DEF ArrayInv, Array!WellFormed
<1> QED
  BY <1>1, <1>2, <1>3 DEF Abstract!Answers

LEMMA ArrayReads ==
  ASSUME ArrayInv, kind \in ArrayKinds, UNCHANGED sets, NEW v, Array!Reads(v)
  PROVE  ArrayInv' /\ Abstract!Reads(v)
<1> QED
  BY ArrayAnswers DEF Array!Reads, Abstract!Reads

\* A call of a vector or a builder that changes the block, and the string it is.
LEMMA ArrayWrites ==
  ASSUME ArrayInv, kind \in {"vector", "builder"}, state = "open", UNCHANGED sets,
         NEW r, NEW n, NEW l, NEW v, NEW c,
         data' = r, cap' = n, len' = l, answer' = <<v>>, UNCHANGED <<kind, state>>,
         n \in 0 .. MaxCap, l \in 0 .. n, DOMAIN r = 0 .. n - 1,
         \A i \in 0 .. l - 1 : r[i] \in Words,
         kind = "builder" /\ n > 0 => l < n /\ r[l] = 0,
         c = Held(r, l)
  PROVE  ArrayInv' /\ Abstract!Holds(c, v)
<1>1. /\ UNCHANGED <<kind, state, sizes, clean>> /\ answer' = <<v>>
      /\ data' = r /\ len' = l /\ cap' = n
  BY DEF sets
<1>2. Contents' = c
  BY <1>1, ArrayHoldsNext DEF ArrayKinds
<1>3. ArrayInv'
  BY <1>1 DEF ArrayInv, Array!WellFormed, Array!Terminator
<1> QED
  BY <1>1, <1>2, <1>3 DEF Abstract!Holds, Abstract!Returns

\* Words moved down by one.
LEMMA MovedDown ==
  ASSUME NEW d, NEW n \in Nat, NEW c \in Nat, NEW i \in 0 .. n - 1, n <= c, DOMAIN d = 0 .. c - 1,
         NEW e, e = [j \in DOMAIN d |-> IF j \in i .. i + (n - i - 1) - 1 THEN d[i + 1 + j - i] ELSE d[j]]
  PROVE  /\ DOMAIN e = 0 .. c - 1
         /\ \A j \in 0 .. i - 1 : e[j] = d[j]
         /\ \A j \in i .. n - 2 : e[j] = d[j + 1]
<1>1. DOMAIN e = 0 .. c - 1
  OBVIOUS
<1>2. ASSUME NEW j \in 0 .. n - 2
      PROVE  e[j] = IF j < i THEN d[j] ELSE d[j + 1]
  <2>1. j \in 0 .. c - 1 /\ (j \in i .. i + (n - i - 1) - 1 <=> j >= i) /\ i + 1 + j - i = j + 1
    OBVIOUS
  <2>2. e[j] = IF j \in i .. i + (n - i - 1) - 1 THEN d[i + 1 + j - i] ELSE d[j]
    BY <2>1
  <2> QED
    BY <2>1, <2>2
<1>3. \A j \in 0 .. i - 1 : e[j] = d[j]
  BY <1>2
<1>4. \A j \in i .. n - 2 : e[j] = d[j + 1]
  BY <1>2
<1> QED
  BY <1>1, <1>3, <1>4

LEMMA VectorSteps ==
  ASSUME ArrayInv, kind = "vector", UNCHANGED sets
  PROVE  /\ \A w \in Words : Array!VecPush(w) => ArrayInv' /\ Abstract!PushBack(w)
         /\ \A w \in Words : Array!VecContains(w) => ArrayInv' /\ Abstract!HasWord(w)
         /\ \A i \in Indices : Array!VecGet(i) => ArrayInv' /\ Abstract!Get(i)
         /\ \A i \in Indices, w \in Words : Array!VecSet(i, w) => ArrayInv' /\ Abstract!SetAt(i, w)
         /\ Array!VecPop => ArrayInv' /\ Abstract!PopBack
         /\ \A i \in Indices : Array!VecRemove(i) => ArrayInv' /\ Abstract!RemoveIndex(i)
         /\ Array!VecClear => ArrayInv' /\ Abstract!Clear
<1> DEFINE c == Held(data, len)
<1>1. /\ len \in Nat /\ cap \in Nat /\ len <= cap /\ cap <= MaxCap /\ MaxCap \in Nat
      /\ DOMAIN data = 0 .. cap - 1
      /\ \A j \in 0 .. len - 1 : data[j] \in Words /\ data[j] \in Int /\ data[j] # 0
  BY ArrayFacts
<1>2. Indices \subseteq Nat /\ kind \in ArrayKinds /\ kind # "builder"
  BY SizesAssumption DEF ArrayKinds
<1>3. Contents = c
  BY ArrayHolds DEF ArrayKinds
<1>4. /\ Len(c) = len /\ DOMAIN c = 1 .. len /\ \A j \in 1 .. len : c[j] = data[j - 1]
      /\ len = 0 <=> c = << >>
  BY <1>1, HeldIs
<1> HIDE DEF c
<1>5. ASSUME NEW w \in Words, Array!VecPush(w)
      PROVE  ArrayInv' /\ Abstract!PushBack(w)
  <2> DEFINE n == IF len < cap THEN cap ELSE Array!Doubled
             r == [Array!Realloc(n) EXCEPT ![len] = w]
  <2>1. state = "open"
    BY <1>5 DEF Array!VecPush, Array!Open
  <2>2. CASE n <= MaxCap /\ Array!Writes(r, n, len + 1) /\ Array!Returns(0)
    <3>1. n \in Nat /\ len < n
      BY <1>1, DoubledIs
    <3> HIDE DEF n
    <3>2. DOMAIN r = 0 .. n - 1 /\ r[len] = w /\ \A j \in 0 .. len - 1 : r[j] = data[j]
      <4> HIDE <1>3, <1>4
      <4> QED
        BY <1>1, <3>1 DEF Array!Realloc
    <3> HIDE DEF r
    <3>3. Held(r, len + 1) = Append(c, w)
      BY <1>1, <3>2, HeldAppend DEF c
    <3>4. n \in 0 .. MaxCap /\ len + 1 \in 0 .. n /\ \A j \in 0 .. (len + 1) - 1 : r[j] \in Words
      BY <1>1, <2>2, <3>1, <3>2
    <3>5. ArrayInv' /\ Abstract!Holds(Append(c, w), 0)
      BY <1>2, <2>1, <2>2, <3>2, <3>3, <3>4, ArrayWrites DEF Array!Writes, Array!Returns
    <3> QED
      BY <1>3, <2>1, <3>5 DEF Abstract!PushBack, Abstract!Open
  <2>3. CASE Array!NoMemory
    <3>1. ArrayInv' /\ Abstract!Reads(-1)
      BY <1>2, <2>3, ArrayReads DEF Array!NoMemory
    <3> QED
      BY <2>1, <3>1 DEF Abstract!PushBack, Abstract!Open
  <2> QED
    BY <1>5, <2>2, <2>3 DEF Array!VecPush
<1>6. ASSUME NEW w \in Words, Array!VecContains(w)
      PROVE  ArrayInv' /\ Abstract!HasWord(w)
  <2> DEFINE v == IF \E j \in 0 .. len - 1 : data[j] = w THEN 1 ELSE 0
  <2>1. state = "open" /\ Array!Reads(v)
    BY <1>6 DEF Array!VecContains, Array!Open
  <2>2. v = IF w \in {c[j] : j \in DOMAIN c} THEN 1 ELSE 0
    <3>1. (\E j \in 0 .. len - 1 : data[j] = w) <=> \E j \in 1 .. len : c[j] = w
      <4>1. \A j \in 0 .. len - 1 : j + 1 \in 1 .. len /\ c[j + 1] = data[j]
        BY <1>1, <1>4
      <4>2. \A j \in 1 .. len : j - 1 \in 0 .. len - 1 /\ c[j] = data[j - 1]
        BY <1>1, <1>4
      <4> QED
        BY <4>1, <4>2
    <3> QED
      BY <1>4, <3>1
  <2> HIDE DEF v
  <2>3. ArrayInv' /\ Abstract!Reads(v)
    BY <1>2, <2>1, ArrayReads
  <2> QED
    BY <1>3, <2>1, <2>2, <2>3 DEF Abstract!HasWord, Abstract!Open, Abstract!ToSet
<1>7. ASSUME NEW i \in Indices, Array!VecGet(i)
      PROVE  ArrayInv' /\ Abstract!Get(i)
  <2> DEFINE v == IF i < len THEN data[i] ELSE 0
  <2>1. state = "open" /\ Array!Reads(v)
    BY <1>7 DEF Array!VecGet, Array!Open
  <2>2. v = IF i < Len(c) THEN c[i + 1] ELSE 0
    BY <1>1, <1>2, <1>4
  <2> HIDE DEF v
  <2>3. ArrayInv' /\ Abstract!Reads(v)
    BY <1>2, <2>1, ArrayReads
  <2> QED
    BY <1>3, <2>1, <2>2, <2>3 DEF Abstract!Get, Abstract!Open
<1>8. ASSUME NEW i \in Indices, NEW w \in Words, Array!VecSet(i, w)
      PROVE  ArrayInv' /\ Abstract!SetAt(i, w)
  <2>1. state = "open"
    BY <1>8 DEF Array!VecSet, Array!Open
  <2>2. CASE i < len /\ Array!Writes([data EXCEPT ![i] = w], cap, len) /\ Array!Returns(0)
    <3> DEFINE r == [data EXCEPT ![i] = w]
    <3>1. DOMAIN r = 0 .. cap - 1 /\ r[i] = w /\ \A j \in 0 .. len - 1 : j # i => r[j] = data[j]
      BY <1>1, <1>2, <2>2
    <3> HIDE DEF r
    <3>2. i \in 0 .. len - 1 /\ Held(r, len) = [c EXCEPT ![i + 1] = w]
      BY <1>1, <1>2, <2>2, <3>1, HeldExcept DEF c
    <3>3. cap \in 0 .. MaxCap /\ len \in 0 .. cap /\ \A j \in 0 .. len - 1 : r[j] \in Words
      BY <1>1, <3>1
    <3>4. ArrayInv' /\ Abstract!Holds([c EXCEPT ![i + 1] = w], 0)
      BY <1>2, <2>1, <2>2, <3>1, <3>2, <3>3, ArrayWrites DEF Array!Writes, Array!Returns, r
    <3> QED
      BY <1>3, <1>4, <2>1, <2>2, <3>4 DEF Abstract!SetAt, Abstract!Open
  <2>3. CASE i >= len /\ Array!Reads(-1)
    <3>1. ArrayInv' /\ Abstract!Reads(-1)
      BY <1>2, <2>3, ArrayReads
    <3>2. ~(i < Len(Contents))
      BY <1>1, <1>2, <1>3, <1>4, <2>3
    <3> QED
      BY <2>1, <3>1, <3>2 DEF Abstract!SetAt, Abstract!Open
  <2> QED
    BY <1>8, <2>2, <2>3 DEF Array!VecSet
<1>9. ASSUME Array!VecPop
      PROVE  ArrayInv' /\ Abstract!PopBack
  <2>1. state = "open"
    BY <1>9 DEF Array!VecPop, Array!Open
  <2>2. CASE len > 0 /\ Array!Writes(data, cap, len - 1) /\ Array!Returns(data[len - 1])
    <3>1. Held(data, len - 1) = SubSeq(c, 1, Len(c) - 1)
      BY <1>1, <2>2, HeldFront DEF c
    <3>2. cap \in 0 .. MaxCap /\ len - 1 \in 0 .. cap /\ \A j \in 0 .. (len - 1) - 1 : data[j] \in Words
      BY <1>1, <2>2
    <3>3. ArrayInv' /\ Abstract!Holds(SubSeq(c, 1, Len(c) - 1), data[len - 1])
      BY <1>1, <1>2, <2>1, <2>2, <3>1, <3>2, ArrayWrites DEF Array!Writes, Array!Returns
    <3>4. c # << >> /\ c[Len(c)] = data[len - 1]
      BY <1>1, <1>4, <2>2
    <3> QED
      BY <1>3, <2>1, <3>3, <3>4 DEF Abstract!PopBack, Abstract!Open, Abstract!Front, Abstract!Last
  <2>3. CASE len = 0 /\ Array!Reads(-1)
    <3>1. ArrayInv' /\ Abstract!Reads(-1)
      BY <1>2, <2>3, ArrayReads
    <3> QED
      BY <1>3, <1>4, <2>1, <2>3, <3>1 DEF Abstract!PopBack, Abstract!Open
  <2> QED
    BY <1>9, <2>2, <2>3 DEF Array!VecPop
<1>10. ASSUME NEW i \in Indices, Array!VecRemove(i)
       PROVE  ArrayInv' /\ Abstract!RemoveIndex(i)
  <2> DEFINE r == Array!Moved(data, i, i + 1, len - i - 1)
             s == SubSeq(c, 1, (i + 1) - 1) \o SubSeq(c, (i + 1) + 1, Len(c))
  <2>1. state = "open"
    BY <1>10 DEF Array!VecRemove, Array!Open
  <2>2. CASE i < len /\ Array!Writes(r, cap, len - 1) /\ Array!Returns(data[i])
    <3>1. i \in 0 .. len - 1
      BY <1>1, <1>2, <2>2
    <3>0. r = [j \in DOMAIN data |-> IF j \in i .. i + (len - i - 1) - 1 THEN data[i + 1 + j - i] ELSE data[j]]
      BY DEF Array!Moved
    <3> HIDE DEF r
    <3>2. /\ DOMAIN r = 0 .. cap - 1 /\ \A j \in 0 .. i - 1 : r[j] = data[j]
          /\ \A j \in i .. len - 2 : r[j] = data[j + 1]
      BY <1>1, <3>0, <3>1, MovedDown
    <3>3. Held(r, len - 1) = s /\ \A j \in 0 .. len - 2 : r[j] \in Words
      BY <1>1, <3>1, <3>2, HeldRemove DEF c
    <3>4. cap \in 0 .. MaxCap /\ len - 1 \in 0 .. cap /\ (len - 1) - 1 = len - 2
      BY <1>1, <3>1
    <3> HIDE DEF s
    <3>5. ArrayInv' /\ Abstract!Holds(s, data[i])
      BY <1>2, <2>1, <2>2, <3>2, <3>3, <3>4, ArrayWrites DEF Array!Writes, Array!Returns
    <3>6. i < Len(c) /\ c[i + 1] = data[i]
      BY <1>1, <1>4, <3>1
    <3> QED
      BY <1>3, <2>1, <3>5, <3>6 DEF s, Abstract!RemoveIndex, Abstract!Open, Abstract!RemoveAt
  <2>3. CASE i >= len /\ Array!Reads(-1)
    <3>1. ArrayInv' /\ Abstract!Reads(-1)
      BY <1>2, <2>3, ArrayReads
    <3>2. ~(i < Len(Contents))
      BY <1>1, <1>2, <1>3, <1>4, <2>3
    <3> QED
      BY <2>1, <3>1, <3>2 DEF Abstract!RemoveIndex, Abstract!Open
  <2> QED
    BY <1>10, <2>2, <2>3 DEF Array!VecRemove
<1>11. ASSUME Array!VecClear
       PROVE  ArrayInv' /\ Abstract!Clear
  <2>1. state = "open" /\ Array!Writes(data, cap, 0) /\ Array!Returns(0)
    BY <1>11 DEF Array!VecClear, Array!Open
  <2>2. Held(data, 0) = << >>
    BY HeldIs
  <2>3. cap \in 0 .. MaxCap /\ 0 \in 0 .. cap /\ \A j \in 0 .. 0 - 1 : data[j] \in Words
    BY <1>1
  <2>4. ArrayInv' /\ Abstract!Holds(<< >>, 0)
    BY <1>1, <1>2, <2>1, <2>2, <2>3, ArrayWrites DEF Array!Writes, Array!Returns
  <2> QED
    BY <2>1, <2>4 DEF Abstract!Clear, Abstract!Open, Abstract!Sequential
<1> QED
  BY <1>5, <1>6, <1>7, <1>8, <1>9, <1>10, <1>11

\* Doubling reaches the need.
LEMMA FittingIs ==
  ASSUME cap \in Nat, NEW need \in Nat
  PROVE  Array!Fitting(need) \in Nat /\ Array!Fitting(need) >= need
<1> DEFINE step == [x \in Nat |-> 2 * x]
           nc == CHOOSE nc : nc = [k \in 0 .. need |-> IF k = 0 THEN Array!Doubled ELSE 2 * nc[k - 1]]
           S == {k \in 0 .. need : nc[k] >= need}
<1>1. Array!Doubled \in Nat /\ Array!Doubled >= 1
  BY DoubledIs
<1>2. nc = [k \in 0 .. need |-> IF k = 0 THEN Array!Doubled ELSE 2 * nc[k - 1]]
  <2>1. step \in [Nat -> Nat]
    OBVIOUS
  <2>2. PICK f \in [0 .. need -> Nat] : f[0] = Array!Doubled /\ \A k \in 1 .. need : f[k] = step[f[k - 1]]
    <3> HIDE DEF step
    <3>1. PICK a \in Nat : a = Array!Doubled
      BY <1>1
    <3>2. \E f : Rounds(f, Nat, a, step, need)
      BY <2>1, Iterates
    <3> QED
      BY <3>1, <3>2 DEF Rounds
  <2>3. \A k \in 1 .. need : f[k] = 2 * f[k - 1]
    <3> SUFFICES ASSUME NEW k \in 1 .. need PROVE f[k] = 2 * f[k - 1]
      OBVIOUS
    <3>1. f[k - 1] \in Nat
      OBVIOUS
    <3> QED
      BY <2>2, <3>1
  <2>4. f = [k \in 0 .. need |-> IF k = 0 THEN Array!Doubled ELSE 2 * f[k - 1]]
    BY <2>2, <2>3
  <2> QED
    BY <2>4
<1> HIDE DEF nc
<1>3. \A k \in 0 .. need : nc[k] \in Nat /\ nc[k] >= k + 1
  <2> DEFINE Bad == {k \in 0 .. need : ~(nc[k] \in Nat /\ nc[k] >= k + 1)}
  <2> SUFFICES ASSUME Bad # {} PROVE FALSE
    OBVIOUS
  <2>1. PICK k \in Bad : \A j \in Bad : k <= j
    <3>1. Bad \subseteq Nat
      OBVIOUS
    <3> QED
      BY <3>1, LeastNatural
  <2>2. k # 0
    BY <1>1, <1>2, <2>1
  <2>3. k - 1 \in 0 .. need /\ k - 1 \notin Bad
    BY <2>1, <2>2
  <2>4. nc[k - 1] \in Nat /\ nc[k - 1] >= k
    BY <2>3
  <2>5. nc[k] = 2 * nc[k - 1]
    BY <1>2, <2>1, <2>2
  <2>6. nc[k] \in Nat /\ nc[k] >= k + 1
    BY <2>2, <2>3, <2>4, <2>5
  <2> QED
    BY <2>1, <2>6
<1>4. PICK i \in S : \A j \in S : i <= j
  <2>1. need \in S /\ S \subseteq Nat
    BY <1>3
  <2> QED
    BY <2>1, LeastNatural
<1>5. (CHOOSE x \in S : \A y \in S : x =< y) = i
  <2>1. S \subseteq Int
    OBVIOUS
  <2> QED
    BY <1>4, <2>1, MinIs
<1>6. Array!Fitting(need) = nc[i]
  BY <1>5 DEF nc, Array!Fitting, Array!Min
<1> QED
  BY <1>3, <1>4, <1>6

LEMMA BuilderSteps ==
  ASSUME ArrayInv, kind = "builder", UNCHANGED sets
  PROVE  /\ \A s \in Strings : Array!SbAppend(s) => ArrayInv' /\ Abstract!AppendString(s)
         /\ Array!SbBuild => ArrayInv' /\ Abstract!Build
         /\ Array!SbClear => ArrayInv' /\ Abstract!Clear
<1> DEFINE c == Held(data, len)
<1>1. /\ len \in Nat /\ cap \in Nat /\ len <= cap /\ cap <= MaxCap /\ MaxCap \in Nat
      /\ DOMAIN data = 0 .. cap - 1
      /\ \A j \in 0 .. len - 1 : data[j] \in Words /\ data[j] \in Int /\ data[j] # 0
  BY ArrayFacts
<1>2. kind \in ArrayKinds /\ (cap > 0 => len < cap /\ data[len] = 0)
  BY DEF ArrayKinds, ArrayInv, Array!WellFormed, Array!Terminator
<1>3. Contents = c
  BY ArrayHolds DEF ArrayKinds
<1> HIDE DEF c
<1>5. ASSUME NEW s \in Strings, Array!SbAppend(s)
      PROVE  ArrayInv' /\ Abstract!AppendString(s)
  <2> DEFINE need == len + Len(s) + 1
             n == IF need > cap THEN Array!Fitting(need) ELSE cap
             d == [i \in 0 .. n-1 |->
                     IF i \in len .. len + Len(s) - 1 THEN s[i - len + 1]
                     ELSE IF i = len + Len(s) THEN 0 ELSE Array!Realloc(n)[i]]
  <2>1. state = "open"
    BY <1>5 DEF Array!SbAppend, Array!Open
  <2>2. s \in Seq(Words) /\ Len(s) \in Nat
    BY DataAssumption, LenProperties
  <2>3. CASE n <= MaxCap /\ Array!Writes(d, n, len + Len(s)) /\ Array!Returns(0)
    <3>1. need \in Nat /\ n \in Nat /\ n >= need /\ n >= cap
      <4>1. need \in Nat
        BY <1>1, <2>2
      <4> HIDE DEF need
      <4>2. Array!Fitting(need) \in Nat /\ Array!Fitting(need) >= need
        BY <1>1, <4>1, FittingIs
      <4> QED
        BY <1>1, <4>1, <4>2
    <3>2. n <= MaxCap /\ Array!Writes(d, n, len + Len(s)) /\ Array!Returns(0)
      BY <2>3
    <3> HIDE DEF n
    <3>3. DOMAIN d = 0 .. n - 1 /\ d[len + Len(s)] = 0
      BY <1>1, <2>2, <3>1
    <3>4. \A i \in len .. len + Len(s) - 1 : d[i] = s[i - len + 1]
      BY <1>1, <2>2, <3>1
    <3>5. \A i \in 0 .. len - 1 : d[i] = data[i]
      <4>1. \A i \in 0 .. len - 1 : i \in 0 .. n - 1 /\ ~(i \in len .. len + Len(s) - 1) /\ i # len + Len(s) /\ i < cap
        BY <1>1, <2>2, <3>1
      <4>2. \A i \in 0 .. len - 1 : d[i] = Array!Realloc(n)[i]
        BY <4>1
      <4>3. \A i \in 0 .. len - 1 : Array!Realloc(n)[i] = data[i]
        BY <4>1 DEF Array!Realloc
      <4> QED
        BY <4>2, <4>3
    <3> HIDE DEF d
    <3>6. Held(d, len + Len(s)) = c \o s /\ \A i \in 0 .. len + Len(s) - 1 : d[i] \in Words
      BY <1>1, <2>2, <3>4, <3>5, HeldConcat DEF c
    <3>7. n \in 0 .. MaxCap /\ len + Len(s) \in 0 .. n /\ len + Len(s) < n
      BY <1>1, <2>2, <3>1, <3>2
    <3> DEFINE l == len + Len(s)
               t == c \o s
    <3> HIDE DEF l, t
    <3>8. ArrayInv' /\ Abstract!Holds(t, 0)
      <4>1. data' = d /\ cap' = n /\ len' = l /\ answer' = <<0>> /\ UNCHANGED <<kind, state>>
        BY <3>2 DEF l, Array!Writes, Array!Returns
      <4>2. n \in 0 .. MaxCap /\ l \in 0 .. n /\ l < n
        BY <3>7 DEF l
      <4>3. \A i \in 0 .. l - 1 : d[i] \in Words
        BY <1>1, <2>2, <3>6 DEF l
      <4>4. t = Held(d, l)
        BY <3>6 DEF l, t
      <4>5. DOMAIN d = 0 .. n - 1 /\ d[l] = 0
        BY <3>3 DEF l
      <4> QED
        BY <2>1, <4>1, <4>2, <4>3, <4>4, <4>5, ArrayWrites
    <3> QED
      BY <1>3, <2>1, <3>8 DEF t, Abstract!AppendString, Abstract!Open
  <2>4. CASE Array!NoMemory
    <3>1. ArrayInv' /\ Abstract!Reads(-1)
      BY <1>2, <2>4, ArrayReads DEF Array!NoMemory
    <3> QED
      BY <2>1, <3>1 DEF Abstract!AppendString, Abstract!Open
  <2> QED
    BY <1>5, <2>3, <2>4 DEF Array!SbAppend, Array!Terminator
<1>6. ASSUME Array!SbBuild
      PROVE  ArrayInv' /\ Abstract!Build
  <2> DEFINE S == {i \in 0 .. cap : i = cap \/ data[i] = 0}
  <2>1. (CHOOSE x \in S : \A y \in S : x =< y) = len
    <3>1. S \subseteq Int /\ len \in S /\ \A j \in S : len <= j
      BY <1>1, <1>2
    <3> QED
      BY <3>1, MinIs
  <2>2. Array!Min(S) = len
    BY <2>1 DEF Array!Min
  <2>3. state = "open" /\ (Array!Answers([i \in 1 .. len |-> data[i - 1]]) \/ Array!Reads(0))
    BY <1>6, <2>2 DEF Array!SbBuild, Array!Terminator, Array!Open
  <2>4. c = [i \in 1 .. len |-> data[i - 1]]
    BY DEF c, Held
  <2>5. CASE Array!Answers(c)
    BY <1>2, <1>3, <2>3, <2>5, ArrayAnswers DEF Abstract!Build, Abstract!Open
  <2>6. CASE Array!Reads(0)
    BY <1>2, <2>3, <2>6, ArrayReads DEF Abstract!Build, Abstract!Open
  <2> QED
    BY <2>3, <2>4, <2>5, <2>6
<1>7. ASSUME Array!SbClear
      PROVE  ArrayInv' /\ Abstract!Clear
  <2> DEFINE r == [i \in DOMAIN data |-> IF i = 0 THEN 0 ELSE data[i]]
  <2>1. state = "open" /\ Array!Writes(r, cap, 0) /\ Array!Returns(0)
    BY <1>7 DEF Array!SbClear, Array!Open, Array!Terminator
  <2>2. DOMAIN r = 0 .. cap - 1 /\ (cap > 0 => 0 < cap /\ r[0] = 0)
    BY <1>1
  <2> HIDE DEF r
  <2>3. Held(r, 0) = << >>
    BY HeldIs
  <2>4. cap \in 0 .. MaxCap /\ 0 \in 0 .. cap /\ \A j \in 0 .. 0 - 1 : r[j] \in Words
    BY <1>1
  <2>5. ArrayInv' /\ Abstract!Holds(<< >>, 0)
    BY <1>1, <2>1, <2>2, <2>3, <2>4, ArrayWrites DEF Array!Writes, Array!Returns
  <2> QED
    BY <2>1, <2>5 DEF Abstract!Clear, Abstract!Open, Abstract!Sequential
<1> QED
  BY <1>5, <1>6, <1>7

\* The modules of the model count with the same operator as the theorems.
LEMMA SameCount ==
  ASSUME NEW S
  PROVE  /\ Abstract!Cardinality(S) = Cardinality(S)
         /\ List!Cardinality(S) = Cardinality(S)
         /\ BitPair!Cardinality(S) = Cardinality(S)
<1> QED
  BY DEF Abstract!Cardinality, List!Cardinality, BitPair!Cardinality, Cardinality

\* n different things.
LEMMA CountOf ==
  ASSUME NEW n \in Nat, NEW q, DOMAIN q = 1 .. n, q = [i \in 1 .. n |-> q[i]],
         \A i, j \in 1 .. n : q[i] = q[j] => i = j,
         NEW S, S = {q[i] : i \in 1 .. n}
  PROVE  Cardinality(S) = n /\ IsFiniteSet(S)
<1>1. q \in [1 .. n -> S]
  OBVIOUS
<1>2. q \in Bijection(1 .. n, S)
  <2>1. \A t \in S : \E i \in 1 .. n : q[i] = t
    OBVIOUS
  <2>2. q \in Injection(1 .. n, S) /\ q \in Surjection(1 .. n, S)
    BY <1>1, <2>1 DEF Injection, Surjection, IsInjective
  <2> QED
    BY <2>2 DEF Bijection
<1>3. ExistsBijection(1 .. n, S)
  BY <1>2 DEF ExistsBijection
<1>4. IsFiniteSet(1 .. n)
  BY FS_Interval
<1> QED
  BY <1>3, <1>4, FS_CountingElements, FS_Bijection

LEMMA SetCount ==
  ASSUME ArrayInv, kind = "set"
  PROVE  Cardinality({data[i] : i \in 0 .. len - 1}) = len
<1> DEFINE q == [i \in 1 .. len |-> data[i - 1]]
           S == {data[i] : i \in 0 .. len - 1}
<1>1. /\ len \in Nat /\ \A j \in 0 .. len - 1 : data[j] \in Int
      /\ \A i \in 1 .. len - 1 : data[i - 1] < data[i]
  BY ArrayFacts DEF ArrayInv, Array!WellFormed
<1>2. \A i, j \in 0 .. len - 1 : i < j => data[i] < data[j]
  BY <1>1, Ordered
<1>3. \A i, j \in 1 .. len : q[i] = q[j] => i = j
  <2> SUFFICES ASSUME NEW i \in 1 .. len, NEW j \in 1 .. len, data[i - 1] = data[j - 1] PROVE i = j
    OBVIOUS
  <2>1. i - 1 \in 0 .. len - 1 /\ j - 1 \in 0 .. len - 1 /\ data[i - 1] \in Int
    BY <1>1
  <2>2. ~(i - 1 < j - 1) /\ ~(j - 1 < i - 1)
    BY <1>1, <1>2, <2>1
  <2> QED
    BY <1>1, <2>1, <2>2
<1>4. DOMAIN q = 1 .. len /\ q = [i \in 1 .. len |-> q[i]]
  OBVIOUS
<1>5. S = {q[i] : i \in 1 .. len}
  <2>1. \A i \in 0 .. len - 1 : i + 1 \in 1 .. len /\ q[i + 1] = data[i]
    BY <1>1
  <2>2. \A i \in 1 .. len : i - 1 \in 0 .. len - 1 /\ q[i] = data[i - 1]
    BY <1>1
  <2> HIDE DEF q
  <2> QED
    BY <2>1, <2>2
<1> HIDE DEF q, S
<1>6. Cardinality(S) = len
  BY <1>1, <1>3, <1>4, <1>5, CountOf
<1> QED
  BY <1>6 DEF S

\* The calls that every array has.
LEMMA ArraySteps ==
  ASSUME ArrayInv, kind \in ArrayKinds, UNCHANGED sets, clean = {1, 2}
  PROVE  /\ Array!New => ArrayInv' /\ (Abstract!New \/ Abstract!Fault)
         /\ Array!Refuse => ArrayInv' /\ Abstract!Refuse
         /\ Array!Free => ArrayInv' /\ Abstract!Free
         /\ Array!Length => ArrayInv' /\ Abstract!Length
<1>1. /\ len \in Nat /\ cap \in Nat /\ len <= cap /\ cap <= MaxCap /\ MaxCap \in Nat
      /\ DOMAIN data = 0 .. cap - 1
      /\ \A j \in 0 .. len - 1 : data[j] \in Words /\ data[j] \in Int /\ data[j] # 0
  BY ArrayFacts
<1>2. kind' = kind /\ len' = 0 => Contents' = Abstract!Nothing
  <2> SUFFICES ASSUME kind' = kind, len' = 0 PROVE Contents' = Abstract!Nothing
    OBVIOUS
  <2>1. Held(data', 0) = << >>
    BY DEF Held
  <2>2. 0 .. 0 - 1 = {}
    OBVIOUS
  <2> QED
    BY <2>1, <2>2, ArrayHoldsNext DEF Abstract!Nothing, ArrayKinds
<1>3. (Contents = Abstract!Nothing /\ cap = 0 /\ len = 0) \/ state # "null"
  <2> SUFFICES ASSUME state = "null" PROVE Contents = Abstract!Nothing /\ cap = 0 /\ len = 0
    OBVIOUS
  <2>1. Held(data, 0) = << >> /\ len = 0 /\ cap = 0
    BY DEF Held, ArrayInv
  <2>2. 0 .. 0 - 1 = {}
    OBVIOUS
  <2> QED
    BY <2>1, <2>2, ArrayHolds DEF Abstract!Nothing, ArrayKinds
<1>4. ASSUME UNCHANGED <<kind, data, len, cap>>
      PROVE  Contents' = Contents /\ Array!WellFormed'
  BY <1>4, ArrayHolds, ArrayHoldsNext DEF ArrayInv, Array!WellFormed, ArrayKinds
<1>5. ASSUME NEW n \in 0 .. MaxCap, kind' = kind, data' = Array!Malloc(n), len' = 0, cap' = n,
             kind = "builder" => n = 0
      PROVE  Array!WellFormed'
  <2>1. DOMAIN data' = 0 .. cap' - 1
    BY <1>5 DEF Array!Malloc
  <2> QED
    BY <1>1, <1>5, <2>1 DEF Array!WellFormed
<1>6. ASSUME Array!New
      PROVE  ArrayInv' /\ (Abstract!New \/ Abstract!Fault)
  <2>1. state = "null" /\ cap = 0 /\ len = 0 /\ Contents = Abstract!Nothing /\ UNCHANGED <<sizes, clean>>
    BY <1>3, <1>6 DEF Array!New, sets
  <2>2. CASE /\ state' = "open" /\ UNCHANGED <<len, kind, answer>>
             /\ cap' \in IF kind = "vector" THEN 0 .. MaxCap ELSE {0}
             /\ data' = Array!Malloc(cap')
    <3>1. cap' \in 0 .. MaxCap /\ (kind = "builder" => cap' = 0)
      BY <1>1, <2>2
    <3>2. Array!WellFormed' /\ Contents' = Abstract!Nothing
      BY <1>2, <1>5, <2>1, <2>2, <3>1
    <3> QED
      BY <2>1, <2>2, <3>2 DEF ArrayInv, Abstract!New
  <2>3. CASE /\ state' = (IF kind = "sorted" THEN "fault" ELSE "null")
             /\ UNCHANGED <<kind, Array!block, answer>>
    <3>1. UNCHANGED <<kind, data, len, cap, answer>>
      BY <2>3 DEF Array!block
    <3>2. Contents' = Contents /\ Array!WellFormed'
      BY <1>4, <3>1
    <3>3. CASE kind = "sorted"
      BY <2>1, <2>3, <3>1, <3>2, <3>3 DEF ArrayInv, Abstract!Fault, Abstract!Unchecked
    <3>4. CASE kind # "sorted"
      BY <2>1, <2>3, <3>1, <3>2, <3>4 DEF ArrayInv, Abstract!New
    <3> QED
      BY <3>3, <3>4
  <2> QED
    BY <1>6, <2>2, <2>3 DEF Array!New
<1>7. ASSUME Array!Refuse
      PROVE  ArrayInv' /\ Abstract!Refuse
  <2>1. state = "null"
    BY <1>7 DEF Array!Refuse
  <2>2. ASSUME NEW v \in {0, -1}, Array!Reads(v)
        PROVE  ArrayInv' /\ Abstract!Refuse
    BY <2>1, <2>2, ArrayReads DEF Abstract!Refuse
  <2>3. CASE kind = "builder" /\ Array!Answers(<< >>)
    BY <2>1, <2>3, ArrayAnswers DEF Abstract!Refuse
  <2> QED
    BY <1>7, <2>2, <2>3 DEF Array!Refuse
<1>8. ASSUME Array!Free
      PROVE  ArrayInv' /\ Abstract!Free
  <2>1. /\ state = "open" /\ state' = "null" /\ UNCHANGED <<kind, answer, sizes, clean>>
        /\ data' = Array!Malloc(0) /\ len' = 0 /\ cap' = 0
    BY <1>8 DEF Array!Free, sets
  <2>2. Array!WellFormed' /\ Contents' = Abstract!Nothing
    BY <1>1, <1>2, <1>5, <2>1
  <2> QED
    BY <2>1, <2>2 DEF ArrayInv, Abstract!Free
<1>9. ASSUME Array!Length
      PROVE  ArrayInv' /\ Abstract!Length
  <2>1. state = "open" /\ Array!Reads(len)
    BY <1>9 DEF Array!Length
  <2>2. ArrayInv' /\ Abstract!Reads(len)
    BY <2>1, ArrayReads
  <2>3. len = IF kind = "set" THEN Abstract!Cardinality(Contents) ELSE Len(Contents)
    BY <1>1, HeldIs, ArrayHolds, SetCount, SameCount DEF ArrayKinds
  <2>4. Abstract!Open(Abstract!Sequential \cup {"set", "sorted"}) \/ kind = "list"
    BY <2>1 DEF Abstract!Open, Abstract!Sequential, ArrayKinds
  <2> QED
    BY <2>2, <2>3, <2>4 DEF Abstract!Length, ArrayKinds
<1> QED
  BY <1>6, <1>7, <1>8, <1>9

-----------------------------------------------------------------------------
(***************************************************************************)
(* The arrays that are kept in order.                                      *)
(***************************************************************************)
Rising(d, n) == \A i \in 1 .. n - 1 : d[i - 1] < d[i]
Steady(d, n) == \A i \in 1 .. n - 1 : d[i - 1] <= d[i]
Members(d, n) == {d[i] : i \in 0 .. n - 1}

\* A call of a set or a sorted vector that changes the block.
LEMMA OrderedWrites ==
  ASSUME ArrayInv, kind \in {"set", "sorted"}, state = "open", UNCHANGED sets,
         NEW r, NEW n, NEW l, NEW v,
         data' = r, cap' = n, len' = l, answer' = <<v>>, UNCHANGED <<kind, state>>,
         n \in 0 .. MaxCap, l \in 0 .. n, DOMAIN r = 0 .. n - 1,
         \A i \in 0 .. l - 1 : r[i] \in Words,
         kind = "set" => Rising(r, l), kind = "sorted" => Steady(r, l)
  PROVE  /\ ArrayInv' /\ Abstract!Returns(v)
         /\ kind = "set" => Contents' = {r[i] : i \in 0 .. l - 1}
         /\ kind = "sorted" => Contents' = Held(r, l)
<1>1. UNCHANGED <<kind, state, sizes, clean>>
  BY DEF sets
<1>2. ArrayInv'
  BY <1>1 DEF ArrayInv, Array!WellFormed, Rising, Steady
<1> QED
  BY <1>1, <1>2, ArrayHoldsNext DEF Abstract!Returns, ArrayKinds

\* w is put at place p of the n words of d.
Puts(d, n, w, p, e) ==
  /\ \A i \in 0 .. p - 1 : e[i] = d[i]
  /\ e[p] = w
  /\ \A i \in p + 1 .. n : e[i] = d[i - 1]

LEMMA PutIs ==
  ASSUME NEW n \in Nat, NEW d, \A i \in 0 .. n - 1 : d[i] \in Words, NEW w \in Words,
         NEW p \in 0 .. n, NEW e, Puts(d, n, w, p, e)
  PROVE  /\ \A i \in 0 .. n : e[i] \in Words
         /\ Members(e, n + 1) = Members(d, n) \cup {w}
         /\ (Rising(d, n) /\ (\A i \in 0 .. p - 1 : d[i] < w) /\ (\A i \in p .. n - 1 : w < d[i]))
              => Rising(e, n + 1)
         /\ (Steady(d, n) /\ (\A i \in 0 .. p - 1 : d[i] <= w) /\ (\A i \in p .. n - 1 : w <= d[i]))
              => Steady(e, n + 1)
<1>1. /\ \A i \in 0 .. p - 1 : e[i] = d[i]
      /\ e[p] = w
      /\ \A i \in p + 1 .. n : e[i] = d[i - 1]
  BY DEF Puts
<1>2. \A i \in 0 .. n : i < p \/ i = p \/ (i \in p + 1 .. n /\ i - 1 \in 0 .. n - 1)
  OBVIOUS
<1>3. \A i \in 0 .. n : e[i] \in Words
  BY <1>1, <1>2
<1>4. {e[i] : i \in 0 .. n} = {d[i] : i \in 0 .. n - 1} \cup {w}
  <2>1. \A i \in 0 .. n : e[i] = w \/ \E j \in 0 .. n - 1 : e[i] = d[j]
    BY <1>1, <1>2
  <2>2. \A j \in 0 .. n - 1 : \E i \in 0 .. n : e[i] = d[j]
    <3> SUFFICES ASSUME NEW j \in 0 .. n - 1 PROVE \E i \in 0 .. n : e[i] = d[j]
      OBVIOUS
    <3>1. CASE j < p
      BY <1>1, <3>1
    <3>2. CASE j >= p
      <4>1. j + 1 \in p + 1 .. n /\ (j + 1) - 1 = j
        BY <3>2
      <4>2. e[j + 1] = d[j] /\ j + 1 \in 0 .. n
        BY <1>1, <4>1
      <4> QED
        BY <4>2
    <3> QED
      BY <3>1, <3>2
  <2> QED
    BY <1>1, <2>1, <2>2
<1>5. ASSUME NEW i \in 1 .. (n + 1) - 1
      PROVE  \/ i < p /\ i \in 1 .. n - 1 /\ e[i - 1] = d[i - 1] /\ e[i] = d[i]
             \/ i = p /\ i - 1 \in 0 .. p - 1 /\ e[i - 1] = d[i - 1] /\ e[i] = w
             \/ i = p + 1 /\ i - 1 \in p .. n - 1 /\ e[i - 1] = w /\ e[i] = d[i - 1]
             \/ i > p + 1 /\ i - 1 \in 1 .. n - 1 /\ e[i - 1] = d[(i - 1) - 1] /\ e[i] = d[i - 1]
  <2>1. CASE i < p
    BY <1>1, <2>1
  <2>2. CASE i = p
    BY <1>1, <2>2
  <2>3. CASE i = p + 1
    BY <1>1, <2>3
  <2>4. CASE i > p + 1
    <3>1. i \in p + 1 .. n /\ i - 1 \in p + 1 .. n /\ i - 1 \in 1 .. n - 1
      BY <2>4
    <3> QED
      BY <1>1, <2>4, <3>1
  <2> QED
    BY <2>1, <2>2, <2>3, <2>4
<1>6. ASSUME Rising(d, n), \A i \in 0 .. p - 1 : d[i] < w, \A i \in p .. n - 1 : w < d[i]
      PROVE  Rising(e, n + 1)
  BY <1>5, <1>6 DEF Rising
<1>7. ASSUME Steady(d, n), \A i \in 0 .. p - 1 : d[i] <= w, \A i \in p .. n - 1 : w <= d[i]
      PROVE  Steady(e, n + 1)
  BY <1>5, <1>7 DEF Steady
<1>8. Members(e, n + 1) = Members(d, n) \cup {w}
  <2>1. (n + 1) - 1 = n
    OBVIOUS
  <2> QED
    BY <1>4, <2>1 DEF Members
<1> QED
  BY <1>3, <1>6, <1>7, <1>8

Places(d, n, x) == {i \in 1 .. n : d[i - 1] = x}

\* Every word but w is as often there as before.
LEMMA PutCount ==
  ASSUME NEW n \in Nat, NEW d, NEW w, NEW p \in 0 .. n, NEW e, Puts(d, n, w, p, e), NEW x
  PROVE  Cardinality(Places(e, n + 1, x)) = Cardinality(Places(d, n, x)) + (IF x = w THEN 1 ELSE 0)
<1> DEFINE A == {i \in 1 .. n : d[i - 1] = x}
           B == {i \in 1 .. n + 1 : e[i - 1] = x}
           C == B \ {p + 1}
           g == [i \in A |-> IF i <= p THEN i ELSE i + 1]
<1>1. /\ \A i \in 0 .. p - 1 : e[i] = d[i]
      /\ e[p] = w
      /\ \A i \in p + 1 .. n : e[i] = d[i - 1]
  BY DEF Puts
<1>2. \A i \in A : g[i] \in C
  <2> SUFFICES ASSUME NEW i \in A PROVE g[i] \in C
    OBVIOUS
  <2>1. CASE i <= p
    BY <1>1, <2>1
  <2>2. CASE i > p
    <3>1. i \in p + 1 .. n /\ (i + 1) - 1 = i /\ i + 1 \in 1 .. n + 1 /\ i + 1 # p + 1
      BY <2>2
    <3>2. e[(i + 1) - 1] = x
      BY <1>1, <3>1
    <3> QED
      BY <2>2, <3>1, <3>2
  <2> QED
    BY <2>1, <2>2
<1>3. \A t \in C : \E i \in A : g[i] = t
  <2> SUFFICES ASSUME NEW t \in C PROVE \E i \in A : g[i] = t
    OBVIOUS
  <2>1. CASE t <= p
    <3>1. t \in A
      BY <1>1, <2>1
    <3> QED
      BY <2>1, <3>1
  <2>2. CASE t > p
    <3>1. t - 1 \in p + 1 .. n /\ (t - 1) + 1 = t /\ ~(t - 1 <= p)
      BY <2>2
    <3>2. t - 1 \in A
      BY <1>1, <3>1
    <3>3. g[t - 1] = t
      BY <3>1, <3>2
    <3> QED
      BY <3>2, <3>3
  <2> QED
    BY <2>1, <2>2
<1>4. \A i, j \in A : g[i] = g[j] => i = j
  OBVIOUS
<1>5. g \in [A -> C]
  BY <1>2
<1>6. IsFiniteSet(A) /\ IsFiniteSet(B)
  <2>1. IsFiniteSet(1 .. n) /\ IsFiniteSet(1 .. n + 1)
    BY FS_Interval
  <2>2. A \in SUBSET (1 .. n) /\ B \in SUBSET (1 .. n + 1)
    OBVIOUS
  <2> HIDE DEF A, B
  <2> QED
    BY <2>1, <2>2, FS_Subset
<1>7. p + 1 \in B <=> x = w
  BY <1>1
<1> HIDE DEF A, B, g
<1>8. g \in Bijection(A, C)
  BY <1>3, <1>4, <1>5 DEF Bijection, Injection, Surjection, IsInjective
<1>9. Cardinality(C) = Cardinality(A)
  BY <1>6, <1>8, FS_Bijection DEF ExistsBijection
<1>10. Cardinality(C) = IF p + 1 \in B THEN Cardinality(B) - 1 ELSE Cardinality(B)
  BY <1>6, FS_RemoveElement
<1>11. Cardinality(A) \in Nat /\ Cardinality(B) \in Nat
  BY <1>6, FS_CardinalityType
<1> HIDE DEF C
<1>12. Cardinality(B) = Cardinality(A) + (IF x = w THEN 1 ELSE 0)
  BY <1>7, <1>9, <1>10, <1>11
<1> QED
  BY <1>12 DEF A, B, Places

\* The word at place p of the n words of d is taken out.
Takes(d, n, p, e) ==
  (\A j \in 0 .. p - 1 : e[j] = d[j]) /\ (\A j \in p .. n - 2 : e[j] = d[j + 1])

LEMMA TakenOut ==
  ASSUME NEW n \in Nat, NEW d, \A i \in 0 .. n - 1 : d[i] \in Words, NEW p \in 0 .. n - 1,
         NEW e, Takes(d, n, p, e)
  PROVE  /\ \A j \in 0 .. n - 2 : e[j] \in Words
         /\ Rising(d, n) => Rising(e, n - 1) /\ Members(e, n - 1) = Members(d, n) \ {d[p]}
         /\ Steady(d, n) => Steady(e, n - 1)
<1>0. (\A j \in 0 .. p - 1 : e[j] = d[j]) /\ (\A j \in p .. n - 2 : e[j] = d[j + 1])
  BY DEF Takes
<1>1. \A i \in Words : i \in Int
  BY DataAssumption
<1>2. \A i \in 0 .. n - 1 : d[i] \in Int
  BY <1>1
<1>3. \A j \in 0 .. n - 2 : \E k \in 0 .. n - 1 : k # p /\ e[j] = d[k]
  <2> SUFFICES ASSUME NEW j \in 0 .. n - 2 PROVE \E k \in 0 .. n - 1 : k # p /\ e[j] = d[k]
    OBVIOUS
  <2>1. CASE j < p
    BY <1>0, <2>1
  <2>2. CASE j >= p
    <3>1. j \in p .. n - 2 /\ j + 1 \in 0 .. n - 1 /\ j + 1 # p
      BY <2>2
    <3> QED
      BY <1>0, <3>1
  <2> QED
    BY <2>1, <2>2
<1>4. ASSUME NEW i \in 1 .. (n - 1) - 1
      PROVE  \E j, k \in 0 .. n - 1 : j < k /\ e[i - 1] = d[j] /\ e[i] = d[k]
  <2>1. CASE i < p
    BY <1>0, <2>1
  <2>2. CASE i = p
    <3>1. i \in p .. n - 2 /\ i + 1 \in 0 .. n - 1 /\ i - 1 \in 0 .. p - 1 /\ i - 1 \in 0 .. n - 1 /\ i - 1 < i + 1
      BY <2>2
    <3> QED
      BY <1>0, <3>1
  <2>3. CASE i > p
    <3>1. i \in p .. n - 2 /\ i - 1 \in p .. n - 2 /\ i + 1 \in 0 .. n - 1 /\ i \in 0 .. n - 1
          /\ (i - 1) + 1 = i /\ i < i + 1
      BY <2>3
    <3>2. e[i] = d[i + 1] /\ e[i - 1] = d[i]
      BY <1>0, <3>1
    <3> QED
      BY <3>1, <3>2
  <2> QED
    BY <2>1, <2>2, <2>3
<1>5. ASSUME Steady(d, n)
      PROVE  Steady(e, n - 1)
  <2>1. \A i, j \in 0 .. n - 1 : i <= j => d[i] <= d[j]
    BY <1>2, <1>5, Ordered DEF Steady
  <2>2. \A i, j \in 0 .. n - 1 : i < j => d[i] <= d[j]
    BY <2>1
  <2> QED
    BY <1>4, <2>2 DEF Steady
<1>6. ASSUME Rising(d, n)
      PROVE  Rising(e, n - 1) /\ {e[i] : i \in 0 .. n - 2} = {d[i] : i \in 0 .. n - 1} \ {d[p]}
  <2>1. \A i, j \in 0 .. n - 1 : i < j => d[i] < d[j]
    BY <1>2, <1>6, Ordered DEF Rising
  <2>2. Rising(e, n - 1)
    BY <1>4, <2>1 DEF Rising
  <2>3. \A k \in 0 .. n - 1 : k # p => d[k] # d[p]
    <3> SUFFICES ASSUME NEW k \in 0 .. n - 1, k # p PROVE d[k] # d[p]
      OBVIOUS
    <3>1. d[k] \in Int /\ d[p] \in Int /\ (d[k] < d[p] \/ d[p] < d[k])
      BY <1>2, <2>1
    <3> QED
      BY <3>1
  <2>4. \A k \in 0 .. n - 1 : k # p => \E j \in 0 .. n - 2 : e[j] = d[k]
    <3> SUFFICES ASSUME NEW k \in 0 .. n - 1, k # p PROVE \E j \in 0 .. n - 2 : e[j] = d[k]
      OBVIOUS
    <3>1. CASE k < p
      BY <1>0, <3>1
    <3>2. CASE k > p
      <4>1. k - 1 \in p .. n - 2 /\ (k - 1) + 1 = k /\ k - 1 \in 0 .. n - 2
        BY <3>2
      <4>2. e[k - 1] = d[k]
        BY <1>0, <4>1
      <4> QED
        BY <4>1, <4>2
    <3> QED
      BY <3>1, <3>2
  <2>5. \A x : x \in {e[i] : i \in 0 .. n - 2} <=> x \in {d[i] : i \in 0 .. n - 1} \ {d[p]}
    <3>1. \A x : x \in {e[i] : i \in 0 .. n - 2} => x \in {d[i] : i \in 0 .. n - 1} \ {d[p]}
      BY <1>3, <2>3
    <3>2. \A x : x \in {d[i] : i \in 0 .. n - 1} \ {d[p]} => x \in {e[i] : i \in 0 .. n - 2}
      BY <2>4
    <3> QED
      BY <3>1, <3>2
  <2> QED
    BY <2>2, <2>5
<1>7. \A j \in 0 .. n - 2 : e[j] \in Words
  BY <1>3
<1>8. (n - 1) - 1 = n - 2
  OBVIOUS
<1> QED
  BY <1>5, <1>6, <1>7, <1>8 DEF Members

\* What InsertAt writes: the words moved up make room at p.
LEMMA InsertIs ==
  ASSUME ArrayInv, NEW n \in cap .. MaxCap, Array!Grown(n), NEW p \in 0 .. len, NEW w, Array!InsertAt(p, n, w)
  PROVE  /\ cap' = n /\ len' = len + 1 /\ len < n
         /\ DOMAIN data' = 0 .. n - 1 /\ Puts(data, len, w, p, data')
<1>1. /\ len \in Nat /\ cap \in Nat /\ len <= cap /\ MaxCap \in Nat /\ DOMAIN data = 0 .. cap - 1
  BY ArrayFacts
<1>2. n \in Nat /\ len < n /\ p \in 0 .. n - 1
  BY <1>1, DoubledIs DEF Array!Grown
<1> DEFINE big == [i \in 0 .. n - 1 |-> IF i < cap THEN data[i] ELSE Garbage]
           f == [i \in DOMAIN big |->
                   IF i \in p + 1 .. p + 1 + (len - p) - 1 THEN big[p + i - (p + 1)] ELSE big[i]]
<1>3. cap' = n /\ len' = len + 1 /\ data' = [f EXCEPT ![p] = w]
  BY DEF Array!InsertAt, Array!Writes, Array!Moved, Array!Realloc
<1>4. DOMAIN big = 0 .. n - 1 /\ \A i \in 0 .. len - 1 : big[i] = data[i]
  BY <1>1, <1>2
<1> HIDE DEF big
<1>5. DOMAIN f = 0 .. n - 1
  BY <1>4
<1>6. \A i \in 0 .. p - 1 : f[i] = data[i]
  BY <1>1, <1>2, <1>4
<1>7. ASSUME NEW i \in p + 1 .. len
      PROVE  f[i] = data[i - 1]
  <2>1. i \in p + 1 .. p + 1 + (len - p) - 1 /\ p + i - (p + 1) = i - 1 /\ i \in 0 .. n - 1 /\ i - 1 \in 0 .. len - 1
    BY <1>1, <1>2
  <2>2. f[i] = big[i - 1]
    BY <1>4, <2>1
  <2> QED
    BY <1>4, <2>1, <2>2
<1> HIDE DEF f
<1>8. DOMAIN data' = 0 .. n - 1 /\ data'[p] = w /\ \A i \in 0 .. n - 1 : i # p => data'[i] = f[i]
  BY <1>2, <1>3, <1>5
<1>9. \A i \in 0 .. p - 1 : i \in 0 .. n - 1 /\ i # p
  BY <1>1, <1>2
<1>10. \A i \in p + 1 .. len : i \in 0 .. n - 1 /\ i # p
  BY <1>1, <1>2
<1>11. (\A i \in 0 .. p - 1 : data'[i] = data[i]) /\ \A i \in p + 1 .. len : data'[i] = data[i - 1]
  BY <1>6, <1>7, <1>8, <1>9, <1>10
<1> QED
  BY <1>2, <1>3, <1>8, <1>11 DEF Puts

\* The block is one word short of the room that an insertion needs.
LEMMA FaultStep ==
  ASSUME ArrayInv, kind \in {"set", "sorted"}, state = "open", UNCHANGED sets, Array!Fault
  PROVE  ArrayInv' /\ Abstract!Fault
<1>1. state' = "fault" /\ UNCHANGED <<kind, data, len, cap, answer, sizes, clean>>
  BY DEF Array!Fault, Array!block, sets
<1>2. Contents' = Contents
  BY <1>1, ArrayHolds, ArrayHoldsNext DEF ArrayKinds
<1> QED
  BY <1>1, <1>2 DEF ArrayInv, Array!WellFormed, Abstract!Fault, Abstract!Unchecked

\* Where a set holds w, and whether.
LEMMA FoundIs ==
  ASSUME ArrayInv, kind \in {"set", "sorted"}, NEW w \in Words
  PROVE  /\ Bounds(data, len, w, Array!LowerBound(w))
         /\ Array!FoundAt(Array!LowerBound(w), w) <=> w \in {data[i] : i \in 0 .. len - 1}
<1> DEFINE p == Array!LowerBound(w)
<1>1. /\ len \in Nat /\ \A j \in 0 .. len - 1 : data[j] \in Int
      /\ \A i \in 1 .. len - 1 : data[i - 1] <= data[i]
  <2>1. /\ len \in Nat /\ \A j \in 0 .. len - 1 : data[j] \in Int
    BY ArrayFacts
  <2>2. \A i \in 1 .. len - 1 : data[i - 1] < data[i] \/ data[i - 1] <= data[i]
    BY DEF ArrayInv, Array!WellFormed
  <2>3. \A i \in 1 .. len - 1 : i - 1 \in 0 .. len - 1 /\ i \in 0 .. len - 1
    BY <2>1
  <2> QED
    BY <2>1, <2>2, <2>3
<1>2. w \in Int
  BY DataAssumption
<1>3. Bounds(data, len, w, p)
  BY <1>1, <1>2, LowerBoundIs
<1>4. Array!FoundAt(p, w) <=> p < len /\ data[p] = w
  BY DEF Array!FoundAt
<1> HIDE DEF p
<1>5. p \in 0 .. len /\ (\A i \in 0 .. p - 1 : data[i] < w) /\ (\A i \in p .. len - 1 : w <= data[i])
  BY <1>3 DEF Bounds
<1>6. ASSUME NEW i \in 0 .. len - 1, data[i] = w
      PROVE  p < len /\ data[p] = w
  <2>1. p <= i /\ p \in 0 .. len - 1
    BY <1>1, <1>2, <1>5, <1>6
  <2>2. data[p] <= data[i]
    BY <1>1, <2>1, Ordered
  <2>3. data[p] \in Int /\ w <= data[p]
    BY <1>1, <1>5, <2>1
  <2> QED
    BY <1>1, <1>2, <1>6, <2>1, <2>2, <2>3
<1>7. p < len /\ data[p] = w <=> w \in {data[i] : i \in 0 .. len - 1}
  BY <1>1, <1>5, <1>6
<1> QED
  BY <1>3, <1>4, <1>7 DEF p

LEMMA SetSteps ==
  ASSUME ArrayInv, kind = "set", UNCHANGED sets, NEW w \in Words
  PROVE  /\ Array!SetInsert(w) => ArrayInv' /\ (Abstract!InsertWord(w) \/ Abstract!Fault)
         /\ Array!SetContains(w) => ArrayInv' /\ Abstract!HasWord(w)
         /\ Array!SetRemove(w) => ArrayInv' /\ Abstract!RemoveWord(w)
<1> DEFINE p == Array!LowerBound(w)
           found == Array!FoundAt(p, w)
<1>1. /\ len \in Nat /\ cap \in Nat /\ len <= cap /\ cap <= MaxCap /\ MaxCap \in Nat
      /\ DOMAIN data = 0 .. cap - 1
      /\ \A j \in 0 .. len - 1 : data[j] \in Words
      /\ \A j \in 0 .. len - 1 : data[j] \in Int
  BY ArrayFacts
<1>2. kind \in ArrayKinds /\ w \in Int
  BY DataAssumption DEF ArrayKinds
<1>3. Contents = {data[i] : i \in 0 .. len - 1}
  BY ArrayHolds
<1>4. Rising(data, len)
  BY DEF ArrayInv, Array!WellFormed, Rising
<1>5. Bounds(data, len, w, p) /\ (found <=> w \in Contents)
  BY <1>3, FoundIs
<1>6. found <=> p < len /\ data[p] = w
  BY DEF Array!FoundAt
<1>7. ASSUME Array!SetInsert(w)
      PROVE  ArrayInv' /\ (Abstract!InsertWord(w) \/ Abstract!Fault)
  <2>1. /\ state = "open"
        /\ \/ found /\ Array!Reads(0)
           \/ ~found /\ \E n \in cap .. MaxCap : Array!Grown(n) /\ Array!InsertAt(p, n, w) /\ Array!Returns(1)
           \/ ~found /\ len >= cap /\ Array!Fault
    BY <1>7 DEF Array!SetInsert, Array!Open
  <2> HIDE DEF p, found
  <2>2. CASE found /\ Array!Reads(0)
    <3>1. ArrayInv' /\ Abstract!Reads(0)
      BY <1>2, <2>2, ArrayReads
    <3>2. w \in Contents /\ Contents \cup {w} = Contents
      BY <1>5, <2>2
    <3> QED
      BY <2>1, <3>1, <3>2 DEF Abstract!InsertWord, Abstract!Open, Abstract!Holds, Abstract!Reads, Abstract!Answers, Abstract!Returns
  <2>3. ASSUME ~found, NEW n \in cap .. MaxCap, Array!Grown(n), Array!InsertAt(p, n, w), Array!Returns(1)
        PROVE  ArrayInv' /\ Abstract!InsertWord(w)
    <3>1. p \in 0 .. len /\ (\A i \in 0 .. p - 1 : data[i] < w) /\ (\A i \in p .. len - 1 : w <= data[i])
      BY <1>5 DEF Bounds
    <3>2. \A i \in p .. len - 1 : w < data[i]
      <4>1. \A i \in p .. len - 1 : data[i] # w
        BY <1>1, <1>3, <1>5, <2>3, <3>1
      <4>2. \A i \in p .. len - 1 : data[i] \in Int
        BY <1>1, <3>1
      <4> QED
        BY <1>2, <3>1, <4>1, <4>2
    <3>3. /\ cap' = n /\ len' = len + 1 /\ len < n
          /\ DOMAIN data' = 0 .. n - 1 /\ Puts(data, len, w, p, data')
      BY <2>3, <3>1, InsertIs
    <3> DEFINE e == data'
               m == len + 1
    <3>4. Puts(data, len, w, p, e)
      BY <3>3
    <3> HIDE DEF e
    <3>5. /\ \A i \in 0 .. len : e[i] \in Words
          /\ Members(e, len + 1) = Members(data, len) \cup {w}
          /\ Rising(e, len + 1)
      BY <1>1, <1>4, <3>1, <3>2, <3>4, PutIs
    <3>6. m - 1 = len /\ n \in 0 .. MaxCap /\ m \in 0 .. n
      BY <1>1, <3>3
    <3>7. data' = e /\ cap' = n /\ len' = m /\ answer' = <<1>> /\ UNCHANGED <<kind, state>> /\ DOMAIN e = 0 .. n - 1
      BY <2>3, <3>3 DEF Array!Returns, e
    <3>8. (\A i \in 0 .. m - 1 : e[i] \in Words) /\ Rising(e, m) /\ {e[i] : i \in 0 .. m - 1} = Contents \cup {w}
      BY <1>3, <3>5, <3>6 DEF Members
    <3> HIDE DEF m
    <3>9. ArrayInv' /\ Abstract!Returns(1) /\ Contents' = Contents \cup {w}
      BY <2>1, <3>6, <3>7, <3>8, OrderedWrites
    <3> QED
      BY <1>5, <2>1, <2>3, <3>9 DEF Abstract!InsertWord, Abstract!Open, Abstract!Holds
  <2>4. CASE ~found /\ len >= cap /\ Array!Fault
    BY <2>1, <2>4, FaultStep
  <2> QED
    BY <2>1, <2>2, <2>3, <2>4
<1>8. ASSUME Array!SetContains(w)
      PROVE  ArrayInv' /\ Abstract!HasWord(w)
  <2>1. state = "open" /\ Array!Reads(IF found THEN 1 ELSE 0)
    BY <1>8 DEF Array!SetContains, Array!Open
  <2> HIDE DEF found
  <2>2. ArrayInv' /\ Abstract!Reads(IF found THEN 1 ELSE 0)
    BY <1>2, <2>1, ArrayReads
  <2> QED
    BY <1>5, <2>1, <2>2 DEF Abstract!HasWord, Abstract!Open
<1>9. ASSUME Array!SetRemove(w)
      PROVE  ArrayInv' /\ Abstract!RemoveWord(w)
  <2> DEFINE r == [j \in DOMAIN data |-> IF j \in p .. p + (len - p - 1) - 1 THEN data[p + 1 + j - p] ELSE data[j]]
             m == len - 1
  <2>1. /\ state = "open"
        /\ \/ found /\ data' = r /\ cap' = cap /\ len' = m /\ answer' = <<1>> /\ UNCHANGED <<kind, state>>
           \/ ~found /\ Array!Reads(0)
    BY <1>9 DEF Array!SetRemove, Array!Open, Array!Writes, Array!Returns, Array!Moved
  <2>0. r = [j \in DOMAIN data |-> IF j \in p .. p + (len - p - 1) - 1 THEN data[p + 1 + j - p] ELSE data[j]]
    OBVIOUS
  <2> HIDE DEF p, found, r
  <2>2. CASE found /\ data' = r /\ cap' = cap /\ len' = m /\ answer' = <<1>> /\ UNCHANGED <<kind, state>>
    <3>1. p \in 0 .. len - 1 /\ data[p] = w
      BY <1>1, <1>5, <1>6, <2>2 DEF Bounds
    <3>2. /\ DOMAIN r = 0 .. cap - 1 /\ \A j \in 0 .. p - 1 : r[j] = data[j]
          /\ \A j \in p .. len - 2 : r[j] = data[j + 1]
      BY <1>1, <2>0, <3>1, MovedDown
    <3>3. /\ \A j \in 0 .. len - 2 : r[j] \in Words
          /\ Rising(r, len - 1) /\ Members(r, len - 1) = Members(data, len) \ {data[p]}
      <4>1. Takes(data, len, p, r)
        BY <3>2 DEF Takes
      <4>2. \A j \in 0 .. len - 2 : r[j] \in Words
        BY <1>1, <1>4, <3>1, <4>1, TakenOut
      <4>3. Rising(r, len - 1)
        BY <1>1, <1>4, <3>1, <4>1, TakenOut
      <4>4. Members(r, len - 1) = Members(data, len) \ {data[p]}
        BY <1>1, <1>4, <3>1, <4>1, TakenOut
      <4> QED
        BY <4>2, <4>3, <4>4
    <3>4. m - 1 = len - 2 /\ cap \in 0 .. MaxCap /\ m \in 0 .. cap
      BY <1>1, <3>1
    <3>5. (\A j \in 0 .. m - 1 : r[j] \in Words) /\ Rising(r, m) /\ {r[i] : i \in 0 .. m - 1} = Contents \ {w}
      BY <1>3, <3>1, <3>3, <3>4 DEF Members
    <3> HIDE DEF m
    <3>6. ArrayInv' /\ Abstract!Returns(1) /\ Contents' = Contents \ {w}
      BY <2>1, <2>2, <3>2, <3>4, <3>5, OrderedWrites
    <3> QED
      BY <1>5, <2>1, <2>2, <3>6 DEF Abstract!RemoveWord, Abstract!Open, Abstract!Holds
  <2>3. CASE ~found /\ Array!Reads(0)
    <3>1. ArrayInv' /\ Abstract!Reads(0)
      BY <1>2, <2>3, ArrayReads
    <3>2. w \notin Contents /\ Contents \ {w} = Contents
      BY <1>5, <2>3
    <3> QED
      BY <2>1, <3>1, <3>2 DEF Abstract!RemoveWord, Abstract!Open, Abstract!Holds, Abstract!Reads, Abstract!Answers, Abstract!Returns
  <2> QED
    BY <2>1, <2>2, <2>3
<1> QED
  BY <1>7, <1>8, <1>9

\* The place for w in a sorted vector: behind the words up to it.
LEMMA PlaceIs ==
  ASSUME ArrayInv, kind = "sorted", NEW w \in Words
  PROVE  /\ Array!Place(w) \in 0 .. len
         /\ \A i \in 0 .. Array!Place(w) - 1 : data[i] <= w
         /\ \A i \in Array!Place(w) .. len - 1 : w <= data[i]
<1> DEFINE S == {i \in 0 .. len : i = 0 \/ data[i - 1] <= w}
<1>1. /\ len \in Nat /\ \A j \in 0 .. len - 1 : data[j] \in Int
      /\ \A i \in 1 .. len - 1 : data[i - 1] <= data[i]
  BY ArrayFacts DEF ArrayInv, Array!WellFormed
<1>2. \A i, j \in 0 .. len - 1 : i <= j => data[i] <= data[j]
  BY <1>1, Ordered
<1>3. w \in Int
  BY DataAssumption
<1>4. PICK p \in S : \A j \in S : j <= p
  <2>1. S \subseteq 0 .. len /\ 0 \in S
    BY <1>1
  <2> HIDE DEF S
  <2> QED
    BY <1>1, <2>1, GreatestUpTo
<1>5. (CHOOSE x \in S : \A y \in S : x >= y) = p
  <2>1. S \subseteq Int
    BY <1>1
  <2> HIDE DEF S
  <2> QED
    BY <1>4, <2>1, MaxIs
<1>6. Array!Place(w) = p
  BY <1>5 DEF Array!Place, Array!Max
<1>7. ASSUME NEW i \in 0 .. p - 1
      PROVE  data[i] <= w
  <2>1. p - 1 \in 0 .. len - 1 /\ i \in 0 .. len - 1 /\ i <= p - 1 /\ data[p - 1] <= w
    BY <1>1, <1>4
  <2>2. data[i] <= data[p - 1] /\ data[i] \in Int /\ data[p - 1] \in Int
    BY <1>1, <1>2, <2>1
  <2> QED
    BY <1>3, <2>1, <2>2
<1>8. ASSUME NEW i \in p .. len - 1
      PROVE  w <= data[i]
  <2>1. i + 1 \in 0 .. len /\ i + 1 \notin S /\ (i + 1) - 1 = i /\ i \in 0 .. len - 1
    BY <1>1, <1>4
  <2>2. ~(data[i] <= w) /\ data[i] \in Int
    BY <1>1, <2>1
  <2> QED
    BY <1>3, <2>2
<1> QED
  BY <1>4, <1>6, <1>7, <1>8

\* The steps of a sorted vector: the search finds the first of several equal
\* words, and an insertion makes room behind the words up to the new one.
LEMMA SortedFound ==
  ASSUME ArrayInv, kind = "sorted", NEW w \in Words
  PROVE  /\ Array!SvecIndex(w) = Abstract!First(w)
         /\ Array!SvecIndex(w) >= 0 <=> w \in Abstract!ToSet(Contents)
         /\ w \in Abstract!ToSet(Contents) => Array!SvecIndex(w) \in 0 .. len - 1
<1> DEFINE p == Array!LowerBound(w)
           found == Array!FoundAt(p, w)
           c == Held(data, len)
           S == {i \in 1 .. len : c[i] = w}
<1>1. /\ len \in Nat
      /\ \A j \in 0 .. len - 1 : data[j] \in Words
      /\ \A j \in 0 .. len - 1 : data[j] \in Int
  BY ArrayFacts
<1>2. w \in Int
  BY DataAssumption
<1>3. Contents = c
  BY ArrayHolds DEF ArrayKinds
<1>4. DOMAIN c = 1 .. len /\ \A i \in 1 .. len : c[i] = data[i - 1]
  BY <1>1, HeldIs
<1> HIDE DEF c
<1>5. Bounds(data, len, w, p) /\ (found <=> w \in {data[i] : i \in 0 .. len - 1})
  BY FoundIs
<1>6. found <=> p < len /\ data[p] = w
  BY DEF Array!FoundAt
<1>7. Array!SvecIndex(w) = IF found THEN p ELSE -1
  BY DEF Array!SvecIndex
<1> HIDE DEF p, found
<1>8. p \in 0 .. len /\ (\A i \in 0 .. p - 1 : data[i] < w)
  BY <1>5 DEF Bounds
<1>9. Abstract!ToSet(Contents) = {data[i] : i \in 0 .. len - 1}
  <2>1. \A i \in 0 .. len - 1 : i + 1 \in 1 .. len /\ c[i + 1] = data[i]
    BY <1>1, <1>4
  <2>2. \A i \in 1 .. len : i - 1 \in 0 .. len - 1 /\ c[i] = data[i - 1]
    BY <1>1, <1>4
  <2>3. {c[i] : i \in 1 .. len} = {data[i] : i \in 0 .. len - 1}
    BY <2>1, <2>2
  <2> QED
    BY <1>3, <1>4, <2>3 DEF Abstract!ToSet
<1>10. ASSUME found
       PROVE  Abstract!First(w) = p
  <2>1. p \in 0 .. len - 1 /\ data[p] = w /\ p + 1 \in S
    BY <1>1, <1>4, <1>6, <1>8, <1>10
  <2>2. ASSUME NEW i \in S
        PROVE  p + 1 <= i
    <3>1. i \in 1 .. len /\ data[i - 1] = w /\ ~(w < w)
      BY <1>2, <1>4
    <3>2. ~(i - 1 \in 0 .. p - 1)
      BY <1>8, <3>1
    <3> QED
      BY <1>1, <1>8, <3>1, <3>2
  <2>3. S \subseteq Int
    OBVIOUS
  <2> HIDE DEF S
  <2>4. (CHOOSE x \in S : \A y \in S : x =< y) = p + 1
    BY <2>1, <2>2, <2>3, MinIs
  <2>5. Abstract!Min(S) = p + 1 /\ p \in Int
    BY <1>1, <1>8, <2>4 DEF Abstract!Min
  <2>6. Abstract!First(w) = Abstract!Min(S) - 1
    BY <1>3, <1>4, <1>5, <1>9, <1>10 DEF S, Abstract!First
  <2> QED
    BY <2>5, <2>6
<1>11. ~found => Abstract!First(w) = -1
  BY <1>5, <1>9 DEF Abstract!First
<1>12. found => p \in 0 .. len - 1
  BY <1>1, <1>6, <1>8
<1> QED
  BY <1>1, <1>5, <1>7, <1>9, <1>10, <1>11, <1>12

LEMMA SortedPush ==
  ASSUME ArrayInv, kind = "sorted", UNCHANGED sets, NEW w \in Words, Array!SvecPush(w)
  PROVE  ArrayInv' /\ (Abstract!InsertSorted(w) \/ Abstract!Fault \/ (kind' = kind /\ ~ByNumber))
<1> DEFINE p == Array!Place(w)
<1>1. /\ len \in Nat /\ cap \in Nat /\ len <= cap /\ cap <= MaxCap /\ MaxCap \in Nat
      /\ \A j \in 0 .. len - 1 : data[j] \in Words
      /\ \A j \in 0 .. len - 1 : data[j] \in Int
  BY ArrayFacts
<1>2. Contents = Held(data, len)
  BY ArrayHolds DEF ArrayKinds
<1>3. Steady(data, len)
  BY DEF ArrayInv, Array!WellFormed, Steady
<1>4. p \in 0 .. len /\ (\A i \in 0 .. p - 1 : data[i] <= w) /\ (\A i \in p .. len - 1 : w <= data[i])
  BY PlaceIs
<1>5. /\ state = "open"
      /\ \/ \E n \in cap .. MaxCap : Array!Grown(n) /\ Array!InsertAt(p, n, w) /\ Array!Returns(0)
         \/ Array!Fault
  BY DEF Array!SvecPush, Array!Open
<1> HIDE DEF p
<1>6. ASSUME NEW n \in cap .. MaxCap, Array!Grown(n), Array!InsertAt(p, n, w), Array!Returns(0)
      PROVE  ArrayInv' /\ (Abstract!InsertSorted(w) \/ (kind' = kind /\ ~ByNumber))
  <2>1. /\ cap' = n /\ len' = len + 1 /\ len < n
        /\ DOMAIN data' = 0 .. n - 1 /\ Puts(data, len, w, p, data')
    BY <1>4, <1>6, InsertIs
  <2> DEFINE e == data'
             m == len + 1
  <2>2. Puts(data, len, w, p, e)
    BY <2>1
  <2> HIDE DEF e
  <2>3. \A i \in 0 .. len : e[i] \in Words
    BY <1>1, <1>4, <2>2, PutIs
  <2>4. Steady(e, len + 1)
    BY <1>1, <1>3, <1>4, <2>2, PutIs
  <2>5. m - 1 = len /\ n \in 0 .. MaxCap /\ m \in 0 .. n /\ m \in Nat
    BY <1>1, <2>1
  <2>6. data' = e /\ cap' = n /\ len' = m /\ answer' = <<0>> /\ UNCHANGED <<kind, state>> /\ DOMAIN e = 0 .. n - 1
    BY <1>6, <2>1 DEF Array!Returns, e
  <2>7. (\A i \in 0 .. m - 1 : e[i] \in Words) /\ Steady(e, m)
    BY <2>3, <2>4, <2>5
  <2>8. \A x : Cardinality(Places(e, m, x)) = Cardinality(Places(data, len, x)) + (IF x = w THEN 1 ELSE 0)
    BY <1>1, <1>4, <2>2, PutCount
  <2> HIDE DEF m
  <2>9. ArrayInv' /\ Abstract!Returns(0) /\ Contents' = Held(e, m)
    BY <1>5, <2>5, <2>6, <2>7, OrderedWrites
  <2> DEFINE c == Held(data, len)
             h == Held(e, m)
  <2>10. Len(c) = len /\ DOMAIN c = 1 .. len /\ \A i \in 1 .. len : c[i] = data[i - 1]
    BY <1>1, HeldIs
  <2>11. Len(h) = m /\ DOMAIN h = 1 .. m /\ \A i \in 1 .. m : h[i] = e[i - 1]
    BY <2>5, <2>7, HeldIs
  <2> HIDE DEF c, h
  <2>12. ByNumber => Abstract!InOrder(h)
    <3>1. \A i \in 0 .. m - 1 : e[i] \in Int
      BY <2>7, DataAssumption
    <3>2. \A i, j \in 0 .. m - 1 : i <= j => e[i] <= e[j]
      BY <2>5, <2>7, <3>1, Ordered DEF Steady
    <3>3. ASSUME NEW i \in 1 .. m, NEW j \in 1 .. m, i < j
          PROVE  h[i] <= h[j]
      <4>1. i - 1 \in 0 .. m - 1 /\ j - 1 \in 0 .. m - 1 /\ i - 1 <= j - 1
        BY <2>5, <3>3
      <4> QED
        BY <2>11, <3>2, <4>1
    <3>4. \A i \in 1 .. m : h[i] \in Words
      BY <2>5, <2>7, <2>11
    <3> QED
      BY <2>11, <3>3, <3>4 DEF Abstract!InOrder, ByNumber
  <2>13. ASSUME NEW x \in Words
         PROVE  Abstract!Count(h, x) = Abstract!Count(c, x) + (IF x = w THEN 1 ELSE 0)
    <3>1. {i \in DOMAIN h : h[i] = x} = Places(e, m, x)
      BY <2>11 DEF Places
    <3>2. {i \in DOMAIN c : c[i] = x} = Places(data, len, x)
      BY <2>10 DEF Places
    <3>3. /\ Abstract!Count(h, x) = Cardinality({i \in DOMAIN h : h[i] = x})
          /\ Abstract!Count(c, x) = Cardinality({i \in DOMAIN c : c[i] = x})
      BY SameCount DEF Abstract!Count
    <3> QED
      BY <2>8, <3>1, <3>2, <3>3
  <2>14. Contents' = h /\ Contents = c /\ m = len + 1
    BY <1>2, <2>9 DEF h, c, m
  <2> QED
    BY <1>5, <2>6, <2>9, <2>10, <2>11, <2>12, <2>13, <2>14 DEF Abstract!InsertSorted, Abstract!Open
<1>7. CASE Array!Fault
  BY <1>5, <1>7, FaultStep
<1> QED
  BY <1>5, <1>6, <1>7

LEMMA SortedSteps ==
  ASSUME ArrayInv, kind = "sorted", UNCHANGED sets, NEW w, NEW i
  PROVE  /\ i \in Indices /\ Array!SvecGet(i) => ArrayInv' /\ Abstract!Get(i)
         /\ w \in Words /\ Array!SvecFind(w) => ArrayInv' /\ Abstract!Find(w)
         /\ w \in Words /\ Array!SvecRemove(w) => ArrayInv' /\ Abstract!RemoveSorted(w)
<1> DEFINE p == Array!SvecIndex(w)
           c == Held(data, len)
<1>1. /\ len \in Nat /\ cap \in Nat /\ len <= cap /\ cap <= MaxCap /\ MaxCap \in Nat
      /\ DOMAIN data = 0 .. cap - 1
      /\ \A j \in 0 .. len - 1 : data[j] \in Words
      /\ \A j \in 0 .. len - 1 : data[j] \in Int
  BY ArrayFacts
<1>2. kind \in ArrayKinds /\ (i \in Indices => i \in Nat)
  BY SizesAssumption DEF ArrayKinds
<1>3. Contents = c
  BY ArrayHolds DEF ArrayKinds
<1>4. /\ Len(c) = len /\ DOMAIN c = 1 .. len /\ \A j \in 1 .. len : c[j] = data[j - 1]
  BY <1>1, HeldIs
<1> HIDE DEF c
<1>5. ASSUME w \in Words
      PROVE  /\ p = Abstract!First(w) /\ (p >= 0 <=> w \in Abstract!ToSet(Contents))
             /\ w \in Abstract!ToSet(Contents) => p \in 0 .. len - 1
  BY <1>5, SortedFound
<1>6. ASSUME i \in Indices, Array!SvecGet(i)
      PROVE  ArrayInv' /\ Abstract!Get(i)
  <2> DEFINE v == IF i < len THEN data[i] ELSE 0
  <2>1. state = "open" /\ Array!Reads(v)
    BY <1>6 DEF Array!SvecGet, Array!Open
  <2>2. v = IF i < Len(c) THEN c[i + 1] ELSE 0
    BY <1>1, <1>2, <1>4, <1>6
  <2> HIDE DEF v
  <2>3. ArrayInv' /\ Abstract!Reads(v)
    BY <1>2, <2>1, ArrayReads
  <2> QED
    BY <1>3, <2>1, <2>2, <2>3 DEF Abstract!Get, Abstract!Open
<1>7. ASSUME w \in Words, Array!SvecFind(w)
      PROVE  ArrayInv' /\ Abstract!Find(w)
  <2>1. state = "open" /\ Array!Reads(p)
    BY <1>7 DEF Array!SvecFind, Array!Open
  <2> HIDE DEF p
  <2>2. ArrayInv' /\ Abstract!Reads(p)
    BY <1>2, <2>1, ArrayReads
  <2> QED
    BY <1>5, <1>7, <2>1, <2>2 DEF Abstract!Find, Abstract!Open
<1>8. ASSUME w \in Words, Array!SvecRemove(w)
      PROVE  ArrayInv' /\ Abstract!RemoveSorted(w)
  <2> DEFINE r == [j \in DOMAIN data |-> IF j \in p .. p + (len - p - 1) - 1 THEN data[p + 1 + j - p] ELSE data[j]]
             m == len - 1
             s == SubSeq(c, 1, (p + 1) - 1) \o SubSeq(c, (p + 1) + 1, Len(c))
  <2>1. /\ state = "open"
        /\ \/ p >= 0 /\ data' = r /\ cap' = cap /\ len' = m /\ answer' = <<0>> /\ UNCHANGED <<kind, state>>
           \/ p < 0 /\ Array!Reads(-1)
    BY <1>8 DEF Array!SvecRemove, Array!Open, Array!Writes, Array!Returns, Array!Moved
  <2>0. r = [j \in DOMAIN data |-> IF j \in p .. p + (len - p - 1) - 1 THEN data[p + 1 + j - p] ELSE data[j]]
    OBVIOUS
  <2> HIDE DEF p, r
  <2>2. CASE p >= 0 /\ data' = r /\ cap' = cap /\ len' = m /\ answer' = <<0>> /\ UNCHANGED <<kind, state>>
    <3>1. p \in 0 .. len - 1 /\ w \in Abstract!ToSet(Contents)
      BY <1>5, <1>8, <2>2
    <3>2. DOMAIN r = 0 .. cap - 1 /\ Takes(data, len, p, r)
      BY <1>1, <2>0, <3>1, MovedDown DEF Takes
    <3>3. \A j \in 0 .. len - 2 : r[j] \in Words
      BY <1>1, <3>1, <3>2, TakenOut
    <3>4. Steady(data, len)
      BY DEF ArrayInv, Array!WellFormed, Steady
    <3>5. Steady(r, len - 1)
      BY <1>1, <3>1, <3>2, <3>4, TakenOut
    <3>6. Held(r, len - 1) = s
      BY <1>1, <3>1, <3>2, HeldRemove DEF c, Takes
    <3>7. m - 1 = len - 2 /\ cap \in 0 .. MaxCap /\ m \in 0 .. cap
      BY <1>1, <3>1
    <3>8. (\A j \in 0 .. m - 1 : r[j] \in Words) /\ Steady(r, m) /\ Held(r, m) = s
      BY <3>3, <3>5, <3>6, <3>7
    <3> HIDE DEF m, s
    <3>9. ArrayInv' /\ Abstract!Returns(0) /\ Contents' = s
      BY <2>1, <2>2, <3>2, <3>7, <3>8, OrderedWrites
    <3>10. s = Abstract!RemoveAt(Contents, Abstract!First(w) + 1)
      BY <1>3, <1>5, <1>8 DEF s, Abstract!RemoveAt
    <3> QED
      BY <2>1, <3>1, <3>9, <3>10 DEF Abstract!RemoveSorted, Abstract!Open, Abstract!Holds
  <2>3. CASE p < 0 /\ Array!Reads(-1)
    <3>1. ArrayInv' /\ Abstract!Reads(-1)
      BY <1>2, <2>3, ArrayReads
    <3>2. w \notin Abstract!ToSet(Contents)
      BY <1>1, <1>5, <1>8, <2>3
    <3> QED
      BY <2>1, <3>1, <3>2 DEF Abstract!RemoveSorted, Abstract!Open
  <2> QED
    BY <2>1, <2>2, <2>3
<1> QED
  BY <1>6, <1>7, <1>8

LEMMA ArrayNext ==
  ASSUME ArrayInv, kind \in ArrayKinds, UNCHANGED sets, clean = {1, 2}, Array!Next
  PROVE  ArrayInv' /\ (Abstract!Next \/ (kind' = kind /\ ~ByNumber))
<1>1. CASE Array!New \/ Array!Refuse \/ Array!Free \/ Array!Length
  BY <1>1, ArraySteps DEF Abstract!Next
<1>2. ASSUME NEW w \in Words, Array!VecPush(w) \/ Array!VecContains(w)
      PROVE  ArrayInv' /\ Abstract!Next
  <2>1. kind = "vector"
    BY <1>2 DEF Array!VecPush, Array!VecContains, Array!Open
  <2>2. ArrayInv' /\ (Abstract!PushBack(w) \/ Abstract!HasWord(w))
    BY <1>2, <2>1, VectorSteps
  <2> QED
    BY <2>2 DEF Abstract!Next
<1>3. ASSUME NEW i \in Indices, Array!VecGet(i) \/ Array!VecRemove(i) \/ \E w \in Words : Array!VecSet(i, w)
      PROVE  ArrayInv' /\ Abstract!Next
  <2>1. kind = "vector"
    BY <1>3 DEF Array!VecGet, Array!VecRemove, Array!VecSet, Array!Open
  <2>2. ArrayInv' /\ (Abstract!Get(i) \/ Abstract!RemoveIndex(i) \/ \E w \in Words : Abstract!SetAt(i, w))
    BY <1>3, <2>1, VectorSteps
  <2> QED
    BY <2>2 DEF Abstract!Next
<1>4. CASE Array!VecPop \/ Array!VecClear
  <2>1. kind = "vector"
    BY <1>4 DEF Array!VecPop, Array!VecClear, Array!Open
  <2>2. ArrayInv' /\ (Abstract!PopBack \/ Abstract!Clear)
    BY <1>4, <2>1, VectorSteps
  <2> QED
    BY <2>2 DEF Abstract!Next
<1>5. ASSUME NEW s \in Strings, Array!SbAppend(s)
      PROVE  ArrayInv' /\ Abstract!Next
  <2>1. kind = "builder"
    BY <1>5 DEF Array!SbAppend, Array!Open
  <2>2. ArrayInv' /\ Abstract!AppendString(s)
    BY <1>5, <2>1, BuilderSteps
  <2> QED
    BY <2>2 DEF Abstract!Next
<1>6. CASE Array!SbBuild \/ Array!SbClear
  <2>1. kind = "builder"
    BY <1>6 DEF Array!SbBuild, Array!SbClear, Array!Open
  <2>2. ArrayInv' /\ (Abstract!Build \/ Abstract!Clear)
    BY <1>6, <2>1, BuilderSteps
  <2> QED
    BY <2>2 DEF Abstract!Next
<1>7. ASSUME NEW w \in Words, Array!SetInsert(w) \/ Array!SetContains(w) \/ Array!SetRemove(w)
      PROVE  ArrayInv' /\ Abstract!Next
  <2>1. kind = "set"
    BY <1>7 DEF Array!SetInsert, Array!SetContains, Array!SetRemove, Array!Open
  <2>2. ArrayInv' /\ (Abstract!InsertWord(w) \/ Abstract!Fault \/ Abstract!HasWord(w) \/ Abstract!RemoveWord(w))
    BY <1>7, <2>1, SetSteps
  <2> QED
    BY <2>2 DEF Abstract!Next
<1>8. ASSUME NEW w \in Words, Array!SvecPush(w) \/ Array!SvecFind(w) \/ Array!SvecRemove(w)
      PROVE  ArrayInv' /\ (Abstract!Next \/ (kind' = kind /\ ~ByNumber))
  <2>1. kind = "sorted"
    BY <1>8 DEF Array!SvecPush, Array!SvecFind, Array!SvecRemove, Array!Open
  <2>2. CASE Array!SvecPush(w)
    BY <2>1, <2>2, SortedPush DEF Abstract!Next
  <2>3. CASE Array!SvecFind(w)
    BY <2>1, <2>3, SortedSteps DEF Abstract!Next
  <2>4. CASE Array!SvecRemove(w)
    BY <2>1, <2>4, SortedSteps DEF Abstract!Next
  <2> QED
    BY <1>8, <2>2, <2>3, <2>4
<1>9. ASSUME NEW i \in Indices, Array!SvecGet(i)
      PROVE  ArrayInv' /\ Abstract!Next
  <2>1. kind = "sorted"
    BY <1>9 DEF Array!SvecGet, Array!Open
  <2>2. ArrayInv' /\ Abstract!Get(i)
    BY <1>9, <2>1, SortedSteps
  <2> QED
    BY <2>2 DEF Abstract!Next
<1> QED
  BY <1>1, <1>2, <1>3, <1>4, <1>5, <1>6, <1>7, <1>8, <1>9 DEF Array!Next

-----------------------------------------------------------------------------
(***************************************************************************)
(* LinkedList: the addresses q of the n nodes from the head to the tail.   *)
(***************************************************************************)
Node(next, prev, word) == [next |-> next, prev |-> prev, word |-> word]

Chain(ns, h, t, n, q) ==
  /\ \A i, j \in 1 .. n : q[i] = q[j] => i = j
  /\ DOMAIN ns = {q[i] : i \in 1 .. n}
  /\ h = (IF n = 0 THEN 0 ELSE q[1])
  /\ t = (IF n = 0 THEN 0 ELSE q[n])
  /\ \A i \in 1 .. n :
       /\ ns[q[i]] = Node(IF i = n THEN 0 ELSE q[i + 1], IF i = 1 THEN 0 ELSE q[i - 1], ns[q[i]].word)
       /\ ns[q[i]].word \in Words

ListInv ==
  /\ len \in Nat /\ (state = "null" => len = 0)
  /\ \E q \in [1 .. len -> Heap] : Chain(nodes, head, tail, len, q)

\* The walk along the nodes ns.
Path(ns, n, field, i) ==
  LET at[j \in 0 .. i] == IF j = 0 THEN n
                          ELSE IF at[j - 1] \notin DOMAIN ns THEN 0
                          ELSE ns[at[j - 1]][field]
  IN  at[i]

\* A walk goes where its steps lead.
LEMMA PathIs ==
  ASSUME NEW ns, NEW n, NEW field, NEW i \in Nat, NEW g, g[0] = n,
         \A j \in 1 .. i : g[j] = IF g[j - 1] \notin DOMAIN ns THEN 0 ELSE ns[g[j - 1]][field]
  PROVE  Path(ns, n, field, i) = g[i]
<1> DEFINE at == CHOOSE at : at = [j \in 0 .. i |->
                    IF j = 0 THEN n ELSE IF at[j - 1] \notin DOMAIN ns THEN 0 ELSE ns[at[j - 1]][field]]
           f == [j \in 0 .. i |-> g[j]]
<1>1. f = [j \in 0 .. i |->
             IF j = 0 THEN n ELSE IF f[j - 1] \notin DOMAIN ns THEN 0 ELSE ns[f[j - 1]][field]]
  <2>1. ASSUME NEW j \in 0 .. i
        PROVE  g[j] = IF j = 0 THEN n ELSE IF f[j - 1] \notin DOMAIN ns THEN 0 ELSE ns[f[j - 1]][field]
    <3>1. CASE j = 0
      BY <3>1
    <3>2. CASE j # 0
      <4>1. j \in 1 .. i /\ j - 1 \in 0 .. i /\ f[j - 1] = g[j - 1]
        BY <3>2
      <4> QED
        BY <3>2, <4>1
    <3> QED
      BY <3>1, <3>2
  <2> QED
    BY <2>1
<1>2. at = [j \in 0 .. i |->
              IF j = 0 THEN n ELSE IF at[j - 1] \notin DOMAIN ns THEN 0 ELSE ns[at[j - 1]][field]]
  <2> HIDE DEF f
  <2> QED
    BY <1>1
<1>3. Path(ns, n, field, i) = at[i]
  BY DEF Path
<1> HIDE DEF at, f
<1> DEFINE Bad == {j \in 0 .. i : at[j] # g[j]}
<1>4. Bad = {}
  <2> SUFFICES ASSUME Bad # {} PROVE FALSE
    OBVIOUS
  <2>1. PICK j \in Bad : \A k \in Bad : j <= k
    <3>1. Bad \subseteq Nat
      OBVIOUS
    <3> QED
      BY <3>1, LeastNatural
  <2>2. j # 0
    BY <1>2, <2>1
  <2>3. j \in 1 .. i /\ j - 1 \in 0 .. i /\ j - 1 \notin Bad
    BY <2>1, <2>2
  <2>4. at[j - 1] = g[j - 1]
    BY <2>3
  <2>5. at[j] = IF at[j - 1] \notin DOMAIN ns THEN 0 ELSE ns[at[j - 1]][field]
    BY <1>2, <2>2, <2>3
  <2>6. at[j] = g[j]
    BY <2>3, <2>4, <2>5
  <2> QED
    BY <2>1, <2>6
<1> QED
  BY <1>3, <1>4

\* Along the links lie the nodes of the chain, either way.
LEMMA ChainPaths ==
  ASSUME NEW n \in Nat, NEW q \in [1 .. n -> Heap], NEW ns, NEW h, NEW t, Chain(ns, h, t, n, q),
         NEW i \in Nat
  PROVE  /\ Path(ns, h, "next", i) = IF i < n THEN q[i + 1] ELSE 0
         /\ Path(ns, t, "prev", i) = IF i < n THEN q[n - i] ELSE 0
<1>1. /\ DOMAIN ns = {q[j] : j \in 1 .. n}
      /\ h = (IF n = 0 THEN 0 ELSE q[1]) /\ t = (IF n = 0 THEN 0 ELSE q[n])
      /\ \A j \in 1 .. n :
           ns[q[j]] = Node(IF j = n THEN 0 ELSE q[j + 1], IF j = 1 THEN 0 ELSE q[j - 1], ns[q[j]].word)
  BY DEF Chain
<1>2. 0 \notin DOMAIN ns /\ \A j \in 1 .. n : q[j] \in DOMAIN ns
  BY <1>1, DataAssumption
<1>3. \A j \in 1 .. n : /\ ns[q[j]]["next"] = IF j = n THEN 0 ELSE q[j + 1]
                        /\ ns[q[j]]["prev"] = IF j = 1 THEN 0 ELSE q[j - 1]
  <2> SUFFICES ASSUME NEW j \in 1 .. n
               PROVE  /\ ns[q[j]]["next"] = IF j = n THEN 0 ELSE q[j + 1]
                      /\ ns[q[j]]["prev"] = IF j = 1 THEN 0 ELSE q[j - 1]
    OBVIOUS
  <2> DEFINE x == IF j = n THEN 0 ELSE q[j + 1]
             p == IF j = 1 THEN 0 ELSE q[j - 1]
             w == ns[q[j]].word
             r == ns[q[j]]
  <2>1. r = Node(x, p, w)
    BY <1>1
  <2> HIDE DEF x, p, w, r
  <2>2. r["next"] = x /\ r["prev"] = p
    BY <2>1 DEF Node
  <2> QED
    BY <2>2 DEF r, x, p
<1>4. Path(ns, h, "next", i) = IF i < n THEN q[i + 1] ELSE 0
  <2> DEFINE g == [j \in Nat |-> IF j < n THEN q[j + 1] ELSE 0]
  <2>1. ASSUME NEW j \in 1 .. i
        PROVE  g[j] = IF g[j - 1] \notin DOMAIN ns THEN 0 ELSE ns[g[j - 1]]["next"]
    <3>1. j \in Nat /\ j - 1 \in Nat /\ g[j] = (IF j < n THEN q[j + 1] ELSE 0)
          /\ g[j - 1] = IF j - 1 < n THEN q[j] ELSE 0
      OBVIOUS
    <3> HIDE DEF g
    <3>2. CASE j \in 1 .. n
      <4>1. g[j - 1] = q[j] /\ q[j] \in DOMAIN ns /\ ns[q[j]]["next"] = IF j = n THEN 0 ELSE q[j + 1]
        BY <1>2, <1>3, <3>1, <3>2
      <4>2. g[j] = IF j = n THEN 0 ELSE q[j + 1]
        BY <3>1, <3>2
      <4> QED
        BY <4>1, <4>2
    <3>3. CASE j > n
      <4>1. g[j - 1] = 0 /\ g[j] = 0
        BY <3>1, <3>3
      <4> QED
        BY <1>2, <4>1
    <3> QED
      BY <3>1, <3>2, <3>3
  <2>2. g[0] = h
    BY <1>1
  <2>3. g[i] = IF i < n THEN q[i + 1] ELSE 0
    OBVIOUS
  <2> HIDE DEF g
  <2>4. Path(ns, h, "next", i) = g[i]
    BY <2>1, <2>2, PathIs
  <2> QED
    BY <2>3, <2>4
<1>5. Path(ns, t, "prev", i) = IF i < n THEN q[n - i] ELSE 0
  <2> DEFINE g == [j \in Nat |-> IF j < n THEN q[n - j] ELSE 0]
  <2>1. ASSUME NEW j \in 1 .. i
        PROVE  g[j] = IF g[j - 1] \notin DOMAIN ns THEN 0 ELSE ns[g[j - 1]]["prev"]
    <3>1. j \in Nat /\ j - 1 \in Nat /\ g[j] = (IF j < n THEN q[n - j] ELSE 0)
          /\ g[j - 1] = IF j - 1 < n THEN q[n - (j - 1)] ELSE 0
      OBVIOUS
    <3> HIDE DEF g
    <3>2. CASE j \in 1 .. n
      <4> DEFINE k == n - (j - 1)
      <4>1. k \in 1 .. n /\ (k = 1 <=> j = n) /\ k - 1 = n - j
        BY <3>2
      <4>2. g[j - 1] = q[k]
        BY <3>1, <3>2
      <4>3. q[k] \in DOMAIN ns /\ ns[q[k]]["prev"] = IF k = 1 THEN 0 ELSE q[k - 1]
        BY <1>2, <1>3, <4>1
      <4>4. g[j] = IF j = n THEN 0 ELSE q[n - j]
        BY <3>1, <3>2
      <4> HIDE DEF k
      <4> QED
        BY <4>1, <4>2, <4>3, <4>4
    <3>3. CASE j > n
      <4>1. g[j - 1] = 0 /\ g[j] = 0
        BY <3>1, <3>3
      <4> QED
        BY <1>2, <4>1
    <3> QED
      BY <3>1, <3>2, <3>3
  <2>2. g[0] = t
    BY <1>1
  <2>3. g[i] = IF i < n THEN q[n - i] ELSE 0
    OBVIOUS
  <2> HIDE DEF g
  <2>4. Path(ns, t, "prev", i) = g[i]
    BY <2>1, <2>2, PathIs
  <2> QED
    BY <2>3, <2>4
<1> QED
  BY <1>4, <1>5

Right(q, n, i) == IF i = n THEN 0 ELSE q[i + 1]
Left(q, i) == IF i = 1 THEN 0 ELSE q[i - 1]
Joined(ns, q, n) ==
  /\ \A i, j \in 1 .. n : q[i] = q[j] => i = j
  /\ DOMAIN ns = {q[i] : i \in 1 .. n}
  /\ \A i \in 1 .. n : \E w \in Words : ns[q[i]] = Node(Right(q, n, i), Left(q, i), w)

LEMMA ChainFacts ==
  ASSUME NEW n \in Nat, NEW q \in [1 .. n -> Heap], NEW ns, NEW h, NEW t, Chain(ns, h, t, n, q)
  PROVE  /\ DOMAIN ns = {q[i] : i \in 1 .. n} /\ 0 \notin DOMAIN ns
         /\ n = 0 => h = 0 /\ t = 0
         /\ n # 0 => h = q[1] /\ t = q[n] /\ h \in DOMAIN ns /\ t \in DOMAIN ns
         /\ \A i, j \in 1 .. n : q[i] = q[j] => i = j
         /\ \A i \in 1 .. n : /\ q[i] \in Heap /\ q[i] \in DOMAIN ns /\ q[i] # 0
                              /\ ns[q[i]] = Node(Right(q, n, i), Left(q, i), ns[q[i]].word)
                              /\ ns[q[i]].word \in Words
<1>1. /\ \A i, j \in 1 .. n : q[i] = q[j] => i = j
      /\ DOMAIN ns = {q[i] : i \in 1 .. n}
      /\ h = (IF n = 0 THEN 0 ELSE q[1])
      /\ t = (IF n = 0 THEN 0 ELSE q[n])
      /\ \A i \in 1 .. n :
           /\ ns[q[i]] = Node(Right(q, n, i), Left(q, i), ns[q[i]].word)
           /\ ns[q[i]].word \in Words
  BY DEF Chain, Right, Left
<1>2. 0 \notin Heap
  BY DataAssumption
<1>3. \A i \in 1 .. n : q[i] \in Heap /\ q[i] \in DOMAIN ns /\ q[i] # 0
  BY <1>1, <1>2
<1>4. 0 \notin DOMAIN ns
  BY <1>1, <1>3
<1>5. n # 0 => 1 \in 1 .. n /\ n \in 1 .. n
  OBVIOUS
<1> QED
  BY <1>1, <1>3, <1>4, <1>5

Ends(h, t, n, q) == h = (IF n = 0 THEN 0 ELSE q[1]) /\ t = (IF n = 0 THEN 0 ELSE q[n])

LEMMA ChainIs ==
  ASSUME NEW n \in Nat, NEW q, NEW ns, NEW h, NEW t, Joined(ns, q, n), Ends(h, t, n, q)
  PROVE  Chain(ns, h, t, n, q)
<1>1. ASSUME NEW i \in 1 .. n
      PROVE  /\ ns[q[i]] = Node(Right(q, n, i), Left(q, i), ns[q[i]].word)
             /\ ns[q[i]].word \in Words
  <2>1. PICK w \in Words : ns[q[i]] = Node(Right(q, n, i), Left(q, i), w)
    BY DEF Joined
  <2>2. Node(Right(q, n, i), Left(q, i), w).word = w
    BY DEF Node
  <2> QED
    BY <2>1, <2>2
<1> QED
  BY <1>1 DEF Chain, Right, Left, Joined, Ends

\* ms is ns with the node at f linked in next to m, or with the node at gone
\* taken out from next to m.
Grown(ns, ms, f, node, m, field) ==
  /\ DOMAIN ms = DOMAIN ns \cup {f} /\ ms[f] = node
  /\ \A x \in DOMAIN ns : ms[x] = IF x = m THEN [ns[x] EXCEPT ![field] = f] ELSE ns[x]
Shrunk(ns, ms, gone, m, field) ==
  /\ DOMAIN ms = DOMAIN ns \ {gone}
  /\ \A x \in DOMAIN ms : ms[x] = IF x = m THEN [ns[x] EXCEPT ![field] = 0] ELSE ns[x]

Behind(q, n, f) == [i \in 1 .. n + 1 |-> IF i = n + 1 THEN f ELSE q[i]]
Before(q, n, f) == [i \in 1 .. n + 1 |-> IF i = 1 THEN f ELSE q[i - 1]]
Beyond(q, n) == [i \in 1 .. n - 1 |-> q[i + 1]]
Upto(q, n) == [i \in 1 .. n - 1 |-> q[i]]

\* A node is linked in behind the tail.
LEMMA ChainBack ==
  ASSUME NEW n \in Nat, NEW q \in [1 .. n -> Heap], NEW ns, NEW h, NEW t, Chain(ns, h, t, n, q),
         NEW f \in Heap, f \notin DOMAIN ns, NEW w \in Words,
         NEW ms, Grown(ns, ms, f, Node(0, t, w), t, "next"), NEW p, p = Behind(q, n, f)
  PROVE  /\ Chain(ms, IF t = 0 THEN f ELSE h, f, n + 1, p) /\ p \in [1 .. n + 1 -> Heap]
         /\ ms[p[n + 1]].word = w /\ \A i \in 1 .. n : ms[p[i]].word = ns[q[i]].word
<1> USE DEF Grown, Behind
<1>1. /\ DOMAIN ns = {q[i] : i \in 1 .. n} /\ 0 \notin DOMAIN ns
      /\ n = 0 => h = 0 /\ t = 0
      /\ n # 0 => h = q[1] /\ t = q[n] /\ h \in DOMAIN ns /\ t \in DOMAIN ns
      /\ \A i, j \in 1 .. n : q[i] = q[j] => i = j
      /\ \A i \in 1 .. n : /\ q[i] \in Heap /\ q[i] \in DOMAIN ns /\ q[i] # 0
                           /\ ns[q[i]] = Node(Right(q, n, i), Left(q, i), ns[q[i]].word)
                           /\ ns[q[i]].word \in Words
  BY ChainFacts
<1>2. p \in [1 .. n + 1 -> Heap] /\ p[n + 1] = f /\ \A i \in 1 .. n : p[i] = q[i]
  OBVIOUS
<1>3. \A i, j \in 1 .. n + 1 : p[i] = p[j] => i = j
  <2>1. \A i \in 1 .. n + 1 : i = n + 1 \/ i \in 1 .. n
    OBVIOUS
  <2> QED
    BY <1>1, <1>2, <2>1
<1>4. DOMAIN ms = {p[i] : i \in 1 .. n + 1}
  <2>1. \A i \in 1 .. n + 1 : i = n + 1 \/ i \in 1 .. n
    OBVIOUS
  <2>2. n + 1 \in 1 .. n + 1 /\ \A i \in 1 .. n : i \in 1 .. n + 1
    OBVIOUS
  <2>3. \A x : x \in DOMAIN ms => x \in {p[i] : i \in 1 .. n + 1}
    BY <1>1, <1>2, <2>2
  <2>4. \A x : x \in {p[i] : i \in 1 .. n + 1} => x \in DOMAIN ms
    BY <1>1, <1>2, <2>1
  <2> QED
    BY <2>3, <2>4
<1>5. ASSUME NEW i \in 1 .. n
      PROVE  /\ ms[p[i]] = Node(Right(p, n + 1, i), Left(p, i), ns[q[i]].word)
             /\ ms[p[i]].word = ns[q[i]].word
  <2> DEFINE v == ns[q[i]].word
             r == ns[q[i]]
             l == Left(q, i)
  <2>1. r = Node(Right(q, n, i), l, v) /\ p[i] = q[i] /\ q[i] \in DOMAIN ns /\ Left(p, i) = l
    BY <1>1, <1>2 DEF Left
  <2>2. Right(p, n + 1, i) = IF i = n THEN f ELSE q[i + 1]
    BY <1>2 DEF Right
  <2> HIDE DEF v, l
  <2>3. CASE i = n
    <3>1. ms[p[i]] = [r EXCEPT !["next"] = f]
      BY <1>1, <2>1, <2>3
    <3> HIDE DEF r
    <3>2. [r EXCEPT !["next"] = f] = Node(f, l, v)
      BY <2>1 DEF Node
    <3>3. Node(f, l, v).word = v
      BY DEF Node
    <3> QED
      BY <2>1, <2>2, <2>3, <3>1, <3>2, <3>3 DEF v
  <2>4. CASE i # n
    <3>1. q[i] # t /\ Right(q, n, i) = q[i + 1]
      BY <1>1, <2>4 DEF Right
    <3>2. ms[p[i]] = r
      BY <2>1, <3>1
    <3> QED
      BY <2>1, <2>2, <2>4, <3>1, <3>2 DEF v
  <2> QED
    BY <2>3, <2>4
<1>6. ms[p[n + 1]] = Node(Right(p, n + 1, n + 1), Left(p, n + 1), w) /\ ms[p[n + 1]].word = w
  <2>1. Right(p, n + 1, n + 1) = 0 /\ Left(p, n + 1) = t
    BY <1>1, <1>2 DEF Right, Left
  <2>2. Node(0, t, w).word = w
    BY DEF Node
  <2> QED
    BY <1>2, <2>1, <2>2
<1>7. \A i \in 1 .. n + 1 : \E v \in Words : ms[p[i]] = Node(Right(p, n + 1, i), Left(p, i), v)
  <2> SUFFICES ASSUME NEW i \in 1 .. n + 1
               PROVE \E v \in Words : ms[p[i]] = Node(Right(p, n + 1, i), Left(p, i), v)
    OBVIOUS
  <2>1. CASE i = n + 1
    BY <1>6, <2>1
  <2>2. CASE i \in 1 .. n
    BY <1>1, <1>5, <2>2
  <2> QED
    BY <2>1, <2>2
<1> DEFINE b == IF t = 0 THEN f ELSE h
           m == n + 1
<1>8. b = p[1]
  BY <1>1, <1>2
<1>9. m \in Nat /\ m # 0 /\ p[m] = f
  BY <1>2
<1> HIDE DEF b
<1>10. Chain(ms, b, f, m, p)
  <2>1. Joined(ms, p, m)
    BY <1>3, <1>4, <1>7 DEF Joined
  <2> HIDE DEF m
  <2>2. Ends(b, f, m, p)
    BY <1>8, <1>9 DEF Ends
  <2> QED
    BY <1>9, <2>1, <2>2, ChainIs
<1> QED
  BY <1>2, <1>5, <1>6, <1>10 DEF b

\* A node is linked in before the head.
LEMMA ChainFront ==
  ASSUME NEW n \in Nat, NEW q \in [1 .. n -> Heap], NEW ns, NEW h, NEW t, Chain(ns, h, t, n, q),
         NEW f \in Heap, f \notin DOMAIN ns, NEW w \in Words,
         NEW ms, Grown(ns, ms, f, Node(h, 0, w), h, "prev"), NEW p, p = Before(q, n, f)
  PROVE  /\ Chain(ms, f, IF h = 0 THEN f ELSE t, n + 1, p) /\ p \in [1 .. n + 1 -> Heap]
         /\ ms[p[1]].word = w /\ \A i \in 1 .. n : ms[p[i + 1]].word = ns[q[i]].word
<1> USE DEF Grown, Before
<1>1. /\ DOMAIN ns = {q[i] : i \in 1 .. n} /\ 0 \notin DOMAIN ns
      /\ n = 0 => h = 0 /\ t = 0
      /\ n # 0 => h = q[1] /\ t = q[n] /\ h \in DOMAIN ns /\ t \in DOMAIN ns
      /\ \A i, j \in 1 .. n : q[i] = q[j] => i = j
      /\ \A i \in 1 .. n : /\ q[i] \in Heap /\ q[i] \in DOMAIN ns /\ q[i] # 0
                           /\ ns[q[i]] = Node(Right(q, n, i), Left(q, i), ns[q[i]].word)
                           /\ ns[q[i]].word \in Words
  BY ChainFacts
<1>2. p \in [1 .. n + 1 -> Heap] /\ p[1] = f /\ \A i \in 1 .. n : i + 1 \in 1 .. n + 1 /\ p[i + 1] = q[i]
  OBVIOUS
<1>0. \A i \in 1 .. n + 1 : i = 1 \/ \E j \in 1 .. n : i = j + 1
  <2> SUFFICES ASSUME NEW i \in 1 .. n + 1, i # 1 PROVE \E j \in 1 .. n : i = j + 1
    OBVIOUS
  <2>1. i - 1 \in 1 .. n /\ i = (i - 1) + 1
    OBVIOUS
  <2> QED
    BY <2>1
<1>3. \A i, j \in 1 .. n + 1 : p[i] = p[j] => i = j
  BY <1>0, <1>1, <1>2
<1>4. DOMAIN ms = {p[i] : i \in 1 .. n + 1}
  <2>1. 1 \in 1 .. n + 1
    OBVIOUS
  <2>2. ASSUME NEW x \in DOMAIN ms PROVE x \in {p[i] : i \in 1 .. n + 1}
    <3>1. CASE x = f
      BY <1>2, <2>1, <3>1
    <3>2. CASE x # f
      <4>1. PICK i \in 1 .. n : x = q[i]
        BY <1>1, <3>2
      <4>2. i + 1 \in 1 .. n + 1 /\ p[i + 1] = x
        BY <1>2, <4>1
      <4> QED
        BY <4>2
    <3> QED
      BY <3>1, <3>2
  <2>3. \A x : x \in {p[i] : i \in 1 .. n + 1} => x \in DOMAIN ms
    BY <1>0, <1>1, <1>2
  <2> QED
    BY <2>2, <2>3
<1>5. ASSUME NEW i \in 1 .. n
      PROVE  /\ ms[p[i + 1]] = Node(Right(p, n + 1, i + 1), Left(p, i + 1), ns[q[i]].word)
             /\ ms[p[i + 1]].word = ns[q[i]].word
  <2> DEFINE v == ns[q[i]].word
             r == ns[q[i]]
             l == Right(q, n, i)
  <2>1. r = Node(l, Left(q, i), v) /\ p[i + 1] = q[i] /\ q[i] \in DOMAIN ns
    BY <1>1, <1>2
  <2>2. Right(p, n + 1, i + 1) = l
    <3>1. CASE i = n
      BY <3>1 DEF Right
    <3>2. CASE i # n
      <4>1. i + 1 \in 1 .. n /\ p[(i + 1) + 1] = q[i + 1]
        BY <1>2, <3>2
      <4> QED
        BY <3>2, <4>1 DEF Right
    <3> QED
      BY <3>1, <3>2
  <2>3. Left(p, i + 1) = IF i = 1 THEN f ELSE q[i - 1]
    <3>1. (i + 1) - 1 = i /\ i + 1 # 1
      OBVIOUS
    <3>2. p[i] = IF i = 1 THEN f ELSE q[i - 1]
      OBVIOUS
    <3> QED
      BY <3>1, <3>2 DEF Left
  <2> HIDE DEF v, l
  <2>4. CASE i = 1
    <3>1. ms[p[i + 1]] = [r EXCEPT !["prev"] = f]
      BY <1>1, <2>1, <2>4
    <3> HIDE DEF r
    <3>2. [r EXCEPT !["prev"] = f] = Node(l, f, v)
      BY <2>1 DEF Node
    <3>3. Node(l, f, v).word = v
      BY DEF Node
    <3> QED
      BY <2>2, <2>3, <2>4, <3>1, <3>2, <3>3 DEF v
  <2>5. CASE i # 1
    <3>1. q[i] # h /\ Left(q, i) = q[i - 1]
      BY <1>1, <2>5 DEF Left
    <3>2. ms[p[i + 1]] = r
      BY <2>1, <3>1
    <3> QED
      BY <2>1, <2>2, <2>3, <2>5, <3>1, <3>2 DEF v
  <2> QED
    BY <2>4, <2>5
<1>6. ms[p[1]] = Node(Right(p, n + 1, 1), Left(p, 1), w) /\ ms[p[1]].word = w
  <2>1. Left(p, 1) = 0
    BY DEF Left
  <2>2. Right(p, n + 1, 1) = h
    <3>1. CASE n = 0
      BY <1>1, <3>1 DEF Right
    <3>2. CASE n # 0
      <4>1. 1 \in 1 .. n /\ p[1 + 1] = q[1] /\ n + 1 # 1
        BY <1>2, <3>2
      <4> QED
        BY <1>1, <3>2, <4>1 DEF Right
    <3> QED
      BY <3>1, <3>2
  <2>3. Node(h, 0, w).word = w
    BY DEF Node
  <2> QED
    BY <1>2, <2>1, <2>2, <2>3
<1>7. \A i \in 1 .. n + 1 : \E v \in Words : ms[p[i]] = Node(Right(p, n + 1, i), Left(p, i), v)
  <2> SUFFICES ASSUME NEW i \in 1 .. n + 1
               PROVE \E v \in Words : ms[p[i]] = Node(Right(p, n + 1, i), Left(p, i), v)
    OBVIOUS
  <2>1. CASE i = 1
    BY <1>6, <2>1
  <2>2. ASSUME NEW j \in 1 .. n, i = j + 1
        PROVE \E v \in Words : ms[p[i]] = Node(Right(p, n + 1, i), Left(p, i), v)
    BY <1>1, <1>5, <2>2
  <2> QED
    BY <1>0, <2>1, <2>2
<1> DEFINE b == IF h = 0 THEN f ELSE t
           m == n + 1
<1>8. b = p[m]
  <2>1. n # 0 => n \in 1 .. n
    OBVIOUS
  <2> QED
    BY <1>1, <1>2, <2>1
<1>9. p[1] = f /\ m # 0 /\ m \in Nat
  BY <1>2
<1> HIDE DEF b
<1>10. Chain(ms, f, b, m, p)
  <2>1. Joined(ms, p, m)
    BY <1>3, <1>4, <1>7 DEF Joined
  <2> HIDE DEF m
  <2>2. Ends(f, b, m, p)
    BY <1>8, <1>9 DEF Ends
  <2>3. m \in Nat
    BY <1>9
  <2> QED
    BY <2>1, <2>2, <2>3, ChainIs
<1> QED
  BY <1>2, <1>5, <1>6, <1>10 DEF b

\* The head is taken out.
LEMMA ChainPopFront ==
  ASSUME NEW n \in Nat, n # 0, NEW q \in [1 .. n -> Heap], NEW ns, NEW h, NEW t, Chain(ns, h, t, n, q),
         NEW f, f = Right(q, n, 1),
         NEW ms, Shrunk(ns, ms, h, f, "prev"), NEW p, p = Beyond(q, n)
  PROVE  /\ Chain(ms, f, IF f = 0 THEN 0 ELSE t, n - 1, p) /\ p \in [1 .. n - 1 -> Heap]
         /\ \A i \in 1 .. n - 1 : ms[p[i]].word = ns[q[i + 1]].word
<1> USE DEF Shrunk, Beyond
<1>1. /\ DOMAIN ns = {q[i] : i \in 1 .. n} /\ 0 \notin DOMAIN ns
      /\ n = 0 => h = 0 /\ t = 0
      /\ n # 0 => h = q[1] /\ t = q[n] /\ h \in DOMAIN ns /\ t \in DOMAIN ns
      /\ \A i, j \in 1 .. n : q[i] = q[j] => i = j
      /\ \A i \in 1 .. n : /\ q[i] \in Heap /\ q[i] \in DOMAIN ns /\ q[i] # 0
                           /\ ns[q[i]] = Node(Right(q, n, i), Left(q, i), ns[q[i]].word)
                           /\ ns[q[i]].word \in Words
  BY ChainFacts
<1>2. p \in [1 .. n - 1 -> Heap] /\ \A i \in 1 .. n - 1 : i + 1 \in 1 .. n /\ i + 1 # 1 /\ p[i] = q[i + 1]
  OBVIOUS
<1>3. \A i, j \in 1 .. n - 1 : p[i] = p[j] => i = j
  <2> SUFFICES ASSUME NEW i \in 1 .. n - 1, NEW j \in 1 .. n - 1, p[i] = p[j] PROVE i = j
    OBVIOUS
  <2>1. i + 1 = j + 1
    BY <1>1, <1>2
  <2> QED
    BY <2>1
<1>0. \A i \in 1 .. n : i = 1 \/ \E j \in 1 .. n - 1 : i = j + 1
  <2> SUFFICES ASSUME NEW i \in 1 .. n, i # 1 PROVE \E j \in 1 .. n - 1 : i = j + 1
    OBVIOUS
  <2>1. i - 1 \in 1 .. n - 1 /\ i = (i - 1) + 1
    OBVIOUS
  <2> QED
    BY <2>1
<1>4. DOMAIN ms = {p[i] : i \in 1 .. n - 1}
  <2>1. \A x : x \in DOMAIN ms => x \in {p[i] : i \in 1 .. n - 1}
    BY <1>0, <1>1, <1>2
  <2>2. 1 \in 1 .. n
    OBVIOUS
  <2>3. \A x : x \in {p[i] : i \in 1 .. n - 1} => x \in DOMAIN ms
    BY <1>1, <1>2, <2>2
  <2> QED
    BY <2>1, <2>3
<1>5. ASSUME NEW i \in 1 .. n - 1
      PROVE  /\ ms[p[i]] = Node(Right(p, n - 1, i), Left(p, i), ns[q[i + 1]].word)
             /\ ms[p[i]].word = ns[q[i + 1]].word
  <2> DEFINE v == ns[q[i + 1]].word
             r == ns[q[i + 1]]
             l == Right(q, n, i + 1)
  <2>1. r = Node(l, Left(q, i + 1), v) /\ p[i] = q[i + 1] /\ p[i] \in DOMAIN ms
    BY <1>1, <1>2, <1>4
  <2>2. Right(p, n - 1, i) = l
    <3>1. CASE i = n - 1
      BY <3>1 DEF Right
    <3>2. CASE i # n - 1
      <4>1. i + 1 \in 1 .. n - 1 /\ p[i + 1] = q[(i + 1) + 1]
        BY <3>2
      <4> QED
        BY <3>2, <4>1 DEF Right
    <3> QED
      BY <3>1, <3>2
  <2> HIDE DEF v, l
  <2>3. CASE i = 1
    <3>1. f = q[2] /\ p[i] = f /\ Left(p, i) = 0
      <4>1. n # 1 /\ 1 + 1 = 2
        BY <2>3
      <4> QED
        BY <1>2, <2>3, <4>1 DEF Right, Left
    <3>2. ms[p[i]] = [r EXCEPT !["prev"] = 0]
      BY <2>1, <3>1
    <3> HIDE DEF r
    <3>3. [r EXCEPT !["prev"] = 0] = Node(l, 0, v)
      BY <2>1 DEF Node
    <3>4. Node(l, 0, v).word = v
      BY DEF Node
    <3> QED
      BY <2>2, <3>1, <3>2, <3>3, <3>4 DEF v
  <2>4. CASE i # 1
    <3>1. q[i + 1] # f
      <4>1. n # 1 /\ f = q[1 + 1] /\ 1 + 1 \in 1 .. n /\ i + 1 \in 1 .. n /\ i + 1 # 1 + 1
        BY <2>4 DEF Right
      <4> QED
        BY <1>1, <4>1
    <3>2. ms[p[i]] = r
      BY <2>1, <3>1
    <3>3. Left(q, i + 1) = Left(p, i)
      <4>1. (i + 1) - 1 = i /\ i + 1 # 1 /\ i - 1 \in 1 .. n - 1 /\ (i - 1) + 1 = i
        BY <2>4
      <4>2. p[i - 1] = q[i]
        BY <1>2, <4>1
      <4> QED
        BY <2>4, <4>1, <4>2 DEF Left
    <3> QED
      BY <2>1, <2>2, <3>2, <3>3 DEF v
  <2> QED
    BY <2>3, <2>4
<1>6. \A i \in 1 .. n - 1 : \E v \in Words : ms[p[i]] = Node(Right(p, n - 1, i), Left(p, i), v)
  BY <1>1, <1>2, <1>5
<1> DEFINE b == IF f = 0 THEN 0 ELSE t
           m == n - 1
<1>7. f = (IF m = 0 THEN 0 ELSE p[1]) /\ b = (IF m = 0 THEN 0 ELSE p[m])
  <2>1. CASE n = 1
    BY <2>1 DEF Right
  <2>2. CASE n # 1
    <3>1. /\ 1 \in 1 .. n - 1 /\ n - 1 \in 1 .. n - 1 /\ (n - 1) + 1 = n /\ 1 + 1 \in 1 .. n /\ n \in 1 .. n
      BY <2>2
    <3>2. p[1] = q[1 + 1] /\ p[n - 1] = q[n] /\ f = q[1 + 1] /\ f # 0
      BY <1>1, <1>2, <2>2, <3>1 DEF Right
    <3> QED
      BY <1>1, <2>2, <3>2
  <2> QED
    BY <2>1, <2>2
<1>8. m \in Nat
  OBVIOUS
<1> HIDE DEF b
<1>9. Chain(ms, f, b, m, p)
  <2>1. Joined(ms, p, m)
    BY <1>3, <1>4, <1>6 DEF Joined
  <2> HIDE DEF m
  <2>2. Ends(f, b, m, p)
    BY <1>7 DEF Ends
  <2> QED
    BY <1>8, <2>1, <2>2, ChainIs
<1> QED
  BY <1>2, <1>5, <1>9 DEF b

\* The tail is taken out.
LEMMA ChainPopBack ==
  ASSUME NEW n \in Nat, n # 0, NEW q \in [1 .. n -> Heap], NEW ns, NEW h, NEW t, Chain(ns, h, t, n, q),
         NEW f, f = Left(q, n),
         NEW ms, Shrunk(ns, ms, t, f, "next"), NEW p, p = Upto(q, n)
  PROVE  /\ Chain(ms, IF f = 0 THEN 0 ELSE h, f, n - 1, p) /\ p \in [1 .. n - 1 -> Heap]
         /\ \A i \in 1 .. n - 1 : ms[p[i]].word = ns[q[i]].word
<1> USE DEF Shrunk, Upto
<1>1. /\ DOMAIN ns = {q[i] : i \in 1 .. n} /\ 0 \notin DOMAIN ns
      /\ n = 0 => h = 0 /\ t = 0
      /\ n # 0 => h = q[1] /\ t = q[n] /\ h \in DOMAIN ns /\ t \in DOMAIN ns
      /\ \A i, j \in 1 .. n : q[i] = q[j] => i = j
      /\ \A i \in 1 .. n : /\ q[i] \in Heap /\ q[i] \in DOMAIN ns /\ q[i] # 0
                           /\ ns[q[i]] = Node(Right(q, n, i), Left(q, i), ns[q[i]].word)
                           /\ ns[q[i]].word \in Words
  BY ChainFacts
<1>2. p \in [1 .. n - 1 -> Heap] /\ \A i \in 1 .. n - 1 : i \in 1 .. n /\ i # n /\ p[i] = q[i]
  OBVIOUS
<1>3. \A i, j \in 1 .. n - 1 : p[i] = p[j] => i = j
  BY <1>1, <1>2
<1>0. \A i \in 1 .. n : i = n \/ i \in 1 .. n - 1
  OBVIOUS
<1>4. DOMAIN ms = {p[i] : i \in 1 .. n - 1}
  <2>1. \A x : x \in DOMAIN ms => x \in {p[i] : i \in 1 .. n - 1}
    BY <1>0, <1>1, <1>2
  <2>2. n \in 1 .. n
    OBVIOUS
  <2>3. \A x : x \in {p[i] : i \in 1 .. n - 1} => x \in DOMAIN ms
    BY <1>1, <1>2, <2>2
  <2> QED
    BY <2>1, <2>3
<1>5. ASSUME NEW i \in 1 .. n - 1
      PROVE  /\ ms[p[i]] = Node(Right(p, n - 1, i), Left(p, i), ns[q[i]].word)
             /\ ms[p[i]].word = ns[q[i]].word
  <2> DEFINE v == ns[q[i]].word
             r == ns[q[i]]
             l == Left(q, i)
  <2>1. r = Node(Right(q, n, i), l, v) /\ p[i] = q[i] /\ p[i] \in DOMAIN ms
    BY <1>1, <1>2, <1>4
  <2>2. Left(p, i) = l
    BY DEF Left
  <2> HIDE DEF v, l
  <2>3. CASE i = n - 1
    <3>1. p[i] = f /\ Right(p, n - 1, i) = 0
      BY <1>2, <2>3 DEF Right, Left
    <3>2. ms[p[i]] = [r EXCEPT !["next"] = 0]
      BY <2>1, <3>1
    <3> HIDE DEF r
    <3>3. [r EXCEPT !["next"] = 0] = Node(0, l, v)
      BY <2>1 DEF Node
    <3>4. Node(0, l, v).word = v
      BY DEF Node
    <3> QED
      BY <2>2, <3>1, <3>2, <3>3, <3>4 DEF v
  <2>4. CASE i # n - 1
    <3>1. q[i] # f
      <4>1. n # 1 /\ f = q[n - 1] /\ n - 1 \in 1 .. n /\ i \in 1 .. n
        BY <2>4 DEF Left
      <4> QED
        BY <1>1, <2>4, <4>1
    <3>2. ms[p[i]] = r
      BY <2>1, <3>1
    <3>3. Right(q, n, i) = Right(p, n - 1, i)
      <4>1. i # n /\ i + 1 \in 1 .. n - 1 /\ p[i + 1] = q[i + 1]
        BY <2>4
      <4> QED
        BY <2>4, <4>1 DEF Right
    <3> QED
      BY <2>1, <2>2, <3>2, <3>3 DEF v
  <2> QED
    BY <2>3, <2>4
<1>6. \A i \in 1 .. n - 1 : \E v \in Words : ms[p[i]] = Node(Right(p, n - 1, i), Left(p, i), v)
  BY <1>1, <1>2, <1>5
<1> DEFINE b == IF f = 0 THEN 0 ELSE h
           m == n - 1
<1>7. b = (IF m = 0 THEN 0 ELSE p[1]) /\ f = (IF m = 0 THEN 0 ELSE p[m])
  <2>1. CASE n = 1
    BY <2>1 DEF Left
  <2>2. CASE n # 1
    <3>1. 1 \in 1 .. n - 1 /\ n - 1 \in 1 .. n - 1 /\ 1 \in 1 .. n /\ n - 1 \in 1 .. n
      BY <2>2
    <3>2. p[1] = q[1] /\ p[n - 1] = q[n - 1] /\ f = q[n - 1] /\ f # 0
      BY <1>1, <1>2, <2>2, <3>1 DEF Left
    <3> QED
      BY <1>1, <2>2, <3>2
  <2> QED
    BY <2>1, <2>2
<1>8. m \in Nat
  OBVIOUS
<1> HIDE DEF b
<1>9. Chain(ms, b, f, m, p)
  <2>1. Joined(ms, p, m)
    BY <1>3, <1>4, <1>6 DEF Joined
  <2> HIDE DEF m
  <2>2. Ends(b, f, m, p)
    BY <1>7 DEF Ends
  <2> QED
    BY <1>8, <2>1, <2>2, ChainIs
<1> QED
  BY <1>2, <1>5, <1>9 DEF b

\* The words along a chain.
Told(ns, q, n) == [j \in 0 .. n - 1 |-> ns[q[j + 1]].word]

LEMMA ToldIs ==
  ASSUME NEW n \in Nat, NEW q \in [1 .. n -> Heap], NEW ns, NEW h, NEW t, Chain(ns, h, t, n, q)
  PROVE  \A j \in 0 .. n - 1 : Told(ns, q, n)[j] \in Words /\ Told(ns, q, n)[j] = ns[q[j + 1]].word
<1>1. \A i \in 1 .. n : ns[q[i]].word \in Words
  BY ChainFacts
<1>2. \A j \in 0 .. n - 1 : j + 1 \in 1 .. n /\ Told(ns, q, n)[j] = ns[q[j + 1]].word
  BY DEF Told
<1> QED
  BY <1>1, <1>2

LEMMA WalkIs ==
  ASSUME NEW i
  PROVE  /\ List!Walk(head, "next", i) = Path(nodes, head, "next", i)
         /\ List!Walk(tail, "prev", i) = Path(nodes, tail, "prev", i)
         /\ List!Walk(head, "next", i)' = Path(nodes', head', "next", i')
<1> QED
  BY DEF List!Walk, Path, List!NullPtr

LEMMA ListHolds ==
  ASSUME kind = "list", len \in Nat, NEW q \in [1 .. len -> Heap], Chain(nodes, head, tail, len, q)
  PROVE  /\ Contents = Held(Told(nodes, q, len), len)
         /\ \A i \in 1 .. len : List!Forward[i] = q[i] /\ List!Backward[i] = q[len + 1 - i]
         /\ List!Walk(head, "next", len) = 0 /\ List!Walk(tail, "prev", len) = 0
<1>1. ASSUME NEW i \in 1 .. len
      PROVE  List!Forward[i] = q[i] /\ List!Backward[i] = q[len + 1 - i]
  <2>1. i - 1 \in Nat /\ i - 1 < len /\ (i - 1) + 1 = i /\ len - (i - 1) = len + 1 - i
    OBVIOUS
  <2>2. /\ Path(nodes, head, "next", i - 1) = q[i]
        /\ Path(nodes, tail, "prev", i - 1) = q[len + 1 - i]
    BY <2>1, ChainPaths
  <2> QED
    BY <2>2, WalkIs DEF List!Forward, List!Backward
<1>2. /\ Path(nodes, head, "next", len) = 0
      /\ Path(nodes, tail, "prev", len) = 0
  BY ChainPaths
<1>3. ASSUME NEW i \in 1 .. len
      PROVE  nodes[List!Forward[i]].word = Told(nodes, q, len)[i - 1]
  <2>1. i - 1 \in 0 .. len - 1 /\ (i - 1) + 1 = i
    OBVIOUS
  <2> QED
    BY <1>1, <2>1 DEF Told
<1>4. Contents = List!Contents
  BY DEF Contents, ArrayKinds
<1>5. List!Contents = Held(Told(nodes, q, len), len)
  BY <1>3 DEF List!Contents, Held
<1> QED
  BY <1>1, <1>2, <1>4, <1>5, WalkIs

LEMMA ListHoldsNext ==
  ASSUME kind' = "list", NEW n \in Nat, len' = n, NEW q \in [1 .. n -> Heap],
         Chain(nodes', head', tail', n, q)
  PROVE  Contents' = Held(Told(nodes', q, n), n)
<1>1. ASSUME NEW i \in 1 .. n
      PROVE  List!Forward'[i] = q[i]
  <2>1. i - 1 \in Nat /\ i - 1 < n /\ (i - 1) + 1 = i
    OBVIOUS
  <2>2. Path(nodes', head', "next", i - 1) = q[i]
    BY <2>1, ChainPaths
  <2>3. List!Forward'[i] = Path(nodes', head', "next", i - 1)
    BY WalkIs DEF List!Forward
  <2> QED
    BY <2>2, <2>3
<1>3. ASSUME NEW i \in 1 .. n
      PROVE  nodes'[List!Forward'[i]].word = Told(nodes', q, n)[i - 1]
  <2>1. i - 1 \in 0 .. n - 1 /\ (i - 1) + 1 = i
    OBVIOUS
  <2> QED
    BY <1>1, <2>1 DEF Told
<1>4. Contents' = List!Contents'
  BY DEF Contents, ArrayKinds
<1>5. List!Contents' = Held(Told(nodes', q, n), n)
  BY <1>3 DEF List!Contents, Held
<1> QED
  BY <1>4, <1>5

\* Both ways along a chain are in order.
LEMMA ListOrder ==
  ASSUME ListInv, kind = "list"
  PROVE  List!WellFormed
<1>1. len \in Nat
  BY DEF ListInv
<1>2. PICK q \in [1 .. len -> Heap] : Chain(nodes, head, tail, len, q)
  BY DEF ListInv
<1>3. /\ \A i \in 1 .. len : List!Forward[i] = q[i] /\ List!Backward[i] = q[len + 1 - i]
      /\ List!Walk(head, "next", len) = 0 /\ List!Walk(tail, "prev", len) = 0
  BY <1>1, <1>2, ListHolds
<1>4. DOMAIN nodes = {q[i] : i \in 1 .. len} /\ \A i, j \in 1 .. len : q[i] = q[j] => i = j
  BY <1>1, <1>2, ChainFacts
<1>5. Cardinality(DOMAIN nodes) = len
  BY <1>1, <1>4, CountOf
<1>6. len = List!Cardinality(DOMAIN nodes)
  BY <1>5, SameCount
<1>7. {List!Forward[i] : i \in 1 .. len} = DOMAIN nodes
  BY <1>3, <1>4
<1>8. \A i \in 1 .. len : List!Backward[i] = List!Forward[len + 1 - i]
  <2>1. \A i \in 1 .. len : len + 1 - i \in 1 .. len
    BY <1>1
  <2> QED
    BY <1>3, <2>1
<1> QED
  BY <1>3, <1>6, <1>7, <1>8 DEF List!WellFormed, List!NullPtr

\* A call that leaves the links alone.
LEMMA ListReads ==
  ASSUME ListInv, kind = "list", UNCHANGED sets, NEW v, List!Reads(v)
  PROVE  ListInv' /\ Abstract!Reads(v)
<1>1. UNCHANGED <<kind, state, nodes, head, tail, len, sizes, clean>> /\ answer' = <<v>>
  BY DEF List!Reads, List!list, sets
<1>2. len \in Nat
  BY DEF ListInv
<1>3. PICK q \in [1 .. len -> Heap] : Chain(nodes, head, tail, len, q)
  BY DEF ListInv
<1>4. Chain(nodes', head', tail', len, q)
  BY <1>1, <1>3
<1>5. Contents = Held(Told(nodes, q, len), len)
  BY <1>2, <1>3, ListHolds
<1>6. Contents' = Held(Told(nodes', q, len), len)
  BY <1>1, <1>2, <1>4, ListHoldsNext
<1>7. Contents' = Contents
  BY <1>1, <1>5, <1>6
<1>8. ListInv'
  BY <1>1, <1>2, <1>3 DEF ListInv
<1> QED
  BY <1>1, <1>7, <1>8 DEF Abstract!Reads, Abstract!Answers, Abstract!Returns

\* A call that leaves the chain q of n nodes.
LEMMA ListWrites ==
  ASSUME kind = "list", state = "open", UNCHANGED <<kind, state>>, UNCHANGED sets,
         NEW v, answer' = <<v>>,
         NEW n \in Nat, len' = n, NEW q \in [1 .. n -> Heap], Chain(nodes', head', tail', n, q),
         NEW c, c = Held(Told(nodes', q, n), n)
  PROVE  ListInv' /\ Abstract!Holds(c, v)
<1>1. Contents' = c
  BY ListHoldsNext
<1>2. ListInv'
  BY DEF ListInv
<1> QED
  BY <1>1, <1>2 DEF Abstract!Holds, Abstract!Returns, sets

LEMMA LinkedIs ==
  ASSUME NEW ns, 0 \notin DOMAIN ns, NEW n, n = 0 \/ n \in DOMAIN ns, NEW field, NEW to
  PROVE  /\ DOMAIN List!Linked(ns, n, field, to) = DOMAIN ns
         /\ \A m \in DOMAIN ns : List!Linked(ns, n, field, to)[m]
                                   = IF m = n THEN [ns[m] EXCEPT ![field] = to] ELSE ns[m]
<1>1. CASE n = 0
  BY <1>1 DEF List!Linked, List!NullPtr
<1>2. CASE n # 0
  BY <1>2 DEF List!Linked, List!NullPtr
<1> QED
  BY <1>1, <1>2

\* calloc returns an address that no node has.
LEMMA FreshIs ==
  ASSUME ~List!Exhausted
  PROVE  List!Fresh \in Heap \ DOMAIN nodes
<1> DEFINE S == Heap \ DOMAIN nodes
<1>1. S # {} /\ S \subseteq Nat
  BY DataAssumption DEF List!Exhausted
<1>2. PICK i \in S : \A j \in S : i <= j
  BY <1>1, LeastNatural
<1>3. (CHOOSE x \in S : \A y \in S : x =< y) = i
  BY <1>1, <1>2, MinIs
<1> QED
  BY <1>2, <1>3 DEF List!Fresh, List!Min

LEMMA ListPushBack ==
  ASSUME ListInv, kind = "list", UNCHANGED sets, NEW w \in Words, List!PushBack(w)
  PROVE  ListInv' /\ Abstract!PushBack(w)
<1> DEFINE f == List!Fresh
           ls == List!Linked(nodes, tail, "next", f)
<1>1. len \in Nat
  BY DEF ListInv
<1>2. PICK q \in [1 .. len -> Heap] : Chain(nodes, head, tail, len, q)
  BY DEF ListInv
<1>3. f \in Heap /\ f \notin DOMAIN nodes
  BY FreshIs DEF List!PushBack
<1>4. /\ state = "open" /\ UNCHANGED <<kind, state>> /\ answer' = <<0>>
      /\ nodes' = List!With(ls, f, [next |-> 0, prev |-> tail, word |-> w])
      /\ head' = (IF tail = 0 THEN f ELSE head) /\ tail' = f /\ len' = len + 1
  BY DEF List!PushBack, List!Open, List!Returns, List!NullPtr
<1> HIDE DEF f
<1>5. 0 \notin DOMAIN nodes /\ (tail = 0 \/ tail \in DOMAIN nodes)
  BY <1>1, <1>2, ChainFacts
<1>6. /\ DOMAIN ls = DOMAIN nodes
      /\ \A m \in DOMAIN nodes : ls[m] = IF m = tail THEN [nodes[m] EXCEPT !["next"] = f] ELSE nodes[m]
  BY <1>5, LinkedIs
<1> HIDE DEF ls
<1>7. Grown(nodes, nodes', f, Node(0, tail, w), tail, "next")
  BY <1>3, <1>4, <1>6 DEF List!With, Node, Grown
<1> DEFINE d == Told(nodes, q, len)
           p == Behind(q, len, f)
           n == len + 1
           e == Told(nodes', p, n)
<1>8. /\ Chain(nodes', IF tail = 0 THEN f ELSE head, f, len + 1, p) /\ p \in [1 .. len + 1 -> Heap]
      /\ nodes'[p[len + 1]].word = w /\ \A i \in 1 .. len : nodes'[p[i]].word = nodes[q[i]].word
  BY <1>1, <1>2, <1>3, <1>7, ChainBack
<1> HIDE DEF p
<1>9. \A j \in 0 .. len - 1 : d[j] \in Words /\ d[j] = nodes[q[j + 1]].word
  BY <1>1, <1>2, ToldIs
<1>10. e[len] = w /\ \A j \in 0 .. len - 1 : e[j] = d[j]
  <2>1. \A j \in 0 .. len - 1 : j + 1 \in 1 .. len /\ j \in 0 .. n - 1
    BY <1>1
  <2>2. len \in 0 .. n - 1
    BY <1>1
  <2> QED
    BY <1>8, <1>9, <2>1, <2>2 DEF Told
<1> HIDE DEF d, e
<1>11. Held(e, len + 1) = Append(Held(d, len), w)
  BY <1>1, <1>9, <1>10, HeldAppend
<1> DEFINE c == Append(Held(d, len), w)
<1>12. Chain(nodes', head', tail', n, p) /\ p \in [1 .. n -> Heap] /\ n \in Nat /\ len' = n
  BY <1>1, <1>4, <1>8
<1>13. c = Held(Told(nodes', p, n), n)
  BY <1>11 DEF e
<1> HIDE DEF c, n
<1>14. ListInv' /\ Abstract!Holds(c, 0)
  BY <1>4, <1>12, <1>13, ListWrites
<1>15. Contents = Held(d, len)
  BY <1>1, <1>2, ListHolds DEF d
<1> QED
  BY <1>4, <1>14, <1>15 DEF c, Abstract!PushBack, Abstract!Open

LEMMA HeldPrepend ==
  ASSUME NEW n \in Nat, NEW d, \A i \in 0 .. n - 1 : d[i] \in Words, NEW w \in Words,
         NEW e, e[0] = w, \A i \in 0 .. n - 1 : e[i + 1] = d[i]
  PROVE  Held(e, n + 1) = <<w>> \o Held(d, n)
<1> DEFINE s == <<w>> \o Held(d, n)
<1>1. Held(d, n) \in Seq(Words) /\ Len(Held(d, n)) = n /\ \A i \in 1 .. n : Held(d, n)[i] = d[i - 1]
  BY HeldIs
<1> HIDE DEF Held
<1>2. <<w>> \in Seq(Words) /\ Len(<<w>>) = 1 /\ <<w>>[1] = w
  OBVIOUS
<1>3. s \in Seq(Words) /\ Len(s) = 1 + n
      /\ \A i \in 1 .. 1 + n : s[i] = IF i <= 1 THEN <<w>>[i] ELSE Held(d, n)[i - 1]
  BY <1>1, <1>2, ConcatProperties
<1> HIDE DEF s
<1>4. ASSUME NEW i \in 1 .. n + 1
      PROVE  s[i] = e[i - 1] /\ e[i - 1] \in Words
  <2>1. CASE i = 1
    <3>1. s[1] = w
      BY <1>2, <1>3, <2>1
    <3>2. i - 1 = 0
      BY <2>1
    <3> QED
      BY <2>1, <3>1, <3>2
  <2>2. CASE i # 1
    <3> DEFINE j == i - 2
    <3>1. j \in 0 .. n - 1 /\ j + 1 = i - 1 /\ i - 1 \in 1 .. n /\ (i - 1) - 1 = j /\ i \in 1 .. 1 + n /\ ~(i <= 1)
      BY <2>2
    <3> HIDE DEF j
    <3>2. s[i] = d[j]
      BY <1>1, <1>3, <3>1
    <3> QED
      BY <3>1, <3>2
  <2> QED
    BY <2>1, <2>2
<1>5. \A i \in 0 .. (n + 1) - 1 : e[i] \in Words
  <2>1. \A i \in 0 .. (n + 1) - 1 : i + 1 \in 1 .. n + 1 /\ (i + 1) - 1 = i
    OBVIOUS
  <2> QED
    BY <1>4, <2>1
<1>6. s = Held(e, n + 1)
  <2>1. n + 1 \in Nat /\ Len(s) = n + 1 /\ \A i \in 1 .. n + 1 : s[i] = e[i - 1]
    BY <1>3, <1>4
  <2> QED
    BY <1>3, <1>5, <2>1, HeldEqual
<1> QED
  BY <1>6 DEF s

LEMMA ListPushFront ==
  ASSUME ListInv, kind = "list", UNCHANGED sets, NEW w \in Words, List!PushFront(w)
  PROVE  ListInv' /\ Abstract!PushFront(w)
<1> DEFINE f == List!Fresh
           ls == List!Linked(nodes, head, "prev", f)
<1>1. len \in Nat
  BY DEF ListInv
<1>2. PICK q \in [1 .. len -> Heap] : Chain(nodes, head, tail, len, q)
  BY DEF ListInv
<1>3. f \in Heap /\ f \notin DOMAIN nodes
  BY FreshIs DEF List!PushFront
<1>4. /\ state = "open" /\ UNCHANGED <<kind, state>> /\ answer' = <<0>>
      /\ nodes' = List!With(ls, f, [next |-> head, prev |-> 0, word |-> w])
      /\ tail' = (IF head = 0 THEN f ELSE tail) /\ head' = f /\ len' = len + 1
  BY DEF List!PushFront, List!Open, List!Returns, List!NullPtr
<1> HIDE DEF f
<1>5. 0 \notin DOMAIN nodes /\ (head = 0 \/ head \in DOMAIN nodes)
  BY <1>1, <1>2, ChainFacts
<1>6. /\ DOMAIN ls = DOMAIN nodes
      /\ \A m \in DOMAIN nodes : ls[m] = IF m = head THEN [nodes[m] EXCEPT !["prev"] = f] ELSE nodes[m]
  BY <1>5, LinkedIs
<1> HIDE DEF ls
<1>7. Grown(nodes, nodes', f, Node(head, 0, w), head, "prev")
  BY <1>3, <1>4, <1>6 DEF List!With, Node, Grown
<1> DEFINE d == Told(nodes, q, len)
           p == Before(q, len, f)
           n == len + 1
           e == Told(nodes', p, n)
<1>8. /\ Chain(nodes', f, IF head = 0 THEN f ELSE tail, len + 1, p) /\ p \in [1 .. len + 1 -> Heap]
      /\ nodes'[p[1]].word = w /\ \A i \in 1 .. len : nodes'[p[i + 1]].word = nodes[q[i]].word
  BY <1>1, <1>2, <1>3, <1>7, ChainFront
<1> HIDE DEF p
<1>9. \A j \in 0 .. len - 1 : d[j] \in Words /\ d[j] = nodes[q[j + 1]].word
  BY <1>1, <1>2, ToldIs
<1>10. e[0] = w /\ \A j \in 0 .. len - 1 : e[j + 1] = d[j]
  <2>1. \A j \in 0 .. len - 1 : j + 1 \in 1 .. len /\ j + 1 \in 0 .. n - 1
    BY <1>1
  <2>2. 0 \in 0 .. n - 1 /\ 0 + 1 = 1
    BY <1>1
  <2> QED
    BY <1>8, <1>9, <2>1, <2>2 DEF Told
<1> HIDE DEF d, e
<1>11. Held(e, len + 1) = <<w>> \o Held(d, len)
  BY <1>1, <1>9, <1>10, HeldPrepend
<1> DEFINE c == <<w>> \o Held(d, len)
<1>12. Chain(nodes', head', tail', n, p) /\ p \in [1 .. n -> Heap] /\ n \in Nat /\ len' = n
  BY <1>1, <1>4, <1>8
<1>13. c = Held(Told(nodes', p, n), n)
  BY <1>11 DEF e
<1> HIDE DEF c, n
<1>14. ListInv' /\ Abstract!Holds(c, 0)
  BY <1>4, <1>12, <1>13, ListWrites
<1>15. Contents = Held(d, len)
  BY <1>1, <1>2, ListHolds DEF d
<1> QED
  BY <1>4, <1>14, <1>15 DEF c, Abstract!PushFront, Abstract!Open

LEMMA HeldTail ==
  ASSUME NEW n \in Nat, n # 0, NEW d, \A i \in 0 .. n - 1 : d[i] \in Words,
         NEW e, \A i \in 0 .. n - 2 : e[i] = d[i + 1]
  PROVE  /\ Held(d, n) # << >> /\ Tail(Held(d, n)) = Held(e, n - 1)
         /\ Head(Held(d, n)) = d[0]
<1> DEFINE c == Held(d, n)
           s == Tail(c)
<1>1. c \in Seq(Words) /\ Len(c) = n /\ (n = 0 <=> c = << >>) /\ \A i \in 1 .. n : c[i] = d[i - 1]
  BY HeldIs
<1> HIDE DEF c
<1>2. s \in Seq(Words) /\ Len(s) = n - 1 /\ \A i \in 1 .. n - 1 : s[i] = c[i + 1]
  BY <1>1, HeadTailProperties
<1>3. Head(c) = d[0]
  <2>1. 1 \in 1 .. n /\ 1 - 1 = 0
    OBVIOUS
  <2>2. Head(c) = c[1]
    BY <1>1
  <2> QED
    BY <1>1, <2>1, <2>2
<1> HIDE DEF s
<1>4. ASSUME NEW i \in 1 .. n - 1
      PROVE  s[i] = e[i - 1] /\ e[i - 1] \in Words
  <2>1. i - 1 \in 0 .. n - 2 /\ (i - 1) + 1 = i /\ i + 1 \in 1 .. n /\ (i + 1) - 1 = i /\ i \in 0 .. n - 1
    OBVIOUS
  <2>2. s[i] = d[i]
    BY <1>1, <1>2, <2>1
  <2>3. e[i - 1] = d[i] /\ d[i] \in Words
    BY <2>1
  <2> QED
    BY <2>2, <2>3
<1>5. \A i \in 0 .. (n - 1) - 1 : e[i] \in Words
  <2>1. \A i \in 0 .. (n - 1) - 1 : i + 1 \in 1 .. n - 1 /\ (i + 1) - 1 = i
    OBVIOUS
  <2> QED
    BY <1>4, <2>1
<1>6. s = Held(e, n - 1)
  <2>1. n - 1 \in Nat /\ Len(s) = n - 1 /\ \A i \in 1 .. n - 1 : s[i] = e[i - 1]
    BY <1>2, <1>4
  <2> QED
    BY <1>2, <1>5, <2>1, HeldEqual
<1> QED
  BY <1>1, <1>3, <1>6 DEF s, c

LEMMA ListPopFront ==
  ASSUME ListInv, kind = "list", UNCHANGED sets, List!PopFront
  PROVE  ListInv' /\ Abstract!PopFront
<1>1. len \in Nat
  BY DEF ListInv
<1>2. PICK q \in [1 .. len -> Heap] : Chain(nodes, head, tail, len, q)
  BY DEF ListInv
<1>3. /\ DOMAIN nodes = {q[i] : i \in 1 .. len} /\ 0 \notin DOMAIN nodes
      /\ len = 0 => head = 0 /\ tail = 0
      /\ len # 0 => head = q[1] /\ tail = q[len] /\ head \in DOMAIN nodes /\ tail \in DOMAIN nodes
      /\ \A i, j \in 1 .. len : q[i] = q[j] => i = j
      /\ \A i \in 1 .. len : /\ q[i] \in Heap /\ q[i] \in DOMAIN nodes /\ q[i] # 0
                             /\ nodes[q[i]] = Node(Right(q, len, i), Left(q, i), nodes[q[i]].word)
                             /\ nodes[q[i]].word \in Words
  BY <1>1, <1>2, ChainFacts
<1> DEFINE d == Told(nodes, q, len)
           c == Held(d, len)
<1>4. \A j \in 0 .. len - 1 : d[j] \in Words /\ d[j] = nodes[q[j + 1]].word
  BY <1>1, <1>2, ToldIs
<1>5. Contents = c
  BY <1>1, <1>2, ListHolds
<1>6. state = "open" /\ kind \in {"list"}
  BY DEF List!PopFront, List!Open
<1>7. CASE head # 0
  <2> DEFINE f == nodes[head].next
             fs == List!Freed(nodes, head)
             p == Beyond(q, len)
             n == len - 1
             e == Told(nodes', p, n)
  <2>1. /\ nodes' = List!Linked(fs, f, "prev", 0) /\ head' = f
        /\ tail' = (IF f = 0 THEN 0 ELSE tail) /\ len' = n
        /\ answer' = <<nodes[head].word>> /\ UNCHANGED <<kind, state>>
    BY <1>7 DEF List!PopFront, List!Returns, List!Reads, List!NullPtr
  <2>2. len # 0 /\ 1 \in 1 .. len /\ head = q[1]
    BY <1>1, <1>3, <1>7
  <2>3. f = Right(q, len, 1)
    <3>1. nodes[head] = Node(Right(q, len, 1), Left(q, 1), nodes[q[1]].word)
      BY <1>3, <2>2
    <3> QED
      BY <3>1 DEF Node
  <2> HIDE DEF f
  <2>4. DOMAIN fs = DOMAIN nodes \ {head} /\ \A m \in DOMAIN fs : fs[m] = nodes[m]
    BY DEF List!Freed, List!Restrict
  <2> HIDE DEF fs
  <2>5. f = 0 \/ f \in DOMAIN fs
    <3>1. CASE len = 1
      BY <2>3, <3>1 DEF Right
    <3>2. CASE len # 1
      <4>1. 1 + 1 \in 1 .. len /\ f = q[1 + 1] /\ 1 + 1 # 1
        BY <1>1, <2>2, <2>3, <3>2 DEF Right
      <4> QED
        BY <1>3, <2>2, <2>4, <4>1
    <3> QED
      BY <3>1, <3>2
  <2>6. /\ DOMAIN nodes' = DOMAIN fs
        /\ \A m \in DOMAIN fs : nodes'[m] = IF m = f THEN [fs[m] EXCEPT !["prev"] = 0] ELSE fs[m]
    <3>1. 0 \notin DOMAIN fs
      BY <1>3, <2>4
    <3>2. /\ DOMAIN List!Linked(fs, f, "prev", 0) = DOMAIN fs
          /\ \A m \in DOMAIN fs : List!Linked(fs, f, "prev", 0)[m]
                                     = IF m = f THEN [fs[m] EXCEPT !["prev"] = 0] ELSE fs[m]
      BY <2>5, <3>1, LinkedIs
    <3> QED
      BY <2>1, <3>2
  <2>7. Shrunk(nodes, nodes', head, f, "prev")
    BY <2>4, <2>6 DEF Shrunk
  <2>8. /\ Chain(nodes', f, IF f = 0 THEN 0 ELSE tail, len - 1, p) /\ p \in [1 .. len - 1 -> Heap]
        /\ \A i \in 1 .. len - 1 : nodes'[p[i]].word = nodes[q[i + 1]].word
    <3>1. len # 0 /\ len \in Nat
      BY <1>1, <2>2
    <3> HIDE DEF p
    <3>2. p = Beyond(q, len)
      BY DEF p
    <3> QED
      BY <1>2, <2>3, <2>7, <3>1, <3>2, ChainPopFront
  <2> HIDE DEF p
  <2>9. \A j \in 0 .. len - 2 : e[j] = d[j + 1]
    <3>1. \A j \in 0 .. len - 2 : /\ j + 1 \in 1 .. len - 1 /\ j + 1 \in 0 .. len - 1 /\ j \in 0 .. n - 1
      BY <1>1
    <3> QED
      BY <1>4, <2>8, <3>1 DEF Told
  <2>10. d[0] = nodes[head].word
    <3>1. 0 \in 0 .. len - 1 /\ 0 + 1 = 1
      BY <1>1, <2>2
    <3> QED
      BY <1>4, <2>2, <3>1
  <2> HIDE DEF d, e
  <2>11. c # << >> /\ Tail(c) = Held(e, len - 1) /\ Head(c) = d[0]
    <3>1. len # 0 /\ len \in Nat /\ \A j \in 0 .. len - 1 : d[j] \in Words
      BY <1>1, <1>4, <2>2
    <3> QED
      BY <2>9, <3>1, HeldTail
  <2> DEFINE t == Tail(c)
             v == nodes[head].word
  <2>12. Chain(nodes', head', tail', n, p) /\ p \in [1 .. n -> Heap] /\ n \in Nat /\ len' = n
    BY <1>1, <2>1, <2>2, <2>8
  <2>13. t = Held(Told(nodes', p, n), n)
    BY <2>11 DEF e
  <2> HIDE DEF c, n, t, v
  <2>14. ListInv' /\ Abstract!Holds(t, v)
    <3>1. answer' = <<v>>
      BY <2>1 DEF v
    <3> QED
      BY <1>6, <2>1, <2>12, <2>13, <3>1, ListWrites
  <2> QED
    BY <1>5, <1>6, <2>10, <2>11, <2>14 DEF t, v, Abstract!PopFront, Abstract!Open
<1>8. CASE head = 0
  <2>1. List!Reads(-1)
    BY <1>8 DEF List!PopFront, List!NullPtr
  <2>2. len = 0
    BY <1>3, <1>8
  <2>3. c = << >>
    BY <1>4, <2>2, HeldIs
  <2>4. ListInv' /\ Abstract!Reads(-1)
    BY <2>1, ListReads
  <2> QED
    BY <1>5, <1>6, <2>3, <2>4 DEF Abstract!PopFront, Abstract!Open
<1> QED
  BY <1>7, <1>8

LEMMA ListPopBack ==
  ASSUME ListInv, kind = "list", UNCHANGED sets, List!PopBack
  PROVE  ListInv' /\ Abstract!PopBack
<1>1. len \in Nat
  BY DEF ListInv
<1>2. PICK q \in [1 .. len -> Heap] : Chain(nodes, head, tail, len, q)
  BY DEF ListInv
<1>3. /\ DOMAIN nodes = {q[i] : i \in 1 .. len} /\ 0 \notin DOMAIN nodes
      /\ len = 0 => head = 0 /\ tail = 0
      /\ len # 0 => head = q[1] /\ tail = q[len] /\ head \in DOMAIN nodes /\ tail \in DOMAIN nodes
      /\ \A i, j \in 1 .. len : q[i] = q[j] => i = j
      /\ \A i \in 1 .. len : /\ q[i] \in Heap /\ q[i] \in DOMAIN nodes /\ q[i] # 0
                             /\ nodes[q[i]] = Node(Right(q, len, i), Left(q, i), nodes[q[i]].word)
                             /\ nodes[q[i]].word \in Words
  BY <1>1, <1>2, ChainFacts
<1> DEFINE d == Told(nodes, q, len)
           c == Held(d, len)
<1>4. \A j \in 0 .. len - 1 : d[j] \in Words /\ d[j] = nodes[q[j + 1]].word
  BY <1>1, <1>2, ToldIs
<1>5. Contents = c
  BY <1>1, <1>2, ListHolds
<1>6. state = "open" /\ kind \in {"vector", "list"}
  BY DEF List!PopBack, List!Open
<1>7. CASE tail # 0
  <2> DEFINE f == nodes[tail].prev
             fs == List!Freed(nodes, tail)
             p == Upto(q, len)
             n == len - 1
             e == Told(nodes', p, n)
  <2>1. /\ nodes' = List!Linked(fs, f, "next", 0) /\ tail' = f
        /\ head' = (IF f = 0 THEN 0 ELSE head) /\ len' = n
        /\ answer' = <<nodes[tail].word>> /\ UNCHANGED <<kind, state>>
    BY <1>7 DEF List!PopBack, List!Returns, List!Reads, List!NullPtr
  <2>2. len # 0 /\ len \in 1 .. len /\ tail = q[len]
    BY <1>1, <1>3, <1>7
  <2>3. f = Left(q, len)
    <3>1. nodes[tail] = Node(Right(q, len, len), Left(q, len), nodes[q[len]].word)
      BY <1>3, <2>2
    <3> QED
      BY <3>1 DEF Node
  <2> HIDE DEF f
  <2>4. DOMAIN fs = DOMAIN nodes \ {tail} /\ \A m \in DOMAIN fs : fs[m] = nodes[m]
    BY DEF List!Freed, List!Restrict
  <2> HIDE DEF fs
  <2>5. f = 0 \/ f \in DOMAIN fs
    <3>1. CASE len = 1
      BY <2>3, <3>1 DEF Left
    <3>2. CASE len # 1
      <4>1. len - 1 \in 1 .. len /\ f = q[len - 1] /\ len - 1 # len
        BY <1>1, <2>2, <2>3, <3>2 DEF Left
      <4> QED
        BY <1>3, <2>2, <2>4, <4>1
    <3> QED
      BY <3>1, <3>2
  <2>6. /\ DOMAIN nodes' = DOMAIN fs
        /\ \A m \in DOMAIN fs : nodes'[m] = IF m = f THEN [fs[m] EXCEPT !["next"] = 0] ELSE fs[m]
    <3>1. 0 \notin DOMAIN fs
      BY <1>3, <2>4
    <3>2. /\ DOMAIN List!Linked(fs, f, "next", 0) = DOMAIN fs
          /\ \A m \in DOMAIN fs : List!Linked(fs, f, "next", 0)[m]
                                     = IF m = f THEN [fs[m] EXCEPT !["next"] = 0] ELSE fs[m]
      BY <2>5, <3>1, LinkedIs
    <3> QED
      BY <2>1, <3>2
  <2>7. Shrunk(nodes, nodes', tail, f, "next")
    BY <2>4, <2>6 DEF Shrunk
  <2>8. /\ Chain(nodes', IF f = 0 THEN 0 ELSE head, f, len - 1, p) /\ p \in [1 .. len - 1 -> Heap]
        /\ \A i \in 1 .. len - 1 : nodes'[p[i]].word = nodes[q[i]].word
    BY <1>1, <1>2, <2>2, <2>3, <2>7, ChainPopBack
  <2> HIDE DEF p
  <2>9. \A j \in 0 .. len - 2 : e[j] = d[j]
    <3>1. \A j \in 0 .. len - 2 : /\ j + 1 \in 1 .. len - 1 /\ j \in 0 .. len - 1 /\ j \in 0 .. n - 1
      BY <1>1
    <3> QED
      BY <1>4, <2>8, <3>1 DEF Told
  <2>10. d[len - 1] = nodes[tail].word
    <3>1. len - 1 \in 0 .. len - 1 /\ (len - 1) + 1 = len
      BY <1>1, <2>2
    <3> QED
      BY <1>4, <2>2, <3>1
  <2> HIDE DEF d, e
  <2>11. c # << >> /\ c[Len(c)] = d[len - 1] /\ SubSeq(c, 1, Len(c) - 1) = Held(e, len - 1)
    <3>1. /\ Len(c) = len /\ (len = 0 <=> c = << >>) /\ \A i \in 1 .. len : c[i] = d[i - 1]
      BY <1>1, <1>4, HeldIs
    <3>2. SubSeq(c, 1, Len(c) - 1) = Held(d, len - 1)
      BY <1>1, <1>4, <2>2, HeldFront
    <3>3. Held(d, len - 1) = Held(e, len - 1)
      <4>1. \A i \in 1 .. len - 1 : i - 1 \in 0 .. len - 2
        BY <1>1
      <4> QED
        BY <2>9, <4>1 DEF Held
    <3> QED
      BY <2>2, <3>1, <3>2, <3>3
  <2> DEFINE t == SubSeq(c, 1, Len(c) - 1)
             v == nodes[tail].word
  <2>12. Chain(nodes', head', tail', n, p) /\ p \in [1 .. n -> Heap] /\ n \in Nat /\ len' = n
    BY <1>1, <2>1, <2>2, <2>8
  <2>13. t = Held(Told(nodes', p, n), n)
    BY <2>11 DEF e
  <2> HIDE DEF c, n, t, v
  <2>14. ListInv' /\ Abstract!Holds(t, v)
    <3>1. answer' = <<v>>
      BY <2>1 DEF v
    <3> QED
      BY <1>6, <2>1, <2>12, <2>13, <3>1, ListWrites
  <2> QED
    BY <1>5, <1>6, <2>10, <2>11, <2>14 DEF t, v, Abstract!PopBack, Abstract!Open, Abstract!Front, Abstract!Last
<1>8. CASE tail = 0
  <2>1. List!Reads(-1)
    BY <1>8 DEF List!PopBack, List!NullPtr
  <2>2. len = 0
    BY <1>3, <1>8
  <2>3. c = << >>
    BY <1>4, <2>2, HeldIs
  <2>4. ListInv' /\ Abstract!Reads(-1)
    BY <2>1, ListReads
  <2> QED
    BY <1>5, <1>6, <2>3, <2>4 DEF Abstract!PopBack, Abstract!Open
<1> QED
  BY <1>7, <1>8

\* A list without nodes.
LEMMA ChainNone ==
  ASSUME NEW ns, DOMAIN ns = {}
  PROVE  \E q \in [1 .. 0 -> Heap] : Chain(ns, 0, 0, 0, q)
<1> DEFINE q == [i \in 1 .. 0 |-> 0]
<1>1. 1 .. 0 = {}
  OBVIOUS
<1>2. q \in [1 .. 0 -> Heap]
  BY <1>1
<1>3. Chain(ns, 0, 0, 0, q)
  BY <1>1 DEF Chain
<1> QED
  BY <1>2, <1>3

\* list_clear comes past every node.
LEMMA ReachedIs ==
  ASSUME ListInv, kind = "list"
  PROVE  List!Reached = DOMAIN nodes
<1>1. len \in Nat
  BY DEF ListInv
<1>2. PICK q \in [1 .. len -> Heap] : Chain(nodes, head, tail, len, q)
  BY DEF ListInv
<1>3. /\ DOMAIN nodes = {q[i] : i \in 1 .. len} /\ 0 \notin DOMAIN nodes
      /\ \A i, j \in 1 .. len : q[i] = q[j] => i = j
  BY <1>1, <1>2, ChainFacts
<1>4. List!Cardinality(DOMAIN nodes) = len
  <2>1. Cardinality(DOMAIN nodes) = len
    BY <1>1, <1>3, CountOf
  <2> QED
    BY <2>1, SameCount
<1>5. ASSUME NEW i \in 0 .. len
      PROVE  List!Walk(head, "next", i) = IF i < len THEN q[i + 1] ELSE 0
  <2>1. i \in Nat
    BY <1>1
  <2>2. Path(nodes, head, "next", i) = IF i < len THEN q[i + 1] ELSE 0
    BY <1>1, <1>2, <2>1, ChainPaths
  <2> QED
    BY <2>2, WalkIs
<1>6. ASSUME NEW m \in List!Reached
      PROVE  m \in DOMAIN nodes
  <2>1. PICK i \in 0 .. len : m = List!Walk(head, "next", i) /\ m # 0
    BY <1>4 DEF List!Reached, List!NullPtr
  <2>2. i < len /\ m = q[i + 1]
    BY <1>5, <2>1
  <2>3. i + 1 \in 1 .. len
    BY <1>1, <2>2
  <2> QED
    BY <1>3, <2>2, <2>3
<1>7. ASSUME NEW m \in DOMAIN nodes
      PROVE  m \in List!Reached
  <2>1. PICK i \in 1 .. len : m = q[i]
    BY <1>3
  <2>2. i - 1 \in 0 .. len /\ i - 1 < len /\ (i - 1) + 1 = i
    BY <1>1
  <2>3. List!Walk(head, "next", i - 1) = m
    BY <1>5, <2>1, <2>2
  <2>4. m # 0
    BY <1>3
  <2> QED
    BY <1>4, <2>2, <2>3, <2>4 DEF List!Reached, List!NullPtr
<1> QED
  BY <1>6, <1>7

\* An emptied list.
LEMMA ListEmptied ==
  ASSUME ListInv, kind = "list", kind' = "list",
         nodes' = List!Restrict(nodes, DOMAIN nodes \ List!Reached),
         head' = 0, tail' = 0, len' = 0
  PROVE  ListInv' /\ Contents' = << >>
<1>1. DOMAIN nodes' = {}
  BY ReachedIs DEF List!Restrict
<1>2. PICK q \in [1 .. 0 -> Heap] : Chain(nodes', 0, 0, 0, q)
  BY <1>1, ChainNone
<1>3. Contents' = Held(Told(nodes', q, 0), 0)
  BY <1>2, ListHoldsNext
<1>4. ListInv'
  BY <1>2 DEF ListInv
<1> QED
  BY <1>3, <1>4 DEF Held

LEMMA ListSteps ==
  ASSUME ListInv, kind = "list", UNCHANGED sets, clean = {1, 2}
  PROVE  /\ List!New => ListInv' /\ Abstract!New
         /\ List!Refuse => ListInv' /\ Abstract!Refuse
         /\ List!Free => ListInv' /\ Abstract!Free
         /\ List!NodeFault => ListInv' /\ Abstract!Fault
         /\ List!Clear => ListInv' /\ Abstract!Clear
         /\ List!Length => ListInv' /\ Abstract!Length
         /\ \A i \in Indices : List!Get(i) => ListInv' /\ Abstract!Get(i)
<1>1. len \in Nat
  BY DEF ListInv
<1>2. PICK q \in [1 .. len -> Heap] : Chain(nodes, head, tail, len, q)
  BY DEF ListInv
<1> DEFINE d == Told(nodes, q, len)
           c == Held(d, len)
<1>3. \A j \in 0 .. len - 1 : d[j] \in Words /\ d[j] = nodes[q[j + 1]].word
  BY <1>1, <1>2, ToldIs
<1>4. Contents = c
  BY <1>1, <1>2, ListHolds
<1> HIDE DEF d
<1>5. Len(c) = len /\ (len = 0 => c = << >>) /\ \A j \in 1 .. len : c[j] = d[j - 1]
  BY <1>1, <1>3, HeldIs
<1> HIDE DEF c
<1>6. Abstract!Nothing = << >>
  BY DEF Abstract!Nothing
<1>7. ASSUME UNCHANGED <<kind, nodes, head, tail, len>>
      PROVE  Contents' = Contents /\ (len = 0 => ListInv') /\ (state' = state => ListInv')
                /\ (state' # "null" => ListInv')
  <2>1. Chain(nodes', head', tail', len, q) /\ len' = len /\ kind' = "list"
    BY <1>2, <1>7
  <2>2. Contents' = Held(Told(nodes', q, len), len)
    BY <1>1, <2>1, ListHoldsNext
  <2>3. Contents' = Contents
    BY <1>4, <1>7, <2>2 DEF c, d
  <2> QED
    BY <1>1, <1>2, <1>7, <2>3 DEF ListInv
<1>8. ASSUME List!New
      PROVE  ListInv' /\ Abstract!New
  <2>1. /\ UNCHANGED <<kind, nodes, head, tail, len, answer, sizes, clean>>
        /\ state = "null" /\ state' \in {"null", "open"}
    BY <1>8 DEF List!New, List!list, sets
  <2>2. len = 0
    BY <2>1 DEF ListInv
  <2> QED
    BY <1>4, <1>5, <1>6, <1>7, <2>1, <2>2 DEF Abstract!New
<1>9. ASSUME List!Refuse
      PROVE  ListInv' /\ Abstract!Refuse
  <2>1. PICK v \in {0, -1} : List!Reads(v) /\ state = "null"
    BY <1>9 DEF List!Refuse
  <2>2. ListInv' /\ Abstract!Reads(v)
    BY <2>1, ListReads
  <2> QED
    BY <2>1, <2>2 DEF Abstract!Refuse
<1>10. ASSUME List!Free
       PROVE  ListInv' /\ Abstract!Free
  <2>1. /\ state = "open" /\ state' = "null" /\ UNCHANGED <<kind, answer, sizes, clean>>
        /\ nodes' = List!Restrict(nodes, DOMAIN nodes \ List!Reached)
        /\ head' = 0 /\ tail' = 0 /\ len' = 0
    BY <1>10 DEF List!Free, List!Open, List!NullPtr, sets
  <2>2. ListInv' /\ Contents' = << >>
    BY <2>1, ListEmptied
  <2> QED
    BY <1>6, <2>1, <2>2 DEF Abstract!Free
<1>11. ASSUME List!NodeFault
       PROVE  ListInv' /\ Abstract!Fault
  <2>1. /\ UNCHANGED <<kind, nodes, head, tail, len, answer, sizes, clean>>
        /\ state = "open" /\ state' = "fault"
    BY <1>11 DEF List!NodeFault, List!Open, List!list, sets
  <2> QED
    BY <1>7, <2>1 DEF Abstract!Fault, Abstract!Unchecked
<1>12. ASSUME List!Clear
       PROVE  ListInv' /\ Abstract!Clear
  <2>1. /\ state = "open" /\ UNCHANGED <<kind, state, sizes, clean>> /\ answer' = <<0>>
        /\ nodes' = List!Restrict(nodes, DOMAIN nodes \ List!Reached)
        /\ head' = 0 /\ tail' = 0 /\ len' = 0
    BY <1>12 DEF List!Clear, List!Open, List!Returns, List!NullPtr, sets
  <2>2. ListInv' /\ Contents' = << >>
    BY <2>1, ListEmptied
  <2> QED
    BY <2>1, <2>2 DEF Abstract!Clear, Abstract!Open, Abstract!Sequential, Abstract!Holds, Abstract!Returns
<1>13. ASSUME List!Length
       PROVE  ListInv' /\ Abstract!Length
  <2>1. state = "open" /\ List!Reads(len)
    BY <1>13 DEF List!Length, List!Open
  <2>2. ListInv' /\ Abstract!Reads(len)
    BY <2>1, ListReads
  <2> QED
    BY <1>4, <1>5, <2>1, <2>2 DEF Abstract!Length, Abstract!Open, Abstract!Sequential
<1>14. ASSUME NEW i \in Indices, List!Get(i)
       PROVE  ListInv' /\ Abstract!Get(i)
  <2> DEFINE n == List!Walk(head, "next", i)
             v == IF n = 0 THEN 0 ELSE nodes[n].word
  <2>1. state = "open" /\ List!Reads(v)
    BY <1>14 DEF List!Get, List!Open, List!NullPtr
  <2>2. ListInv' /\ Abstract!Reads(v)
    BY <2>1, ListReads
  <2>3. i \in Nat
    BY SizesAssumption
  <2>4. Path(nodes, head, "next", i) = IF i < len THEN q[i + 1] ELSE 0
    BY <1>1, <1>2, <2>3, ChainPaths
  <2>5. n = IF i < len THEN q[i + 1] ELSE 0
    BY <2>4, WalkIs
  <2>6. \A j \in 1 .. len : q[j] # 0
    BY DataAssumption
  <2>7. v = IF i < Len(c) THEN c[i + 1] ELSE 0
    <3>1. CASE i < len
      <4>1. i + 1 \in 1 .. len /\ i \in 0 .. len - 1 /\ (i + 1) - 1 = i
        BY <1>1, <2>3, <3>1
      <4>2. v = nodes[q[i + 1]].word
        BY <2>5, <2>6, <3>1, <4>1
      <4> QED
        BY <1>3, <1>5, <3>1, <4>1, <4>2
    <3>2. CASE ~(i < len)
      BY <1>5, <2>5, <3>2
    <3> QED
      BY <3>1, <3>2
  <2> QED
    BY <1>4, <2>1, <2>2, <2>7 DEF Abstract!Get, Abstract!Open
<1> QED
  BY <1>8, <1>9, <1>10, <1>11, <1>12, <1>13, <1>14

\* Every call of a list is a call of the sequence.
LEMMA ListNext ==
  ASSUME ListInv, kind = "list", UNCHANGED sets, clean = {1, 2}, List!Next
  PROVE  ListInv' /\ Abstract!Next
<1>1. CASE List!New \/ List!Refuse \/ List!Free \/ List!NodeFault \/ List!Clear \/ List!Length
  BY <1>1, ListSteps DEF Abstract!Next
<1>2. ASSUME NEW w \in Words, List!PushBack(w)
      PROVE  ListInv' /\ Abstract!Next
  BY <1>2, ListPushBack DEF Abstract!Next
<1>3. ASSUME NEW w \in Words, List!PushFront(w)
      PROVE  ListInv' /\ Abstract!Next
  BY <1>3, ListPushFront DEF Abstract!Next
<1>4. CASE List!PopFront
  BY <1>4, ListPopFront DEF Abstract!Next
<1>5. CASE List!PopBack
  BY <1>5, ListPopBack DEF Abstract!Next
<1>6. ASSUME NEW i \in Indices, List!Get(i)
      PROVE  ListInv' /\ Abstract!Next
  BY <1>6, ListSteps DEF Abstract!Next
<1> QED
  BY <1>1, <1>2, <1>3, <1>4, <1>5, <1>6 DEF List!Next

-----------------------------------------------------------------------------
(***************************************************************************)
(* BitSet: whole bytes hold the bits.                                      *)
(***************************************************************************)
BitsInv ==
  /\ BitPair!WellFormed
  /\ bits \in [{1, 2} -> SUBSET Nat] /\ sizes \in [{1, 2} -> Nat]
  /\ hollow \subseteq {1, 2} /\ clean \subseteq {1, 2}
  /\ state = "null" => bits = <<{}, {}>> /\ clean = {1, 2}

\* The bits that n bytes hold.
Extent(n) == Byte * n

LEMMA DivideIs ==
  ASSUME NEW n \in Nat
  PROVE  n \div Byte \in Nat /\ Extent(n \div Byte) <= n /\ n < Extent(n \div Byte) + Byte
<1>1. Byte \in Nat /\ Byte > 0
  BY SizesAssumption
<1> QED
  BY <1>1 DEF Extent

LEMMA ExtentIs ==
  ASSUME NEW n \in Nat
  PROVE  Extent(n) \in Nat /\ (n = 0 => Extent(n) = 0) /\ \A m \in Nat : m <= n => Extent(m) <= Extent(n)
<1>1. Byte \in Nat /\ Byte > 0
  BY SizesAssumption
<1>2. Byte * n \in Nat
  BY <1>1
<1>3. n = 0 => Byte * n = 0
  BY <1>1
<1>4. ASSUME NEW m \in Nat, m <= n
      PROVE  Byte * m <= Byte * n
  <2>1. n - m \in Nat
    BY <1>4
  <2>2. Byte * (n - m) \in Nat
    BY <1>1, <2>1
  <2>3. Byte * n = Byte * m + Byte * (n - m)
    BY <1>1, <2>1
  <2>4. Byte * m \in Nat
    BY <1>1
  <2> QED
    BY <1>2, <2>2, <2>3, <2>4
<1> QED
  BY <1>2, <1>3, <1>4 DEF Extent

\* Bits take their number of bytes, rounded up.
LEMMA BytesHold ==
  ASSUME NEW n \in Nat
  PROVE  /\ (n + Byte - 1) \div Byte \in Nat
         /\ n <= Extent((n + Byte - 1) \div Byte)
         /\ \A m \in Nat : m <= n => (m + Byte - 1) \div Byte <= (n + Byte - 1) \div Byte
<1>1. Byte \in Nat /\ Byte > 0
  BY SizesAssumption
<1>2. n + Byte - 1 \in Nat
  BY <1>1
<1> DEFINE k == (n + Byte - 1) \div Byte
<1>3. k \in Nat /\ Extent(k) <= n + Byte - 1 /\ n + Byte - 1 < Extent(k) + Byte
  BY <1>2, DivideIs
<1> HIDE DEF k
<1>4. n <= Extent(k)
  <2>1. Extent(k) \in Nat
    BY <1>3, ExtentIs
  <2> QED
    BY <1>1, <1>3, <2>1
<1>5. ASSUME NEW m \in Nat, m <= n
      PROVE  (m + Byte - 1) \div Byte <= k
  <2> DEFINE l == (m + Byte - 1) \div Byte
  <2>1. m + Byte - 1 \in Nat
    BY <1>1
  <2>2. l \in Nat /\ Extent(l) <= m + Byte - 1
    BY <2>1, DivideIs
  <2> HIDE DEF l
  <2>3. SUFFICES ASSUME k < l PROVE FALSE
    BY <1>3, <2>2 DEF l
  <2>4. k + 1 \in Nat /\ k + 1 <= l
    BY <1>3, <2>2, <2>3
  <2>5. Extent(k + 1) <= Extent(l)
    BY <2>2, <2>4, ExtentIs
  <2>6. Extent(k + 1) = Extent(k) + Byte
    BY <1>1, <1>3 DEF Extent
  <2>7. Extent(k) \in Nat /\ Extent(l) \in Nat
    BY <1>3, <2>2, ExtentIs
  <2> QED
    BY <1>1, <1>3, <1>5, <2>2, <2>5, <2>6, <2>7
<1> QED
  BY <1>3, <1>4, <1>5 DEF k

\* Whole bytes need no rounding.
LEMMA BytesExact ==
  ASSUME NEW n \in Nat, n % Byte = 0
  PROVE  Extent((n + Byte - 1) \div Byte) = n
<1> DEFINE k == n \div Byte
           l == (n + Byte - 1) \div Byte
<1>1. Byte \in Nat /\ Byte > 0
  BY SizesAssumption
<1>2. k \in Nat /\ n = Byte * k
  BY <1>1
<1>3. n + Byte - 1 \in Nat
  BY <1>1
<1>4. l \in Nat /\ Extent(l) <= n + Byte - 1 /\ n <= Extent(l) /\ Extent(l) \in Nat
  BY <1>3, DivideIs, BytesHold, ExtentIs
<1> HIDE DEF k, l
<1>5. l <= k
  <2> SUFFICES ASSUME k + 1 <= l PROVE FALSE
    BY <1>2, <1>4
  <2>1. k + 1 \in Nat /\ Extent(k + 1) <= Extent(l)
    BY <1>2, <1>4, ExtentIs
  <2>2. Extent(k + 1) = n + Byte
    BY <1>1, <1>2 DEF Extent
  <2> QED
    BY <1>1, <1>4, <2>1, <2>2
<1>6. Extent(l) <= Extent(k) /\ Extent(k) = n
  BY <1>2, <1>4, <1>5, ExtentIs DEF Extent
<1> QED
  BY <1>4, <1>6 DEF l

\* The bits of a set that have numbers of its own.
Kept(x, n) == {i \in x : i < n}

LEMMA BitsHold ==
  /\ kind = "bits" => Contents = [b \in {1, 2} |-> Kept(bits[b], sizes[b])]
  /\ kind' = "bits" => Contents' = [b \in {1, 2} |-> Kept(bits'[b], sizes'[b])]
<1> QED
  BY DEF Contents, ArrayKinds, BitPair!Contents, BitPair!Both, Kept

LEMMA BitsFacts ==
  ASSUME BitsInv, NEW b \in {1, 2}
  PROVE  /\ sizes[b] \in Nat /\ bits[b] \subseteq Nat
         /\ BitPair!Bytes(b) \in Nat /\ BitPair!Bytes(b) = (sizes[b] + Byte - 1) \div Byte
         /\ Extent(BitPair!Bytes(b)) \in Nat /\ sizes[b] <= Extent(BitPair!Bytes(b))
         /\ BitPair!OfBytes(BitPair!Bytes(b)) = 0 .. Extent(BitPair!Bytes(b)) - 1
         /\ bits[b] \subseteq 0 .. Extent(BitPair!Bytes(b)) - 1
         /\ b \in clean => bits[b] \subseteq 0 .. sizes[b] - 1
<1>1. /\ sizes[b] \in Nat /\ bits[b] \subseteq Nat
      /\ bits[b] \subseteq BitPair!OfBytes(BitPair!Bytes(b))
      /\ b \in clean => bits[b] \subseteq 0 .. sizes[b] - 1
  BY DEF BitsInv, BitPair!WellFormed, BitPair!Both
<1>2. BitPair!Bytes(b) = (sizes[b] + Byte - 1) \div Byte
  BY DEF BitPair!Bytes
<1>3. BitPair!Bytes(b) \in Nat /\ sizes[b] <= Extent(BitPair!Bytes(b))
  BY <1>1, <1>2, BytesHold
<1>4. Extent(BitPair!Bytes(b)) \in Nat
  BY <1>3, ExtentIs
<1>5. BitPair!OfBytes(BitPair!Bytes(b)) = 0 .. Extent(BitPair!Bytes(b)) - 1
  BY DEF BitPair!OfBytes, Extent
<1> QED
  BY <1>1, <1>2, <1>3, <1>4, <1>5

\* A call that leaves the bits alone.
LEMMA BitsReads ==
  ASSUME BitsInv, kind = "bits", NEW v, BitPair!Reads(v)
  PROVE  BitsInv' /\ Abstract!Reads(v)
<1>1. UNCHANGED <<kind, state, bits, sizes, hollow, clean>> /\ answer' = <<v>>
  BY DEF BitPair!Reads, BitPair!sets
<1>2. Contents' = Contents
  BY <1>1, BitsHold
<1>3. BitsInv'
  BY <1>1 DEF BitsInv, BitPair!WellFormed, BitPair!Bytes
<1> QED
  BY <1>1, <1>2, <1>3 DEF Abstract!Reads, Abstract!Answers, Abstract!Returns

\* A call that leaves x of the bits of set b.
LEMMA BitsWrites ==
  ASSUME BitsInv, kind = "bits", state = "open", NEW b \in {1, 2}, NEW x, BitPair!Holds(b, x, 0),
         x \subseteq 0 .. Extent(BitPair!Bytes(b)) - 1,
         clean' \subseteq clean, b \in clean' => x \subseteq 0 .. sizes[b] - 1
  PROVE  /\ BitsInv' /\ UNCHANGED <<kind, state, sizes>> /\ answer' = <<0>>
         /\ Contents' = [Contents EXCEPT ![b] = Kept(x, sizes[b])]
         /\ DOMAIN Contents = {1, 2}
<1>1. UNCHANGED <<kind, state, sizes, hollow>> /\ answer' = <<0>> /\ bits' = [bits EXCEPT ![b] = x]
  BY DEF BitPair!Holds
<1>2. bits \in [{1, 2} -> SUBSET Nat] /\ sizes \in [{1, 2} -> Nat] /\ clean \subseteq {1, 2}
  BY DEF BitsInv
<1>3. x \subseteq Nat
  BY BitsFacts
<1>4. bits' \in [{1, 2} -> SUBSET Nat] /\ bits'[b] = x /\ \A a \in {1, 2} : a # b => bits'[a] = bits[a]
  BY <1>1, <1>2, <1>3
<1>5. BitPair!WellFormed'
  <2> SUFFICES ASSUME NEW a \in {1, 2}
               PROVE  /\ bits'[a] \subseteq BitPair!OfBytes(BitPair!Bytes(a))
                      /\ a \in clean' => bits'[a] \subseteq 0 .. sizes[a] - 1
    BY <1>1 DEF BitPair!WellFormed, BitPair!Both, BitPair!Bytes, BitPair!OfBytes
  <2>1. /\ BitPair!OfBytes(BitPair!Bytes(a)) = 0 .. Extent(BitPair!Bytes(a)) - 1
        /\ bits[a] \subseteq 0 .. Extent(BitPair!Bytes(a)) - 1
        /\ a \in clean => bits[a] \subseteq 0 .. sizes[a] - 1
    BY BitsFacts
  <2> QED
    BY <1>4, <2>1
<1>6. BitsInv'
  BY <1>1, <1>2, <1>4, <1>5 DEF BitsInv
<1>7. /\ Contents = [a \in {1, 2} |-> Kept(bits[a], sizes[a])]
      /\ Contents' = [a \in {1, 2} |-> Kept(bits'[a], sizes'[a])]
  BY <1>1, BitsHold
<1>8. Contents' = [Contents EXCEPT ![b] = Kept(x, sizes[b])]
  BY <1>1, <1>4, <1>7
<1> QED
  BY <1>1, <1>6, <1>7, <1>8

LEMMA BitsEmpty ==
  /\ <<{}, {}>> \in [{1, 2} -> SUBSET Nat] /\ <<0, 0>> \in [{1, 2} -> Nat]
  /\ \A b \in {1, 2} : <<{}, {}>>[b] = {} /\ <<0, 0>>[b] = 0
  /\ [b \in {1, 2} |-> {}] = <<{}, {}>>
<1>1. 1 .. 2 = {1, 2}
  OBVIOUS
<1> QED
  BY <1>1

\* Two empty sets, of any sizes.
LEMMA BitsCleared ==
  ASSUME kind = "bits", kind' = "bits", clean' = {1, 2}, bits' = <<{}, {}>>,
         sizes' \in [{1, 2} -> Nat], hollow' \subseteq {1, 2}
  PROVE  BitsInv' /\ Contents' = Abstract!Nothing
<1>1. bits' \in [{1, 2} -> SUBSET Nat] /\ \A b \in {1, 2} : bits'[b] = {}
  BY BitsEmpty
<1>2. BitPair!WellFormed'
  BY <1>1 DEF BitPair!WellFormed, BitPair!Both
<1>3. \A b \in {1, 2} : Kept(bits'[b], sizes'[b]) = {}
  BY <1>1 DEF Kept
<1>4. Contents' = [b \in {1, 2} |-> {}]
  BY <1>3, BitsHold
<1>5. Contents' = Abstract!Nothing
  BY <1>4, BitsEmpty DEF Abstract!Nothing
<1> QED
  BY <1>1, <1>2, <1>5 DEF BitsInv

\* An access to a block that there is not.
LEMMA BitsFault ==
  ASSUME BitsInv, kind = "bits", state # "fault", BitPair!Fault
  PROVE  BitsInv' /\ Abstract!Fault
<1>1. UNCHANGED <<kind, bits, sizes, hollow, clean, answer>> /\ state' = "fault"
  BY DEF BitPair!Fault, BitPair!sets
<1>2. Contents' = Contents
  BY <1>1, BitsHold
<1>3. BitsInv'
  BY <1>1 DEF BitsInv, BitPair!WellFormed, BitPair!Bytes
<1> QED
  BY <1>1, <1>2, <1>3 DEF Abstract!Fault, Abstract!Unchecked

LEMMA BitsSteps ==
  ASSUME BitsInv, kind = "bits"
  PROVE  /\ BitPair!New => BitsInv' /\ (Abstract!New \/ Abstract!Fault)
         /\ BitPair!Refuse => BitsInv' /\ Abstract!Refuse
         /\ BitPair!Free => BitsInv' /\ Abstract!Free
         /\ \A b \in {1, 2} : BitPair!TouchFault(b) => BitsInv' /\ Abstract!Fault
<1>1. state = "null" => bits = <<{}, {}>> /\ clean = {1, 2}
  BY DEF BitsInv
<1>2. ASSUME BitPair!New
      PROVE  BitsInv' /\ (Abstract!New \/ Abstract!Fault)
  <2>1. CASE /\ state' = "open" /\ sizes' \in [{1, 2} -> Sizes] /\ hollow' \in SUBSET {1, 2}
             /\ UNCHANGED <<kind, bits, clean, answer>>
    <3>1. state = "null" /\ kind' = "bits" /\ clean' = {1, 2} /\ bits' = <<{}, {}>>
      BY <1>1, <1>2, <2>1 DEF BitPair!New
    <3>2. sizes' \in [{1, 2} -> Nat] /\ hollow' \subseteq {1, 2}
      BY <2>1, SizesAssumption
    <3>3. BitsInv' /\ Contents' = Abstract!Nothing
      BY <3>1, <3>2, BitsCleared
    <3> QED
      BY <2>1, <3>1, <3>3 DEF Abstract!New
  <2>2. CASE BitPair!Fault
    <3>1. state # "fault"
      BY <1>2 DEF BitPair!New
    <3> QED
      BY <2>2, <3>1, BitsFault
  <2> QED
    BY <1>2, <2>1, <2>2 DEF BitPair!New, BitPair!Both
<1>3. ASSUME BitPair!Refuse
      PROVE  BitsInv' /\ Abstract!Refuse
  <2>1. PICK v \in {0, -1} : BitPair!Reads(v) /\ state = "null"
    BY <1>3 DEF BitPair!Refuse
  <2>2. BitsInv' /\ Abstract!Reads(v)
    BY <2>1, BitsReads
  <2> QED
    BY <2>1, <2>2 DEF Abstract!Refuse
<1>4. ASSUME BitPair!Free
      PROVE  BitsInv' /\ Abstract!Free
  <2>1. /\ state = "open" /\ state' = "null" /\ kind' = "bits" /\ UNCHANGED <<kind, answer>>
        /\ clean' = {1, 2} /\ bits' = <<{}, {}>> /\ sizes' = <<0, 0>> /\ hollow' = {}
    BY <1>4 DEF BitPair!Free, BitPair!Open, BitPair!Both
  <2>2. sizes' \in [{1, 2} -> Nat] /\ hollow' \subseteq {1, 2}
    BY <2>1, BitsEmpty
  <2>3. BitsInv' /\ Contents' = Abstract!Nothing
    BY <2>1, <2>2, BitsCleared
  <2> QED
    BY <2>1, <2>3 DEF Abstract!Free
<1>5. ASSUME NEW b \in {1, 2}, BitPair!TouchFault(b)
      PROVE  BitsInv' /\ Abstract!Fault
  <2>1. state # "fault" /\ BitPair!Fault
    BY <1>5 DEF BitPair!TouchFault, BitPair!Open
  <2> QED
    BY <2>1, BitsFault
<1> QED
  BY <1>2, <1>3, <1>4, <1>5

\* The bits of a set after one of them is put in or taken out.
LEMMA BitChanged ==
  ASSUME BitsInv, kind = "bits", NEW b \in {1, 2}, NEW i \in Indices,
         NEW in \in BOOLEAN, NEW x, x = (IF in THEN bits[b] \cup {i} ELSE bits[b] \ {i}),
         BitPair!Change(b, i, x)
  PROVE  BitsInv' /\ Abstract!SetBit(b, i, in)
<1>1. i \in Nat
  BY SizesAssumption
<1>2. /\ sizes[b] \in Nat /\ bits[b] \subseteq Nat
      /\ Extent(BitPair!Bytes(b)) \in Nat /\ sizes[b] <= Extent(BitPair!Bytes(b))
      /\ bits[b] \subseteq 0 .. Extent(BitPair!Bytes(b)) - 1
      /\ b \in clean => bits[b] \subseteq 0 .. sizes[b] - 1
  BY BitsFacts
<1>3. state = "open"
  BY DEF BitPair!Change, BitPair!Open, BitPair!Touches
<1>4. CASE i >= sizes[b] /\ BitPair!Reads(-1)
  <2>1. BitsInv' /\ Abstract!Reads(-1)
    BY <1>4, BitsReads
  <2>2. i \notin 0 .. sizes[b] - 1
    BY <1>1, <1>2, <1>4
  <2> QED
    BY <1>3, <2>1, <2>2 DEF Abstract!SetBit, Abstract!Open, Abstract!BitNumbers
<1>5. CASE i < sizes[b] /\ BitPair!Holds(b, x, 0) /\ UNCHANGED clean
  <2>1. i \in 0 .. sizes[b] - 1 /\ i \in 0 .. Extent(BitPair!Bytes(b)) - 1
    BY <1>1, <1>2, <1>5
  <2>2. x \subseteq 0 .. Extent(BitPair!Bytes(b)) - 1
    BY <1>2, <2>1
  <2>3. clean' \subseteq clean /\ (b \in clean' => x \subseteq 0 .. sizes[b] - 1)
    BY <1>2, <1>5, <2>1
  <2>4. /\ BitsInv' /\ UNCHANGED <<kind, state, sizes>> /\ answer' = <<0>>
        /\ Contents' = [Contents EXCEPT ![b] = Kept(x, sizes[b])]
    BY <1>3, <1>5, <2>2, <2>3, BitsWrites
  <2>5. Contents[b] = Kept(bits[b], sizes[b])
    BY BitsHold
  <2>6. Kept(x, sizes[b]) = IF in THEN Contents[b] \cup {i} ELSE Contents[b] \ {i}
    BY <1>5, <2>5 DEF Kept
  <2>7. Contents' = [Contents EXCEPT ![b] = IF in THEN @ \cup {i} ELSE @ \ {i}]
    BY <2>4, <2>6
  <2> QED
    BY <1>3, <1>5, <2>1, <2>4, <2>7 DEF Abstract!SetBit, Abstract!Open, Abstract!BitNumbers, Abstract!Holds, Abstract!Returns
<1> QED
  BY <1>4, <1>5 DEF BitPair!Change

LEMMA BitSteps ==
  ASSUME BitsInv, kind = "bits", NEW b \in {1, 2}, NEW i \in Indices
  PROVE  /\ BitPair!SetBit(b, i) => BitsInv' /\ Abstract!SetBit(b, i, TRUE)
         /\ BitPair!ClearBit(b, i) => BitsInv' /\ Abstract!SetBit(b, i, FALSE)
         /\ BitPair!Toggle(b, i) => BitsInv' /\ Abstract!Toggle(b, i)
         /\ BitPair!GetBit(b, i) => BitsInv' /\ Abstract!GetBit(b, i)
<1>1. i \in Nat /\ sizes[b] \in Nat
  BY BitsFacts, SizesAssumption
<1>2. Contents[b] = Kept(bits[b], sizes[b])
  BY BitsHold
<1>3. ASSUME BitPair!SetBit(b, i)
      PROVE  BitsInv' /\ Abstract!SetBit(b, i, TRUE)
  <2>1. BitPair!Change(b, i, IF TRUE THEN bits[b] \cup {i} ELSE bits[b] \ {i})
    BY <1>3 DEF BitPair!SetBit
  <2> QED
    BY <2>1, BitChanged
<1>4. ASSUME BitPair!ClearBit(b, i)
      PROVE  BitsInv' /\ Abstract!SetBit(b, i, FALSE)
  <2>1. BitPair!Change(b, i, IF FALSE THEN bits[b] \cup {i} ELSE bits[b] \ {i})
    BY <1>4 DEF BitPair!ClearBit
  <2> QED
    BY <2>1, BitChanged
<1>5. ASSUME BitPair!Toggle(b, i)
      PROVE  BitsInv' /\ Abstract!Toggle(b, i)
  <2> DEFINE out == i \notin bits[b]
             x == IF out THEN bits[b] \cup {i} ELSE bits[b] \ {i}
  <2>1. BitPair!Change(b, i, x)
    <3>1. x = IF i \in bits[b] THEN bits[b] \ {i} ELSE bits[b] \cup {i}
      OBVIOUS
    <3> QED
      BY <1>5, <3>1 DEF BitPair!Toggle
  <2>2. BitsInv' /\ Abstract!SetBit(b, i, out)
    <3>1. out \in BOOLEAN
      OBVIOUS
    <3>2. x = (IF out THEN bits[b] \cup {i} ELSE bits[b] \ {i})
      OBVIOUS
    <3> HIDE DEF out, x
    <3> QED
      BY <2>1, <3>1, <3>2, BitChanged
  <2>3. CASE i < sizes[b]
    <3>1. out <=> i \notin Contents[b]
      BY <1>2, <2>3 DEF Kept
    <3> QED
      BY <2>2, <3>1 DEF Abstract!Toggle
  <2>4. CASE ~(i < sizes[b])
    <3>1. i \notin 0 .. sizes[b] - 1
      BY <1>1, <2>4
    <3> QED
      BY <2>2, <3>1 DEF Abstract!Toggle, Abstract!SetBit, Abstract!BitNumbers
  <2> QED
    BY <2>3, <2>4
<1>6. ASSUME BitPair!GetBit(b, i)
      PROVE  BitsInv' /\ Abstract!GetBit(b, i)
  <2> DEFINE v == IF i \in Contents[b] THEN 1 ELSE 0
  <2>1. state = "open" /\ BitPair!Reads(v)
    <3>1. CASE i >= sizes[b]
      BY <1>1, <1>2, <1>6, <3>1 DEF BitPair!GetBit, BitPair!Open, BitPair!Touches, Kept
    <3>2. CASE i < sizes[b]
      BY <1>1, <1>2, <1>6, <3>2 DEF BitPair!GetBit, BitPair!Open, BitPair!Touches, Kept
    <3> QED
      BY <1>1, <3>1, <3>2
  <2> HIDE DEF v
  <2>2. BitsInv' /\ Abstract!Reads(v)
    BY <2>1, BitsReads
  <2> QED
    BY <2>1, <2>2 DEF v, Abstract!GetBit, Abstract!Open
<1> QED
  BY <1>3, <1>4, <1>5, <1>6

LEMMA SetsSteps ==
  ASSUME BitsInv, kind = "bits", NEW b \in {1, 2}
  PROVE  /\ BitPair!Complement(b) => BitsInv' /\ Abstract!Complement(b)
         /\ BitPair!CountBits(b) => BitsInv' /\ Abstract!CountBits(b)
<1>1. /\ sizes[b] \in Nat /\ bits[b] \subseteq Nat
      /\ Extent(BitPair!Bytes(b)) \in Nat /\ sizes[b] <= Extent(BitPair!Bytes(b))
      /\ BitPair!OfBytes(BitPair!Bytes(b)) = 0 .. Extent(BitPair!Bytes(b)) - 1
      /\ bits[b] \subseteq 0 .. Extent(BitPair!Bytes(b)) - 1
      /\ b \in clean => bits[b] \subseteq 0 .. sizes[b] - 1
  BY BitsFacts
<1>2. Contents[b] = Kept(bits[b], sizes[b])
  BY BitsHold
<1>3. ASSUME BitPair!Complement(b)
      PROVE  BitsInv' /\ Abstract!Complement(b)
  <2> DEFINE x == (0 .. Extent(BitPair!Bytes(b)) - 1) \ bits[b]
  <2>1. /\ state = "open" /\ BitPair!Holds(b, x, 0)
        /\ clean' = IF Abstract!Whole(b) THEN clean ELSE clean \ {b}
    BY <1>1, <1>3 DEF BitPair!Complement, BitPair!Touches, BitPair!Open, Abstract!Whole
  <2>2. x \subseteq 0 .. Extent(BitPair!Bytes(b)) - 1 /\ clean' \subseteq clean
    BY <2>1
  <2>5. ASSUME b \in clean'
        PROVE  x \subseteq 0 .. sizes[b] - 1
    <3>1. sizes[b] % Byte = 0
      BY <2>1, <2>5 DEF Abstract!Whole
    <3>2. Extent(BitPair!Bytes(b)) = sizes[b]
      BY <1>1, <3>1, BytesExact DEF BitPair!Bytes
    <3> QED
      BY <2>2, <3>2
  <2>3. Kept(x, sizes[b]) = (0 .. sizes[b] - 1) \ Contents[b]
    BY <1>1, <1>2 DEF Kept
  <2> HIDE DEF x
  <2>4. /\ BitsInv' /\ UNCHANGED <<kind, state, sizes>> /\ answer' = <<0>>
        /\ Contents' = [Contents EXCEPT ![b] = Kept(x, sizes[b])]
    BY <2>1, <2>2, <2>5, BitsWrites
  <2> QED
    BY <2>1, <2>3, <2>4 DEF Abstract!Complement, Abstract!Open, Abstract!BitNumbers
<1>4. ASSUME BitPair!CountBits(b)
      PROVE  BitsInv' /\ Abstract!CountBits(b)
  <2> DEFINE v == Cardinality(bits[b])
  <2>1. state = "open" /\ BitPair!Reads(v)
    BY <1>4, SameCount DEF BitPair!CountBits, BitPair!Touches, BitPair!Open
  <2>2. IsFiniteSet(bits[b])
    <3>1. IsFiniteSet(0 .. Extent(BitPair!Bytes(b)) - 1)
      BY <1>1, FS_Interval
    <3> QED
      BY <1>1, <3>1, FS_Subset
  <2>3. Contents[b] \subseteq bits[b]
    BY <1>2 DEF Kept
  <2>4. Cardinality(Contents[b]) <= v /\ v \in Nat /\ Cardinality(Contents[b]) \in Nat
    BY <2>2, <2>3, FS_Subset, FS_CardinalityType
  <2>5. b \in clean => Contents[b] = bits[b]
    BY <1>1, <1>2 DEF Kept
  <2> HIDE DEF v
  <2>6. BitsInv' /\ Abstract!Reads(v)
    BY <2>1, BitsReads
  <2>7. answer' = <<v>> /\ answer'[1] = v
    BY <2>6 DEF Abstract!Reads, Abstract!Answers, Abstract!Returns
  <2>8. answer'[1] >= Abstract!Cardinality(Contents[b])
    BY <2>4, <2>7, SameCount
  <2>9. b \in clean => answer' = <<Abstract!Cardinality(Contents[b])>>
    BY <2>5, <2>7, SameCount DEF v
  <2> QED
    BY <2>1, <2>6, <2>8, <2>9 DEF Abstract!CountBits, Abstract!Open, Abstract!Reads, Abstract!Answers, Abstract!Returns
<1> QED
  BY <1>3, <1>4

LEMMA CombinedIs ==
  ASSUME NEW op \in {"and", "or", "xor"}, NEW x, NEW y
  PROVE  /\ BitPair!Combined(op, x, y) \subseteq x \cup y
         /\ \A u, v, i : (i \in x <=> i \in u) /\ (i \in y <=> i \in v)
              => (i \in BitPair!Combined(op, x, y) <=> i \in Abstract!Combined(op, u, v))
<1>1. CASE op = "and"
  BY <1>1 DEF BitPair!Combined, Abstract!Combined
<1>2. CASE op = "or"
  BY <1>2 DEF BitPair!Combined, Abstract!Combined
<1>3. CASE op = "xor"
  BY <1>3 DEF BitPair!Combined, Abstract!Combined
<1> QED
  BY <1>1, <1>2, <1>3

\* How far the loop of a combination reaches: no further than the block of the
\* first set, and to the end of the second if this is not the larger one.
LEMMA SharedIs ==
  ASSUME BitsInv
  PROVE  /\ BitPair!SharedBytes \in Nat /\ Extent(BitPair!SharedBytes) \in Nat
         /\ BitPair!OfBytes(BitPair!SharedBytes) = 0 .. Extent(BitPair!SharedBytes) - 1
         /\ Extent(BitPair!SharedBytes) <= Extent(BitPair!Bytes(1))
         /\ sizes[1] < sizes[2] =>
              Extent(BitPair!SharedBytes) = Byte * (sizes[1] \div Byte) /\ Extent(BitPair!SharedBytes) <= sizes[1]
         /\ ~(sizes[1] < sizes[2]) => sizes[2] <= Extent(BitPair!SharedBytes)
<1>1. sizes[1] \in Nat /\ sizes[2] \in Nat
  BY DEF BitsInv
<1>2. /\ BitPair!Bytes(1) = (sizes[1] + Byte - 1) \div Byte /\ BitPair!Bytes(1) \in Nat
      /\ sizes[1] <= Extent(BitPair!Bytes(1)) /\ Extent(BitPair!Bytes(1)) \in Nat
  BY BitsFacts
<1> DEFINE k == BitPair!SharedBytes
<1>3. CASE sizes[1] < sizes[2]
  <2>1. k = sizes[1] \div Byte
    BY <1>3 DEF BitPair!SharedBytes
  <2>2. k \in Nat /\ Extent(k) <= sizes[1] /\ Extent(k) = Byte * (sizes[1] \div Byte)
    BY <1>1, <2>1, DivideIs DEF Extent
  <2> HIDE DEF k
  <2>3. Extent(k) \in Nat
    BY <2>2, ExtentIs
  <2>4. Extent(k) <= Extent(BitPair!Bytes(1))
    BY <1>1, <1>2, <2>2, <2>3
  <2> QED
    BY <1>3, <2>2, <2>3, <2>4 DEF k, BitPair!OfBytes, Extent
<1>4. CASE ~(sizes[1] < sizes[2])
  <2>1. k = (sizes[2] + Byte - 1) \div Byte
    BY <1>4 DEF BitPair!SharedBytes
  <2>2. sizes[2] <= sizes[1]
    BY <1>1, <1>4
  <2>3. k \in Nat /\ sizes[2] <= Extent(k)
    BY <1>1, <2>1, BytesHold
  <2>4. k <= BitPair!Bytes(1)
    BY <1>1, <1>2, <2>1, <2>2, BytesHold
  <2> HIDE DEF k
  <2>5. Extent(k) \in Nat /\ Extent(k) <= Extent(BitPair!Bytes(1))
    BY <1>2, <2>3, <2>4, ExtentIs
  <2> QED
    BY <1>4, <2>3, <2>5 DEF k, BitPair!OfBytes, Extent
<1> QED
  BY <1>3, <1>4

LEMMA CombineStep ==
  ASSUME BitsInv, kind = "bits", NEW op \in {"and", "or", "xor"}, BitPair!Combine(op)
  PROVE  BitsInv' /\ Abstract!Combine(op)
<1> DEFINE e == Extent(BitPair!SharedBytes)
           n == Extent(BitPair!Bytes(1))
           reach == 0 .. e - 1
           both == BitPair!Combined(op, bits[1], bits[2])
           x == (bits[1] \ reach) \cup (both \cap reach)
<1>1. /\ sizes[1] \in Nat /\ bits[1] \subseteq Nat
      /\ n \in Nat /\ sizes[1] <= n
      /\ bits[1] \subseteq 0 .. n - 1
      /\ 1 \in clean => bits[1] \subseteq 0 .. sizes[1] - 1
  BY BitsFacts
<1>2. /\ sizes[2] \in Nat /\ bits[2] \subseteq Nat
      /\ 2 \in clean => bits[2] \subseteq 0 .. sizes[2] - 1
  BY BitsFacts
<1>3. /\ e \in Nat /\ BitPair!OfBytes(BitPair!SharedBytes) = reach /\ e <= n
      /\ sizes[1] < sizes[2] => e = Byte * (sizes[1] \div Byte) /\ e <= sizes[1]
      /\ ~(sizes[1] < sizes[2]) => sizes[2] <= e
  BY SharedIs
<1>4. /\ both \subseteq bits[1] \cup bits[2]
      /\ \A u, v, i : (i \in bits[1] <=> i \in u) /\ (i \in bits[2] <=> i \in v)
           => (i \in both <=> i \in Abstract!Combined(op, u, v))
  BY CombinedIs
<1>5. /\ state = "open" /\ BitPair!Holds(1, x, 0)
      /\ clean' = IF 2 \in clean THEN clean ELSE clean \ {1}
  BY <1>3 DEF BitPair!Combine, BitPair!Touches, BitPair!Open
<1> HIDE DEF e, n, both
<1>6. x \subseteq 0 .. n - 1
  BY <1>1, <1>3
<1>7. 1 \in clean' => x \subseteq 0 .. sizes[1] - 1
  <2> SUFFICES ASSUME 1 \in clean', NEW i \in x PROVE i \in 0 .. sizes[1] - 1
    OBVIOUS
  <2>1. 1 \in clean /\ 2 \in clean
    BY <1>5
  <2>2. CASE i \in bits[1]
    BY <1>1, <2>1, <2>2
  <2>3. CASE i \notin bits[1]
    <3>1. i \in bits[2] /\ i \in 0 .. e - 1
      BY <1>4, <2>3
    <3>2. i \in 0 .. sizes[2] - 1
      BY <1>2, <2>1, <3>1
    <3> QED
      BY <1>1, <1>2, <1>3, <3>1, <3>2
  <2> QED
    BY <2>2, <2>3
<1>8. clean' \subseteq clean
  BY <1>5
<1> DEFINE c == Kept(x, sizes[1])
           B1 == 0 .. sizes[1] - 1
           B2 == 0 .. sizes[2] - 1
<1>9. ASSUME NEW i \in B1
      PROVE  \/ i \in c <=> i \in Abstract!Combined(op, Contents[1], Contents[2])
             \/ i \in Abstract!Excepted /\ (i \in c <=> i \in Contents[1])
             \/ 2 \notin clean /\ i \notin B2
  <2>1. /\ i \in c <=> i \in x
        /\ i \in bits[1] <=> i \in Contents[1]
        /\ i \in Contents[2] <=> i \in bits[2] /\ i < sizes[2]
    <3>1. Contents[1] = Kept(bits[1], sizes[1]) /\ Contents[2] = Kept(bits[2], sizes[2])
      BY BitsHold
    <3>2. i < sizes[1]
      BY <1>1
    <3> HIDE DEF x
    <3> QED
      BY <3>1, <3>2 DEF Kept
  <2> HIDE DEF c
  <2>2. i \in Nat
    BY <1>1
  <2>3. CASE i \in reach
    <3>1. i \in x <=> i \in both
      BY <2>3
    <3>2. CASE i \in B2 \/ 2 \in clean
      <4>1. i \in bits[2] <=> i \in Contents[2]
        BY <1>2, <2>1, <2>2, <3>2
      <4>2. i \in both <=> i \in Abstract!Combined(op, Contents[1], Contents[2])
        BY <1>4, <2>1, <4>1
      <4> QED
        BY <2>1, <3>1, <4>2
    <3>3. CASE i \notin B2 /\ 2 \notin clean
      BY <3>3
    <3> QED
      BY <3>2, <3>3
  <2>4. CASE i \notin reach
    <3>1. i \in x <=> i \in bits[1]
      BY <2>4
    <3>2. (sizes[1] < sizes[2] /\ i >= Byte * (sizes[1] \div Byte)) \/ i \notin B2
      BY <1>2, <1>3, <2>2, <2>4
    <3>3. i \in Abstract!Excepted
      BY <3>2 DEF Abstract!Excepted, Abstract!BitNumbers
    <3> QED
      BY <2>1, <3>1, <3>3
  <2> QED
    BY <2>3, <2>4
<1>10. c \in SUBSET B1
  <2> HIDE DEF x
  <2> SUFFICES ASSUME NEW i \in c PROVE i \in B1
    OBVIOUS
  <2>1. i \in x /\ i < sizes[1]
    BY DEF Kept
  <2>2. i \in 0 .. n - 1
    BY <1>6, <2>1
  <2> QED
    BY <1>1, <2>1, <2>2
<1> HIDE DEF x
<1>11. /\ BitsInv' /\ UNCHANGED <<kind, state, sizes>> /\ answer' = <<0>>
       /\ Contents' = [Contents EXCEPT ![1] = c]
  BY <1>5, <1>6, <1>7, <1>8, BitsWrites DEF n
<1> HIDE DEF c
<1> QED
  BY <1>5, <1>9, <1>10, <1>11 DEF Abstract!Combine, Abstract!Open, Abstract!BitNumbers

\* Every call of a pair of bitsets is a call of the two sets.
LEMMA BitsNext ==
  ASSUME BitsInv, kind = "bits", BitPair!Next
  PROVE  BitsInv' /\ Abstract!Next
<1>1. CASE BitPair!New \/ BitPair!Refuse \/ BitPair!Free
  BY <1>1, BitsSteps DEF Abstract!Next
<1>2. ASSUME NEW b \in {1, 2}, BitPair!Complement(b) \/ BitPair!CountBits(b) \/ BitPair!TouchFault(b)
      PROVE  BitsInv' /\ Abstract!Next
  <2>1. BitsInv' /\ (Abstract!Complement(b) \/ Abstract!CountBits(b) \/ Abstract!Fault)
    BY <1>2, BitsSteps, SetsSteps
  <2> QED
    BY <2>1 DEF Abstract!Next
<1>3. ASSUME NEW b \in {1, 2}, NEW i \in Indices,
             BitPair!SetBit(b, i) \/ BitPair!ClearBit(b, i) \/ BitPair!Toggle(b, i) \/ BitPair!GetBit(b, i)
      PROVE  BitsInv' /\ Abstract!Next
  <2>1. /\ BitsInv'
        /\ Abstract!SetBit(b, i, TRUE) \/ Abstract!SetBit(b, i, FALSE) \/ Abstract!Toggle(b, i) \/ Abstract!GetBit(b, i)
    BY <1>3, BitSteps
  <2> QED
    BY <2>1 DEF Abstract!Next
<1>4. ASSUME NEW op \in {"and", "or", "xor"}, BitPair!Combine(op)
      PROVE  BitsInv' /\ Abstract!Next
  BY <1>4, CombineStep DEF Abstract!Next
<1> QED
  BY <1>1, <1>2, <1>3, <1>4 DEF BitPair!Next, BitPair!Both

-----------------------------------------------------------------------------
(***************************************************************************)
(* Any container.                                                          *)
(***************************************************************************)
IInv ==
  /\ kind \in Kinds
  /\ kind \in ArrayKinds => ArrayInv
  /\ kind = "list" => ListInv
  /\ kind = "bits" => BitsInv
  /\ kind # "bits" => clean = {1, 2}

LEMMA KindsApart ==
  /\ kind \in Kinds <=> kind \in ArrayKinds \/ kind = "list" \/ kind = "bits"
  /\ kind \in ArrayKinds => kind # "list" /\ kind # "bits"
<1> QED
  BY DEF Kinds, ArrayKinds

LEMMA InitIs ==
  ASSUME Init
  PROVE  IInv /\ Abstract!Init
<1>1. kind \in Kinds /\ Array!Init /\ List!Init /\ BitPair!Init
  BY DEF Init
<1>2. state = "null" /\ clean = {1, 2} /\ answer = << >> /\ len = 0
  BY <1>1 DEF Array!Init, BitPair!Init, BitPair!Both
<1>3. 0 .. 0 - 1 = {} /\ MaxCap \in Nat
  BY SizesAssumption
<1>4. CASE kind \in ArrayKinds
  <2>1. cap = 0 /\ DOMAIN data = 0 .. cap - 1
    BY <1>1 DEF Array!Init, Array!Malloc
  <2>2. ArrayInv
    BY <1>2, <1>3, <2>1 DEF ArrayInv, Array!WellFormed
  <2>3. Held(data, 0) = << >>
    BY DEF Held
  <2>4. Contents = Abstract!Nothing
    BY <1>2, <1>3, <1>4, <2>3, ArrayHolds DEF Abstract!Nothing, ArrayKinds
  <2> QED
    BY <1>1, <1>2, <1>4, <2>2, <2>4, KindsApart DEF IInv, Abstract!Init
<1>5. CASE kind = "list"
  <2>1. DOMAIN nodes = {} /\ head = 0 /\ tail = 0
    BY <1>1 DEF List!Init, List!NullPtr
  <2>2. PICK q \in [1 .. 0 -> Heap] : Chain(nodes, 0, 0, 0, q)
    BY <2>1, ChainNone
  <2>3. ListInv
    BY <1>2, <2>1, <2>2 DEF ListInv
  <2>4. Contents = Held(Told(nodes, q, 0), 0)
    BY <1>2, <1>5, <2>1, <2>2, ListHolds
  <2>5. Contents = Abstract!Nothing
    BY <1>5, <2>4 DEF Abstract!Nothing, Held
  <2> QED
    BY <1>1, <1>2, <1>5, <2>3, <2>5, KindsApart DEF IInv, Abstract!Init
<1>6. CASE kind = "bits"
  <2>1. bits = <<{}, {}>> /\ sizes = <<0, 0>> /\ hollow = {}
    BY <1>1 DEF BitPair!Init
  <2>2. bits \in [{1, 2} -> SUBSET Nat] /\ sizes \in [{1, 2} -> Nat] /\ \A b \in {1, 2} : bits[b] = {}
    BY <2>1, BitsEmpty
  <2>3. BitsInv
    BY <1>2, <2>1, <2>2 DEF BitsInv, BitPair!WellFormed, BitPair!Both
  <2>4. \A b \in {1, 2} : Kept(bits[b], sizes[b]) = {}
    BY <2>2 DEF Kept
  <2>5. Contents = [b \in {1, 2} |-> {}]
    BY <1>6, <2>4, BitsHold
  <2>6. Contents = Abstract!Nothing
    BY <1>6, <2>5, BitsEmpty DEF Abstract!Nothing
  <2> QED
    BY <1>1, <1>2, <1>6, <2>3, <2>6, KindsApart DEF IInv, Abstract!Init
<1> QED
  BY <1>1, <1>4, <1>5, <1>6, KindsApart

\* A container stays of its kind.
LEMMA KindStays ==
  ASSUME Abstract!Next
  PROVE  kind' = kind
<1> USE DEF Abstract!Returns, Abstract!Reads, Abstract!Answers, Abstract!Holds
<1>1. CASE Abstract!New \/ Abstract!Refuse \/ Abstract!Free \/ Abstract!Fault
  BY <1>1 DEF Abstract!New, Abstract!Refuse, Abstract!Free, Abstract!Fault
<1>2. CASE Abstract!PopBack \/ Abstract!PopFront \/ Abstract!Build \/ Abstract!Clear \/ Abstract!Length
  BY <1>2 DEF Abstract!PopBack, Abstract!PopFront, Abstract!Build, Abstract!Clear, Abstract!Length
<1>3. ASSUME NEW w, Abstract!PushBack(w) \/ Abstract!PushFront(w) \/ Abstract!HasWord(w)
      PROVE  kind' = kind
  BY <1>3 DEF Abstract!PushBack, Abstract!PushFront, Abstract!HasWord
<1>4. ASSUME NEW w, \/ Abstract!InsertWord(w) \/ Abstract!RemoveWord(w) \/ Abstract!InsertSorted(w)
                    \/ Abstract!Find(w) \/ Abstract!RemoveSorted(w)
      PROVE  kind' = kind
  BY <1>4 DEF Abstract!InsertWord, Abstract!RemoveWord, Abstract!InsertSorted, Abstract!Find, Abstract!RemoveSorted
<1>5. ASSUME NEW s, Abstract!AppendString(s)
      PROVE  kind' = kind
  BY <1>5 DEF Abstract!AppendString
<1>6. ASSUME NEW i, Abstract!Get(i) \/ Abstract!RemoveIndex(i) \/ \E w \in Words : Abstract!SetAt(i, w)
      PROVE  kind' = kind
  BY <1>6 DEF Abstract!Get, Abstract!RemoveIndex, Abstract!SetAt
<1>7. ASSUME NEW b, Abstract!Complement(b) \/ Abstract!CountBits(b)
      PROVE  kind' = kind
  BY <1>7 DEF Abstract!Complement, Abstract!CountBits
<1>8. ASSUME NEW b, NEW i, NEW in, Abstract!SetBit(b, i, in)
      PROVE  kind' = kind
  BY <1>8 DEF Abstract!SetBit
<1>9. ASSUME NEW b, NEW i, Abstract!Toggle(b, i) \/ Abstract!GetBit(b, i)
      PROVE  kind' = kind
  BY <1>8, <1>9 DEF Abstract!Toggle, Abstract!GetBit
<1>10. ASSUME NEW op, Abstract!Combine(op)
       PROVE  kind' = kind
  BY <1>10 DEF Abstract!Combine
<1> QED
  BY <1>1, <1>2, <1>3, <1>4, <1>5, <1>6, <1>7, <1>8, <1>9, <1>10 DEF Abstract!Next

LEMMA StepIs ==
  ASSUME IInv, [Next]_vars
  PROVE  IInv' /\ (ByNumber => [Abstract!Next]_(Abstract!vars))
<1>1. CASE kind \in ArrayKinds /\ Array!Next /\ UNCHANGED <<links, sets>>
  <2>1. ArrayInv /\ clean = {1, 2} /\ UNCHANGED sets
    BY <1>1, KindsApart DEF IInv
  <2>2. ArrayInv' /\ (Abstract!Next \/ (kind' = kind /\ ~ByNumber))
    BY <1>1, <2>1, ArrayNext
  <2>3. kind' = kind /\ clean' = clean
    BY <2>1, <2>2, KindStays DEF sets
  <2> QED
    BY <1>1, <2>1, <2>2, <2>3, KindsApart DEF IInv
<1>2. CASE kind = "list" /\ List!Next /\ UNCHANGED <<block, sets>>
  <2>1. ListInv /\ clean = {1, 2} /\ UNCHANGED sets
    BY <1>2 DEF IInv
  <2>2. ListInv' /\ Abstract!Next
    BY <1>2, <2>1, ListNext
  <2>3. kind' = kind /\ clean' = clean
    BY <2>1, <2>2, KindStays DEF sets
  <2> QED
    BY <1>2, <2>1, <2>2, <2>3, KindsApart DEF IInv
<1>3. CASE kind = "bits" /\ BitPair!Next
  <2>1. BitsInv
    BY <1>3 DEF IInv
  <2>2. BitsInv' /\ Abstract!Next
    BY <1>3, <2>1, BitsNext
  <2>3. kind' = kind
    BY <2>2, KindStays
  <2> QED
    BY <1>3, <2>2, <2>3, KindsApart DEF IInv
<1>4. CASE UNCHANGED vars
  <2>1. UNCHANGED <<kind, state, answer, len, data, cap, nodes, head, tail, bits, sizes, hollow, clean>>
    BY <1>4 DEF vars, block, links, sets
  <2>2. ASSUME kind \in ArrayKinds
        PROVE  ArrayInv' /\ Contents' = Contents
    <3>1. ArrayInv
      BY <2>2 DEF IInv
    <3> QED
      BY <2>1, <2>2, <3>1, ArrayHolds, ArrayHoldsNext DEF ArrayInv, Array!WellFormed, ArrayKinds
  <2>3. ASSUME kind = "list"
        PROVE  ListInv' /\ Contents' = Contents
    <3>1. ListInv /\ len \in Nat
      BY <2>3 DEF IInv, ListInv
    <3>2. PICK q \in [1 .. len -> Heap] : Chain(nodes, head, tail, len, q)
      BY <3>1 DEF ListInv
    <3>3. Chain(nodes', head', tail', len, q) /\ len' = len /\ kind' = "list"
      BY <2>1, <2>3, <3>2
    <3>4. Contents' = Held(Told(nodes', q, len), len)
      BY <3>1, <3>3, ListHoldsNext
    <3>5. Contents = Held(Told(nodes, q, len), len)
      BY <2>3, <3>1, <3>2, ListHolds
    <3>6. ListInv'
      BY <2>1, <3>1, <3>2 DEF ListInv
    <3> QED
      BY <2>1, <3>4, <3>5, <3>6
  <2>4. ASSUME kind = "bits"
        PROVE  BitsInv' /\ Contents' = Contents
    <3>1. BitsInv
      BY <2>4 DEF IInv
    <3> QED
      BY <2>1, <2>4, <3>1, BitsHold DEF BitsInv, BitPair!WellFormed, BitPair!Bytes
  <2>5. Contents' = Contents
    BY <2>2, <2>3, <2>4, KindsApart DEF IInv
  <2>6. IInv'
    BY <2>1, <2>2, <2>3, <2>4, KindsApart DEF IInv
  <2> QED
    BY <2>1, <2>5, <2>6 DEF Abstract!vars
<1> QED
  BY <1>1, <1>2, <1>3, <1>4 DEF Next

\* The representation of every container is what its code needs of it, after
\* any calls.
THEOREM Invariance == Spec => []IInv
<1> QED
  BY InitIs, StepIs, PTL DEF Spec

-----------------------------------------------------------------------------
(***************************************************************************)
(* The lexer.  What it has read of the text s when it is at p, at line l,  *)
(* with the tokens ts: a predicate of values, so that a step is a lemma    *)
(* about values too.                                                       *)
(***************************************************************************)
TokenTypes == {"string", "number", "operator", "keyword", "identifier", "eof"}
Tokens == [type : TokenTypes, value : Seq(STRING) \cup Lex!OperatorSymbols, line : Nat, from : Nat, to : Nat]

Breaks(s, p, q) == Cardinality({i \in p .. q - 1 : s[i] = "nl"})
Occurs(s, p, text) == p + Len(text) <= Len(s) + 1 /\ SubSeq(s, p, p + Len(text) - 1) = text
Hides(s, t) == t.type = "string" /\ Occurs(s, t.from + 2, <<"until">>)
NumberDigits(s, p) ==
  IF Occurs(s, p, <<"0", "x">>) THEN Lex!HexDigits
  ELSE IF Occurs(s, p, <<"0", "b">>) THEN {"0", "1"} ELSE Lex!Digits
Whole(s, t) ==
  LET goesOn == t.to < Len(s) + 1 /\ t.to > t.from
  IN /\ t.type = "operator" /\ goesOn =>
          ~\E op \in Lex!OperatorSymbols : Len(op) > Len(t.value) /\ Occurs(s, t.from, op)
     /\ t.type \in {"identifier", "keyword"} /\ goesOn => s[t.to] \notin Lex!Letters \cup Lex!Digits
     /\ t.type = "number" /\ goesOn => s[t.to] \notin NumberDigits(s, t.from)
Commented(s, b, k) ==
  \/ Occurs(s, b, <<"/", "/">>) /\ Breaks(s, b, k + 1) = 0
  \/ Occurs(s, b, <<"/", "*">>) /\ ~\E q \in b + 2 .. k - 2 : Occurs(s, q, <<"*", "/">>)
Layout(s, p, q) ==
  \A k \in p .. q - 1 : s[k] \in Lex!Space \/ \E b \in p .. k : Commented(s, b, k)

\* The position up to which the tokens reach.
Since(ts) == IF ts = << >> THEN 1 ELSE ts[Len(ts)].to

Clear(s, ts, i) == \A j \in 1 .. i : ~Hides(s, ts[j])

Scanned(s, p, l, ts) ==
  /\ s \in Seq(STRING) /\ p \in 1 .. Len(s) + 1 /\ l \in Nat /\ ts \in Seq(Tokens)
  /\ \A i \in 1 .. Len(ts) : 1 <= ts[i].from /\ ts[i].from <= ts[i].to /\ ts[i].to <= p
  /\ l <= 1 + Breaks(s, 1, p) /\ (Clear(s, ts, Len(ts)) => l = 1 + Breaks(s, 1, p))
  /\ \A i \in 1 .. Len(ts) :
       /\ ts[i].line <= 1 + Breaks(s, 1, ts[i].to)
       /\ Clear(s, ts, i) => ts[i].line = 1 + Breaks(s, 1, ts[i].to)
       /\ Whole(s, ts[i])
       /\ (IF i = 1 THEN 1 ELSE ts[i - 1].to) <= ts[i].from
       /\ Layout(s, IF i = 1 THEN 1 ELSE ts[i - 1].to, ts[i].from)
  /\ Layout(s, Since(ts), p)

LexInv == Scanned(src, pos, line, tokens)

LEMMA LexIs ==
  /\ \A p, q : Lex!Newlines(p, q) = Breaks(src, p, q)
  /\ \A p, text : Lex!At(p, text) = Occurs(src, p, text)
  /\ Lex!End = Len(src) + 1
<1>1. \A p, q : Lex!Newlines(p, q) = Breaks(src, p, q)
  <2> SUFFICES ASSUME NEW p, NEW q PROVE Lex!Newlines(p, q) = Breaks(src, p, q)
    OBVIOUS
  <2>1. {i \in p .. q - 1 : src[i] = Lex!Newline} = {i \in p .. q - 1 : src[i] = "nl"}
    BY DEF Lex!Newline
  <2> QED
    BY <2>1 DEF Lex!Newlines, Breaks, Lex!Cardinality, Cardinality
<1>2. \A p, text : Lex!At(p, text) = Occurs(src, p, text)
  BY Zenon DEF Lex!At, Lex!End, Occurs
<1>3. Lex!End = Len(src) + 1
  BY DEF Lex!End
<1> QED
  BY <1>1, <1>2, <1>3

LEMMA ScannedIsRight == LexInv => Lex!TokensAreTheText
<1> SUFFICES ASSUME LexInv PROVE Lex!TokensAreTheText
  OBVIOUS
<1>1. tokens \in Seq(Tokens) /\ DOMAIN tokens = 1 .. Len(tokens)
  BY DEF LexInv, Scanned
<1>2. Lex!LinesAreTrue
  BY <1>1, LexIs DEF LexInv, Scanned, Lex!LinesAreTrue, Lex!Uncounted, Clear, Hides
<1>3. Lex!LongestMatch
  BY <1>1, LexIs DEF LexInv, Scanned, Lex!LongestMatch, Lex!DigitsAt, NumberDigits, Whole
<1>4. Lex!GapsAreLayout
  BY <1>1, LexIs DEF LexInv, Scanned, Lex!GapsAreLayout, Layout, Commented, Lex!InComment
<1> QED
  BY <1>2, <1>3, <1>4 DEF Lex!TokensAreTheText

LEMMA BreaksIs ==
  ASSUME NEW s, NEW p \in Nat, NEW q \in Nat
  PROVE  Breaks(s, p, q) \in Nat /\ Breaks(s, p, p) = 0
<1>1. IsFiniteSet(p .. q - 1)
  BY FS_Interval
<1>2. {i \in p .. q - 1 : s[i] = "nl"} \subseteq p .. q - 1
  OBVIOUS
<1>3. IsFiniteSet({i \in p .. q - 1 : s[i] = "nl"})
  BY <1>1, <1>2, FS_Subset
<1>4. {i \in p .. p - 1 : s[i] = "nl"} = {}
  OBVIOUS
<1> QED
  BY <1>3, <1>4, FS_CardinalityType, FS_EmptySet DEF Breaks

LEMMA BreaksAdd ==
  ASSUME NEW s, NEW p \in Nat, NEW q \in Nat, NEW r \in Nat, p <= q, q <= r
  PROVE  Breaks(s, p, r) = Breaks(s, p, q) + Breaks(s, q, r)
<1> DEFINE L(a, b) == {i \in a .. b - 1 : s[i] = "nl"}
<1>1. \A a, b \in Nat : IsFiniteSet(L(a, b))
  <2> SUFFICES ASSUME NEW a \in Nat, NEW b \in Nat
               PROVE  IsFiniteSet(L(a, b))
    OBVIOUS
  <2>1. IsFiniteSet(a .. b - 1)
    BY FS_Interval
  <2>2. L(a, b) \subseteq a .. b - 1
    OBVIOUS
  <2> QED
    BY <2>1, <2>2, FS_Subset
<1>2. L(p, r) = L(p, q) \cup L(q, r) /\ L(p, q) \cap L(q, r) = {}
  OBVIOUS
<1>3. Cardinality(L(p, q) \cup L(q, r))
      = Cardinality(L(p, q)) + Cardinality(L(q, r)) - Cardinality(L(p, q) \cap L(q, r))
  BY <1>1, FS_Union
<1>4. Cardinality(L(p, q) \cap L(q, r)) = 0
  BY <1>2, FS_EmptySet
<1>5. \A a, b : Breaks(s, a, b) = Cardinality(L(a, b))
  BY DEF Breaks
<1> HIDE DEF L
<1>6. Breaks(s, p, q) \in Nat /\ Breaks(s, q, r) \in Nat
  BY BreaksIs
<1>7. Cardinality(L(p, r)) = Cardinality(L(p, q)) + Cardinality(L(q, r)) - 0
  BY <1>2, <1>3, <1>4, Zenon
<1>8. /\ Breaks(s, p, q) = Cardinality(L(p, q)) /\ Breaks(s, q, r) = Cardinality(L(q, r))
      /\ Breaks(s, p, r) = Cardinality(L(p, r))
  BY <1>5, Zenon
<1> HIDE DEF Breaks
<1> QED
  BY <1>6, <1>7, <1>8

LEMMA BreaksUpTo ==
  ASSUME NEW s, NEW p \in Nat, NEW q \in Nat, 1 <= p, p <= q
  PROVE  /\ Breaks(s, p, q) \in Nat /\ Breaks(s, 1, p) \in Nat
         /\ Breaks(s, 1, q) = Breaks(s, 1, p) + Breaks(s, p, q)
BY BreaksIs, BreaksAdd

LEMMA LayoutAdd ==
  ASSUME NEW s, NEW p \in Nat, NEW q \in Nat, NEW r \in Nat, p <= q, q <= r,
         Layout(s, p, q), Layout(s, q, r)
  PROVE  Layout(s, p, r)
<1> SUFFICES ASSUME NEW k \in p .. r - 1
             PROVE  s[k] \in Lex!Space \/ \E b \in p .. k : Commented(s, b, k)
  BY DEF Layout
<1>1. CASE k < q
  BY <1>1 DEF Layout
<1>2. CASE k >= q
  BY <1>2 DEF Layout
<1> QED
  BY <1>1, <1>2

LEMMA SinceIs ==
  ASSUME NEW s, NEW p, NEW l, NEW ts, Scanned(s, p, l, ts)
  PROVE  Since(ts) \in Nat /\ 1 <= Since(ts) /\ Since(ts) <= p
<1>1. CASE ts = << >>
  BY <1>1 DEF Scanned, Since
<1>2. CASE ts # << >>
  <2>1. Len(ts) \in 1 .. Len(ts) /\ ts[Len(ts)] \in Tokens
    BY <1>2 DEF Scanned
  <2> QED
    BY <1>2, <2>1 DEF Scanned, Since, Tokens
<1> QED
  BY <1>1, <1>2

\* A step that reads layout.
LEMMA Skips ==
  ASSUME NEW s, NEW p, NEW l, NEW ts, Scanned(s, p, l, ts),
         NEW q \in p .. Len(s) + 1, Layout(s, p, q)
  PROVE  Scanned(s, q, l + Breaks(s, p, q), ts)
<1>1. p \in Nat /\ 1 \in Nat /\ 1 <= p /\ p <= q /\ q \in Nat /\ l \in Nat /\ Len(s) \in Nat /\ q <= q
  BY DEF Scanned
<1>2. Breaks(s, p, q) \in Nat /\ Breaks(s, 1, p) \in Nat
      /\ Breaks(s, 1, q) = Breaks(s, 1, p) + Breaks(s, p, q)
  BY <1>1, BreaksUpTo
<1>3. Layout(s, Since(ts), q)
  BY <1>1, SinceIs, LayoutAdd DEF Scanned
<1>4. \A i \in 1 .. Len(ts) : ts[i].to \in Nat /\ ts[i].to <= q
  <2> SUFFICES ASSUME NEW i \in 1 .. Len(ts) PROVE ts[i].to \in Nat /\ ts[i].to <= q
    OBVIOUS
  <2>1. ts[i] \in Tokens /\ ts[i].to <= p
    BY DEF Scanned
  <2> QED
    BY <1>1, <2>1 DEF Tokens
<1> HIDE DEF Scanned
<1>5. q \in 1 .. Len(s) + 1 /\ l + Breaks(s, p, q) \in Nat
  BY <1>1, <1>2
<1>6. /\ l + Breaks(s, p, q) <= 1 + Breaks(s, 1, q)
      /\ Clear(s, ts, Len(ts)) => l + Breaks(s, p, q) = 1 + Breaks(s, 1, q)
  BY <1>1, <1>2 DEF Scanned
<1> QED
  BY <1>3, <1>4, <1>5, <1>6 DEF Scanned

\* A step that reads one token.
LEMMA Emits ==
  ASSUME NEW s, NEW p, NEW l, NEW ts, Scanned(s, p, l, ts),
         NEW q \in p .. Len(s) + 1, NEW m \in Nat, NEW t \in Tokens,
         t.from = p, t.to = q, t.line = m, Whole(s, t),
         m <= l + Breaks(s, p, q), Hides(s, t) \/ m = l + Breaks(s, p, q)
  PROVE  Scanned(s, q, m, Append(ts, t))
<1> DEFINE us == Append(ts, t)
           n == Len(ts)
<1>1. /\ p \in Nat /\ 1 <= p /\ p <= q /\ q \in Nat /\ l \in Nat /\ Len(s) \in Nat
      /\ ts \in Seq(Tokens) /\ n \in Nat
  BY DEF Scanned
<1>2. Breaks(s, p, q) \in Nat /\ Breaks(s, 1, p) \in Nat
      /\ Breaks(s, 1, q) = Breaks(s, 1, p) + Breaks(s, p, q)
  BY <1>1, BreaksUpTo, Zenon
<1>3. /\ us \in Seq(Tokens) /\ Len(us) = n + 1 /\ us[n + 1] = t
      /\ \A i \in 1 .. n : us[i] = ts[i]
  BY <1>1
<1>4. Since(us) = q
  BY <1>3 DEF Since
<1>5. Layout(s, q, q)
  BY <1>1 DEF Layout
<1>6. \A i \in 1 .. n : Clear(s, us, i) = Clear(s, ts, i)
  BY <1>1, <1>3 DEF Clear
<1>7. Clear(s, us, n + 1) => Clear(s, ts, n) /\ ~Hides(s, t)
  BY <1>1, <1>3 DEF Clear
<1>8. m <= 1 + Breaks(s, 1, q) /\ (Clear(s, us, n + 1) => m = 1 + Breaks(s, 1, q))
  <2>1. l <= 1 + Breaks(s, 1, p) /\ (Clear(s, ts, n) => l = 1 + Breaks(s, 1, p))
    BY DEF Scanned
  <2> QED
    BY <1>1, <1>2, <1>7, <2>1
<1>9. \A i \in 1 .. n : /\ ts[i] \in Tokens /\ 1 <= ts[i].from /\ ts[i].from <= ts[i].to
                        /\ ts[i].to <= p
  BY DEF Scanned
<1>10. ASSUME NEW i \in 1 .. n + 1
       PROVE  /\ 1 <= us[i].from /\ us[i].from <= us[i].to /\ us[i].to <= q
              /\ us[i].line <= 1 + Breaks(s, 1, us[i].to)
              /\ Clear(s, us, i) => us[i].line = 1 + Breaks(s, 1, us[i].to)
              /\ Whole(s, us[i])
              /\ (IF i = 1 THEN 1 ELSE us[i - 1].to) <= us[i].from
              /\ Layout(s, IF i = 1 THEN 1 ELSE us[i - 1].to, us[i].from)
  <2>1. CASE i = n + 1
    <3>1. (IF i = 1 THEN 1 ELSE us[i - 1].to) = Since(ts)
      <4>1. CASE n = 0
        BY <1>1, <2>1, <4>1 DEF Since
      <4>2. CASE n # 0
        <5>1. n \in 1 .. n /\ i - 1 = n /\ ts # << >> /\ i # 1
          BY <1>1, <2>1, <4>2
        <5> QED
          BY <1>3, <5>1 DEF Since
      <4> QED
        BY <4>1, <4>2
    <3>2. Since(ts) <= p /\ Layout(s, Since(ts), p)
      BY SinceIs DEF Scanned
    <3> QED
      BY <1>1, <1>3, <1>8, <2>1, <3>1, <3>2
  <2>2. CASE i # n + 1
    <3>1. i \in 1 .. n /\ us[i] = ts[i]
      BY <1>1, <1>3, <2>2
    <3>2. (IF i = 1 THEN 1 ELSE us[i - 1].to) = (IF i = 1 THEN 1 ELSE ts[i - 1].to)
      BY <1>1, <1>3, <3>1
    <3>3. ts[i].to <= q /\ 1 <= ts[i].from /\ ts[i].from <= ts[i].to
      <4>1. ts[i].to \in Nat /\ ts[i].to <= p /\ 1 <= ts[i].from /\ ts[i].from <= ts[i].to
        BY <1>9, <3>1 DEF Tokens
      <4> QED
        BY <1>1, <4>1
    <3>4. Clear(s, us, i) = Clear(s, ts, i)
      BY <1>6, <3>1
    <3> QED
      BY <3>1, <3>2, <3>3, <3>4 DEF Scanned
  <2> QED
    BY <2>1, <2>2
<1>11. s \in Seq(STRING) /\ q \in 1 .. Len(s) + 1
  BY <1>1 DEF Scanned
<1> HIDE DEF us
<1>12. Scanned(s, q, m, us)
  BY <1>3, <1>4, <1>5, <1>8, <1>10, <1>11 DEF Scanned
<1> QED
  BY <1>12 DEF us

\* The least position of a set that has the end.
LEMMA LeastPosition ==
  ASSUME NEW S, NEW e \in Nat, NEW p \in Nat, S \subseteq p .. e, S # {}
  PROVE  /\ Lex!Min(S) \in S /\ Lex!Min(S) \in p .. e
         /\ \A q \in S : Lex!Min(S) <= q
<1>1. S \subseteq Nat
  OBVIOUS
<1>2. PICK i \in S : \A j \in S : i <= j
  BY <1>1, LeastNatural
<1>3. (CHOOSE x \in S : \A y \in S : x =< y) = i
  <2>1. S \subseteq Int
    BY <1>1
  <2> QED
    BY <1>2, <2>1, MinIs, Zenon
<1>4. Lex!Min(S) = i
  BY <1>3, Zenon DEF Lex!Min
<1> QED
  BY <1>2, <1>4

LEMMA PastIs ==
  ASSUME src \in Seq(STRING), NEW p \in 1 .. Lex!End, NEW class
  PROVE  /\ Lex!Past(p, class) \in p .. Lex!End
         /\ Lex!Past(p, class) = Lex!End \/ src[Lex!Past(p, class)] \notin class
<1> DEFINE S == {q \in p .. Lex!End : q = Lex!End \/ src[q] \notin class}
<1>1. Lex!End \in Nat /\ p \in Nat
  BY DEF Lex!End
<1>2. S \subseteq p .. Lex!End /\ Lex!End \in S
  BY <1>1
<1>3. Lex!Min(S) \in S /\ Lex!Min(S) \in p .. Lex!End
  BY <1>1, <1>2, LeastPosition
<1> QED
  BY <1>3 DEF Lex!Past

LEMMA FindIs ==
  ASSUME src \in Seq(STRING), NEW p \in 1 .. Lex!End, NEW class
  PROVE  /\ Lex!Find(p, class) \in p .. Lex!End
         /\ \A q \in p .. Lex!Find(p, class) - 1 : src[q] \notin class
<1> DEFINE S == {q \in p .. Lex!End : q = Lex!End \/ src[q] \in class}
<1>1. Lex!End \in Nat /\ p \in Nat
  BY DEF Lex!End
<1>2. S \subseteq p .. Lex!End /\ Lex!End \in S
  BY <1>1
<1>3. Lex!Min(S) \in S /\ Lex!Min(S) \in p .. Lex!End /\ \A q \in S : Lex!Min(S) <= q
  BY <1>1, <1>2, LeastPosition
<1>4. ASSUME NEW q \in p .. Lex!Min(S) - 1
      PROVE  src[q] \notin class
  <2>1. q \notin S /\ q \in p .. Lex!End
    BY <1>1, <1>3, <1>4
  <2> QED
    BY <2>1
<1> QED
  BY <1>3, <1>4 DEF Lex!Find

LEMMA CutIs ==
  ASSUME NEW s \in Seq(STRING), NEW p \in Nat \ {0}, NEW q \in Nat, q <= Len(s)
  PROVE  SubSeq(s, p, q) \in Seq(STRING)
OBVIOUS

\* A loop that goes on from q to next[q], until it is at a stop.
Jumps(p, e, stop, next) ==
  /\ p \in Nat /\ e \in Nat /\ p <= e /\ e \in stop
  /\ \A q \in p .. e : q \notin stop => next[q] \in p .. e /\ q < next[q]
Follow(p, e, stop, next) ==
  CHOOSE f : f = [q \in p .. e |-> IF q \in stop THEN q ELSE f[next[q]]]
Follows(f, p, e, stop, next) == \A q \in p .. e : f[q] = IF q \in stop THEN q ELSE f[next[q]]

LEMMA LeapsForward ==
  ASSUME NEW p, NEW e, NEW stop, NEW next, NEW f, Jumps(p, e, stop, next), Follows(f, p, e, stop, next)
  PROVE  \A q \in p .. e : f[q] \in q .. e
<1> USE DEF Jumps, Follows
<1> DEFINE Short == {q \in p .. e : f[q] \notin q .. e}
<1> SUFFICES ASSUME Short # {} PROVE FALSE
  OBVIOUS
<1>1. Short \subseteq 0 .. e
  OBVIOUS
<1>2. PICK q \in Short : \A r \in Short : r <= q
  BY <1>1, GreatestUpTo
<1>3. q \in p .. e /\ f[q] \notin q .. e
  OBVIOUS
<1>4. q \notin stop
  <2>1. q \in q .. e
    BY <1>3
  <2> QED
    BY <1>3, <2>1
<1>5. PICK r \in p .. e : r = next[q] /\ q < r
  BY <1>3, <1>4
<1>6. f[q] = f[r]
  BY <1>3, <1>4, <1>5
<1>7. q \in Int /\ r \in Int /\ r \in q .. e
  BY <1>3, <1>5
<1>8. r \notin Short
  <2> HIDE DEF Short
  <2> QED
    BY <1>2, <1>5, <1>7
<1>9. f[r] \in r .. e
  BY <1>5, <1>8
<1> QED
  BY <1>3, <1>5, <1>6, <1>7, <1>9

LEMMA Leaps ==
  ASSUME NEW p, NEW e, NEW stop, NEW next, Jumps(p, e, stop, next)
  PROVE  \A q \in p .. e : Follow(p, e, stop, next)[q] \in q .. e
<1>0. /\ p \in Nat /\ e \in Nat /\ p <= e /\ e \in stop
      /\ \A q \in p .. e : q \notin stop => next[q] \in p .. e /\ q < next[q]
  BY DEF Jumps
<1> DEFINE D == p .. e
           Good(m) == \E f \in [D -> D] :
                        \A q \in D : e - q < m => f[q] = IF q \in stop THEN q ELSE f[next[q]]
           Bad == {m \in Nat : ~Good(m)}
<1>1. Good(0)
  <2>1. [q \in D |-> q] \in [D -> D] /\ \A q \in D : ~(e - q < 0)
    BY <1>0
  <2> QED
    BY <2>1
<1>2. ASSUME NEW m \in Nat, Good(m)
      PROVE  Good(m + 1)
  <2>1. PICK f \in [D -> D] : \A q \in D : e - q < m => f[q] = IF q \in stop THEN q ELSE f[next[q]]
    BY <1>2
  <2> DEFINE g == [q \in D |-> IF e - q < m THEN f[q] ELSE IF q \in stop THEN q ELSE f[next[q]]]
  <2>2. g \in [D -> D]
    BY <1>0
  <2>3. ASSUME NEW q \in D, e - q < m + 1
        PROVE  g[q] = IF q \in stop THEN q ELSE g[next[q]]
    <3>1. g[q] = IF q \in stop THEN q ELSE f[next[q]]
      BY <2>1
    <3>2. CASE q \notin stop
      <4>1. next[q] \in D /\ q < next[q] /\ e - next[q] < m
        BY <1>0, <2>3, <3>2
      <4> QED
        BY <3>1, <3>2, <4>1
    <3> QED
      BY <3>1, <3>2
  <2> QED
    BY <2>2, <2>3
<1> HIDE DEF Good
<1>3. Bad = {}
  <2> SUFFICES ASSUME Bad # {} PROVE FALSE
    OBVIOUS
  <2>1. PICK m \in Bad : \A j \in Bad : m <= j
    BY LeastNatural
  <2>2. m # 0 /\ m - 1 \in Nat /\ m - 1 \notin Bad
    BY <1>1, <2>1
  <2>3. Good(m - 1) /\ (m - 1) + 1 = m
    BY <2>2
  <2>4. Good((m - 1) + 1)
    BY <1>2, <2>2, <2>3
  <2> QED
    BY <2>3, <2>4
<1>4. Good(e + 1)
  BY <1>0, <1>3
<1>5. PICK g \in [D -> D] : \A q \in D : e - q < e + 1 => g[q] = IF q \in stop THEN q ELSE g[next[q]]
  BY <1>4 DEF Good
<1>6. g = [q \in D |-> IF q \in stop THEN q ELSE g[next[q]]]
  BY <1>0, <1>5
<1> DEFINE f == Follow(p, e, stop, next)
<1>7. f = [q \in D |-> IF q \in stop THEN q ELSE f[next[q]]]
  BY <1>6 DEF Follow
<1> HIDE DEF f
<1>8. Follows(f, p, e, stop, next)
  BY <1>7 DEF Follows
<1>9. \A q \in p .. e : f[q] \in q .. e
  BY <1>8, LeapsForward
<1> QED
  BY <1>9 DEF f

LEMMA ClosingIs ==
  ASSUME src \in Seq(STRING), NEW p \in 1 .. Lex!End
  PROVE  Lex!Closing(p) \in p .. Lex!End
<1> DEFINE e == Lex!End
           stop == {q \in p .. e : q = e \/ (q > p /\ src[q] = "\"")}
           next == [q \in p .. e |-> Lex!Upto(IF q > p /\ src[q] = "\\" THEN q + 2 ELSE q + 1)]
<1>1. e \in Nat /\ p \in Nat /\ p <= e /\ e \in stop
  BY DEF Lex!End
<1>2. next \in [p .. e -> p .. e] /\ \A q \in p .. e : q \notin stop => q < next[q]
  <2>1. ASSUME NEW q \in p .. e
        PROVE  next[q] \in p .. e /\ (q # e => q < next[q])
    <3>1. next[q] = Lex!Upto(q + 1) \/ next[q] = Lex!Upto(q + 2)
      OBVIOUS
    <3>2. /\ Lex!Upto(q + 1) = (IF q + 1 < e THEN q + 1 ELSE e)
          /\ Lex!Upto(q + 2) = (IF q + 2 < e THEN q + 2 ELSE e)
      BY DEF Lex!Upto
    <3> HIDE DEF e, next
    <3> QED
      BY <1>1, <3>1, <3>2
  <2> QED
    BY <2>1
<1> DEFINE closing == Follow(p, e, stop, next)
           read == CHOOSE f : f = [q \in p .. e |->
                     IF q = e \/ (q > p /\ src[q] = "\"") THEN q
                     ELSE f[Lex!Upto(IF q > p /\ src[q] = "\\" THEN q + 2 ELSE q + 1)]]
<1>4. \A q \in p .. e : closing[q] \in q .. e
  <2> HIDE DEF e, stop, next
  <2>1. Jumps(p, e, stop, next)
    BY <1>1, <1>2 DEF Jumps
  <2> QED
    BY <2>1, Leaps
<1>5. closing = read
  <2>1. \A f : [q \in p .. e |-> IF q \in stop THEN q ELSE f[next[q]]]
             = [q \in p .. e |-> IF q = e \/ (q > p /\ src[q] = "\"") THEN q
                     ELSE f[Lex!Upto(IF q > p /\ src[q] = "\\" THEN q + 2 ELSE q + 1)]]
    OBVIOUS
  <2> QED
    BY <2>1 DEF Follow
<1>6. Lex!Upto(p) = p
  BY <1>1 DEF Lex!Upto
<1>7. Lex!Closing(p) = read[p]
  BY <1>6 DEF Lex!Closing
<1> HIDE DEF closing, read
<1> QED
  BY <1>1, <1>4, <1>5, <1>7

-----------------------------------------------------------------------------
\* What the readers read.
LEMMA LexFacts ==
  ASSUME LexInv
  PROVE  /\ src \in Seq(STRING) /\ Len(src) \in Nat /\ Lex!End = Len(src) + 1
         /\ pos \in Nat /\ 1 <= pos /\ pos <= Lex!End /\ pos \in 1 .. Lex!End
         /\ line \in Nat /\ tokens \in Seq(Tokens)
BY LexIs DEF LexInv, Scanned

LEMMA LexSkips ==
  ASSUME LexInv, NEW q \in pos .. Lex!End, Lex!Skip(q), Layout(src, pos, q)
  PROVE  LexInv'
<1>1. src' = src /\ pos' = q /\ line' = line + Breaks(src, pos, q) /\ tokens' = tokens
  BY LexIs DEF Lex!Skip, Lex!Advance
<1>2. q \in pos .. Len(src) + 1
  BY LexIs
<1>3. Scanned(src, q, line + Breaks(src, pos, q), tokens)
  BY <1>2, Skips DEF LexInv
<1> QED
  BY <1>1, <1>3 DEF LexInv

LEMMA LexEmits ==
  ASSUME LexInv, src' = src, pos' \in pos .. Lex!End, line' \in Nat,
         NEW type \in TokenTypes, NEW value \in Seq(STRING) \cup Lex!OperatorSymbols, NEW t,
         t = [type |-> type, value |-> value, line |-> line', from |-> pos, to |-> pos'],
         tokens' = Append(tokens, t), Whole(src, t),
         line' <= line + Breaks(src, pos, pos'),
         Hides(src, t) \/ line' = line + Breaks(src, pos, pos')
  PROVE  LexInv'
<1>1. pos' \in pos .. Len(src) + 1 /\ pos' \in Nat /\ pos \in Nat
  BY LexFacts
<1>2. t \in Tokens /\ t.from = pos /\ t.to = pos' /\ t.line = line'
  BY <1>1 DEF Tokens
<1>3. Scanned(src, pos', line', Append(tokens, t))
  BY <1>1, <1>2, Emits DEF LexInv
<1> QED
  BY <1>3 DEF LexInv

LEMMA PeekIs ==
  ASSUME NEW k \in Nat, Lex!Peek(k) # "eof"
  PROVE  pos + k < Lex!End /\ Lex!Peek(k) = src[pos + k]
BY DEF Lex!Peek

LEMMA PairAt ==
  ASSUME NEW s \in Seq(STRING), NEW p \in Nat \ {0}, p + 1 <= Len(s)
  PROVE  Occurs(s, p, <<s[p], s[p + 1]>>)
<1>1. SubSeq(s, p, p + 1) = <<s[p], s[p + 1]>>
  <2> DEFINE q == p + 1
             t == SubSeq(s, p, q)
  <2>1. p \in Int /\ q \in Int /\ \A i \in p .. q : s[i] \in STRING
    BY ElementOfSeq
  <2>2. p <= q /\ q - p + 1 = 2 /\ p + 1 - 1 = p /\ p + 2 - 1 = p + 1
    OBVIOUS
  <2> HIDE DEF q
  <2>3. t \in Seq(STRING) /\ Len(t) = q - p + 1 /\ \A i \in 1 .. q - p + 1 : t[i] = s[p + i - 1]
    BY <2>1, <2>2, SubSeqProperties
  <2> HIDE DEF t
  <2>4. t \in Seq(STRING) /\ Len(t) = 2 /\ t[1] = s[p] /\ t[2] = s[p + 1]
    BY <2>2, <2>3
  <2>5. t = <<s[p], s[p + 1]>>
    BY <2>4
  <2> QED
    BY <2>5 DEF t, q
<1>2. Len(<<s[p], s[p + 1]>>) = 2 /\ p + 2 - 1 = p + 1
  OBVIOUS
<1> QED
  BY <1>1, <1>2 DEF Occurs

LEMMA WhitespaceStep ==
  ASSUME LexInv, Lex!Whitespace
  PROVE  LexInv'
<1>1. pos < Lex!End /\ Lex!Skip(pos + 1)
  BY DEF Lex!Whitespace, Lex!Running
<1>2. src[pos] \in Lex!Space
  BY <1>1, LexFacts DEF Lex!Whitespace, Lex!Peek
<1>3. pos + 1 \in pos .. Lex!End
  BY <1>1, LexFacts
<1>4. Layout(src, pos, pos + 1)
  BY <1>2, LexFacts DEF Layout
<1> QED
  BY <1>1, <1>3, <1>4, LexSkips

LEMMA CommentStarts ==
  ASSUME LexInv, Lex!StartsComment
  PROVE  /\ pos + 1 < Lex!End /\ src[pos] = "/" /\ src[pos + 1] = Lex!Peek(1)
         /\ Occurs(src, pos, <<"/", Lex!Peek(1)>>)
<1>1. pos + 1 < Lex!End /\ src[pos + 1] = Lex!Peek(1)
  BY PeekIs DEF Lex!StartsComment
<1>2. src[pos] = "/"
  BY <1>1, LexFacts DEF Lex!StartsComment, Lex!Peek
<1>3. Occurs(src, pos, <<src[pos], src[pos + 1]>>)
  BY <1>1, LexFacts, PairAt
<1> QED
  BY <1>1, <1>2, <1>3

LEMMA LineCommentStep ==
  ASSUME LexInv, Lex!LineComment
  PROVE  LexInv'
<1> DEFINE q == Lex!Find(pos, {"nl"})
<1>1. Occurs(src, pos, <<"/", "/">>) /\ Lex!Skip(q)
  BY CommentStarts DEF Lex!LineComment, Lex!Newline
<1>2. q \in pos .. Lex!End /\ \A k \in pos .. q - 1 : src[k] # "nl"
  BY LexFacts, FindIs
<1> HIDE DEF q
<1>3. Layout(src, pos, q)
  <2> SUFFICES ASSUME NEW k \in pos .. q - 1
               PROVE  Commented(src, pos, k) /\ pos \in pos .. k
    BY DEF Layout
  <2>1. pos \in pos .. k /\ k \in Nat
    BY LexFacts
  <2>2. {i \in pos .. (k + 1) - 1 : src[i] = "nl"} = {}
    BY <1>2, LexFacts
  <2>3. Breaks(src, pos, k + 1) = 0
    BY <2>2, FS_EmptySet DEF Breaks
  <2> QED
    BY <1>1, <2>1, <2>3 DEF Commented
<1> QED
  BY <1>1, <1>2, <1>3, LexSkips

LEMMA BlockCommentStep ==
  ASSUME LexInv, Lex!BlockComment
  PROVE  LexInv'
<1> DEFINE E == {q \in pos + 2 .. Lex!End : Lex!At(q, <<"*", "/">>)}
           S == {Lex!End} \cup {q + 2 : q \in E}
           q == Lex!Min(S)
<1>1. Occurs(src, pos, <<"/", "*">>) /\ Lex!Skip(q) /\ pos + 1 < Lex!End
  BY CommentStarts DEF Lex!BlockComment
<1>2. \A k \in E : k + 2 <= Lex!End
  <2> SUFFICES ASSUME NEW k \in E PROVE k + 2 <= Lex!End
    OBVIOUS
  <2>1. Len(<<"*", "/">>) = 2
    OBVIOUS
  <2> QED
    BY <2>1 DEF Lex!At
<1>3. S \subseteq pos .. Lex!End /\ S # {}
  BY <1>2, LexFacts
<1>4. q \in S /\ q \in pos .. Lex!End /\ \A r \in S : q <= r
  <2>1. pos \in Nat /\ Lex!End \in Nat
    BY LexFacts
  <2> HIDE DEF S
  <2> QED
    BY <1>3, <2>1, LeastPosition
<1>5. Layout(src, pos, q)
  <2> SUFFICES ASSUME NEW k \in pos .. q - 1
               PROVE  Commented(src, pos, k) /\ pos \in pos .. k
    BY DEF Layout
  <2>1. pos \in pos .. k /\ k \in Nat /\ k < q /\ q \in Nat
    BY <1>4, LexFacts
  <2>2. ASSUME NEW r \in pos + 2 .. k - 2, Occurs(src, r, <<"*", "/">>)
        PROVE  FALSE
    <3>1. r \in E
      BY <1>4, <2>1, <2>2, LexFacts, LexIs
    <3>2. r + 2 \in S /\ r + 2 <= k /\ r \in Nat
      BY <2>1, <3>1, LexFacts
    <3>3. q <= r + 2
      BY <1>4, <3>2
    <3> QED
      BY <2>1, <3>2, <3>3
  <2> QED
    BY <1>1, <2>1, <2>2 DEF Commented
<1> QED
  BY <1>1, <1>4, <1>5, LexSkips

\* A token that its type does not bind to what follows it.
LEMMA WholeAnyway ==
  ASSUME NEW s, NEW t, t.type \notin {"operator", "identifier", "keyword", "number"}
  PROVE  Whole(s, t)
BY DEF Whole

LEMMA UptoIs ==
  ASSUME LexInv, NEW n \in Nat \ {0}
  PROVE  /\ Lex!Upto(n) \in 1 .. Lex!End
         /\ \A m \in Nat : m <= n /\ m <= Lex!End => m <= Lex!Upto(n)
BY LexFacts DEF Lex!Upto

LEMMA HeaderEndIs ==
  ASSUME LexInv, NEW p \in 1 .. Lex!End
  PROVE  Lex!HeaderEnd(p) \in p .. Lex!End
<1>1. Len(<<Lex!Newline>>) = 1
  OBVIOUS
<1>2. Lex!At(p, <<Lex!Newline>>) => p + 1 <= Lex!End
  BY <1>1 DEF Lex!At
<1> QED
  BY <1>2, LexFacts DEF Lex!HeaderEnd

LEMMA SymbolsAre ==
  ASSUME LexInv, NEW p \in Nat \ {0}, NEW q \in 1 .. Lex!End
  PROVE  Lex!Symbols(p, q) \in Seq(STRING)
<1>1. q - 1 \in Nat /\ q - 1 <= Len(src)
  BY LexFacts
<1> QED
  BY <1>1, LexFacts, CutIs DEF Lex!Symbols

\* A string that was read whole, with the lines that advance() counted.
LEMMA StringRead ==
  ASSUME LexInv, NEW q \in pos .. Lex!End, NEW value \in Seq(STRING),
         Lex!Advance(q), Lex!Token("string", value, line')
  PROVE  LexInv'
<1> DEFINE t == [type |-> "string", value |-> value, line |-> line', from |-> pos, to |-> pos']
<1>1. /\ src' = src /\ pos' = q /\ line' = line + Breaks(src, pos, q)
      /\ tokens' = Append(tokens, t)
  BY LexIs DEF Lex!Advance, Lex!Token
<1>2. Breaks(src, pos, q) \in Nat /\ line \in Nat
  <2>1. pos \in Nat /\ q \in Nat
    BY LexFacts
  <2> QED
    BY <2>1, LexFacts, BreaksIs
<1>3. line' \in Nat /\ line' <= line + Breaks(src, pos, pos') /\ line' = line + Breaks(src, pos, pos')
  BY <1>1, <1>2
<1>4. Whole(src, t)
  BY WholeAnyway
<1>5. "string" \in TokenTypes
  BY DEF TokenTypes
<1> HIDE DEF t
<1>6. t = [type |-> "string", value |-> value, line |-> line', from |-> pos, to |-> pos']
  BY DEF t
<1> QED
  BY <1>1, <1>3, <1>4, <1>5, <1>6, LexEmits

LEMMA ReadStringStep ==
  ASSUME LexInv, Lex!ReadString
  PROVE  LexInv'
<1> DEFINE q == Lex!Closing(pos)
<1>1. q \in pos .. Lex!End
  BY LexFacts, ClosingIs
<1>2. Lex!Advance(Lex!Upto(q + 1)) /\ Lex!Token("string", Lex!Symbols(pos + 1, q), line')
  BY DEF Lex!ReadString
<1> HIDE DEF q
<1>3. q \in Nat /\ q \in 1 .. Lex!End /\ q + 1 \in Nat \ {0} /\ pos <= q + 1
  BY <1>1, LexFacts
<1>4. Lex!Upto(q + 1) \in pos .. Lex!End
  BY <1>3, UptoIs, LexFacts
<1>5. Lex!Symbols(pos + 1, q) \in Seq(STRING)
  BY <1>3, SymbolsAre, LexFacts
<1> QED
  BY <1>2, <1>4, <1>5, StringRead

LEMMA ReadRawLinesStep ==
  ASSUME LexInv, Lex!ReadRawLines
  PROVE  LexInv'
<1> DEFINE digits == Lex!Past(pos + 2, Lex!Digits)
           first == Lex!HeaderEnd(Lex!Upto(digits + 1))
           S(count) == {q \in first .. Lex!End : q = Lex!End \/ Lex!Newlines(first, q) = count}
           count == Lex!Decimal(Lex!Symbols(pos + 2, digits))
           last == Lex!Min(S(count))
<1>1. Lex!Advance(last) /\ Lex!Token("string", Lex!Symbols(first, last), line') /\ Lex!StartsRaw
  BY DEF Lex!ReadRawLines
<1>2. pos + 2 <= Lex!End
  <2>1. Len(<<"raw", "<">>) = 2
    OBVIOUS
  <2> QED
    BY <1>1, <2>1 DEF Lex!StartsRaw, Lex!At
<1>3. digits \in pos .. Lex!End
  <2>1. pos + 2 \in 1 .. Lex!End
    BY <1>2, LexFacts
  <2>2. digits \in pos + 2 .. Lex!End
    BY <2>1, LexFacts, PastIs
  <2> QED
    BY <2>2, LexFacts
<1> HIDE DEF digits, count
<1>4. first \in pos .. Lex!End
  <2>1. digits + 1 \in Nat \ {0} /\ pos <= digits + 1
    BY <1>3, LexFacts
  <2>2. Lex!Upto(digits + 1) \in pos .. Lex!End /\ Lex!Upto(digits + 1) \in 1 .. Lex!End
    BY <2>1, UptoIs, LexFacts
  <2>3. Lex!HeaderEnd(Lex!Upto(digits + 1)) \in Lex!Upto(digits + 1) .. Lex!End
    BY <2>2, HeaderEndIs
  <2> QED
    BY <2>2, <2>3, LexFacts
<1> HIDE DEF first
<1>5. last \in first .. Lex!End
  <2>1. first \in Nat /\ Lex!End \in Nat
    BY <1>4, LexFacts
  <2>2. S(count) \subseteq first .. Lex!End /\ Lex!End \in S(count)
    BY <1>4, LexFacts
  <2> HIDE DEF S
  <2> QED
    BY <2>1, <2>2, LeastPosition
<1> HIDE DEF last
<1>6. last \in pos .. Lex!End /\ last \in 1 .. Lex!End /\ first \in Nat \ {0}
  BY <1>4, <1>5, LexFacts
<1>7. Lex!Symbols(first, last) \in Seq(STRING)
  BY <1>6, SymbolsAre
<1> QED
  BY <1>1, <1>6, <1>7, StringRead

LEMMA ReadRawUntilStep ==
  ASSUME LexInv, Lex!ReadRawUntil
  PROVE  LexInv'
<1> DEFINE quote == Lex!Upto(pos + 4)
           close == Lex!Closing(quote)
           delim == Lex!Symbols(Lex!Upto(quote + 1), close)
           found == Lex!Find(Lex!Upto(close + 1), {">"})
           first == Lex!HeaderEnd(Lex!Upto(found + 1))
           ends == {q \in first .. Lex!End : Lex!At(q, delim)}
<1>1. /\ Lex!At(pos + 2, <<"until">>) /\ line' = line + Lex!Newlines(pos, first) /\ src' = src
      /\ IF ends = {} THEN pos' = first /\ Lex!Token("string", << >>, line')
         ELSE pos' = Lex!Min(ends) + Len(delim) /\ Lex!Token("string", Lex!Symbols(first, Lex!Min(ends)), line')
  BY DEF Lex!ReadRawUntil
<1>2. quote \in pos .. Lex!End /\ quote \in 1 .. Lex!End
  BY UptoIs, LexFacts
<1> HIDE DEF quote
<1>3. close \in quote .. Lex!End
  BY <1>2, ClosingIs, LexFacts
<1> HIDE DEF close
<1>4. close \in pos .. Lex!End /\ close \in 1 .. Lex!End /\ quote + 1 \in Nat \ {0}
  BY <1>2, <1>3, LexFacts
<1>5. delim \in Seq(STRING) /\ Len(delim) \in Nat
  <2>1. Lex!Upto(quote + 1) \in Nat \ {0}
    BY <1>4, UptoIs
  <2>2. delim \in Seq(STRING)
    BY <1>4, <2>1, SymbolsAre
  <2> HIDE DEF delim
  <2> QED
    BY <2>2
<1> HIDE DEF delim
<1>6. Lex!Upto(close + 1) \in pos .. Lex!End /\ Lex!Upto(close + 1) \in 1 .. Lex!End
  BY <1>4, UptoIs, LexFacts
<1>7. found \in Lex!Upto(close + 1) .. Lex!End
  BY <1>6, FindIs, LexFacts
<1> HIDE DEF found
<1>8. found + 1 \in Nat \ {0} /\ pos <= found + 1
  BY <1>6, <1>7, LexFacts
<1>9. Lex!Upto(found + 1) \in pos .. Lex!End /\ Lex!Upto(found + 1) \in 1 .. Lex!End
  BY <1>8, UptoIs, LexFacts
<1>10. first \in Lex!Upto(found + 1) .. Lex!End
  BY <1>9, HeaderEndIs
<1> HIDE DEF first
<1>11. first \in pos .. Lex!End /\ first \in Nat /\ first \in 1 .. Lex!End
  BY <1>9, <1>10, LexFacts
<1>12. \E value \in Seq(STRING) : Lex!Token("string", value, line') /\ pos' \in first .. Lex!End
  <2>1. CASE ends = {}
    <3>1. << >> \in Seq(STRING)
      OBVIOUS
    <3>2. pos' = first /\ Lex!Token("string", << >>, line')
      BY <1>1, <2>1
    <3>3. first \in first .. Lex!End
      BY <1>11
    <3> QED
      BY <3>1, <3>2, <3>3, Zenon
  <2>2. CASE ends # {}
    <3> DEFINE m == Lex!Min(ends)
    <3>1. ends \subseteq first .. Lex!End /\ Lex!End \in Nat
      BY LexFacts
    <3>2. m \in ends /\ m \in first .. Lex!End
      <4> HIDE DEF ends
      <4> QED
        BY <1>11, <2>2, <3>1, LeastPosition
    <3>3. m + Len(delim) <= Lex!End
      BY <3>2 DEF Lex!At
    <3>4. pos' = m + Len(delim) /\ Lex!Token("string", Lex!Symbols(first, m), line')
      BY <1>1, <2>2
    <3> HIDE DEF m
    <3>5. m \in 1 .. Lex!End /\ pos' \in first .. Lex!End
      BY <1>5, <1>11, <3>2, <3>3, <3>4, LexFacts
    <3>6. Lex!Symbols(first, m) \in Seq(STRING)
      BY <1>11, <3>5, SymbolsAre
    <3> QED
      BY <3>4, <3>5, <3>6
  <2> QED
    BY <2>1, <2>2
<1>13. PICK value \in Seq(STRING) : Lex!Token("string", value, line') /\ pos' \in first .. Lex!End
  BY <1>12
<1> DEFINE t == [type |-> "string", value |-> value, line |-> line', from |-> pos, to |-> pos']
<1>14. tokens' = Append(tokens, t)
  BY <1>13 DEF Lex!Token
<1>15. Hides(src, t)
  BY <1>1, LexIs DEF Hides
<1>16. Whole(src, t)
  BY WholeAnyway
<1>17. /\ Breaks(src, pos, first) \in Nat /\ Breaks(src, first, pos') \in Nat
       /\ Breaks(src, pos, pos') = Breaks(src, pos, first) + Breaks(src, first, pos')
  <2>1. pos \in Nat /\ first \in Nat /\ pos' \in Nat /\ pos <= first /\ first <= pos'
    BY <1>11, <1>13, LexFacts
  <2> QED
    BY <2>1, BreaksIs, BreaksAdd
<1>18. line' = line + Breaks(src, pos, first)
  BY <1>1, LexIs
<1>19. line' \in Nat /\ line' <= line + Breaks(src, pos, pos') /\ pos' \in pos .. Lex!End
  BY <1>11, <1>13, <1>17, <1>18, LexFacts
<1>20. "string" \in TokenTypes
  BY DEF TokenTypes
<1> HIDE DEF t
<1>21. t = [type |-> "string", value |-> value, line |-> line', from |-> pos, to |-> pos']
  BY DEF t
<1> QED
  BY <1>1, <1>14, <1>15, <1>16, <1>19, <1>20, <1>21, LexEmits

\* The operators have symbols, none of which ends a line.
LEMMA OperatorsAre ==
  ASSUME NEW op \in Lex!OperatorSymbols
  PROVE  Len(op) \in 1 .. 3 /\ \A i \in 1 .. Len(op) : op[i] # "nl"
<1> DEFINE Fine(o) == Len(o) \in 1 .. 3 /\ \A i \in 1 .. Len(o) : o[i] # "nl"
           Symbol == {"{", "}", "(", ")", "[", "]", "+", "-", "*", "/", "%", "=",
                      "<", ">", ";", ":", "&", "!", ",", "?", "."}
           Single == {<<a>> : a \in Symbol}
<1>1. ASSUME NEW a, NEW b, NEW c, a # "nl", b # "nl", c # "nl"
      PROVE  Fine(<<a, b>>) /\ Fine(<<a, b, c>>)
  BY <1>1
<1>2. \A a : a # "nl" => Fine(<<a>>)
  OBVIOUS
<1> HIDE DEF Fine
<1>3. CASE op \in {<<a, a, "=">> : a \in {"<", ">", "*"}}
  BY <1>1, <1>3
<1>4. CASE op \in {<<".", ".", ".">>, <<"[", ":", "]">>}
  BY <1>1, <1>4
<1>5. CASE op \in {<<a, "=">> : a \in {"=", "!", "<", ">", "+", "-", "*", "/", "%"}}
  BY <1>1, <1>5
<1>6. CASE op \in {<<a, a>> : a \in {":", "&", "|", "<", ">"}}
  BY <1>1, <1>6
<1>7. CASE op = <<"-", ">">>
  BY <1>1, <1>7
<1>8. CASE op \in Single
  <2>1. PICK a \in Symbol : op = <<a>>
    BY <1>8
  <2>2. a # "nl"
    OBVIOUS
  <2> HIDE DEF Symbol, Single
  <2>3. Fine(op)
    BY <1>2, <2>1, <2>2, Zenon
  <2> QED
    BY <2>3 DEF Fine
<1>9. Lex!OperatorSymbols =
        {<<a, a, "=">> : a \in {"<", ">", "*"}} \cup {<<".", ".", ".">>, <<"[", ":", "]">>}
        \cup {<<a, "=">> : a \in {"=", "!", "<", ">", "+", "-", "*", "/", "%"}}
        \cup {<<a, a>> : a \in {":", "&", "|", "<", ">"}} \cup {<<"-", ">">>}
        \cup Single
  BY Zenon DEF Lex!OperatorSymbols
<1> HIDE DEF Single, Symbol
<1>10. Fine(op)
  <2>1. \/ op \in {<<a, a, "=">> : a \in {"<", ">", "*"}}
        \/ op \in {<<".", ".", ".">>, <<"[", ":", "]">>}
        \/ op \in {<<a, "=">> : a \in {"=", "!", "<", ">", "+", "-", "*", "/", "%"}}
        \/ op \in {<<a, a>> : a \in {":", "&", "|", "<", ">"}}
        \/ op = <<"-", ">">>
        \/ op \in Single
    BY <1>9
  <2> QED
    BY <1>3, <1>4, <1>5, <1>6, <1>7, <1>8, <2>1, Zenon DEF Fine
<1> QED
  BY <1>10 DEF Fine

LEMMA OperatorStep ==
  ASSUME LexInv, Lex!ReadOperator
  PROVE  LexInv'
<1>1. PICK op \in Lex!Operator :
        /\ \A other \in Lex!Operator : Len(other) <= Len(op)
        /\ Lex!Advance(pos + Len(op)) /\ Lex!Token("operator", op, line)
  BY DEF Lex!ReadOperator
<1>2. op \in Lex!OperatorSymbols /\ Occurs(src, pos, op)
  BY LexIs DEF Lex!Operator
<1>3. Len(op) \in 1 .. 3 /\ \A i \in 1 .. Len(op) : op[i] # "nl"
  BY <1>2, OperatorsAre
<1>4. SubSeq(src, pos, pos + Len(op) - 1) = op /\ pos + Len(op) <= Len(src) + 1
  BY <1>2 DEF Occurs
<1>5. \A i \in pos .. pos + Len(op) - 1 : src[i] # "nl"
  <2> SUFFICES ASSUME NEW i \in pos .. pos + Len(op) - 1 PROVE src[i] # "nl"
    OBVIOUS
  <2>1. \A k \in pos .. pos + Len(op) - 1 : src[k] \in STRING
    BY <1>3, <1>4, LexFacts
  <2>2. i - pos + 1 \in 1 .. Len(op) /\ pos + (i - pos + 1) - 1 = i
        /\ i - pos + 1 \in 1 .. (pos + Len(op) - 1) - pos + 1
    <3>1. pos \in Nat /\ Len(op) \in Nat /\ i \in Int /\ pos <= i /\ i <= pos + Len(op) - 1
      BY <1>3, LexFacts
    <3> QED
      BY <3>1
  <2>3. pos \in Int /\ pos + Len(op) - 1 \in Int
    BY <1>3, LexFacts
  <2>4. SubSeq(src, pos, pos + Len(op) - 1)[i - pos + 1] = src[pos + (i - pos + 1) - 1]
    BY <2>1, <2>2, <2>3, SubSeqProperties
  <2> QED
    BY <1>3, <1>4, <2>2, <2>4
<1>6. Breaks(src, pos, pos + Len(op)) = 0
  <2> DEFINE q == pos + Len(op)
  <2>0. q - 1 = pos + Len(op) - 1
    BY <1>3, LexFacts
  <2>1. \A i \in pos .. q - 1 : src[i] # "nl"
    <3> HIDE DEF q
    <3> QED
      BY <1>5, <2>0, Zenon
  <2> HIDE DEF q
  <2>2. {i \in pos .. q - 1 : src[i] = "nl"} = {}
    BY <2>1
  <2>3. Breaks(src, pos, q) = 0
    BY <2>2, FS_EmptySet DEF Breaks
  <2> QED
    BY <2>3 DEF q
<1>7. /\ src' = src /\ pos' = pos + Len(op) /\ line' = line + 0 /\ line \in Nat
      /\ pos' \in pos .. Lex!End
  BY <1>1, <1>3, <1>4, <1>6, LexIs, LexFacts DEF Lex!Advance
<1> DEFINE t == [type |-> "operator", value |-> op, line |-> line', from |-> pos, to |-> pos']
<1>8. line' = line /\ tokens' = Append(tokens, t)
  BY <1>1, <1>7 DEF Lex!Token
<1>9. Whole(src, t)
  <2>1. ~\E other \in Lex!OperatorSymbols : Len(other) > Len(op) /\ Occurs(src, pos, other)
    <3> SUFFICES ASSUME NEW other \in Lex!OperatorSymbols, Len(other) > Len(op), Occurs(src, pos, other)
                 PROVE  FALSE
      OBVIOUS
    <3>1. other \in Lex!Operator
      BY LexIs DEF Lex!Operator
    <3>2. Len(other) <= Len(op) /\ Len(other) \in 1 .. 3
      BY <1>1, <3>1, OperatorsAre
    <3> QED
      BY <1>3, <3>2
  <2> QED
    BY <2>1 DEF Whole
<1>10. "operator" \in TokenTypes
  BY DEF TokenTypes
<1>11. line' \in Nat /\ line' <= line + Breaks(src, pos, pos') /\ line' = line + Breaks(src, pos, pos')
  BY <1>6, <1>7
<1> HIDE DEF t
<1>12. t = [type |-> "operator", value |-> op, line |-> line', from |-> pos, to |-> pos']
  BY DEF t
<1> QED
  BY <1>2, <1>7, <1>8, <1>9, <1>10, <1>11, <1>12, LexEmits

\* A name or a number that was read as far as it goes.
LEMMA WordRead ==
  ASSUME LexInv, NEW type \in {"number", "identifier", "keyword"}, NEW q \in pos .. Lex!End,
         Lex!Emit(type, q),
         q = Lex!End \/ src[q] \notin IF type = "number" THEN NumberDigits(src, pos)
                                                       ELSE Lex!Letters \cup Lex!Digits
  PROVE  LexInv'
<1> DEFINE value == Lex!Symbols(pos, q)
           t == [type |-> type, value |-> value, line |-> line', from |-> pos, to |-> pos']
<1>1. /\ src' = src /\ pos' = q /\ line' = line + Breaks(src, pos, q)
      /\ tokens' = Append(tokens, t)
  BY LexIs DEF Lex!Emit, Lex!Advance, Lex!Token
<1>2. pos \in Nat \ {0} /\ q \in 1 .. Lex!End /\ pos \in Nat /\ q \in Nat /\ line \in Nat
  BY LexFacts
<1>3. value \in Seq(STRING)
  BY <1>2, SymbolsAre
<1> HIDE DEF value
<1>4. Breaks(src, pos, q) \in Nat
  BY <1>2, BreaksIs
<1>5. line' \in Nat /\ line' <= line + Breaks(src, pos, pos') /\ line' = line + Breaks(src, pos, pos')
  <2> DEFINE n == line + Breaks(src, pos, q)
  <2>1. n \in Nat
    BY <1>2, <1>4
  <2>2. line' = n /\ line + Breaks(src, pos, pos') = n
    BY <1>1, Zenon
  <2> HIDE DEF n
  <2>3. n <= n
    BY <2>1
  <2> QED
    BY <2>1, <2>2, <2>3, Zenon
<1>6. Whole(src, t)
  <2>1. q < Len(src) + 1 => q # Lex!End
    BY LexFacts
  <2> QED
    BY <1>1, <2>1 DEF Whole
<1>7. type \in TokenTypes
  BY DEF TokenTypes
<1> HIDE DEF t
<1>8. t = [type |-> type, value |-> value, line |-> line', from |-> pos, to |-> pos']
  BY DEF t
<1> QED
  BY <1>1, <1>3, <1>5, <1>6, <1>7, <1>8, LexEmits

LEMMA DigitsAre == Lex!Digits = {"0", "1", "2"}
BY DEF Lex!Digits, Lex!DigitValue

LEMMA IdentifierStep ==
  ASSUME LexInv, Lex!ReadIdentifier
  PROVE  LexInv'
<1> DEFINE q == Lex!Past(pos, Lex!Letters \cup Lex!Digits)
           type == IF q = pos + 1 /\ Lex!Peek(0) \in Lex!Keywords THEN "keyword" ELSE "identifier"
<1>1. Lex!Emit(type, q)
  BY DEF Lex!ReadIdentifier
<1>2. q \in pos .. Lex!End /\ (q = Lex!End \/ src[q] \notin Lex!Letters \cup Lex!Digits)
  BY LexFacts, PastIs
<1> HIDE DEF q
<1>3. type \in {"identifier", "keyword"}
  OBVIOUS
<1> HIDE DEF type
<1> QED
  BY <1>1, <1>2, <1>3, WordRead

\* A number goes on with digits, or not.
LEMMA FractionIs ==
  ASSUME LexInv, NEW p \in pos .. Lex!End, p = Lex!End \/ src[p] \notin Lex!Digits
  PROVE  /\ Lex!Fraction(p) \in pos .. Lex!End
         /\ Lex!Fraction(p) = Lex!End \/ src[Lex!Fraction(p)] \notin Lex!Digits
<1>1. CASE Lex!At(p, <<".">>) /\ Lex!IsDigit(p + 1)
  <2>1. p + 1 \in 1 .. Lex!End /\ p \in Nat
    BY <1>1, LexFacts DEF Lex!IsDigit
  <2>2. /\ Lex!Past(p + 1, Lex!Digits) \in p + 1 .. Lex!End
        /\ Lex!Past(p + 1, Lex!Digits) = Lex!End \/ src[Lex!Past(p + 1, Lex!Digits)] \notin Lex!Digits
    BY <2>1, LexFacts, PastIs
  <2>3. Lex!Fraction(p) = Lex!Past(p + 1, Lex!Digits)
    BY <1>1 DEF Lex!Fraction
  <2> QED
    BY <2>1, <2>2, <2>3, DigitsAre, LexFacts
<1>2. CASE ~(Lex!At(p, <<".">>) /\ Lex!IsDigit(p + 1))
  BY <1>2 DEF Lex!Fraction
<1> QED
  BY <1>1, <1>2

LEMMA ExponentIs ==
  ASSUME LexInv, NEW p \in pos .. Lex!End, p = Lex!End \/ src[p] \notin Lex!Digits
  PROVE  /\ Lex!Exponent(p) \in pos .. Lex!End
         /\ Lex!Exponent(p) = Lex!End \/ src[Lex!Exponent(p)] \notin Lex!Digits
<1> DEFINE sign == p + 1 < Lex!End /\ src[p + 1] \in {"+", "-"}
           first == IF sign THEN p + 2 ELSE p + 1
<1>0. first \in {p + 1, p + 2}
  OBVIOUS
<1>1. Lex!Exponent(p) = IF Lex!At(p, <<"e">>) /\ Lex!IsDigit(first) THEN Lex!Past(first, Lex!Digits) ELSE p
  BY DEF Lex!Exponent
<1> HIDE DEF first
<1>2. CASE Lex!At(p, <<"e">>) /\ Lex!IsDigit(first)
  <2>1. first \in 1 .. Lex!End /\ first \in Nat /\ pos <= first
    BY <1>0, <1>2, LexFacts DEF Lex!IsDigit
  <2>2. /\ Lex!Past(first, Lex!Digits) \in first .. Lex!End
        /\ Lex!Past(first, Lex!Digits) = Lex!End \/ src[Lex!Past(first, Lex!Digits)] \notin Lex!Digits
    BY <2>1, LexFacts, PastIs
  <2> QED
    BY <1>1, <1>2, <2>1, <2>2, DigitsAre, LexFacts
<1>3. CASE ~(Lex!At(p, <<"e">>) /\ Lex!IsDigit(first))
  BY <1>1, <1>3
<1> QED
  BY <1>2, <1>3

\* The base is seen from the first two symbols.
LEMMA BaseIs ==
  ASSUME LexInv, Lex!Running
  PROVE  NumberDigits(src, pos) = IF Lex!Base = {} THEN Lex!Digits ELSE Lex!Base
<1>1. ASSUME NEW x \in {"x", "b"}
      PROVE  Occurs(src, pos, <<"0", x>>) <=> Lex!Peek(0) = "0" /\ Lex!Peek(1) = x
  <2>1. src \in Seq(STRING) /\ pos \in 1 .. Len(src) /\ Lex!End = Len(src) + 1
    BY LexFacts DEF Lex!Running, Lex!End
  <2>2. /\ Lex!Peek(0) = src[pos]
        /\ Lex!Peek(1) = IF pos + 1 < Len(src) + 1 THEN src[pos + 1] ELSE "eof"
    BY <2>1 DEF Lex!Peek
  <2>3. CASE pos + 1 <= Len(src)
    <3> DEFINE two == SubSeq(src, pos, pos + 1)
    <3>1. two \in Seq(STRING) /\ Len(two) = 2 /\ two[1] = src[pos] /\ two[2] = src[pos + 1]
      BY <2>1, <2>3, SubSeqProperties
    <3> HIDE DEF two
    <3>2. two = <<"0", x>> <=> two[1] = "0" /\ two[2] = x
      BY <3>1
    <3>3. Occurs(src, pos, <<"0", x>>) <=> two = <<"0", x>>
      BY <2>1, <2>3 DEF Occurs, two
    <3> QED
      BY <2>1, <2>2, <2>3, <3>1, <3>2, <3>3
  <2>4. CASE ~(pos + 1 <= Len(src))
    BY <2>1, <2>2, <2>4 DEF Occurs
  <2> QED
    BY <2>3, <2>4
<1>2. Lex!HexDigits # {} /\ Lex!Digits \ {"2"} = {"0", "1"}
  BY DigitsAre DEF Lex!HexDigits
<1> QED
  BY <1>1, <1>2 DEF NumberDigits, Lex!Base

LEMMA NumberStep ==
  ASSUME LexInv, Lex!ReadNumber
  PROVE  LexInv' \/ UNCHANGED <<src, pos, line, tokens>>
<1>1. CASE Lex!Base = {}
  <2> DEFINE a == Lex!Past(pos, Lex!Digits)
             b == Lex!Fraction(a)
             q == Lex!Exponent(b)
  <2>1. Lex!Emit("number", q)
    BY <1>1 DEF Lex!ReadNumber
  <2>2. a \in pos .. Lex!End /\ (a = Lex!End \/ src[a] \notin Lex!Digits)
    BY LexFacts, PastIs, DigitsAre
  <2> HIDE DEF a
  <2>3. b \in pos .. Lex!End /\ (b = Lex!End \/ src[b] \notin Lex!Digits)
    BY <2>2, FractionIs
  <2> HIDE DEF b
  <2>4. q \in pos .. Lex!End /\ (q = Lex!End \/ src[q] \notin Lex!Digits)
    BY <2>3, ExponentIs
  <2> HIDE DEF q
  <2>5. NumberDigits(src, pos) = Lex!Digits
    BY <1>1, BaseIs DEF Lex!ReadNumber
  <2> QED
    BY <2>1, <2>4, <2>5, WordRead
<1>2. CASE Lex!Base # {} /\ Lex!Peek(2) \in Lex!Base
  <2> DEFINE q == Lex!Past(pos + 2, Lex!Base)
  <2>1. Lex!Emit("number", q)
    BY <1>2 DEF Lex!ReadNumber
  <2>2. Lex!Base \in {Lex!HexDigits, Lex!Digits \ {"2"}}
    BY <1>2 DEF Lex!Base
  <2>3. {"0", "1"} \subseteq Lex!Base /\ "eof" \notin Lex!Base
    BY <2>2, DigitsAre DEF Lex!HexDigits
  <2>4. pos + 2 < Lex!End
    BY <1>2, <2>3, PeekIs
  <2>5. pos + 2 \in 1 .. Lex!End
    BY <2>4, LexFacts
  <2>6. q \in pos + 2 .. Lex!End /\ (q = Lex!End \/ src[q] \notin Lex!Base)
    BY <2>5, LexFacts, PastIs
  <2> HIDE DEF q
  <2>7. q \in pos .. Lex!End
    BY <2>6, LexFacts
  <2>8. NumberDigits(src, pos) = Lex!Base
    BY <1>2, BaseIs DEF Lex!ReadNumber
  <2> QED
    BY <2>1, <2>6, <2>7, <2>8, WordRead
<1>3. CASE Lex!Base # {} /\ Lex!Peek(2) \notin Lex!Base
  BY <1>3 DEF Lex!ReadNumber, Lex!Throw
<1> QED
  BY <1>1, <1>2, <1>3

LEMMA EndStep ==
  ASSUME LexInv, Lex!EndOfFile
  PROVE  LexInv'
<1> DEFINE t == [type |-> "eof", value |-> << >>, line |-> line', from |-> pos, to |-> pos']
<1>1. src' = src /\ pos' = pos /\ line' = line /\ pos = Lex!End /\ tokens' = Append(tokens, t)
  BY DEF Lex!EndOfFile
<1>2. pos' \in pos .. Lex!End /\ line' \in Nat /\ pos \in Nat
  BY <1>1, LexFacts
<1>3. Breaks(src, pos, pos') = 0
  BY <1>1, <1>2, BreaksIs
<1>4. line' <= line + Breaks(src, pos, pos') /\ line' = line + Breaks(src, pos, pos')
  BY <1>1, <1>2, <1>3
<1>5. Whole(src, t) /\ "eof" \in TokenTypes /\ << >> \in Seq(STRING)
  BY WholeAnyway DEF TokenTypes
<1> HIDE DEF t
<1>6. t = [type |-> "eof", value |-> << >>, line |-> line', from |-> pos, to |-> pos']
  BY DEF t
<1> QED
  BY <1>1, <1>2, <1>4, <1>5, <1>6, LexEmits

LEMMA LexNext ==
  ASSUME LexInv, [Lex!Next]_(Lex!vars)
  PROVE  LexInv'
<1>1. CASE UNCHANGED <<src, pos, line, tokens>>
  BY <1>1 DEF LexInv
<1>2. Lex!Whitespace => LexInv'
  BY WhitespaceStep
<1>3. Lex!LineComment => LexInv'
  BY LineCommentStep
<1>4. Lex!BlockComment => LexInv'
  BY BlockCommentStep
<1>5. Lex!ReadString => LexInv'
  BY ReadStringStep
<1>6. Lex!ReadRawUntil => LexInv'
  BY ReadRawUntilStep
<1>7. Lex!ReadRawLines => LexInv'
  BY ReadRawLinesStep
<1>8. Lex!ReadOperator => LexInv'
  BY OperatorStep
<1>9. Lex!ReadNumber => LexInv'
  BY <1>1, NumberStep
<1>10. Lex!ReadIdentifier => LexInv'
  BY IdentifierStep
<1>11. Lex!UnknownSymbol => LexInv'
  BY <1>1 DEF Lex!UnknownSymbol, Lex!Throw
<1>12. Lex!EndOfFile => LexInv'
  BY EndStep
<1> QED
  BY <1>1, <1>2, <1>3, <1>4, <1>5, <1>6, <1>7, <1>8, <1>9, <1>10, <1>11, <1>12
     DEF Lex!Next, Lex!vars

LEMMA LexInit ==
  ASSUME src \in Texts, Lex!Started
  PROVE  LexInv
<1>1. src \in Seq(STRING) /\ Len(src) \in Nat
  BY TextsAssumption
<1>2. Breaks(src, 1, 1) = 0
  BY BreaksIs
<1>3. << >> \in Seq(Tokens) /\ Len(<< >>) = 0
  OBVIOUS
<1>4. Layout(src, 1, 1)
  BY DEF Layout
<1> QED
  BY <1>1, <1>2, <1>3, <1>4 DEF LexInv, Scanned, Lex!Started, Since

-----------------------------------------------------------------------------
(***************************************************************************)
(* The conditions.  The value of each segment, from those of shorter ones. *)
(***************************************************************************)
CondTokens == Condition!Operands \cup Condition!Operators \cup Condition!Prefixes

Emitted(f, d) ==
  IF d = << >> THEN Condition!Nothing
  ELSE IF Len(d) = 1 THEN Condition!EmitToken(d[1])
  ELSE IF d[1] \in Condition!Prefixes THEN Condition!EmitPrefix(d[1], f[Tail(d)])
  ELSE LET i == Condition!SplitAt(d)
       IN Condition!EmitOp(f[SubSeq(d, 1, i-1)], d[i], f[SubSeq(d, i+1, Len(d))])

IsValues(f, D) == f = [d \in D |-> Emitted(f, d)]
Values(c) == CHOOSE f : IsValues(f, Condition!Segments(c))

LEMMA EmitIs == \A c : Condition!Emit(c) = Values(c)[c]
BY Zenon DEF Condition!Emit, Values, IsValues, Emitted

LEMMA LevelIs ==
  ASSUME NEW op \in Condition!Operators
  PROVE  Condition!LevelOf(op) \in 1 .. 6 /\ op \in Condition!Levels[Condition!LevelOf(op)]
<1>1. \E k \in 1 .. 6 : op \in Condition!Levels[k]
  BY DEF Condition!Operators
<1> QED
  BY <1>1, Zenon DEF Condition!LevelOf

\* The split is at an operator, if there is one after the first token.
LEMMA SplitIs ==
  ASSUME NEW d, NEW n \in Nat, Len(d) = n
  PROVE  \/ Condition!SplitAt(d) = 0 /\ \A j \in 2 .. n : d[j] \notin Condition!Operators
         \/ /\ Condition!SplitAt(d) \in 2 .. n /\ d[Condition!SplitAt(d)] \in Condition!Operators
            /\ \A j \in 2 .. n : d[j] \in Condition!Operators =>
                 /\ Condition!LevelOf(d[Condition!SplitAt(d)]) <= Condition!LevelOf(d[j])
                 /\ Condition!LevelOf(d[Condition!SplitAt(d)]) = Condition!LevelOf(d[j]) => j <= Condition!SplitAt(d)
<1> DEFINE at == {i \in 2 .. Len(d) : d[i] \in Condition!Operators}
           level(i) == Condition!LevelOf(d[i])
           loosest == {i \in at : \A j \in at : level(i) <= level(j)}
           last == CHOOSE i \in loosest : \A j \in loosest : j <= i
<1>1. Condition!SplitAt(d) = IF at = {} THEN 0 ELSE last
  BY DEF Condition!SplitAt
<1>2. at \subseteq 2 .. n
  OBVIOUS
<1>3. \A i \in at : level(i) \in 1 .. 6
  BY LevelIs
<1>4. CASE at = {}
  BY <1>1, <1>4
<1>5. CASE at # {}
  <2>1. \E i \in at : \A j \in at : level(i) <= level(j)
    <3> DEFINE L == {level(i) : i \in at}
    <3>1. L \subseteq Nat /\ L # {}
      BY <1>3, <1>5
    <3>2. PICK l \in L : \A k \in L : l <= k
      <4> HIDE DEF L
      <4> QED
        BY <3>1, LeastNatural
    <3>3. PICK i \in at : l = level(i)
      OBVIOUS
    <3> HIDE DEF at, level
    <3> QED
      BY <3>2, <3>3
  <2>2. loosest # {} /\ loosest \subseteq at
    BY <2>1
  <2>3. loosest \subseteq 0 .. n
    BY <1>2, <2>2
  <2> HIDE DEF loosest
  <2>4. \E i \in loosest : \A j \in loosest : j <= i
    BY <2>2, <2>3, GreatestUpTo
  <2>5. last \in loosest /\ \A j \in loosest : j <= last
    BY <2>4
  <2>6. last \in at /\ (\A j \in at : level(last) <= level(j))
    BY <2>5 DEF loosest
  <2>7. \A j \in at : level(last) = level(j) => j \in loosest
    <3> HIDE DEF at, level, last
    <3> QED
      BY <2>6 DEF loosest
  <2>8. Condition!SplitAt(d) = last
    BY <1>1, <1>5
  <2> HIDE DEF last
  <2> QED
    BY <2>5, <2>6, <2>7, <2>8
<1> QED
  BY <1>4, <1>5

\* A segment of a segment is one of the whole.
LEMMA SubSeqIs ==
  ASSUME NEW S, NEW s \in Seq(S), NEW i \in Nat \ {0}, NEW j \in Nat, j <= Len(s), i <= j
  PROVE  /\ SubSeq(s, i, j) \in Seq(S) /\ Len(SubSeq(s, i, j)) = j - i + 1
         /\ \A k \in 1 .. j - i + 1 : SubSeq(s, i, j)[k] = s[i + k - 1]
<1>1. i \in Int /\ j \in Int /\ \A k \in i .. j : s[k] \in S
  BY ElementOfSeq
<1> QED
  BY <1>1, SubSeqProperties

LEMMA SubSeqTwice ==
  ASSUME NEW S, NEW s \in Seq(S), NEW a \in Nat \ {0}, NEW b \in Nat, b <= Len(s), a <= b,
         NEW i \in Nat \ {0}, NEW j \in Nat, j <= b - a + 1, i <= j
  PROVE  SubSeq(SubSeq(s, a, b), i, j) = SubSeq(s, a + i - 1, a + j - 1)
<1>1. a \in 1 .. Len(s) /\ b \in 1 .. Len(s) /\ i \in 1 .. b - a + 1 /\ j \in 1 .. b - a + 1
  OBVIOUS
<1> QED
  BY <1>1, SubSeqOfSubSeq

LEMMA SegmentsAre ==
  ASSUME NEW c \in Seq(CondTokens)
  PROVE  /\ << >> \in Condition!Segments(c) /\ c \in Condition!Segments(c)
         /\ \A d \in Condition!Segments(c) : d \in Seq(CondTokens) /\ Len(d) \in 0 .. Len(c)
<1>1. Len(c) \in Nat /\ 1 \in 1 .. Len(c) + 1 /\ 0 \in 0 .. Len(c) /\ Len(c) \in 0 .. Len(c)
  OBVIOUS
<1>2. \A i \in 1 .. Len(c) + 1, j \in 0 .. Len(c) : SubSeq(c, i, j) \in Condition!Segments(c)
  BY DEF Condition!Segments
<1>3. SubSeq(c, 1, 0) = << >>
  BY SubSeqEmpty
<1>4. SubSeq(c, 1, Len(c)) = c
  BY SubSeqFull
<1>5. ASSUME NEW d \in Condition!Segments(c)
      PROVE  d \in Seq(CondTokens) /\ Len(d) \in 0 .. Len(c)
  <2>1. PICK i \in 1 .. Len(c) + 1, j \in 0 .. Len(c) : d = SubSeq(c, i, j)
    BY DEF Condition!Segments
  <2>2. CASE i <= j
    BY <1>1, <2>1, <2>2, SubSeqIs
  <2>3. CASE j < i
    <3>1. d = << >>
      BY <1>1, <2>1, <2>3, SubSeqEmpty
    <3> QED
      BY <1>1, <3>1
  <2> QED
    BY <1>1, <2>2, <2>3
<1> QED
  BY <1>1, <1>2, <1>3, <1>4, <1>5

LEMMA SegmentsOf ==
  ASSUME NEW c \in Seq(CondTokens), NEW d \in Condition!Segments(c),
         NEW i \in Nat \ {0}, NEW j \in Int, j <= Len(d)
  PROVE  /\ SubSeq(d, i, j) \in Condition!Segments(c)
         /\ Len(SubSeq(d, i, j)) = IF i <= j THEN j - i + 1 ELSE 0
<1>1. d \in Seq(CondTokens) /\ Len(d) \in 0 .. Len(c) /\ Len(c) \in Nat /\ << >> \in Condition!Segments(c)
  BY SegmentsAre
<1>2. CASE j < i
  <2>1. SubSeq(d, i, j) = << >>
    BY <1>2, SubSeqEmpty
  <2> QED
    BY <1>1, <1>2, <2>1
<1>3. CASE i <= j
  <2>1. PICK a \in 1 .. Len(c) + 1, b \in 0 .. Len(c) : d = SubSeq(c, a, b)
    BY DEF Condition!Segments
  <2>2. a <= b
    <3> SUFFICES ASSUME b < a PROVE FALSE
      BY <1>1
    <3>1. d = << >>
      BY <1>1, <2>1, SubSeqEmpty
    <3> QED
      BY <1>3, <3>1
  <2>3. Len(d) = b - a + 1
    BY <1>1, <2>1, <2>2, SubSeqIs
  <2>4. SubSeq(d, i, j) = SubSeq(c, a + i - 1, a + j - 1)
    BY <1>1, <1>3, <2>1, <2>2, <2>3, SubSeqTwice
  <2>5. a + i - 1 \in 1 .. Len(c) + 1 /\ a + j - 1 \in 0 .. Len(c)
    BY <1>1, <1>3, <2>2, <2>3
  <2>6. SubSeq(d, i, j) \in Condition!Segments(c)
    <3> DEFINE p == a + i - 1
               q == a + j - 1
    <3>1. p \in 1 .. Len(c) + 1 /\ q \in 0 .. Len(c) /\ SubSeq(d, i, j) = SubSeq(c, p, q)
      BY <2>4, <2>5
    <3> HIDE DEF p, q
    <3>2. SubSeq(c, p, q) \in Condition!Segments(c)
      BY <3>1 DEF Condition!Segments
    <3> QED
      BY <3>1, <3>2, Zenon
  <2>7. Len(SubSeq(d, i, j)) = j - i + 1
    BY <1>1, <1>3, SubSeqIs
  <2> QED
    BY <1>3, <2>6, <2>7
<1> QED
  BY <1>2, <1>3

LEMMA TailIs ==
  ASSUME NEW c \in Seq(CondTokens), NEW d \in Condition!Segments(c), d # << >>
  PROVE  Tail(d) \in Condition!Segments(c) /\ Len(Tail(d)) = Len(d) - 1
<1>1. d \in Seq(CondTokens) /\ Len(d) \in Nat
  BY SegmentsAre
<1>2. Tail(d) = SubSeq(d, 2, Len(d))
  BY <1>1, TailIsSubSeq
<1>3. Tail(d) \in Condition!Segments(c)
  <2>1. 2 \in Nat \ {0} /\ Len(d) \in Int /\ Len(d) <= Len(d)
    BY <1>1
  <2>2. SubSeq(d, 2, Len(d)) \in Condition!Segments(c)
    BY <2>1, SegmentsOf
  <2> QED
    BY <1>2, <2>2, Zenon
<1> QED
  BY <1>1, <1>3, HeadTailProperties

\* The value of a segment depends on those of shorter ones, or on its own when
\* nothing is there to split at.
LEMMA EmittedSame ==
  ASSUME NEW c \in Seq(CondTokens), NEW f, NEW g, NEW d \in Condition!Segments(c),
         \A e \in Condition!Segments(c) : Len(e) < Len(d) => f[e] = g[e],
         (d[1] \notin Condition!Prefixes /\ Condition!SplitAt(d) = 0) => f[d] = g[d]
  PROVE  Emitted(f, d) = Emitted(g, d)
<1> DEFINE i == Condition!SplitAt(d)
<1>1. d \in Seq(CondTokens) /\ Len(d) \in Nat
  BY SegmentsAre
<1>2. CASE d = << >> \/ Len(d) = 1
  BY <1>2 DEF Emitted
<1>3. CASE d # << >> /\ Len(d) # 1 /\ d[1] \in Condition!Prefixes
  <2>1. Tail(d) \in Condition!Segments(c) /\ Len(Tail(d)) = Len(d) - 1 /\ Len(d) - 1 < Len(d)
    BY <1>1, <1>3, TailIs
  <2>2. f[Tail(d)] = g[Tail(d)]
    BY <2>1
  <2> QED
    BY <1>3, <2>2, Zenon DEF Emitted
<1>4. CASE d # << >> /\ Len(d) # 1 /\ d[1] \notin Condition!Prefixes
  <2>1. Emitted(f, d) = Condition!EmitOp(f[SubSeq(d, 1, i-1)], d[i], f[SubSeq(d, i+1, Len(d))])
    BY <1>4, Zenon DEF Emitted
  <2>2. Emitted(g, d) = Condition!EmitOp(g[SubSeq(d, 1, i-1)], d[i], g[SubSeq(d, i+1, Len(d))])
    BY <1>4, Zenon DEF Emitted
  <2>3. f[SubSeq(d, 1, i-1)] = g[SubSeq(d, 1, i-1)] /\ f[SubSeq(d, i+1, Len(d))] = g[SubSeq(d, i+1, Len(d))]
    <3>1. Len(d) >= 2
      <4>1. Len(d) \in Nat \ {0}
        BY <1>1, <1>4, EmptySeq, Zenon
      <4>2. Len(d) # 1
        BY <1>4, Zenon
      <4> DEFINE n == Len(d)
      <4>3. n \in Nat \ {0} /\ n # 1
        BY <4>1, <4>2, Zenon
      <4> HIDE DEF n
      <4>4. n >= 2
        BY <4>3
      <4> QED
        BY <4>4 DEF n
    <3>2. CASE i = 0
      <4>1. SubSeq(d, 1, i-1) \in Condition!Segments(c) /\ Len(SubSeq(d, 1, i-1)) < Len(d)
        <5>1. i - 1 \in Int /\ i - 1 < 1 /\ i - 1 <= Len(d)
          BY <1>1, <3>2
        <5> HIDE DEF i
        <5>2. SubSeq(d, 1, i-1) \in Condition!Segments(c) /\ Len(SubSeq(d, 1, i-1)) = 0
          BY <5>1, SegmentsOf
        <5>3. 0 < Len(d)
          BY <1>1, <3>1
        <5> QED
          BY <5>2, <5>3, Zenon
      <4>2. SubSeq(d, i+1, Len(d)) = d
        BY <1>1, <3>2, SubSeqFull
      <4>3. f[SubSeq(d, 1, i-1)] = g[SubSeq(d, 1, i-1)]
        BY <4>1, Zenon
      <4>4. f[d] = g[d]
        BY <1>4, <3>2
      <4> QED
        BY <4>2, <4>3, <4>4, Zenon
    <3>3. CASE i \in 2 .. Len(d)
      <4>1. SubSeq(d, 1, i-1) \in Condition!Segments(c) /\ Len(SubSeq(d, 1, i-1)) = i - 1
        <5>1. i - 1 \in Int /\ i - 1 <= Len(d) /\ 1 <= i - 1 /\ i - 1 - 1 + 1 = i - 1
          BY <1>1, <3>3
        <5> HIDE DEF i
        <5> QED
          BY <5>1, SegmentsOf
      <4>2. SubSeq(d, i+1, Len(d)) \in Condition!Segments(c) /\ Len(SubSeq(d, i+1, Len(d))) < Len(d)
        <5>1. i + 1 \in Nat \ {0} /\ Len(d) \in Int /\ Len(d) <= Len(d) /\ Len(d) - (i + 1) + 1 < Len(d) /\ 0 < Len(d)
          BY <1>1, <3>3
        <5> HIDE DEF i
        <5> QED
          BY <5>1, SegmentsOf
      <4>3. i - 1 < Len(d)
        BY <1>1, <3>3
      <4> HIDE DEF i
      <4> QED
        BY <4>1, <4>2, <4>3, Zenon
    <3>4. i = 0 \/ i \in 2 .. Len(d)
      BY <1>1, SplitIs
    <3> HIDE DEF i
    <3> QED
      BY <3>2, <3>3, <3>4, Zenon
  <2> QED
    BY <2>1, <2>2, <2>3, Zenon
<1> QED
  BY <1>2, <1>3, <1>4

\* There are such values.
LEMMA ValuesAre ==
  ASSUME NEW c \in Seq(CondTokens)
  PROVE  \A d \in Condition!Segments(c) : Values(c)[d] = Emitted(Values(c), d)
<1> DEFINE D == Condition!Segments(c)
           Good(m) == \E f : f = [d \in D |-> f[d]] /\ \A d \in D : Len(d) < m => f[d] = Emitted(f, d)
           Bad == {m \in Nat : ~Good(m)}
<1>1. << >> \in D /\ \A d \in D : d \in Seq(CondTokens) /\ Len(d) \in 0 .. Len(c)
  BY SegmentsAre
<1>2. Good(0)
  <2> DEFINE f == [d \in D |-> Condition!Nothing]
  <2>1. f = [d \in D |-> f[d]]
    OBVIOUS
  <2>2. \A d \in D : ~(Len(d) < 0)
    BY <1>1
  <2> QED
    BY <2>1, <2>2, Zenon
<1>3. ASSUME NEW m \in Nat, Good(m)
      PROVE  Good(m + 1)
  <2>1. PICK f : f = [d \in D |-> f[d]] /\ \A d \in D : Len(d) < m => f[d] = Emitted(f, d)
    BY <1>3, Zenon
  <2> DEFINE Stuck(d) == d[1] \notin Condition!Prefixes /\ Condition!SplitAt(d) = 0 /\ Len(d) # 0 /\ Len(d) # 1
             g == [d \in D |-> IF Len(d) < m THEN f[d]
                               ELSE IF Stuck(d) THEN Condition!Nothing ELSE Emitted(f, d)]
  <2>2. g = [d \in D |-> g[d]]
    OBVIOUS
  <2>3. \A d \in D : Len(d) < m => g[d] = f[d]
    BY Zenon
  <2>4. ASSUME NEW d \in D, Len(d) < m + 1
        PROVE  g[d] = Emitted(g, d)
    <3>1. \A e \in D : Len(e) < Len(d) => f[e] = g[e]
      BY <1>1, <2>3, <2>4
    <3>2. CASE Len(d) < m
      <4>1. f[d] = g[d]
        BY <2>3, <3>2
      <4>2. Emitted(f, d) = Emitted(g, d)
        <5> HIDE DEF g
        <5> QED
          BY <3>1, <4>1, EmittedSame
      <4> QED
        BY <2>1, <3>2, <4>1, <4>2, Zenon
    <3>3. CASE Len(d) = m /\ ~Stuck(d)
      <4>1. g[d] = Emitted(f, d)
        BY <1>1, <3>3
      <4>2. CASE d[1] \notin Condition!Prefixes /\ Condition!SplitAt(d) = 0
        <5>1. d = << >> \/ Len(d) = 1
          <6>2. Len(d) = 0 \/ Len(d) = 1
            BY <3>3, <4>2, Zenon
          <6> QED
            BY <1>1, <6>2, EmptySeq
        <5>2. Emitted(f, d) = Emitted(g, d)
          BY <5>1, Zenon DEF Emitted
        <5> QED
          BY <4>1, <5>2, Zenon
      <4>3. CASE ~(d[1] \notin Condition!Prefixes /\ Condition!SplitAt(d) = 0)
        <5>1. Emitted(f, d) = Emitted(g, d)
          <6> HIDE DEF g
          <6> QED
            BY <3>1, <4>3, EmittedSame
        <5> QED
          BY <4>1, <5>1, Zenon
      <4> QED
        BY <4>2, <4>3, Zenon
    <3>4. CASE Len(d) = m /\ Stuck(d)
      <4>1. g[d] = Condition!Nothing
        BY <1>1, <3>4
      <4>2. d # << >> /\ Len(d) # 1 /\ d[1] \notin Condition!Prefixes /\ Condition!SplitAt(d) = 0
            /\ Len(<< >>) < m
        BY <1>1, <3>4
      <4>3. g[<< >>] = Condition!Nothing
        <5>1. f[<< >>] = Emitted(f, << >>)
          BY <1>1, <2>1, <4>2, Zenon
        <5>2. g[<< >>] = f[<< >>]
          BY <1>1, <2>3, <4>2, Zenon
        <5> QED
          BY <5>1, <5>2, Zenon DEF Emitted
      <4> DEFINE i == Condition!SplitAt(d)
      <4>4. Emitted(g, d) = Condition!EmitOp(g[SubSeq(d, 1, i-1)], d[i], g[SubSeq(d, i+1, Len(d))])
        <5> HIDE DEF g
        <5> QED
          BY <4>2, Zenon DEF Emitted
      <4>5. SubSeq(d, 1, i-1) = << >> /\ SubSeq(d, i+1, Len(d)) = d
        BY <1>1, <4>2, SubSeqEmpty, SubSeqFull
      <4>6. \A op : Condition!EmitOp(Condition!Nothing, op, Condition!Nothing) = Condition!Nothing
        BY Zenon DEF Condition!EmitOp
      <4> HIDE DEF g, i
      <4> QED
        BY <4>1, <4>3, <4>4, <4>5, <4>6, Zenon
    <3> HIDE DEF Stuck
    <3> QED
      BY <1>1, <2>4, <3>2, <3>3, <3>4
  <2> HIDE DEF g
  <2> QED
    BY <2>2, <2>4, Zenon
<1> HIDE DEF Good
<1>4. Bad = {}
  <2> SUFFICES ASSUME Bad # {} PROVE FALSE
    OBVIOUS
  <2>1. PICK m \in Bad : \A j \in Bad : m <= j
    BY LeastNatural
  <2>2. m # 0 /\ m - 1 \in Nat /\ m - 1 \notin Bad
    BY <1>2, <2>1
  <2>3. Good(m - 1) /\ (m - 1) + 1 = m
    BY <2>2
  <2>4. Good((m - 1) + 1)
    BY <1>3, <2>2, <2>3
  <2> QED
    BY <2>3, <2>4
<1>5. Good(Len(c) + 1)
  BY <1>4
<1>6. PICK f : f = [d \in D |-> f[d]] /\ \A d \in D : Len(d) < Len(c) + 1 => f[d] = Emitted(f, d)
  BY <1>5, Zenon DEF Good
<1>7. \A d \in D : f[d] = Emitted(f, d)
  <2>1. \A d \in D : Len(d) < Len(c) + 1
    BY <1>1
  <2> QED
    BY <1>6, <2>1, Zenon
<1>8. f = [d \in D |-> Emitted(f, d)]
  BY <1>6, <1>7
<1>9. IsValues(Values(c), D)
  BY <1>8, Zenon DEF Values, IsValues
<1> QED
  BY <1>9 DEF IsValues

-----------------------------------------------------------------------------
\* A value that the emitted code computes, and one that the checker folds.
Agrees(x, v) ==
  /\ v \in Int /\ x.width \in {1, Width}
  /\ x.sound => ~x.poison /\ (x.width = 1 => v \in {0, 1} /\ x.value = -v) /\ (x.width # 1 => x.value = v)

LEMMA WrapsOfBit == Condition!Wrap(0, 1) = 0 /\ Condition!Wrap(1, 1) = -1
<1>1. 2^1 = 2 /\ 2^(1-1) = 1
  OBVIOUS
<1> QED
  BY <1>1 DEF Condition!Wrap

LEMMA OperandAgrees ==
  ASSUME NEW w \in {1, Width}, NEW n, NEW s, NEW v \in Int,
         s => (w = 1 => v \in {0, 1} /\ Condition!Wrap(n, w) = -v) /\ (w # 1 => Condition!Wrap(n, w) = v)
  PROVE  Agrees(Condition!Operand(w, n, s), v)
<1> DEFINE x == Condition!Operand(w, n, s)
<1>1. x.width = w /\ x.value = Condition!Wrap(n, w) /\ x.sound = s /\ x.poison = FALSE
  BY DEF Condition!Operand
<1> HIDE DEF x
<1>2. Agrees(x, v)
  BY <1>1 DEF Agrees
<1> QED
  BY <1>2 DEF x

LEMMA NumberAgrees ==
  ASSUME NEW w \in {1, Width}, NEW n, NEW s, NEW v \in Int, s => w # 1 /\ n = v
  PROVE  Agrees(Condition!Operand(w, n, s /\ n = Condition!Wrap(n, w)), v)
BY OperandAgrees, Zenon

LEMMA BitAgrees ==
  ASSUME NEW b, NEW s, NEW v \in {0, 1}, s => (b <=> v = 1)
  PROVE  Agrees(Condition!Bit(b, s), v)
<1>1. v \in Int /\ 1 \in {1, Width}
  OBVIOUS
<1>2. s => v \in {0, 1} /\ Condition!Wrap(IF b THEN 1 ELSE 0, 1) = -v
  BY WrapsOfBit
<1>3. Agrees(Condition!Operand(1, IF b THEN 1 ELSE 0, s), v)
  BY <1>1, <1>2, OperandAgrees
<1> QED
  BY <1>3 DEF Condition!Bit

LEMMA OperatorsListed ==
  /\ Condition!Operators = {"||", "&&", "==", "!=", "<", ">", "<=", ">=", "+", "-", "*", "/", "%"}
  /\ "true" \notin Condition!Operators \cup Condition!Prefixes
  /\ "false" \notin Condition!Operators \cup Condition!Prefixes
<1>1. /\ Condition!Levels[1] = {"||"} /\ Condition!Levels[2] = {"&&"} /\ Condition!Levels[3] = {"==", "!="}
      /\ Condition!Levels[4] = {"<", ">", "<=", ">="} /\ Condition!Levels[5] = {"+", "-"}
      /\ Condition!Levels[6] = {"*", "/", "%"}
  BY DEF Condition!Levels
<1>2. Condition!Operators = {"||", "&&", "==", "!=", "<", ">", "<=", ">=", "+", "-", "*", "/", "%"}
  <2>1. \A op : op \in Condition!Operators <=> \E k \in 1 .. 6 : op \in Condition!Levels[k]
    BY Zenon DEF Condition!Operators
  <2>2. 1 .. 6 = {1, 2, 3, 4, 5, 6}
    OBVIOUS
  <2>3. \A op : op \in Condition!Operators <=>
          op \in {"||", "&&", "==", "!=", "<", ">", "<=", ">=", "+", "-", "*", "/", "%"}
    BY <1>1, <2>1, <2>2
  <2> QED
    BY <2>3, Zenon
<1> QED
  BY <1>2 DEF Condition!Prefixes

LEMMA TokensApart ==
  Condition!Operands \cap (Condition!Operators \cup Condition!Prefixes) = {}
BY OperatorsListed, LiteralsAssumption DEF Condition!Operands

LEMMA TokenAgrees ==
  ASSUME NEW t \in Condition!Operands
  PROVE  /\ Condition!FoldToken(t).known = TRUE
         /\ Agrees(Condition!EmitToken(t), Condition!FoldToken(t).value)
<1>1. CASE t \in Literals
  <2>1. t \notin {"true", "false"} /\ AsDouble[t] \in Int /\ Width # 1
    BY <1>1, LiteralsAssumption
  <2>2. Condition!FoldToken(t) = [known |-> TRUE, value |-> AsDouble[t]]
    BY <1>1, <2>1 DEF Condition!FoldToken, Condition!Known
  <2>3. Condition!EmitToken(t) =
          Condition!Operand(Width, AsInteger[t], AsDouble[t] = Condition!Wrap(AsInteger[t], Width))
    BY <2>1, Zenon DEF Condition!EmitToken
  <2>4. Agrees(Condition!EmitToken(t), AsDouble[t])
    BY <2>1, <2>3, OperandAgrees
  <2> QED
    BY <2>2, <2>4
<1>2. CASE t \in {"true", "false"}
  <2>1. t \notin Literals
    BY <1>2, LiteralsAssumption
  <2> DEFINE v == IF t = "true" THEN 1 ELSE 0
  <2>2. Condition!FoldToken(t) = [known |-> TRUE, value |-> v]
    BY <1>2, <2>1 DEF Condition!FoldToken, Condition!Known
  <2>3. Condition!EmitToken(t) = Condition!Bit(t = "true", TRUE)
    BY <1>2, Zenon DEF Condition!EmitToken
  <2>4. v \in {0, 1} /\ (t = "true" <=> v = 1)
    OBVIOUS
  <2> HIDE DEF v
  <2>5. Agrees(Condition!Bit(t = "true", TRUE), v)
    BY <2>4, BitAgrees, Zenon
  <2>6. Agrees(Condition!EmitToken(t), v)
    BY <2>3, <2>5, Zenon
  <2> QED
    BY <2>2, <2>6
<1> QED
  BY <1>1, <1>2 DEF Condition!Operands

\* The result of an operator is exact if the operands are, and are of the
\* operator's type.
Exact(x, op, y) == x.sound /\ y.sound /\ Condition!Typed(op, x, y)
Wider(x, y) == IF x.width > y.width THEN x.width ELSE y.width

ExactNumber(x, op, y, n) ==
  Condition!Operand(Wider(x, y), n, Exact(x, op, y) /\ n = Condition!Wrap(n, Wider(x, y)))
ExactTruth(x, op, y, b) == Condition!Bit(b, Exact(x, op, y))
ExactLogic(x, op, y, inside) ==
  Condition!Operand(Wider(x, y), Condition!OfBits(inside, Wider(x, y)), Exact(x, op, y))

Broken(x, op, y) == x.poison \/ y.poison \/ (op \in {"/", "%"} /\ y.value = 0)
\* What an operator gives unless it is broken.
Gives(x, op, y, emitted) ==
  /\ op = "+" => emitted = ExactNumber(x, op, y, x.value + y.value)
  /\ op = "-" => emitted = ExactNumber(x, op, y, x.value - y.value)
  /\ op = "*" => emitted = ExactNumber(x, op, y, x.value * y.value)
  /\ op = "/" => emitted = ExactNumber(x, op, y, Condition!Quotient(x.value, y.value))
  /\ op = "%" => emitted = ExactNumber(x, op, y, Condition!Remainder(x.value, y.value))
  /\ op = "==" => emitted = ExactTruth(x, op, y, x.value = y.value)
  /\ op = "!=" => emitted = ExactTruth(x, op, y, x.value /= y.value)
  /\ op = "<" => emitted = ExactTruth(x, op, y, x.value < y.value)
  /\ op = ">" => emitted = ExactTruth(x, op, y, x.value > y.value)
  /\ op = "<=" => emitted = ExactTruth(x, op, y, x.value <= y.value)
  /\ op = ">=" => emitted = ExactTruth(x, op, y, x.value >= y.value)
  /\ op = "&&" => emitted = ExactLogic(x, op, y,
       Condition!OneBits(x.value, Wider(x, y)) \cap Condition!OneBits(y.value, Wider(x, y)))
  /\ op = "||" => emitted = ExactLogic(x, op, y,
       Condition!OneBits(x.value, Wider(x, y)) \cup Condition!OneBits(y.value, Wider(x, y)))

LEMMA EmitOpIs ==
  ASSUME NEW x, NEW y, NEW v, NEW u, Agrees(x, v), Agrees(y, u), NEW op \in Condition!Operators,
         ~Broken(x, op, y)
  PROVE  Gives(x, op, y, Condition!EmitOp(x, op, y))
<1>1. x # Condition!Nothing /\ y # Condition!Nothing
  <2>1. Condition!Nothing.width = 0 /\ 0 \notin {1, Width}
    BY LiteralsAssumption DEF Condition!Nothing
  <2> QED
    BY <2>1 DEF Agrees
<1>2. Condition!EmitOp(x, op, y) =
        CASE op = "+" -> ExactNumber(x, op, y, x.value + y.value)
          [] op = "-" -> ExactNumber(x, op, y, x.value - y.value)
          [] op = "*" -> ExactNumber(x, op, y, x.value * y.value)
          [] op = "/" -> ExactNumber(x, op, y, Condition!Quotient(x.value, y.value))
          [] op = "%" -> ExactNumber(x, op, y, Condition!Remainder(x.value, y.value))
          [] op = "==" -> ExactTruth(x, op, y, x.value = y.value)
          [] op = "!=" -> ExactTruth(x, op, y, x.value /= y.value)
          [] op = "<" -> ExactTruth(x, op, y, x.value < y.value)
          [] op = ">" -> ExactTruth(x, op, y, x.value > y.value)
          [] op = "<=" -> ExactTruth(x, op, y, x.value <= y.value)
          [] op = ">=" -> ExactTruth(x, op, y, x.value >= y.value)
          [] op = "&&" -> ExactLogic(x, op, y,
               Condition!OneBits(x.value, Wider(x, y)) \cap Condition!OneBits(y.value, Wider(x, y)))
          [] op = "||" -> ExactLogic(x, op, y,
               Condition!OneBits(x.value, Wider(x, y)) \cup Condition!OneBits(y.value, Wider(x, y)))
  BY <1>1, Zenon DEF Condition!EmitOp, Exact, Wider, Broken, ExactNumber, ExactTruth, ExactLogic
<1> QED
  BY <1>2 DEF Gives

\* The bits of a truth value.
LEMMA OfBitsIs ==
  ASSUME NEW s
  PROVE  Condition!OfBits(s, 1) = IF 0 \in s THEN 1 ELSE 0
<1> DEFINE b == IF 0 \in s THEN 1 ELSE 0
           IsSum(f) == f = [k \in 0 .. 1 |-> IF k = 0 THEN 0 ELSE f[k - 1] + (IF k - 1 \in s THEN 2^(k-1) ELSE 0)]
           sum == CHOOSE f : IsSum(f)
           h == [k \in 0 .. 1 |-> IF k = 0 THEN 0 ELSE b]
<1>1. Condition!OfBits(s, 1) = sum[1]
  BY Zenon DEF Condition!OfBits
<1>2. 0 .. 1 = {0, 1} /\ 1 - 1 = 0 /\ 2^0 = 1 /\ b \in Int
  OBVIOUS
<1>3. (IF 1 - 1 \in s THEN 2^(1-1) ELSE 0) = b
  BY <1>2, Zenon
<1>4. IsSum(h)
  <2> DEFINE g == [k \in 0 .. 1 |-> IF k = 0 THEN 0 ELSE h[k - 1] + (IF k - 1 \in s THEN 2^(k-1) ELSE 0)]
  <2>1. g[0] = h[0]
    OBVIOUS
  <2>2. g[1] = h[1]
    <3>1. g[1] = h[1 - 1] + (IF 1 - 1 \in s THEN 2^(1-1) ELSE 0)
      OBVIOUS
    <3>2. h[1 - 1] = 0 /\ h[1] = b
      BY <1>2
    <3> HIDE DEF g, h, b
    <3> QED
      BY <1>2, <1>3, <3>1, <3>2
  <2>3. \A k \in 0 .. 1 : g[k] = h[k]
    <3> HIDE DEF g, h
    <3> QED
      BY <1>2, <2>1, <2>2
  <2>4. g = h
    <3>1. g = [k \in 0 .. 1 |-> g[k]] /\ h = [k \in 0 .. 1 |-> h[k]]
      OBVIOUS
    <3> HIDE DEF g, h
    <3> QED
      BY <2>3, <3>1
  <2> QED
    BY <2>4
<1> HIDE DEF h
<1>5. IsSum(sum)
  BY <1>4, Zenon
<1> HIDE DEF sum
<1>6. sum[0] = 0
  BY <1>5
<1>7. sum[1] = sum[1 - 1] + (IF 1 - 1 \in s THEN 2^(1-1) ELSE 0)
  BY <1>5
<1> HIDE DEF b
<1>8. sum[1] = b
  BY <1>2, <1>3, <1>6, <1>7
<1> QED
  BY <1>1, <1>8 DEF b

LEMMA OneBitsAre ==
  ASSUME NEW l \in {0, -1}
  PROVE  0 \in Condition!OneBits(l, 1) <=> l = -1
<1>1. 1 - 1 = 0 /\ 2^0 = 1 /\ 0 \in 0 .. 1 - 1
  OBVIOUS
<1>2. 0 \in Condition!OneBits(l, 1) <=> (l \div 2^0) % 2 = 1
  BY <1>1 DEF Condition!OneBits
<1>3. l \div 2^0 = l
  BY <1>1
<1> QED
  BY <1>2, <1>3

LEMMA LogicAgrees ==
  ASSUME NEW x, NEW y, NEW v, NEW u, Agrees(x, v), Agrees(y, u), NEW w, w = Wider(x, y),
         NEW op \in {"&&", "||"}, NEW s, NEW value \in {0, 1},
         s => Exact(x, op, y), NEW inside, 0 \in inside <=> value = 1
  PROVE  Agrees(Condition!Operand(w, Condition!OfBits(inside, w), s), value)
<1>1. w \in {1, Width} /\ value \in Int
  BY DEF Wider, Agrees
<1>2. ASSUME s
      PROVE  w = 1 /\ Condition!Wrap(Condition!OfBits(inside, w), w) = -value
  <2>1. x.width = 1 /\ y.width = 1
    BY <1>2 DEF Exact, Condition!Typed, Condition!IsTruth
  <2>2. w = 1
    BY <2>1 DEF Wider
  <2>3. Condition!OfBits(inside, w) = IF 0 \in inside THEN 1 ELSE 0
    BY <2>2, OfBitsIs
  <2>4. Condition!OfBits(inside, w) = value
    BY <2>3
  <2> QED
    BY <2>2, <2>4, WrapsOfBit
<1> QED
  BY <1>1, <1>2, OperandAgrees

LEMMA QuotientIs ==
  ASSUME NEW l \in Int, NEW r \in Int, r # 0
  PROVE  Condition!Quotient(l, r) \in Int /\ Condition!Remainder(l, r) \in Int
<1> DEFINE a == Condition!Abs(l)
           b == Condition!Abs(r)
<1>1. a \in Int /\ b \in Int /\ b > 0
  BY DEF Condition!Abs
<1> HIDE DEF a, b
<1>2. a \div b \in Int
  BY <1>1
<1>3. Condition!Quotient(l, r) \in Int
  <2>1. Condition!Quotient(l, r) = (IF l * r < 0 THEN -1 ELSE 1) * (a \div b)
    BY DEF Condition!Quotient, a, b
  <2> DEFINE q == a \div b
             sign == IF l * r < 0 THEN -1 ELSE 1
  <2>2. q \in Int /\ sign \in Int
    BY <1>2
  <2> HIDE DEF q, sign
  <2>3. sign * q \in Int
    BY <2>2
  <2> QED
    BY <2>1, <2>3 DEF q, sign
<1> DEFINE n == Condition!Quotient(l, r)
<1>4. Condition!Remainder(l, r) = l - r * n
  BY DEF Condition!Remainder
<1> HIDE DEF n
<1>5. n \in Int => l - r * n \in Int
  OBVIOUS
<1> QED
  BY <1>3, <1>4, <1>5 DEF n

\* An operator keeps the values together.
LEMMA OperatorAgrees ==
  ASSUME NEW x, NEW y, NEW v, NEW u, Agrees(x, v), Agrees(y, u), NEW op \in Condition!Operators
  PROVE  /\ Condition!FoldOp(v, op, u).known = TRUE
         /\ Agrees(Condition!EmitOp(x, op, y), Condition!FoldOp(v, op, u).value)
<1> DEFINE emitted == Condition!EmitOp(x, op, y)
           folded == Condition!FoldOp(v, op, u)
           w == Wider(x, y)
           s == Exact(x, op, y)
<1>1. v \in Int /\ u \in Int /\ w \in {1, Width} /\ Width # 1
  BY LiteralsAssumption DEF Agrees, Wider
<1>2. /\ op = "+" => folded = [known |-> TRUE, value |-> v + u]
      /\ op = "-" => folded = [known |-> TRUE, value |-> v - u]
      /\ op = "*" => folded = [known |-> TRUE, value |-> v * u]
      /\ op = "/" => folded = [known |-> TRUE, value |-> IF u = 0 THEN 0 ELSE Condition!Quotient(v, u)]
      /\ op = "%" => folded = [known |-> TRUE, value |-> IF u = 0 THEN 0 ELSE Condition!Remainder(v, u)]
      /\ op = "==" => folded = [known |-> TRUE, value |-> IF v = u THEN 1 ELSE 0]
      /\ op = "!=" => folded = [known |-> TRUE, value |-> IF v # u THEN 1 ELSE 0]
      /\ op = "<" => folded = [known |-> TRUE, value |-> IF v < u THEN 1 ELSE 0]
      /\ op = ">" => folded = [known |-> TRUE, value |-> IF v > u THEN 1 ELSE 0]
      /\ op = "<=" => folded = [known |-> TRUE, value |-> IF v <= u THEN 1 ELSE 0]
      /\ op = ">=" => folded = [known |-> TRUE, value |-> IF v >= u THEN 1 ELSE 0]
      /\ op = "&&" => folded = [known |-> TRUE, value |-> IF v # 0 /\ u # 0 THEN 1 ELSE 0]
      /\ op = "||" => folded = [known |-> TRUE, value |-> IF v # 0 \/ u # 0 THEN 1 ELSE 0]
  BY DEF Condition!FoldOp, Condition!Known, Condition!Truth
<1>3. op \in {"||", "&&", "==", "!=", "<", ">", "<=", ">=", "+", "-", "*", "/", "%"}
  BY OperatorsListed, Zenon
<1> HIDE DEF folded
<1>4. folded.known = TRUE /\ folded.value \in Int
  <2>1. u # 0 => Condition!Quotient(v, u) \in Int /\ Condition!Remainder(v, u) \in Int
    BY <1>1, QuotientIs
  <2>2. v * u \in Int
    BY <1>1
  <2> QED
    BY <1>1, <1>2, <1>3, <2>1, <2>2
<1>5. CASE Broken(x, op, y)
  <2>1. x # Condition!Nothing /\ y # Condition!Nothing
    <3>1. Condition!Nothing.width = 0 /\ 0 \notin {1, Width}
      BY LiteralsAssumption DEF Condition!Nothing
    <3> QED
      BY <3>1 DEF Agrees
  <2>2. emitted = [Condition!Operand(w, 0, FALSE) EXCEPT !.poison = TRUE]
    BY <1>5, <2>1, Zenon DEF Condition!EmitOp, Wider, Broken
  <2>3. emitted.width = w /\ emitted.sound = FALSE
    BY <2>2 DEF Condition!Operand
  <2> HIDE DEF w, emitted
  <2>4. Agrees(emitted, folded.value)
    BY <1>1, <1>4, <2>3 DEF Agrees
  <2> QED
    BY <1>4, <2>4, Zenon DEF folded, emitted
<1>6. CASE ~Broken(x, op, y)
  <2>1. /\ op = "+" => emitted = ExactNumber(x, op, y, x.value + y.value)
        /\ op = "-" => emitted = ExactNumber(x, op, y, x.value - y.value)
        /\ op = "*" => emitted = ExactNumber(x, op, y, x.value * y.value)
        /\ op = "/" => emitted = ExactNumber(x, op, y, Condition!Quotient(x.value, y.value))
        /\ op = "%" => emitted = ExactNumber(x, op, y, Condition!Remainder(x.value, y.value))
        /\ op = "==" => emitted = ExactTruth(x, op, y, x.value = y.value)
        /\ op = "!=" => emitted = ExactTruth(x, op, y, x.value /= y.value)
        /\ op = "<" => emitted = ExactTruth(x, op, y, x.value < y.value)
        /\ op = ">" => emitted = ExactTruth(x, op, y, x.value > y.value)
        /\ op = "<=" => emitted = ExactTruth(x, op, y, x.value <= y.value)
        /\ op = ">=" => emitted = ExactTruth(x, op, y, x.value >= y.value)
        /\ op = "&&" => emitted = ExactLogic(x, op, y, Condition!OneBits(x.value, w) \cap Condition!OneBits(y.value, w))
        /\ op = "||" => emitted = ExactLogic(x, op, y, Condition!OneBits(x.value, w) \cup Condition!OneBits(y.value, w))
    <3>1. Gives(x, op, y, emitted)
      BY <1>6, EmitOpIs
    <3> HIDE DEF emitted, s
    <3> QED
      BY <3>1, Zenon DEF Gives
  <2>2. s /\ op \in {"+", "-", "*", "/", "%", "<", ">", "<=", ">="} =>
          x.value = v /\ y.value = u /\ w # 1
    <3>1. op \in {"+", "-", "*", "/", "%", "<", ">", "<=", ">="} /\ Condition!Typed(op, x, y) =>
            ~Condition!IsTruth(x) /\ ~Condition!IsTruth(y)
      BY DEF Condition!Typed
    <3> QED
      BY <1>1, <3>1 DEF Exact, Agrees, Wider, Condition!IsTruth
  <2>3. s /\ op \in {"==", "!="} => (x.value = y.value <=> v = u)
    <3>1. op \in {"==", "!="} /\ Condition!Typed(op, x, y) => x.width = y.width
      BY DEF Condition!Typed
    <3> QED
      BY <1>1, <3>1 DEF Exact, Agrees
  <2>4. s /\ op \in {"&&", "||"} =>
          /\ v \in {0, 1} /\ u \in {0, 1} /\ w = 1
          /\ x.value = -v /\ y.value = -u
    <3>1. op \in {"&&", "||"} /\ Condition!Typed(op, x, y) => Condition!IsTruth(x) /\ Condition!IsTruth(y)
      BY DEF Condition!Typed
    <3> QED
      BY <1>1, <3>1 DEF Exact, Agrees, Wider, Condition!IsTruth
  <2>5. s => (op \in {"/", "%"} => u # 0)
    BY <1>6, <2>2 DEF Broken
  <2>6. ASSUME op \in {"+", "-", "*", "/", "%"}
        PROVE  \E n : emitted = ExactNumber(x, op, y, n) /\ (s => n = folded.value)
    <3> HIDE DEF s, w, emitted
    <3>1. CASE op = "+"
      BY <1>2, <2>1, <2>2, <3>1
    <3>2. CASE op = "-"
      BY <1>2, <2>1, <2>2, <3>2
    <3>3. CASE op = "*"
      BY <1>2, <2>1, <2>2, <3>3
    <3>4. CASE op = "/"
      BY <1>2, <2>1, <2>2, <2>5, <3>4
    <3>5. CASE op = "%"
      BY <1>2, <2>1, <2>2, <2>5, <3>5
    <3> QED
      BY <2>6, <3>1, <3>2, <3>3, <3>4, <3>5
  <2>7. ASSUME op \in {"+", "-", "*", "/", "%"}
        PROVE  Agrees(emitted, folded.value)
    <3>1. PICK n : emitted = ExactNumber(x, op, y, n) /\ (s => n = folded.value)
      BY <2>6, <2>7, Zenon
    <3>2. s => w # 1 /\ n = folded.value
      BY <2>2, <2>7, <3>1
    <3> HIDE DEF w, s, emitted
    <3>3. Agrees(Condition!Operand(w, n, s /\ n = Condition!Wrap(n, w)), folded.value)
      BY <1>1, <1>4, <3>2, NumberAgrees
    <3> QED
      BY <3>1, <3>3, Zenon DEF ExactNumber, w, s
  <2>8. ASSUME NEW b, emitted = ExactTruth(x, op, y, b), folded.value \in {0, 1}, s => (b <=> folded.value = 1)
        PROVE  Agrees(emitted, folded.value)
    BY <2>8, BitAgrees, Zenon DEF ExactTruth
  <2>9. ASSUME op \in {"==", "!=", "<", ">", "<=", ">="}
        PROVE  Agrees(emitted, folded.value)
    <3> HIDE DEF s, w, emitted
    <3>0. folded.value \in {0, 1}
      BY <1>2, <2>9
    <3>1. CASE op = "=="
      <4>1. s => ((x.value = y.value) <=> folded.value = 1)
        BY <1>2, <2>3, <3>1
      <4> QED
        BY <2>1, <2>8, <3>0, <3>1, <4>1, Zenon
    <3>2. CASE op = "!="
      <4>1. s => ((x.value /= y.value) <=> folded.value = 1)
        BY <1>2, <2>3, <3>2
      <4> QED
        BY <2>1, <2>8, <3>0, <3>2, <4>1, Zenon
    <3>3. CASE op = "<"
      <4>1. s => ((x.value < y.value) <=> folded.value = 1)
        BY <1>2, <2>2, <3>3
      <4> QED
        BY <2>1, <2>8, <3>0, <3>3, <4>1, Zenon
    <3>4. CASE op = ">"
      <4>1. s => ((x.value > y.value) <=> folded.value = 1)
        BY <1>2, <2>2, <3>4
      <4> QED
        BY <2>1, <2>8, <3>0, <3>4, <4>1, Zenon
    <3>5. CASE op = "<="
      <4>1. s => ((x.value <= y.value) <=> folded.value = 1)
        BY <1>2, <2>2, <3>5
      <4> QED
        BY <2>1, <2>8, <3>0, <3>5, <4>1, Zenon
    <3>6. CASE op = ">="
      <4>1. s => ((x.value >= y.value) <=> folded.value = 1)
        BY <1>2, <2>2, <3>6
      <4> QED
        BY <2>1, <2>8, <3>0, <3>6, <4>1, Zenon
    <3> QED
      BY <2>9, <3>1, <3>2, <3>3, <3>4, <3>5, <3>6
  <2>10. ASSUME op \in {"&&", "||"}
         PROVE  \E inside : /\ emitted = ExactLogic(x, op, y, inside)
                            /\ s => (0 \in inside <=> folded.value = 1)
    <3> DEFINE l == Condition!OneBits(x.value, w)
               r == Condition!OneBits(y.value, w)
    <3>1. s => (0 \in l <=> v # 0) /\ (0 \in r <=> u # 0)
      BY <2>4, <2>10, OneBitsAre
    <3> HIDE DEF l, r, s, w, emitted
    <3>2. CASE op = "&&"
      BY <1>1, <1>2, <2>1, <3>1, <3>2 DEF l, r
    <3>3. CASE op = "||"
      BY <1>1, <1>2, <2>1, <3>1, <3>3 DEF l, r
    <3> QED
      BY <2>10, <3>2, <3>3
  <2>11. ASSUME op \in {"&&", "||"}
         PROVE  Agrees(emitted, folded.value)
    <3>0. PICK inside : /\ emitted = ExactLogic(x, op, y, inside)
                        /\ s => (0 \in inside <=> folded.value = 1)
      BY <2>10, <2>11, Zenon
    <3>1. emitted = Condition!Operand(w, Condition!OfBits(inside, w), s) /\ (s => (0 \in inside <=> folded.value = 1))
      BY <3>0, Zenon DEF ExactLogic
    <3>2. folded.value \in {0, 1}
      BY <1>2, <2>11
    <3>3. CASE s
      <4> HIDE DEF w, emitted
      <4>1. Agrees(Condition!Operand(w, Condition!OfBits(inside, w), TRUE), folded.value)
        BY <1>1, <2>11, <3>1, <3>2, <3>3, LogicAgrees DEF w
      <4> QED
        BY <3>1, <3>3, <4>1
    <3>4. CASE ~s
      <4>1. Agrees(Condition!Operand(w, Condition!OfBits(inside, w), s), folded.value)
        BY <1>1, <1>4, <3>4, OperandAgrees
      <4> QED
        BY <3>1, <4>1, Zenon
    <3> QED
      BY <3>3, <3>4
  <2> HIDE DEF emitted
  <2>12. Agrees(emitted, folded.value)
    BY <1>3, <2>7, <2>9, <2>11
  <2> QED
    BY <1>4, <2>12, Zenon DEF folded, emitted
<1> QED
  BY <1>5, <1>6

LEMMA PrefixAgrees ==
  ASSUME NEW x, NEW v, Agrees(x, v), NEW op \in Condition!Prefixes, NEW f, f.known = TRUE, f.value = v
  PROVE  /\ Condition!FoldPrefix(op, f).known = TRUE
         /\ Agrees(Condition!EmitPrefix(op, x), Condition!FoldPrefix(op, f).value)
<1> DEFINE truth == IF v = 0 THEN 1 ELSE 0
<1>1. /\ op = "!" => Condition!FoldPrefix(op, f) = [known |-> TRUE, value |-> truth]
      /\ op = "-" => Condition!FoldPrefix(op, f) = [known |-> TRUE, value |-> -v]
  BY DEF Condition!FoldPrefix, Condition!Truth, Condition!Known
<1>2. op \in {"!", "-"} /\ v \in Int /\ -v \in Int /\ truth \in {0, 1} /\ truth \in Int
  BY DEF Condition!Prefixes, Agrees
<1>3. x.width \in {1, Width} /\ (x.sound => (x.value # 0 <=> truth = 0))
  BY <1>2 DEF Agrees
<1>4. x.sound /\ ~Condition!IsTruth(x) => x.width # 1 /\ x.value = v
  BY DEF Agrees, Condition!IsTruth
<1> HIDE DEF truth
<1>5. CASE x.poison
  <2>1. Condition!EmitPrefix(op, x) = x
    BY <1>5, Zenon DEF Condition!EmitPrefix
  <2>2. \A n \in Int : Agrees(x, n)
    BY <1>5 DEF Agrees
  <2> QED
    BY <1>1, <1>2, <2>1, <2>2
<1>6. CASE ~x.poison /\ op = "!"
  <2>1. Condition!EmitPrefix(op, x) = Condition!Bit(~Condition!Nonzero(x), x.sound)
    <3>1. op # "-"
      BY <1>6
    <3> QED
      BY <1>6, <3>1, Zenon DEF Condition!EmitPrefix
  <2>2. x.sound => (~Condition!Nonzero(x) <=> truth = 1)
    BY <1>2, <1>3 DEF Condition!Nonzero
  <2>3. Agrees(Condition!Bit(~Condition!Nonzero(x), x.sound), truth)
    BY <1>2, <2>2, BitAgrees, Zenon
  <2> QED
    BY <1>1, <1>6, <2>1, <2>3
<1>7. CASE ~x.poison /\ op = "-"
  <2> DEFINE n == -x.value
             w == x.width
             s == x.sound /\ ~Condition!IsTruth(x)
  <2>1. Condition!EmitPrefix(op, x) =
          Condition!Operand(w, n, x.sound /\ ~Condition!IsTruth(x) /\ n = Condition!Wrap(n, w))
    BY <1>7, Zenon DEF Condition!EmitPrefix
  <2>2. s => w # 1 /\ n = -v
    BY <1>4
  <2>3. (x.sound /\ ~Condition!IsTruth(x) /\ n = Condition!Wrap(n, w)) =>
          (w = 1 => -v \in {0, 1} /\ Condition!Wrap(n, w) = -(-v)) /\ (w # 1 => Condition!Wrap(n, w) = -v)
    <3> HIDE DEF n, w
    <3> QED
      BY <2>2
  <2>4. w \in {1, Width}
    BY <1>3
  <2> HIDE DEF n, w, s
  <2>5. Agrees(Condition!Operand(w, n, x.sound /\ ~Condition!IsTruth(x) /\ n = Condition!Wrap(n, w)), -v)
    BY <1>2, <2>3, <2>4, OperandAgrees, Zenon
  <2> QED
    BY <1>1, <1>7, <2>1, <2>5
<1> QED
  BY <1>2, <1>5, <1>6, <1>7

\* What the checker folds consists of operands and operators.
LEMMA KnownToken ==
  ASSUME NEW t, Condition!FoldToken(t).known
  PROVE  t \in Condition!Operands
BY DEF Condition!FoldToken, Condition!Unknown, Condition!Operands

LEMMA KnownOperator ==
  ASSUME NEW l, NEW op, NEW r, Condition!FoldOp(l, op, r).known
  PROVE  op \in Condition!Operators
BY OperatorsListed DEF Condition!FoldOp, Condition!Unknown

LEMMA KnownPair ==
  ASSUME NEW x, NEW op, NEW y, Condition!FoldPair(x, op, y).known
  PROVE  /\ x.known /\ y.known /\ op \in Condition!Operators
         /\ Condition!FoldPair(x, op, y) = Condition!FoldOp(x.value, op, y.value)
<1>1. x.known /\ y.known
  BY DEF Condition!FoldPair, Condition!Unknown
<1>2. Condition!FoldPair(x, op, y) = Condition!FoldOp(x.value, op, y.value)
  BY <1>1, Zenon DEF Condition!FoldPair
<1> QED
  BY <1>1, <1>2, KnownOperator

-----------------------------------------------------------------------------
\* The fold from the left.
FoldStep(c, f, i) ==
  IF i = 0 THEN Condition!FoldToken(c[1])
  ELSE IF c[2*i] = "%" THEN Condition!Unknown
  ELSE Condition!FoldPair(f[i-1], c[2*i], Condition!FoldToken(c[2*i + 1]))
Half(c) == (Len(c) - 1) \div 2
IsChain(f, c) == f = [i \in 0 .. Half(c) |-> FoldStep(c, f, i)]
ChainOf(c) == CHOOSE f : IsChain(f, c)

LEMMA FoldChainIs == \A c : Condition!FoldChain(c) = ChainOf(c)[Half(c)]
BY Zenon DEF Condition!FoldChain, ChainOf, IsChain, FoldStep, Half

LEMMA FoldStepIs ==
  ASSUME NEW c, NEW n \in Nat, n = Half(c)
  PROVE  \A i \in 0 .. n : ChainOf(c)[i] = FoldStep(c, ChainOf(c), i)
<1> DEFINE Good(m) == \E f : f = [i \in 0 .. n |-> f[i]] /\ \A i \in 0 .. n : i < m => f[i] = FoldStep(c, f, i)
           Bad == {m \in Nat : ~Good(m)}
<1>1. Good(0)
  <2> DEFINE f == [i \in 0 .. n |-> 0]
  <2>1. f = [i \in 0 .. n |-> f[i]]
    OBVIOUS
  <2>2. \A i \in 0 .. n : ~(i < 0)
    OBVIOUS
  <2> QED
    BY <2>1, <2>2, Zenon
<1>2. ASSUME NEW m \in Nat, Good(m)
      PROVE  Good(m + 1)
  <2>1. PICK f : f = [i \in 0 .. n |-> f[i]] /\ \A i \in 0 .. n : i < m => f[i] = FoldStep(c, f, i)
    BY <1>2, Zenon
  <2> DEFINE g == [i \in 0 .. n |-> IF i < m THEN f[i] ELSE FoldStep(c, f, i)]
  <2>2. g = [i \in 0 .. n |-> g[i]]
    OBVIOUS
  <2>3. \A i \in 0 .. n : i < m => g[i] = f[i]
    BY Zenon
  <2>4. \A i \in 0 .. n : g[i] = FoldStep(c, f, i) \/ ~(i < m + 1)
    BY <2>1
  <2> HIDE DEF g
  <2>5. ASSUME NEW i \in 0 .. n, i < m + 1
        PROVE  g[i] = FoldStep(c, g, i)
    <3>1. CASE i = 0
      BY <2>4, <2>5, <3>1, Zenon DEF FoldStep
    <3>2. CASE i # 0
      <4>1. i - 1 \in 0 .. n /\ i - 1 < m
        BY <2>5, <3>2
      <4>2. g[i - 1] = f[i - 1]
        BY <2>3, <4>1, Zenon
      <4>3. FoldStep(c, g, i) = FoldStep(c, f, i)
        BY <3>2, <4>2, Zenon DEF FoldStep
      <4> QED
        BY <2>4, <2>5, <4>3, Zenon
    <3> QED
      BY <3>1, <3>2
  <2> QED
    BY <2>2, <2>5, Zenon
<1> HIDE DEF Good
<1>4. Bad = {}
  <2> SUFFICES ASSUME Bad # {} PROVE FALSE
    OBVIOUS
  <2>1. PICK m \in Bad : \A j \in Bad : m <= j
    BY LeastNatural
  <2>2. m # 0 /\ m - 1 \in Nat /\ m - 1 \notin Bad
    BY <1>1, <2>1
  <2>3. Good(m - 1) /\ (m - 1) + 1 = m
    BY <2>2
  <2>4. Good((m - 1) + 1)
    BY <1>2, <2>2, <2>3
  <2> QED
    BY <2>3, <2>4
<1>5. Good(n + 1)
  BY <1>4
<1>6. PICK f : f = [i \in 0 .. n |-> f[i]] /\ \A i \in 0 .. n : i < n + 1 => f[i] = FoldStep(c, f, i)
  BY <1>5, Zenon DEF Good
<1>7. \A i \in 0 .. n : i < n + 1
  OBVIOUS
<1>8. f = [i \in 0 .. n |-> FoldStep(c, f, i)]
  BY <1>6, <1>7
<1>9. IsChain(ChainOf(c), c)
  BY <1>8, Zenon DEF ChainOf, IsChain
<1>10. ChainOf(c) = [i \in 0 .. n |-> FoldStep(c, ChainOf(c), i)]
  BY <1>9, Zenon DEF IsChain
<1> QED
  BY <1>10

-----------------------------------------------------------------------------
\* The beginning of a condition, up to an operand.
Chained(c, m) ==
  /\ 2*m + 1 <= Len(c)
  /\ \A k \in 0 .. m : c[2*k + 1] \in Condition!Operands
  /\ \A k \in 1 .. m : c[2*k] \in Condition!Operators
Part(c, m) == SubSeq(c, 1, 2*m + 1)

LEMMA PartIs ==
  ASSUME NEW c \in Seq(CondTokens), NEW m \in Nat, 2*m + 1 <= Len(c)
  PROVE  /\ Part(c, m) \in Seq(CondTokens) /\ Part(c, m) \in Condition!Segments(c)
         /\ Len(Part(c, m)) = 2*m + 1 /\ \A k \in 1 .. 2*m + 1 : Part(c, m)[k] = c[k]
<1> DEFINE n == 2*m + 1
<1>1. n \in Nat /\ 1 <= n /\ 1 \in Nat \ {0} /\ n <= Len(c) /\ n - 1 + 1 = n /\ \A k \in 1 .. n : 1 + k - 1 = k
  OBVIOUS
<1> HIDE DEF n
<1>2. /\ SubSeq(c, 1, n) \in Seq(CondTokens) /\ Len(SubSeq(c, 1, n)) = n - 1 + 1
      /\ \A k \in 1 .. n - 1 + 1 : SubSeq(c, 1, n)[k] = c[1 + k - 1]
  BY <1>1, SubSeqIs
<1>3. SubSeq(c, 1, n) \in Condition!Segments(c)
  <2>1. c \in Condition!Segments(c)
    BY SegmentsAre
  <2> QED
    BY <1>1, <2>1, SegmentsOf
<1> DEFINE d == SubSeq(c, 1, n)
<1>4. d \in Seq(CondTokens) /\ Len(d) = n /\ \A k \in 1 .. n : d[k] = c[k]
  BY <1>1, <1>2
<1> QED
  BY <1>3, <1>4 DEF Part, n

\* The emitter splits it at the last operator.
LEMMA PartSplits ==
  ASSUME NEW c \in Seq(CondTokens), NEW m \in Nat \ {0}, Chained(c, m), Condition!Falling(c)
  PROVE  Condition!SplitAt(Part(c, m)) = 2*m
<1> DEFINE d == Part(c, m)
           n == 2*m + 1
           i == Condition!SplitAt(d)
<1>1. Len(d) = n /\ n \in Nat /\ \A k \in 1 .. n : d[k] = c[k]
  BY PartIs DEF Chained
<1>2. 2*m \in 2 .. n /\ 2*m \in 1 .. n /\ m \in 1 .. m /\ n <= Len(c) /\ Len(c) \in Nat
  BY DEF Chained
<1> DEFINE q == 2*m
<1>3. d[q] = c[q] /\ d[q] \in Condition!Operators
  BY <1>1, <1>2 DEF Chained
<1> HIDE DEF d
<1>4. /\ i \in 2 .. n /\ d[i] \in Condition!Operators
      /\ Condition!LevelOf(d[i]) <= Condition!LevelOf(d[q])
      /\ Condition!LevelOf(d[i]) = Condition!LevelOf(d[q]) => q <= i
  BY <1>1, <1>2, <1>3, SplitIs
<1> HIDE DEF i
<1>5. d[i] = c[i]
  BY <1>1, <1>4
<1>6. i # n
  <2>1. c[n] \in Condition!Operands
    BY DEF Chained
  <2> QED
    BY <1>4, <1>5, <2>1, TokensApart
<1>7. ~(i < q)
  <2> SUFFICES ASSUME i < q PROVE FALSE
    OBVIOUS
  <2>1. i \in 2 .. Len(c) /\ q \in 2 .. Len(c)
    BY <1>2, <1>4
  <2>2. Condition!LevelOf(c[q]) <= Condition!LevelOf(c[i])
    BY <1>3, <1>4, <1>5, <2>1 DEF Condition!Falling
  <2>3. Condition!LevelOf(d[i]) \in 1 .. 6 /\ Condition!LevelOf(d[q]) \in 1 .. 6
    BY <1>3, <1>4, LevelIs
  <2>4. Condition!LevelOf(d[i]) = Condition!LevelOf(d[q])
    BY <1>3, <1>4, <1>5, <2>2, <2>3
  <2> QED
    BY <1>2, <1>4, <2>4
<1>8. i = q
  BY <1>2, <1>4, <1>6, <1>7
<1> QED
  BY <1>8 DEF i, d

LEMMA OneSymbol ==
  ASSUME NEW S, NEW s \in Seq(S), NEW i \in 1 .. Len(s)
  PROVE  Len(SubSeq(s, i, i)) = 1 /\ SubSeq(s, i, i)[1] = s[i]
<1>1. /\ i \in Nat \ {0} /\ i \in Nat /\ i <= Len(s) /\ i <= i /\ i - i + 1 = 1
      /\ 1 \in 1 .. 1 /\ i + 1 - 1 = i
  OBVIOUS
<1>2. Len(SubSeq(s, i, i)) = i - i + 1 /\ \A k \in 1 .. i - i + 1 : SubSeq(s, i, i)[k] = s[i + k - 1]
  BY <1>1, SubSeqIs
<1> QED
  BY <1>1, <1>2

LEMMA OperandValue ==
  ASSUME NEW c \in Seq(CondTokens), NEW d \in Condition!Segments(c), Len(d) = 1
  PROVE  Values(c)[d] = Condition!EmitToken(d[1])
<1>1. Values(c)[d] = Emitted(Values(c), d)
  BY ValuesAre
<1>2. d # << >>
  BY EmptySeq
<1> QED
  BY <1>1, <1>2, Zenon DEF Emitted

\* The value of the beginning is that of the one before, with one operator more.
LEMMA PartValue ==
  ASSUME NEW c \in Seq(CondTokens), NEW m \in Nat, Chained(c, m + 1), Condition!Falling(c)
  PROVE  Values(c)[Part(c, m + 1)] =
           Condition!EmitOp(Values(c)[Part(c, m)], c[2*(m + 1)], Condition!EmitToken(c[2*(m + 1) + 1]))
<1> DEFINE d == Part(c, m + 1)
           q == 2*(m + 1)
           V == Values(c)
           e == SubSeq(d, q + 1, Len(d))
<1>1. /\ d \in Seq(CondTokens) /\ d \in Condition!Segments(c) /\ Len(d) = q + 1
      /\ \A k \in 1 .. q + 1 : d[k] = c[k]
  BY PartIs DEF Chained
<1>2. q \in Nat /\ q >= 2 /\ q + 1 <= Len(c) /\ Len(c) \in Nat /\ q - 1 = 2*m + 1
  BY DEF Chained
<1>3. Condition!SplitAt(d) = q
  BY PartSplits
<1>4. d[1] \notin Condition!Prefixes
  <2>1. 2*0 + 1 = 1 /\ 0 \in 0 .. m + 1 /\ 1 \in 1 .. q + 1
    BY <1>2
  <2>2. c[1] \in Condition!Operands
    BY <2>1 DEF Chained
  <2>3. d[1] = c[1]
    BY <1>1, <2>1
  <2> QED
    BY <2>2, <2>3, TokensApart
<1>5. c[q] = d[q] /\ c[q + 1] = d[q + 1]
  BY <1>1, <1>2
<1>6. d # << >> /\ Len(d) # 1
  BY <1>1, <1>2
<1>7. SubSeq(d, 1, q - 1) = Part(c, m)
  <2> DEFINE r == q - 1
             t == q + 1
  <2>1. r \in Nat /\ 1 <= r /\ t \in Nat /\ r <= t - 1 + 1 /\ t <= Len(c) /\ 1 <= t
        /\ 1 + 1 - 1 = 1 /\ 1 + r - 1 = r /\ r = 2*m + 1
    BY <1>2
  <2>2. d = SubSeq(c, 1, t)
    BY DEF Part
  <2> HIDE DEF r, t, d
  <2>3. SubSeq(SubSeq(c, 1, t), 1, r) = SubSeq(c, 1 + 1 - 1, 1 + r - 1)
    BY <2>1, SubSeqTwice
  <2>4. SubSeq(d, 1, r) = SubSeq(c, 1, r)
    BY <2>1, <2>2, <2>3
  <2>5. SubSeq(d, 1, r) = Part(c, m)
    BY <2>1, <2>4 DEF Part
  <2> QED
    BY <2>5 DEF r
<1> HIDE DEF d
<1>8. e \in Condition!Segments(c) /\ Len(e) = 1 /\ e[1] = d[q + 1]
  <2> DEFINE t == q + 1
  <2>1. t \in Nat \ {0} /\ t \in Nat /\ Len(d) = t /\ t <= Len(d) /\ t <= t /\ t \in Int /\ t - t + 1 = 1 /\ 1 \in 1 .. t - t + 1 /\ t + 1 - 1 = t
    BY <1>1, <1>2
  <2> HIDE DEF t
  <2>2. SubSeq(d, t, t) \in Condition!Segments(c)
    BY <1>1, <2>1, SegmentsOf, Zenon
  <2>4. Len(SubSeq(d, t, t)) = 1 /\ SubSeq(d, t, t)[1] = d[t]
    <3>1. t \in 1 .. Len(d)
      BY <2>1
    <3> QED
      BY <1>1, <3>1, OneSymbol, Zenon
  <2>5. e = SubSeq(d, t, t)
    BY <2>1 DEF t
  <2> QED
    BY <2>2, <2>4, <2>5 DEF t
<1>9. V[e] = Condition!EmitToken(c[q + 1])
  <2> HIDE DEF e
  <2> QED
    BY <1>5, <1>8, OperandValue
<1>10. V[d] = Emitted(V, d)
  BY <1>1, ValuesAre
<1>11. Emitted(V, d) = Condition!EmitOp(V[SubSeq(d, 1, q - 1)], d[q], V[SubSeq(d, q + 1, Len(d))])
  <2> HIDE DEF V, q
  <2> QED
    BY <1>3, <1>4, <1>6, Zenon DEF Emitted
<1> HIDE DEF V, q
<1>12. V[d] = Condition!EmitOp(V[Part(c, m)], c[q], Condition!EmitToken(c[q + 1]))
  BY <1>5, <1>7, <1>9, <1>10, <1>11, Zenon
<1> QED
  BY <1>12, Zenon DEF V, q, d

LEMMA TokensOf ==
  ASSUME NEW c, Condition!Proper(c)
  PROVE  c \in Seq(CondTokens) /\ Len(c) \in Nat /\ Len(c) >= 1 /\ c # << >>
<1>1. c \in Seq(CondTokens) /\ c # << >>
  BY DEF Condition!Proper, CondTokens
<1>2. Len(c) \in Nat \ {0}
  BY <1>1, EmptySeq
<1> QED
  BY <1>1, <1>2

LEMMA ChainAgrees ==
  ASSUME NEW c \in Seq(CondTokens), Condition!Falling(c), NEW n \in Nat, n = Half(c), 2*n + 1 <= Len(c)
  PROVE  \A m \in 0 .. n : ChainOf(c)[m].known =>
           Chained(c, m) /\ Agrees(Values(c)[Part(c, m)], ChainOf(c)[m].value)
<1> DEFINE F == ChainOf(c)
           V == Values(c)
           Good(m) == F[m].known => Chained(c, m) /\ Agrees(V[Part(c, m)], F[m].value)
           Bad == {m \in 0 .. n : ~Good(m)}
<1>1. \A m \in 0 .. n : F[m] = FoldStep(c, F, m)
  BY FoldStepIs
<1> HIDE DEF F
<1>2. Good(0)
  <2> SUFFICES ASSUME F[0].known PROVE Chained(c, 0) /\ Agrees(V[Part(c, 0)], F[0].value)
    OBVIOUS
  <2>1. F[0] = Condition!FoldToken(c[1])
    BY <1>1 DEF FoldStep
  <2>2. c[1] \in Condition!Operands
    BY <2>1, KnownToken
  <2>3. Chained(c, 0)
    <3>1. 2*0 + 1 = 1 /\ 0 .. 0 = {0} /\ 1 .. 0 = {} /\ 1 <= Len(c)
      OBVIOUS
    <3> QED
      BY <2>2, <3>1 DEF Chained
  <2>4. Part(c, 0) \in Condition!Segments(c) /\ Len(Part(c, 0)) = 1 /\ Part(c, 0)[1] = c[1]
    <3>1. 2*0 + 1 <= Len(c) /\ 0 \in Nat /\ 2*0 + 1 = 1 /\ 1 \in 1 .. 2*0 + 1
      OBVIOUS
    <3>2. /\ Part(c, 0) \in Condition!Segments(c) /\ Len(Part(c, 0)) = 2*0 + 1
          /\ \A k \in 1 .. 2*0 + 1 : Part(c, 0)[k] = c[k]
      BY <3>1, PartIs, Zenon
    <3> QED
      BY <3>1, <3>2, Zenon
  <2>5. V[Part(c, 0)] = Condition!EmitToken(c[1])
    BY <2>4, OperandValue
  <2> HIDE DEF V
  <2> QED
    BY <2>1, <2>2, <2>3, <2>5, TokenAgrees
<1>3. ASSUME NEW m \in Nat, m + 1 \in 0 .. n, Good(m)
      PROVE  Good(m + 1)
  <2> DEFINE q == 2*(m + 1)
             t == Condition!FoldToken(c[q + 1])
  <2> SUFFICES ASSUME F[m + 1].known
               PROVE  Chained(c, m + 1) /\ Agrees(V[Part(c, m + 1)], F[m + 1].value)
    OBVIOUS
  <2>1. F[m + 1] = FoldStep(c, F, m + 1)
    BY <1>1, <1>3
  <2>2. m + 1 # 0 /\ (m + 1) - 1 = m
    OBVIOUS
  <2>3. F[m + 1] = IF c[q] = "%" THEN Condition!Unknown ELSE Condition!FoldPair(F[m], c[q], t)
    BY <2>1, <2>2, Zenon DEF FoldStep
  <2>4. F[m + 1] = Condition!FoldPair(F[m], c[q], t)
    <3>1. ~Condition!Unknown.known
      BY DEF Condition!Unknown
    <3> QED
      BY <2>3, <3>1
  <2>5. /\ F[m].known /\ t.known /\ c[q] \in Condition!Operators
        /\ F[m + 1] = Condition!FoldOp(F[m].value, c[q], t.value)
    <3> HIDE DEF t, q
    <3> QED
      BY <2>4, KnownPair
  <2>6. c[q + 1] \in Condition!Operands
    BY <2>5, KnownToken
  <2>7. Chained(c, m) /\ Agrees(V[Part(c, m)], F[m].value)
    BY <1>3, <2>5
  <2>8. Chained(c, m + 1)
    <3>1. 2*(m + 1) + 1 <= Len(c)
      BY <1>3
    <3>2. \A k \in 0 .. m + 1 : k \in 0 .. m \/ k = m + 1
      OBVIOUS
    <3>3. \A k \in 1 .. m + 1 : k \in 1 .. m \/ k = m + 1
      OBVIOUS
    <3> QED
      BY <2>5, <2>6, <2>7, <3>1, <3>2, <3>3, Zenon DEF Chained
  <2>9. V[Part(c, m + 1)] = Condition!EmitOp(V[Part(c, m)], c[q], Condition!EmitToken(c[q + 1]))
    BY <2>8, PartValue
  <2>10. Agrees(Condition!EmitToken(c[q + 1]), t.value)
    BY <2>6, TokenAgrees
  <2> HIDE DEF V, q, t
  <2>11. Agrees(Condition!EmitOp(V[Part(c, m)], c[q], Condition!EmitToken(c[q + 1])),
                Condition!FoldOp(F[m].value, c[q], t.value).value)
    BY <2>5, <2>7, <2>10, OperatorAgrees
  <2> QED
    BY <2>5, <2>8, <2>9, <2>11, Zenon
<1> HIDE DEF Good
<1>4. Bad = {}
  <2> SUFFICES ASSUME Bad # {} PROVE FALSE
    OBVIOUS
  <2>1. PICK m \in Bad : \A j \in Bad : m <= j
    <3>1. Bad \subseteq Nat
      OBVIOUS
    <3> HIDE DEF Bad
    <3> QED
      BY <3>1, LeastNatural
  <2>2. m \in 0 .. n /\ m # 0 /\ m - 1 \in 0 .. n /\ m - 1 \notin Bad
    BY <1>2, <2>1
  <2>3. Good(m - 1) /\ (m - 1) + 1 = m /\ m - 1 \in Nat
    BY <2>2
  <2>4. Good((m - 1) + 1)
    BY <1>3, <2>2, <2>3
  <2> QED
    BY <2>1, <2>3, <2>4
<1>5. \A m \in 0 .. n : Good(m)
  BY <1>4
<1> QED
  BY <1>5 DEF Good, F

\* The emitted code computes what the checker folds.
LEMMA FoldAgrees ==
  ASSUME NEW c, Condition!Proper(c), Condition!Falling(c), Condition!Fold(c).known
  PROVE  Agrees(Condition!Emit(c), Condition!Fold(c).value)
<1> DEFINE V == Values(c)
<1>1. /\ c \in Seq(CondTokens) /\ Len(c) \in Nat /\ Len(c) >= 1 /\ c # << >>
      /\ Condition!Emit(c) = V[c] /\ c \in Condition!Segments(c) /\ SubSeq(c, 1, Len(c)) = c
  BY TokensOf, EmitIs, SegmentsAre, SubSeqFull
<1>2. CASE Len(c) = 3
  <2> DEFINE x == Condition!FoldToken(c[1])
             y == Condition!FoldToken(c[3])
  <2>1. Condition!Fold(c) = Condition!FoldPair(x, c[2], y)
    BY <1>2 DEF Condition!Fold
  <2>2. /\ x.known /\ y.known /\ c[2] \in Condition!Operators
        /\ Condition!Fold(c) = Condition!FoldOp(x.value, c[2], y.value)
    <3> HIDE DEF x, y
    <3> QED
      BY <2>1, KnownPair
  <2>3. c[1] \in Condition!Operands /\ c[3] \in Condition!Operands
    BY <2>2, KnownToken
  <2>4. /\ 2*(0 + 1) = 2 /\ 2*(0 + 1) + 1 = 3 /\ 2*0 + 1 = 1 /\ 0 .. 1 = {0, 1} /\ 1 .. 1 = {1}
        /\ 0 + 1 = 1 /\ 0 \in Nat /\ 2*1 = 2 /\ 2*1 + 1 = 3 /\ 3 <= 3 /\ 1 <= 3 /\ 1 \in 1 .. 1
    OBVIOUS
  <2>5. Chained(c, 0 + 1)
    BY <1>2, <2>2, <2>3, <2>4 DEF Chained
  <2>6. Part(c, 0 + 1) = c
    BY <1>1, <1>2, <2>4 DEF Part
  <2>7. V[c] = Condition!EmitOp(V[Part(c, 0)], c[2], Condition!EmitToken(c[3]))
    <3>1. V[Part(c, 0 + 1)] = Condition!EmitOp(V[Part(c, 0)], c[2*(0 + 1)], Condition!EmitToken(c[2*(0 + 1) + 1]))
      BY <1>1, <2>4, <2>5, PartValue, Zenon
    <3> HIDE DEF V
    <3> QED
      BY <2>4, <2>6, <3>1, Zenon
  <2>8. V[Part(c, 0)] = Condition!EmitToken(c[1])
    <3>1. /\ Part(c, 0) \in Condition!Segments(c) /\ Len(Part(c, 0)) = 2*0 + 1
          /\ \A k \in 1 .. 2*0 + 1 : Part(c, 0)[k] = c[k]
      <4>1. 2*0 + 1 <= Len(c)
        BY <1>2, <2>4
      <4> QED
        BY <1>1, <2>4, <4>1, PartIs, Zenon
    <3>2. Len(Part(c, 0)) = 1 /\ Part(c, 0)[1] = c[1]
      BY <2>4, <3>1
    <3> QED
      BY <1>1, <3>1, <3>2, OperandValue
  <2>9. Agrees(Condition!EmitToken(c[1]), x.value) /\ Agrees(Condition!EmitToken(c[3]), y.value)
    BY <2>3, TokenAgrees
  <2> HIDE DEF V, x, y
  <2>10. Agrees(Condition!EmitOp(Condition!EmitToken(c[1]), c[2], Condition!EmitToken(c[3])),
                Condition!FoldOp(x.value, c[2], y.value).value)
    BY <2>2, <2>9, OperatorAgrees
  <2> QED
    BY <1>1, <2>2, <2>7, <2>8, <2>10, Zenon
<1>3. CASE Len(c) = 2
  <2> DEFINE x == Condition!FoldToken(c[2])
  <2>1. Condition!Fold(c) = Condition!FoldPrefix(c[1], x)
    BY <1>3 DEF Condition!Fold
  <2>2. c[1] \in Condition!Prefixes /\ x.known
    <3> HIDE DEF x
    <3> QED
      BY <2>1 DEF Condition!FoldPrefix, Condition!Unknown, Condition!Prefixes
  <2>3. c[2] \in Condition!Operands
    BY <2>2, KnownToken
  <2>4. x.known = TRUE /\ Agrees(Condition!EmitToken(c[2]), x.value)
    BY <2>3, TokenAgrees
  <2>5. Tail(c) \in Condition!Segments(c) /\ Len(Tail(c)) = 1 /\ Tail(c)[1] = c[2]
    <3>1. Tail(c) \in Condition!Segments(c) /\ Len(Tail(c)) = Len(c) - 1
      BY <1>1, TailIs
    <3>2. \A i \in 1 .. Len(Tail(c)) : Tail(c)[i] = c[i + 1]
      BY <1>1, HeadTailProperties
    <3>3. 2 - 1 = 1 /\ 1 \in 1 .. 1 /\ 1 + 1 = 2
      OBVIOUS
    <3>4. Len(Tail(c)) = 1
      BY <1>3, <3>1, <3>3
    <3> QED
      BY <3>1, <3>2, <3>3, <3>4, Zenon
  <2>6. V[Tail(c)] = Condition!EmitToken(c[2])
    BY <1>1, <2>5, OperandValue
  <2>7. V[c] = Emitted(V, c)
    BY <1>1, ValuesAre
  <2>8. V[c] = Condition!EmitPrefix(c[1], V[Tail(c)])
    <3>1. Len(c) # 1
      BY <1>3
    <3> HIDE DEF V
    <3> QED
      BY <1>1, <2>2, <2>7, <3>1, Zenon DEF Emitted
  <2> HIDE DEF V, x
  <2>9. Agrees(Condition!EmitPrefix(c[1], Condition!EmitToken(c[2])), Condition!FoldPrefix(c[1], x).value)
    BY <2>2, <2>4, PrefixAgrees
  <2> QED
    BY <1>1, <2>1, <2>6, <2>8, <2>9, Zenon
<1>4. CASE Len(c) # 2 /\ Len(c) # 3
  <2> DEFINE n == Half(c)
             F == ChainOf(c)
  <2>1. Condition!Fold(c) = F[n]
    <3>1. Condition!Fold(c) = Condition!FoldChain(c)
      BY <1>4 DEF Condition!Fold
    <3> QED
      BY <3>1, FoldChainIs, Zenon
  <2>2. n \in Nat /\ (Len(c) = 2*n + 1 \/ Len(c) = 2*n + 2)
    <3> DEFINE l == Len(c)
    <3>1. l \in Nat /\ l >= 1
      BY <1>1
    <3> HIDE DEF l
    <3>2. n = (l - 1) \div 2
      BY DEF Half, l
    <3> HIDE DEF n
    <3>3. n \in Nat /\ (l = 2*n + 1 \/ l = 2*n + 2)
      BY <3>1, <3>2
    <3> QED
      BY <3>3 DEF l
  <2> HIDE DEF n
  <2>3. n \in 0 .. n /\ 2*n + 1 <= Len(c) /\ 2*n \in Nat
    BY <2>2
  <2>4. n = Half(c)
    BY DEF n
  <2>5. Chained(c, n) /\ Agrees(V[Part(c, n)], F[n].value)
    BY <1>1, <2>1, <2>2, <2>3, <2>4, ChainAgrees
  <2>6. c[2*n + 1] \in Condition!Operands
    BY <2>3, <2>5 DEF Chained
  <2>7. Len(c) # 2*n + 2
    <3> SUFFICES ASSUME Len(c) = 2*n + 2 PROVE FALSE
      OBVIOUS
    <3> DEFINE i == 2*n + 1
    <3>1. i \in 1 .. Len(c) - 1 /\ i + 1 = Len(c)
      BY <2>3
    <3>2. c[i] \in Condition!Operands
      BY <2>6
    <3> HIDE DEF i
    <3>3. c[i + 1] \in Condition!Operators /\ c[Len(c)] \in Condition!Operands
      BY <3>1, <3>2 DEF Condition!Proper
    <3> QED
      BY <3>1, <3>3, TokensApart
  <2>8. Part(c, n) = c
    BY <1>1, <2>2, <2>7 DEF Part
  <2> HIDE DEF V, F
  <2> QED
    BY <1>1, <2>1, <2>5, <2>8, Zenon
<1> QED
  BY <1>2, <1>3, <1>4

-----------------------------------------------------------------------------
\* The annotation is what the fold says, and the arm that runs is what the
\* annotation says.
Annotation(c) ==
  IF ~Condition!Fold(c).known THEN ""
  ELSE IF Condition!Fold(c).value = 0 THEN "always_false" ELSE "always_true"
Arms(c) ==
  IF Annotation(c) = "always_true" THEN {"then"}
  ELSE IF Annotation(c) = "always_false" THEN {"else"} ELSE Condition!Taken(c)

FoldInv ==
  /\ Condition!Proper(cond)
  /\ \/ meta = "unchecked" /\ arm = "none"
     \/ meta = Annotation(cond) /\ arm \in {"none"} \cup Arms(cond)

LEMMA FoldInit ==
  ASSUME Start
  PROVE  FoldInv
<1>1. AnyCondition \in Conditions
  BY ConditionsAssumption, Zenon DEF AnyCondition
<1>2. cond \in Conditions /\ meta = "unchecked" /\ arm = "none"
  BY <1>1 DEF Start, Condition!Parsed
<1> QED
  BY <1>2, ConditionsAssumption DEF FoldInv

LEMMA FoldNext ==
  ASSUME FoldInv, [Condition!Next]_conditions
  PROVE  FoldInv'
<1>1. CASE Condition!CheckIf
  <2>1. meta' = Annotation(cond) /\ cond' = cond /\ arm' = "none"
    BY <1>1, Zenon DEF Condition!CheckIf, Annotation, FoldInv
  <2> QED
    BY <2>1 DEF FoldInv
<1>2. CASE Condition!EmitIf
  <2>1. meta = Annotation(cond) /\ meta' = meta /\ cond' = cond
    BY <1>2 DEF Condition!EmitIf, FoldInv
  <2>2. Annotation(cond) \in {"", "always_true", "always_false"}
    BY DEF Annotation
  <2>3. arm' \in Arms(cond)
    BY <1>2, <2>1, <2>2 DEF Condition!EmitIf, Arms
  <2> QED
    BY <2>1, <2>3 DEF FoldInv
<1>3. CASE UNCHANGED conditions
  BY <1>3 DEF conditions, FoldInv
<1> QED
  BY <1>1, <1>2, <1>3 DEF Condition!Next

LEMMA FoldedIsTaken ==
  ASSUME FoldInv
  PROVE  FoldsAgree
<1> SUFFICES ASSUME arm /= "none", Condition!Falling(cond), Condition!Emit(cond).sound
             PROVE  arm \in Condition!Taken(cond)
  BY DEF FoldsAgree, Condition!FoldsAgree
<1>1. arm \in Arms(cond) /\ Condition!Proper(cond)
  BY DEF FoldInv
<1>2. CASE ~Condition!Fold(cond).known
  BY <1>1, <1>2 DEF Arms, Annotation
<1>3. CASE Condition!Fold(cond).known
  <2> DEFINE x == Condition!Emit(cond)
             v == Condition!Fold(cond).value
  <2>1. Agrees(x, v)
    BY <1>1, <1>3, FoldAgrees
  <2>2. arm = IF v = 0 THEN "else" ELSE "then"
    BY <1>1, <1>3 DEF Arms, Annotation
  <2> HIDE DEF v
  <2>3. ~x.poison /\ (x.value = 0 <=> v = 0)
    <3> HIDE DEF x
    <3>1. x.sound
      BY DEF x
    <3> QED
      BY <2>1, <3>1 DEF Agrees
  <2> QED
    BY <2>2, <2>3 DEF Condition!Taken, Condition!Nonzero
<1> QED
  BY <1>2, <1>3

-----------------------------------------------------------------------------
(***************************************************************************)
(* The strings.  A string is cut where the search finds another one; what  *)
(* the cuts are follows by induction on what is left of the string, and    *)
(* what the pieces join to by induction on their number.                   *)
(***************************************************************************)
\* The first i of the strings q joined, as f has them for i - 1.
Extended(f, q, i) == IF i = 1 THEN q[i] ELSE f[i - 1] \o q[i]

\* There is a way to join any strings.
LEMMA JoinsExist ==
  ASSUME NEW q \in Seq(Seq(Nat))
  PROVE  \E f : f \in [1 .. Len(q) -> Seq(Nat)] /\ \A i \in 1 .. Len(q) : f[i] = Extended(f, q, i)
<1> DEFINE n == Len(q)
           Good(m) == \E f \in [1 .. n -> Seq(Nat)] :
                        \A i \in 1 .. n : i <= m => f[i] = Extended(f, q, i)
           Bad == {m \in Nat : ~Good(m)}
<1>1. n \in Nat /\ \A i \in 1 .. n : q[i] \in Seq(Nat)
  OBVIOUS
<1> HIDE DEF n
<1>2. Good(0)
  <2> DEFINE f == [i \in 1 .. n |-> q[i]]
  <2>1. f \in [1 .. n -> Seq(Nat)] /\ \A i \in 1 .. n : ~(i <= 0)
    BY <1>1
  <2> QED
    BY <2>1, Zenon
<1>3. ASSUME NEW m \in Nat, Good(m)
      PROVE  Good(m + 1)
  <2>1. PICK f \in [1 .. n -> Seq(Nat)] :
          \A i \in 1 .. n : i <= m => f[i] = Extended(f, q, i)
    BY <1>3
  <2> DEFINE new(i) == Extended(f, q, i)
             g == [i \in 1 .. n |-> IF i <= m THEN f[i] ELSE new(i)]
  <2>2. ASSUME NEW i \in 1 .. n
        PROVE  new(i) \in Seq(Nat)
    <3>1. CASE i = 1
      BY <1>1, <3>1 DEF Extended
    <3>2. CASE i # 1
      <4>1. i - 1 \in 1 .. n
        BY <1>1, <3>2
      <4>2. f[i - 1] \in Seq(Nat) /\ q[i] \in Seq(Nat)
        BY <1>1, <4>1
      <4> QED
        BY <3>2, <4>2, ConcatProperties DEF Extended
    <3> QED
      BY <3>1, <3>2
  <2>3. g \in [1 .. n -> Seq(Nat)]
    BY <2>2
  <2>4. ASSUME NEW i \in 1 .. n, i <= m + 1
        PROVE  g[i] = Extended(g, q, i)
    <3>1. g[i] = new(i)
      BY <2>1
    <3>2. i # 1 => g[i - 1] = f[i - 1]
      BY <1>1, <2>4
    <3> QED
      BY <3>1, <3>2 DEF Extended
  <2> HIDE DEF g
  <2> QED
    BY <2>3, <2>4
<1> HIDE DEF Good
<1>4. Bad = {}
  <2> SUFFICES ASSUME Bad # {} PROVE FALSE
    OBVIOUS
  <2>1. PICK m \in Bad : \A j \in Bad : m <= j
    BY LeastNatural
  <2>2. m # 0 /\ m - 1 \in Nat /\ m - 1 \notin Bad
    BY <1>2, <2>1
  <2>3. Good(m - 1) /\ (m - 1) + 1 = m
    BY <2>2
  <2>4. Good((m - 1) + 1)
    BY <1>3, <2>2, <2>3
  <2> QED
    BY <2>3, <2>4
<1>5. Good(n)
  BY <1>1, <1>4
<1>6. PICK f \in [1 .. n -> Seq(Nat)] :
        \A i \in 1 .. n : i <= n => f[i] = Extended(f, q, i)
  BY <1>5 DEF Good
<1>7. \A i \in 1 .. n : f[i] = Extended(f, q, i)
  <2>1. \A i \in 1 .. n : i <= n
    BY <1>1
  <2> QED
    BY <1>6, <2>1, Zenon
<1> QED
  BY <1>6, <1>7 DEF n

\* There is one way to join them.
LEMMA FlattenIs ==
  ASSUME NEW q, Len(q) \in Nat \ {0}, NEW e, \A i \in 1 .. Len(q) : e[i] = Extended(e, q, i)
  PROVE  String!FlattenSeq(q) = e[Len(q)]
<1> DEFINE n == Len(q)
           Rec(g) == [i \in 1 .. n |-> Extended(g, q, i)]
           h == [i \in 1 .. n |-> e[i]]
           f == CHOOSE g : g = Rec(g)
<1>1. h = Rec(h)
  <2>1. ASSUME NEW i \in 1 .. n
        PROVE  h[i] = Extended(h, q, i)
    <3>1. i # 1 => i - 1 \in 1 .. n
      OBVIOUS
    <3> QED
      BY <3>1 DEF Extended
  <2> HIDE DEF h
  <2>2. h = [i \in 1 .. n |-> h[i]]
    BY DEF h
  <2> QED
    BY <2>1, <2>2
<1> HIDE DEF h
<1>2. f = Rec(f)
  BY <1>1, Zenon
<1>3. String!FlattenSeq(q) = f[n]
  BY Zenon DEF String!FlattenSeq, Extended
<1> HIDE DEF f
<1>4. \A i \in 1 .. n : f[i] = Extended(f, q, i)
  BY <1>2, Zenon
<1> DEFINE Bad == {i \in 1 .. n : f[i] # e[i]}
<1>5. Bad = {}
  <2> SUFFICES ASSUME Bad # {} PROVE FALSE
    OBVIOUS
  <2>1. PICK i \in Bad : \A j \in Bad : i <= j
    <3>1. Bad \subseteq Nat
      OBVIOUS
    <3> QED
      BY <3>1, LeastNatural
  <2>2. CASE i = 1
    BY <1>4, <2>1, <2>2 DEF Extended
  <2>3. CASE i # 1
    <3>1. i - 1 \in 1 .. n /\ i - 1 < i
      BY <2>3
    <3>2. f[i - 1] = e[i - 1]
      BY <2>1, <3>1
    <3> QED
      BY <1>4, <2>1, <2>3, <3>2 DEF Extended
  <2> QED
    BY <2>2, <2>3
<1>6. n \in 1 .. n
  OBVIOUS
<1> QED
  BY <1>3, <1>5, <1>6

\* strstr finds the first occurrence, if there is one.
LEMMA StrstrIs ==
  ASSUME NEW s \in Seq(Nat), NEW t \in Seq(Nat), NEW i \in Nat, String!Found(s, t, i)
  PROVE  /\ String!Strstr(s, t, i) \in i .. Len(s) - Len(t)
         /\ String!Occurs(s, t, String!Strstr(s, t, i))
         /\ \A j \in i .. Len(s) - Len(t) : String!Occurs(s, t, j) => String!Strstr(s, t, i) <= j
<1> DEFINE n == Len(s)
           m == Len(t)
           O == {j \in i .. n - m : String!Occurs(s, t, j)}
           S == {n} \cup O
<1>1. n \in Nat /\ m \in Nat
  OBVIOUS
<1>2. O # {}
  BY Zenon DEF String!Found
<1>3. String!Strstr(s, t, i) = String!Min(S)
  BY Zenon DEF String!Strstr
<1> HIDE DEF n, m
<1>4. S \subseteq Nat /\ S # {}
  BY <1>1
<1>5. PICK a \in S : \A j \in S : a <= j
  BY <1>4, LeastNatural, Zenon
<1>6. (CHOOSE x \in S : \A y \in S : x =< y) = a
  <2>1. S \subseteq Int
    BY <1>4
  <2> QED
    BY <1>5, <2>1, MinIs, Zenon
<1>7. String!Strstr(s, t, i) = a
  BY <1>3, <1>6, Zenon DEF String!Min
<1>8. a \in O
  <2>1. PICK j \in O : TRUE
    BY <1>2
  <2>2. a <= j /\ j <= n - m /\ j \in Int
    BY <1>1, <1>5, <2>1
  <2>3. CASE a = n
    <3>1. j = n
      BY <1>1, <2>2, <2>3
    <3> QED
      BY <2>1, <2>3, <3>1
  <2> QED
    BY <1>5, <2>3
<1> HIDE DEF S
<1>9. \A j \in O : a <= j
  BY <1>5 DEF S
<1> QED
  BY <1>7, <1>8, <1>9 DEF n, m

-----------------------------------------------------------------------------
\* One round of the loop that goes from match to match.
NextMatch(f, s, t, i) ==
  IF ~String!Found(s, t, i) THEN << >>
  ELSE <<String!Strstr(s, t, i)>> \o f[String!Strstr(s, t, i) + Len(t)]

\* The loop ends: every match is further on.
LEMMA MatchesExist ==
  ASSUME NEW s \in Seq(Nat), NEW t \in Seq(Nat), Len(t) # 0
  PROVE  \E f : f = [i \in 0 .. Len(s) |-> NextMatch(f, s, t, i)]
<1> DEFINE n == Len(s)
           Good(m) == \E f : /\ f = [i \in 0 .. n |-> f[i]]
                             /\ \A i \in 0 .. n : n - i < m => f[i] = NextMatch(f, s, t, i)
           Bad == {m \in Nat : ~Good(m)}
<1>1. n \in Nat
  OBVIOUS
<1>2. \A i \in 0 .. n : String!Found(s, t, i) =>
        /\ String!Strstr(s, t, i) + Len(t) \in 0 .. n
        /\ i < String!Strstr(s, t, i) + Len(t)
  <2> TAKE i \in 0 .. n
  <2> HAVE String!Found(s, t, i)
  <2>1. i \in Nat
    BY <1>1
  <2>2. String!Strstr(s, t, i) \in i .. Len(s) - Len(t)
    BY <2>1, StrstrIs
  <2>3. Len(t) \in Nat \ {0}
    OBVIOUS
  <2> QED
    BY <1>1, <2>1, <2>2, <2>3
<1> HIDE DEF n
<1>3. Good(0)
  <2> DEFINE f == [i \in 0 .. n |-> << >>]
  <2>1. f = [i \in 0 .. n |-> f[i]]
    OBVIOUS
  <2>2. \A i \in 0 .. n : ~(n - i < 0)
    BY <1>1
  <2> HIDE DEF f
  <2> QED
    BY <2>1, <2>2, Zenon
<1>4. ASSUME NEW m \in Nat, Good(m)
      PROVE  Good(m + 1)
  <2>1. PICK f : /\ f = [i \in 0 .. n |-> f[i]]
                 /\ \A i \in 0 .. n : n - i < m => f[i] = NextMatch(f, s, t, i)
    BY <1>4, Zenon
  <2> DEFINE g == [i \in 0 .. n |-> IF n - i < m THEN f[i] ELSE NextMatch(f, s, t, i)]
  <2>2. g = [i \in 0 .. n |-> g[i]]
    OBVIOUS
  <2>3. \A i \in 0 .. n : n - i < m => g[i] = f[i]
    BY Zenon
  <2>4. \A i \in 0 .. n : g[i] = NextMatch(f, s, t, i)
    BY <2>1, Zenon
  <2> HIDE DEF g
  <2>5. ASSUME NEW i \in 0 .. n, n - i < m + 1
        PROVE  g[i] = NextMatch(g, s, t, i)
    <3>1. CASE ~String!Found(s, t, i)
      BY <2>4, <3>1, Zenon DEF NextMatch
    <3>2. CASE String!Found(s, t, i)
      <4> DEFINE j == String!Strstr(s, t, i) + Len(t)
      <4>1. j \in 0 .. n /\ i < j
        BY <1>2, <3>2, Zenon
      <4>2. NextMatch(f, s, t, i) = <<String!Strstr(s, t, i)>> \o f[j]
            /\ NextMatch(g, s, t, i) = <<String!Strstr(s, t, i)>> \o g[j]
        BY <3>2, Zenon DEF NextMatch
      <4> HIDE DEF j
      <4>3. n - j < m
        BY <1>1, <2>5, <4>1
      <4>4. g[j] = f[j]
        BY <2>3, <4>1, <4>3, Zenon
      <4> QED
        BY <2>4, <4>2, <4>4, Zenon
    <3> QED
      BY <3>1, <3>2
  <2> QED
    BY <2>2, <2>5, Zenon
<1> HIDE DEF Good
<1>5. Bad = {}
  <2> SUFFICES ASSUME Bad # {} PROVE FALSE
    OBVIOUS
  <2>1. PICK m \in Bad : \A j \in Bad : m <= j
    BY LeastNatural
  <2>2. m # 0 /\ m - 1 \in Nat /\ m - 1 \notin Bad
    BY <1>3, <2>1
  <2>3. Good(m - 1) /\ (m - 1) + 1 = m
    BY <2>2
  <2>4. Good((m - 1) + 1)
    BY <1>4, <2>2, <2>3
  <2> QED
    BY <2>3, <2>4
<1>6. Good(n + 1)
  BY <1>1, <1>5
<1>7. PICK f : /\ f = [i \in 0 .. n |-> f[i]]
               /\ \A i \in 0 .. n : n - i < n + 1 => f[i] = NextMatch(f, s, t, i)
  BY <1>6, Zenon DEF Good
<1>8. \A i \in 0 .. n : f[i] = NextMatch(f, s, t, i)
  <2>1. \A i \in 0 .. n : n - i < n + 1
    BY <1>1
  <2> QED
    BY <1>7, <2>1, Zenon
<1>9. f = [i \in 0 .. n |-> NextMatch(f, s, t, i)]
  BY <1>7, <1>8
<1> QED
  BY <1>9, Zenon DEF n

\* The occurrences of t in s from i on that q cuts at: they do not overlap, and
\* each other one overlaps one of them.
CutsFrom(q, s, t, i) ==
  /\ q \in Seq(Nat)
  /\ \A k \in 1 .. Len(q) : /\ q[k] \in i + k - 1 .. Len(s) - Len(t)
                            /\ String!Occurs(s, t, q[k])
  /\ \A k, l \in 1 .. Len(q) : k < l => q[k] + Len(t) <= q[l]
  /\ \A j \in i .. Len(s) - Len(t) :
       String!Occurs(s, t, j) => \E k \in 1 .. Len(q) : q[k] <= j /\ j < q[k] + Len(t)

\* A round adds the first of them to those of the rest.
LEMMA NextCuts ==
  ASSUME NEW s \in Seq(Nat), NEW t \in Seq(Nat), Len(t) # 0, NEW i \in 0 .. Len(s), NEW f,
         String!Found(s, t, i) => CutsFrom(f[String!Strstr(s, t, i) + Len(t)], s, t,
                                           String!Strstr(s, t, i) + Len(t))
  PROVE  CutsFrom(NextMatch(f, s, t, i), s, t, i)
<1> DEFINE n == Len(s)
           m == Len(t)
<1>1. n \in Nat /\ m \in Nat \ {0} /\ i \in Nat
  OBVIOUS
<1>2. CASE ~String!Found(s, t, i)
  <2>1. NextMatch(f, s, t, i) = << >>
    BY <1>2, Zenon DEF NextMatch
  <2>2. \A j \in i .. Len(s) - Len(t) : ~String!Occurs(s, t, j)
    BY <1>2, Zenon DEF String!Found
  <2>3. << >> \in Seq(Nat) /\ 1 .. Len(<< >>) = {}
    OBVIOUS
  <2> QED
    BY <2>1, <2>2, <2>3, Zenon DEF CutsFrom
<1>3. CASE String!Found(s, t, i)
  <2> DEFINE a == String!Strstr(s, t, i)
             r == f[a + m]
             q == <<a>> \o r
  <2>1. a \in i .. n - m /\ String!Occurs(s, t, a)
        /\ \A j \in i .. n - m : String!Occurs(s, t, j) => a <= j
    BY <1>1, <1>3, StrstrIs, Zenon
  <2>2. CutsFrom(r, s, t, a + m)
    BY <1>3
  <2>3. NextMatch(f, s, t, i) = q
    BY <1>3, Zenon DEF NextMatch
  <2> HIDE DEF a, r
  <2>4. a \in Nat /\ a + m <= n
    BY <1>1, <2>1
  <2>5. r \in Seq(Nat) /\ Len(r) \in Nat
    BY <2>2 DEF CutsFrom
  <2>6. q \in Seq(Nat) /\ Len(q) = Len(r) + 1 /\ q[1] = a
        /\ \A k \in 1 .. Len(r) : q[k + 1] = r[k]
    BY <2>4, <2>5
  <2> HIDE DEF q, n, m
  <2>7. \A k \in 1 .. Len(r) : r[k] \in (a + m) + k - 1 .. n - m /\ String!Occurs(s, t, r[k])
    BY <2>2, Zenon DEF CutsFrom, n, m
  <2>8. ASSUME NEW k \in 1 .. Len(q)
        PROVE  q[k] \in i + k - 1 .. n - m /\ String!Occurs(s, t, q[k])
    <3>1. CASE k = 1
      BY <1>1, <2>1, <2>6, <3>1
    <3>2. CASE k # 1
      <4> DEFINE l == k - 1
      <4>1. l \in 1 .. Len(r) /\ l + 1 = k
        BY <2>5, <2>6, <3>2
      <4> HIDE DEF l
      <4>2. q[k] = r[l]
        BY <2>6, <4>1
      <4>3. r[l] \in (a + m) + l - 1 .. n - m /\ String!Occurs(s, t, r[l])
        BY <2>7, <4>1, Zenon
      <4>4. r[l] \in Int /\ (a + m) + l - 1 <= r[l] /\ r[l] <= n - m
        BY <1>1, <2>4, <2>5, <4>1, <4>3
      <4>5. i + k - 1 <= r[l]
        BY <1>1, <2>1, <2>5, <4>1, <4>4
      <4> QED
        BY <1>1, <2>5, <4>1, <4>2, <4>3, <4>4, <4>5
    <3> QED
      BY <3>1, <3>2
  <2>9. ASSUME NEW k \in 1 .. Len(q), NEW l \in 1 .. Len(q), k < l
        PROVE  q[k] + m <= q[l]
    <3>0. /\ k \in Nat /\ l \in Nat /\ 1 <= k /\ k < l /\ l <= Len(r) + 1 /\ Len(r) \in Nat
          /\ q[1] = a
      <4>1. Len(q) = Len(r) + 1 /\ q[1] = a
        BY <2>6
      <4> QED
        BY <2>5, <2>9, <4>1
    <3>1. l - 1 \in 1 .. Len(r) /\ q[l] = r[l - 1]
      <4>1. l - 1 \in 1 .. Len(r) /\ (l - 1) + 1 = l
        BY <3>0
      <4>2. q[(l - 1) + 1] = r[l - 1]
        BY <2>6, <4>1, Zenon
      <4> QED
        BY <4>1, <4>2
    <3>2. CASE k = 1
      <4>1. r[l - 1] \in (a + m) + (l - 1) - 1 .. n - m
        BY <2>7, <3>1
      <4>2. a + m <= r[l - 1]
        BY <1>1, <2>4, <3>0, <4>1
      <4> QED
        BY <3>0, <3>1, <3>2, <4>2
    <3>3. CASE k # 1
      <4>1. k - 1 \in 1 .. Len(r) /\ (k - 1) + 1 = k /\ k - 1 < l - 1
        BY <3>0, <3>3
      <4>2. q[(k - 1) + 1] = r[k - 1]
        BY <2>6, <4>1, Zenon
      <4>3. r[k - 1] + m <= r[l - 1]
        BY <2>2, <3>1, <4>1, Zenon DEF CutsFrom, m
      <4> QED
        BY <3>1, <4>1, <4>2, <4>3, Zenon
    <3> QED
      BY <3>2, <3>3
  <2>10. ASSUME NEW j \in i .. n - m, String!Occurs(s, t, j)
         PROVE  \E k \in 1 .. Len(q) : q[k] <= j /\ j < q[k] + m
    <3>1. a <= j /\ j \in Int
      BY <1>1, <2>1, <2>10
    <3>2. CASE j < a + m
      <4>1. 1 \in 1 .. Len(q)
        BY <2>5, <2>6
      <4> QED
        BY <2>6, <3>1, <3>2, <4>1
    <3>3. CASE a + m <= j
      <4>1. j \in a + m .. n - m
        BY <1>1, <2>4, <3>3
      <4>2. PICK k \in 1 .. Len(r) : r[k] <= j /\ j < r[k] + m
        BY <2>2, <2>10, <4>1, Zenon DEF CutsFrom, n, m
      <4>3. k + 1 \in 1 .. Len(q) /\ q[k + 1] = r[k]
        BY <2>5, <2>6
      <4> QED
        BY <4>2, <4>3
    <3> QED
      BY <1>1, <2>4, <3>1, <3>2, <3>3
  <2> QED
    BY <2>3, <2>6, <2>8, <2>9, <2>10, Zenon DEF CutsFrom, n, m
<1> QED
  BY <1>2, <1>3

\* The loop cuts at all of them.
LEMMA MatchesCut ==
  ASSUME NEW s \in Seq(Nat), NEW t \in Seq(Nat), Len(t) # 0
  PROVE  CutsFrom(String!Matches(s, t), s, t, 0)
<1> DEFINE n == Len(s)
           Rec(g) == [i \in 0 .. n |-> NextMatch(g, s, t, i)]
           f == CHOOSE g : g = Rec(g)
           Bad == {d \in Nat : \E i \in 0 .. n : n - i = d /\ ~CutsFrom(f[i], s, t, i)}
<1>1. \E g : g = Rec(g)
  BY MatchesExist, Zenon
<1>2. f = Rec(f)
  BY <1>1, Zenon
<1>3. String!Matches(s, t) = f[0]
  BY Zenon DEF String!Matches, NextMatch
<1>4. n \in Nat
  OBVIOUS
<1> HIDE DEF f
<1>5. \A i \in 0 .. n : f[i] = NextMatch(f, s, t, i)
  BY <1>2, Zenon
<1>6. Bad = {}
  <2> SUFFICES ASSUME Bad # {} PROVE FALSE
    OBVIOUS
  <2>1. PICK d \in Bad : \A e \in Bad : d <= e
    BY LeastNatural
  <2>2. PICK i \in 0 .. n : n - i = d /\ ~CutsFrom(f[i], s, t, i)
    BY <2>1
  <2>3. ASSUME String!Found(s, t, i)
        PROVE  CutsFrom(f[String!Strstr(s, t, i) + Len(t)], s, t, String!Strstr(s, t, i) + Len(t))
    <3> DEFINE j == String!Strstr(s, t, i) + Len(t)
    <3>1. String!Strstr(s, t, i) \in i .. n - Len(t) /\ Len(t) \in Nat \ {0} /\ i \in Nat
      BY <1>4, <2>3, StrstrIs
    <3>2. j \in 0 .. n /\ i < j
      BY <1>4, <3>1
    <3> HIDE DEF j
    <3>3. n - j \in Nat /\ n - j < d
      BY <1>4, <2>2, <3>2
    <3>4. n - j \notin Bad
      BY <2>1, <3>3
    <3>5. CutsFrom(f[j], s, t, j)
      BY <3>2, <3>3, <3>4
    <3> QED
      BY <3>5 DEF j
  <2>4. CutsFrom(NextMatch(f, s, t, i), s, t, i)
    BY <2>3, NextCuts, Zenon
  <2> QED
    BY <1>5, <2>2, <2>4, Zenon
<1>7. 0 \in 0 .. n /\ n - 0 \in Nat
  BY <1>4
<1>8. CutsFrom(f[0], s, t, 0)
  BY <1>6, <1>7
<1> QED
  BY <1>3, <1>8

-----------------------------------------------------------------------------
\* The k-th piece of s that is cut at the occurrences q of t.
Begins(q, t, k) == IF k = 1 THEN 0 ELSE q[k - 1] + Len(t)
Stops(s, q, k) == IF k > Len(q) THEN Len(s) ELSE q[k]
Piece(s, t, q, k) == String!Slice(s, Begins(q, t, k), Stops(s, q, k))

\* The pieces are parts of s, in order, with an occurrence of t between any two.
LEMMA PieceIs ==
  ASSUME NEW s \in Seq(Nat), NEW t \in Seq(Nat), Len(t) # 0, NEW q, CutsFrom(q, s, t, 0)
  PROVE  /\ Len(q) \in 0 .. Len(s)
         /\ \A k \in 1 .. Len(q) + 1 :
              /\ Begins(q, t, k) \in 0 .. Len(s) /\ Stops(s, q, k) \in Begins(q, t, k) .. Len(s)
              /\ Piece(s, t, q, k) \in Seq(Nat)
              /\ Len(Piece(s, t, q, k)) = Stops(s, q, k) - Begins(q, t, k)
         /\ Begins(q, t, 1) = 0
         /\ \A k \in 1 .. Len(q) : /\ Begins(q, t, k + 1) = Stops(s, q, k) + Len(t)
                                   /\ String!Occurs(s, t, Stops(s, q, k))
<1> DEFINE n == Len(s)
           m == Len(t)
           r == Len(q)
<1>1. q \in Seq(Nat) /\ n \in Nat /\ m \in Nat \ {0} /\ r \in Nat
  BY DEF CutsFrom
<1>2. \A k \in 1 .. r : q[k] \in Nat
  BY <1>1
<1> HIDE DEF n, m, r
<1>3. \A k \in 1 .. r : k - 1 <= q[k] /\ q[k] + m <= n
  <2>1. \A k \in 1 .. r : q[k] \in 0 + k - 1 .. n - m
    BY Zenon DEF CutsFrom, n, m, r
  <2>2. ASSUME NEW k \in 1 .. r
        PROVE  k - 1 <= q[k] /\ q[k] + m <= n
    <3>1. q[k] \in 0 + k - 1 .. n - m
      BY <2>1
    <3> QED
      BY <1>1, <1>2, <3>1
  <2> QED
    BY <2>2
<1>4. r \in 0 .. n
  <2>1. CASE r = 0
    BY <1>1, <2>1
  <2>2. CASE r # 0
    <3>1. r \in 1 .. r
      BY <1>1, <2>2
    <3>2. r - 1 <= q[r] /\ q[r] + m <= n /\ q[r] \in Nat
      BY <1>2, <1>3, <3>1
    <3> QED
      BY <1>1, <3>2
  <2> QED
    BY <2>1, <2>2
<1>5. ASSUME NEW k \in 1 .. r + 1
      PROVE  /\ Begins(q, t, k) \in 0 .. n /\ Stops(s, q, k) \in Begins(q, t, k) .. n
             /\ Piece(s, t, q, k) \in Seq(Nat)
             /\ Len(Piece(s, t, q, k)) = Stops(s, q, k) - Begins(q, t, k)
  <2> DEFINE b == Begins(q, t, k)
             e == Stops(s, q, k)
  <2>1. b \in 0 .. n
    <3>1. CASE k = 1
      BY <1>1, <3>1 DEF Begins
    <3>2. CASE k # 1
      <4>1. k - 1 \in 1 .. r
        BY <1>1, <3>2
      <4>2. q[k - 1] \in Nat /\ q[k - 1] + m <= n
        BY <1>2, <1>3, <4>1
      <4> QED
        BY <1>1, <3>2, <4>2 DEF Begins, m
    <3> QED
      BY <3>1, <3>2
  <2>2. e \in b .. n
    <3>1. CASE k = r + 1
      <4>1. e = n
        BY <1>1, <3>1 DEF Stops, n, r
      <4> QED
        BY <1>1, <2>1, <4>1
    <3>2. CASE k # r + 1
      <4>1. k \in 1 .. r
        BY <1>1, <3>2
      <4>2. e = q[k] /\ q[k] \in Nat /\ q[k] + m <= n
        BY <1>1, <1>2, <1>3, <4>1 DEF Stops, r
      <4>3. b <= q[k]
        <5>1. CASE k = 1
          BY <4>2, <5>1 DEF Begins
        <5>2. CASE k # 1
          <6>1. k - 1 \in 1 .. r /\ k - 1 < k
            BY <1>1, <4>1, <5>2
          <6>2. q[k - 1] + m <= q[k]
            BY <4>1, <6>1, Zenon DEF CutsFrom, m, r
          <6> QED
            BY <5>2, <6>2 DEF Begins, m
        <5> QED
          BY <5>1, <5>2
      <4> QED
        BY <1>1, <2>1, <4>2, <4>3
    <3> QED
      BY <3>1, <3>2
  <2>3. Piece(s, t, q, k) = SubSeq(s, b + 1, e)
    BY Zenon DEF Piece, String!Slice
  <2> HIDE DEF b, e
  <2>4. \A i \in b + 1 .. e : s[i] \in Nat
    BY <1>1, <2>1, <2>2 DEF n
  <2>5. b + 1 \in Int /\ e \in Int
    BY <1>1, <2>1, <2>2
  <2>6. /\ SubSeq(s, b + 1, e) \in Seq(Nat)
        /\ Len(SubSeq(s, b + 1, e)) = IF b + 1 <= e THEN e - (b + 1) + 1 ELSE 0
    BY <2>4, <2>5, SubSeqProperties
  <2>7. Len(SubSeq(s, b + 1, e)) = e - b
    BY <1>1, <2>1, <2>2, <2>6
  <2> QED
    BY <2>1, <2>2, <2>3, <2>6, <2>7 DEF b, e
<1>6. ASSUME NEW k \in 1 .. r
      PROVE  Begins(q, t, k + 1) = Stops(s, q, k) + m /\ String!Occurs(s, t, Stops(s, q, k))
  <2>1. String!Occurs(s, t, q[k])
    BY Zenon DEF CutsFrom, r
  <2>2. Stops(s, q, k) = q[k]
    BY <1>1 DEF Stops, r
  <2>3. k + 1 # 1 /\ (k + 1) - 1 = k
    BY <1>1
  <2>4. Begins(q, t, k + 1) = q[k] + m
    BY <2>3 DEF Begins, m
  <2> QED
    BY <2>1, <2>2, <2>4
<1> QED
  BY <1>4, <1>5, <1>6, Zenon DEF Begins, n, m, r

\* That is the cut that the property asks for.
LEMMA LeftmostIs ==
  ASSUME NEW s \in Seq(Nat), NEW t \in Seq(Nat), Len(t) # 0, NEW q, CutsFrom(q, s, t, 0)
  PROVE  q \in String!Cuts(s) /\ String!LeftmostCut(s, t, q)
<1> DEFINE n == Len(s)
           m == Len(t)
           r == Len(q)
<1>1. q \in Seq(Nat) /\ n \in Nat /\ m \in Nat \ {0} /\ r \in 0 .. n
      /\ DOMAIN q = 1 .. r /\ q \in [1 .. r -> Nat]
  <2>1. r \in 0 .. n
    BY PieceIs, Zenon
  <2>2. q \in Seq(Nat)
    BY DEF CutsFrom
  <2> QED
    BY <2>1, <2>2, LenProperties
<1> HIDE DEF n, m, r
<1>2. \A k \in 1 .. r : q[k] \in 0 .. n /\ q[k] + m <= n
  <2>1. \A k \in 1 .. r : q[k] \in 0 + k - 1 .. n - m
    BY Zenon DEF CutsFrom, n, m, r
  <2>2. ASSUME NEW k \in 1 .. r
        PROVE  q[k] \in 0 .. n /\ q[k] + m <= n
    <3>1. q[k] \in 0 + k - 1 .. n - m /\ q[k] \in Nat
      BY <1>1, <2>1
    <3> QED
      BY <1>1, <3>1
  <2> QED
    BY <2>2
<1>3. q \in [1 .. r -> 0 .. n]
  BY <1>1, <1>2
<1>4. q \in String!Cuts(s)
  BY <1>1, <1>3 DEF String!Cuts, n
<1>5. String!LeftmostCut(s, t, q)
  <2>1. \A k \in 1 .. r : String!Occurs(s, t, q[k])
    BY Zenon DEF CutsFrom, r
  <2>2. \A k, l \in 1 .. r : k < l => q[k] + m <= q[l]
    BY Zenon DEF CutsFrom, r, m
  <2>3. \A j \in 0 .. n - m : String!Occurs(s, t, j) => \E k \in 1 .. r : q[k] <= j /\ j < q[k] + m
    BY Zenon DEF CutsFrom, r, m, n
  <2> QED
    BY <1>1, <1>2, <2>1, <2>2, <2>3, Zenon DEF String!LeftmostCut, n, m
<1> QED
  BY <1>4, <1>5

\* The text up to the end of a piece, and up to the begin of the next one.
Meet(s, t, q) ==
  /\ SubSeq(s, 1, Begins(q, t, 1)) = << >>
  /\ \A k \in 1 .. Len(q) + 1 :
       /\ SubSeq(s, 1, Begins(q, t, k)) \in Seq(Nat)
       /\ SubSeq(s, 1, Begins(q, t, k)) \o Piece(s, t, q, k) = SubSeq(s, 1, Stops(s, q, k))
       /\ SubSeq(s, 1, Begins(q, t, k)) \o String!Slice(s, Begins(q, t, k), Len(s)) = s
  /\ \A k \in 1 .. Len(q) :
       SubSeq(s, 1, Stops(s, q, k)) \o t = SubSeq(s, 1, Begins(q, t, k + 1))

LEMMA PiecesMeet ==
  ASSUME NEW s \in Seq(Nat), NEW t \in Seq(Nat), Len(t) # 0, NEW q, CutsFrom(q, s, t, 0)
  PROVE  Meet(s, t, q)
<1> DEFINE n == Len(s)
<1>1. n \in Nat /\ n \in 0 .. n /\ 1 \in 1 .. n + 1 /\ Len(t) \in Nat /\ Len(q) \in Nat
  BY PieceIs
<1>2. \A i \in 0 .. n : \A j \in i .. n : SubSeq(s, 1, i) \o SubSeq(s, i + 1, j) = SubSeq(s, 1, j)
  <2> TAKE i \in 0 .. n
  <2> TAKE j \in i .. n
  <2>1. i \in 1 - 1 .. n
    BY <1>1
  <2> QED
    BY <1>1, <2>1, ConcatAdjacentSubSeq, Zenon
<1>3. \A i \in 0 .. n : SubSeq(s, 1, i) \in Seq(Nat)
  <2> TAKE i \in 0 .. n
  <2>1. \A j \in 1 .. i : s[j] \in Nat
    BY <1>1
  <2>2. 1 \in Int /\ i \in Int
    BY <1>1
  <2> QED
    BY <2>1, <2>2, SubSeqProperties
<1>4. SubSeq(s, 1, n) = s
  BY SubSeqFull
<1>5. SubSeq(s, 1, 0) = << >>
  BY SubSeqEmpty
<1> HIDE DEF n
<1>6. ASSUME NEW k \in 1 .. Len(q) + 1
      PROVE  /\ SubSeq(s, 1, Begins(q, t, k)) \in Seq(Nat)
             /\ SubSeq(s, 1, Begins(q, t, k)) \o Piece(s, t, q, k) = SubSeq(s, 1, Stops(s, q, k))
             /\ SubSeq(s, 1, Begins(q, t, k)) \o String!Slice(s, Begins(q, t, k), n) = s
  <2>1. Begins(q, t, k) \in 0 .. n /\ Stops(s, q, k) \in Begins(q, t, k) .. n
    BY PieceIs, Zenon DEF n
  <2>2. n \in Begins(q, t, k) .. n
    BY <1>1, <2>1
  <2>3. SubSeq(s, 1, Begins(q, t, k)) \o SubSeq(s, Begins(q, t, k) + 1, Stops(s, q, k))
          = SubSeq(s, 1, Stops(s, q, k))
    BY <1>2, <2>1, Zenon
  <2>4. SubSeq(s, 1, Begins(q, t, k)) \o SubSeq(s, Begins(q, t, k) + 1, n) = SubSeq(s, 1, n)
    BY <1>2, <2>1, <2>2, Zenon
  <2> QED
    BY <1>3, <1>4, <2>1, <2>3, <2>4, Zenon DEF Piece, String!Slice
<1>7. ASSUME NEW k \in 1 .. Len(q)
      PROVE  SubSeq(s, 1, Stops(s, q, k)) \o t = SubSeq(s, 1, Begins(q, t, k + 1))
  <2> DEFINE e == Stops(s, q, k)
             b == Begins(q, t, k + 1)
  <2>1. k \in 1 .. Len(q) + 1 /\ k + 1 \in 1 .. Len(q) + 1
    BY <1>1
  <2>2. b = e + Len(t) /\ String!Occurs(s, t, e) /\ b \in 0 .. n /\ e \in Begins(q, t, k) .. n
        /\ Begins(q, t, k) \in 0 .. n
    BY <2>1, PieceIs, Zenon DEF n
  <2>3. SubSeq(s, e + 1, b) = t
    BY <2>2, Zenon DEF String!Occurs
  <2> HIDE DEF e, b
  <2>4. e \in 0 .. n /\ b \in e .. n
    BY <1>1, <2>2
  <2>5. SubSeq(s, 1, e) \o SubSeq(s, e + 1, b) = SubSeq(s, 1, b)
    BY <1>2, <2>4, Zenon
  <2> QED
    BY <2>3, <2>5 DEF e, b
<1>8. SubSeq(s, 1, Begins(q, t, 1)) = << >>
  BY <1>5 DEF Begins
<1> QED
  BY <1>6, <1>7, <1>8, Zenon DEF n, Meet

-----------------------------------------------------------------------------
\* Three strings join in either order.
LEMMA Associates ==
  ASSUME NEW a \in Seq(Nat), NEW b \in Seq(Nat), NEW c \in Seq(Nat)
  PROVE  (a \o b) \o c = a \o (b \o c)
BY ConcatAssociative

LEMMA SeqOfStrings ==
  ASSUME NEW n \in Nat, NEW w \in [1 .. n -> Seq(Nat)]
  PROVE  w \in Seq(Seq(Nat)) /\ Len(w) = n
<1> DEFINE S == Seq(Nat)
<1> HIDE DEF S
<1>1. w \in [1 .. n -> S]
  BY DEF S
<1>2. w \in Seq(S) /\ Len(w) = n
  BY <1>1
<1> QED
  BY <1>2 DEF S

\* The pieces before the one at which malloc fails, and the rest of the text.
Parted(s, t, q, failing) ==
  [k \in 1 .. failing |-> IF k < failing THEN Piece(s, t, q, k)
                          ELSE String!Slice(s, Begins(q, t, k), Len(s))]

LEMMA PartsJoin ==
  ASSUME NEW s \in Seq(Nat), NEW t \in Seq(Nat), Len(t) # 0, NEW q, CutsFrom(q, s, t, 0),
         NEW failing \in 1 .. Len(q) + 1
  PROVE  String!Join(Parted(s, t, q, failing), t) = s
<1> DEFINE parts == Parted(s, t, q, failing)
           w == [k \in DOMAIN parts |-> (IF k = 1 THEN << >> ELSE t) \o parts[k]]
           e == [k \in 1 .. failing |-> IF k < failing THEN SubSeq(s, 1, Stops(s, q, k)) ELSE s]
<1>1. failing \in Nat \ {0} /\ Len(q) \in Nat /\ failing <= Len(q) + 1 /\ Len(s) \in Nat
  BY PieceIs
<1>0. Meet(s, t, q)
  BY PiecesMeet, Zenon
<1>2. DOMAIN w = 1 .. failing /\ Len(w) = failing
        /\ \A k \in 1 .. failing : w[k] = (IF k = 1 THEN << >> ELSE t) \o parts[k]
  <2>1. DOMAIN parts = 1 .. failing
    BY DEF Parted
  <2>2. w = [k \in 1 .. failing |-> (IF k = 1 THEN << >> ELSE t) \o parts[k]]
    BY <2>1, Zenon
  <2> HIDE DEF w
  <2>3. DOMAIN w = 1 .. failing /\ Len(w) = failing
    BY <1>1, <2>2
  <2> QED
    BY <2>2, <2>3, Zenon
<1>3. String!Join(parts, t) = String!FlattenSeq(w)
  BY Zenon DEF String!Join
<1>4. \A k \in 1 .. failing : e[k] = IF k < failing THEN SubSeq(s, 1, Stops(s, q, k)) ELSE s
  OBVIOUS
<1>5. \A k \in 1 .. failing : parts[k] = IF k < failing THEN Piece(s, t, q, k)
                                         ELSE String!Slice(s, Begins(q, t, k), Len(s))
  BY DEF Parted
<1> HIDE DEF w, e, parts
<1>6. ASSUME NEW k \in 1 .. failing
      PROVE  /\ parts[k] \in Seq(Nat)
             /\ SubSeq(s, 1, Begins(q, t, k)) \in Seq(Nat)
             /\ SubSeq(s, 1, Begins(q, t, k)) \o parts[k] = e[k]
  <2>1. k \in 1 .. Len(q) + 1
    BY <1>1
  <2>4. Piece(s, t, q, k) \in Seq(Nat)
    BY <2>1, PieceIs, Zenon
  <2>2. /\ SubSeq(s, 1, Begins(q, t, k)) \in Seq(Nat)
        /\ SubSeq(s, 1, Begins(q, t, k)) \o Piece(s, t, q, k) = SubSeq(s, 1, Stops(s, q, k))
        /\ SubSeq(s, 1, Begins(q, t, k)) \o String!Slice(s, Begins(q, t, k), Len(s)) = s
    BY <1>0, <2>1, Zenon DEF Meet
  <2>3. String!Slice(s, Begins(q, t, k), Len(s)) \in Seq(Nat)
    <3>1. Begins(q, t, k) \in 0 .. Len(s)
      BY <2>1, PieceIs, Zenon
    <3>2. Begins(q, t, k) + 1 \in Int /\ \A i \in Begins(q, t, k) + 1 .. Len(s) : s[i] \in Nat
      BY <1>1, <3>1
    <3> QED
      BY <1>1, <3>2, SubSeqProperties DEF String!Slice
  <2> QED
    BY <1>4, <1>5, <2>4, <2>2, <2>3, Zenon
<1>7. ASSUME NEW k \in 1 .. failing
      PROVE  e[k] = Extended(e, w, k)
  <2>1. CASE k = 1
    <3>1. SubSeq(s, 1, Begins(q, t, k)) = << >>
      BY <1>0, <2>1, Zenon DEF Meet
    <3>2. w[k] = << >> \o parts[k]
      BY <1>2, <2>1, Zenon
    <3> QED
      BY <1>6, <2>1, <3>1, <3>2, Zenon DEF Extended
  <2>2. CASE k # 1
    <3> DEFINE l == k - 1
    <3>1. l \in 1 .. Len(q) /\ l \in 1 .. failing /\ l + 1 = k /\ l < failing
      BY <1>1, <2>2
    <3>2. e[k - 1] = e[l]
      OBVIOUS
    <3> HIDE DEF l
    <3>3. e[l] = SubSeq(s, 1, Stops(s, q, l))
      BY <1>4, <3>1, Zenon
    <3>4. SubSeq(s, 1, Stops(s, q, l)) \o t = SubSeq(s, 1, Begins(q, t, k))
      <4>1. SubSeq(s, 1, Stops(s, q, l)) \o t = SubSeq(s, 1, Begins(q, t, l + 1))
        BY <1>0, <3>1, Zenon DEF Meet
      <4> QED
        BY <3>1, <4>1, Zenon
    <3>5. SubSeq(s, 1, Stops(s, q, l)) \in Seq(Nat)
      <4>1. l \in 1 .. Len(q) + 1
        BY <1>1, <3>1
      <4>2. Stops(s, q, l) \in Begins(q, t, l) .. Len(s) /\ Begins(q, t, l) \in 0 .. Len(s)
        BY <4>1, PieceIs, Zenon
      <4>3. Stops(s, q, l) \in Int /\ 1 \in Int /\ \A i \in 1 .. Stops(s, q, l) : s[i] \in Nat
        BY <1>1, <4>2
      <4> QED
        BY <4>3, SubSeqProperties
    <3>6. w[k] = t \o parts[k]
      BY <1>2, <2>2, Zenon
    <3>7. (e[l] \o t) \o parts[k] = e[l] \o (t \o parts[k])
      <4>1. e[l] \in Seq(Nat) /\ parts[k] \in Seq(Nat)
        BY <1>6, <3>3, <3>5, Zenon
      <4> QED
        BY <4>1, Associates, Zenon
    <3>8. (e[l] \o t) \o parts[k] = e[k]
      BY <1>6, <3>3, <3>4, Zenon
    <3> QED
      BY <2>2, <3>2, <3>6, <3>7, <3>8, Zenon DEF Extended
  <2> QED
    BY <2>1, <2>2
<1>8. String!FlattenSeq(w) = e[Len(w)]
  <2>1. Len(w) \in Nat \ {0} /\ \A k \in 1 .. Len(w) : e[k] = Extended(e, w, k)
    BY <1>1, <1>2, <1>7
  <2> QED
    BY <2>1, FlattenIs, Zenon
<1>9. e[failing] = s
  <2>1. failing \in 1 .. failing /\ ~(failing < failing)
    BY <1>1
  <2> QED
    BY <1>4, <2>1, Zenon
<1> QED
  BY <1>2, <1>3, <1>8, <1>9 DEF parts

\* What replace builds, and the pieces joined by the replacement.
Replaced(s, t, q, to) ==
  [k \in 1 .. Len(q) + 1 |-> Piece(s, t, q, k) \o (IF k > Len(q) THEN << >> ELSE to)]

IsReplaced(text, s, t, q, to) ==
  /\ text = String!Join(String!Pieces(s, t, q), to)
  /\ text \in Seq(Nat)
  /\ Len(text) = Len(s) + Len(q) * (Len(to) - Len(t))

LEMMA ReplacedIs ==
  ASSUME NEW s \in Seq(Nat), NEW t \in Seq(Nat), Len(t) # 0, NEW q, CutsFrom(q, s, t, 0),
         NEW to \in Seq(Nat)
  PROVE  IsReplaced(String!FlattenSeq(Replaced(s, t, q, to)), s, t, q, to)
<1> DEFINE text == String!FlattenSeq(Replaced(s, t, q, to))
           built == Replaced(s, t, q, to)
           r == Len(q)
           p(k) == Piece(s, t, q, k)
           w == [k \in 1 .. r + 1 |-> (IF k = 1 THEN << >> ELSE to) \o p(k)]
           d == Len(to) - Len(t)
<1>1. r \in Nat /\ Len(s) \in Nat /\ d \in Int /\ Len(to) \in Nat /\ Len(t) \in Nat
  BY PieceIs
<1>0. \A k \in 1 .. Len(q) + 1 :
        Piece(s, t, q, k) \in Seq(Nat) /\ Len(Piece(s, t, q, k)) = Stops(s, q, k) - Begins(q, t, k)
  BY PieceIs
<1>2. ASSUME NEW k \in 1 .. r + 1
      PROVE  p(k) \in Seq(Nat) /\ Len(p(k)) = Stops(s, q, k) - Begins(q, t, k)
  <2>1. k \in 1 .. Len(q) + 1
    OBVIOUS
  <2> QED
    BY <1>0, <2>1, Zenon
<1>3. String!Join(String!Pieces(s, t, q), to) = String!FlattenSeq(w)
  <2> DEFINE u == String!Pieces(s, t, q)
  <2>1. u = [k \in 1 .. r + 1 |-> p(k)]
    BY Zenon DEF String!Pieces, Piece, Begins, Stops
  <2> HIDE DEF u
  <2>2. DOMAIN u = 1 .. r + 1 /\ \A k \in 1 .. r + 1 : u[k] = p(k)
    BY <2>1
  <2>3. [k \in DOMAIN u |-> (IF k = 1 THEN << >> ELSE to) \o u[k]] = w
    BY <2>2
  <2> QED
    BY <2>3, Zenon DEF String!Join, u
<1>4. Len(w) = r + 1 /\ w \in Seq(Seq(Nat))
      /\ \A k \in 1 .. r + 1 : w[k] = (IF k = 1 THEN << >> ELSE to) \o p(k)
  <2>1. \A k \in 1 .. r + 1 : w[k] \in Seq(Nat)
    <3> TAKE k \in 1 .. r + 1
    <3>1. w[k] = (IF k = 1 THEN << >> ELSE to) \o p(k)
      OBVIOUS
    <3> HIDE DEF w
    <3>2. (IF k = 1 THEN << >> ELSE to) \in Seq(Nat) /\ p(k) \in Seq(Nat)
      BY <1>2
    <3> HIDE DEF p
    <3> QED
      BY <3>1, <3>2, ConcatProperties
  <2>2. r + 1 \in Nat
    BY <1>1
  <2> HIDE DEF p
  <2>3. w \in [1 .. r + 1 -> Seq(Nat)]
    BY <2>1
  <2>4. Len(w) = r + 1
    BY <2>2
  <2> HIDE DEF w
  <2>5. w \in Seq(Seq(Nat))
    BY <2>2, <2>3, SeqOfStrings, Zenon
  <2> QED
    BY <2>4, <2>5 DEF w
<1>5. Len(built) = r + 1
      /\ \A k \in 1 .. r + 1 : built[k] = p(k) \o (IF k > r THEN << >> ELSE to)
  BY <1>1 DEF Replaced
<1>16. text = String!FlattenSeq(built)
  OBVIOUS
<1> HIDE DEF w, p, r, d, text, built
<1>6. PICK f \in [1 .. r + 1 -> Seq(Nat)] : \A k \in 1 .. r + 1 : f[k] = Extended(f, w, k)
  <2>1. \E f : f \in [1 .. Len(w) -> Seq(Nat)] /\ \A k \in 1 .. Len(w) : f[k] = Extended(f, w, k)
    BY <1>4, JoinsExist, Zenon
  <2> QED
    BY <1>4, <2>1, Zenon
<1>7. String!FlattenSeq(w) = f[r + 1]
  <2>1. Len(w) \in Nat \ {0} /\ \A k \in 1 .. Len(w) : f[k] = Extended(f, w, k)
    BY <1>1, <1>4, <1>6
  <2> QED
    BY <1>4, <2>1, FlattenIs, Zenon
<1>8. f[1] = p(1)
  <2>1. 1 \in 1 .. r + 1
    BY <1>1
  <2>2. w[1] = << >> \o p(1) /\ p(1) \in Seq(Nat)
    BY <1>2, <1>4, <2>1, Zenon DEF p, r
  <2>3. << >> \o p(1) = p(1)
    BY <2>2, ConcatEmptySeq
  <2> QED
    BY <1>6, <2>1, <2>2, <2>3, Zenon DEF Extended
<1>9. ASSUME NEW k \in 1 .. r
      PROVE  f[k + 1] = (f[k] \o to) \o p(k + 1) /\ p(k + 1) \in Seq(Nat) /\ f[k] \in Seq(Nat)
             /\ f[k] \o to \in Seq(Nat) /\ k \in 1 .. r + 1 /\ k + 1 \in 1 .. r + 1
  <2>1. k \in 1 .. r + 1 /\ k + 1 \in 1 .. r + 1 /\ k + 1 # 1 /\ (k + 1) - 1 = k
    BY <1>1
  <2>2. p(k + 1) \in Seq(Nat) /\ f[k] \in Seq(Nat)
    BY <1>2, <1>6, <2>1 DEF r
  <2>3. w[k + 1] = to \o p(k + 1)
    BY <1>4, <2>1, Zenon
  <2>4. f[k + 1] = f[k] \o (to \o p(k + 1))
    BY <1>6, <2>1, <2>3, Zenon DEF Extended
  <2>5. (f[k] \o to) \o p(k + 1) = f[k] \o (to \o p(k + 1))
    BY <2>2, Associates, Zenon
  <2>6. f[k] \o to \in Seq(Nat)
    BY <2>2, ConcatProperties, Zenon
  <2> QED
    BY <2>1, <2>2, <2>4, <2>5, <2>6
<1> DEFINE e == [k \in 1 .. r + 1 |-> IF k > r THEN f[k] ELSE f[k] \o to]
<1>10. \A k \in 1 .. r + 1 : e[k] = IF k > r THEN f[k] ELSE f[k] \o to
  OBVIOUS
<1> HIDE DEF e
<1>11. ASSUME NEW k \in 1 .. r + 1
       PROVE  e[k] = Extended(e, built, k)
  <2> DEFINE ending == IF k > r THEN << >> ELSE to
  <2>1. ending \in Seq(Nat) /\ p(k) \in Seq(Nat) /\ f[k] \in Seq(Nat)
    <3>1. ending \in Seq(Nat)
      OBVIOUS
    <3>2. f[k] \in Seq(Nat)
      BY <1>6
    <3> QED
      BY <1>2, <3>1, <3>2, Zenon
  <2>2. e[k] = f[k] \o ending
    <3>1. CASE k > r
      <4>1. f[k] \o << >> = f[k]
        BY <2>1, ConcatEmptySeq
      <4> QED
        BY <1>10, <3>1, <4>1, Zenon
    <3>2. CASE ~(k > r)
      BY <1>10, <3>2, Zenon
    <3> QED
      BY <3>1, <3>2
  <2>3. built[k] = p(k) \o ending
    BY <1>5, Zenon
  <2> HIDE DEF ending
  <2>4. CASE k = 1
    BY <1>8, <2>2, <2>3, <2>4, Zenon DEF Extended
  <2>5. CASE k # 1
    <3> DEFINE l == k - 1
    <3>1. l \in 1 .. r /\ l + 1 = k /\ ~(l > r) /\ l \in 1 .. r + 1
      BY <1>1, <2>5
    <3>2. e[k - 1] = e[l]
      OBVIOUS
    <3> HIDE DEF l
    <3>3. e[l] = f[l] \o to
      BY <1>10, <3>1, Zenon
    <3>4. f[k] = (f[l] \o to) \o p(k) /\ f[l] \o to \in Seq(Nat)
      BY <1>9, <3>1, Zenon
    <3>5. ((f[l] \o to) \o p(k)) \o ending = (f[l] \o to) \o (p(k) \o ending)
      BY <2>1, <3>4, Associates, Zenon
    <3>6. e[k] = e[l] \o built[k]
      BY <2>2, <2>3, <3>3, <3>4, <3>5, Zenon
    <3> QED
      BY <2>5, <3>2, <3>6, Zenon DEF Extended
  <2> QED
    BY <2>4, <2>5
<1>12. String!FlattenSeq(built) = e[r + 1]
  <2>1. Len(built) \in Nat \ {0} /\ \A k \in 1 .. Len(built) : e[k] = Extended(e, built, k)
    <3>1. r + 1 \in Nat \ {0}
      BY <1>1
    <3> QED
      BY <1>5, <1>11, <3>1, Zenon
  <2> QED
    BY <1>5, <2>1, FlattenIs, Zenon
<1>13. e[r + 1] = f[r + 1] /\ f[r + 1] \in Seq(Nat) /\ r + 1 \in 1 .. r + 1
  <2>1. r + 1 \in 1 .. r + 1 /\ r + 1 > r
    BY <1>1
  <2> QED
    BY <1>6, <1>10, <2>1
<1> DEFINE Bad == {k \in 1 .. r + 1 : Len(f[k]) # Stops(s, q, k) + (k - 1) * d}
<1>14. Bad = {}
  <2> SUFFICES ASSUME Bad # {} PROVE FALSE
    OBVIOUS
  <2>1. PICK k \in Bad : \A j \in Bad : k <= j
    <3>1. Bad \subseteq Nat
      BY <1>1
    <3> QED
      BY <3>1, LeastNatural
  <2>2. Stops(s, q, k) \in Begins(q, t, k) .. Len(s) /\ Begins(q, t, k) \in 0 .. Len(s)
    BY PieceIs, Zenon DEF r
  <2>3. Stops(s, q, k) \in Int /\ Begins(q, t, k) \in Int
    BY <2>2
  <2>4. CASE k = 1
    <3>1. Len(p(1)) = Stops(s, q, 1) - Begins(q, t, 1) /\ Begins(q, t, 1) = 0
      BY <1>2, <2>4, PieceIs, Zenon DEF p, r
    <3>2. (k - 1) * d = 0
      BY <1>1, <2>4
    <3>3. Len(f[k]) = Stops(s, q, k) + (k - 1) * d
      BY <1>8, <2>3, <2>4, <3>1, <3>2
    <3> QED
      BY <2>1, <3>3
  <2>5. CASE k # 1
    <3> DEFINE l == k - 1
    <3>1. l \in 1 .. r /\ l + 1 = k /\ l < k /\ l \in Int
      BY <1>1, <2>5
    <3>2. f[k] = (f[l] \o to) \o p(k) /\ f[l] \o to \in Seq(Nat) /\ f[l] \in Seq(Nat)
          /\ p(k) \in Seq(Nat) /\ l \in 1 .. r + 1
      BY <1>9, <3>1
    <3>3. Len(f[k]) = Len(f[l]) + Len(to) + Len(p(k))
      <4>1. Len(f[l] \o to) = Len(f[l]) + Len(to)
        BY <3>2, ConcatProperties
      <4>2. Len((f[l] \o to) \o p(k)) = Len(f[l] \o to) + Len(p(k))
        BY <3>2, ConcatProperties
      <4> QED
        BY <3>2, <4>1, <4>2
    <3>4. Len(p(k)) = Stops(s, q, k) - Begins(q, t, k)
      BY <1>2, Zenon DEF p, r
    <3>5. Begins(q, t, k) = Stops(s, q, l) + Len(t)
      <4>1. Begins(q, t, l + 1) = Stops(s, q, l) + Len(t)
        BY <3>1, PieceIs, Zenon DEF r
      <4> QED
        BY <3>1, <4>1, Zenon
    <3>6. Len(f[l]) = Stops(s, q, l) + (l - 1) * d /\ Stops(s, q, l) \in Int
      <4>1. l \notin Bad
        BY <1>1, <2>1, <3>1
      <4>2. Stops(s, q, l) \in Begins(q, t, l) .. Len(s)
        BY <3>2, PieceIs, Zenon DEF r
      <4> QED
        BY <3>2, <4>1, <4>2
    <3>7. (k - 1) * d = (l - 1) * d + d
      BY <1>1, <3>1
    <3> HIDE DEF l
    <3>8. d = Len(to) - Len(t)
      BY DEF d
    <3>9. (l - 1) * d \in Int
      BY <1>1, <3>1
    <3> DEFINE x == (l - 1) * d
    <3>10. Len(f[k]) = Stops(s, q, k) + (k - 1) * d
      <4>1. x \in Int /\ Len(f[l]) = Stops(s, q, l) + x /\ (k - 1) * d = x + d
        BY <3>6, <3>7, <3>9
      <4>2. Stops(s, q, l) \in Int
        BY <3>6
      <4>3. Len(f[k]) = Stops(s, q, l) + x + Len(to) + (Stops(s, q, k) - (Stops(s, q, l) + Len(t)))
        BY <3>3, <3>4, <3>5, <4>1, Zenon
      <4> HIDE DEF x
      <4>4. Len(f[k]) = Stops(s, q, k) + (x + d)
        <5> DEFINE y == Stops(s, q, l)
                   z == Stops(s, q, k)
                   g == Len(to)
                   h == Len(t)
        <5>1. y \in Int /\ z \in Int /\ g \in Int /\ h \in Int /\ d = g - h
              /\ Len(f[k]) = y + x + g + (z - (y + h))
          BY <1>1, <2>3, <3>8, <4>2, <4>3
        <5> HIDE DEF y, z, g, h
        <5>2. Len(f[k]) = z + (x + d)
          BY <4>1, <5>1
        <5> QED
          BY <5>2 DEF z
      <4> QED
        BY <4>1, <4>4
    <3> QED
      BY <2>1, <3>10
  <2> QED
    BY <2>4, <2>5
<1>15. Len(f[r + 1]) = Len(s) + r * d
  <2>1. Stops(s, q, r + 1) = Len(s)
    BY <1>1 DEF Stops, r
  <2>2. (r + 1) - 1 = r
    BY <1>1
  <2>3. Len(f[r + 1]) = Stops(s, q, r + 1) + ((r + 1) - 1) * d
    BY <1>13, <1>14
  <2> QED
    BY <2>1, <2>2, <2>3
<1> QED
  BY <1>16, <1>3, <1>7, <1>12, <1>13, <1>15, Zenon DEF r, d, text, IsReplaced

-----------------------------------------------------------------------------
\* A multiple of the modulus is lost.
LEMMA Remainder ==
  ASSUME NEW w \in Nat \ {0}, NEW x \in 0 .. w - 1, NEW z \in Int
  PROVE  (x + w * z) % w = x
<1> DEFINE y == x + w * z
           a == y \div w
           b == y % w
           k == a - z
<1>1. y \in Int /\ w * z \in Int
  OBVIOUS
<1>2. a \in Int /\ b \in 0 .. w - 1 /\ y = w * a + b
  <2> HIDE DEF y
  <2> QED
    BY <1>1
<1> HIDE DEF a, b
<1>3. x - b = w * k /\ k \in Int
  <2>1. w * (a - z) = w * a - w * z
    BY <1>2
  <2>2. w * a \in Int
    BY <1>2
  <2> QED
    BY <1>1, <1>2, <2>1, <2>2
<1> HIDE DEF k
<1>4. k < 1
  <2> SUFFICES ASSUME k >= 1 PROVE FALSE
    BY <1>3
  <2>1. w * k >= w
    <3>1. w * (k - 1) >= 0
      BY <1>3
    <3>2. w * k = w * (k - 1) + w
      BY <1>3
    <3> QED
      BY <1>3, <3>1, <3>2
  <2> QED
    BY <1>2, <1>3, <2>1
<1>5. k > -1
  <2> SUFFICES ASSUME k <= -1 PROVE FALSE
    BY <1>3
  <2>1. w * k <= -w
    <3>1. w * (-1 - k) >= 0
      BY <1>3
    <3>2. w * k = -w - w * (-1 - k)
      BY <1>3
    <3>3. w * (-1 - k) \in Int /\ w * k \in Int
      BY <1>3
    <3> QED
      BY <1>3, <3>1, <3>2, <3>3
  <2> QED
    BY <1>2, <1>3, <2>1
<1>6. k = 0
  BY <1>3, <1>4, <1>5
<1>7. x = b
  BY <1>2, <1>3, <1>6
<1> QED
  BY <1>7 DEF b

LEMMA LimitIs ==
  /\ IntLimit * IntLimit \in Nat \ {0}
  /\ String!SizeLimit = 4 * (IntLimit * IntLimit) /\ String!SizeLimit \in Nat \ {0}
<1>1. IntLimit \in Nat \ {0}
  BY ArgumentsAssumption
<1>2. IntLimit * IntLimit \in Nat \ {0}
  BY <1>1
<1> QED
  BY <1>2 DEF String!SizeLimit

\* The size that replace computes, modulo that of a size_t, is the size it needs.
LEMMA SizeIs ==
  ASSUME NEW w \in Nat \ {0}, NEW n \in Nat, NEW r \in Nat, NEW d \in Int, n + r * d \in 0 .. w - 2
  PROVE  (n + r * (d % w) + 1) % w = (n + r * d) + 1
<1> DEFINE m == d % w
           a == d \div w
           x == (n + r * d) + 1
<1>1. m \in Int /\ a \in Int /\ d = w * a + m
  OBVIOUS
<1> HIDE DEF m, a
<1>2. r * d \in Int /\ x \in 0 .. w - 1
  OBVIOUS
<1>3. n + r * m + 1 = x + w * (r * (-a))
  <2>1. r * m = r * d - r * (w * a)
    <3>1. m = d - w * a /\ w * a \in Int
      BY <1>1
    <3> QED
      BY <1>1, <3>1
  <2>2. w * (r * (-a)) = -(r * (w * a)) /\ r * (w * a) \in Int
    BY <1>1
  <2> QED
    BY <1>2, <2>1, <2>2
<1> HIDE DEF x
<1>4. r * (-a) \in Int
  BY <1>1
<1>5. (x + w * (r * (-a))) % w = x
  BY <1>2, <1>4, Remainder, Zenon
<1> QED
  BY <1>3, <1>5 DEF m, x

-----------------------------------------------------------------------------
\* What has to be shown of a call.
LEMMA Closes ==
  ASSUME call'[1] \in {"add", "mul"} => (String!ArithmeticIsRight)',
         call'[1] = "index_of" => (String!IndexIsRight)',
         call'[1] = "split" => (String!SplitIsRight)',
         call'[1] \in {"concat", "repeat", "slice", "replace", "trim"} /\ result' # Null =>
           buffer' = Len(result') + 1,
         call'[1] = "concat" /\ result' # Null => (String!ConcatIsRight)',
         call'[1] = "repeat" /\ result' # Null => (String!RepeatIsRight)',
         call'[1] = "slice" /\ result' # Null => (String!SliceIsRight)',
         call'[1] = "replace" /\ result' # Null => (String!ReplaceIsRight)',
         call'[1] = "trim" /\ result' # Null => (String!TrimIsRight)',
         (String!TracksWhatItMakes)'
  PROVE  (String!StringsAreRight)'
BY DEF String!StringsAreRight

\* A function of one string registers it, or has no arena.
LEMMA TracksOne ==
  ASSUME call'[1] # "split", String!Untracked \/ String!Tracks
  PROVE  (String!TracksWhatItMakes)'
<1>1. tracked' = << >> \/ tracked' = <<result'>>
  BY DEF String!Untracked, String!Tracks
<1> QED
  BY <1>1 DEF String!TracksWhatItMakes

LEMMA ArgumentsAre ==
  ASSUME NEW s \in String!MaybeNull, s # Null
  PROVE  s \in Seq(Nat) /\ s \in Arguments /\ Len(s) \in Nat
BY ArgumentsAssumption DEF String!MaybeNull

\* A null argument counts as the empty string.
LEMMA OrEmptyIs ==
  ASSUME NEW s \in String!MaybeNull
  PROVE  /\ String!OrEmpty(s) \in Seq(Nat) /\ Len(String!OrEmpty(s)) \in Nat
         /\ s = Null => String!OrEmpty(s) = << >>
         /\ s # Null => String!OrEmpty(s) = s
<1>1. CASE s = Null
  BY <1>1 DEF String!OrEmpty
<1>2. CASE s # Null
  BY <1>2, ArgumentsAre DEF String!OrEmpty
<1> QED
  BY <1>1, <1>2

\* What a call without a special case leaves.
LEMMA Answered ==
  ASSUME NEW c, NEW s, String!Fails(c) \/ String!Duplicates(c, s)
  PROVE  call' = c /\ (result' # Null => result' = s /\ buffer' = Len(s) + 1)
BY DEF String!Fails, String!Duplicates, String!Answers

-----------------------------------------------------------------------------
\* Both strings, one after the other.
LEMMA ConcatRight ==
  ASSUME NEW a \in String!MaybeNull, NEW b \in String!MaybeNull, String!Concat(a, b),
         String!Untracked \/ String!Tracks
  PROVE  (String!StringsAreRight)'
<1> DEFINE c == <<"concat", a, b>>
           x == String!OrEmpty(a)
           y == String!OrEmpty(b)
<1>1. String!Fails(c) \/ String!Duplicates(c, x \o y)
  BY DEF String!Concat
<1>2. x \in Seq(Nat) /\ y \in Seq(Nat)
  BY OrEmptyIs
<1> HIDE DEF x, y
<1>3. call' = c /\ (result' # Null => result' = x \o y /\ buffer' = Len(x \o y) + 1)
  BY <1>1, Answered, Zenon
<1>4. call'[1] = "concat" /\ call'[2] = a /\ call'[3] = b
  BY <1>3
<1>5. /\ Len(x \o y) = Len(x) + Len(y)
      /\ \A i \in DOMAIN x : (x \o y)[i] = x[i]
      /\ \A i \in DOMAIN y : (x \o y)[Len(x) + i] = y[i]
  BY <1>2
<1>6. result' # Null => (String!ConcatIsRight)'
  BY <1>3, <1>4, <1>5, Zenon DEF String!ConcatIsRight, x, y
<1> QED
  BY <1>3, <1>4, <1>6, Closes, TracksOne

\* Copies of one string, one after the other.
LEMMA CopiesAre ==
  ASSUME NEW s \in Seq(Nat), NEW n \in Nat
  PROVE  /\ Len(String!Repeated(s, n)) = n * Len(s)
         /\ \A k \in 1 .. n : \A i \in DOMAIN s : String!Repeated(s, n)[(k - 1) * Len(s) + i] = s[i]
<1> DEFINE q == [i \in 1 .. n |-> s]
           m == Len(s)
           Good(t, j) == /\ t \in Seq(Nat) /\ Len(t) = j * m
                         /\ \A k \in 1 .. j : \A i \in 1 .. m : t[(k - 1) * m + i] = s[i]
<1>1. String!Repeated(s, n) = String!FlattenSeq(q)
  BY DEF String!Repeated
<1>2. q \in Seq(Seq(Nat)) /\ Len(q) = n /\ m \in Nat /\ DOMAIN s = 1 .. m
  OBVIOUS
<1>3. CASE n = 0
  <2>1. q = << >>
    BY <1>2, <1>3
  <2>2. String!FlattenSeq(q) = << >>
    BY <2>1 DEF String!FlattenSeq
  <2>3. Len(<< >>) = 0 /\ 0 * m = 0 /\ 1 .. 0 = {}
    BY <1>2
  <2> QED
    BY <1>1, <1>3, <2>2, <2>3
<1>4. CASE n # 0
  <2>1. PICK e : e \in [1 .. Len(q) -> Seq(Nat)] /\ \A i \in 1 .. Len(q) : e[i] = Extended(e, q, i)
    BY <1>2, JoinsExist
  <2>2. String!FlattenSeq(q) = e[n]
    BY <1>2, <1>4, <2>1, FlattenIs
  <2>3. \A i \in 1 .. n : e[i] \in Seq(Nat) /\ e[i] = IF i = 1 THEN s ELSE e[i - 1] \o s
    BY <1>2, <2>1 DEF Extended
  <2> HIDE DEF q, m
  <2>4. ASSUME NEW j \in Nat, NEW t, Good(t, j)
        PROVE  Good(t \o s, j + 1)
    <3>1. t \in Seq(Nat) /\ Len(t) = j * m /\ j * m \in Nat /\ (j + 1) * m = j * m + m
      BY <1>2, <2>4
    <3>2. t \o s \in Seq(Nat) /\ Len(t \o s) = (j + 1) * m
      BY <1>2, <3>1, ConcatProperties DEF m
    <3>3. ASSUME NEW k \in 1 .. j + 1, NEW i \in 1 .. m
          PROVE  (t \o s)[(k - 1) * m + i] = s[i]
      <4>1. CASE k = j + 1
        <5>1. (k - 1) * m + i = Len(t) + i /\ Len(t) + i > Len(t) /\ Len(t) \in Nat
          BY <1>2, <3>1, <4>1
        <5> QED
          BY <1>2, <3>1, <5>1 DEF m
      <4>2. CASE k # j + 1
        <5>1. k \in 1 .. j /\ k - 1 \in Nat
          BY <4>2
        <5>2. (k - 1) * m + m <= j * m
          <6>1. (j - k) * m >= 0 /\ (j - k) * m = j * m - k * m /\ k * m = (k - 1) * m + m
            BY <1>2, <5>1
          <6>2. k * m \in Int /\ j * m \in Int /\ (k - 1) * m \in Int
            BY <1>2, <5>1
          <6> QED
            BY <1>2, <6>1, <6>2
        <5>3. (k - 1) * m \in Nat
          BY <1>2, <5>1
        <5>4. (k - 1) * m + i \in 1 .. Len(t)
          <6> DEFINE y == (k - 1) * m
                     z == j * m
          <6>1. y \in Nat /\ z \in Nat /\ y + m <= z /\ Len(t) = z
            BY <3>1, <5>2, <5>3
          <6> HIDE DEF y, z
          <6>2. y + i \in 1 .. Len(t)
            BY <1>2, <6>1
          <6> QED
            BY <6>2 DEF y
        <5>5. (t \o s)[(k - 1) * m + i] = t[(k - 1) * m + i]
          BY <3>1, <5>4
        <5> QED
          BY <2>4, <5>1, <5>5
      <4> QED
        BY <4>1, <4>2
    <3> QED
      BY <3>2, <3>3
  <2>5. Good(s, 1)
    <3>1. 1 * m = m /\ \A k \in 1 .. 1 : \A i \in 1 .. m : (k - 1) * m + i = i
      BY <1>2
    <3> QED
      BY <1>2, <3>1 DEF m
  <2> HIDE DEF Good
  <2> DEFINE Bad == {i \in 1 .. n : ~Good(e[i], i)}
  <2>6. Bad = {}
    <3> SUFFICES ASSUME Bad # {} PROVE FALSE
      OBVIOUS
    <3>1. PICK i \in Bad : \A j \in Bad : i <= j
      <4>1. Bad \subseteq Nat
        OBVIOUS
      <4> QED
        BY <4>1, LeastNatural
    <3>2. i # 1
      BY <2>3, <2>5, <3>1
    <3>3. i - 1 \in 1 .. n /\ i - 1 \in Nat /\ i - 1 \notin Bad /\ (i - 1) + 1 = i
      BY <3>1, <3>2
    <3>4. Good(e[i - 1], i - 1)
      BY <3>3
    <3>5. Good(e[i - 1] \o s, (i - 1) + 1)
      BY <2>4, <3>3, <3>4, Zenon
    <3>6. e[i] = e[i - 1] \o s
      BY <2>3, <3>1, <3>2
    <3> QED
      BY <3>1, <3>3, <3>5, <3>6
  <2>7. Good(e[n], n)
    BY <1>4, <2>6
  <2>8. String!Repeated(s, n) = e[n]
    BY <1>1, <2>2
  <2>9. /\ Len(e[n]) = n * m
        /\ \A k \in 1 .. n : \A i \in 1 .. m : e[n][(k - 1) * m + i] = s[i]
    BY <2>7, Zenon DEF Good
  <2> QED
    BY <1>2, <2>8, <2>9, Zenon DEF m
<1> QED
  BY <1>3, <1>4

LEMMA RepeatRight ==
  ASSUME NEW s \in String!MaybeNull, NEW n \in Offsets, String!Repeat(s, n),
         String!Untracked \/ String!Tracks
  PROVE  (String!StringsAreRight)'
<1> DEFINE c == <<"repeat", s, n>>
           r == IF s = Null \/ n <= 0 THEN << >> ELSE String!Repeated(s, n)
           x == String!OrEmpty(s)
           m == IF n < 0 THEN 0 ELSE n
<1>1. String!Fails(c) \/ String!Duplicates(c, r)
  BY Zenon DEF String!Repeat
<1>2. n \in Int
  BY ArgumentsAssumption DEF String!Ints
<1>3. /\ Len(r) = m * Len(x)
      /\ \A k \in 1 .. m : \A i \in DOMAIN x : r[(k - 1) * Len(x) + i] = x[i]
  <2>1. CASE s = Null
    <3>1. r = << >> /\ x = << >>
      BY <2>1 DEF String!OrEmpty
    <3>2. Len(r) = 0 /\ Len(x) = 0 /\ DOMAIN x = {} /\ m * 0 = 0
      BY <1>2, <3>1
    <3> QED
      BY <3>2
  <2>2. CASE s # Null /\ n <= 0
    <3>1. r = << >> /\ m = 0 /\ Len(x) \in Nat
      BY <1>2, <2>2, OrEmptyIs
    <3>2. Len(r) = 0 /\ 0 * Len(x) = 0 /\ 1 .. 0 = {}
      BY <3>1
    <3> QED
      BY <3>1, <3>2
  <2>3. CASE s # Null /\ n > 0
    <3>1. x = s /\ s \in Seq(Nat) /\ m = n /\ n \in Nat /\ ~(n <= 0)
      BY <1>2, <2>3, OrEmptyIs, ArgumentsAre
    <3>2. r = String!Repeated(s, n)
      BY <2>3, <3>1
    <3> HIDE DEF r, x, m
    <3> QED
      BY <3>1, <3>2, CopiesAre
  <2> QED
    BY <1>2, <2>1, <2>2, <2>3
<1> HIDE DEF r
<1>4. call' = c /\ (result' # Null => result' = r /\ buffer' = Len(r) + 1)
  BY <1>1, Answered, Zenon
<1>5. call'[1] = "repeat" /\ call'[2] = s /\ call'[3] = n
  BY <1>4
<1>6. result' # Null => (String!RepeatIsRight)'
  <2> SUFFICES ASSUME result' # Null PROVE (String!RepeatIsRight)'
    OBVIOUS
  <2>1. result' = r
    BY <1>4
  <2> QED
    BY <1>3, <1>5, <2>1, Zenon DEF String!RepeatIsRight
<1> QED
  BY <1>4, <1>5, <1>6, Closes, TracksOne

\* The stretch from the first character that is no blank to the last.
LEMMA TrimRight ==
  ASSUME NEW s \in String!MaybeNull, String!Trim(s)
  PROVE  (String!StringsAreRight)'
<1> DEFINE c == <<"trim", s>>
           inked == IF s = Null THEN {} ELSE {i \in DOMAIN s : s[i] \notin Blanks}
           r == IF inked = {} THEN << >> ELSE SubSeq(s, String!Min(inked), String!Max(inked))
           x == String!OrEmpty(s)
           Stretch(first, n) ==
             /\ r = SubSeq(x, first + 1, first + n)
             /\ \A i \in DOMAIN x : x[i] \notin Blanks => i \in first + 1 .. first + n
             /\ n > 0 => r[1] \notin Blanks /\ r[n] \notin Blanks
<1>1. String!Fails(c) \/ String!Duplicates(c, r)
  BY Zenon DEF String!Trim
<1>2. x \in Seq(Nat) /\ inked = {i \in DOMAIN x : x[i] \notin Blanks}
  <2>1. CASE s = Null
    BY <2>1 DEF String!OrEmpty
  <2>2. CASE s # Null
    BY <2>2, OrEmptyIs, ArgumentsAre
  <2> QED
    BY <2>1, <2>2
<1>3. \E first \in 0 .. Len(x) : Stretch(first, Len(r))
  <2>1. CASE inked = {}
    <3>1. r = << >> /\ Len(r) = 0 /\ 0 \in 0 .. Len(x)
      BY <1>2, <2>1
    <3>2. SubSeq(x, 0 + 1, 0 + 0) = << >>
      BY <1>2
    <3>3. Stretch(0, 0)
      BY <1>2, <2>1, <3>1, <3>2
    <3> QED
      BY <3>1, <3>3
  <2>2. CASE inked # {}
    <3>1. s # Null /\ x = s
      BY <2>2, OrEmptyIs
    <3> DEFINE m == Len(x)
    <3>2. m \in Nat /\ DOMAIN x = 1 .. m /\ inked \subseteq 1 .. m
      BY <1>2
    <3> HIDE DEF inked, x, m
    <3>3. inked \subseteq Nat /\ inked \subseteq Int /\ inked \subseteq 0 .. m
      BY <3>2
    <3>4. PICK lo \in inked : \A j \in inked : lo <= j
      BY <2>2, <3>3, LeastNatural
    <3>5. PICK hi \in inked : \A j \in inked : j <= hi
      BY <2>2, <3>2, <3>3, GreatestUpTo
    <3>6. String!Min(inked) = lo /\ String!Max(inked) = hi
      <4>1. (CHOOSE y \in inked : \A z \in inked : y =< z) = lo
        BY <3>3, <3>4, MinIs
      <4>2. (CHOOSE y \in inked : \A z \in inked : y >= z) = hi
        BY <3>3, <3>5, MaxIs
      <4> QED
        BY <4>1, <4>2, Zenon DEF String!Min, String!Max
    <3>7. r = SubSeq(x, lo, hi)
      BY <2>2, <3>1, <3>6
    <3> HIDE DEF r
    <3>8. lo \in 1 .. m /\ hi \in lo .. m
      BY <3>2, <3>4, <3>5
    <3>9. /\ Len(r) = hi - lo + 1
          /\ r[1] = x[lo] /\ r[hi - lo + 1] = x[hi]
      BY <1>2, <3>2, <3>7, <3>8 DEF m
    <3>10. /\ (lo - 1) + 1 = lo /\ (lo - 1) + (hi - lo + 1) = hi /\ lo - 1 \in 0 .. m
      BY <3>2, <3>8
    <3>11. x[lo] \notin Blanks /\ x[hi] \notin Blanks
      BY <1>2, <3>4, <3>5
    <3>12. \A i \in DOMAIN x : x[i] \notin Blanks => i \in lo .. hi
      <4>1. \A i \in DOMAIN x : x[i] \notin Blanks => i \in inked
        BY <1>2
      <4>2. \A i \in inked : i \in lo .. hi
        BY <3>3, <3>4, <3>5
      <4> QED
        BY <4>1, <4>2
    <3>13. Stretch(lo - 1, Len(r))
      BY <3>7, <3>9, <3>10, <3>11, <3>12
    <3> QED
      BY <3>10, <3>13 DEF m
  <2> QED
    BY <2>1, <2>2
<1> HIDE DEF r
<1>4. call' = c /\ (result' # Null => result' = r /\ buffer' = Len(r) + 1)
  BY <1>1, Answered, Zenon
<1>5. call'[1] = "trim" /\ call'[2] = s
  BY <1>4
<1>6. result' # Null => (String!TrimIsRight)'
  BY <1>3, <1>4, <1>5, Zenon DEF String!TrimIsRight
<1>7. String!Untracked \/ String!Tracks
  BY DEF String!Trim
<1> QED
  BY <1>4, <1>5, <1>6, <1>7, Closes, TracksOne

\* The first occurrence, or -1.
LEMMA IndexRight ==
  ASSUME NEW s \in String!MaybeNull, NEW t \in String!MaybeNull, String!IndexOf(s, t),
         String!Untracked \/ String!Tracks
  PROVE  (String!StringsAreRight)'
<1> DEFINE r == IF s = Null \/ t = Null THEN -1
                ELSE IF String!Found(s, t, 0) THEN String!Strstr(s, t, 0) ELSE -1
           at == IF Null \in {s, t} THEN {} ELSE {j \in 0 .. Len(s) - Len(t) : String!Occurs(s, t, j)}
<1>1. String!Answers(<<"index_of", s, t>>, r, 0)
  BY Zenon DEF String!IndexOf
<1>2. IF at = {} THEN r = -1 ELSE r \in at /\ \A j \in at : r <= j
  <2>1. CASE s = Null \/ t = Null
    BY <2>1
  <2>2. CASE s # Null /\ t # Null
    <3>1. s \in Seq(Nat) /\ t \in Seq(Nat) /\ 0 \in Nat
      BY <2>2, ArgumentsAre
    <3>2. at = {j \in 0 .. Len(s) - Len(t) : String!Occurs(s, t, j)}
      BY <2>2
    <3> HIDE DEF at
    <3>3. String!Found(s, t, 0) <=> at # {}
      BY <3>2, Zenon DEF String!Found
    <3>4. String!Found(s, t, 0) => String!Strstr(s, t, 0) \in at /\ \A j \in at : String!Strstr(s, t, 0) <= j
      BY <3>1, <3>2, StrstrIs
    <3> QED
      BY <2>2, <3>3, <3>4
  <2> QED
    BY <2>1, <2>2
<1> HIDE DEF r
<1>3. call'[1] = "index_of" /\ call'[2] = s /\ call'[3] = t /\ result' = r
  BY <1>1 DEF String!Answers
<1>4. (String!IndexIsRight)'
  BY <1>2, <1>3, Zenon DEF String!IndexIsRight
<1> QED
  BY <1>3, <1>4, Closes, TracksOne

-----------------------------------------------------------------------------
\* An offset is in the slice if it lies between the clamped bounds.
LEMMA SliceRight ==
  ASSUME NEW s \in String!MaybeNull, NEW start \in Offsets, NEW end \in Offsets,
         String!SliceCall(s, start, end), String!Untracked \/ String!Tracks
  PROVE  (String!StringsAreRight)'
<1> DEFINE c == <<"slice", s, start, end>>
           r == IF s = Null THEN << >> ELSE String!SliceOf(s, start, end)
<1>1. String!Fails(c) \/ String!Duplicates(c, r)
  BY Zenon DEF String!SliceCall
<1>2. call' = c /\ (result' # Null => result' = r /\ buffer' = Len(r) + 1)
  <2> HIDE DEF r
  <2> QED
    BY <1>1, Answered, Zenon
<1>5. call'[1] = "slice" /\ call'[2] = s /\ call'[3] = start /\ call'[4] = end
  BY <1>2
<1>3. ASSUME result' # Null
      PROVE  (String!SliceIsRight)'
  <2> DEFINE z == String!OrEmpty(s)
  <2>2. z \in Seq(Nat) /\ Len(z) \in Nat
    BY OrEmptyIs
  <2> DEFINE n == Len(z)
             low == IF start < 0 THEN n + start ELSE start
             high == IF end < 0 THEN n + end ELSE end
             from == IF low < 0 THEN 0 ELSE low
             to == IF high > n THEN n ELSE high
             x == IF from >= to THEN << >> ELSE SubSeq(z, from + 1, to)
  <2>3. start \in Int /\ end \in Int
    BY ArgumentsAssumption DEF String!Ints
  <2>1. x = String!SliceOf(z, start, end)
    BY Zenon DEF String!SliceOf, String!Slice
  <2>8. ASSUME s # Null
        PROVE  result' = x
    <3>1. z = s
      BY <2>8, OrEmptyIs
    <3>2. r = String!SliceOf(s, start, end)
      BY <2>8
    <3> HIDE DEF x, r
    <3> QED
      BY <1>2, <1>3, <2>1, <3>1, <3>2
  <2>9. ASSUME s = Null
        PROVE  result' = x
    <3>1. z = << >> /\ n = 0
      BY <2>9, OrEmptyIs
    <3>2. to <= 0 /\ from >= 0 /\ to \in Int /\ from \in Int
      BY <2>3, <3>1
    <3>3. x = << >>
      BY <3>2
    <3>4. r = << >>
      BY <2>9
    <3> HIDE DEF x, r
    <3> QED
      BY <1>2, <1>3, <3>3, <3>4
  <2> HIDE DEF x
  <2>4. result' = x
    BY <2>8, <2>9
  <2> HIDE DEF z
  <2>5. /\ low \in Int /\ high \in Int /\ from \in Nat /\ to \in Int /\ to <= n
        /\ \A i \in 0 .. n - 1 : String!InSlice(i, z, start, end) <=> from <= i /\ i < to
    <3>1. low \in Int /\ high \in Int /\ from \in Nat /\ to \in Int /\ to <= n
      BY <2>2, <2>3
    <3>2. ASSUME NEW i \in 0 .. n - 1
          PROVE  String!InSlice(i, z, start, end) <=> from <= i /\ i < to
      BY <2>2, <2>3 DEF String!InSlice
    <3> QED
      BY <3>1, <3>2
  <2>6. \E first \in 0 .. n :
          /\ x = SubSeq(z, first + 1, first + Len(x))
          /\ \A i \in 0 .. n - 1 :
               String!InSlice(i, z, start, end) <=> i \in first .. first + Len(x) - 1
    <3> HIDE DEF low, high, from, to
    <3>1. n \in Nat
      BY <2>2
    <3>2. CASE from >= to
      <4>1. x = << >> /\ Len(x) = 0
        BY <3>2 DEF x
      <4>2. x = SubSeq(z, 0 + 1, 0 + Len(x))
        BY <4>1
      <4>3. \A i \in 0 .. n - 1 : ~String!InSlice(i, z, start, end)
        BY <2>5, <3>1, <3>2
      <4>4. 0 \in 0 .. n /\ 0 .. 0 + Len(x) - 1 = {}
        BY <3>1, <4>1
      <4> QED
        BY <4>2, <4>3, <4>4
    <3>3. CASE from < to
      <4>1. x = SubSeq(z, from + 1, to)
        BY <2>5, <3>3 DEF x
      <4> HIDE DEF n
      <4>2. from + 1 \in Int /\ to \in Int /\ \A i \in from + 1 .. to : z[i] \in Nat
        BY <2>2, <2>5, <3>1, <3>3 DEF n
      <4>3. Len(x) = to - from
        <5>1. Len(x) = IF from + 1 <= to THEN to - (from + 1) + 1 ELSE 0
          BY <4>1, <4>2, SubSeqProperties
        <5> QED
          BY <2>5, <3>3, <5>1
      <4>4. from \in 0 .. n /\ from + Len(x) = to
        BY <2>5, <3>1, <3>3, <4>3
      <4>5. x = SubSeq(z, from + 1, from + Len(x))
        BY <4>1, <4>4
      <4>6. \A i \in 0 .. n - 1 :
               String!InSlice(i, z, start, end) <=> i \in from .. from + Len(x) - 1
        BY <2>5, <3>1, <4>4
      <4> QED
        BY <4>4, <4>5, <4>6
    <3>4. from >= to \/ from < to
      BY <2>5
    <3> QED
      BY <3>2, <3>3, <3>4, Zenon
  <2> QED
    BY <1>5, <2>4, <2>6, Zenon DEF String!SliceIsRight, z
<1>4. result' # Null => buffer' = Len(result') + 1
  BY <1>2, Zenon
<1> HIDE DEF r
<1> QED
  BY <1>3, <1>4, <1>5, Closes, TracksOne

-----------------------------------------------------------------------------
\* The pieces of the leftmost cut joined by the replacement, in a buffer of their length.
LEMMA ReplaceRight ==
  ASSUME NEW s \in String!MaybeNull, NEW t \in String!MaybeNull, NEW to \in String!MaybeNull,
         String!Replace(s, t, to), String!Untracked \/ String!Tracks
  PROVE  (String!StringsAreRight)'
<1> DEFINE c == <<"replace", s, t, to>>
           q == String!Matches(s, t)
           built == [k \in 1 .. Len(q) + 1 |->
                       Piece(s, t, q, k) \o (IF k > Len(q) THEN << >> ELSE to)]
           text == String!FlattenSeq(built)
           w == String!SizeLimit
           size == (Len(s) + Len(q) * ((Len(to) - Len(t)) % w) + 1) % w
<1>1. \/ String!Fails(c)
      \/ (s = Null \/ t = Null \/ to = Null \/ t = << >>) /\ String!Duplicates(c, String!OrEmpty(s))
      \/ s # Null /\ t \notin {Null, << >>} /\ to # Null /\ String!Answers(c, text, size)
  BY Zenon DEF String!Replace, Piece, Begins, Stops
<1> HIDE DEF text, size
<1>2. call' = c
  BY <1>1 DEF String!Fails, String!Duplicates, String!Answers
<1>3. call'[1] = "replace" /\ call'[2] = s /\ call'[3] = t /\ call'[4] = to
  BY <1>2
<1>4. CASE String!Fails(c)
  <2>1. result' = Null
    BY <1>4 DEF String!Fails, String!Answers
  <2> QED
    BY <1>3, <2>1, Closes, TracksOne
<1>5. CASE (s = Null \/ t = Null \/ to = Null \/ t = << >>) /\ String!Duplicates(c, String!OrEmpty(s))
  <2>1. result' = String!OrEmpty(s) /\ buffer' = Len(result') + 1
    BY <1>5 DEF String!Duplicates, String!Answers
  <2>2. (String!ReplaceIsRight)'
    <3>1. Null \in {s, t, to} \/ t = << >>
      BY <1>5
    <3> QED
      BY <1>3, <2>1, <3>1, Zenon DEF String!ReplaceIsRight
  <2> QED
    BY <1>3, <2>1, <2>2, Closes, TracksOne
<1>6. CASE s # Null /\ t \notin {Null, << >>} /\ to # Null /\ String!Answers(c, text, size)
  <2>1. result' = text /\ buffer' = size
    BY <1>6 DEF String!Answers
  <2>2. /\ s \in Seq(Nat) /\ t \in Seq(Nat) /\ to \in Seq(Nat)
        /\ s \in Arguments /\ to \in Arguments /\ t # << >>
    BY <1>6, ArgumentsAre
  <2>3. Len(t) # 0
    BY <2>2, EmptySeq
  <2>4. CutsFrom(q, s, t, 0)
    BY <2>2, <2>3, MatchesCut, Zenon
  <2> HIDE DEF q
  <2>5. /\ text = String!Join(String!Pieces(s, t, q), to) /\ text \in Seq(Nat)
        /\ Len(text) = Len(s) + Len(q) * (Len(to) - Len(t))
    <3>1. text = String!FlattenSeq(Replaced(s, t, q, to))
      BY DEF text, Replaced
    <3> HIDE DEF built
    <3>2. IsReplaced(String!FlattenSeq(Replaced(s, t, q, to)), s, t, q, to)
      BY <2>2, <2>3, <2>4, ReplacedIs, Zenon
    <3>3. IsReplaced(text, s, t, q, to)
      BY <3>1, <3>2, Zenon
    <3> QED
      BY <3>3, Zenon DEF IsReplaced
  <2>6. Len(q) \in 0 .. Len(s)
    BY <2>2, <2>3, <2>4, PieceIs, Zenon
  <2>7. q \in String!Cuts(s) /\ String!LeftmostCut(s, t, q)
    BY <2>2, <2>3, <2>4, LeftmostIs, Zenon
  <2>8. (String!ReplaceIsRight)'
    <3>1. ~(Null \in {s, t, to} \/ t = << >>)
      BY <1>6
    <3> QED
      BY <1>3, <2>1, <2>5, <2>7, <3>1, Zenon DEF String!ReplaceIsRight
  <2>9. size = Len(text) + 1
    <3> DEFINE n == Len(s)
               r == Len(q)
               g == Len(to)
               h == Len(t)
    <3>1. n \in Nat /\ r \in 0 .. n /\ g \in Nat /\ h \in Nat /\ w \in Nat \ {0}
      BY <2>2, <2>6, LimitIs
    <3>2. (n + 1) * (g + 1) < w
      <4>1. n + 1 < IntLimit /\ g + 1 < IntLimit /\ IntLimit \in Nat
        BY <2>2, ArgumentsAssumption
      <4>2. w = 4 * (IntLimit * IntLimit)
        BY LimitIs
      <4> HIDE DEF n, g, w
      <4>3. (n + 1) * (g + 1) <= (n + 1) * IntLimit /\ (n + 1) * IntLimit <= IntLimit * IntLimit
        <5>1. (n + 1) * (IntLimit - (g + 1)) >= 0 /\ (IntLimit - (n + 1)) * IntLimit >= 0
          BY <3>1, <4>1
        <5>2. /\ (n + 1) * (IntLimit - (g + 1)) = (n + 1) * IntLimit - (n + 1) * (g + 1)
              /\ (IntLimit - (n + 1)) * IntLimit = IntLimit * IntLimit - (n + 1) * IntLimit
          BY <3>1, <4>1
        <5>3. (n + 1) * IntLimit \in Int /\ (n + 1) * (g + 1) \in Int /\ IntLimit * IntLimit \in Int
          BY <3>1, <4>1
        <5> QED
          BY <5>1, <5>2, <5>3
      <4>4. (n + 1) * IntLimit \in Int /\ (n + 1) * (g + 1) \in Int /\ IntLimit * IntLimit \in Nat \ {0}
        BY <3>1, <4>1, LimitIs
      <4> QED
        BY <4>2, <4>3, <4>4
    <3>3. Len(text) \in Nat /\ Len(text) = n + r * (g - h)
      BY <2>5
    <3>4. size = (n + r * ((g - h) % w) + 1) % w
      BY DEF size
    <3> HIDE DEF n, r, g, h, w
    <3>5. n + r * (g - h) <= n + n * g
      <4>1. r * g <= n * g
        <5>1. (n - r) * g >= 0
          BY <3>1
        <5>2. (n - r) * g = n * g - r * g /\ n * g \in Int /\ r * g \in Int
          BY <3>1
        <5> QED
          BY <5>1, <5>2
      <4>2. r * h >= 0 /\ r * (g - h) = r * g - r * h /\ r * g \in Int /\ r * h \in Int /\ n * g \in Int
        BY <3>1
      <4> QED
        BY <3>1, <4>1, <4>2
    <3>6. (n + 1) * (g + 1) = n * g + n + g + 1 /\ n * g \in Int /\ r * (g - h) \in Int
      BY <3>1
    <3>7. n + r * (g - h) \in 0 .. w - 2 /\ g - h \in Int
      BY <3>1, <3>2, <3>3, <3>5, <3>6
    <3>8. (n + r * ((g - h) % w) + 1) % w = (n + r * (g - h)) + 1
      <4>1. r \in Nat
        BY <3>1
      <4> QED
        BY <3>1, <3>7, <4>1, SizeIs, Zenon
    <3> QED
      BY <3>3, <3>4, <3>8
  <2> QED
    BY <1>3, <2>1, <2>8, <2>9, Closes, TracksOne
<1> QED
  BY <1>1, <1>4, <1>5, <1>6

-----------------------------------------------------------------------------
\* The pieces before the failing one and the rest; without a failure all of the pieces.
LEMMA SplitRight ==
  ASSUME NEW s \in String!MaybeNull, NEW t \in String!MaybeNull, String!Split(s, t)
  PROVE  (String!StringsAreRight)'
<1> DEFINE q == String!Matches(s, t)
           c(f) == <<"split", s, t, f>>
           none == [count |-> 0, parts |-> << >>]
           whole(f) == [k \in 1 .. f - 1 |-> String!Slice(s, Begins(q, t, k), q[k])]
           rest(f) == String!Slice(s, Begins(q, t, f), Len(s))
           reply(f, last) == [count |-> Len(q) + 1, parts |-> whole(f) \o last]
           last(f, d) == IF d THEN <<rest(f)>> ELSE <<Null>>
           Cut(f, d) == /\ String!Answers(c(f), reply(f, last(f, d)), Len(q) + 1)
                        /\ \/ String!Untracked
                           \/ tracked' = whole(f) \o (IF d THEN last(f, d) ELSE << >>)
           nothing == String!Answers(c(0), none, 0) /\ String!Untracked
           given == s # Null /\ t \notin {Null, << >>}
<1>1. nothing \/ (given /\ \E f \in 1 .. Len(q) + 1, d \in BOOLEAN : Cut(f, d))
  BY Zenon DEF String!Split, Begins
<1>2. CASE nothing
  <2>1. /\ call'[1] = "split" /\ call'[2] = s /\ call'[3] = t
        /\ result'.count = 0 /\ result'.parts = << >> /\ tracked' = << >>
    BY <1>2 DEF String!Answers, String!Untracked
  <2>2. (String!SplitIsRight)'
    BY <2>1, Zenon DEF String!SplitIsRight
  <2>3. (String!TracksWhatItMakes)'
    BY <2>1 DEF String!TracksWhatItMakes
  <2> QED
    BY <2>1, <2>2, <2>3, Closes
<1>3. CASE given /\ \E f \in 1 .. Len(q) + 1, d \in BOOLEAN : Cut(f, d)
  <2>1. s \in Seq(Nat) /\ t \in Seq(Nat) /\ t # << >>
    BY <1>3, ArgumentsAre
  <2>2. Len(t) # 0
    BY <2>1, EmptySeq
  <2>3. CutsFrom(q, s, t, 0)
    BY <2>1, <2>2, MatchesCut, Zenon
  <2> HIDE DEF q
  <2>4. q \in String!Cuts(s) /\ String!LeftmostCut(s, t, q)
    BY <2>1, <2>2, <2>3, LeftmostIs, Zenon
  <2>5. Len(q) \in Nat
    BY <2>3 DEF CutsFrom
  <2>6. PICK f \in 1 .. Len(q) + 1, duplicated \in BOOLEAN : Cut(f, duplicated)
    BY <1>3
  <2> DEFINE end == last(f, duplicated)
             parts == whole(f) \o end
  <2>7. /\ call' = c(f) /\ result'.count = Len(q) + 1 /\ result'.parts = parts
        /\ tracked' = << >> \/ tracked' = whole(f) \o (IF duplicated THEN end ELSE << >>)
    BY <2>6 DEF String!Answers, String!Untracked
  <2>8. call'[1] = "split" /\ call'[2] = s /\ call'[3] = t /\ call'[4] = f
    BY <2>7
  <2>9. f \in Nat \ {0} /\ f <= Len(q) + 1
    BY <2>5
  <2> DEFINE x == IF duplicated THEN rest(f) ELSE Null
  <2>10. end = <<x>>
    OBVIOUS
  <2> DEFINE u == whole(f)
  <2>14. u \in Seq({u[k] : k \in 1 .. f - 1}) /\ Len(u) = f - 1 /\ \A k \in 1 .. f - 1 : u[k] = String!Slice(s, Begins(q, t, k), q[k])
    <3> DEFINE g(k) == String!Slice(s, Begins(q, t, k), q[k])
    <3>2. u = [k \in 1 .. f - 1 |-> g(k)]
      OBVIOUS
    <3> HIDE DEF g, u
    <3>3. Len(u) = f - 1 /\ \A k \in 1 .. f - 1 : u[k] = g(k)
      BY <2>9, <3>2
    <3>4. u \in Seq({u[k] : k \in 1 .. f - 1})
      BY <2>9, <3>2, <3>3
    <3> QED
      BY <3>3, <3>4 DEF g
  <2>11. parts = [k \in 1 .. f |-> IF k < f THEN String!Slice(s, Begins(q, t, k), q[k]) ELSE x]
    <3> HIDE DEF u, end, x
    <3>2. u \o end = u \o <<x>>
      BY <2>10
    <3>3. u \o <<x>> = [k \in 1 .. Len(u) + 1 |-> IF k <= Len(u) THEN u[k] ELSE x]
      BY <2>9, <2>14
    <3>4. Len(u) + 1 = f /\ \A k \in 1 .. f : k <= Len(u) <=> k < f
      BY <2>9, <2>14
    <3>5. [k \in 1 .. Len(u) + 1 |-> IF k <= Len(u) THEN u[k] ELSE x]
            = [k \in 1 .. f |-> IF k < f THEN String!Slice(s, Begins(q, t, k), q[k]) ELSE x]
      BY <2>9, <2>14, <3>4
    <3> QED
      BY <3>2, <3>3, <3>5 DEF u
  <2> HIDE DEF parts
  <2>15. Len(parts) = f /\ DOMAIN parts = 1 .. f /\ parts[f] = x /\ \A k \in 1 .. f - 1 : parts[k] = u[k]
    <3> HIDE DEF u, x
    <3> QED
      BY <2>9, <2>11, <2>14
  <2>16. \A k \in 1 .. Len(q) + 1 : String!Pieces(s, t, q)[k] = Piece(s, t, q, k)
    BY Zenon DEF String!Pieces, Piece, Begins, Stops
  <2>17. \A k \in 1 .. f - 1 : parts[k] = String!Pieces(s, t, q)[k]
    <3>1. \A k \in 1 .. f - 1 : k \in 1 .. Len(q) + 1 /\ Stops(s, q, k) = q[k]
      BY <2>5, <2>9 DEF Stops
    <3> HIDE DEF u
    <3> QED
      BY <2>14, <2>15, <2>16, <3>1 DEF Piece
  <2>18. (String!TracksWhatItMakes)'
    <3>1. CASE tracked' = << >>
      BY <3>1 DEF String!TracksWhatItMakes
    <3>2. CASE duplicated /\ tracked' = u \o end
      BY <2>7, <2>8, <3>2 DEF parts, String!TracksWhatItMakes
    <3>3. CASE ~duplicated /\ tracked' = u \o << >>
      <4>1. parts[f] = Null
        BY <2>15, <3>3
      <4> HIDE DEF u
      <4>2. tracked' = u
        BY <2>14, <3>3
      <4>3. \A k \in DOMAIN parts : parts[k] # Null => k \in DOMAIN tracked' /\ tracked'[k] = parts[k]
        BY <2>9, <2>14, <2>15, <4>1, <4>2
      <4> QED
        BY <2>7, <2>8, <4>3, Zenon DEF String!TracksWhatItMakes
    <3> QED
      BY <2>7, <3>1, <3>2, <3>3
  <2>13. ASSUME parts[f] # Null
         PROVE  String!Join(parts, t) = s /\ (f = Len(q) + 1 => parts = String!Pieces(s, t, q))
    <3>1. x = rest(f)
      BY <2>13, <2>15
    <3>2. \A k \in 1 .. f : (k < f => Stops(s, q, k) = q[k]) /\ (~(k < f) => k = f)
      BY <2>5, <2>9 DEF Stops
    <3> HIDE DEF x
    <3>3. parts = Parted(s, t, q, f)
      <4>1. \A k \in 1 .. f : (IF k < f THEN String!Slice(s, Begins(q, t, k), q[k]) ELSE x)
                 = IF k < f THEN Piece(s, t, q, k) ELSE String!Slice(s, Begins(q, t, k), Len(s))
        BY <3>1, <3>2, Zenon DEF Piece
      <4> QED
        BY <2>11, <4>1 DEF Parted
    <3>4. String!Join(parts, t) = s
      BY <2>1, <2>2, <2>3, <3>3, PartsJoin, Zenon
    <3>6. ASSUME f = Len(q) + 1
          PROVE  parts = String!Pieces(s, t, q)
      <4>1. Stops(s, q, f) = Len(s)
        BY <2>5, <3>6 DEF Stops
      <4>2. \A k \in 1 .. f : (IF k < f THEN Piece(s, t, q, k)
                               ELSE String!Slice(s, Begins(q, t, k), Len(s))) = Piece(s, t, q, k)
        BY <3>2, <4>1, Zenon DEF Piece
      <4>3. Parted(s, t, q, f) = [k \in 1 .. f |-> Piece(s, t, q, k)]
        BY <4>2 DEF Parted
      <4>4. String!Pieces(s, t, q) = [k \in 1 .. Len(q) + 1 |-> Piece(s, t, q, k)]
        BY Zenon DEF String!Pieces, Piece, Begins, Stops
      <4> QED
        BY <3>3, <3>6, <4>3, <4>4, Zenon
    <3> QED
      BY <3>4, <3>6
  <2>19. (String!SplitIsRight)'
    <3>1. /\ f \in 1 .. Len(q) + 1 /\ (f = Len(q) + 1 => f = Len(q) + 1)
          /\ ~(Null \in {s, t} \/ t = << >>)
      BY <1>3
    <3> HIDE DEF u, x, end
    <3> QED
      BY <2>4, <2>7, <2>8, <2>13, <2>15, <2>17, <3>1, Zenon DEF String!SplitIsRight
  <2> QED
    BY <2>8, <2>18, <2>19, Closes
<1> QED
  BY <1>1, <1>2, <1>3, Zenon

-----------------------------------------------------------------------------
\* A sum or product of ints fits in the wider type.
LEMMA WideIs ==
  ASSUME NEW v \in Int, -(2 * (IntLimit * IntLimit)) <= v, v < 2 * (IntLimit * IntLimit)
  PROVE  String!Wide(v) = v
<1> DEFINE n == IntLimit * IntLimit
<1>1. n \in Nat \ {0} /\ String!SizeLimit = 4 * n
  BY LimitIs
<1>2. -(2 * n) <= v /\ v < 2 * n
  OBVIOUS
<1> HIDE DEF n
<1>3. (4 * n) \div 2 = 2 * n
  BY <1>1
<1>4. (v + 2 * n) % (4 * n) = v + 2 * n
  <2> DEFINE w == 4 * n
             x == v + 2 * n
  <2>1. w \in Nat \ {0} /\ x \in 0 .. w - 1
    BY <1>1, <1>2
  <2> HIDE DEF w, x
  <2>2. x % w = x
    BY <2>1
  <2> QED
    BY <2>2 DEF w, x
<1>5. (v + 2 * n) - 2 * n = v
  BY <1>1
<1> QED
  BY <1>1, <1>3, <1>4, <1>5, Zenon DEF String!Wide

\* The bounds of a sum and of a product of ints.
LEMMA ProductIs ==
  ASSUME NEW l \in Nat \ {0}, NEW a \in -l .. l - 1, NEW b \in -l .. l - 1
  PROVE  /\ a + b \in Int /\ -(2 * (l * l)) <= a + b /\ a + b < 2 * (l * l)
         /\ a * b \in Int /\ -(2 * (l * l)) <= a * b /\ a * b < 2 * (l * l)
<1>1. l \in Int /\ a \in Int /\ b \in Int /\ l - a > 0 /\ l + a >= 0 /\ l - b > 0 /\ l + b >= 0
  OBVIOUS
<1>2. a * b \in Int /\ l * l \in Int
  BY <1>1
<1>3. (l - a) * (l + b) >= 0 /\ (l + a) * (l - b) >= 0
  BY <1>1
<1>4. (l - a) * (l - b) >= 0 /\ (l + a) * (l + b) >= 0
  BY <1>1
<1>5. /\ (l - a) * (l + b) = l * l + l * b - l * a - a * b
      /\ (l + a) * (l - b) = l * l - l * b + l * a - a * b
      /\ (l - a) * (l - b) = l * l - l * b - l * a + a * b
      /\ (l + a) * (l + b) = l * l + l * b + l * a + a * b
  BY <1>1
<1>6. a * b <= l * l /\ -(l * l) <= a * b
  <2> DEFINE x == l * l
             y == a * b
             u == l * a
             v == l * b
  <2>1. /\ x \in Int /\ y \in Int /\ u \in Int /\ v \in Int
        /\ (x + v) - u - y >= 0 /\ (x - v) + u - y >= 0
        /\ (x - v) - u + y >= 0 /\ x + v + u + y >= 0
    BY <1>1, <1>2, <1>3, <1>4, <1>5
  <2> HIDE DEF x, y, u, v
  <2>2. y <= x /\ -x <= y
    BY <2>1
  <2> QED
    BY <2>2 DEF x, y
<1>7. l <= l * l
  <2>1. l * (l - 1) >= 0 /\ l * l = l * (l - 1) + l
    BY <1>1
  <2> QED
    BY <1>1, <2>1
<1> DEFINE x == l * l
           y == a * b
<1>8. x \in Int /\ y \in Int /\ y <= x /\ -x <= y /\ l <= x /\ l > 0
  BY <1>2, <1>6, <1>7
<1> HIDE DEF x, y
<1>9. -(2 * x) <= a + b /\ a + b < 2 * x /\ -(2 * x) <= y /\ y < 2 * x
  BY <1>1, <1>8
<1> QED
  BY <1>1, <1>2, <1>9 DEF x, y

\* So nothing is lost before the comparison with the bounds of an int.
LEMMA CheckedRight ==
  ASSUME NEW n \in {"add", "mul"}, NEW a \in String!Ints, NEW b \in String!Ints,
         NEW r, r = IF n = "add" THEN a + b ELSE a * b, String!Checked(n, a, b, r)
  PROVE  (String!StringsAreRight)'
<1>1. IntLimit \in Nat \ {0} /\ a \in -IntLimit .. IntLimit - 1 /\ b \in -IntLimit .. IntLimit - 1
  BY ArgumentsAssumption DEF String!Ints
<1>2. r \in Int /\ -(2 * (IntLimit * IntLimit)) <= r /\ r < 2 * (IntLimit * IntLimit)
  BY <1>1, ProductIs, Zenon
<1>3. String!Wide(r) = r
  BY <1>2, WideIs, Zenon
<1>4. call' = <<n, a, b>> /\ result' = IF r \in String!Ints THEN <<r>> ELSE Null
  BY <1>3 DEF String!Checked, String!Answers
<1>5. call'[1] = n /\ call'[2] = a /\ call'[3] = b
  BY <1>4
<1>6. (String!ArithmeticIsRight)'
  BY <1>4, <1>5 DEF String!ArithmeticIsRight, String!Ints
<1>7. String!Untracked
  BY DEF String!Checked
<1> QED
  BY <1>5, <1>6, <1>7, Closes, TracksOne

-----------------------------------------------------------------------------
\* Every call answers what it should: there is one in a behaviour, and it
\* depends on no other.
LEMMA StringsNext ==
  ASSUME String!StringsAreRight, [String!Next]_strings
  PROVE  (String!StringsAreRight)'
<1>1. CASE String!StringCall
  <2>5. String!Untracked \/ String!Tracks
    BY <1>1, Zenon DEF String!StringCall
  <2>1. CASE \E a, b \in String!MaybeNull : String!Concat(a, b) \/ String!IndexOf(a, b)
    BY <2>1, <2>5, ConcatRight, IndexRight
  <2>2. CASE \E s \in String!MaybeNull, n \in Offsets : String!Repeat(s, n)
    BY <2>2, <2>5, RepeatRight
  <2>3. CASE \E s \in String!MaybeNull, start, end \in Offsets : String!SliceCall(s, start, end)
    BY <2>3, <2>5, SliceRight
  <2>4. CASE \E s, from, to \in String!MaybeNull : String!Replace(s, from, to)
    BY <2>4, <2>5, ReplaceRight
  <2> QED
    BY <1>1, <2>1, <2>2, <2>3, <2>4, Zenon DEF String!StringCall
<1>2. CASE String!TrimCall
  BY <1>2, TrimRight DEF String!TrimCall
<1>3. CASE String!SplitCall
  BY <1>3, SplitRight DEF String!SplitCall
<1>4. CASE String!ArithmeticCall
  <2>1. PICK a \in String!Ints, b \in String!Ints :
           String!Checked("add", a, b, a + b) \/ String!Checked("mul", a, b, a * b)
    BY <1>4, Zenon DEF String!ArithmeticCall
  <2>2. CASE String!Checked("add", a, b, a + b)
    BY <2>2, CheckedRight
  <2>3. CASE String!Checked("mul", a, b, a * b)
    BY <2>3, CheckedRight
  <2> QED
    BY <2>1, <2>2, <2>3
<1>5. CASE UNCHANGED strings
  BY <1>5 DEF strings, String!StringsAreRight, String!TracksWhatItMakes, String!ArithmeticIsRight,
              String!IndexIsRight, String!ConcatIsRight, String!RepeatIsRight, String!TrimIsRight,
              String!SplitIsRight, String!SliceIsRight, String!ReplaceIsRight
<1> QED
  BY <1>1, <1>2, <1>3, <1>4, <1>5 DEF String!Next

-----------------------------------------------------------------------------
(***************************************************************************)
(* The parts side by side.                                                 *)
(***************************************************************************)
\* A part that runs leaves the containers as they are, or makes a step of theirs.
LEMMA PartsApart ==
  ASSUME [Step]_everything
  PROVE  [Next]_vars /\ [Lex!Next]_(Lex!vars)
<1>1. ContainerStep => Next /\ UNCHANGED <<src, pos, line, tokens, lexing>>
  BY DEF ContainerStep, lexer
<1>2. LexerStep => Lex!Next /\ vars' = vars
  BY DEF LexerStep
<1>3. StringStep \/ ConditionStep => vars' = vars /\ UNCHANGED <<src, pos, line, tokens, lexing>>
  BY DEF StringStep, ConditionStep, lexer
<1>4. UNCHANGED everything => vars' = vars /\ UNCHANGED <<src, pos, line, tokens, lexing>>
  BY DEF everything, lexer
<1> QED
  BY <1>1, <1>2, <1>3, <1>4 DEF Step, Lex!vars

\* However the parts run, the containers run as they do alone.
LEMMA ContainersAlone == Behaviour => Spec
<1>1. Start => Init
  BY DEF Start
<1>2. [Step]_everything => [Next]_vars
  BY PartsApart
<1> QED
  BY <1>1, <1>2, PTL DEF Behaviour, Spec

\* No container accesses memory beyond its block; the string of a builder ends
\* in it; a set and a sorted vector stay ordered, a set without duplicates; no
\* node of a list is lost, used after it is freed, or linked one way only; the
\* padding of a bitset stays zero, unless the set was complemented or combined
\* with one that was (frt.c:642-857, 994-1367).
THEOREM RepresentationInOrder == Behaviour => []WellFormed
<1>1. IInv => WellFormed
  <2> SUFFICES ASSUME IInv PROVE WellFormed
    OBVIOUS
  <2>1. kind = "list" => List!WellFormed
    BY ListOrder DEF IInv
  <2> QED
    BY <2>1 DEF IInv, WellFormed, ArrayInv, BitsInv
<1> QED
  BY <1>1, Invariance, ContainersAlone, PTL

\* Whatever is stored and whichever calls are made in which order, every
\* container answers and holds what the sequence, set, ordered sequence or pair
\* of sets of bits would, if the comparator of a SortedVec is the order of the
\* numbers (README.md:159-171).  Where an allocation fails, the call answers so
\* and changes nothing, a build answers a null pointer (frt.c:840), or the
\* unchecked block is the end.  Two places are as weak as the code is, and say
\* so in Collection: counting a set whose padding was set, and combining into
\* the last byte of a smaller set.
THEOREM CollectionImplemented ==
  ASSUME ByNumber
  PROVE  Behaviour => ImplementsCollection
<1>1. Init => Abstract!Init
  BY InitIs
<1>2. IInv /\ [Next]_vars => [Abstract!Next]_(Abstract!vars)
  BY StepIs
<1> QED
  BY <1>1, <1>2, Invariance, ContainersAlone, PTL DEF Spec, ImplementsCollection, Abstract!Spec

\* Whatever the text, its tokens are in order and apart, each is a longest
\* match and carries the line it ends on (lexer.hh:81-393).
THEOREM TokensInOrder == Behaviour => []TokensAreTheText
<1>1. Start => LexInv
  <2> SUFFICES ASSUME Start PROVE LexInv
    OBVIOUS
  <2>1. AnyText \in Texts
    BY TextsAssumption, Zenon DEF AnyText
  <2>2. src \in Texts
    BY <2>1 DEF Start
  <2> QED
    BY <2>2, LexInit DEF Start
<1>2. LexInv /\ [Step]_everything => LexInv'
  BY PartsApart, LexNext
<1>3. LexInv => TokensAreTheText
  BY ScannedIsRight DEF TokensAreTheText
<1> QED
  BY <1>1, <1>2, <1>3, PTL DEF Behaviour

\* Where a condition is read from left to right and the emitted code computes
\* it exactly, the arm that runs is the one that the condition chooses: the
\* checker's evaluator and the emitter's agree (checker.hh:66-244,
\* codegen.hh:3616-3842).
THEOREM EvaluatorsAgree == Behaviour => []FoldsAgree
<1>1. Start => FoldInv
  BY FoldInit
<1>2. FoldInv /\ [Step]_everything => FoldInv'
  <2>1. [Step]_everything => [Condition!Next]_conditions
    BY DEF Step, ContainerStep, StringStep, LexerStep, ConditionStep, everything
  <2> QED
    BY <2>1, FoldNext
<1>3. FoldInv => FoldsAgree
  BY FoldedIsTaken
<1> QED
  BY <1>1, <1>2, <1>3, PTL DEF Behaviour

\* Whatever the strings, offsets and the width of an int: a search answers the
\* first place where the text occurs; a concatenation, repetition, slice,
\* replacement or trimming that malloc provides for is the string that its name
\* or comment says, in a buffer that it and its terminator fill exactly; the
\* parts of a split are those of the text, and as many as the count says if
\* malloc fails for none of them; an arena gets what is made; and a checked sum
\* or product is exact or refused (frt.c:49-172, 420-503, 590-628).
THEOREM StringsInOrder == Behaviour => []StringsAreRight
<1>1. Start => String!StringsAreRight
  BY DEF Start, String!Init, String!StringsAreRight
<1>2. String!StringsAreRight /\ [Step]_everything => (String!StringsAreRight)'
  <2>1. [Step]_everything => [String!Next]_strings
    BY DEF Step, ContainerStep, StringStep, LexerStep, ConditionStep, everything
  <2> QED
    BY <2>1, StringsNext
<1>3. String!StringsAreRight => StringsAreRight
  BY DEF StringsAreRight
<1> QED
  BY <1>1, <1>2, <1>3, PTL DEF Behaviour
=============================================================================
