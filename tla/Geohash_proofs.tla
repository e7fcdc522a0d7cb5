--------------------------- MODULE Geohash_proofs ---------------------------
(***************************************************************************)
(* Proofs about the geohash of any position of any grid: the ranges that   *)
(* encode and decode halve are strips of the axis, a code is decoded to    *)
(* the strips its own halvings ended with, and positions of one cell have  *)
(* one code.  The recursive functions are reasoned about by induction on   *)
(* sets of naturals, from the well-foundedness of < on Nat.                *)
(***************************************************************************)
EXTENDS Geohash, WellFoundedInduction, SequenceTheorems, TLAPS

USE SideAssumption

-----------------------------------------------------------------------------
(* Induction and recursion *)

(* A set of naturals that is not empty has a least element.                 *)
LEMMA LeastNat ==
    ASSUME NEW T \in SUBSET Nat, T # {}
    PROVE  \E m \in T : \A k \in T : m <= k
<1>1. IsWellFoundedOn(OpToRel(<, Nat), Nat)
  BY NatLessThanWellFounded
<1>2. PICK m \in T : \A k \in T : <<k, m>> \notin OpToRel(<, Nat)
  BY <1>1, WFMin
<1>3. \A k \in T : ~ (k < m)
  BY <1>2 DEF OpToRel
<1>4. QED
  BY <1>3

(* Induction up to n: what holds at 0 and is passed on holds throughout.    *)
LEMMA UpTo ==
    ASSUME NEW n \in Nat, NEW T, 0 \in T, \A i \in 1..n : i - 1 \in T => i \in T
    PROVE  0..n \subseteq T
<1> DEFINE F == {i \in 0..n : i \notin T}
<1>1. SUFFICES ASSUME F # {}
               PROVE  FALSE
  OBVIOUS
<1>2. PICK m \in F : \A k \in F : m <= k
  <2>1. F \in SUBSET Nat
    OBVIOUS
  <2> HIDE DEF F
  <2>2. QED
    BY <1>1, <2>1, LeastNat
<1>3. m \in 1..n /\ m - 1 \notin F
  BY <1>2
<1>4. QED
  BY <1>2, <1>3

(* f goes from base by n steps, each of which may depend on its number.     *)
Iterated(n, S, base, step, f) ==
    /\ f \in [0..n -> S]
    /\ f[0] = base
    /\ \A i \in 1..n : f[i] = step[i][f[i - 1]]

(* There are such steps from any base.                                      *)
LEMMA Iterates ==
    ASSUME NEW n \in Nat, NEW S, NEW base \in S, NEW step,
           \A i \in 1..n, x \in S : step[i][x] \in S
    PROVE  \E f : Iterated(n, S, base, step, f)
<1> DEFINE T == {k \in 0..n : \E f : Iterated(k, S, base, step, f)}
<1>1. 0 \in T
  <2>1. Iterated(0, S, base, step, [i \in 0..0 |-> base])
    BY DEF Iterated
  <2>2. QED
    BY <2>1
<1>2. ASSUME NEW k \in 1..n, k - 1 \in T
      PROVE  k \in T
  <2>1. PICK f : Iterated(k - 1, S, base, step, f)
    BY <1>2
  <2>2. /\ f \in [0..(k - 1) -> S] /\ f[0] = base
        /\ \A i \in 1..(k - 1) : f[i] = step[i][f[i - 1]]
    BY <2>1 DEF Iterated
  <2> DEFINE g == [i \in 0..k |-> IF i = k THEN step[k][f[k - 1]] ELSE f[i]]
  <2>3. f[k - 1] \in S /\ \A i \in 0..(k - 1) : f[i] \in S
    BY <2>2
  <2>4. g \in [0..k -> S]
    BY <2>3
  <2>5. g[0] = base
    BY <2>2
  <2>6. ASSUME NEW i \in 1..k
        PROVE  g[i] = step[i][g[i - 1]]
    <3>1. i - 1 \in 0..k /\ i - 1 # k /\ g[i - 1] = f[i - 1]
      OBVIOUS
    <3>2. CASE i = k
      BY <3>1, <3>2
    <3>3. CASE i # k
      <4>1. i \in 1..(k - 1) /\ g[i] = f[i]
        BY <3>3
      <4>2. QED
        BY <2>2, <3>1, <4>1
    <3>4. QED
      BY <3>2, <3>3
  <2> HIDE DEF g
  <2>7. Iterated(k, S, base, step, g)
    BY <2>4, <2>5, <2>6 DEF Iterated
  <2>8. QED
    BY <2>7
<1> HIDE DEF T
<1>3. 0..n \subseteq T
  BY <1>1, <1>2, UpTo
<1>4. n \in T
  BY <1>3
<1>5. QED
  BY <1>4 DEF T

(* They are determined: fewer steps are the beginning of more.              *)
LEMMA IteratesOneWay ==
    ASSUME NEW n \in Nat, NEW k \in 0..n, NEW S, NEW base, NEW step, NEW f, NEW g,
           Iterated(k, S, base, step, f), Iterated(n, S, base, step, g)
    PROVE  f[k] = g[k]
<1> DEFINE T == {i \in 0..k : f[i] = g[i]}
<1>1. 0 \in T
  BY DEF Iterated
<1>2. ASSUME NEW i \in 1..k, i - 1 \in T
      PROVE  i \in T
  <2>1. i \in 1..n /\ f[i] = step[i][f[i - 1]] /\ g[i] = step[i][g[i - 1]]
    BY DEF Iterated
  <2>2. QED
    BY <1>2, <2>1
<1> HIDE DEF T
<1>3. 0..k \subseteq T
  BY <1>1, <1>2, UpTo
<1>4. QED
  BY <1>3 DEF T

-----------------------------------------------------------------------------
(* What the recursive functions are *)

Ranges == [min : Int, max : Int]
Accumulator == [range : Ranges, bits : Seq({0, 1})]
Beginning == [range |-> Whole, bits |-> <<>>]

(* The mean of a range and its halves.                                      *)
LEMMA Halves ==
    ASSUME NEW r \in Ranges
    PROVE  Mean(r) \in Int /\ LowerHalf(r) \in Ranges /\ UpperHalf(r) \in Ranges
BY DEF Ranges, Mean, LowerHalf, UpperHalf

(* One halving of encode keeps its accumulator what it is.                  *)
LEMMA CombinerType ==
    ASSUME NEW a \in Accumulator, NEW value \in Int
    PROVE  combiner(a, value) \in Accumulator
<1>1. a.range \in Ranges /\ a.bits \in Seq({0, 1})
  BY DEF Accumulator
<1>2. \A b \in {0, 1} : Append(a.bits, b) \in Seq({0, 1})
  BY <1>1
<1>3. QED
  BY <1>1, <1>2, Halves DEF combiner, Accumulator

(* encode's reduce goes from one accumulator to the next.                   *)
LEMMA HalvingsDef ==
    ASSUME NEW value \in Int, NEW n \in Nat
    PROVE  /\ halvings(value, n) \in [0..n -> Accumulator]
           /\ halvings(value, n)[0] = Beginning
           /\ \A i \in 1..n :
                halvings(value, n)[i] = combiner(halvings(value, n)[i - 1], value)
<1> DEFINE step == [i \in 1..n |-> [a \in Accumulator |-> combiner(a, value)]]
<1> DEFINE Equation(a) ==
      a = [i \in 0..n |-> IF i = 0 THEN Beginning ELSE combiner(a[i - 1], value)]
<1>1. Beginning \in Accumulator
  BY DEF Beginning, Accumulator, Whole, Ranges
<1>2. \A i \in 1..n, a \in Accumulator : step[i][a] \in Accumulator
  BY CombinerType
<1>3. PICK f : Iterated(n, Accumulator, Beginning, step, f)
  <2> HIDE DEF step, Equation
  <2>1. QED
    BY <1>1, <1>2, Iterates
<1>4. /\ f \in [0..n -> Accumulator] /\ f[0] = Beginning
      /\ \A i \in 1..n : f[i] = combiner(f[i - 1], value)
  <2>1. \A i \in 1..n, a \in Accumulator : step[i][a] = combiner(a, value)
    OBVIOUS
  <2> HIDE DEF step
  <2>2. /\ f \in [0..n -> Accumulator] /\ f[0] = Beginning
        /\ \A i \in 1..n : f[i] = step[i][f[i - 1]]
    BY <1>3 DEF Iterated
  <2>3. QED
    BY <2>1, <2>2
<1>5. Equation(f)
  <2>1. \A i \in 0..n : f[i] = IF i = 0 THEN Beginning ELSE combiner(f[i - 1], value)
    BY <1>4
  <2>2. QED
    BY <1>4, <2>1
<1> DEFINE h == halvings(value, n)
<1>6. Equation(h)
  <2>1. h = CHOOSE a : Equation(a)
    BY DEF halvings, Beginning
  <2> HIDE DEF h, Equation
  <2>2. QED
    BY <1>5, <2>1
<1> HIDE DEF h
<1>7. h[0] = Beginning /\ \A i \in 1..n : h[i] = combiner(h[i - 1], value)
  BY <1>6
<1>8. h \in [0..n -> Accumulator]
  <2> DEFINE T == {i \in 0..n : h[i] \in Accumulator}
  <2>1. 0 \in T
    BY <1>1, <1>7
  <2>2. \A i \in 1..n : i - 1 \in T => i \in T
    BY <1>7, CombinerType
  <2> HIDE DEF T
  <2>3. 0..n \subseteq T
    BY <2>1, <2>2, UpTo
  <2>4. QED
    BY <1>6, <2>3 DEF T
<1>9. QED
  BY <1>7, <1>8 DEF h

(* A character of a code has five bits.                                     *)
LEMMA BitmapType ==
    ASSUME NEW c \in 0..31
    PROVE  bitmap(c) \in Seq({0, 1}) /\ Len(bitmap(c)) = 5
<1> DEFINE b1 == c \div 16
<1> DEFINE b2 == (c \div 8) % 2
<1> DEFINE b3 == (c \div 4) % 2
<1> DEFINE b4 == (c \div 2) % 2
<1> DEFINE b5 == c % 2
<1>1. b1 \in {0, 1} /\ b2 \in {0, 1} /\ b3 \in {0, 1} /\ b4 \in {0, 1} /\ b5 \in {0, 1}
  OBVIOUS
<1>2. bitmap(c) = <<b1, b2, b3, b4, b5>>
  BY DEF bitmap
<1> HIDE DEF b1, b2, b3, b4, b5
<1>3. QED
  BY <1>1, <1>2

(* The bits so far and those of one more character.                         *)
Extended(s, c) == s \o bitmap(c)

(* decode joins the bits of one character after another.                    *)
LEMMA JoinedDef ==
    ASSUME NEW hash \in Seq(0..31)
    PROVE  /\ joined(hash) \in [0..Len(hash) -> Seq({0, 1})]
           /\ joined(hash)[0] = <<>>
           /\ \A k \in 1..Len(hash) :
                joined(hash)[k] = Extended(joined(hash)[k - 1], hash[k])
<1> DEFINE n == Len(hash)
<1> DEFINE S == Seq({0, 1})
<1> DEFINE step == [k \in 1..n |-> [s \in S |-> Extended(s, hash[k])]]
<1> DEFINE Equation(s) ==
      s = [k \in 0..n |-> IF k = 0 THEN <<>> ELSE Extended(s[k - 1], hash[k])]
<1>1. n \in Nat /\ <<>> \in S
  OBVIOUS
<1>2. \A k \in 1..n, s \in S : Extended(s, hash[k]) \in S
  <2>1. \A k \in 1..n : hash[k] \in 0..31
    BY ElementOfSeq DEF n
  <2>2. \A c \in 0..31, s \in S : Extended(s, c) \in S
    BY BitmapType, ConcatProperties DEF Extended
  <2>3. QED
    BY <2>1, <2>2
<1>3. \A k \in 1..n, s \in S : step[k][s] \in S
  <2> HIDE DEF S, n
  <2>1. QED
    BY <1>2
<1>4. \A k \in 1..n, s \in S : step[k][s] = Extended(s, hash[k])
  <2> HIDE DEF S, n
  <2>1. QED
    OBVIOUS
<1> HIDE DEF step, S, n
<1>5. PICK f : Iterated(n, S, <<>>, step, f)
  BY <1>1, <1>3, Iterates
<1>6. /\ f \in [0..n -> S] /\ f[0] = <<>>
      /\ \A k \in 1..n : f[k] = Extended(f[k - 1], hash[k])
  <2>1. /\ f \in [0..n -> S] /\ f[0] = <<>>
        /\ \A k \in 1..n : f[k] = step[k][f[k - 1]]
    BY <1>5 DEF Iterated
  <2>2. QED
    BY <1>1, <1>4, <2>1
<1>7. Equation(f)
  BY <1>6
<1> DEFINE h == joined(hash)
<1>8. Equation(h)
  <2>1. h = CHOOSE s : Equation(s)
    BY DEF joined, n, Extended
  <2> HIDE DEF h, Equation
  <2>2. QED
    BY <1>7, <2>1
<1> HIDE DEF h
<1>9. h[0] = <<>> /\ \A k \in 1..n : h[k] = Extended(h[k - 1], hash[k])
  BY <1>1, <1>8
<1>10. h \in [0..n -> S]
  <2> DEFINE T == {k \in 0..n : h[k] \in S}
  <2>1. 0 \in T
    BY <1>1, <1>9
  <2>2. \A k \in 1..n : k - 1 \in T => k \in T
    BY <1>2, <1>9
  <2> HIDE DEF T
  <2>3. 0..n \subseteq T
    BY <1>1, <2>1, <2>2, UpTo
  <2>4. QED
    BY <1>8, <2>3 DEF T
<1>11. QED
  BY <1>9, <1>10 DEF h, S, n

Narrower(r, bit) == IF bit = 1 THEN UpperHalf(r) ELSE LowerHalf(r)

(* decode's reduce goes from one range to the next.                         *)
LEMMA NarrowingsDef ==
    ASSUME NEW bits \in Seq({0, 1})
    PROVE  /\ narrowings(bits) \in [0..Len(bits) -> Ranges]
           /\ narrowings(bits)[0] = Whole
           /\ \A i \in 1..Len(bits) :
                narrowings(bits)[i] = Narrower(narrowings(bits)[i - 1], bits[i])
<1> DEFINE n == Len(bits)
<1> DEFINE step == [i \in 1..n |-> [r \in Ranges |-> Narrower(r, bits[i])]]
<1> DEFINE Equation(r) ==
      r = [i \in 0..n |-> IF i = 0 THEN Whole ELSE Narrower(r[i - 1], bits[i])]
<1>1. n \in Nat /\ Whole \in Ranges
  BY DEF Whole, Ranges
<1>2. \A i \in 1..n, r \in Ranges : Narrower(r, bits[i]) \in Ranges
  BY Halves DEF Narrower
<1> HIDE DEF n
<1>3. \A i \in 1..n, r \in Ranges : step[i][r] \in Ranges
  BY <1>2
<1>4. \A i \in 1..n, r \in Ranges : step[i][r] = Narrower(r, bits[i])
  OBVIOUS
<1> HIDE DEF step
<1>5. PICK f : Iterated(n, Ranges, Whole, step, f)
  BY <1>1, <1>3, Iterates
<1>6. /\ f \in [0..n -> Ranges] /\ f[0] = Whole
      /\ \A i \in 1..n : f[i] = Narrower(f[i - 1], bits[i])
  <2>1. /\ f \in [0..n -> Ranges] /\ f[0] = Whole
        /\ \A i \in 1..n : f[i] = step[i][f[i - 1]]
    BY <1>5 DEF Iterated
  <2>2. QED
    BY <1>1, <1>4, <2>1
<1>7. Equation(f)
  BY <1>6
<1> DEFINE h == narrowings(bits)
<1>8. Equation(h)
  <2>1. h = CHOOSE r : Equation(r)
    BY DEF narrowings, n, Narrower
  <2> HIDE DEF h, Equation
  <2>2. QED
    BY <1>7, <2>1
<1> HIDE DEF h
<1>9. h[0] = Whole /\ \A i \in 1..n : h[i] = Narrower(h[i - 1], bits[i])
  BY <1>1, <1>8
<1>10. h \in [0..n -> Ranges]
  <2> DEFINE T == {i \in 0..n : h[i] \in Ranges}
  <2>1. 0 \in T
    BY <1>1, <1>9
  <2>2. \A i \in 1..n : i - 1 \in T => i \in T
    BY <1>2, <1>9
  <2> HIDE DEF T
  <2>3. 0..n \subseteq T
    BY <1>1, <2>1, <2>2, UpTo
  <2>4. QED
    BY <1>8, <2>3 DEF T
<1>11. QED
  BY <1>9, <1>10 DEF h, n

(* The powers of two.                                                       *)
LEMMA Pow2Def ==
    /\ pow2[0] = 1
    /\ \A n \in Nat : pow2[n] \in Nat \ {0} /\ pow2[n + 1] = 2 * pow2[n]
<1> DEFINE Equation(p) == p = [n \in Nat |-> IF n = 0 THEN 1 ELSE 2 * p[n - 1]]
<1> DEFINE step == [i \in Nat |-> [x \in Nat |-> 2 * x]]
<1> DEFINE G == [n \in Nat |-> CHOOSE f : Iterated(n, Nat, 1, step, f)]
<1> DEFINE h == [n \in Nat |-> G[n][n]]
<1>1. \A i \in Nat, x \in Nat : step[i][x] = 2 * x
  OBVIOUS
<1> HIDE DEF step
<1>2. ASSUME NEW n \in Nat
      PROVE  Iterated(n, Nat, 1, step, G[n])
  <2>1. 1 \in Nat /\ \A i \in 1..n, x \in Nat : step[i][x] \in Nat
    BY <1>1
  <2>2. \E f : Iterated(n, Nat, 1, step, f)
    BY <2>1, Iterates
  <2>3. QED
    BY <2>2
<1> HIDE DEF G
<1>3. h[0] = 1
  BY <1>2 DEF Iterated
<1>4. ASSUME NEW n \in Nat \ {0}
      PROVE  h[n] = 2 * h[n - 1]
  <2>1. Iterated(n, Nat, 1, step, G[n]) /\ Iterated(n - 1, Nat, 1, step, G[n - 1])
    BY <1>2
  <2>2. G[n][n] = 2 * G[n][n - 1]
    <3>1. G[n] \in [0..n -> Nat] /\ G[n][n] = step[n][G[n][n - 1]]
      BY <2>1 DEF Iterated
    <3>2. G[n][n - 1] \in Nat
      BY <3>1
    <3>3. QED
      BY <1>1, <3>1, <3>2
  <2>3. G[n - 1][n - 1] = G[n][n - 1]
    BY <2>1, IteratesOneWay
  <2>4. QED
    BY <2>2, <2>3
<1>5. Equation(h)
  BY <1>3, <1>4
<1>6. Equation(pow2)
  <2>1. pow2 = CHOOSE p : Equation(p)
    BY DEF pow2
  <2> HIDE DEF h, Equation
  <2>2. QED
    BY <1>5, <2>1
<1>7. pow2[0] = 1 /\ \A n \in Nat : pow2[n + 1] = 2 * pow2[n]
  BY <1>6
<1> HIDE DEF Equation
<1>8. ASSUME NEW n \in Nat
      PROVE  pow2[n] \in Nat \ {0}
  <2> DEFINE T == {k \in 0..n : pow2[k] \in Nat \ {0}}
  <2>1. 0 \in T
    BY <1>7
  <2>2. ASSUME NEW k \in 1..n, k - 1 \in T
        PROVE  k \in T
    <3>1. k - 1 \in Nat /\ (k - 1) + 1 = k
      OBVIOUS
    <3>2. pow2[k] = 2 * pow2[k - 1]
      BY <1>7, <3>1
    <3>3. QED
      BY <2>2, <3>2
  <2> HIDE DEF T
  <2>3. 0..n \subseteq T
    BY <2>1, <2>2, UpTo
  <2>4. QED
    BY <2>3 DEF T
<1>9. QED
  BY <1>7, <1>8

-----------------------------------------------------------------------------
(* Encoding *)

Bit(value, r) == IF value < Mean(r) THEN 0 ELSE 1

(* A halving appends the bit of the half that it keeps.                     *)
LEMMA CombinerBit ==
    ASSUME NEW a \in Accumulator, NEW value \in Int
    PROVE  /\ combiner(a, value).bits = Append(a.bits, Bit(value, a.range))
           /\ combiner(a, value).range = Narrower(a.range, Bit(value, a.range))
           /\ Bit(value, a.range) \in {0, 1}
BY DEF combiner, Bit, Narrower

(* After i halvings there are i bits, and the j-th of them is that of the   *)
(* j-th halving.                                                            *)
LEMMA BitsGrow ==
    ASSUME NEW value \in Int, NEW n \in Nat, NEW i \in 0..n
    PROVE  /\ halvings(value, n)[i].bits \in Seq({0, 1})
           /\ Len(halvings(value, n)[i].bits) = i
           /\ \A j \in 1..i : halvings(value, n)[i].bits[j]
                                = Bit(value, halvings(value, n)[j - 1].range)
<1> DEFINE h == halvings(value, n)
<1>1. /\ h \in [0..n -> Accumulator] /\ h[0] = Beginning
      /\ \A k \in 1..n : h[k] = combiner(h[k - 1], value)
  BY HalvingsDef
<1> HIDE DEF h
<1>2. \A k \in 0..n : h[k] \in Accumulator /\ h[k].bits \in Seq({0, 1})
  BY <1>1 DEF Accumulator
<1> DEFINE Grown(k) == /\ Len(h[k].bits) = k
                       /\ \A j \in 1..k : h[k].bits[j] = Bit(value, h[j - 1].range)
<1> DEFINE T == {k \in 0..n : Grown(k)}
<1>3. 0 \in T
  <2>1. h[0].bits = <<>>
    BY <1>1 DEF Beginning
  <2>2. QED
    BY <2>1
<1>4. ASSUME NEW k \in 1..n, k - 1 \in T
      PROVE  k \in T
  <2> DEFINE s == h[k - 1].bits
  <2> DEFINE b == Bit(value, h[k - 1].range)
  <2>1. s \in Seq({0, 1}) /\ b \in {0, 1} /\ h[k].bits = Append(s, b)
    BY <1>1, <1>2, CombinerBit
  <2>2. Len(s) = k - 1 /\ \A j \in 1..(k - 1) : s[j] = Bit(value, h[j - 1].range)
    BY <1>4
  <2> HIDE DEF s, b
  <2>3. Len(h[k].bits) = k
    BY <2>1, <2>2
  <2>4. ASSUME NEW j \in 1..k
        PROVE  h[k].bits[j] = Bit(value, h[j - 1].range)
    <3>1. CASE j = k
      <4>1. h[k].bits[k] = b
        BY <2>1, <2>2
      <4>2. QED
        BY <3>1, <4>1 DEF b
    <3>2. CASE j # k
      <4>1. j \in 1..(k - 1)
        BY <3>2
      <4>2. h[k].bits[j] = s[j]
        BY <2>1, <2>2, <4>1
      <4>3. QED
        BY <2>2, <4>1, <4>2
    <3>3. QED
      BY <3>1, <3>2
  <2>5. QED
    BY <2>3, <2>4
<1> HIDE DEF T, Grown
<1>5. 0..n \subseteq T
  BY <1>3, <1>4, UpTo
<1>6. QED
  BY <1>2, <1>5 DEF T, Grown, h

(* Each halving keeps the half that its bit in the end result says.         *)
LEMMA RangesFollowBits ==
    ASSUME NEW value \in Int, NEW n \in Nat, NEW i \in 1..n
    PROVE  /\ halvings(value, n)[i].range
                = Narrower(halvings(value, n)[i - 1].range, halvings(value, n)[n].bits[i])
           /\ halvings(value, n)[n].bits[i] = Bit(value, halvings(value, n)[i - 1].range)
<1> DEFINE h == halvings(value, n)
<1>1. h[n].bits[i] = Bit(value, h[i - 1].range)
  BY BitsGrow
<1>2. h[i - 1] \in Accumulator /\ h[i] = combiner(h[i - 1], value)
  BY HalvingsDef
<1> HIDE DEF h
<1>3. h[i].range = Narrower(h[i - 1].range, Bit(value, h[i - 1].range))
  BY <1>2, CombinerBit
<1>4. QED
  BY <1>1, <1>3 DEF h

(* decode, on the first of the bits that encode has made, ends with the     *)
(* range that encode had after as many.                                     *)
LEMMA NarrowingsAreHalvings ==
    ASSUME NEW value \in Int, NEW n \in Nat,
           NEW bits \in Seq({0, 1}), Len(bits) <= n,
           \A i \in 1..Len(bits) : bits[i] = halvings(value, n)[n].bits[i]
    PROVE  narrowings(bits)[Len(bits)] = halvings(value, n)[Len(bits)].range
<1> DEFINE h == halvings(value, n)
<1> DEFINE r == narrowings(bits)
<1> DEFINE T == {i \in 0..Len(bits) : r[i] = h[i].range}
<1>1. 0 \in T
  <2>1. r[0] = Whole /\ h[0] = Beginning
    BY NarrowingsDef, HalvingsDef
  <2> HIDE DEF r, h
  <2>2. QED
    BY <2>1 DEF Beginning
<1>2. ASSUME NEW i \in 1..Len(bits), i - 1 \in T
      PROVE  i \in T
  <2>1. i \in 1..n
    OBVIOUS
  <2>2. h[i].range = Narrower(h[i - 1].range, bits[i])
    BY <2>1, RangesFollowBits
  <2>3. r[i] = Narrower(r[i - 1], bits[i])
    BY NarrowingsDef
  <2> HIDE DEF r, h
  <2>4. QED
    BY <1>2, <2>2, <2>3
<1> HIDE DEF T, h, r
<1>0. Len(bits) \in Nat
  BY LenProperties
<1>3. 0..Len(bits) \subseteq T
  BY <1>0, <1>1, <1>2, UpTo
<1>4. Len(bits) \in 0..Len(bits)
  BY <1>0
<1>5. QED
  BY <1>3, <1>4 DEF T, h, r

(* A function on an initial segment of the naturals is a sequence.          *)
LEMMA SegmentIsSeq ==
    ASSUME NEW S, NEW n \in Nat, NEW f \in [1..n -> S]
    PROVE  f \in Seq(S) /\ Len(f) = n
<1>1. f \in Seq(S)
  BY SeqDef
<1>2. Len(f) \in Nat /\ DOMAIN f = 1..Len(f) /\ DOMAIN f = 1..n
  BY <1>1, LenProperties
<1>3. Len(f) = n
  BY <1>2
<1>4. QED
  BY <1>1, <1>3

(* The bits of the two axes by turns, the longitude's first.                *)
LEMMA Interleaved ==
    ASSUME NEW n \in Nat, NEW lon \in Seq({0, 1}), NEW lat \in Seq({0, 1}),
           Len(lon) = n, Len(lat) = n
    PROVE  /\ interleave(lon, lat) \in Seq({0, 1})
           /\ Len(interleave(lon, lat)) = 2 * n
           /\ \A i \in 1..n : /\ interleave(lon, lat)[2 * i - 1] = lon[i]
                              /\ interleave(lon, lat)[2 * i] = lat[i]
<1> DEFINE f == interleave(lon, lat)
<1>1. f = [i \in 1..(2 * n) |-> IF i % 2 = 1 THEN lon[(i + 1) \div 2] ELSE lat[i \div 2]]
  BY DEF interleave
<1>2. ASSUME NEW i \in 1..(2 * n)
      PROVE  (IF i % 2 = 1 THEN lon[(i + 1) \div 2] ELSE lat[i \div 2]) \in {0, 1}
  <2>1. CASE i % 2 = 1
    <3>1. (i + 1) \div 2 \in 1..n
      BY <2>1
    <3>2. QED
      BY <2>1, <3>1, ElementOfSeq
  <2>2. CASE i % 2 # 1
    <3>1. i \div 2 \in 1..n
      BY <2>2
    <3>2. QED
      BY <2>2, <3>1, ElementOfSeq
  <2>3. QED
    BY <2>1, <2>2
<1>3. f \in [1..(2 * n) -> {0, 1}]
  BY <1>1, <1>2
<1>4. f \in Seq({0, 1}) /\ Len(f) = 2 * n
  <2>1. 2 * n \in Nat
    OBVIOUS
  <2> HIDE DEF f
  <2>2. QED
    BY <1>3, <2>1, SegmentIsSeq
<1>5. ASSUME NEW i \in 1..n
      PROVE  f[2 * i - 1] = lon[i] /\ f[2 * i] = lat[i]
  <2> HIDE DEF f
  <2>1. /\ 2 * i - 1 \in 1..(2 * n) /\ (2 * i - 1) % 2 = 1 /\ ((2 * i - 1) + 1) \div 2 = i
        /\ 2 * i \in 1..(2 * n) /\ (2 * i) % 2 # 1 /\ (2 * i) \div 2 = i
    OBVIOUS
  <2>2. QED
    BY <1>1, <2>1
<1>6. QED
  BY <1>4, <1>5

(* A character stands for the five bits that made it.                       *)
LEMMA CharacterBits ==
    ASSUME NEW bits \in Seq({0, 1}), NEW k \in Nat \ {0}, 5 * k <= Len(bits)
    PROVE  /\ character(bits, k) \in 0..31
           /\ \A j \in 1..5 : bitmap(character(bits, k))[j] = bits[5 * (k - 1) + j]
<1>1. ASSUME NEW j \in 1..5
      PROVE  bits[5 * (k - 1) + j] \in {0, 1}
  <2>1. 5 * (k - 1) + j \in 1..Len(bits)
    OBVIOUS
  <2>2. QED
    BY <2>1, ElementOfSeq
<1> DEFINE b1 == bits[5 * (k - 1) + 1]
<1> DEFINE b2 == bits[5 * (k - 1) + 2]
<1> DEFINE b3 == bits[5 * (k - 1) + 3]
<1> DEFINE b4 == bits[5 * (k - 1) + 4]
<1> DEFINE b5 == bits[5 * (k - 1) + 5]
<1>2. b1 \in {0, 1} /\ b2 \in {0, 1} /\ b3 \in {0, 1} /\ b4 \in {0, 1} /\ b5 \in {0, 1}
  BY <1>1
<1> DEFINE c == character(bits, k)
<1>3. c = 16 * b1 + 8 * b2 + 4 * b3 + 2 * b4 + b5
  BY DEF character
<1>4. /\ bits[5 * (k - 1) + 1] = b1 /\ bits[5 * (k - 1) + 2] = b2
      /\ bits[5 * (k - 1) + 3] = b3 /\ bits[5 * (k - 1) + 4] = b4
      /\ bits[5 * (k - 1) + 5] = b5
  OBVIOUS
<1> HIDE DEF b1, b2, b3, b4, b5, c
<1>5. /\ c \in 0..31
      /\ c \div 16 = b1 /\ (c \div 8) % 2 = b2 /\ (c \div 4) % 2 = b3
      /\ (c \div 2) % 2 = b4 /\ c % 2 = b5
  BY <1>2, <1>3
<1>6. bitmap(c) = <<b1, b2, b3, b4, b5>>
  BY <1>5 DEF bitmap
<1>7. ASSUME NEW j \in 1..5
      PROVE  bitmap(c)[j] = bits[5 * (k - 1) + j]
  <2>1. CASE j = 1
    BY <1>4, <1>6, <2>1
  <2>2. CASE j = 2
    BY <1>4, <1>6, <2>2
  <2>3. CASE j = 3
    BY <1>4, <1>6, <2>3
  <2>4. CASE j = 4
    BY <1>4, <1>6, <2>4
  <2>5. CASE j = 5
    BY <1>4, <1>6, <2>5
  <2>6. QED
    BY <2>1, <2>2, <2>3, <2>4, <2>5
<1>8. QED
  BY <1>5, <1>7 DEF c

-----------------------------------------------------------------------------
(* Decoding *)

KeyBits(lat, lon, length) ==
    interleave(halvings(lon, length * 5)[length * 5].bits,
               halvings(lat, length * 5)[length * 5].bits)

\* The code is made of these bits, and they are those of the two axes.
IsMadeOf(code, bits, lat, lon, length) ==
    /\ bits \in Seq({0, 1}) /\ Len(bits) = 10 * length
    /\ \A i \in 1..(length * 5) :
         /\ bits[2 * i - 1] = halvings(lon, length * 5)[length * 5].bits[i]
         /\ bits[2 * i] = halvings(lat, length * 5)[length * 5].bits[i]
    /\ code \in Seq(0..31) /\ Len(code) = length
    /\ \A k \in 1..length : code[k] = character(bits, k)

(* A code is the characters of the first bits of the two axes.              *)
LEMMA CodeOfBits ==
    ASSUME NEW lat \in Int, NEW lon \in Int, NEW length \in Nat
    PROVE  IsMadeOf(encode(lat, lon, length), KeyBits(lat, lon, length), lat, lon, length)
<1> DEFINE n == length * 5
<1> DEFINE x == halvings(lon, n)[n].bits
<1> DEFINE y == halvings(lat, n)[n].bits
<1> DEFINE bits == KeyBits(lat, lon, length)
<1> DEFINE code == encode(lat, lon, length)
<1>1. n \in Nat /\ n = 5 * length
  OBVIOUS
<1>2. x \in Seq({0, 1}) /\ Len(x) = n /\ y \in Seq({0, 1}) /\ Len(y) = n
  <2>1. n \in 0..n
    BY <1>1
  <2> HIDE DEF n
  <2>2. QED
    BY <1>1, <2>1, BitsGrow
<1>3. bits = interleave(x, y) /\ code = [k \in 1..length |-> character(bits, k)]
  BY DEF KeyBits, encode
<1> HIDE DEF n, x, y, bits, code
<1>4. /\ bits \in Seq({0, 1}) /\ Len(bits) = 2 * n
      /\ \A i \in 1..n : bits[2 * i - 1] = x[i] /\ bits[2 * i] = y[i]
  <2>1. /\ interleave(x, y) \in Seq({0, 1}) /\ Len(interleave(x, y)) = 2 * n
        /\ \A i \in 1..n : /\ interleave(x, y)[2 * i - 1] = x[i]
                           /\ interleave(x, y)[2 * i] = y[i]
    BY <1>1, <1>2, Interleaved
  <2>2. QED
    BY <1>3, <2>1
<1>5. ASSUME NEW k \in 1..length
      PROVE  character(bits, k) \in 0..31
  <2>1. k \in Nat \ {0} /\ 5 * k <= Len(bits)
    BY <1>1, <1>4
  <2>2. QED
    BY <1>4, <2>1, CharacterBits
<1>6. code \in Seq(0..31) /\ Len(code) = length
  <2>1. code \in [1..length -> 0..31]
    BY <1>3, <1>5
  <2>2. QED
    BY <2>1, SegmentIsSeq
<1>7. Len(bits) = 10 * length
  BY <1>1, <1>4
<1>8. QED
  BY <1>1, <1>3, <1>4, <1>6, <1>7 DEF n, x, y, bits, code, IsMadeOf

(* decode joins the bits that the code was made of.                         *)
LEMMA JoinedIsBits ==
    ASSUME NEW bits \in Seq({0, 1}), NEW hash \in Seq(0..31), 5 * Len(hash) <= Len(bits),
           \A k \in 1..Len(hash) : hash[k] = character(bits, k)
    PROVE  LET all == joined(hash)[Len(hash)]
           IN  /\ all \in Seq({0, 1}) /\ Len(all) = 5 * Len(hash)
               /\ \A p \in 1..Len(all) : all[p] = bits[p]
<1> DEFINE n == Len(hash)
<1> DEFINE s == joined(hash)
<1>1. /\ n \in Nat /\ s \in [0..n -> Seq({0, 1})] /\ s[0] = <<>>
      /\ \A k \in 1..n : s[k] = Extended(s[k - 1], hash[k])
  BY JoinedDef
<1>2. \A k \in 1..n : hash[k] = character(bits, k) /\ 5 * n <= Len(bits)
  OBVIOUS
<1> HIDE DEF s, n
<1> DEFINE Same(k) == Len(s[k]) = 5 * k /\ \A p \in 1..(5 * k) : s[k][p] = bits[p]
<1> DEFINE T == {k \in 0..n : Same(k)}
<1>3. 0 \in T
  BY <1>1
<1>4. ASSUME NEW k \in 1..n, k - 1 \in T
      PROVE  k \in T
  <2> DEFINE t == s[k - 1]
  <2> DEFINE b == bitmap(hash[k])
  <2>1. t \in Seq({0, 1}) /\ Len(t) = 5 * (k - 1) /\ \A p \in 1..(5 * (k - 1)) : t[p] = bits[p]
    BY <1>1, <1>4
  <2>2. k \in Nat \ {0} /\ 5 * k <= Len(bits)
    <3>1. Len(bits) \in Nat
      OBVIOUS
    <3>2. QED
      BY <1>1, <1>2, <3>1
  <2>3. b \in Seq({0, 1}) /\ Len(b) = 5 /\ \A j \in 1..5 : b[j] = bits[5 * (k - 1) + j]
    <3>1. /\ character(bits, k) \in 0..31
          /\ \A j \in 1..5 : bitmap(character(bits, k))[j] = bits[5 * (k - 1) + j]
      BY <2>2, CharacterBits
    <3>2. hash[k] = character(bits, k)
      BY <1>2
    <3>3. QED
      BY <3>1, <3>2, BitmapType
  <2>4. s[k] = t \o b
    BY <1>1 DEF Extended
  <2> HIDE DEF t, b
  <2>5. /\ Len(t \o b) = 5 * k
        /\ \A p \in 1..(5 * k) :
             (t \o b)[p] = IF p <= 5 * (k - 1) THEN t[p] ELSE b[p - 5 * (k - 1)]
    <3>1. /\ Len(t \o b) = Len(t) + Len(b)
          /\ \A p \in 1..(Len(t) + Len(b)) :
               (t \o b)[p] = IF p <= Len(t) THEN t[p] ELSE b[p - Len(t)]
      BY <2>1, <2>3, ConcatProperties
    <3>2. Len(t) + Len(b) = 5 * k
      BY <2>1, <2>2, <2>3
    <3>3. QED
      BY <2>1, <3>1, <3>2
  <2>6. ASSUME NEW p \in 1..(5 * k)
        PROVE  s[k][p] = bits[p]
    <3>1. CASE p <= 5 * (k - 1)
      BY <2>1, <2>4, <2>5, <3>1
    <3>2. CASE p > 5 * (k - 1)
      <4>1. p - 5 * (k - 1) \in 1..5 /\ 5 * (k - 1) + (p - 5 * (k - 1)) = p
        BY <2>2, <3>2
      <4>2. s[k][p] = b[p - 5 * (k - 1)]
        BY <2>2, <2>4, <2>5, <3>2
      <4>3. QED
        BY <2>3, <4>1, <4>2
    <3>3. QED
      BY <2>2, <3>1, <3>2
  <2>7. QED
    <3>1. k \in 0..n
      BY <1>1
    <3>2. Len(s[k]) = 5 * k
      BY <2>4, <2>5
    <3>3. Same(k)
      BY <2>6, <3>2
    <3> HIDE DEF Same
    <3>4. QED
      BY <3>1, <3>3
<1> HIDE DEF T
<1>5. 0..n \subseteq T
  BY <1>1, <1>3, <1>4, UpTo
<1>6. n \in T
  BY <1>1, <1>5
<1>7. QED
  BY <1>1, <1>6 DEF T, s, n

(* An axis of joined bits has those that the axis put in.                   *)
LEMMA AxisBits ==
    ASSUME NEW m \in Nat, NEW bits \in Seq({0, 1}), Len(bits) = m, NEW parity \in {0, 1}
    PROVE  LET a == axis(bits, parity)
           IN  /\ a \in Seq({0, 1}) /\ Len(a) = (m + 1 - parity) \div 2
               /\ \A i \in 1..Len(a) : a[i] = bits[2 * i - 1 + parity]
<1> DEFINE n == (m + 1 - parity) \div 2
<1> DEFINE a == axis(bits, parity)
<1>1. n \in Nat /\ \A i \in 1..n : 2 * i - 1 + parity \in 1..m
  OBVIOUS
<1>2. a = [i \in 1..n |-> bits[2 * i - 1 + parity]]
  BY DEF axis
<1> HIDE DEF n, a
<1>3. \A i \in 1..n : bits[2 * i - 1 + parity] \in {0, 1}
  BY <1>1, ElementOfSeq
<1>4. a \in [1..n -> {0, 1}]
  BY <1>2, <1>3
<1>5. a \in Seq({0, 1}) /\ Len(a) = n
  BY <1>1, <1>4, SegmentIsSeq
<1>6. QED
  BY <1>2, <1>5 DEF n, a

(* What a code stands for: the ranges that the halvings of either axis had  *)
(* come to when the code has its last bit of that axis.                     *)
THEOREM DecodeUndoesEncode ==
    ASSUME NEW lat \in Int, NEW lon \in Int, NEW length \in Nat, NEW None
    PROVE  decode(encode(lat, lon, length), None) =
             [longitude |-> halvings(lon, length * 5)[(5 * length + 1) \div 2].range,
              latitude  |-> halvings(lat, length * 5)[(5 * length) \div 2].range]
<1> DEFINE n == length * 5
<1> DEFINE bits == KeyBits(lat, lon, length)
<1> DEFINE code == encode(lat, lon, length)
<1> DEFINE all == joined(code)[Len(code)]
<1>1. /\ bits \in Seq({0, 1}) /\ Len(bits) = 10 * length
      /\ \A i \in 1..n : /\ bits[2 * i - 1] = halvings(lon, n)[n].bits[i]
                         /\ bits[2 * i] = halvings(lat, n)[n].bits[i]
      /\ code \in Seq(0..31) /\ Len(code) = length
      /\ \A k \in 1..length : code[k] = character(bits, k)
  BY CodeOfBits DEF IsMadeOf
<1>2. n \in Nat /\ n = 5 * length
  OBVIOUS
<1> HIDE DEF bits, code, n
<1>3. all \in Seq({0, 1}) /\ Len(all) = n /\ \A p \in 1..n : all[p] = bits[p]
  <2>1. 5 * Len(code) <= Len(bits) /\ \A k \in 1..Len(code) : code[k] = character(bits, k)
    BY <1>1
  <2>2. /\ all \in Seq({0, 1}) /\ Len(all) = 5 * Len(code)
        /\ \A p \in 1..Len(all) : all[p] = bits[p]
    BY <1>1, <2>1, JoinedIsBits
  <2> HIDE DEF all
  <2>3. QED
    BY <1>1, <1>2, <2>2
<1> HIDE DEF all
<1> DEFINE x == axis(all, 0)
<1> DEFINE y == axis(all, 1)
<1>4. /\ x \in Seq({0, 1}) /\ Len(x) = (n + 1) \div 2
      /\ \A i \in 1..Len(x) : x[i] = halvings(lon, n)[n].bits[i]
  <2>1. /\ x \in Seq({0, 1}) /\ Len(x) = (n + 1 - 0) \div 2
        /\ \A i \in 1..Len(x) : x[i] = all[2 * i - 1 + 0]
    BY <1>2, <1>3, AxisBits
  <2> HIDE DEF x
  <2>2. ASSUME NEW i \in 1..Len(x)
        PROVE  x[i] = halvings(lon, n)[n].bits[i]
    <3>1. i \in 1..n /\ 2 * i - 1 \in 1..n
      BY <1>2, <2>1
    <3>2. x[i] = all[2 * i - 1]
      BY <2>1
    <3>3. QED
      BY <1>1, <1>3, <3>1, <3>2
  <2>3. QED
    BY <1>2, <2>1, <2>2
<1>5. /\ y \in Seq({0, 1}) /\ Len(y) = n \div 2
      /\ \A i \in 1..Len(y) : y[i] = halvings(lat, n)[n].bits[i]
  <2>1. /\ y \in Seq({0, 1}) /\ Len(y) = (n + 1 - 1) \div 2
        /\ \A i \in 1..Len(y) : y[i] = all[2 * i - 1 + 1]
    BY <1>2, <1>3, AxisBits
  <2> HIDE DEF y
  <2>2. ASSUME NEW i \in 1..Len(y)
        PROVE  y[i] = halvings(lat, n)[n].bits[i]
    <3>1. i \in 1..n /\ 2 * i \in 1..n
      BY <1>2, <2>1
    <3>2. y[i] = all[2 * i]
      BY <2>1
    <3>3. QED
      BY <1>1, <1>3, <3>1, <3>2
  <2>3. QED
    BY <1>2, <2>1, <2>2
<1>6. decode(code, None) = [longitude |-> narrowings(x)[Len(x)], latitude |-> narrowings(y)[Len(y)]]
  <2>1. Len(all) % 5 = 0
    BY <1>2, <1>3
  <2>2. QED
    BY <2>1 DEF decode, all
<1> HIDE DEF x, y
<1>7. narrowings(x)[Len(x)] = halvings(lon, n)[Len(x)].range
  <2>1. Len(x) <= n
    BY <1>2, <1>4
  <2>2. QED
    BY <1>2, <1>4, <2>1, NarrowingsAreHalvings
<1>8. narrowings(y)[Len(y)] = halvings(lat, n)[Len(y)].range
  <2>1. Len(y) <= n
    BY <1>2, <1>5
  <2>2. QED
    BY <1>2, <1>5, <2>1, NarrowingsAreHalvings
<1>9. QED
  BY <1>2, <1>4, <1>5, <1>6, <1>7, <1>8 DEF code, n

-----------------------------------------------------------------------------
(* Strips *)

Width(i) == (2 * Side) \div pow2[i]

(* Where N halvings are exact so are fewer, and each halves the width.      *)
LEMMA WidthsHalve ==
    ASSUME NEW N \in Nat, (2 * Side) % pow2[N] = 0
    PROVE  /\ \A i \in 0..N : Width(i) \in Nat \ {0} /\ 2 * Side = Width(i) * pow2[i]
           /\ \A i \in 1..N : Width(i - 1) = 2 * Width(i)
<1>1. \A i \in Nat : pow2[i] \in Nat \ {0} /\ pow2[i + 1] = 2 * pow2[i]
  BY Pow2Def
<1> DEFINE m == 2 * Side
<1>2. m \in Nat \ {0} /\ m % pow2[N] = 0
  OBVIOUS
<1> HIDE DEF m
<1>3. ASSUME NEW p \in Nat \ {0}, NEW q \in Int, m = q * p
      PROVE  m \div p = q /\ q \in Nat \ {0}
  <2>1. q > 0
    BY <1>2, <1>3
  <2>2. QED
    BY <1>2, <1>3, <2>1
<1> DEFINE T == {d \in 0..N : \E w \in Int : m = w * pow2[N - d]}
<1>4. 0 \in T
  <2>1. m = (m \div pow2[N]) * pow2[N] /\ m \div pow2[N] \in Int
    <3>1. \A p \in Nat \ {0} : m % p = 0 => m = (m \div p) * p /\ m \div p \in Int
      BY <1>2
    <3>2. QED
      BY <1>1, <1>2, <3>1
  <2>2. N - 0 = N /\ 0 \in 0..N
    OBVIOUS
  <2>3. QED
    BY <2>1, <2>2
<1>5. ASSUME NEW d \in 1..N, d - 1 \in T
      PROVE  d \in T
  <2>1. PICK w \in Int : m = w * pow2[N - (d - 1)]
    BY <1>5
  <2>2. N - d \in Nat /\ N - (d - 1) = (N - d) + 1
    OBVIOUS
  <2>3. pow2[N - (d - 1)] = 2 * pow2[N - d] /\ pow2[N - d] \in Nat
    BY <1>1, <2>2
  <2>4. m = (2 * w) * pow2[N - d] /\ 2 * w \in Int
    BY <2>1, <2>3
  <2>5. QED
    BY <2>4
<1> HIDE DEF T
<1>6. 0..N \subseteq T
  BY <1>4, <1>5, UpTo
<1>7. ASSUME NEW i \in 0..N
      PROVE  Width(i) \in Nat \ {0} /\ m = Width(i) * pow2[i]
  <2>1. N - i \in T /\ N - (N - i) = i
    BY <1>6
  <2>2. PICK w \in Int : m = w * pow2[i]
    BY <2>1 DEF T
  <2>3. w = Width(i) /\ w \in Nat \ {0}
    BY <1>1, <1>3, <2>2 DEF Width, m
  <2>4. QED
    BY <2>2, <2>3
<1>8. ASSUME NEW i \in 1..N
      PROVE  Width(i - 1) = 2 * Width(i)
  <2>1. i - 1 \in 0..N /\ i \in 0..N /\ (i - 1) + 1 = i
    OBVIOUS
  <2>2. pow2[i] = 2 * pow2[i - 1] /\ pow2[i - 1] \in Nat \ {0}
    BY <1>1, <2>1
  <2>3. m = (2 * Width(i)) * pow2[i - 1] /\ 2 * Width(i) \in Int
    BY <1>7, <2>1, <2>2
  <2>4. QED
    BY <1>3, <2>2, <2>3 DEF Width, m
<1>9. QED
  BY <1>7, <1>8 DEF m

\* The k-th of the strips of width w, from 0.
Edges(k, w) == [min |-> k * w - Side, max |-> (k + 1) * w - Side]

\* r is the k-th of the strips of level i, and holds the value.
IsStrip(r, value, i, k) ==
    /\ k \in 0..(pow2[i] - 1)
    /\ r = Edges(k, Width(i))
    /\ k * Width(i) <= value + Side
    /\ \/ value + Side < (k + 1) * Width(i)
       \/ value = Side /\ k = pow2[i] - 1

\* r is cut at its mean into two strips of width v, the first the 2k-th.
IsCut(r, k, v) ==
    /\ r.min = (2 * k) * v - Side
    /\ Mean(r) = (2 * k + 1) * v - Side
    /\ r.max = (2 * k + 1 + 1) * v - Side

(* The mean of a strip is the edge between the two strips it is cut into.   *)
LEMMA MeanCutsStrip ==
    ASSUME NEW k \in Int, NEW v \in Int
    PROVE  IsCut(Edges(k, 2 * v), k, v)
<1> DEFINE w == 2 * v
<1> DEFINE r == Edges(k, w)
<1>1. k * w = (2 * k) * v /\ (k + 1) * w = (2 * k + 1 + 1) * v
  OBVIOUS
<1>2. (2 * k) * v + (2 * k + 1 + 1) * v = 2 * ((2 * k + 1) * v)
  OBVIOUS
<1> DEFINE e == (2 * k + 1) * v
<1> DEFINE a == (2 * k) * v
<1> DEFINE b == (2 * k + 1 + 1) * v
<1>3. e \in Int /\ a \in Int /\ b \in Int /\ a + b = 2 * e
  BY <1>2
<1> HIDE DEF e, a, b
<1>4. ((a - Side) + (b - Side)) \div 2 = e - Side
  BY <1>3
<1>5. QED
  BY <1>1, <1>4 DEF e, a, b, Mean, Edges, IsCut

\* The range r holds the value: below its upper edge, or at the end of the axis.
Holds(r, value) ==
    /\ r.min <= value /\ value <= r.max
    /\ \/ value < r.max
       \/ value = Side /\ r.max = Side

(* A strip of a level at which all strips fill the axis holds its value.    *)
LEMMA StripHolds ==
    ASSUME NEW value \in Int, NEW i \in Nat, NEW k \in Int, NEW r,
           Width(i) \in Nat, 2 * Side = Width(i) * pow2[i], IsStrip(r, value, i, k)
    PROVE  Holds(r, value)
<1> DEFINE w == Width(i)
<1> DEFINE P == pow2[i]
<1> DEFINE low == k * w
<1> DEFINE high == (k + 1) * w
<1>1. P \in Nat /\ Side \in Int
  BY Pow2Def, SideAssumption
<1>2. /\ r.min = low - Side /\ r.max = high - Side
      /\ low <= value + Side
      /\ \/ value + Side < high
         \/ value = Side /\ k = P - 1
  BY DEF IsStrip, Edges
<1>3. w \in Nat /\ 2 * Side = w * P
  OBVIOUS
<1>4. k = P - 1 => high = 2 * Side
  <2>1. P * w = w * P
    BY <1>1, <1>3
  <2>2. QED
    BY <1>1, <1>3, <2>1
<1>5. low \in Int /\ high \in Int
  BY <1>3
<1> HIDE DEF w, P, low, high
<1>6. QED
  BY <1>1, <1>2, <1>4, <1>5 DEF Holds

(* The range after i halvings is a strip of level i that holds the value.   *)
LEMMA HalvingsAreStrips ==
    ASSUME NEW value \in (-Side)..Side, NEW n \in Nat,
           NEW N \in 0..n, (2 * Side) % pow2[N] = 0,
           NEW i \in 0..N
    PROVE  \E k \in Int : IsStrip(halvings(value, n)[i].range, value, i, k)
<1> DEFINE h == halvings(value, n)
<1>1. value \in Int /\ N \in Nat
  OBVIOUS
<1>2. h[0] = Beginning
  BY <1>1, HalvingsDef
<1>3. ASSUME NEW j \in 1..N
      PROVE  h[j].range = Narrower(h[j - 1].range, Bit(value, h[j - 1].range))
  <2>1. j \in 1..n
    OBVIOUS
  <2>2. QED
    BY <1>1, <2>1, RangesFollowBits
<1>4. /\ \A j \in 0..N : Width(j) \in Nat \ {0} /\ 2 * Side = Width(j) * pow2[j]
      /\ \A j \in 1..N : Width(j - 1) = 2 * Width(j)
  BY <1>1, WidthsHalve
<1>5. pow2[0] = 1 /\ \A j \in Nat : pow2[j] \in Nat \ {0} /\ pow2[j + 1] = 2 * pow2[j]
  BY Pow2Def
<1> HIDE DEF h
<1> DEFINE T == {j \in 0..N : \E k \in Int : IsStrip(h[j].range, value, j, k)}
<1>6. 0 \in T
  <2>1. Width(0) = 2 * Side
    BY <1>4, <1>5
  <2>2. h[0].range = [min |-> -Side, max |-> Side]
    BY <1>2 DEF Beginning, Whole
  <2>3. IsStrip(h[0].range, value, 0, 0)
    BY <1>5, <2>1, <2>2 DEF IsStrip, Edges
  <2>4. QED
    BY <1>1, <2>3
<1>7. ASSUME NEW j \in 1..N, j - 1 \in T
      PROVE  j \in T
  <2> DEFINE w == Width(j - 1)
  <2> DEFINE v == Width(j)
  <2> DEFINE p == pow2[j - 1]
  <2> DEFINE r == h[j - 1].range
  <2>1. PICK k \in Int : IsStrip(r, value, j - 1, k)
    BY <1>7
  <2>2. w = 2 * v /\ v \in Nat \ {0} /\ pow2[j] = 2 * p /\ p \in Nat \ {0}
    <3>1. j - 1 \in Nat /\ (j - 1) + 1 = j /\ j \in 0..N
      OBVIOUS
    <3>2. QED
      BY <1>4, <1>5, <3>1
  <2>3. /\ k \in 0..(p - 1)
        /\ r = Edges(k, w)
        /\ k * w <= value + Side
        /\ value + Side < (k + 1) * w \/ (value = Side /\ k = p - 1)
    BY <2>1 DEF IsStrip
  <2>4. h[j].range = Narrower(r, Bit(value, r))
    BY <1>3
  <2> HIDE DEF w, v, p, r
  <2>5. /\ Mean(r) = (2 * k + 1) * v - Side
        /\ r.min = (2 * k) * v - Side
        /\ r.max = (2 * k + 1 + 1) * v - Side
    <3>1. IsCut(r, k, v)
      BY <2>2, <2>3, MeanCutsStrip
    <3>2. QED
      BY <3>1 DEF IsCut
  <2>6. k * w = (2 * k) * v /\ (k + 1) * w = (2 * k + 1 + 1) * v
    BY <2>2
  <2>7. CASE value < Mean(r)
    <3>1. h[j].range = [min |-> (2 * k) * v - Side, max |-> (2 * k + 1) * v - Side]
      BY <2>4, <2>5, <2>7 DEF Narrower, Bit, LowerHalf
    <3>2. 2 * k \in 0..(pow2[j] - 1)
      BY <2>2, <2>3
    <3>3. (2 * k) * v <= value + Side
      BY <2>3, <2>6
    <3>4. value + Side < (2 * k + 1) * v
      <4> DEFINE e == (2 * k + 1) * v
      <4>1. e \in Int /\ Mean(r) = e - Side
        BY <2>2, <2>5
      <4> HIDE DEF e
      <4>2. value + Side < e
        BY <2>7, <4>1
      <4>3. QED
        BY <4>2 DEF e
    <3>5. IsStrip(h[j].range, value, j, 2 * k)
      BY <3>1, <3>2, <3>3, <3>4 DEF IsStrip, Edges, v
    <3>6. QED
      BY <3>5
  <2>8. CASE ~ (value < Mean(r))
    <3>1. h[j].range = [min |-> (2 * k + 1) * v - Side, max |-> (2 * k + 1 + 1) * v - Side]
      BY <2>4, <2>5, <2>8 DEF Narrower, Bit, UpperHalf
    <3>2. 2 * k + 1 \in 0..(pow2[j] - 1)
      BY <2>2, <2>3
    <3>3. (2 * k + 1) * v <= value + Side
      <4> DEFINE e == (2 * k + 1) * v
      <4>1. e \in Int /\ Mean(r) = e - Side
        BY <2>2, <2>5
      <4> HIDE DEF e
      <4>2. e <= value + Side
        BY <2>8, <4>1
      <4>3. QED
        BY <4>2 DEF e
    <3>4. value + Side < (2 * k + 1 + 1) * v \/ (value = Side /\ 2 * k + 1 = pow2[j] - 1)
      BY <2>2, <2>3, <2>6
    <3>5. IsStrip(h[j].range, value, j, 2 * k + 1)
      BY <3>1, <3>2, <3>3, <3>4 DEF IsStrip, Edges, v
    <3>6. QED
      BY <3>5
  <2>9. QED
    BY <2>7, <2>8
<1> HIDE DEF T
<1>8. 0..N \subseteq T
  BY <1>1, <1>6, <1>7, UpTo
<1>9. QED
  BY <1>8 DEF T, h

(* The strip of a value is the only one of its level that holds it.         *)
LEMMA StripIsTheOne ==
    ASSUME NEW value \in (-Side)..Side, NEW i \in Nat, NEW k \in Int, NEW r,
           Width(i) \in Nat \ {0}, 2 * Side = Width(i) * pow2[i],
           IsStrip(r, value, i, k)
    PROVE  r = Strip(value, i)
<1> DEFINE w == Width(i)
<1> DEFINE p == pow2[i]
<1> DEFINE index == (value + Side) \div w
<1> DEFINE low == IF index = p THEN index - 1 ELSE index
<1>1. w \in Nat \ {0} /\ p \in Nat \ {0} /\ 2 * Side = w * p /\ value + Side \in Nat
  BY Pow2Def
<1>2. Strip(value, i) = [min |-> low * w - Side, max |-> (low + 1) * w - Side]
  BY DEF Strip, Width
<1>3. /\ k \in 0..(p - 1)
      /\ r = [min |-> k * w - Side, max |-> (k + 1) * w - Side]
      /\ k * w <= value + Side
      /\ value + Side < (k + 1) * w \/ (value = Side /\ k = p - 1)
  BY DEF IsStrip, Edges
<1> HIDE DEF w, p
<1>4. CASE value + Side < (k + 1) * w
  <2>1. index = k
    BY <1>1, <1>3, <1>4
  <2> HIDE DEF index
  <2>2. low = k
    BY <1>3, <2>1
  <2>3. QED
    BY <1>2, <1>3, <2>2
<1>5. CASE value = Side /\ k = p - 1
  <2>1. value + Side = p * w
    BY <1>1, <1>5
  <2>2. index = p
    BY <1>1, <2>1
  <2> HIDE DEF index
  <2>3. low = k
    BY <1>1, <1>5, <2>2
  <2>4. QED
    BY <1>2, <1>3, <2>3
<1>6. QED
  BY <1>3, <1>4, <1>5

(* As long as the halvings are exact, both of their halves are wider than   *)
(* nothing.                                                                 *)
LEMMA MeanIsInside ==
    ASSUME NEW value \in (-Side)..Side, NEW n \in Nat,
           NEW N \in 0..n, (2 * Side) % pow2[N] = 0,
           NEW i \in 1..N
    PROVE  LET r == halvings(value, n)[i - 1].range
           IN  r \in Ranges /\ r.min < Mean(r) /\ Mean(r) < r.max /\ Mean(r) \in Int
<1> DEFINE r == halvings(value, n)[i - 1].range
<1> DEFINE w == Width(i - 1)
<1> DEFINE v == Width(i)
<1>1. i - 1 \in 0..N /\ i - 1 \in 0..n /\ value \in Int /\ N \in Nat
  OBVIOUS
<1>2. r \in Ranges
  BY <1>1, HalvingsDef DEF Accumulator
<1>3. w = 2 * v /\ v \in Nat \ {0}
  BY <1>1, WidthsHalve
<1>4. PICK k \in Int : IsStrip(r, value, i - 1, k)
  BY <1>1, HalvingsAreStrips
<1>5. r = Edges(k, w)
  BY <1>4 DEF IsStrip
<1> HIDE DEF r, w, v
<1>6. /\ Mean(r) = (2 * k + 1) * v - Side
      /\ r.min = (2 * k) * v - Side
      /\ r.max = (2 * k + 1 + 1) * v - Side
  <2>1. IsCut(r, k, v)
    BY <1>3, <1>5, MeanCutsStrip
  <2>2. QED
    BY <2>1 DEF IsCut
<1>7. (2 * k) * v + v = (2 * k + 1) * v /\ (2 * k + 1) * v + v = (2 * k + 1 + 1) * v
  BY <1>3
<1>8. r.min < Mean(r) /\ Mean(r) < r.max
  <2> DEFINE a == (2 * k) * v
  <2> DEFINE b == (2 * k + 1) * v
  <2> DEFINE c == (2 * k + 1 + 1) * v
  <2>1. a \in Int /\ b \in Int /\ c \in Int /\ a + v = b /\ b + v = c
    BY <1>3, <1>7
  <2>2. Mean(r) = b - Side /\ r.min = a - Side /\ r.max = c - Side
    BY <1>6
  <2> HIDE DEF a, b, c
  <2>3. QED
    BY <1>3, <2>1, <2>2
<1>9. Mean(r) \in Int
  BY <1>2, Halves
<1>10. QED
  BY <1>2, <1>8, <1>9 DEF r

(* The ranges of encode are the strips of the reference.                    *)
LEMMA HalvingsAreTheStrips ==
    ASSUME NEW value \in (-Side)..Side, NEW n \in Nat,
           NEW N \in 0..n, (2 * Side) % pow2[N] = 0,
           NEW i \in 0..N
    PROVE  halvings(value, n)[i].range = Strip(value, i)
<1>1. PICK k \in Int : IsStrip(halvings(value, n)[i].range, value, i, k)
  BY HalvingsAreStrips
<1>2. Width(i) \in Nat \ {0} /\ 2 * Side = Width(i) * pow2[i]
  <2>1. N \in Nat
    OBVIOUS
  <2>2. QED
    BY <2>1, WidthsHalve
<1>3. i \in Nat
  OBVIOUS
<1>4. QED
  BY <1>1, <1>2, <1>3, StripIsTheOne

(* Ranges only get smaller, and never empty.                                *)
LEMMA RangesNest ==
    ASSUME NEW value \in (-Side)..Side, NEW n \in Nat,
           NEW N \in 0..n, (2 * Side) % pow2[N] = 0,
           NEW i \in 0..N
    PROVE  LET r == halvings(value, n)[i].range
               s == halvings(value, n)[N].range
           IN  r.min <= s.min /\ s.min < s.max /\ s.max <= r.max /\ r \in Ranges /\ s \in Ranges
<1> DEFINE h == halvings(value, n)
<1> DEFINE Nested(j) ==
      /\ h[i].range.min <= h[j].range.min
      /\ h[j].range.min < h[j].range.max
      /\ h[j].range.max <= h[i].range.max
<1>1. value \in Int /\ N \in Nat
  OBVIOUS
<1>2. \A j \in 0..N : h[j].range \in Ranges
  <2>1. \A j \in 0..N : j \in 0..n
    OBVIOUS
  <2>2. QED
    BY <1>1, <2>1, HalvingsDef DEF Accumulator
<1>3. \A j \in 1..N : h[j].range = Narrower(h[j - 1].range, Bit(value, h[j - 1].range))
  <2>1. \A j \in 1..N : j \in 1..n
    OBVIOUS
  <2>2. QED
    BY <1>1, <2>1, RangesFollowBits
<1>4. \A j \in 1..N : /\ h[j - 1].range.min < Mean(h[j - 1].range)
                      /\ Mean(h[j - 1].range) < h[j - 1].range.max
                      /\ Mean(h[j - 1].range) \in Int
  BY MeanIsInside
<1> HIDE DEF h
<1>5. ASSUME NEW j \in 1..N
      PROVE  /\ h[j - 1].range.min <= h[j].range.min
             /\ h[j].range.min < h[j].range.max
             /\ h[j].range.max <= h[j - 1].range.max
  <2> DEFINE r == h[j - 1].range
  <2>1. h[j].range = UpperHalf(r) \/ h[j].range = LowerHalf(r)
    BY <1>3 DEF Narrower
  <2>2. r.min < Mean(r) /\ Mean(r) < r.max /\ Mean(r) \in Int
    BY <1>4
  <2>3. r \in Ranges
    BY <1>2
  <2> HIDE DEF r
  <2>4. QED
    BY <2>1, <2>2, <2>3 DEF UpperHalf, LowerHalf, Ranges, r
<1>6. h[i].range.min < h[i].range.max
  <2>1. CASE i = 0
    <3>1. h[0].range = Whole
      BY <1>1, HalvingsDef DEF h, Beginning
    <3>2. QED
      BY <2>1, <3>1 DEF Whole
  <2>2. CASE i # 0
    <3>1. i \in 1..N /\ h[i].range \in Ranges
      BY <1>2, <2>2
    <3>2. QED
      BY <1>5, <3>1 DEF Ranges
  <2>3. QED
    BY <2>1, <2>2
<1> DEFINE T == {d \in 0..(N - i) : Nested(i + d)}
<1>7. 0 \in T
  <2>1. i + 0 = i /\ 0 \in 0..(N - i) /\ h[i].range \in Ranges
    BY <1>2
  <2>2. QED
    BY <1>6, <2>1 DEF Ranges
<1>8. ASSUME NEW d \in 1..(N - i), d - 1 \in T
      PROVE  d \in T
  <2> DEFINE j == i + d
  <2>1. j \in 1..N /\ j - 1 = i + (d - 1) /\ j - 1 \in 0..N /\ j \in 0..N
    OBVIOUS
  <2>2. Nested(j - 1)
    BY <1>8, <2>1
  <2>3. h[j].range \in Ranges /\ h[j - 1].range \in Ranges /\ h[i].range \in Ranges
    BY <1>2, <2>1
  <2>4. /\ h[j - 1].range.min <= h[j].range.min
        /\ h[j].range.min < h[j].range.max
        /\ h[j].range.max <= h[j - 1].range.max
    BY <1>5, <2>1
  <2> HIDE DEF j
  <2>5. Nested(j)
    BY <2>2, <2>3, <2>4 DEF Ranges
  <2>6. QED
    BY <2>5 DEF j
<1> HIDE DEF T, Nested
<1>9. 0..(N - i) \subseteq T
  <2>1. N - i \in Nat
    OBVIOUS
  <2>2. QED
    BY <1>7, <1>8, <2>1, UpTo
<1>10. Nested(N)
  <2>1. N - i \in T /\ i + (N - i) = N
    BY <1>9
  <2>2. QED
    BY <2>1 DEF T
<1>11. N \in 0..N
  BY <1>1
<1>12. QED
  BY <1>2, <1>10, <1>11 DEF Nested, h

(* Two values that end in one strip took the same half each time.           *)
LEMMA SameStripSameBits ==
    ASSUME NEW a \in (-Side)..Side, NEW b \in (-Side)..Side, NEW n \in Nat,
           NEW N \in 0..n, (2 * Side) % pow2[N] = 0,
           halvings(a, n)[N].range = halvings(b, n)[N].range
    PROVE  \A i \in 1..N : halvings(a, n)[n].bits[i] = halvings(b, n)[n].bits[i]
<1> DEFINE h == halvings(a, n)
<1> DEFINE g == halvings(b, n)
<1>1. a \in Int /\ b \in Int /\ N \in Nat
  OBVIOUS
<1>2. ASSUME NEW i \in 1..N
      PROVE  /\ h[i].range = Narrower(h[i - 1].range, h[n].bits[i])
             /\ h[n].bits[i] = Bit(a, h[i - 1].range)
             /\ g[i].range = Narrower(g[i - 1].range, g[n].bits[i])
             /\ g[n].bits[i] = Bit(b, g[i - 1].range)
  <2>1. i \in 1..n
    OBVIOUS
  <2>2. QED
    BY <1>1, <2>1, RangesFollowBits
<1>3. ASSUME NEW i \in 1..N
      PROVE  /\ h[N].range.min < h[N].range.max
             /\ h[N].range \in Ranges
             /\ h[i].range.min <= h[N].range.min /\ h[N].range.max <= h[i].range.max
             /\ g[i].range.min <= g[N].range.min /\ g[N].range.max <= g[i].range.max
             /\ Mean(h[i - 1].range) \in Int
  <2>1. i \in 0..N
    OBVIOUS
  <2>2. /\ h[i].range.min <= h[N].range.min /\ h[N].range.min < h[N].range.max
        /\ h[N].range.max <= h[i].range.max /\ h[N].range \in Ranges
    BY <2>1, RangesNest
  <2>3. g[i].range.min <= g[N].range.min /\ g[N].range.max <= g[i].range.max
    BY <2>1, RangesNest
  <2>4. Mean(h[i - 1].range) \in Int
    BY MeanIsInside
  <2>5. QED
    BY <2>2, <2>3, <2>4
<1>4. h[0].range = g[0].range
  BY <1>1, HalvingsDef
<1>5. h[N].range = g[N].range
  OBVIOUS
<1> HIDE DEF h, g
<1>6. ASSUME NEW i \in 1..N, h[i - 1].range = g[i - 1].range
      PROVE  h[n].bits[i] = g[n].bits[i] /\ h[i].range = g[i].range
  <2> DEFINE r == h[i - 1].range
  <2>1. h[n].bits[i] \in {0, 1} /\ g[n].bits[i] \in {0, 1}
    BY <1>2 DEF Bit
  <2>2. ASSUME h[n].bits[i] = 0, g[n].bits[i] = 1
        PROVE  FALSE
    <3>1. h[i].range.max = Mean(r) /\ g[i].range.min = Mean(r)
      <4>1. h[i].range = LowerHalf(r) /\ g[i].range = UpperHalf(r)
        BY <1>2, <1>6, <2>2 DEF Narrower
      <4>2. QED
        BY <4>1 DEF LowerHalf, UpperHalf
    <3>2. QED
      BY <1>3, <1>5, <3>1 DEF Ranges
  <2>3. ASSUME h[n].bits[i] = 1, g[n].bits[i] = 0
        PROVE  FALSE
    <3>1. h[i].range.min = Mean(r) /\ g[i].range.max = Mean(r)
      <4>1. h[i].range = UpperHalf(r) /\ g[i].range = LowerHalf(r)
        BY <1>2, <1>6, <2>3 DEF Narrower
      <4>2. QED
        BY <4>1 DEF LowerHalf, UpperHalf
    <3>2. QED
      BY <1>3, <1>5, <3>1 DEF Ranges
  <2>4. h[n].bits[i] = g[n].bits[i]
    BY <2>1, <2>2, <2>3
  <2>5. QED
    BY <1>2, <1>6, <2>4
<1> DEFINE T == {i \in 0..N : h[i].range = g[i].range}
<1>7. 0 \in T
  BY <1>1, <1>4
<1>8. \A i \in 1..N : i - 1 \in T => i \in T
  BY <1>6
<1> HIDE DEF T
<1>9. 0..N \subseteq T
  BY <1>1, <1>7, <1>8, UpTo
<1>10. ASSUME NEW i \in 1..N
       PROVE  h[n].bits[i] = g[n].bits[i]
  <2>1. i - 1 \in T
    BY <1>9
  <2>2. QED
    BY <1>6, <2>1 DEF T
<1>11. QED
  BY <1>10 DEF h, g

\* The first m halvings of a and of b take the same half each.
SameHalves(a, b, n, m) ==
    \A i \in 1..m : halvings(a, n)[n].bits[i] = halvings(b, n)[n].bits[i]

(* The same of the reference: two values of one strip have the bits in      *)
(* common that stand for it.                                                *)
LEMMA StripHasItsBits ==
    ASSUME NEW a \in (-Side)..Side, NEW b \in (-Side)..Side, NEW n \in Nat,
           NEW N \in 0..n, (2 * Side) % pow2[N] = 0,
           NEW M \in 0..N, Strip(a, M) = Strip(b, M)
    PROVE  SameHalves(a, b, n, M)
<1>1. M \in 0..n /\ N \in Nat
  OBVIOUS
<1>2. (2 * Side) % pow2[M] = 0
  <2>1. 2 * Side = Width(M) * pow2[M] /\ Width(M) \in Nat /\ pow2[M] \in Nat \ {0}
    BY <1>1, WidthsHalve, Pow2Def
  <2>2. \A w \in Nat, p \in Nat \ {0} : (w * p) % p = 0
    OBVIOUS
  <2>3. QED
    BY <2>1, <2>2
<1>3. halvings(a, n)[M].range = Strip(a, M)
  BY HalvingsAreTheStrips
<1>4. halvings(b, n)[M].range = Strip(b, M)
  BY HalvingsAreTheStrips
<1>5. halvings(a, n)[M].range = halvings(b, n)[M].range
  BY <1>3, <1>4
<1>6. QED
  BY <1>1, <1>2, <1>5, SameStripSameBits DEF SameHalves

-----------------------------------------------------------------------------
(* Codes and cells *)

(* The code of a position is decoded to the one strip of either axis that   *)
(* holds the position, for any grid on which the halvings it keeps are      *)
(* exact and a code of any length: the longitude's strips are those of one  *)
(* halving more when the number of bits is odd.                             *)
THEOREM CodeIsCell ==
    ASSUME NEW lat \in (-Side)..Side, NEW lon \in (-Side)..Side, NEW length \in Nat,
           (2 * Side) % pow2[(5 * length + 1) \div 2] = 0, NEW None
    PROVE  decode(encode(lat, lon, length), None) =
             [longitude |-> Strip(lon, (5 * length + 1) \div 2),
              latitude  |-> Strip(lat, (5 * length) \div 2)]
<1> DEFINE n == length * 5
<1> DEFINE N == (5 * length + 1) \div 2
<1> DEFINE M == (5 * length) \div 2
<1>1. lat \in Int /\ lon \in Int /\ n \in Nat /\ N \in 0..n /\ M \in 0..N /\ N \in 0..N
  OBVIOUS
<1>2. decode(encode(lat, lon, length), None) =
        [longitude |-> halvings(lon, n)[N].range, latitude |-> halvings(lat, n)[M].range]
  BY <1>1, DecodeUndoesEncode
<1>3. (2 * Side) % pow2[N] = 0
  OBVIOUS
<1> HIDE DEF n, N, M
<1>4. halvings(lon, n)[N].range = Strip(lon, N)
  BY <1>1, <1>3, HalvingsAreTheStrips
<1>5. halvings(lat, n)[M].range = Strip(lat, M)
  BY <1>1, <1>3, HalvingsAreTheStrips
<1>6. QED
  BY <1>2, <1>4, <1>5 DEF N, M

(* Two positions of one cell have one code.                                 *)
THEOREM CellHasOneCode ==
    ASSUME NEW lat1 \in (-Side)..Side, NEW lon1 \in (-Side)..Side,
           NEW lat2 \in (-Side)..Side, NEW lon2 \in (-Side)..Side, NEW length \in Nat,
           (2 * Side) % pow2[(5 * length + 1) \div 2] = 0,
           Strip(lon1, (5 * length + 1) \div 2) = Strip(lon2, (5 * length + 1) \div 2),
           Strip(lat1, (5 * length) \div 2) = Strip(lat2, (5 * length) \div 2)
    PROVE  encode(lat1, lon1, length) = encode(lat2, lon2, length)
<1> DEFINE n == length * 5
<1> DEFINE N == (5 * length + 1) \div 2
<1> DEFINE M == (5 * length) \div 2
<1> DEFINE b1 == KeyBits(lat1, lon1, length)
<1> DEFINE b2 == KeyBits(lat2, lon2, length)
<1> DEFINE c1 == encode(lat1, lon1, length)
<1> DEFINE c2 == encode(lat2, lon2, length)
<1>1. lat1 \in Int /\ lon1 \in Int /\ lat2 \in Int /\ lon2 \in Int
  OBVIOUS
<1>2. IsMadeOf(c1, b1, lat1, lon1, length) /\ IsMadeOf(c2, b2, lat2, lon2, length)
  BY <1>1, CodeOfBits
<1>3. /\ \A i \in 1..n : /\ b1[2 * i - 1] = halvings(lon1, n)[n].bits[i]
                         /\ b1[2 * i] = halvings(lat1, n)[n].bits[i]
      /\ \A i \in 1..n : /\ b2[2 * i - 1] = halvings(lon2, n)[n].bits[i]
                         /\ b2[2 * i] = halvings(lat2, n)[n].bits[i]
  BY <1>2 DEF IsMadeOf
<1>4. Strip(lon1, N) = Strip(lon2, N) /\ Strip(lat1, M) = Strip(lat2, M)
  OBVIOUS
<1>5. /\ n \in Nat /\ n = 5 * length /\ N = (n + 1) \div 2 /\ M = n \div 2
      /\ N \in 0..n /\ M \in 0..N /\ N \in 0..N
  OBVIOUS
<1>6. (2 * Side) % pow2[N] = 0
  OBVIOUS
<1> HIDE DEF n, N, M, b1, b2, c1, c2
<1>7. SameHalves(lon1, lon2, n, N)
  BY <1>4, <1>5, <1>6, StripHasItsBits
<1>8. SameHalves(lat1, lat2, n, M)
  BY <1>4, <1>5, <1>6, StripHasItsBits
<1>9. ASSUME NEW p \in 1..n
      PROVE  b1[p] = b2[p]
  <2>1. CASE p % 2 = 1
    <3>1. PICK i \in 1..N : p = 2 * i - 1
      <4>1. (p + 1) \div 2 \in 1..N /\ p = 2 * ((p + 1) \div 2) - 1
        BY <1>5, <2>1
      <4>2. QED
        BY <4>1
    <3>2. i \in 1..n
      BY <1>5
    <3>3. QED
      BY <1>3, <1>7, <3>1, <3>2 DEF SameHalves
  <2>2. CASE p % 2 # 1
    <3>1. PICK i \in 1..M : p = 2 * i
      <4>1. p \div 2 \in 1..M /\ p = 2 * (p \div 2)
        BY <1>5, <2>2
      <4>2. QED
        BY <4>1
    <3>2. i \in 1..n
      BY <1>5
    <3>3. QED
      BY <1>3, <1>8, <3>1, <3>2 DEF SameHalves
  <2>3. QED
    BY <2>1, <2>2
<1>10. ASSUME NEW k \in 1..length
       PROVE  c1[k] = c2[k]
  <2>1. \A j \in 1..5 : 5 * (k - 1) + j \in 1..n
    BY <1>5
  <2>2. \A j \in 1..5 : b1[5 * (k - 1) + j] = b2[5 * (k - 1) + j]
    BY <1>9, <2>1
  <2>3. character(b1, k) = character(b2, k)
    <3>1. 1 \in 1..5 /\ 2 \in 1..5 /\ 3 \in 1..5 /\ 4 \in 1..5 /\ 5 \in 1..5
      OBVIOUS
    <3>2. /\ b1[5 * (k - 1) + 1] = b2[5 * (k - 1) + 1]
          /\ b1[5 * (k - 1) + 2] = b2[5 * (k - 1) + 2]
          /\ b1[5 * (k - 1) + 3] = b2[5 * (k - 1) + 3]
          /\ b1[5 * (k - 1) + 4] = b2[5 * (k - 1) + 4]
          /\ b1[5 * (k - 1) + 5] = b2[5 * (k - 1) + 5]
      BY <2>2, <3>1
    <3>3. QED
      BY <3>2 DEF character
  <2>4. QED
    BY <1>2, <2>3 DEF IsMadeOf
<1>11. c1 = c2
  BY <1>2, <1>10, SeqEqual DEF IsMadeOf
<1>12. QED
  BY <1>11 DEF c1, c2

(* The cell a code stands for holds the position it was made of, which is   *)
(* below the cell's upper edges unless they are the ends of the axes.       *)
THEOREM CellHoldsPosition ==
    ASSUME NEW lat \in (-Side)..Side, NEW lon \in (-Side)..Side, NEW length \in Nat,
           (2 * Side) % pow2[(5 * length + 1) \div 2] = 0, NEW None
    PROVE  LET cell == decode(encode(lat, lon, length), None)
           IN  /\ Holds(cell.longitude, lon)
               /\ Holds(cell.latitude, lat)
<1> DEFINE n == length * 5
<1> DEFINE N == (5 * length + 1) \div 2
<1> DEFINE M == (5 * length) \div 2
<1> DEFINE cell == decode(encode(lat, lon, length), None)
<1>1. /\ lat \in Int /\ lon \in Int
      /\ n \in Nat /\ N \in 0..n /\ M \in 0..N /\ N \in 0..N /\ N \in Nat
  OBVIOUS
<1>2. cell = [longitude |-> halvings(lon, n)[N].range, latitude |-> halvings(lat, n)[M].range]
  BY <1>1, DecodeUndoesEncode
<1>3. (2 * Side) % pow2[N] = 0
  OBVIOUS
<1> HIDE DEF n, N, M, cell
<1>4. PICK k \in Int : IsStrip(halvings(lon, n)[N].range, lon, N, k)
  BY <1>1, <1>3, HalvingsAreStrips
<1>5. PICK l \in Int : IsStrip(halvings(lat, n)[M].range, lat, M, l)
  BY <1>1, <1>3, HalvingsAreStrips
<1>6. Width(N) \in Nat /\ Width(M) \in Nat
  BY <1>1, <1>3, WidthsHalve
<1>7. 2 * Side = Width(N) * pow2[N] /\ 2 * Side = Width(M) * pow2[M]
  BY <1>1, <1>3, WidthsHalve
<1>8. Holds(cell.longitude, lon)
  BY <1>1, <1>2, <1>4, <1>6, <1>7, StripHolds
<1>9. Holds(cell.latitude, lat)
  BY <1>1, <1>2, <1>5, <1>6, <1>7, StripHolds
<1>10. QED
  BY <1>8, <1>9 DEF cell

(* The halvings of a value do not depend on how many of them are made.      *)
LEMMA HalvingsAgree ==
    ASSUME NEW value \in Int, NEW n \in Nat, NEW m \in Nat, n <= m
    PROVE  \A i \in 0..n : halvings(value, n)[i] = halvings(value, m)[i]
<1> DEFINE f == halvings(value, n)
<1> DEFINE g == halvings(value, m)
<1> DEFINE T == {i \in 0..n : f[i] = g[i]}
<1>1. f[0] = Beginning /\ \A i \in 1..n : f[i] = combiner(f[i - 1], value)
  BY HalvingsDef
<1>2. g[0] = Beginning /\ \A i \in 1..m : g[i] = combiner(g[i - 1], value)
  BY HalvingsDef
<1> HIDE DEF f, g
<1>3. 0 \in T
  BY <1>1, <1>2
<1>4. ASSUME NEW i \in 1..n, i - 1 \in T
      PROVE  i \in T
  <2>1. i \in 0..n /\ i \in 1..m
    OBVIOUS
  <2>2. f[i - 1] = g[i - 1]
    BY <1>4
  <2>3. QED
    BY <1>1, <1>2, <2>1, <2>2
<1> HIDE DEF T
<1>5. 0..n \subseteq T
  BY <1>3, <1>4, UpTo
<1>6. QED
  BY <1>5 DEF T, f, g

(* So a bit of the value is the same in a longer code.                      *)
LEMMA BitsAgree ==
    ASSUME NEW value \in Int, NEW n \in Nat, NEW m \in Nat, n <= m, NEW i \in 1..n
    PROVE  halvings(value, n)[n].bits[i] = halvings(value, m)[m].bits[i]
<1>1. i \in 1..m /\ i - 1 \in 0..n
  OBVIOUS
<1>2. halvings(value, n)[n].bits[i] = Bit(value, halvings(value, n)[i - 1].range)
  BY RangesFollowBits
<1>3. halvings(value, m)[m].bits[i] = Bit(value, halvings(value, m)[i - 1].range)
  BY <1>1, RangesFollowBits
<1>4. halvings(value, n)[i - 1] = halvings(value, m)[i - 1]
  BY <1>1, HalvingsAgree
<1>5. QED
  BY <1>2, <1>3, <1>4

(* A shorter code is the beginning of a longer one of the same position: a  *)
(* trip's key and the ten characters of a polygon's corner agree.           *)
THEOREM ShorterCodeIsPrefix ==
    ASSUME NEW lat \in Int, NEW lon \in Int, NEW short \in Nat, NEW length \in Nat,
           short <= length, NEW k \in 1..short
    PROVE  encode(lat, lon, short)[k] = encode(lat, lon, length)[k]
<1> DEFINE n == short * 5
<1> DEFINE m == length * 5
<1> DEFINE b == KeyBits(lat, lon, short)
<1> DEFINE c == KeyBits(lat, lon, length)
<1>1. /\ IsMadeOf(encode(lat, lon, short), b, lat, lon, short)
      /\ IsMadeOf(encode(lat, lon, length), c, lat, lon, length)
  BY CodeOfBits
<1>2. /\ \A i \in 1..n : /\ b[2 * i - 1] = halvings(lon, n)[n].bits[i]
                         /\ b[2 * i] = halvings(lat, n)[n].bits[i]
      /\ \A i \in 1..m : /\ c[2 * i - 1] = halvings(lon, m)[m].bits[i]
                         /\ c[2 * i] = halvings(lat, m)[m].bits[i]
  BY <1>1 DEF IsMadeOf
<1>3. /\ n \in Nat /\ m \in Nat /\ n <= m /\ n = 5 * short
      /\ k \in 1..length
  OBVIOUS
<1> HIDE DEF n, m, b, c
<1>4. ASSUME NEW i \in 1..n
      PROVE  b[2 * i - 1] = c[2 * i - 1] /\ b[2 * i] = c[2 * i]
  <2>1. i \in 1..m
    BY <1>3
  <2>2. halvings(lon, n)[n].bits[i] = halvings(lon, m)[m].bits[i]
    BY <1>3, BitsAgree
  <2>3. halvings(lat, n)[n].bits[i] = halvings(lat, m)[m].bits[i]
    BY <1>3, BitsAgree
  <2>4. QED
    BY <1>2, <2>1, <2>2, <2>3
<1>5. ASSUME NEW p \in 1..n
      PROVE  b[p] = c[p]
  <2>1. CASE p % 2 = 1
    <3>1. (p + 1) \div 2 \in 1..n /\ p = 2 * ((p + 1) \div 2) - 1
      BY <1>3, <2>1
    <3>2. QED
      BY <1>4, <3>1
  <2>2. CASE p % 2 # 1
    <3>1. p \div 2 \in 1..n /\ p = 2 * (p \div 2)
      BY <1>3, <2>2
    <3>2. QED
      BY <1>4, <3>1
  <2>3. QED
    BY <2>1, <2>2
<1>6. character(b, k) = character(c, k)
  <2>1. \A j \in 1..5 : 5 * (k - 1) + j \in 1..n
    BY <1>3
  <2>2. /\ 5 * (k - 1) + 1 \in 1..n /\ 5 * (k - 1) + 2 \in 1..n
        /\ 5 * (k - 1) + 3 \in 1..n /\ 5 * (k - 1) + 4 \in 1..n
        /\ 5 * (k - 1) + 5 \in 1..n
    BY <2>1
  <2>3. QED
    BY <1>5, <2>2 DEF character
<1>7. QED
  BY <1>1, <1>3, <1>6 DEF IsMadeOf
=============================================================================
