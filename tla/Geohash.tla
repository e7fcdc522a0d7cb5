------------------------------ MODULE Geohash ------------------------------
(***************************************************************************)
(* Geohash.swift: the code of a position by repeated halving of the ranges *)
(* of its longitude and latitude, and the cell a code stands for.          *)
(*                                                                         *)
(* Coordinates are integers in -Side..Side on both axes, in a unit so      *)
(* small that the halvings a code keeps are exact, as they are for the     *)
(* doubles of the program.  A character is the number of its five bits; a  *)
(* character that is no code's is any other value.  Each reduce of the     *)
(* program is the function of its accumulators, from the initial one on.   *)
(***************************************************************************)
EXTENDS Integers, Sequences

CONSTANT Side       \* half the extent of an axis: 90 or 180 degrees

ASSUME SideAssumption == Side \in Nat \ {0}

Whole == [min |-> -Side, max |-> Side]
Mean(r) == (r.min + r.max) \div 2
LowerHalf(r) == [min |-> r.min, max |-> Mean(r)]
UpperHalf(r) == [min |-> Mean(r), max |-> r.max]

combinerUpToMean(a, value) ==   \* mutant: the mean belongs to the lower half
    IF value <= Mean(a.range)
      THEN [range |-> LowerHalf(a.range), bits |-> Append(a.bits, 0)]
      ELSE [range |-> UpperHalf(a.range), bits |-> Append(a.bits, 1)]

\* One halving of encode: the half the value is in, the upper one if it is the
\* mean.
combiner(a, value) ==
    IF value < Mean(a.range)
      THEN [range |-> LowerHalf(a.range), bits |-> Append(a.bits, 0)]
      ELSE [range |-> UpperHalf(a.range), bits |-> Append(a.bits, 1)]

halvings(value, n) ==
    LET a[i \in 0..n] == IF i = 0 THEN [range |-> Whole, bits |-> <<>>]
                                  ELSE combiner(a[i - 1], value)
    IN  a

interleaveLatitudeFirst(lon, lat) ==   \* mutant: the axes swapped
    [i \in 1..(2 * Len(lon)) |-> IF i % 2 = 1 THEN lat[(i + 1) \div 2] ELSE lon[i \div 2]]

\* latlon: the bits of the longitude and of the latitude by turns.
interleave(lon, lat) ==
    [i \in 1..(2 * Len(lon)) |-> IF i % 2 = 1 THEN lon[(i + 1) \div 2] ELSE lat[i \div 2]]

\* charmap and bitmap: the number of the k-th group of five bits, and back.
character(bits, k) ==
    LET b(j) == bits[5 * (k - 1) + j]
    IN  16 * b(1) + 8 * b(2) + 4 * b(3) + 2 * b(4) + b(5)

bitmap(c) ==
    IF c \in 0..31
      THEN <<c \div 16, (c \div 8) % 2, (c \div 4) % 2, (c \div 2) % 2, c % 2>>
      ELSE <<"?">>

\* Twice the bits that the code needs are made, and the prefix is taken.
encode(latitude, longitude, length) ==
    LET n == length * 5
        bits == interleave(halvings(longitude, n)[n].bits, halvings(latitude, n)[n].bits)
    IN  [k \in 1..length |-> character(bits, k)]

\* The bits of a code's characters, after each of them.
joined(hash) ==
    LET s[k \in 0..Len(hash)] == IF k = 0 THEN <<>> ELSE s[k - 1] \o bitmap(hash[k])
    IN  s

\* The bits at the even (0) or at the odd (1) indexes.
axis(bits, parity) ==
    [i \in 1..((Len(bits) + 1 - parity) \div 2) |-> bits[2 * i - 1 + parity]]

\* One halving of decode after another.
narrowings(bits) ==
    LET r[i \in 0..Len(bits)] == IF i = 0 THEN Whole
                                 ELSE IF bits[i] = 1 THEN UpperHalf(r[i - 1])
                                                     ELSE LowerHalf(r[i - 1])
    IN  r

\* The ranges a code stands for, or None if its bits are no groups of five.
decode(hash, None) ==
    LET bits == joined(hash)[Len(hash)]
        range(a) == narrowings(a)[Len(a)]
    IN  IF Len(bits) % 5 # 0 THEN None
        ELSE [longitude |-> range(axis(bits, 0)), latitude |-> range(axis(bits, 1))]
-----------------------------------------------------------------------------
pow2[n \in Nat] == IF n = 0 THEN 1 ELSE 2 * pow2[n - 1]

\* The reference: an axis is cut into 2^n equal strips that hold their lower
\* edge, the last one its upper edge as well.
Strip(value, n) ==
    LET width == (2 * Side) \div pow2[n]
        index == (value + Side) \div width
        low   == IF index = pow2[n] THEN index - 1 ELSE index
    IN  [min |-> low * width - Side, max |-> (low + 1) * width - Side]
=============================================================================
