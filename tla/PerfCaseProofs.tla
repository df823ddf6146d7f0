--------------------------- MODULE PerfCaseProofs ---------------------------
(***************************************************************************)
(* What case.py measures, for any number of pods, nodes, seconds and       *)
(* events, and any radix of the lengths in the stream of its watch.        *)
(* First, that lengths are read as they are written, an induction over     *)
(* numbers. Then, that the reader stays in step with the server: the       *)
(* stream is a row of units, a length and an event each, and the reader    *)
(* is some bytes into one of them. Then, the driver and the cluster.       *)
(***************************************************************************)
EXTENDS PerfCase, FiniteSetTheorems, SequenceTheorems, TLAPS

\* Induction over the numbers, for a set in the place of a predicate: were n missing, the
\* successor would map the members up to n one to one into those without 0.
LEMMA SetInduction ==
    ASSUME NEW P, 0 \in P, \A n \in Nat : n \in P => n + 1 \in P
    PROVE  \A n \in Nat : n \in P
<1> SUFFICES ASSUME NEW n \in Nat, n \notin P PROVE FALSE
  OBVIOUS
<1> DEFINE A == P \cap (0 .. n)
           f == [x \in A |-> x + 1]
<1>1. IsFiniteSet(A) /\ IsFiniteSet(A \ {0}) /\ Cardinality(A \ {0}) = Cardinality(A) - 1
      /\ Cardinality(A) \in Nat
  <2>1. IsFiniteSet(0 .. n)
    BY FS_Interval
  <2>2. IsFiniteSet(A) /\ 0 \in A
    <3>1. IsFiniteSet(P \cap (0 .. n))
      BY <2>1, FS_Intersection
    <3> QED
      BY <3>1
  <2> HIDE DEF A
  <2> QED
    BY <2>2, FS_RemoveElement, FS_CardinalityType
<1>2. f \in [A -> A \ {0}]
  <2> SUFFICES ASSUME NEW x \in A PROVE x + 1 \in A \ {0}
    OBVIOUS
  <2>1. x \in Nat /\ x <= n /\ x # n /\ x + 1 \in P
    OBVIOUS
  <2> QED
    BY <2>1
<1>3. \A x, y \in A : x # y => f[x] # f[y]
  OBVIOUS
<1> HIDE DEF A, f
<1> QED
  BY <1>1, <1>2, <1>3, FS_PigeonHole

-----------------------------------------------------------------------------
(* Lengths.                                                                *)

LEMMA DivBelow ==
    ASSUME NEW n \in Nat, n >= Radix
    PROVE  n \div Radix \in 0 .. n - 1
  BY RadixAssumption

\* The function that is defined by itself exists: below n there is one solution, and it is
\* a part of the one below n + 1.
LEMMA DigitsEquation ==
    \A n \in Nat :
        Digits[n] = IF n < Radix THEN <<Byte("digit", n)>>
                    ELSE Append(Digits[n \div Radix], Byte("digit", n % Radix))
<1> DEFINE Rhs(g, n) == IF n < Radix THEN <<Byte("digit", n)>>
                        ELSE Append(g[n \div Radix], Byte("digit", n % Radix))
           Fits(g, n) == g = [i \in 0 .. n |-> Rhs(g, i)]
<1>1. ASSUME NEW g, NEW h, NEW n \in Nat,
             n >= Radix => g[n \div Radix] = h[n \div Radix]
      PROVE  Rhs(g, n) = Rhs(h, n)
  BY <1>1, RadixAssumption
<1>2. \A n \in Nat : n >= Radix => n \div Radix \in 0 .. n - 1
  BY DivBelow
<1>8. Digits = CHOOSE g : g = [n \in Nat |-> Rhs(g, n)]
  BY DEF Digits
<1> HIDE DEF Rhs
<1>3. \A n \in Nat : \E g : Fits(g, n)
  <2> DEFINE P == {n \in Nat : \E g : Fits(g, n)}
  <2>1. 0 \in P
    <3> DEFINE g == [i \in 0 .. 0 |-> Rhs(<<>>, i)]
    <3>1. \A i \in 0 .. 0 : i \in Nat /\ ~(i >= Radix)
      BY RadixAssumption
    <3>2. \A i \in 0 .. 0 : Rhs(g, i) = Rhs(<<>>, i)
      BY <1>1, <3>1
    <3>3. Fits(g, 0)
      BY <3>2
    <3> QED
      BY <3>3
  <2>2. ASSUME NEW n \in Nat, n \in P PROVE n + 1 \in P
    <3>1. PICK g : Fits(g, n)
      BY <2>2
    <3> DEFINE h == [i \in 0 .. n + 1 |-> IF i <= n THEN g[i] ELSE Rhs(g, i)]
    <3>2. \A i \in 0 .. n : h[i] = g[i] /\ i \in 0 .. n + 1
      OBVIOUS
    <3>3. \A i \in 0 .. n + 1 : h[i] = Rhs(g, i)
      BY <3>1
    <3>4. \A i \in 0 .. n + 1 : Rhs(h, i) = Rhs(g, i)
      <4> SUFFICES ASSUME NEW i \in 0 .. n + 1 PROVE Rhs(h, i) = Rhs(g, i)
        OBVIOUS
      <4>1. i \in Nat /\ (i >= Radix => i \div Radix \in 0 .. n)
        BY <1>2
      <4> HIDE DEF h
      <4> QED
        BY <1>1, <3>2, <4>1
    <3>5. Fits(h, n + 1)
      BY <3>3, <3>4
    <3>6. \E f : Fits(f, n + 1)
      BY <3>5
    <3>7. n + 1 \in Nat
      OBVIOUS
    <3> HIDE DEF h, Fits
    <3> QED
      BY <3>6, <3>7
  <2> HIDE DEF P
  <2>3. \A n \in Nat : n \in P
    BY <2>1, <2>2, SetInduction
  <2> QED
    BY <2>3 DEF P
<1>4. ASSUME NEW m \in Nat, NEW n \in Nat, NEW g, NEW h, Fits(g, m), Fits(h, n), m <= n
      PROVE  \A i \in 0 .. m : g[i] = h[i]
  <2> DEFINE P == {k \in Nat : \A i \in 0 .. k : i <= m => g[i] = h[i]}
  <2>1. \A i \in 0 .. m : g[i] = Rhs(g, i) /\ h[i] = Rhs(h, i)
    <3>1. g = [i \in 0 .. m |-> Rhs(g, i)] /\ h = [i \in 0 .. n |-> Rhs(h, i)]
      BY <1>4
    <3>2. \A i \in 0 .. m : i \in 0 .. n
      BY <1>4
    <3>3. \A i \in 0 .. m : g[i] = Rhs(g, i)
      BY <3>1
    <3>4. \A i \in 0 .. n : h[i] = Rhs(h, i)
      BY <3>1
    <3> QED
      BY <3>2, <3>3, <3>4
  <2>2. 0 \in P
    <3>1. g[0] = h[0]
      <4>1. 0 \in 0 .. m /\ 0 \in Nat /\ ~(0 >= Radix)
        BY RadixAssumption
      <4> QED
        BY <1>1, <2>1, <4>1
    <3> QED
      BY <3>1
  <2>3. ASSUME NEW k \in Nat, k \in P PROVE k + 1 \in P
    <3>1. k + 1 <= m => g[k + 1] = h[k + 1]
      <4> SUFFICES ASSUME k + 1 <= m PROVE g[k + 1] = h[k + 1]
        OBVIOUS
      <4>1. k + 1 \in 0 .. m /\ k + 1 \in Nat
        OBVIOUS
      <4>2. k + 1 >= Radix => (k + 1) \div Radix \in 0 .. k /\ (k + 1) \div Radix <= m
        BY <1>2, <4>1
      <4>3. k + 1 >= Radix => g[(k + 1) \div Radix] = h[(k + 1) \div Radix]
        BY <2>3, <4>2
      <4> QED
        BY <1>1, <2>1, <4>1, <4>3
    <3> QED
      BY <2>3, <3>1
  <2> HIDE DEF P
  <2>4. m \in P
    BY <2>2, <2>3, SetInduction
  <2> QED
    BY <2>4 DEF P
<1> DEFINE At(n) == CHOOSE g : Fits(g, n)
           whole == [n \in Nat |-> At(n)[n]]
<1>5. \A n \in Nat : Fits(At(n), n)
  BY <1>3
<1> HIDE DEF At, Fits
<1>6. \A n \in Nat : whole[n] = Rhs(whole, n)
  <2> SUFFICES ASSUME NEW n \in Nat PROVE whole[n] = Rhs(whole, n)
    OBVIOUS
  <2>1. whole[n] = Rhs(At(n), n)
    <3>1. n \in 0 .. n
      OBVIOUS
    <3>2. At(n)[n] = Rhs(At(n), n)
      BY <1>5, <3>1 DEF Fits
    <3> QED
      BY <3>2
  <2>2. ASSUME n >= Radix PROVE At(n)[n \div Radix] = whole[n \div Radix]
    <3> DEFINE k == n \div Radix
    <3>1. k \in Nat /\ k <= n /\ k \in 0 .. k
      BY <1>2, <2>2
    <3> HIDE DEF k
    <3>2. At(k)[k] = At(n)[k]
      BY <1>4, <1>5, <3>1
    <3>3. whole[k] = At(k)[k]
      BY <3>1
    <3> QED
      BY <3>2, <3>3 DEF k
  <2> QED
    BY <1>1, <2>1, <2>2
<1>7. whole = [n \in Nat |-> Rhs(whole, n)]
  BY <1>6
<1>9. Digits = [n \in Nat |-> Rhs(Digits, n)]
  BY <1>7, <1>8
<1> QED
  BY <1>9 DEF Rhs
-----------------------------------------------------------------------------
Bytes == [kind : {"cr", "lf", "digit", "data"}, v : Nat]

\* The function that Number(s) is defined by.
IsValue(g, s) ==
    g = [i \in 0 .. Len(s) |-> IF i = 0 THEN 0 ELSE g[i - 1] * Radix + s[i].v]

LEMMA ValueExists ==
    ASSUME NEW s \in Seq(Bytes)
    PROVE  \E g : IsValue(g, s)
<1> DEFINE Step(x, i) == x * Radix + s[i].v
           Fits(g, k) == g = [i \in 0 .. k |-> IF i = 0 THEN 0 ELSE Step(g[i - 1], i)]
           P == {k \in Nat : \E g : Fits(g, k)}
<1> HIDE DEF Step
<1>1. 0 \in P
  <2> DEFINE g == [i \in 0 .. 0 |-> 0]
  <2>1. Fits(g, 0)
    OBVIOUS
  <2> QED
    BY <2>1
<1>2. ASSUME NEW k \in Nat, k \in P PROVE k + 1 \in P
  <2>1. PICK g : Fits(g, k)
    BY <1>2
  <2> DEFINE h == [i \in 0 .. k + 1 |-> IF i <= k THEN g[i] ELSE Step(g[k], k + 1)]
  <2>2. \A i \in 0 .. k + 1 : h[i] = IF i = 0 THEN 0 ELSE Step(h[i - 1], i)
    <3> SUFFICES ASSUME NEW i \in 0 .. k + 1
                 PROVE  h[i] = IF i = 0 THEN 0 ELSE Step(h[i - 1], i)
      OBVIOUS
    <3>1. CASE i <= k
      BY <2>1, <3>1
    <3>2. CASE i = k + 1
      <4>1. h[i - 1] = g[k] /\ h[i] = Step(g[k], k + 1)
        BY <3>2
      <4> QED
        BY <3>2, <4>1
    <3> QED
      BY <3>1, <3>2
  <2>3. Fits(h, k + 1)
    BY <2>2
  <2>4. \E f : Fits(f, k + 1)
    BY <2>3
  <2>5. k + 1 \in Nat
    OBVIOUS
  <2> HIDE DEF h, Fits
  <2> QED
    BY <2>4, <2>5
<1> HIDE DEF P
<1>3. Len(s) \in P
  BY <1>1, <1>2, SetInduction
<1>4. PICK g : Fits(g, Len(s))
  BY <1>3 DEF P
<1>5. IsValue(g, s)
  BY <1>4 DEF IsValue, Step
<1> QED
  BY <1>5

\* And it is the only one.
LEMMA ValueIsNumber ==
    ASSUME NEW s \in Seq(Bytes), NEW g, IsValue(g, s)
    PROVE  Number(s) = g[Len(s)]
<1> DEFINE Step(x, i) == x * Radix + s[i].v
           Fits(h) == h = [i \in 0 .. Len(s) |-> IF i = 0 THEN 0 ELSE Step(h[i - 1], i)]
           value == CHOOSE h : Fits(h)
<1>1. Number(s) = value[Len(s)]
  BY DEF Number
<1>2. Fits(g)
  BY DEF IsValue
<1> HIDE DEF Step
<1>3. Fits(value)
  <2> HIDE DEF Fits
  <2> QED
    BY <1>2
<1> HIDE DEF value
<1> DEFINE P == {k \in Nat : k <= Len(s) => value[k] = g[k]}
<1>4. 0 \in P
  BY <1>2, <1>3
<1>5. ASSUME NEW k \in Nat, k \in P PROVE k + 1 \in P
  <2> SUFFICES ASSUME k + 1 <= Len(s) PROVE value[k + 1] = g[k + 1]
    OBVIOUS
  <2>1. k + 1 \in 0 .. Len(s) /\ k + 1 # 0 /\ k + 1 - 1 = k
    OBVIOUS
  <2>2. value[k + 1] = Step(value[k], k + 1) /\ g[k + 1] = Step(g[k], k + 1)
    BY <1>2, <1>3, <2>1
  <2>3. value[k] = g[k]
    BY <1>5
  <2> QED
    BY <2>2, <2>3
<1> HIDE DEF P
<1>6. Len(s) \in P
  BY <1>4, <1>5, SetInduction
<1> QED
  BY <1>1, <1>6 DEF P

LEMMA NumberOfNothing == Number(<<>>) = 0
<1> DEFINE s == <<>>
<1>1. s \in Seq(Bytes) /\ Len(s) = 0
  OBVIOUS
<1> HIDE DEF s
<1>2. PICK g : IsValue(g, s)
  BY <1>1, ValueExists
<1>3. Number(s) = g[Len(s)]
  BY <1>1, <1>2, ValueIsNumber
<1>4. g[0] = 0
  BY <1>1, <1>2 DEF IsValue
<1> QED
  BY <1>1, <1>3, <1>4 DEF s

\* One more digit.
LEMMA NumberOfAppend ==
    ASSUME NEW s \in Seq(Bytes), NEW b \in Bytes
    PROVE  Number(Append(s, b)) = Number(s) * Radix + b.v
<1> DEFINE t == Append(s, b)
<1>5. t \in Seq(Bytes) /\ Len(t) = Len(s) + 1 /\ t[Len(s) + 1] = b
      /\ \A i \in 1 .. Len(s) : t[i] = s[i]
  OBVIOUS
<1> HIDE DEF t
<1>2. PICK h : IsValue(h, t)
  BY <1>5, ValueExists
<1>4. Number(t) = h[Len(t)]
  BY <1>2, <1>5, ValueIsNumber
<1>6. h[Len(t)] = h[Len(s)] * Radix + b.v
  BY <1>2, <1>5 DEF IsValue
<1> DEFINE f == [i \in 0 .. Len(s) |-> h[i]]
<1>7. IsValue(f, s)
  <2> SUFFICES ASSUME NEW i \in 0 .. Len(s)
               PROVE  h[i] = IF i = 0 THEN 0 ELSE f[i - 1] * Radix + s[i].v
    BY DEF IsValue
  <2> QED
    BY <1>2, <1>5 DEF IsValue
<1>8. Number(s) = h[Len(s)]
  <2>1. Number(s) = f[Len(s)]
    BY <1>7, ValueIsNumber
  <2> QED
    BY <2>1
<1> QED
  BY <1>4, <1>6, <1>8 DEF t

\* Some digits that stand for n.
IsNumeral(s, n) ==
    /\ s \in Seq(Bytes) /\ s # <<>> /\ \A i \in 1 .. Len(s) : s[i].kind = "digit"
    /\ Number(s) = n

\* int(message, 16) in loadbalancer.py and case.py is the number of bytes that the server
\* wrote as the length of a chunk, however many digits it takes.
THEOREM LengthsAreRead == \A n \in Nat : IsNumeral(Digits[n], n)
<1> DEFINE P == {n \in Nat : \A m \in 0 .. n : IsNumeral(Digits[m], m)}
<1>1. ASSUME NEW n \in Nat, n < Radix PROVE IsNumeral(Digits[n], n)
  <2> DEFINE b == Byte("digit", n)
  <2>1. b \in Bytes /\ b.kind = "digit" /\ b.v = n
    BY DEF Byte, Bytes
  <2>2. Digits[n] = <<b>>
    BY <1>1, DigitsEquation
  <2> HIDE DEF b
  <2>3. Append(<<>>, b) = <<b>> /\ <<b>> \in Seq(Bytes) /\ Len(<<b>>) = 1
    BY <2>1
  <2>4. Number(Append(<<>>, b)) = 0 * Radix + n
    <3>1. <<>> \in Seq(Bytes)
      OBVIOUS
    <3> QED
      BY <2>1, <3>1, NumberOfAppend, NumberOfNothing
  <2>5. 0 * Radix + n = n
    BY RadixAssumption
  <2> QED
    BY <2>1, <2>2, <2>3, <2>4, <2>5 DEF IsNumeral
<1>2. ASSUME NEW n \in Nat, n >= Radix, IsNumeral(Digits[n \div Radix], n \div Radix)
      PROVE  IsNumeral(Digits[n], n)
  <2> DEFINE b == Byte("digit", n % Radix)
             s == Digits[n \div Radix]
  <2>1. n \div Radix \in Nat /\ n % Radix \in Nat
        /\ n = (n \div Radix) * Radix + (n % Radix)
    BY RadixAssumption
  <2>2. b \in Bytes /\ b.kind = "digit" /\ b.v = n % Radix
    BY <2>1 DEF Byte, Bytes
  <2>3. Digits[n] = Append(s, b)
    <3>1. ~(n < Radix)
      BY <1>2, RadixAssumption
    <3> QED
      BY <3>1, DigitsEquation
  <2>4. s \in Seq(Bytes) /\ Number(s) = n \div Radix
        /\ \A i \in 1 .. Len(s) : s[i].kind = "digit"
    BY <1>2 DEF IsNumeral
  <2> HIDE DEF b, s
  <2>5. Number(Digits[n]) = n
    BY <2>1, <2>2, <2>3, <2>4, NumberOfAppend
  <2> QED
    BY <2>2, <2>3, <2>4, <2>5 DEF IsNumeral
<1>3. 0 \in P
  BY <1>1, RadixAssumption
<1>4. ASSUME NEW n \in Nat, n \in P PROVE n + 1 \in P
  <2>1. IsNumeral(Digits[n + 1], n + 1)
    <3>1. CASE n + 1 < Radix
      BY <1>1, <3>1
    <3>2. CASE n + 1 >= Radix
      <4>1. (n + 1) \div Radix \in 0 .. n
        BY <3>2, DivBelow
      <4>2. IsNumeral(Digits[(n + 1) \div Radix], (n + 1) \div Radix)
        BY <1>4, <4>1
      <4> QED
        BY <1>2, <3>2, <4>2
    <3> QED
      BY <3>1, <3>2, RadixAssumption
  <2> QED
    BY <1>4, <2>1
<1> HIDE DEF P
<1>5. \A n \in Nat : n \in P
  BY <1>3, <1>4, SetInduction
<1> QED
  BY <1>5 DEF P
-----------------------------------------------------------------------------
(* The stream and its reader.                                              *)

\* The length before the i-th event and the bytes from the line break before it to the end of
\* the event. After the last event comes the empty chunk.
Numeral(i) == IF i <= Len(sent) THEN Digits[2] ELSE Digits[0]
Framed(q, d) == CRLF \o q \o CRLF \o d
Unit(i) == Framed(Numeral(i), IF i <= Len(sent) THEN Data(i) ELSE CRLF)

Width == Len(Digits[2]) + 6
HeadOf(i) == Len(Numeral(i)) + 4

StreamTypes ==
    /\ sent \in Seq(Events) /\ open \in BOOLEAN
    /\ wire \in Seq(Bytes) /\ text \in Seq(Bytes) /\ put \in Seq(Seq(Bytes))

\* The reader handed on the events before this unit, and read o bytes of it.
HandedOn == Len(put) <= Len(sent) /\ \A i \in 1 .. Len(put) : put[i] = Data(i)

LineSoFar(o) ==
    /\ o <= HeadOf(Len(put) + 1)
    /\ \/ o <= 2 /\ text = SubSeq(CRLF, 1, o)
       \/ o >= 2 /\ text = SubSeq(Unit(Len(put) + 1), 3, o)

\* The distance of the j-th byte of the m-th unit from here.
Place(m, j) == m * Width + j

OnTheWire(o) ==
    \A m \in 0 .. Len(sent) - Len(put) : \A j \in 1 .. Width :
        Place(m, j) - o \in 1 .. Len(wire) =>
            wire[Place(m, j) - o] = Unit(Len(put) + 1 + m)[j]

Rest(o) ==
    IF open THEN Len(wire) = Place(Len(sent) - Len(put), 2) - o
    ELSE Len(wire) <= Place(Len(sent) - Len(put), 7) - o

Reads(o) == HandedOn /\ LineSoFar(o) /\ OnTheWire(o) /\ Rest(o)

\* What was handed on last was cut off, or is the empty chunk: there is no length any more.
Over ==
    LET n == Len(put) IN
    /\ ~open /\ n > 0 /\ n <= Len(sent) + 1
    /\ \A i \in 1 .. n - 1 : put[i] = Data(i)
    /\ S!IsStrictPrefix(put[n], Data(n))
    /\ text \o wire \in {<<>>, SubSeq(CRLF, 1, 1), CRLF}

StreamInv == StreamTypes /\ (Over \/ \E o \in 0 .. Width - 2 : Reads(o))

LEMMA LineBreak ==
    /\ CRLF \in Seq(Bytes) /\ Len(CRLF) = 2
    /\ CRLF[1] = Byte("cr", 0) /\ CRLF[2] = Byte("lf", 0)
    /\ CRLF[1].kind = "cr" /\ CRLF[2].kind = "lf"
  BY DEF CRLF, Byte, Bytes

LEMMA Datum ==
    ASSUME NEW i \in Nat
    PROVE  Data(i) \in Seq(Bytes) /\ Len(Data(i)) = 2
  BY DEF Data, Byte, Bytes

\* The lengths on the stream are those of an event and of nothing.
LEMMA Numerals ==
    /\ IsNumeral(Digits[0], 0) /\ IsNumeral(Digits[2], 2)
    /\ Len(Digits[0]) = 1 /\ Len(Digits[2]) \in 1 .. 2
<1>1. IsNumeral(Digits[0], 0) /\ IsNumeral(Digits[2], 2)
  BY LengthsAreRead
<1>2. 0 < Radix /\ Radix \in Nat
  BY RadixAssumption
<1>3. \A n \in Nat : n < Radix => Digits[n] = <<Byte("digit", n)>>
  BY DigitsEquation
<1>4. Len(Digits[0]) = 1
  BY <1>2, <1>3
<1>5. Len(Digits[2]) \in 1 .. 2
  <2>1. CASE 2 < Radix
    BY <2>1, <1>3
  <2>2. CASE Radix = 2
    <3>1. ~(2 < Radix) /\ 2 \div Radix = 1 /\ 2 \in Nat
      BY <2>2
    <3>2. Digits[2] = Append(Digits[1], Byte("digit", 2 % Radix))
      BY <3>1, DigitsEquation
    <3>3. Digits[1] = <<Byte("digit", 1)>>
      BY <2>2, <1>3
    <3>4. Byte("digit", 1) \in Bytes
      BY DEF Byte, Bytes
    <3> HIDE DEF Byte
    <3> QED
      BY <3>2, <3>3, <3>4
  <2> QED
    BY <2>1, <2>2, RadixAssumption
<1> QED
  BY <1>1, <1>4, <1>5

LEMMA Concatenated ==
    ASSUME NEW T, NEW s \in Seq(T), NEW t \in Seq(T)
    PROVE  /\ s \o t \in Seq(T) /\ Len(s \o t) = Len(s) + Len(t)
           /\ \A k \in 1 .. Len(s) : (s \o t)[k] = s[k]
           /\ \A k \in 1 .. Len(t) : (s \o t)[Len(s) + k] = t[k]
<1>1. /\ s \o t \in Seq(T) /\ Len(s \o t) = Len(s) + Len(t)
      /\ \A i \in 1 .. Len(s) + Len(t) :
            (s \o t)[i] = IF i <= Len(s) THEN s[i] ELSE t[i - Len(s)]
  BY ConcatProperties
<1>2. Len(s) \in Nat /\ Len(t) \in Nat
  OBVIOUS
<1>3. \A k \in 1 .. Len(t) :
         /\ Len(s) + k \in 1 .. Len(s) + Len(t) /\ ~(Len(s) + k <= Len(s))
         /\ Len(s) + k - Len(s) = k
  BY <1>2
<1> QED
  BY <1>1, <1>2, <1>3

\* A line break, the digits q, a line break and the bytes d.
LEMMA Joined ==
    ASSUME NEW q \in Seq(Bytes), NEW d \in Seq(Bytes)
    PROVE  /\ Framed(q, d) \in Seq(Bytes) /\ Len(Framed(q, d)) = Len(q) + Len(d) + 4
           /\ Framed(q, d)[1] = CRLF[1] /\ Framed(q, d)[2] = CRLF[2]
           /\ \A k \in 1 .. Len(q) : Framed(q, d)[k + 2] = q[k]
           /\ Framed(q, d)[Len(q) + 3] = CRLF[1] /\ Framed(q, d)[Len(q) + 4] = CRLF[2]
           /\ \A k \in 1 .. Len(d) : Framed(q, d)[Len(q) + 4 + k] = d[k]
<1>1. CRLF \in Seq(Bytes) /\ Len(CRLF) = 2
  BY LineBreak
<1> DEFINE a == CRLF \o q
           b == a \o CRLF
           u == Framed(q, d)
<1>2. u = b \o d
  BY DEF Framed
<1>8. \A s, t \in Seq(Bytes) :
         /\ s \o t \in Seq(Bytes) /\ Len(s \o t) = Len(s) + Len(t)
         /\ \A k \in 1 .. Len(s) : (s \o t)[k] = s[k]
         /\ \A k \in 1 .. Len(t) : (s \o t)[Len(s) + k] = t[k]
  BY Concatenated
<1> HIDE DEF u
<1>3. /\ a \in Seq(Bytes) /\ Len(a) = Len(q) + 2 /\ a[1] = CRLF[1] /\ a[2] = CRLF[2]
      /\ \A k \in 1 .. Len(q) : a[k + 2] = q[k]
  <2>1. /\ \A k \in 1 .. Len(CRLF) : a[k] = CRLF[k]
        /\ \A k \in 1 .. Len(q) : a[Len(CRLF) + k] = q[k]
        /\ a \in Seq(Bytes) /\ Len(a) = Len(CRLF) + Len(q)
    BY <1>1, <1>8, Zenon
  <2> HIDE DEF a
  <2> QED
    BY <1>1, <2>1
<1>4. /\ b \in Seq(Bytes) /\ Len(b) = Len(q) + 4
      /\ \A k \in 1 .. Len(a) : b[k] = a[k]
      /\ b[Len(q) + 3] = CRLF[1] /\ b[Len(q) + 4] = CRLF[2]
  <2>1. /\ \A k \in 1 .. Len(a) : b[k] = a[k]
        /\ \A k \in 1 .. Len(CRLF) : b[Len(a) + k] = CRLF[k]
        /\ b \in Seq(Bytes) /\ Len(b) = Len(a) + Len(CRLF)
    <3> HIDE DEF a
    <3> QED
      BY <1>1, <1>3, <1>8, Zenon
  <2> HIDE DEF a, b
  <2>2. b[Len(a) + 1] = CRLF[1] /\ b[Len(a) + 2] = CRLF[2]
    BY <1>1, <2>1
  <2> QED
    BY <1>1, <1>3, <2>1, <2>2
<1> HIDE DEF a, b
<1>5. /\ \A k \in 1 .. Len(b) : u[k] = b[k]
      /\ \A k \in 1 .. Len(d) : u[Len(b) + k] = d[k]
      /\ u \in Seq(Bytes) /\ Len(u) = Len(b) + Len(d)
  <2>1. b \in Seq(Bytes)
    BY <1>4
  <2> QED
    BY <1>2, <2>1, <1>8
<1>6. Len(q) \in Nat /\ Len(d) \in Nat
  OBVIOUS
<1>7. \A k \in 1 .. Len(q) : u[k + 2] = q[k]
  <2> SUFFICES ASSUME NEW k \in 1 .. Len(q) PROVE u[k + 2] = q[k]
    OBVIOUS
  <2>1. k + 2 \in 1 .. Len(a) /\ k + 2 \in 1 .. Len(b)
    BY <1>3, <1>4, <1>6
  <2> QED
    BY <1>3, <1>4, <1>5, <2>1
<1>9. u[1] = CRLF[1] /\ u[2] = CRLF[2] /\ u[Len(q) + 3] = CRLF[1] /\ u[Len(q) + 4] = CRLF[2]
      /\ Len(u) = Len(q) + Len(d) + 4
  BY <1>3, <1>4, <1>5, <1>6
<1>10. \A k \in 1 .. Len(d) : u[Len(q) + 4 + k] = d[k]
  BY <1>4, <1>5
<1> QED
  BY <1>5, <1>7, <1>9, <1>10 DEF u

\* Lengths consist of digits and are read as they are written.
LEMMA Numeric ==
    ASSUME NEW i
    PROVE  /\ Numeral(i) \in Seq(Bytes) /\ Len(Numeral(i)) \in 1 .. 2
           /\ \A k \in 1 .. Len(Numeral(i)) : Numeral(i)[k].kind = "digit"
           /\ HeadOf(i) = Len(Numeral(i)) + 4 /\ HeadOf(i) <= Width - 2
           /\ Width \in {7, 8}
           /\ i <= Len(sent) => HeadOf(i) = Width - 2
           /\ ~(i <= Len(sent)) => HeadOf(i) = 5
  BY Numerals DEF Numeral, IsNumeral, HeadOf, Width

LEMMA UnitBytes ==
    ASSUME NEW i \in Nat
    PROVE  /\ Unit(i) \in Seq(Bytes) /\ Len(Unit(i)) = HeadOf(i) + 2
           /\ Unit(i)[1] = CRLF[1] /\ Unit(i)[2] = CRLF[2]
           /\ \A k \in 1 .. HeadOf(i) - 4 : Unit(i)[k + 2] = Numeral(i)[k]
           /\ Unit(i)[HeadOf(i) - 1] = CRLF[1] /\ Unit(i)[HeadOf(i)] = CRLF[2]
           /\ i <= Len(sent) =>
                 Unit(i)[HeadOf(i) + 1] = Data(i)[1] /\ Unit(i)[HeadOf(i) + 2] = Data(i)[2]
           /\ ~(i <= Len(sent)) =>
                 Unit(i)[HeadOf(i) + 1] = CRLF[1] /\ Unit(i)[HeadOf(i) + 2] = CRLF[2]
<1> DEFINE d == IF i <= Len(sent) THEN Data(i) ELSE CRLF
           q == Numeral(i)
           u == Unit(i)
<1>1. d \in Seq(Bytes) /\ Len(d) = 2 /\ (i <= Len(sent) => d = Data(i))
      /\ (~(i <= Len(sent)) => d = CRLF)
  BY Datum, LineBreak
<1>2. u = Framed(q, d)
  BY DEF Unit
<1>3. q \in Seq(Bytes) /\ HeadOf(i) = Len(q) + 4 /\ Len(q) \in 1 .. 2
  BY Numeric
<1> HIDE DEF d, q, u
<1>4. /\ u \in Seq(Bytes) /\ Len(u) = Len(q) + Len(d) + 4
      /\ u[1] = CRLF[1] /\ u[2] = CRLF[2]
      /\ \A k \in 1 .. Len(q) : u[k + 2] = q[k]
      /\ u[Len(q) + 3] = CRLF[1] /\ u[Len(q) + 4] = CRLF[2]
      /\ \A k \in 1 .. Len(d) : u[Len(q) + 4 + k] = d[k]
  BY <1>1, <1>2, <1>3, Joined
<1>5. u[HeadOf(i) + 1] = d[1] /\ u[HeadOf(i) + 2] = d[2]
  BY <1>1, <1>3, <1>4
<1> QED
  BY <1>1, <1>3, <1>4, <1>5 DEF q, u

-----------------------------------------------------------------------------
(* The line that is read.                                                  *)

\* A line ends with a line feed, and rstrip() takes away the line break and no more.
LEMMA LineEnds ==
    ASSUME NEW s \in Seq(Bytes), NEW k \in Nat, Len(s) = k + 2,
           \A i \in 1 .. k : s[i].kind = "digit",
           s[k + 1] = CRLF[1], s[k + 2] = CRLF[2]
    PROVE  EndsLine(s) /\ Stripped(s) = SubSeq(s, 1, k)
<1>1. EndsLine(s)
  BY LineBreak DEF EndsLine
<1> DEFINE solid == {i \in 1 .. Len(s) : s[i].kind \notin {"cr", "lf"}} \cup {0}
<1>2. solid = 0 .. k
  BY LineBreak
<1>3. S!Max(solid) = k
  BY <1>2 DEF S!Max
<1> QED
  BY <1>1, <1>3 DEF Stripped

LEMMA LineBreakAlone == EndsLine(CRLF) /\ Stripped(CRLF) = <<>>
<1> DEFINE s == CRLF
           k == 0
<1>1. /\ s \in Seq(Bytes) /\ k \in Nat /\ Len(s) = k + 2 /\ \A i \in 1 .. k : s[i].kind = "digit"
      /\ s[k + 1] = CRLF[1] /\ s[k + 2] = CRLF[2]
  BY LineBreak
<1> HIDE DEF s, k
<1>2. EndsLine(s) /\ Stripped(s) = SubSeq(s, 1, k)
  BY <1>1, LineEnds
<1> QED
  BY <1>1, <1>2 DEF s, k

LEMMA NoLineEnd ==
    ASSUME NEW s \in Seq(Bytes), Len(s) >= 2 => s[Len(s)].kind # "lf"
    PROVE  ~EndsLine(s)
  BY LineBreak DEF EndsLine

LEMMA SubSeqOf ==
    ASSUME NEW s \in Seq(Bytes), NEW m \in 1 .. Len(s) + 1, NEW k \in m - 1 .. Len(s)
    PROVE  /\ SubSeq(s, m, k) \in Seq(Bytes) /\ Len(SubSeq(s, m, k)) = k - m + 1
           /\ \A i \in 1 .. k - m + 1 : SubSeq(s, m, k)[i] = s[i + m - 1]
  OBVIOUS

\* The line is the length once its line break is read, and what was read of it before.
LEMMA LineOf ==
    ASSUME StreamTypes, NEW o \in Nat, LineSoFar(o)
    PROVE  LET i == Len(put) + 1 IN
           /\ o = HeadOf(i) => HasLength /\ Line = Numeral(i)
           /\ o # HeadOf(i) =>
                 ~HasLength /\ Line = IF o <= 1 THEN text ELSE SubSeq(Unit(i), 3, o)
<1> DEFINE i == Len(put) + 1
           u == Unit(i)
           h == HeadOf(i)
           q == Numeral(i)
<1>1. i \in Nat /\ text \in Seq(Bytes)
  BY DEF StreamTypes
<1> HIDE DEF i
<1>2. /\ u \in Seq(Bytes) /\ Len(u) = h + 2
      /\ \A k \in 1 .. h - 4 : u[k + 2] = q[k]
      /\ u[h - 1] = CRLF[1] /\ u[h] = CRLF[2]
  BY <1>1, UnitBytes
<1>3. /\ q \in Seq(Bytes) /\ h = Len(q) + 4 /\ Len(q) \in 1 .. 2 /\ h \in 5 .. 6
      /\ \A k \in 1 .. Len(q) : q[k].kind = "digit"
  BY Numeric
<1>4. /\ o <= h
      /\ \/ o <= 2 /\ text = SubSeq(CRLF, 1, o)
         \/ o >= 2 /\ text = SubSeq(u, 3, o)
  BY DEF LineSoFar, i
<1> HIDE DEF u, h, q
<1>5. ASSUME o <= 2, text = SubSeq(CRLF, 1, o)
      PROVE  ~HasLength /\ Line = IF o <= 1 THEN text ELSE SubSeq(u, 3, o)
  <2>1. CRLF \in Seq(Bytes) /\ Len(CRLF) = 2 /\ CRLF[1].kind = "cr"
    BY LineBreak
  <2>2. CASE o <= 1
    <3>1. Len(text) = o /\ (o = 1 => text[1].kind = "cr")
      BY <1>5, <2>1, <2>2
    <3>2. ~EndsLine(text)
      BY <1>1, <3>1, <2>2, NoLineEnd
    <3> QED
      BY <3>2, <2>2 DEF HasLength, Line
  <2>3. CASE o = 2
    <3>1. text = CRLF
      BY <1>5, <2>1, <2>3
    <3>2. EndsLine(text) /\ Stripped(text) = <<>>
      BY <3>1, LineBreakAlone
    <3>3. SubSeq(u, 3, 2) = <<>>
      BY <1>1, <1>2
    <3> QED
      BY <2>3, <3>2, <3>3 DEF HasLength, Line
  <2> QED
    BY <1>5, <2>2, <2>3
<1>6. ASSUME o >= 2, text = SubSeq(u, 3, o)
      PROVE  Len(text) = o - 2 /\ \A k \in 1 .. o - 2 : text[k] = u[k + 2]
  <2>1. 3 \in 1 .. Len(u) + 1 /\ o \in 3 - 1 .. Len(u)
    BY <1>2, <1>3, <1>4, <1>6
  <2>2. Len(text) = o - 3 + 1 /\ \A k \in 1 .. o - 3 + 1 : text[k] = u[k + 3 - 1]
    BY <1>2, <1>6, <2>1, SubSeqOf
  <2> QED
    BY <2>2
<1>7. ASSUME o >= 2, text = SubSeq(u, 3, o), o # h
      PROVE  ~HasLength /\ Line = SubSeq(u, 3, o)
  <2>1. Len(text) >= 2 => text[Len(text)].kind # "lf"
    <3> SUFFICES ASSUME o >= 4 PROVE u[o].kind # "lf"
      BY <1>6, <1>7
    <3>1. CASE o - 2 \in 1 .. h - 4
      <4>1. u[o] = q[o - 2] /\ q[o - 2].kind = "digit"
        BY <1>2, <1>3, <3>1
      <4> QED
        BY <4>1
    <3>2. CASE o = h - 1
      BY <1>2, <3>2, LineBreak
    <3> QED
      BY <1>3, <1>4, <1>7, <3>1, <3>2
  <2>2. ~EndsLine(text)
    BY <1>1, <2>1, NoLineEnd
  <2> QED
    BY <1>7, <2>2 DEF HasLength, Line
<1>8. ASSUME o >= 2, text = SubSeq(u, 3, o), o = h
      PROVE  HasLength /\ Line = q
  <2> DEFINE k == h - 4
  <2>1. /\ k \in Nat /\ k = Len(q) /\ Len(text) = k + 2
        /\ \A j \in 1 .. k : text[j] = q[j]
        /\ text[k + 1] = CRLF[1] /\ text[k + 2] = CRLF[2]
    BY <1>2, <1>3, <1>6, <1>8
  <2>2. \A j \in 1 .. k : text[j].kind = "digit"
    BY <1>3, <2>1
  <2> HIDE DEF k
  <2>3. EndsLine(text) /\ Stripped(text) = SubSeq(text, 1, k)
    BY <1>1, <2>1, <2>2, LineEnds
  <2>4. SubSeq(text, 1, k) = q
    <3>1. /\ SubSeq(text, 1, k) \in Seq(Bytes) /\ Len(SubSeq(text, 1, k)) = k
          /\ \A j \in 1 .. k : SubSeq(text, 1, k)[j] = text[j]
      BY <1>1, <2>1
    <3> QED
      BY <1>3, <2>1, <3>1, SeqEqual
  <2>5. q # <<>>
    BY <1>3
  <2> QED
    BY <2>3, <2>4, <2>5 DEF HasLength, Line
<1>9. o <= 2 => o # h
  BY <1>3
<1>10. (o = h => HasLength /\ Line = q)
       /\ (o # h => ~HasLength /\ Line = IF o <= 1 THEN text ELSE SubSeq(u, 3, o))
  BY <1>4, <1>5, <1>7, <1>8, <1>9
<1> QED
  BY <1>10 DEF i, u, h, q

\* After the last chunk there is no length.
LEMMA OverHasNoLength ==
    ASSUME StreamTypes, Over
    PROVE  ~HasLength /\ Line \in {text, <<>>} /\ (wire # <<>> => Line = text)
<1>1. CRLF \in Seq(Bytes) /\ Len(CRLF) = 2
  BY LineBreak
<1>2. text \in Seq(Bytes) /\ wire \in Seq(Bytes)
  BY DEF StreamTypes
<1>3. CASE ~EndsLine(text)
  BY <1>3 DEF HasLength, Line
<1>4. CASE EndsLine(text)
  <2> DEFINE z == text \o wire
  <2>1. Len(text) >= 2
    BY <1>4 DEF EndsLine
  <2>2. Len(z) = Len(text) + Len(wire) /\ \A k \in 1 .. Len(text) : z[k] = text[k]
    BY <1>2, Concatenated
  <2>3. z \in {<<>>, SubSeq(CRLF, 1, 1), CRLF}
    BY DEF Over
  <2> HIDE DEF z
  <2>4. Len(z) \in 0 .. 2 /\ (Len(z) = 2 => z = CRLF)
    BY <1>1, <2>3
  <2>a. Len(text) \in Nat /\ Len(wire) \in Nat /\ Len(z) = Len(text) + Len(wire)
    BY <1>2, <2>2
  <2>b. Len(text) = 2 /\ Len(wire) = 0 /\ Len(z) = 2
    <3>1. Len(z) \in 0 .. 2
      BY <2>4
    <3>2. \A a, b, c \in Nat : a >= 2 /\ c = a + b /\ c \in 0 .. 2 => a = 2 /\ b = 0 /\ c = 2
      OBVIOUS
    <3>3. Len(z) \in Nat
      BY <3>1
    <3> QED
      BY <2>1, <2>a, <3>1, <3>2, <3>3, Zenon
  <2>5. Len(text) = 2 /\ Len(wire) = 0 /\ z = CRLF
    BY <2>4, <2>b
  <2>6. text = CRLF
    BY <1>1, <1>2, <2>2, <2>5, SeqEqual
  <2>7. Stripped(text) = <<>>
    BY <2>6, LineBreakAlone
  <2>8. Line = <<>> /\ wire = <<>>
    BY <1>2, <1>4, <2>5, <2>7 DEF Line
  <2> QED
    BY <2>8 DEF HasLength
<1> QED
  BY <1>3, <1>4

\* After the last chunk the reader finds nothing but line breaks.
LEMMA OverStays ==
    ASSUME StreamTypes, Over, ReadByte \/ ReadChunk
    PROVE  StreamTypes' /\ Over'
<1>1. ~HasLength /\ Line \in {text, <<>>} /\ (wire # <<>> => Line = text)
  BY OverHasNoLength
<1>2. ReadByte /\ UNCHANGED <<sent, open, put>>
  BY <1>1 DEF ReadChunk, ReadByte
<1>3. text \in Seq(Bytes) /\ wire \in Seq(Bytes)
  BY DEF StreamTypes
<1>4. text' \in Seq(Bytes) /\ wire' \in Seq(Bytes)
      /\ text' \o wire' \in {<<>>, SubSeq(CRLF, 1, 1), CRLF}
  <2>1. CASE wire # <<>> /\ text' = Append(Line, Head(wire)) /\ wire' = Tail(wire)
    <3>1. Line = text
      BY <1>1, <2>1
    <3>2. Head(wire) \in Bytes /\ Tail(wire) \in Seq(Bytes)
      BY <1>3, <2>1
    <3>3. text' \o wire' = text \o wire
      <4> DEFINE b == Head(wire)
                 r == Tail(wire)
      <4>1. wire = <<b>> \o r /\ <<b>> \in Seq(Bytes)
        BY <1>3, <2>1
      <4>2. Append(text, b) = text \o <<b>>
        BY <1>3, <3>2, AppendIsConcat
      <4> HIDE DEF b, r
      <4>3. (text \o <<b>>) \o r = text \o (<<b>> \o r)
        BY <1>3, <3>2, <4>1, ConcatAssociative DEF r
      <4> QED
        BY <2>1, <3>1, <4>1, <4>2, <4>3 DEF b, r
    <3>4. text' \in Seq(Bytes)
      BY <1>3, <2>1, <3>1, <3>2
    <3> QED
      BY <2>1, <3>2, <3>3, <3>4 DEF Over
  <2>2. CASE wire = <<>> /\ text' = Line /\ UNCHANGED wire
    <3>1. text' = text \/ text' = <<>>
      BY <1>1, <2>2
    <3>2. <<>> \o <<>> = <<>>
      OBVIOUS
    <3> QED
      BY <1>3, <2>2, <3>1, <3>2 DEF Over
  <2> QED
    BY <1>2, <2>1, <2>2 DEF ReadByte
<1>5. StreamTypes'
  BY <1>2, <1>4 DEF StreamTypes
<1>6. Over'
  BY <1>2, <1>4 DEF Over, Data
<1> QED
  BY <1>5, <1>6

LEMMA WidthType == Width \in {7, 8}
<1>1. Len(Digits[2]) \in 1 .. 2
  BY Numerals
<1>2. \A k \in 1 .. 2 : k + 6 \in {7, 8}
  OBVIOUS
<1> QED
  BY <1>1, <1>2, Zenon DEF Width

LEMMA Places ==
    ASSUME NEW m \in Nat, NEW j \in Int
    PROVE  /\ Place(m, j) \in Int /\ Place(m + 1, j) = Place(m, j) + Width
           /\ Place(0, j) = j
           /\ \A k \in Int : Place(m, k) = Place(m, j) + k - j
<1>1. CASE Width = 7
  BY <1>1 DEF Place
<1>2. CASE Width = 8
  BY <1>2 DEF Place
<1> QED
  BY <1>1, <1>2, Numeric

LEMMA PlaceType ==
    \A m \in Nat : /\ Place(m, 2) \in Int /\ Place(m + 1, 2) = Place(m, 2) + Width
                  /\ Place(m, 7) \in Int /\ Place(m + 1, 7) = Place(m, 7) + Width
                  /\ Place(m, 7) = Place(m, 2) + 5
  BY Places

LEMMA SamePlaces == \A m, j : (Place(m, j)') = Place(m, j)
  BY DEF Place, Width

LEMMA SameUnits ==
    ASSUME UNCHANGED sent
    PROVE  \A i : (Unit(i)') = Unit(i) /\ (HeadOf(i)') = HeadOf(i) /\ (Numeral(i)') = Numeral(i)
  BY DEF Unit, HeadOf, Numeral, Data

\* The next byte is the next one of the unit.
LEMMA NextByte ==
    ASSUME StreamTypes, NEW o \in 0 .. Width - 2, Reads(o), o # HeadOf(Len(put) + 1)
    PROVE  /\ o + 1 <= HeadOf(Len(put) + 1) /\ o + 1 \in 0 .. Width - 2
           /\ wire # <<>> => Head(wire) = Unit(Len(put) + 1)[o + 1]
<1>1. Len(put) \in Nat /\ Len(sent) \in Nat /\ wire \in Seq(Bytes) /\ Len(put) <= Len(sent)
  BY DEF StreamTypes, Reads, HandedOn
<1>2. /\ Width \in {7, 8} /\ HeadOf(Len(put) + 1) \in Nat
      /\ HeadOf(Len(put) + 1) <= Width - 2 /\ o <= HeadOf(Len(put) + 1)
  BY Numeric DEF Reads, LineSoFar
<1>3. o + 1 <= HeadOf(Len(put) + 1) /\ o + 1 \in 0 .. Width - 2 /\ o + 1 \in 1 .. Width
  BY <1>2
<1>4. ASSUME wire # <<>> PROVE Head(wire) = Unit(Len(put) + 1)[o + 1]
  <2>1. Place(0, o + 1) - o = 1 /\ Len(put) + 1 + 0 = Len(put) + 1
    BY <1>1, <1>3, Places
  <2>2. 1 \in 1 .. Len(wire) /\ Head(wire) = wire[1] /\ 0 \in 0 .. Len(sent) - Len(put)
    BY <1>1, <1>4
  <2>3. wire[1] = Unit(Len(put) + 1)[o + 1]
    BY <1>3, <2>1, <2>2 DEF Reads, OnTheWire
  <2> QED
    BY <2>2, <2>3
<1> QED
  BY <1>3, <1>4

\* A byte takes the reader one further into its unit.
LEMMA ByteRead ==
    ASSUME StreamTypes, NEW o \in 0 .. Width - 2, Reads(o), ReadByte
    PROVE  StreamTypes' /\ \E p \in 0 .. Width - 2 : Reads(p)'
<1> DEFINE i == Len(put) + 1
           u == Unit(i)
<1>1. ~HasLength /\ UNCHANGED <<sent, open, put>>
  BY DEF ReadByte
<1>5. /\ i \in Nat /\ wire \in Seq(Bytes) /\ text \in Seq(Bytes)
      /\ Len(put) \in Nat /\ Len(sent) \in Nat
  BY DEF StreamTypes
<1>2. o # HeadOf(i) /\ Line = IF o <= 1 THEN text ELSE SubSeq(Unit(i), 3, o)
  <2>1. o \in Nat
    OBVIOUS
  <2> QED
    BY <1>1, <2>1, LineOf DEF Reads
<1>3. /\ o + 1 <= HeadOf(i) /\ o + 1 \in 0 .. Width - 2
      /\ wire # <<>> => Head(wire) = u[o + 1]
  BY <1>2, NextByte
<1>4. (Unit(Len(put) + 1)') = u /\ (HeadOf(Len(put) + 1)') = HeadOf(i) /\ Width' = Width
  BY <1>1 DEF Unit, HeadOf, Numeral, Data, Width
<1> HIDE DEF i
<1>9. HeadOf(i) \in Nat /\ Width \in {7, 8} /\ Len(sent) - Len(put) \in Nat
  <2>1. Len(put) <= Len(sent)
    BY DEF Reads, HandedOn
  <2>2. Len(Numeral(i)) \in 1 .. 2 /\ HeadOf(i) = Len(Numeral(i)) + 4 /\ Width \in {7, 8}
    BY Numeric
  <2> QED
    BY <1>5, <2>1, <2>2
<1>6. /\ u \in Seq(Bytes) /\ Len(u) = HeadOf(i) + 2 /\ u[1] = CRLF[1] /\ u[2] = CRLF[2]
      /\ HeadOf(i) \in Nat /\ Width \in {7, 8} /\ Len(sent) - Len(put) \in Nat
  BY <1>5, <1>9, UnitBytes
<1>10. /\ sent' = sent /\ put' = put /\ open' = open /\ Width' = Width
       /\ \A k : (Unit(k)') = Unit(k)
       /\ \A m, j : (Place(m, j)') = Place(m, j)
  BY <1>1, <1>4, SameUnits, SamePlaces
<1>7. CASE wire = <<>> /\ ~open /\ text' = Line /\ UNCHANGED wire
  <2>1. LineSoFar(o)' /\ text' \in Seq(Bytes)
    <3> HIDE DEF u
    <3>1. CASE o <= 1
      BY <1>1, <1>2, <1>4, <1>5, <1>7, <3>1 DEF Reads, LineSoFar, u, i
    <3>2. CASE ~(o <= 1)
      <4>1. text' = SubSeq(u, 3, o) /\ o >= 2
        BY <1>2, <1>7, <3>2 DEF u
      <4>2. text' \in Seq(Bytes)
        BY <1>3, <1>6, <4>1
      <4>3. o <= HeadOf(Len(put) + 1)'
        BY <1>3, <1>4, <1>6
      <4> QED
        BY <1>4, <4>1, <4>2, <4>3 DEF LineSoFar
    <3> QED
      BY <3>1, <3>2
  <2>2. HandedOn' /\ OnTheWire(o)' /\ Rest(o)'
    <3>1. HandedOn' /\ Rest(o)'
      BY <1>1, <1>7, SamePlaces DEF Reads, HandedOn, Rest
    <3>2. OnTheWire(o)'
      BY <1>1, <1>4, <1>7, SamePlaces, SameUnits DEF Reads, OnTheWire
    <3> QED
      BY <3>1, <3>2
  <2>3. StreamTypes' /\ Reads(o)'
    BY <1>1, <1>7, <2>1, <2>2 DEF StreamTypes, Reads
  <2> QED
    BY <1>4, <2>3
<1>8. CASE wire # <<>> /\ text' = Append(Line, Head(wire)) /\ wire' = Tail(wire)
  <2>1. Head(wire) \in Bytes /\ Tail(wire) \in Seq(Bytes) /\ Len(Tail(wire)) = Len(wire) - 1
        /\ \A k \in 1 .. Len(wire) - 1 : Tail(wire)[k] = wire[k + 1]
    BY <1>5, <1>8
  <2>2. LineSoFar(o + 1)' /\ text' \in Seq(Bytes)
    <3>1. text' = Append(Line, u[o + 1]) /\ u[o + 1] \in Bytes
      BY <1>3, <1>8, <2>1
    <3> HIDE DEF i, u
    <3>2. CASE o <= 1
      <4>1. text = SubSeq(CRLF, 1, o) /\ CRLF \in Seq(Bytes) /\ Len(CRLF) = 2
        BY <3>2, LineBreak DEF Reads, LineSoFar
      <4>2. text' = Append(SubSeq(CRLF, 1, o), CRLF[o + 1])
        BY <1>2, <1>6, <3>1, <3>2, <4>1
      <4>3. Append(SubSeq(CRLF, 1, o), CRLF[o + 1]) = SubSeq(CRLF, 1, o + 1)
        BY <3>2, <4>1
      <4>4. text' = SubSeq(CRLF, 1, o + 1) /\ text' \in Seq(Bytes) /\ o + 1 <= 2
        BY <3>2, <4>1, <4>2, <4>3
      <4> QED
        BY <1>3, <1>4, <4>4 DEF LineSoFar
    <3>3. CASE ~(o <= 1)
      <4>1. text' = Append(SubSeq(u, 3, o), u[o + 1]) /\ o + 1 \in 3 .. Len(u)
        BY <1>2, <1>3, <1>6, <3>1, <3>3 DEF u
      <4>2. Append(SubSeq(u, 3, o), u[o + 1]) = SubSeq(u, 3, o + 1)
        BY <1>6, <4>1
      <4>3. text' = SubSeq(u, 3, o + 1) /\ text' \in Seq(Bytes) /\ o + 1 >= 2
        BY <1>6, <3>3, <4>1, <4>2
      <4> QED
        BY <1>3, <1>4, <4>3 DEF LineSoFar
    <3> QED
      BY <3>2, <3>3
  <2>3. OnTheWire(o + 1)'
    <3> SUFFICES ASSUME NEW m \in 0 .. Len(sent) - Len(put), NEW j \in 1 .. Width,
                        Place(m, j) - (o + 1) \in 1 .. Len(wire')
                 PROVE  wire'[Place(m, j) - (o + 1)] = Unit(Len(put) + 1 + m)[j]
      <4> HIDE DEF u
      <4> QED
        BY <1>10 DEF OnTheWire
    <3> DEFINE x == Place(m, j)
    <3>a. m \in Nat /\ j \in Int /\ x \in Int
      BY <1>6, Places
    <3> HIDE DEF x
    <3>1. x \in Int /\ x - (o + 1) \in 1 .. Len(wire) - 1
      BY <3>a, <1>5, <1>8, <2>1 DEF x
    <3>2. wire[x - o] = Unit(Len(put) + 1 + m)[j]
      <4>1. x - o \in 1 .. Len(wire)
        BY <1>5, <3>1
      <4> QED
        BY <4>1 DEF Reads, OnTheWire, x
    <3>3. Tail(wire)[x - (o + 1)] = wire[x - o]
      <4>1. x - (o + 1) + 1 = x - o
        BY <3>1
      <4> QED
        BY <2>1, <3>1, <4>1
    <3> QED
      BY <1>8, <3>2, <3>3 DEF x
  <2>4. Rest(o + 1)'
    <3> DEFINE d == Len(sent) - Len(put)
    <3>1. Place(d, 2) \in Int /\ Place(d, 7) \in Int
      <4>1. d \in Nat
        BY <1>9
      <4> HIDE DEF d
      <4> QED
        BY <4>1, PlaceType
    <3>2. Len(wire') = Len(wire) - 1
      BY <1>8, <2>1
    <3>3. IF open THEN Len(wire) = Place(d, 2) - o ELSE Len(wire) <= Place(d, 7) - o
      BY DEF Reads, Rest
    <3>4. (Place(Len(sent) - Len(put), 2)') = Place(d, 2)
          /\ (Place(Len(sent) - Len(put), 7)') = Place(d, 7)
      BY <1>1, SamePlaces
    <3> HIDE DEF d
    <3>5. IF open THEN Len(wire') = Place(d, 2) - (o + 1) ELSE Len(wire') <= Place(d, 7) - (o + 1)
      BY <1>5, <3>1, <3>2, <3>3
    <3> QED
      BY <1>1, <3>4, <3>5 DEF Rest
  <2>5. HandedOn'
    BY <1>1 DEF Reads, HandedOn, Data
  <2>6. StreamTypes' /\ Reads(o + 1)'
    BY <1>1, <1>8, <2>1, <2>2, <2>3, <2>4, <2>5 DEF StreamTypes, Reads
  <2> QED
    BY <1>3, <1>4, <2>6
<1> QED
  BY <1>7, <1>8 DEF ReadByte

\* What comes next on the wire is the rest of the unit.
LEMMA RestOfUnit ==
    ASSUME StreamTypes, NEW o \in 0 .. Width - 2, Reads(o), NEW k \in 1 .. Len(wire),
           o + k <= Width
    PROVE  wire[k] = Unit(Len(put) + 1)[o + k]
<1>1. /\ Len(put) \in Nat /\ Len(sent) \in Nat /\ wire \in Seq(Bytes) /\ Len(put) <= Len(sent)
      /\ Width \in {7, 8}
  BY Numeric DEF StreamTypes, Reads, HandedOn
<1>2. o + k \in 1 .. Width /\ 0 \in 0 .. Len(sent) - Len(put)
  BY <1>1
<1>3. Place(0, o + k) - o = k
  BY <1>1, <1>2, Places
<1>4. Len(put) + 1 + 0 = Len(put) + 1
  BY <1>1
<1> QED
  BY <1>2, <1>3, <1>4 DEF Reads, OnTheWire

\* An event is handed on as it was sent.
LEMMA Split ==
    ASSUME NEW s \in Seq(Bytes), NEW k \in 0 .. Len(s)
    PROVE  LET a == SubSeq(s, 1, k)
               b == SubSeq(s, k + 1, Len(s))
           IN  /\ a \in Seq(Bytes) /\ Len(a) = k /\ \A j \in 1 .. k : a[j] = s[j]
               /\ b \in Seq(Bytes) /\ Len(b) = Len(s) - k
               /\ \A j \in 1 .. Len(s) - k : b[j] = s[j + k]
  OBVIOUS

\* The chunk at the end of a unit is the event, and the reader comes to the next unit.
LEMMA EventRead ==
    ASSUME StreamTypes, NEW o \in 0 .. Width - 2, Reads(o), ReadChunk, Len(put) < Len(sent),
           o = Width - 2, Length = 2, Len(wire) >= 2
    PROVE  StreamTypes' /\ Reads(0)'
<1> DEFINE n == Len(put)
           i == n + 1
           d == SubSeq(wire, 1, 2)
           r == SubSeq(wire, 2 + 1, Len(wire))
<1>1. /\ n \in Nat /\ Len(sent) \in Nat /\ wire \in Seq(Bytes) /\ i \in Nat
      /\ put \in Seq(Seq(Bytes)) /\ i <= Len(sent) /\ Width \in {7, 8}
  BY WidthType DEF StreamTypes
<1>2. /\ d \in Seq(Bytes) /\ Len(d) = 2 /\ d[1] = wire[1] /\ d[2] = wire[2]
      /\ r \in Seq(Bytes) /\ Len(r) = Len(wire) - 2
      /\ \A k \in 1 .. Len(wire) - 2 : r[k] = wire[k + 2]
  <2>1. 2 \in 0 .. Len(wire)
    BY <1>1
  <2>2. /\ d \in Seq(Bytes) /\ Len(d) = 2 /\ \A j \in 1 .. 2 : d[j] = wire[j]
        /\ r \in Seq(Bytes) /\ Len(r) = Len(wire) - 2
        /\ \A j \in 1 .. Len(wire) - 2 : r[j] = wire[j + 2]
    BY <1>1, <2>1, Split, Zenon
  <2> HIDE DEF d, r
  <2> QED
    BY <2>2
<1>3. /\ put' = Append(put, d) /\ wire' = r /\ text' = <<>> /\ sent' = sent /\ open' = open
  BY <1>1 DEF ReadChunk
<1>4. d = Data(i)
  <2>1. wire[1] = Unit(i)[o + 1] /\ wire[2] = Unit(i)[o + 2]
    <3>1. 1 \in 1 .. Len(wire) /\ 2 \in 1 .. Len(wire) /\ o + 1 <= Width /\ o + 2 <= Width
      BY <1>1
    <3> QED
      BY <3>1, RestOfUnit
  <2>2. o = HeadOf(i)
    BY <1>1, Numeric
  <2>3. Unit(i)[HeadOf(i) + 1] = Data(i)[1] /\ Unit(i)[HeadOf(i) + 2] = Data(i)[2]
    BY <1>1, UnitBytes
  <2>4. Data(i) \in Seq(Bytes) /\ Len(Data(i)) = 2
    BY <1>1, Datum
  <2> HIDE DEF d, i
  <2>5. d[1] = Data(i)[1] /\ d[2] = Data(i)[2]
    BY <1>2, <2>1, <2>2, <2>3
  <2>6. \A k \in 1 .. Len(d) : d[k] = Data(i)[k]
    BY <1>2, <2>5
  <2> QED
    BY <1>2, <2>4, <2>6, SeqEqual
<1> HIDE DEF d, r
<1>5. /\ put' \in Seq(Seq(Bytes)) /\ Len(put') = i /\ put'[i] = d
      /\ \A k \in 1 .. n : put'[k] = put[k]
  BY <1>1, <1>2, <1>3
<1>6. StreamTypes'
  <2>1. text' \in Seq(Bytes)
    BY <1>3
  <2> QED
    BY <1>2, <1>3, <1>5, <2>1 DEF StreamTypes
<1>7. HandedOn'
  <2>1. \A k \in 1 .. i : put'[k] = Data(k)
    <3>1. \A k \in 1 .. n : put[k] = Data(k)
      BY DEF Reads, HandedOn
    <3>2. \A k \in 1 .. i : k \in 1 .. n \/ k = i
      BY <1>1
    <3> QED
      BY <1>4, <1>5, <3>1, <3>2
  <2>2. Len(put)' <= Len(sent)'
    BY <1>1, <1>3, <1>5
  <2>3. \A k \in 1 .. Len(put)' : put'[k] = Data(k)'
    <3> HIDE DEF i
    <3> QED
      BY <1>5, <2>1
  <2> QED
    BY <2>2, <2>3 DEF HandedOn
<1>8. LineSoFar(0)'
  <2>1. text' = SubSeq(CRLF, 1, 0)
    BY <1>3, LineBreak
  <2>2. 0 <= HeadOf(Len(put) + 1)'
    <3>1. HeadOf(Len(put) + 1)' = HeadOf(i + 1)
      <4> HIDE DEF i
      <4> QED
        BY <1>3, <1>5, SameUnits
    <3>2. HeadOf(i + 1) = Len(Numeral(i + 1)) + 4 /\ Len(Numeral(i + 1)) \in 1 .. 2
      BY Numeric
    <3> QED
      BY <3>1, <3>2
  <2> QED
    BY <2>1, <2>2 DEF LineSoFar
<1>9. OnTheWire(0)'
  <2>1. /\ \A k : (Unit(k)') = Unit(k)
        /\ \A m, j : (Place(m, j)') = Place(m, j)
        /\ Width' = Width
    BY <1>3, SameUnits, SamePlaces DEF Width
  <2> HIDE DEF i
  <2> SUFFICES ASSUME NEW m \in 0 .. Len(sent) - i, NEW j \in 1 .. Width,
                      Place(m, j) - 0 \in 1 .. Len(r)
               PROVE  r[Place(m, j) - 0] = Unit(i + 1 + m)[j]
    BY <1>3, <1>5, <2>1 DEF OnTheWire
  <2> DEFINE x == Place(m, j)
  <2>2. m \in Nat /\ j \in Int
    BY <1>1
  <2>3. x \in Int /\ Place(m + 1, j) = x + Width
    BY <2>2, Places
  <2> HIDE DEF x
  <2>4. x \in 1 .. Len(wire) - 2 /\ x - 0 = x
    BY <1>2, <2>3 DEF x
  <2>5. r[x] = wire[x + 2]
    BY <1>2, <2>4
  <2>6. Place(m + 1, j) - o = x + 2
    BY <1>1, <2>3
  <2>7. m + 1 \in 0 .. Len(sent) - n /\ n + 1 + (m + 1) = i + 1 + m
    BY <1>1, <2>2 DEF i
  <2>8. wire[x + 2] = Unit(i + 1 + m)[j]
    <3>1. x + 2 \in 1 .. Len(wire)
      BY <1>1, <2>4
    <3> QED
      BY <2>6, <2>7, <3>1 DEF Reads, OnTheWire
  <2> QED
    BY <2>4, <2>5, <2>8 DEF x
<1>10. Rest(0)'
  <2> DEFINE e == Len(sent) - i
  <2>1. e \in Nat /\ e + 1 = Len(sent) - n
    BY <1>1
  <2>2. Len(put') = i /\ Len(sent') - i = e
    BY <1>3, <1>5
  <2> HIDE DEF e, i
  <2>3. /\ Place(e, 2) \in Int /\ Place(e, 7) \in Int
        /\ Place(e + 1, 2) = Place(e, 2) + Width /\ Place(e + 1, 7) = Place(e, 7) + Width
    BY <2>1, PlaceType
  <2>4. IF open THEN Len(wire) = Place(e + 1, 2) - o ELSE Len(wire) <= Place(e + 1, 7) - o
    BY <2>1 DEF Reads, Rest
  <2>5. IF open THEN Len(r) = Place(e, 2) - 0 ELSE Len(r) <= Place(e, 7) - 0
    <3>1. Len(r) \in Int /\ Len(wire) \in Int /\ Len(r) + 2 = Len(wire)
      BY <1>1, <1>2
    <3>a. o \in Int /\ Width \in Int /\ o + 2 = Width
      BY <1>1
    <3> DEFINE a == Len(r)
               b == Len(wire)
               p == Place(e, 2)
               q == Place(e, 7)
    <3> HIDE DEF a, b, p, q
    <3>2. CASE open
      <4>1. b = Place(e + 1, 2) - o
        BY <2>4, <3>2 DEF b
      <4>2. Place(e + 1, 2) = p + Width /\ p \in Int
        BY <2>3 DEF p
      <4>3. a + 2 = b /\ a \in Int /\ b \in Int
        BY <3>1 DEF a, b
      <4>4. a = p
        BY <3>a, <4>1, <4>2, <4>3
      <4> QED
        BY <2>3, <3>2, <4>4 DEF a, p
    <3>3. CASE ~open
      <4>1. b <= Place(e + 1, 7) - o
        BY <2>4, <3>3 DEF b
      <4>2. Place(e + 1, 7) = q + Width /\ q \in Int
        BY <2>3 DEF q
      <4>3. a + 2 = b /\ a \in Int /\ b \in Int
        BY <3>1 DEF a, b
      <4>4. a <= q
        BY <3>a, <4>1, <4>2, <4>3
      <4> QED
        BY <2>3, <3>3, <4>4 DEF a, q
    <3> QED
      BY <3>2, <3>3
  <2> QED
    BY <1>3, <2>2, <2>5, SamePlaces DEF Rest
<1> QED
  BY <1>6, <1>7, <1>8, <1>9, <1>10 DEF Reads

\* Less than two bytes.
LEMMA StrictPrefixes ==
    ASSUME NEW t \in Seq(Bytes), NEW s \in Seq(Bytes), Len(s) < Len(t),
           \A k \in 1 .. Len(s) : s[k] = t[k]
    PROVE  S!IsStrictPrefix(s, t)
<1>1. SubSeq(s, 1, Len(s)) = SubSeq(t, 1, Len(s))
  OBVIOUS
<1>2. s # t
  OBVIOUS
<1> QED
  BY <1>1, <1>2 DEF S!IsStrictPrefix, S!IsPrefix

\* What is handed on of an event that is cut off is a part of it.
LEMMA PartRead ==
    ASSUME StreamTypes, NEW o \in 0 .. Width - 2, Reads(o), ReadChunk, Len(put) < Len(sent),
           o = Width - 2, Length = 2, ~(Len(wire) >= 2)
    PROVE  StreamTypes' /\ Over'
<1> DEFINE n == Len(put)
           i == n + 1
           k == Len(wire)
           d == SubSeq(wire, 1, k)
           r == SubSeq(wire, k + 1, Len(wire))
<1>1. /\ n \in Nat /\ Len(sent) \in Nat /\ wire \in Seq(Bytes) /\ i \in Nat
      /\ put \in Seq(Seq(Bytes)) /\ i <= Len(sent) /\ Width \in {7, 8} /\ k \in 0 .. 1
  <2>1. wire \in Seq(Bytes) /\ put \in Seq(Seq(Bytes)) /\ Width \in {7, 8}
    BY WidthType DEF StreamTypes
  <2>2. n \in Nat /\ Len(sent) \in Nat /\ k \in Nat /\ ~(k >= 2)
    BY DEF StreamTypes
  <2>3. i \in Nat /\ i <= Len(sent)
    BY <2>2
  <2>4. k \in 0 .. 1
    <3> HIDE DEF k
    <3> QED
      BY <2>2
  <2> QED
    BY <2>1, <2>2, <2>3, <2>4
<1>2. /\ d \in Seq(Bytes) /\ Len(d) = k /\ \A j \in 1 .. k : d[j] = wire[j]
      /\ r = <<>>
  <2>1. /\ d \in Seq(Bytes) /\ Len(d) = k /\ \A j \in 1 .. k : d[j] = wire[j]
        /\ r \in Seq(Bytes) /\ Len(r) = Len(wire) - k
    <3>1. k \in 0 .. Len(wire)
      BY <1>1
    <3> QED
      BY <1>1, <3>1, Split, Zenon
  <2> HIDE DEF d, r
  <2> QED
    BY <1>1, <2>1
<1>3. put' = Append(put, d) /\ wire' = <<>> /\ text' = <<>> /\ sent' = sent /\ open' = open /\ ~open
  <2>1. put' = Append(put, d) /\ wire' = r /\ text' = <<>> /\ sent' = sent /\ open' = open /\ ~open
    BY DEF ReadChunk
  <2> QED
    BY <1>2, <2>1
<1>4. S!IsStrictPrefix(d, Data(i))
  <2>1. \A j \in 1 .. k : wire[j] = Unit(i)[o + j]
    <3> SUFFICES ASSUME NEW j \in 1 .. k PROVE wire[j] = Unit(i)[o + j]
      OBVIOUS
    <3>1. j \in 1 .. Len(wire) /\ o + j <= Width
      BY <1>1
    <3> QED
      BY <3>1, RestOfUnit
  <2>2. o = HeadOf(i)
    BY <1>1, Numeric
  <2>3. Unit(i)[HeadOf(i) + 1] = Data(i)[1] /\ Data(i) \in Seq(Bytes) /\ Len(Data(i)) = 2
    BY <1>1, UnitBytes, Datum
  <2> HIDE DEF d, i, k
  <2>4. \A j \in 1 .. Len(d) : d[j] = Data(i)[j]
    <3> SUFFICES ASSUME NEW j \in 1 .. Len(d) PROVE d[j] = Data(i)[j]
      OBVIOUS
    <3>1. j = 1 /\ j \in 1 .. k
      BY <1>1, <1>2
    <3> QED
      BY <1>2, <2>1, <2>2, <2>3, <3>1
  <2>5. Len(d) < Len(Data(i))
    BY <1>1, <1>2, <2>3
  <2> QED
    BY <1>2, <2>3, <2>4, <2>5, StrictPrefixes
<1> HIDE DEF d, r, k
<1>5. /\ put' \in Seq(Seq(Bytes)) /\ Len(put') = i /\ put'[i] = d
      /\ \A j \in 1 .. n : put'[j] = put[j]
  BY <1>1, <1>2, <1>3
<1>6. text' \in Seq(Bytes) /\ wire' \in Seq(Bytes) /\ text' \o wire' = <<>>
  BY <1>3
<1>7. StreamTypes'
  BY <1>3, <1>5, <1>6 DEF StreamTypes
<1>8. Over'
  <2>1. \A j \in 1 .. i - 1 : put'[j] = Data(j)
    <3>1. \A j \in 1 .. n : put[j] = Data(j)
      BY DEF Reads, HandedOn
    <3>2. i - 1 = n
      BY <1>1
    <3> QED
      BY <1>5, <3>1, <3>2
  <2>2. i > 0 /\ i <= Len(sent') + 1
    BY <1>1, <1>3
  <2> HIDE DEF i
  <2> QED
    BY <1>3, <1>4, <1>5, <1>6, <2>1, <2>2 DEF Over
<1> QED
  BY <1>7, <1>8

\* The empty chunk is handed on as it is, and no more than a line break can follow.
LEMMA EndRead ==
    ASSUME StreamTypes, NEW o \in 0 .. Width - 2, Reads(o), ReadChunk, ~(Len(put) < Len(sent)),
           o = 5, Length = 0
    PROVE  StreamTypes' /\ Over'
<1> DEFINE n == Len(put)
           i == n + 1
           d == SubSeq(wire, 1, 0)
           r == SubSeq(wire, 0 + 1, Len(wire))
<1>1. /\ n \in Nat /\ Len(sent) \in Nat /\ wire \in Seq(Bytes) /\ i \in Nat
      /\ put \in Seq(Seq(Bytes)) /\ n = Len(sent) /\ Width \in {7, 8}
      /\ Len(wire) \in Nat
  <2>1. wire \in Seq(Bytes) /\ put \in Seq(Seq(Bytes)) /\ Width \in {7, 8}
    BY WidthType DEF StreamTypes
  <2>2. n \in Nat /\ Len(sent) \in Nat /\ Len(wire) \in Nat /\ n <= Len(sent)
    BY DEF StreamTypes, Reads, HandedOn
  <2> QED
    BY <2>1, <2>2
<1>2. d = <<>> /\ r = wire
  BY <1>1
<1>3. put' = Append(put, <<>>) /\ wire' = wire /\ text' = <<>> /\ sent' = sent /\ open' = open
  <2>1. put' = Append(put, d) /\ wire' = r /\ text' = <<>> /\ sent' = sent /\ open' = open
    <3>1. Len(wire) >= Length
      BY <1>1
    <3> QED
      BY <3>1 DEF ReadChunk
  <2> QED
    BY <1>2, <2>1
<1> DEFINE k == Len(wire)
<1>4. ~open /\ k \in 0 .. 2
  <2>1. Place(0, 2) = 2 /\ Place(0, 7) = 7 /\ Len(sent) - Len(put) = 0
    BY <1>1, Places
  <2>2. IF open THEN k = 2 - 5 ELSE k <= 7 - 5
    BY <2>1 DEF Reads, Rest
  <2>3. k \in Nat
    BY <1>1
  <2> HIDE DEF k
  <2> QED
    BY <2>2, <2>3
<1>5. wire \in {<<>>, SubSeq(CRLF, 1, 1), CRLF}
  <2>1. \A j \in 1 .. Len(wire) : wire[j] = CRLF[j]
    <3> SUFFICES ASSUME NEW j \in 1 .. Len(wire) PROVE wire[j] = CRLF[j]
      OBVIOUS
    <3>4. j = 1 \/ j = 2
      <4>1. j \in 1 .. k
        OBVIOUS
      <4> HIDE DEF k
      <4> QED
        BY <1>4, <4>1
    <3>1. wire[j] = Unit(i)[o + j]
      <4>1. o + j <= Width
        BY <1>1, <3>4
      <4> QED
        BY <4>1, RestOfUnit
    <3>2. o = HeadOf(i) /\ ~(i <= Len(sent))
      BY <1>1, Numeric
    <3>3. Unit(i)[HeadOf(i) + 1] = CRLF[1] /\ Unit(i)[HeadOf(i) + 2] = CRLF[2]
      BY <1>1, <3>2, UnitBytes
    <3> QED
      BY <3>1, <3>2, <3>3, <3>4
  <2>2. CASE Len(wire) = 0
    BY <1>1, <2>2
  <2>3. CASE Len(wire) = 1
    <3>1. /\ SubSeq(CRLF, 1, 1) \in Seq(Bytes) /\ Len(SubSeq(CRLF, 1, 1)) = 1
          /\ SubSeq(CRLF, 1, 1)[1] = CRLF[1]
      BY LineBreak
    <3>2. \A j \in 1 .. Len(wire) : wire[j] = SubSeq(CRLF, 1, 1)[j]
      BY <2>1, <2>3, <3>1
    <3> QED
      BY <1>1, <2>3, <3>1, <3>2, SeqEqual
  <2>4. CASE Len(wire) = 2
    BY <1>1, <2>1, <2>4, LineBreak, SeqEqual
  <2> QED
    BY <1>4, <2>2, <2>3, <2>4
<1>6. /\ put' \in Seq(Seq(Bytes)) /\ Len(put') = i /\ put'[i] = <<>>
      /\ \A j \in 1 .. n : put'[j] = put[j]
  BY <1>1, <1>3
<1>7. S!IsStrictPrefix(<<>>, Data(i))
  <2>1. Data(i) \in Seq(Bytes) /\ Len(Data(i)) = 2
    BY <1>1, Datum
  <2>2. <<>> \in Seq(Bytes) /\ Len(<<>>) = 0 /\ \A j \in 1 .. 0 : <<>>[j] = Data(i)[j]
    OBVIOUS
  <2> HIDE DEF i
  <2>3. Len(<<>>) < Len(Data(i)) /\ \A j \in 1 .. Len(<<>>) : <<>>[j] = Data(i)[j]
    BY <2>1, <2>2
  <2> QED
    BY <2>1, <2>2, <2>3, StrictPrefixes
<1>8. text' \in Seq(Bytes) /\ wire' \in Seq(Bytes) /\ text' \o wire' = wire
  BY <1>1, <1>3
<1>9. StreamTypes'
  BY <1>3, <1>6, <1>8 DEF StreamTypes
<1>10. Over'
  <2>1. \A j \in 1 .. i - 1 : put'[j] = Data(j)
    <3>1. \A j \in 1 .. n : put[j] = Data(j)
      BY DEF Reads, HandedOn
    <3>2. i - 1 = n
      BY <1>1
    <3> QED
      BY <1>6, <3>1, <3>2
  <2>2. i > 0 /\ i <= Len(sent') + 1
    BY <1>1, <1>3
  <2> HIDE DEF i
  <2> QED
    BY <1>3, <1>4, <1>5, <1>6, <1>7, <1>8, <2>1, <2>2 DEF Over
<1> QED
  BY <1>9, <1>10

LEMMA ChunkRead ==
    ASSUME StreamTypes, NEW o \in 0 .. Width - 2, Reads(o), ReadChunk
    PROVE  StreamTypes' /\ (Over' \/ Reads(0)')
<1> DEFINE i == Len(put) + 1
<1>1. o = HeadOf(i) /\ Line = Numeral(i)
  <2>1. o \in Nat /\ LineSoFar(o) /\ HasLength
    BY DEF Reads, ReadChunk
  <2> QED
    BY <2>1, LineOf
<1>2. Len(put) \in Nat /\ Len(sent) \in Nat
  BY DEF StreamTypes
<1>3. CASE Len(put) < Len(sent)
  <2>1. i <= Len(sent)
    BY <1>2, <1>3
  <2>2. o = Width - 2 /\ Length = 2
    BY <1>1, <2>1, Numeric, Numerals DEF Numeral, IsNumeral, Length
  <2> QED
    BY <1>3, <2>2, EventRead, PartRead
<1>4. CASE ~(Len(put) < Len(sent))
  <2>1. ~(i <= Len(sent))
    BY <1>2, <1>4
  <2>2. o = 5 /\ Length = 0
    BY <1>1, <2>1, Numeric, Numerals DEF Numeral, IsNumeral, Length
  <2> QED
    BY <1>4, <2>2, EndRead
<1> QED
  BY <1>3, <1>4

-----------------------------------------------------------------------------
(* What the server and the network do to the stream.                       *)

\* Where the j-th byte of the m-th unit is, seen from the line break after the k-th.
LEMMA WhichUnit ==
    ASSUME NEW k \in Nat, NEW m \in 0 .. k + 1, NEW j \in 1 .. Width
    PROVE  /\ Place(m, j) <= Place(k, 2) => m <= k /\ (m = k => j <= 2)
           /\ Place(m, j) > Place(k, 2) =>
                 \/ m = k /\ j >= 3 /\ Place(m, j) = Place(k, 2) + (j - 2)
                 \/ m = k + 1 /\ Place(m, j) = Place(k, 2) + (Width - 2 + j)
<1>1. CASE Width = 7
  BY <1>1 DEF Place
<1>2. CASE Width = 8
  BY <1>2 DEF Place
<1> QED
  BY <1>1, <1>2, WidthType

LEMMA OfBytes ==
    \A s, t, u \in Seq(Bytes) :
        /\ (s \o t) \o u = s \o (t \o u)
        /\ s \o t \in Seq(Bytes) /\ Len(s \o t) = Len(s) + Len(t)
        /\ \A k \in 1 .. Len(s) : (s \o t)[k] = s[k]
        /\ \A k \in 1 .. Len(t) : (s \o t)[Len(s) + k] = t[k]
<1> SUFFICES ASSUME NEW s \in Seq(Bytes), NEW t \in Seq(Bytes), NEW u \in Seq(Bytes)
             PROVE  /\ (s \o t) \o u = s \o (t \o u)
                    /\ s \o t \in Seq(Bytes) /\ Len(s \o t) = Len(s) + Len(t)
                    /\ \A k \in 1 .. Len(s) : (s \o t)[k] = s[k]
                    /\ \A k \in 1 .. Len(t) : (s \o t)[Len(s) + k] = t[k]
  OBVIOUS
<1>1. (s \o t) \o u = s \o (t \o u)
  BY ConcatAssociative
<1> QED
  BY <1>1, Concatenated

\* A chunk begins after a line break and ends with one.
LEMMA ChunkBytes ==
    ASSUME NEW d \in Seq(Bytes), NEW q, q = Digits[Len(d)], q \in Seq(Bytes)
    PROVE  /\ Chunk(d) \in Seq(Bytes) /\ Len(Chunk(d)) = Len(q) + Len(d) + 4
           /\ \A k \in 1 .. Len(q) + Len(d) + 2 : Chunk(d)[k] = Framed(q, d)[k + 2]
           /\ Chunk(d)[Len(q) + Len(d) + 3] = CRLF[1]
           /\ Chunk(d)[Len(q) + Len(d) + 4] = CRLF[2]
<1> DEFINE c == Chunk(d)
           f == Framed(q, d)
           a == q \o CRLF
           b == a \o d
<1>1. CRLF \in Seq(Bytes) /\ Len(CRLF) = 2
  BY LineBreak
<1>2. c = b \o CRLF
  BY DEF Chunk
<1>3. f = ((CRLF \o q) \o CRLF) \o d
  BY DEF Framed
<1>4. a \in Seq(Bytes) /\ b \in Seq(Bytes) /\ c \in Seq(Bytes)
  <2>1. a \in Seq(Bytes)
    BY <1>1, OfBytes, Zenon
  <2>2. b \in Seq(Bytes)
    <3> HIDE DEF a
    <3> QED
      BY <2>1, OfBytes, Zenon
  <2> HIDE DEF b, c
  <2> QED
    BY <1>1, <1>2, <2>1, <2>2, OfBytes, Zenon
<1>5. CRLF \o b = f
  <2> HIDE DEF c, f
  <2>1. (CRLF \o q) \o CRLF = CRLF \o a
    BY <1>1, OfBytes, Zenon
  <2>2. (CRLF \o a) \o d = CRLF \o b
    <3>1. CRLF \in Seq(Bytes) /\ a \in Seq(Bytes) /\ d \in Seq(Bytes)
      BY <1>1, <1>4
    <3> HIDE DEF a
    <3>2. (CRLF \o a) \o d = CRLF \o (a \o d)
      BY <3>1, ConcatAssociative
    <3> QED
      BY <3>2
  <2> QED
    BY <1>3, <2>1, <2>2, Zenon
<1> HIDE DEF b, c, f
<1>6. /\ Len(f) = 2 + Len(b) /\ \A k \in 1 .. Len(b) : f[k + 2] = b[k]
  <2>1. /\ Len(CRLF \o b) = Len(CRLF) + Len(b)
        /\ \A k \in 1 .. Len(b) : (CRLF \o b)[Len(CRLF) + k] = b[k]
    BY <1>1, <1>4, OfBytes, Zenon
  <2>2. \A k \in 1 .. Len(b) : Len(CRLF) + k = k + 2
    BY <1>1, <1>4
  <2> QED
    BY <1>1, <1>5, <2>1, <2>2
<1>7. Len(f) = Len(q) + Len(d) + 4
  BY Joined DEF f
<1>8. Len(q) \in Nat /\ Len(d) \in Nat /\ Len(b) \in Nat /\ Len(b) = Len(q) + Len(d) + 2
  <2>1. Len(q) \in Nat /\ Len(d) \in Nat /\ Len(b) \in Nat
    BY <1>4
  <2>2. \A x, y, z \in Nat : x + y + 4 = 2 + z => z = x + y + 2
    OBVIOUS
  <2> QED
    BY <1>6, <1>7, <2>1, <2>2
<1>9. /\ Len(c) = Len(b) + 2 /\ \A k \in 1 .. Len(b) : c[k] = b[k]
      /\ c[Len(b) + 1] = CRLF[1] /\ c[Len(b) + 2] = CRLF[2]
  <2>1. /\ Len(c) = Len(b) + Len(CRLF) /\ \A k \in 1 .. Len(b) : c[k] = b[k]
        /\ \A k \in 1 .. Len(CRLF) : c[Len(b) + k] = CRLF[k]
    <3>1. /\ Len(b \o CRLF) = Len(b) + Len(CRLF) /\ \A k \in 1 .. Len(b) : (b \o CRLF)[k] = b[k]
          /\ \A k \in 1 .. Len(CRLF) : (b \o CRLF)[Len(b) + k] = CRLF[k]
      <4>1. b \in Seq(Bytes) /\ CRLF \in Seq(Bytes)
        BY <1>1, <1>4
      <4> QED
        BY <4>1, OfBytes, Zenon
    <3> QED
      BY <1>2, <3>1, Zenon
  <2> QED
    BY <1>1, <2>1
<1>10. Len(c) = Len(q) + Len(d) + 4
       /\ Len(q) + Len(d) + 3 = Len(b) + 1 /\ Len(q) + Len(d) + 4 = Len(b) + 2
  BY <1>8, <1>9
<1>11. \A k \in 1 .. Len(b) : c[k] = f[k + 2]
  BY <1>6, <1>9
<1> QED
  BY <1>4, <1>8, <1>9, <1>10, <1>11 DEF c, f

\* The chunk of an event is its unit but for the line break, which it has at the end.
LEMMA EventChunk ==
    ASSUME NEW i \in Nat
    PROVE  LET c == Chunk(Data(i)) IN
           /\ c \in Seq(Bytes) /\ Len(c) = Width
           /\ \A k \in 1 .. Width - 2 : c[k] = Framed(Digits[2], Data(i))[k + 2]
           /\ c[Width - 1] = CRLF[1] /\ c[Width] = CRLF[2]
<1> DEFINE d == Data(i)
           q == Digits[Len(d)]
<1>1. d \in Seq(Bytes) /\ Len(d) = 2
  BY Datum
<1>2. Digits[2] \in Seq(Bytes) /\ Len(Digits[2]) \in 1 .. 2
  BY Numerals DEF IsNumeral
<1>3. q = Digits[2] /\ q \in Seq(Bytes)
  BY <1>1, <1>2
<1> HIDE DEF d
<1>4. /\ Chunk(d) \in Seq(Bytes) /\ Len(Chunk(d)) = Len(q) + Len(d) + 4
      /\ \A k \in 1 .. Len(q) + Len(d) + 2 : Chunk(d)[k] = Framed(q, d)[k + 2]
      /\ Chunk(d)[Len(q) + Len(d) + 3] = CRLF[1]
      /\ Chunk(d)[Len(q) + Len(d) + 4] = CRLF[2]
  BY <1>1, <1>3, ChunkBytes, Zenon
<1>5. /\ Width = Len(q) + Len(d) + 4 /\ Width - 1 = Len(q) + Len(d) + 3
      /\ Width - 2 = Len(q) + Len(d) + 2
  <2> DEFINE x == Len(q)
             y == Len(d)
             w == Width
  <2>1. w = x + 6 /\ x \in 1 .. 2 /\ y = 2
    BY <1>1, <1>2, <1>3 DEF Width
  <2> HIDE DEF x, y, w
  <2>2. w = x + y + 4 /\ w - 1 = x + y + 3 /\ w - 2 = x + y + 2
    BY <2>1
  <2> QED
    BY <2>2 DEF x, y, w
<1> QED
  BY <1>3, <1>4, <1>5 DEF d

\* The empty chunk is what the last unit is after the line break.
LEMMA EmptyChunk ==
    /\ Chunk(<<>>) \in Seq(Bytes) /\ Len(Chunk(<<>>)) = 5
    /\ \A k \in 1 .. 5 : Chunk(<<>>)[k] = Framed(Digits[0], CRLF)[k + 2]
<1> DEFINE d == <<>>
           q == Digits[0]
<1>1. d \in Seq(Bytes) /\ Len(d) = 0 /\ CRLF \in Seq(Bytes) /\ Len(CRLF) = 2
  BY LineBreak
<1>2. q \in Seq(Bytes) /\ Len(q) = 1 /\ q = Digits[Len(d)]
  BY <1>1, Numerals DEF IsNumeral
<1> HIDE DEF d, q
<1>3. /\ Chunk(d) \in Seq(Bytes) /\ Len(Chunk(d)) = Len(q) + Len(d) + 4
      /\ \A k \in 1 .. Len(q) + Len(d) + 2 : Chunk(d)[k] = Framed(q, d)[k + 2]
      /\ Chunk(d)[Len(q) + Len(d) + 3] = CRLF[1]
      /\ Chunk(d)[Len(q) + Len(d) + 4] = CRLF[2]
  <2>1. d \in Seq(Bytes) /\ q = Digits[Len(d)] /\ q \in Seq(Bytes)
    BY <1>1, <1>2
  <2> QED
    BY <2>1, ChunkBytes, SMTT(30)
<1>4. Len(q) + Len(d) + 4 = 5 /\ Len(q) + Len(d) + 3 = 4 /\ Len(q) + Len(d) + 2 = 3
  BY <1>1, <1>2
<1>5. /\ Framed(q, d)[3] = q[1] /\ Framed(q, d)[4] = CRLF[1] /\ Framed(q, d)[5] = CRLF[2]
  <2>1. /\ \A k \in 1 .. Len(q) : Framed(q, d)[k + 2] = q[k]
        /\ Framed(q, d)[Len(q) + 3] = CRLF[1] /\ Framed(q, d)[Len(q) + 4] = CRLF[2]
    BY <1>1, <1>2, Joined
  <2> QED
    BY <1>2, <2>1
<1>6. /\ Framed(q, CRLF)[3] = q[1] /\ Framed(q, CRLF)[4] = CRLF[1]
      /\ Framed(q, CRLF)[5] = CRLF[2] /\ Framed(q, CRLF)[6] = CRLF[1]
      /\ Framed(q, CRLF)[7] = CRLF[2]
  <2>1. /\ \A k \in 1 .. Len(q) : Framed(q, CRLF)[k + 2] = q[k]
        /\ Framed(q, CRLF)[Len(q) + 3] = CRLF[1] /\ Framed(q, CRLF)[Len(q) + 4] = CRLF[2]
        /\ \A k \in 1 .. Len(CRLF) : Framed(q, CRLF)[Len(q) + 4 + k] = CRLF[k]
    BY <1>1, <1>2, Joined
  <2> QED
    BY <1>1, <1>2, <2>1
<1>7. \A k \in 1 .. 3 : Chunk(d)[k] = Framed(q, d)[k + 2]
  BY <1>3, <1>4
<1>8. /\ Chunk(d)[1] = q[1] /\ Chunk(d)[2] = CRLF[1] /\ Chunk(d)[3] = CRLF[2]
      /\ Chunk(d)[4] = CRLF[1] /\ Chunk(d)[5] = CRLF[2]
  BY <1>3, <1>4, <1>5, <1>7
<1>9. \A k \in 1 .. 5 : Chunk(d)[k] = Framed(q, CRLF)[k + 2]
  BY <1>6, <1>8
<1> QED
  BY <1>3, <1>4, <1>9 DEF d, q

\* With the response open, the reader is in the last unit only if it is in its line break.
LEMMA Behind ==
    ASSUME StreamTypes, NEW o \in 0 .. Width - 2, Reads(o), open, ~(Len(put) < Len(sent))
    PROVE  o <= 2
<1>1. Len(put) = Len(sent) /\ Len(sent) - Len(put) = 0
  <2>1. Len(put) \in Nat /\ Len(sent) \in Nat /\ Len(put) <= Len(sent)
    BY DEF StreamTypes, Reads, HandedOn
  <2> DEFINE n == Len(put)
             k == Len(sent)
  <2>2. n \in Nat /\ k \in Nat /\ n <= k /\ ~(n < k)
    BY <2>1
  <2> HIDE DEF n, k
  <2>3. n = k /\ k - n = 0
    BY <2>2
  <2> QED
    BY <2>3 DEF n, k
<1>2. Place(0, 2) = 2
  BY Places
<1>3. Len(wire) = 2 - o
  BY <1>1, <1>2 DEF Reads, Rest
<1>4. Len(wire) \in Nat /\ o \in Int
  BY WidthType DEF StreamTypes
<1> DEFINE w == Len(wire)
<1>5. w = 2 - o /\ w \in Nat
  BY <1>3, <1>4
<1> HIDE DEF w
<1> QED
  BY <1>4, <1>5

LEMMA EveryUnit ==
    \A i \in Nat : /\ Unit(i)[1] = CRLF[1] /\ Unit(i)[2] = CRLF[2]
                   /\ HeadOf(i) \in 5 .. 6 /\ HeadOf(i) = Len(Numeral(i)) + 4
<1> SUFFICES ASSUME NEW i \in Nat
             PROVE  /\ Unit(i)[1] = CRLF[1] /\ Unit(i)[2] = CRLF[2]
                    /\ HeadOf(i) \in 5 .. 6 /\ HeadOf(i) = Len(Numeral(i)) + 4
  OBVIOUS
<1>1. Len(Numeral(i)) \in 1 .. 2 /\ HeadOf(i) = Len(Numeral(i)) + 4
  BY Numeric
<1>2. \A x \in 1 .. 2 : x + 4 \in 5 .. 6
  OBVIOUS
<1> QED
  BY <1>1, <1>2, UnitBytes

LEMMA EveryUnitNext ==
    (\A i \in Nat : /\ Unit(i)[1] = CRLF[1] /\ Unit(i)[2] = CRLF[2]
                    /\ HeadOf(i) \in 5 .. 6 /\ HeadOf(i) = Len(Numeral(i)) + 4)'
  BY EveryUnit, PTL

\* The server puts another unit behind the last.
LEMMA SendKeeps ==
    ASSUME StreamTypes, NEW o \in 0 .. Width - 2, Reads(o), NEW e \in Events, open, Send(e)
    PROVE  StreamTypes' /\ Reads(o)'
<1>a. Len(put) \in Nat /\ Len(sent) \in Nat /\ Len(wire) \in Nat /\ Len(put) <= Len(sent)
  BY DEF StreamTypes, Reads, HandedOn
<1>b. PICK n \in Nat, k \in Nat, g \in Nat, w \in Nat :
         n = Len(put) /\ k = Len(sent) /\ w = Len(wire) /\ n + g = k /\ g = k - n
  <2>1. \A x, y \in Nat : x <= y => y - x \in Nat /\ x + (y - x) = y
    OBVIOUS
  <2> QED
    BY <1>a, <2>1
<1> DEFINE c == Chunk(Data(k + 1))
<1>1. wire \in Seq(Bytes) /\ Width \in {7, 8} /\ o \in Nat
  BY WidthType DEF StreamTypes
<1>2. /\ sent' = Append(sent, e) /\ wire' = wire \o c /\ open' = open /\ text' = text /\ put' = put
  BY <1>b DEF Send
<1>3. Len(sent') = k + 1
  BY <1>b, <1>2 DEF StreamTypes
<1>4. /\ c \in Seq(Bytes) /\ Len(c) = Width
      /\ \A q \in 1 .. Width - 2 : c[q] = Framed(Digits[2], Data(k + 1))[q + 2]
      /\ c[Width - 1] = CRLF[1] /\ c[Width] = CRLF[2]
  <2>1. k + 1 \in Nat
    OBVIOUS
  <2> QED
    BY <2>1, EventChunk
<1> HIDE DEF c
<1>5. /\ wire \o c \in Seq(Bytes) /\ Len(wire \o c) = w + Width
      /\ \A q \in 1 .. w : (wire \o c)[q] = wire[q]
      /\ \A q \in 1 .. Width : (wire \o c)[w + q] = c[q]
  <2>1. /\ wire \o c \in Seq(Bytes) /\ Len(wire \o c) = w + Len(c)
        /\ \A q \in 1 .. w : (wire \o c)[q] = wire[q]
        /\ \A q \in 1 .. Len(c) : (wire \o c)[w + q] = c[q]
    <3>1. /\ wire \o c \in Seq(Bytes) /\ Len(wire \o c) = Len(wire) + Len(c)
          /\ \A q \in 1 .. Len(wire) : (wire \o c)[q] = wire[q]
          /\ \A q \in 1 .. Len(c) : (wire \o c)[Len(wire) + q] = c[q]
      BY <1>1, <1>4, OfBytes, Zenon
    <3> QED
      BY <1>b, <3>1
  <2> QED
    BY <1>4, <2>1
<1>6. w = Place(g, 2) - o /\ Place(g, 2) \in Int
  BY <1>b, PlaceType DEF Reads, Rest
<1>7. \A i \in Nat :
         /\ i <= k => (Unit(i)') = Unit(i) /\ (HeadOf(i)') = HeadOf(i)
         /\ i = k + 1 => (Unit(i)') = Framed(Digits[2], Data(k + 1))
  <2> SUFFICES ASSUME NEW i \in Nat
               PROVE  /\ i <= k => (Unit(i)') = Unit(i) /\ (HeadOf(i)') = HeadOf(i)
                      /\ i = k + 1 => (Unit(i)') = Framed(Digits[2], Data(k + 1))
    OBVIOUS
  <2>1. ASSUME i <= k PROVE (Unit(i)') = Unit(i) /\ (HeadOf(i)') = HeadOf(i)
    <3>1. i <= Len(sent) /\ i <= Len(sent')
      BY <1>b, <1>3, <2>1
    <3> QED
      BY <3>1 DEF Unit, HeadOf, Numeral
  <2>2. ASSUME i = k + 1 PROVE (Unit(i)') = Framed(Digits[2], Data(k + 1))
    <3>1. i <= Len(sent')
      BY <1>3, <2>2
    <3> QED
      BY <2>2, <3>1 DEF Unit, Numeral
  <2> QED
    BY <2>1, <2>2
<1>8. \A i \in Nat : /\ Unit(i)[1] = CRLF[1] /\ Unit(i)[2] = CRLF[2]
                     /\ (Unit(i)')[1] = CRLF[1] /\ (Unit(i)')[2] = CRLF[2]
                     /\ (HeadOf(i)') \in 5 .. 6
  BY EveryUnit, EveryUnitNext
<1>9. StreamTypes'
  BY <1>2, <1>5 DEF StreamTypes
<1>10. HandedOn'
  <2>1. \A i \in 1 .. Len(put) : put[i] = Data(i)
    BY DEF Reads, HandedOn
  <2>2. Len(put) <= Len(sent')
    BY <1>b, <1>3
  <2> QED
    BY <1>2, <2>1, <2>2 DEF HandedOn
<1>11. LineSoFar(o)'
  <2>1. n + 1 \in Nat /\ n + 1 = Len(put) + 1
    BY <1>b
  <2>2. /\ o <= HeadOf(n + 1)
        /\ \/ o <= 2 /\ text = SubSeq(CRLF, 1, o)
           \/ o >= 2 /\ text = SubSeq(Unit(n + 1), 3, o)
    BY <2>1 DEF Reads, LineSoFar
  <2>3. /\ o <= (HeadOf(n + 1)')
        /\ \/ o <= 2 /\ text = SubSeq(CRLF, 1, o)
           \/ o >= 2 /\ text = SubSeq(Unit(n + 1)', 3, o)
    <3>1. CASE n + 1 <= k
      <4>1. (Unit(n + 1)') = Unit(n + 1) /\ (HeadOf(n + 1)') = HeadOf(n + 1)
        BY <1>7, <2>1, <3>1
      <4> QED
        BY <2>2, <4>1
    <3>2. CASE ~(n + 1 <= k)
      <4>1. o <= 2
        <5>1. ~(Len(put) < Len(sent))
          BY <1>b, <3>2
        <5> QED
          BY <5>1, Behind
      <4>2. o <= (HeadOf(n + 1)')
        <5>1. (HeadOf(n + 1)') \in 5 .. 6
          BY <1>8, <2>1
        <5> QED
          BY <1>1, <4>1, <5>1
      <4>3. o >= 2 => SubSeq(Unit(n + 1)', 3, o) = <<>> /\ SubSeq(Unit(n + 1), 3, o) = <<>>
        BY <1>1, <4>1, SubSeqEmpty
      <4> QED
        BY <2>2, <4>1, <4>2, <4>3
    <3> QED
      BY <3>1, <3>2
  <2> QED
    BY <1>2, <2>1, <2>3 DEF LineSoFar
<1>12. OnTheWire(o)'
  <2>a. SUFFICES \A m \in 0 .. g + 1 : \A j \in 1 .. Width :
                    Place(m, j) - o \in 1 .. w + Width =>
                        (wire \o c)[Place(m, j) - o] = (Unit(n + 1 + m)')[j]
    <3>1. (Len(sent) - Len(put))' = g + 1 /\ Len(wire') = w + Width /\ Width' = Width
          /\ (Len(put) + 1)' = n + 1 /\ wire' = wire \o c
      BY <1>b, <1>2, <1>3, <1>5 DEF Width
    <3>2. \A m, j : (Place(m, j)') = Place(m, j)
      BY SamePlaces
    <3> HIDE DEF c
    <3>3. \A m \in 0 .. g + 1 : \A j \in 1 .. Width :
             Place(m, j) - o \in 1 .. Len(wire') =>
                wire'[Place(m, j) - o] = (Unit(n + 1 + m)')[j]
      BY <2>a, <3>1
    <3> QED
      BY <3>1, <3>2, <3>3 DEF OnTheWire
  <2>1. SUFFICES ASSUME NEW m \in 0 .. g + 1, NEW j \in 1 .. Width,
                        Place(m, j) - o \in 1 .. w + Width
                 PROVE  (wire \o c)[Place(m, j) - o] = (Unit(n + 1 + m)')[j]
    BY <2>1
  <2> DEFINE x == Place(m, j)
  <2>i. PICK i \in Nat : i = n + 1 + m
    OBVIOUS
  <2>2. /\ x <= Place(g, 2) => m <= g /\ (m = g => j <= 2)
        /\ x > Place(g, 2) =>
              \/ m = g /\ j >= 3 /\ x = Place(g, 2) + (j - 2)
              \/ m = g + 1 /\ x = Place(g, 2) + (Width - 2 + j)
    BY WhichUnit
  <2>3. x \in Int /\ m \in Nat /\ j \in Nat /\ i \in Nat
    BY <1>1, Places
  <2>4. x - o \in 1 .. w + Width
    BY <2>1
  <2> HIDE DEF x
  <2>5. CASE x <= Place(g, 2)
    <3>1. x - o \in 1 .. w
      BY <1>1, <1>6, <2>3, <2>4, <2>5
    <3>2. wire[x - o] = Unit(i)[j]
      <4>1. m \in 0 .. g /\ g = Len(sent) - Len(put)
        BY <1>b, <2>2, <2>3, <2>5
      <4>2. i = Len(put) + 1 + m
        BY <1>b, <2>i
      <4> QED
        BY <1>b, <3>1, <4>1, <4>2 DEF Reads, OnTheWire, x
    <3>3. Unit(i)[j] = (Unit(i)')[j]
      <4>1. CASE m < g
        <5>1. i <= k
          BY <1>b, <2>3, <2>i, <4>1
        <5> QED
          BY <1>7, <2>3, <5>1
      <4>2. CASE ~(m < g)
        <5>1. j = 1 \/ j = 2
          BY <2>2, <2>3, <2>5, <4>2
        <5> QED
          BY <1>8, <2>3, <5>1
      <4> QED
        BY <4>1, <4>2
    <3> QED
      BY <1>5, <2>i, <3>1, <3>2, <3>3 DEF x
  <2>6. CASE x > Place(g, 2) /\ m = g /\ j >= 3 /\ x = Place(g, 2) + (j - 2)
    <3>1. x - o = w + (j - 2) /\ j - 2 \in 1 .. Width - 2 /\ j - 2 \in 1 .. Width /\ j - 2 + 2 = j
      BY <1>1, <1>6, <2>3, <2>6
    <3>2. (wire \o c)[x - o] = c[j - 2]
      BY <1>5, <3>1
    <3>3. i = k + 1
      BY <1>b, <2>i, <2>6
    <3>4. c[j - 2] = (Unit(i)')[j]
      BY <1>4, <1>7, <2>3, <3>1, <3>3
    <3> QED
      BY <2>i, <3>2, <3>4 DEF x
  <2>7. CASE x > Place(g, 2) /\ m = g + 1 /\ x = Place(g, 2) + (Width - 2 + j)
    <3>1. x - o = w + (Width - 2 + j) /\ Width - 2 + j \in 1 .. Width /\ (j = 1 \/ j = 2)
      <4>1. x - o = w + (Width - 2 + j)
        BY <1>1, <1>6, <2>3, <2>7
      <4>2. Width - 2 + j <= Width
        BY <1>1, <2>3, <2>4, <4>1
      <4>3. j >= 1
        BY <1>1
      <4> QED
        BY <1>1, <2>3, <4>1, <4>2, <4>3
    <3>2. (wire \o c)[x - o] = c[Width - 2 + j]
      BY <1>5, <3>1
    <3>3. c[Width - 2 + j] = CRLF[j]
      BY <1>1, <1>4, <3>1
    <3>4. CRLF[j] = (Unit(i)')[j]
      BY <1>8, <2>3, <3>1
    <3> QED
      BY <2>i, <3>2, <3>3, <3>4 DEF x
  <2> QED
    <3>1. x <= Place(g, 2) \/ x > Place(g, 2)
      BY <1>6, <2>3
    <3> QED
      BY <2>2, <2>5, <2>6, <2>7, <3>1
<1>13. Rest(o)'
  <2>1. Place(g + 1, 2) = Place(g, 2) + Width
    BY PlaceType
  <2>2. Len(wire') = w + Width /\ (Len(sent) - Len(put))' = g + 1
    BY <1>b, <1>2, <1>3, <1>5
  <2>3. w + Width = Place(g + 1, 2) - o
    BY <1>1, <1>6, <2>1
  <2> QED
    BY <1>2, <2>2, <2>3, SamePlaces DEF Rest
<1> QED
  BY <1>9, <1>10, <1>11, <1>12, <1>13 DEF Reads

\* What is left on the wire is what the server sent, as far as it came.
LEMMA EndKeeps ==
    ASSUME StreamTypes, NEW o \in 0 .. Width - 2, Reads(o), EndStream
    PROVE  StreamTypes' /\ Reads(o)'
<1>a. Len(put) \in Nat /\ Len(sent) \in Nat /\ Len(wire) \in Nat /\ Len(put) <= Len(sent)
  BY DEF StreamTypes, Reads, HandedOn
<1>b. PICK n \in Nat, k \in Nat, g \in Nat, w \in Nat :
         n = Len(put) /\ k = Len(sent) /\ w = Len(wire) /\ n + g = k /\ g = k - n
  <2>1. \A x, y \in Nat : x <= y => y - x \in Nat /\ x + (y - x) = y
    OBVIOUS
  <2> QED
    BY <1>a, <2>1
<1>1. wire \in Seq(Bytes) /\ Width \in {7, 8} /\ o \in Nat
  BY WidthType DEF StreamTypes
<1>2. sent' = sent /\ open /\ open' = FALSE /\ text' = text /\ put' = put
  BY DEF EndStream
<1>3. /\ Width' = Width /\ \A i : (Unit(i)') = Unit(i) /\ (HeadOf(i)') = HeadOf(i)
      /\ \A m, j : (Place(m, j)') = Place(m, j)
  BY <1>2, SameUnits, SamePlaces DEF Width
<1>4. /\ w = Place(g, 2) - o /\ Place(g, 2) \in Int /\ Place(g, 7) = Place(g, 2) + 5
  <2>1. w = Place(g, 2) - o
    BY <1>b, <1>2 DEF Reads, Rest
  <2>2. Place(g, 2) \in Int /\ Place(g, 7) = Place(g, 2) + 5
    BY PlaceType
  <2> QED
    BY <2>1, <2>2
<1>5. HandedOn' /\ LineSoFar(o)'
  BY <1>2, <1>3 DEF Reads, HandedOn, LineSoFar
<1>6. ASSUME wire' \in Seq(Bytes), Len(wire') <= w + 5,
             \A m \in 0 .. g : \A j \in 1 .. Width :
                Place(m, j) - o \in 1 .. Len(wire') =>
                    wire'[Place(m, j) - o] = Unit(n + 1 + m)[j]
      PROVE  StreamTypes' /\ Reads(o)'
  <2>1. StreamTypes'
    BY <1>2, <1>6 DEF StreamTypes
  <2>2. OnTheWire(o)'
    BY <1>b, <1>2, <1>3, <1>6 DEF OnTheWire
  <2>3. Rest(o)'
    <3>1. Len(wire') \in Nat
      BY <1>6
    <3>2. Len(wire') <= Place(g, 7) - o
      BY <1>4, <1>6, <3>1
    <3> QED
      BY <1>b, <1>2, <1>3, <3>2 DEF Rest
  <2> QED
    BY <1>5, <2>1, <2>2, <2>3 DEF Reads
<1>7. \A m \in 0 .. g : \A j \in 1 .. Width :
         Place(m, j) - o \in 1 .. w => wire[Place(m, j) - o] = Unit(n + 1 + m)[j]
  BY <1>b DEF Reads, OnTheWire
<1>8. ASSUME wire' = wire \o Chunk(<<>>)
      PROVE  StreamTypes' /\ Reads(o)'
  <2> DEFINE c == Chunk(<<>>)
  <2>1. /\ c \in Seq(Bytes) /\ Len(c) = 5
        /\ \A q \in 1 .. 5 : c[q] = Framed(Digits[0], CRLF)[q + 2]
    BY EmptyChunk
  <2> HIDE DEF c
  <2>2. /\ wire \o c \in Seq(Bytes) /\ Len(wire \o c) = w + 5
        /\ \A q \in 1 .. w : (wire \o c)[q] = wire[q]
        /\ \A q \in 1 .. 5 : (wire \o c)[w + q] = c[q]
    <3>1. /\ wire \o c \in Seq(Bytes) /\ Len(wire \o c) = Len(wire) + Len(c)
          /\ \A q \in 1 .. Len(wire) : (wire \o c)[q] = wire[q]
          /\ \A q \in 1 .. Len(c) : (wire \o c)[Len(wire) + q] = c[q]
      BY <1>1, <2>1, OfBytes, Zenon
    <3> QED
      BY <1>b, <2>1, <3>1
  <2>3. ASSUME NEW m \in 0 .. g, NEW j \in 1 .. Width, Place(m, j) - o \in 1 .. w + 5
        PROVE  (wire \o c)[Place(m, j) - o] = Unit(n + 1 + m)[j]
    <3> DEFINE x == Place(m, j)
    <3>1. x \in Int /\ m \in Nat /\ j \in Nat
      BY <1>1, Places
    <3>2. x > Place(g, 2) =>
             \/ m = g /\ j >= 3 /\ x = Place(g, 2) + (j - 2)
             \/ m = g + 1 /\ x = Place(g, 2) + (Width - 2 + j)
      BY WhichUnit
    <3>3. x - o \in 1 .. w + 5
      BY <2>3
    <3> HIDE DEF x
    <3>4. CASE x <= Place(g, 2)
      <4>1. x - o \in 1 .. w
        BY <1>1, <1>4, <3>1, <3>3, <3>4
      <4> QED
        BY <1>7, <2>2, <4>1 DEF x
    <3>5. CASE x > Place(g, 2)
      <4>1. m = g /\ x - o = w + (j - 2) /\ j - 2 \in 1 .. 5 /\ j - 2 + 2 = j
        <5>1. m = g /\ j >= 3 /\ x = Place(g, 2) + (j - 2)
          BY <3>1, <3>2, <3>5
        <5>2. x - o = w + (j - 2)
          BY <1>1, <1>4, <3>1, <5>1
        <5>3. j - 2 <= 5
          BY <1>b, <3>1, <3>3, <5>2
        <5> QED
          BY <3>1, <5>1, <5>2, <5>3
      <4>2. (wire \o c)[x - o] = Framed(Digits[0], CRLF)[j]
        <5>1. PICK q \in 1 .. 5 : x - o = w + q /\ q + 2 = j
          BY <4>1
        <5>2. (wire \o c)[w + q] = c[q] /\ c[q] = Framed(Digits[0], CRLF)[q + 2]
          BY <2>1, <2>2
        <5> QED
          BY <5>1, <5>2
      <4>3. Unit(k + 1) = Framed(Digits[0], CRLF)
        <5>1. ~(k + 1 <= Len(sent))
          BY <1>b
        <5> QED
          BY <5>1 DEF Unit, Numeral
      <4>4. n + 1 + m = k + 1
        BY <1>b, <4>1
      <4> QED
        BY <4>2, <4>3, <4>4 DEF x
    <3>6. x <= Place(g, 2) \/ x > Place(g, 2)
      BY <1>4, <3>1
    <3> QED
      BY <3>4, <3>5, <3>6
  <2>4. wire' = wire \o c
    BY <1>8 DEF c
  <2>5. Len(wire') <= w + 5
    BY <2>2, <2>4
  <2> QED
    BY <1>6, <2>2, <2>3, <2>4, <2>5
<1>9. ASSUME NEW q \in 0 .. Len(wire), wire' = SubSeq(wire, 1, q)
      PROVE  StreamTypes' /\ Reads(o)'
  <2>1. /\ wire' \in Seq(Bytes) /\ Len(wire') = q /\ \A p \in 1 .. q : wire'[p] = wire[p]
    BY <1>1, <1>9, Split, Zenon
  <2>2. q \in Nat /\ q <= w
    BY <1>b, <1>9
  <2>3. ASSUME NEW m \in 0 .. g, NEW j \in 1 .. Width, Place(m, j) - o \in 1 .. q
        PROVE  wire'[Place(m, j) - o] = Unit(n + 1 + m)[j]
    <3>1. Place(m, j) - o \in 1 .. w
      BY <2>2, <2>3
    <3> QED
      BY <1>7, <2>1, <2>3, <3>1
  <2>4. Len(wire') <= w + 5
    BY <2>1, <2>2
  <2> QED
    BY <1>6, <2>1, <2>3, <2>4
<1> QED
  BY <1>8, <1>9 DEF EndStream

\* Before a watch is opened there is nothing on the stream, and nothing when it is.
LEMMA FirstUnit ==
    ASSUME sent = <<>>, wire = <<>>, text = <<>>, put = <<>>, open \in BOOLEAN
    PROVE  StreamTypes /\ Reads(2)
<1>1. Len(sent) = 0 /\ Len(put) = 0 /\ Len(wire) = 0
  OBVIOUS
<1>2. StreamTypes
  BY DEF StreamTypes
<1>3. HandedOn
  BY <1>1 DEF HandedOn
<1>4. LineSoFar(2)
  <2>1. HeadOf(0 + 1) \in 5 .. 6
    BY EveryUnit
  <2>2. SubSeq(Unit(0 + 1), 3, 2) = <<>>
    BY SubSeqEmpty
  <2> QED
    BY <1>1, <2>1, <2>2 DEF LineSoFar
<1>5. OnTheWire(2)
  BY <1>1 DEF OnTheWire
<1>6. Rest(2)
  <2>1. Place(0, 2) = 2 /\ Place(0, 7) = 7 /\ 0 - 0 = 0
    BY Places
  <2> QED
    BY <1>1, <2>1 DEF Rest
<1> QED
  BY <1>2, <1>3, <1>4, <1>5, <1>6 DEF Reads

LEMMA FirstUnitNext ==
    (sent = <<>> /\ wire = <<>> /\ text = <<>> /\ put = <<>> /\ open \in BOOLEAN =>
        StreamTypes /\ Reads(2))'
<1>1. sent = <<>> /\ wire = <<>> /\ text = <<>> /\ put = <<>> /\ open \in BOOLEAN =>
         StreamTypes /\ Reads(2)
  BY FirstUnit
<1> QED
  BY <1>1, PTL

LEMMA OpenKeeps ==
    ASSUME StreamInit, Open
    PROVE  StreamTypes' /\ Reads(2)'
<1>1. (sent = <<>> /\ wire = <<>> /\ text = <<>> /\ put = <<>> /\ open \in BOOLEAN)'
  BY DEF StreamInit, Open
<1> QED
  BY <1>1, FirstUnitNext

LEMMA StreamStarts == StreamInit => StreamInv
<1> SUFFICES ASSUME StreamInit PROVE StreamInv
  OBVIOUS
<1>1. StreamTypes /\ Reads(2)
  BY FirstUnit DEF StreamInit
<1>2. 2 \in 0 .. Width - 2
  BY WidthType
<1> QED
  BY <1>1, <1>2 DEF StreamInv

LEMMA SameWidth == Width' = Width
  BY DEF Width

\* The steps of the stream together.
LEMMA StreamReads ==
    ASSUME StreamInv, ReadByte \/ ReadChunk
    PROVE  StreamInv'
<1>1. StreamTypes
  BY DEF StreamInv
<1>2. CASE Over
  BY <1>1, <1>2, OverStays DEF StreamInv
<1>3. ASSUME NEW o \in 0 .. Width - 2, Reads(o)
      PROVE  StreamInv'
  <2>1. CASE ReadByte
    <3>1. StreamTypes' /\ \E p \in 0 .. Width - 2 : Reads(p)'
      BY <1>1, <1>3, <2>1, ByteRead
    <3> QED
      BY <3>1, SameWidth DEF StreamInv
  <2>2. CASE ReadChunk
    <3>1. StreamTypes' /\ (Over' \/ Reads(0)')
      BY <1>1, <1>3, <2>2, ChunkRead
    <3>2. 0 \in 0 .. Width - 2
      BY WidthType
    <3> QED
      BY <3>1, <3>2, SameWidth DEF StreamInv
  <2> QED
    BY <2>1, <2>2
<1> QED
  BY <1>2, <1>3 DEF StreamInv

LEMMA StreamStays ==
    ASSUME StreamInv, UNCHANGED streamVars
    PROVE  StreamInv'
<1>1. /\ sent' = sent /\ wire' = wire /\ open' = open /\ text' = text /\ put' = put
      /\ Width' = Width
      /\ \A i : (Unit(i)') = Unit(i) /\ (HeadOf(i)') = HeadOf(i)
      /\ \A m, j : (Place(m, j)') = Place(m, j)
  BY SameUnits, SamePlaces, SameWidth DEF streamVars
<1>2. StreamTypes'
  BY <1>1 DEF StreamInv, StreamTypes
<1>3. Over => Over'
  BY <1>1 DEF Over
<1>4. ASSUME NEW o, Reads(o) PROVE Reads(o)'
  BY <1>1, <1>4 DEF Reads, HandedOn, LineSoFar, OnTheWire, Rest
<1> QED
  BY <1>1, <1>2, <1>3, <1>4 DEF StreamInv

LEMMA StreamSends ==
    ASSUME StreamInv, NEW e \in Events, Send(e)
    PROVE  StreamInv'
<1>1. CASE ~open
  BY <1>1, StreamStays DEF Send
<1>2. CASE open
  <2>1. PICK o \in 0 .. Width - 2 : Reads(o)
    BY <1>2 DEF StreamInv, Over
  <2>2. StreamTypes' /\ Reads(o)'
    BY <1>2, <2>1, SendKeeps DEF StreamInv
  <2> QED
    BY <2>2, SameWidth DEF StreamInv
<1> QED
  BY <1>1, <1>2

LEMMA StreamEnds ==
    ASSUME StreamInv, EndStream
    PROVE  StreamInv'
<1>1. PICK o \in 0 .. Width - 2 : Reads(o)
  BY DEF StreamInv, Over, EndStream
<1>2. StreamTypes' /\ Reads(o)'
  BY <1>1, EndKeeps DEF StreamInv
<1> QED
  BY <1>2, SameWidth DEF StreamInv

LEMMA StreamOpens ==
    ASSUME StreamInit, Open
    PROVE  StreamInv'
<1>1. StreamTypes' /\ Reads(2)'
  BY OpenKeeps
<1>2. 2 \in 0 .. Width - 2
  BY WidthType
<1> QED
  BY <1>1, <1>2, SameWidth DEF StreamInv

\* What was handed on whole is the event of its number; the rest is the last of a watch that
\* ended, after which nothing more is handed on.
LEMMA WhatIsHandedOn ==
    ASSUME StreamInv, NEW i \in 1 .. Len(put)
    PROVE  /\ IsWhole(put[i]) => i <= Len(sent) /\ put[i] = Data(i)
           /\ ~IsWhole(put[i]) =>
                 ~open /\ i = Len(put) /\ S!IsStrictPrefix(put[i], Data(i)) /\ ~HasLength
<1>1. Len(put) \in Nat /\ Len(sent) \in Nat /\ StreamTypes
  BY DEF StreamInv, StreamTypes
<1>2. i \in Nat
  BY <1>1
<1>3. IsWhole(Data(i))
  BY <1>2, Datum DEF IsWhole
<1>4. ASSUME NEW o, Reads(o) PROVE i <= Len(sent) /\ put[i] = Data(i)
  BY <1>1, <1>2, <1>4 DEF Reads, HandedOn
<1>5. ASSUME Over, i # Len(put) PROVE i <= Len(sent) /\ put[i] = Data(i)
  <2>1. i \in 1 .. Len(put) - 1 /\ Len(put) <= Len(sent) + 1
    BY <1>1, <1>2, <1>5 DEF Over
  <2> QED
    BY <1>1, <1>5, <2>1 DEF Over
<1>6. ASSUME Over, i = Len(put)
      PROVE  ~open /\ S!IsStrictPrefix(put[i], Data(i)) /\ ~HasLength /\ ~IsWhole(put[i])
  <2>1. ~open /\ S!IsStrictPrefix(put[i], Data(i)) /\ ~HasLength
    BY <1>1, <1>6, OverHasNoLength DEF Over
  <2>2. Data(i) \in Seq(Bytes) /\ Len(Data(i)) = 2 /\ put[i] \in Seq(Bytes)
    BY <1>1, <1>2, Datum DEF StreamTypes
  <2>3. ASSUME Len(put[i]) = 2 PROVE FALSE
    <3> DEFINE s == put[i]
               t == Data(i)
    <3>1. s \in Seq(Bytes) /\ t \in Seq(Bytes) /\ Len(s) = 2 /\ Len(t) = 2
      BY <2>2, <2>3
    <3>2. SubSeq(s, 1, Len(s)) = SubSeq(t, 1, Len(s)) /\ s # t
      BY <2>1 DEF S!IsStrictPrefix, S!IsPrefix
    <3> HIDE DEF s, t
    <3>3. SubSeq(s, 1, Len(s)) = s /\ SubSeq(t, 1, Len(t)) = t
      BY <3>1, SubSeqFull
    <3> QED
      BY <3>1, <3>2, <3>3
  <2> QED
    BY <2>1, <2>3 DEF IsWhole
<1> QED
  BY <1>3, <1>4, <1>5, <1>6 DEF StreamInv

\* A length is never read from the data of an event.
LEMMA Intact == StreamInv => EventsIntact
<1> SUFFICES ASSUME StreamInv PROVE EventsIntact
  OBVIOUS
<1>1. \A i \in 1 .. Len(put) :
         \/ i <= Len(sent) /\ put[i] = Data(i)
         \/ ~open /\ i = Len(put) /\ S!IsStrictPrefix(put[i], Data(i))
  BY WhatIsHandedOn
<1>2. HasLength => \A i \in 1 .. Len(Line) : Line[i].kind = "digit"
  <2>1. CASE Over
    BY <2>1, OverHasNoLength DEF StreamInv
  <2>2. ASSUME NEW o \in 0 .. Width - 2, Reads(o), HasLength
        PROVE  \A i \in 1 .. Len(Line) : Line[i].kind = "digit"
    <3>1. o \in Nat
      BY WidthType
    <3>2. Line = Numeral(Len(put) + 1)
      BY <2>2, <3>1, LineOf DEF StreamInv, Reads
    <3> QED
      BY <3>2, Numeric
  <2> QED
    BY <2>1, <2>2 DEF StreamInv
<1> QED
  BY <1>1, <1>2 DEF EventsIntact

-----------------------------------------------------------------------------
(* The driver and the cluster.                                             *)

\* What the threads rely on: no watch is open before the thread reads it, and what was not
\* counted yet is still to be waited for.
Driver ==
    /\ watcher # "watch" => StreamInit
    /\ pc = "start" => watcher = "off"
    /\ case.target <= MaxPods
    /\ case.checker \in {"none", "deletion"} => case.command = "scale"
    /\ case.command \in {"none", "scale"} => picked = Nothing
    /\ pc \in {"start", "command", "kill"} => taken = 0 /\ counted = <<>> /\ end = 0
    /\ pc \in {"start", "command"} => picked = Nothing
    /\ case.command = "killpod" => picked.nodes = {}
    /\ pc = "process" => left > 0
    /\ pc \in {"stop", "done"} => left = 0
    /\ pc \in {"process", "stop", "done"} /\ case.command \in {"scale", "killpod"} =>
          left + Len(counted) = case.target
    /\ pc = "command" => case.command # "none"
    /\ pc = "kill" => case.command \in {"killpod", "killnode"}

\* A pod of which a DELETED event was sent is gone, and there is one such event of it.
IsDeletion(e) == e.type = "DELETED"

EventsTrue ==
    /\ \A i \in 1 .. Len(sent) : IsDeletion(sent[i]) => pods[sent[i].pod].is = "gone"
    /\ \A i, j \in 1 .. Len(sent) :
          IsDeletion(sent[i]) /\ IsDeletion(sent[j]) /\ sent[i].pod = sent[j].pod => i = j

Counts ==
    /\ Counted = Matching \cap WholeTaken
    /\ \A i \in Counted : sent[i].stamp <= end
    /\ IF counted = <<>> THEN end = 0 ELSE \E i \in Counted : sent[i].stamp = end

\* No event is counted twice.
CountedOnce == \A i, j \in 1 .. Len(counted) : counted[i] = counted[j] => i = j

\* NodeComesBack, and what ended a test that does not bring the node back.
Back ==
    /\ pc \in {"process", "stop"} /\ ~mishap => picked.nodes \subseteq nodes \cup definition
    /\ pc = "done" /\ ~mishap => picked.nodes \subseteq nodes
    /\ pc = "dead" /\ ~mishap =>
          \/ picked.nodes \subseteq nodes
          \/ ~open /\ taken = Len(put) /\ put # <<>> /\ ~IsWhole(put[taken])

IInv == TypeOK /\ StreamInv /\ Driver /\ EventsTrue /\ Counts /\ CountedOnce /\ Back

Stream == Watch \/ WatchEnds \/ ReadEvents
Main == Start \/ Command \/ CommandFails \/ ProcessEvent \/ Stop

\* Three that take turns, and what each leaves alone.
LEMMA Kinds ==
    ASSUME [Next]_vars
    PROVE  \/ UNCHANGED vars
           \/ Cluster /\ UNCHANGED <<nodes, replicas, watcher, mainVars>>
           \/ Stream /\ UNCHANGED <<clusterVars, mainVars>>
           \/ WatchFails /\ UNCHANGED <<streamVars, clusterVars, mainVars>>
           \/ Main /\ UNCHANGED <<streamVars, pods, clock, case>>
<1>1. ASSUME Cluster PROVE UNCHANGED <<nodes, replicas, watcher, mainVars>>
  BY <1>1 DEF Cluster, Tick, Run, Ready, Restart, StopPod, Gone, MaySend
<1>2. ASSUME Stream PROVE UNCHANGED <<clusterVars, mainVars>>
  BY <1>2 DEF Stream, Watch, WatchEnds, ReadEvents
<1>3. ASSUME WatchFails PROVE UNCHANGED <<streamVars, clusterVars, mainVars>>
  BY <1>3 DEF WatchFails
<1>4. ASSUME Main PROVE UNCHANGED <<streamVars, pods, clock, case>>
  BY <1>4 DEF Main, Start, Command, Scale, Gather, GatherNothing, KillPods, KillNode, CommandFails, ProcessEvent,
              Stop, Await, clusterVars
<1> QED
  BY <1>1, <1>2, <1>3, <1>4 DEF Next, Stream, Main

LEMMA PodSteps ==
    ASSUME TypeOK, StreamInv, NEW p \in PodNames, Run(p) \/ Ready(p) \/ Restart(p) \/ StopPod(p) \/ Gone(p)
    PROVE  /\ pods' \in [PodNames -> Pod] /\ clock' = clock
           /\ UNCHANGED streamVars \/ \E e \in Events : Send(e)
<1>1. /\ pods[p] \in Pod /\ clock \in 0 .. MaxClock /\ nodes \in SUBSET Nodes
      /\ pods \in [PodNames -> Pod]
  BY DEF TypeOK
<1>9. clock \in Stamps /\ clock + Grace \in Stamps
  BY <1>1, PerfAssumption DEF Stamps
<1>2. ASSUME NEW new \in Pod, Becomes(p, new)
      PROVE  pods' \in [PodNames -> Pod] /\ pods'[p] = new
  BY <1>1, <1>2 DEF Becomes
<1>3. \A full \in BOOLEAN : Deleted(p, full) \in Events
  BY <1>1 DEF Deleted, Events, Pod
<1>4. ASSUME NEW new \in Pod, Becomes(p, new), NEW full \in BOOLEAN
      PROVE  Modified(p, full) \in Events
  BY <1>2, <1>4 DEF Modified, Events, Pod
<1>5. CASE Run(p)
  <2>1. PICK h \in nodes :
           Becomes(p, [pods[p] EXCEPT !.is = "running", !.started = clock, !.host = h])
    BY <1>5 DEF Run
  <2>2. [pods[p] EXCEPT !.is = "running", !.started = clock, !.host = h] \in Pod
    BY <1>1, <1>9 DEF Pod
  <2> QED
    BY <1>2, <1>5, <2>1, <2>2 DEF Run, MaySend
<1>6. CASE Ready(p)
  <2>1. [pods[p] EXCEPT !.is = "ready"] \in Pod
    BY <1>1 DEF Pod
  <2> QED
    BY <1>2, <1>4, <1>6, <2>1 DEF Ready, MaySend
<1>10. CASE Restart(p)
  <2>1. [pods[p] EXCEPT !.is = "running", !.started = clock] \in Pod
    BY <1>1, <1>9 DEF Pod
  <2> QED
    BY <1>2, <1>10, <2>1 DEF Restart, MaySend
<1>7. CASE StopPod(p)
  <2>1. [pods[p] EXCEPT !.is = "stopping", !.deleted = clock + Grace] \in Pod
    BY <1>1, <1>9 DEF Pod
  <2>2. (pods[p].is = "ready") \in BOOLEAN
    OBVIOUS
  <2>3. Becomes(p, [pods[p] EXCEPT !.is = "stopping", !.deleted = clock + Grace])
        /\ Send(Modified(p, pods[p].is = "ready")) /\ clock' = clock
    BY <1>7 DEF StopPod, MaySend
  <2> QED
    BY <1>2, <1>4, <2>1, <2>2, <2>3
<1>8. CASE Gone(p)
  <2>1. [pods[p] EXCEPT !.is = "gone"] \in Pod
    BY <1>1 DEF Pod
  <2> QED
    BY <1>2, <1>3, <1>8, <2>1 DEF Gone, MaySend
<1> QED
  BY <1>5, <1>6, <1>7, <1>8, <1>10

LEMMA StreamSteps ==
    ASSUME TypeOK, StreamInv, Driver, [Next]_vars
    PROVE  StreamInv'
<1>1. CASE UNCHANGED streamVars
  BY <1>1, StreamStays
<1>2. CASE Cluster
  <2>1. CASE Tick
    BY <2>1, StreamStays DEF Tick
  <2>2. ASSUME NEW p \in PodNames, Run(p) \/ Ready(p) \/ Restart(p) \/ StopPod(p) \/ Gone(p)
        PROVE  StreamInv'
    BY <2>2, PodSteps, StreamStays, StreamSends
  <2> QED
    BY <1>2, <2>1, <2>2 DEF Cluster
<1>3. CASE Stream
  <2>1. CASE Watch
    BY <2>1, StreamOpens DEF Watch, Driver
  <2>2. CASE WatchEnds
    BY <2>2, StreamEnds DEF WatchEnds
  <2>3. CASE ReadEvents
    BY <2>3, StreamReads DEF ReadEvents
  <2> QED
    BY <1>3, <2>1, <2>2, <2>3 DEF Stream
<1> QED
  BY <1>1, <1>2, <1>3, Kinds DEF vars

\* What was sent and what was handed on stays, and a watch that ended does not begin again.
LEMMA Grows ==
    ASSUME TypeOK, StreamInv, Driver, [Next]_vars
    PROVE  /\ Len(sent) \in Nat /\ Len(sent') \in Nat /\ Len(sent) <= Len(sent')
           /\ Len(put) \in Nat /\ Len(put') \in Nat /\ Len(put) <= Len(put')
           /\ \A i \in 1 .. Len(sent) : sent'[i] = sent[i]
           /\ \A i \in 1 .. Len(put) : put'[i] = put[i]
           /\ put # <<>> /\ ~open => ~open'
<1> DEFINE Goal ==
              /\ Len(sent) <= Len(sent') /\ Len(put) <= Len(put')
              /\ \A i \in 1 .. Len(sent) : sent'[i] = sent[i]
              /\ \A i \in 1 .. Len(put) : put'[i] = put[i]
              /\ put # <<>> /\ ~open => ~open'
<1>1. /\ sent \in Seq(Events) /\ put \in Seq(Seq(Bytes)) /\ wire \in Seq(Bytes)
      /\ Len(sent) \in Nat /\ Len(put) \in Nat
  BY DEF StreamInv, StreamTypes
<1>2. Len(sent') \in Nat /\ Len(put') \in Nat
  BY StreamSteps DEF StreamInv, StreamTypes
<1>3. ASSUME sent' = sent, put' = put, open' = open \/ ~open' \/ put = <<>>
      PROVE  Goal
  BY <1>1, <1>3
<1>4. ASSUME NEW e \in Events, Send(e)
      PROVE  Goal
  <2>1. CASE ~open
    BY <1>3, <1>4, <2>1 DEF Send, streamVars
  <2>2. CASE open
    <3>1. sent' = Append(sent, e) /\ put' = put /\ open
      BY <1>4, <2>2 DEF Send
    <3> QED
      BY <1>1, <3>1
  <2> QED
    BY <2>1, <2>2
<1>5. CASE UNCHANGED streamVars
  BY <1>3, <1>5 DEF streamVars
<1>6. CASE Cluster
  <2>1. CASE Tick
    BY <1>5, <2>1 DEF Tick
  <2>2. ASSUME NEW p \in PodNames, Run(p) \/ Ready(p) \/ Restart(p) \/ StopPod(p) \/ Gone(p)
        PROVE  Goal
    BY <1>4, <1>5, <2>2, PodSteps
  <2> QED
    BY <1>6, <2>1, <2>2 DEF Cluster
<1>7. CASE Stream
  <2>1. CASE Watch
    BY <1>3, <2>1 DEF Watch, Driver, StreamInit, Open
  <2>2. CASE WatchEnds
    BY <1>3, <2>2 DEF WatchEnds, EndStream
  <2>3. CASE ReadByte
    BY <1>3, <2>3 DEF ReadByte
  <2>4. CASE ReadChunk
    <3>1. PICK c : put' = Append(put, c)
      BY <2>4 DEF ReadChunk
    <3>2. sent' = sent /\ open' = open
      BY <2>4 DEF ReadChunk
    <3>3. Len(put') = Len(put) + 1 /\ \A i \in 1 .. Len(put) : put'[i] = put[i]
      BY <1>1, <3>1
    <3> QED
      BY <1>1, <3>2, <3>3
  <2> QED
    BY <1>7, <2>1, <2>2, <2>3, <2>4 DEF Stream, ReadEvents
<1>8. Goal
  BY <1>5, <1>6, <1>7, Kinds DEF vars
<1> QED
  BY <1>1, <1>2, <1>8

LEMMA PodsToCount ==
    ASSUME NEW A \in SUBSET PodNames
    PROVE  Cardinality(A) \in 0 .. MaxPods
<1>1. IsFiniteSet(PodNames) /\ Cardinality(PodNames) = MaxPods
  BY PerfAssumption, FS_Interval DEF PodNames
<1> QED
  BY <1>1, PerfAssumption, FS_Subset, FS_CardinalityType

\* What processEvents() looks at.
LEMMA EventTaken ==
    ASSUME TypeOK, StreamInv, EventQueued
    PROVE  /\ taken + 1 \in 1 .. Len(put)
           /\ IsWhole(put[taken + 1]) => taken + 1 \in 1 .. Len(sent) /\ sent[taken + 1] \in Events
<1>1. taken + 1 \in 1 .. Len(put) /\ Len(sent) \in Nat /\ sent \in Seq(Events)
      /\ taken \in Nat
  <2>1. Len(put) \in Nat /\ taken \in 0 .. Len(put)
    BY DEF TypeOK, StreamInv, StreamTypes
  <2> QED
    BY <2>1 DEF EventQueued, StreamInv, StreamTypes
<1>2. IsWhole(put[taken + 1]) => taken + 1 <= Len(sent)
  BY <1>1, WhatIsHandedOn
<1> QED
  BY <1>1, <1>2

LEMMA WiderSeq ==
    ASSUME NEW m \in Nat, NEW n \in Nat, m <= n, NEW s \in Seq(1 .. m)
    PROVE  s \in Seq(1 .. n)
<1>1. 1 .. m \subseteq 1 .. n
  OBVIOUS
<1> QED
  BY <1>1

MainTypes ==
    /\ nodes \in SUBSET Nodes /\ replicas \in 0 .. MaxPods
    /\ watcher \in {"off", "connect", "watch", "dead"}
    /\ pc \in {"start", "command", "kill", "process", "stop", "done", "dead"}
    /\ picked.pods \in SUBSET PodNames /\ picked.nodes \in SUBSET Nodes
    /\ definition \in SUBSET Nodes /\ mishap \in BOOLEAN
    /\ left \in 0 .. MaxPods /\ end \in Stamps
    /\ taken \in 0 .. Len(put) /\ counted \in Seq(1 .. taken)

LEMMA MainTypesStep ==
    ASSUME TypeOK, StreamInv, Driver, Main, UNCHANGED <<streamVars, pods, clock, case>>
    PROVE  MainTypes'
<1>1. /\ MainTypes /\ put' = put /\ sent' = sent /\ case \in Cases
      /\ Len(put) \in Nat /\ taken \in Nat
  BY DEF TypeOK, MainTypes, streamVars, StreamInv, StreamTypes
<1>2. case.target \in 0 .. MaxPods /\ case.replicas \in 0 .. MaxPods /\ 0 \in 0 .. MaxPods
  BY <1>1, PerfAssumption DEF Cases, Driver
<1>3. Nothing.pods = {} /\ Nothing.nodes = {}
  BY DEF Nothing
<1>4. ASSUME NEW target \in 0 .. MaxPods, Await(target),
             nodes' \in SUBSET Nodes, replicas' \in 0 .. MaxPods,
             definition' \in SUBSET Nodes, mishap' \in BOOLEAN,
             picked' = picked \/ picked' = Nothing
      PROVE  MainTypes'
  <2>1. picked'.pods \in SUBSET PodNames /\ picked'.nodes \in SUBSET Nodes
    BY <1>1, <1>3, <1>4 DEF MainTypes
  <2> QED
    BY <1>1, <1>4, <2>1 DEF MainTypes, Await
<1>5. CASE Start
  BY <1>1, <1>5 DEF Start, MainTypes, clusterVars
<1>6. CASE Command
  <2>1. CASE Scale
    BY <1>1, <1>2, <1>4, <2>1 DEF Scale, MainTypes
  <2>2. CASE Gather
    <3>1. picked'.pods \in SUBSET PodNames /\ picked'.nodes \in SUBSET Nodes
      <4>1. CASE \E p \in Live : picked' = [Nothing EXCEPT !.pods = {p}]
        BY <1>3, <4>1 DEF Live, Nothing
      <4>2. CASE \E n \in nodes : picked' = [Nothing EXCEPT !.nodes = {n}]
        BY <1>1, <1>3, <4>2 DEF Nothing, MainTypes
      <4> QED
        BY <2>2, <4>1, <4>2 DEF Gather
    <3>2. left' \in 0 .. MaxPods
      <4>1. {p \in Live : pods[p].host \in picked'.nodes} \in SUBSET PodNames
        BY DEF Live
      <4> QED
        BY <2>2, <4>1, PodsToCount DEF Gather
    <3> QED
      BY <1>1, <2>2, <3>1, <3>2 DEF Gather, MainTypes, clusterVars
  <2>3. CASE GatherNothing
    BY <1>1, <1>2, <1>4, <2>3 DEF GatherNothing, MainTypes
  <2>4. CASE KillPods
    BY <1>1, <1>2, <1>4, <2>4 DEF KillPods, MainTypes
  <2>5. CASE KillNode
    <3>1. /\ nodes' \in SUBSET Nodes /\ replicas' = replicas /\ picked' = picked
          /\ definition' \in SUBSET Nodes /\ mishap' \in BOOLEAN
      BY <1>1, <2>5 DEF KillNode, MainTypes
    <3>2. Await(left) \/ Await(case.target)
      BY <2>5 DEF KillNode
    <3> QED
      BY <1>1, <1>2, <1>4, <3>1, <3>2 DEF MainTypes
  <2> QED
    BY <1>6, <2>1, <2>2, <2>3, <2>4, <2>5 DEF Command
<1>7. CASE CommandFails
  <2>1. /\ picked' = Nothing /\ nodes' = nodes /\ replicas' = replicas
        /\ definition' = definition /\ mishap' = mishap
        /\ (Await(case.target) \/ Await(0))
    BY <1>7 DEF CommandFails
  <2> QED
    BY <1>1, <1>2, <1>4, <2>1 DEF MainTypes
<1>8. CASE ProcessEvent
  <2>1. /\ EventQueued /\ taken' = taken + 1 /\ left \in 1 .. MaxPods /\ end \in Stamps
        /\ pc = "process" /\ counted \in Seq(1 .. taken)
    BY <1>1, <1>8 DEF ProcessEvent, Driver, MainTypes
  <2>2. taken' \in 0 .. Len(put') /\ taken' \in Nat /\ counted \in Seq(1 .. taken')
    <3>1. taken + 1 \in 0 .. Len(put) /\ taken + 1 \in Nat
      BY <1>1, <2>1, EventTaken
    <3>2. counted \in Seq(1 .. (taken + 1))
      BY <1>1, <2>1, <3>1, WiderSeq
    <3> QED
      BY <1>1, <2>1, <3>1, <3>2
  <2>3. /\ left' \in 0 .. MaxPods /\ end' \in Stamps
        /\ pc' \in {"process", "stop", "dead"} /\ counted' \in Seq(1 .. taken')
    <3>1. CASE /\ IsWhole(put[taken']) /\ Matches(sent[taken'])
               /\ left' = left - 1 /\ end' = LaterOf(sent[taken'].stamp)
               /\ counted' = Append(counted, taken')
               /\ pc' = AfterRecord(left')
      <4>1. sent[taken'].stamp \in Stamps
        BY <2>1, <3>1, EventTaken DEF Events
      <4>2. end' \in Stamps
        BY <2>1, <3>1, <4>1 DEF LaterOf
      <4>3. taken' \in 1 .. taken'
        BY <1>1, <2>1
      <4>4. counted' \in Seq(1 .. taken')
        BY <2>2, <3>1, <4>3
      <4>5. pc' \in {"process", "stop"}
        BY <3>1 DEF AfterRecord
      <4>6. left' \in 0 .. MaxPods
        <5>1. left' = left - 1
          BY <3>1
        <5> QED
          BY <2>1, <5>1, PerfAssumption
      <4> QED
        BY <4>2, <4>4, <4>5, <4>6
    <3>2. CASE UNCHANGED <<left, end, counted>> /\ (pc' = pc \/ pc' = "dead")
      BY <2>1, <2>2, <3>2
    <3> QED
      BY <1>8, <3>1, <3>2 DEF ProcessEvent
  <2>4. UNCHANGED <<nodes, replicas, watcher, picked, definition, mishap>>
    BY <1>8 DEF ProcessEvent, clusterVars
  <2> QED
    BY <1>1, <2>2, <2>3, <2>4 DEF MainTypes
<1>9. CASE Stop
  <2>1. /\ nodes' \in SUBSET Nodes /\ mishap' \in BOOLEAN /\ pc' = "done"
        /\ UNCHANGED <<replicas, watcher, picked, definition, left, taken, counted, end>>
    BY <1>1, <1>9 DEF Stop, Cleared, MainTypes
  <2> QED
    BY <1>1, <2>1 DEF MainTypes
<1> QED
  BY <1>5, <1>6, <1>7, <1>8, <1>9 DEF Main

LEMMA TypesStep ==
    ASSUME TypeOK, StreamInv, Driver, [Next]_vars
    PROVE  TypeOK'
<1>1. sent' \in Seq(Events)
  BY StreamSteps DEF StreamInv, StreamTypes
<1>2. /\ case \in Cases /\ pods \in [PodNames -> Pod] /\ clock \in 0 .. MaxClock /\ MainTypes
      /\ taken \in Nat /\ Len(put) \in Nat /\ Len(put') \in Nat /\ Len(put) <= Len(put')
  BY Grows DEF TypeOK, MainTypes
<1>3. taken \in 0 .. Len(put')
  BY <1>2 DEF MainTypes
<1>4. CASE UNCHANGED vars
  BY <1>1, <1>2, <1>3, <1>4 DEF TypeOK, vars, clusterVars, mainVars, MainTypes
<1>5. CASE Cluster /\ UNCHANGED <<nodes, replicas, watcher, mainVars>>
  <2>1. pods' \in [PodNames -> Pod] /\ clock' \in 0 .. MaxClock
    <3>1. CASE Tick
      BY <1>2, <3>1, PerfAssumption DEF Tick
    <3>2. ASSUME NEW p \in PodNames, Run(p) \/ Ready(p) \/ Restart(p) \/ StopPod(p) \/ Gone(p)
          PROVE  pods' \in [PodNames -> Pod] /\ clock' \in 0 .. MaxClock
      BY <1>2, <3>2, PodSteps
    <3> QED
      BY <1>5, <3>1, <3>2 DEF Cluster
  <2> QED
    BY <1>1, <1>2, <1>3, <1>5, <2>1 DEF TypeOK, MainTypes, mainVars
<1>6. CASE Stream /\ UNCHANGED <<clusterVars, mainVars>>
  <2>1. watcher' \in {"off", "connect", "watch", "dead"}
    BY <1>2, <1>6 DEF Stream, Watch, WatchEnds, ReadEvents, MainTypes
  <2> QED
    BY <1>1, <1>2, <1>3, <1>6, <2>1 DEF TypeOK, MainTypes, clusterVars, mainVars
<1>7. CASE WatchFails /\ UNCHANGED <<streamVars, clusterVars, mainVars>>
  <2>1. watcher' = "dead"
    BY <1>7 DEF WatchFails
  <2> QED
    BY <1>1, <1>2, <1>3, <1>7, <2>1 DEF TypeOK, MainTypes, clusterVars, mainVars
<1>8. CASE Main /\ UNCHANGED <<streamVars, pods, clock, case>>
  <2>1. MainTypes'
    BY <1>8, MainTypesStep
  <2> QED
    BY <1>1, <1>2, <1>8, <2>1 DEF TypeOK, MainTypes
<1> QED
  BY <1>4, <1>5, <1>6, <1>7, <1>8, Kinds

WatchInv == (watcher # "watch" => StreamInit) /\ (pc = "start" => watcher = "off")

LEMMA WatchStep ==
    ASSUME TypeOK, StreamInv, Driver, [Next]_vars
    PROVE  WatchInv'
<1>1. WatchInv
  BY DEF Driver, WatchInv
<1>2. CASE UNCHANGED <<streamVars, watcher, pc>>
  BY <1>1, <1>2 DEF WatchInv, streamVars, StreamInit
<1>3. CASE Cluster /\ UNCHANGED <<nodes, replicas, watcher, mainVars>>
  <2>1. ASSUME StreamInit PROVE UNCHANGED streamVars
    <3>1. ASSUME NEW e, Send(e) PROVE UNCHANGED streamVars
      BY <2>1, <3>1 DEF StreamInit, Send
    <3>2. CASE Tick
      BY <3>2 DEF Tick
    <3>3. ASSUME NEW p \in PodNames, Run(p) \/ Ready(p) \/ Restart(p) \/ StopPod(p) \/ Gone(p)
          PROVE  UNCHANGED streamVars
      BY <3>1, <3>3, PodSteps
    <3> QED
      BY <1>3, <3>2, <3>3 DEF Cluster
  <2>2. watcher' = watcher /\ pc' = pc
    BY <1>3 DEF mainVars
  <2> QED
    BY <1>1, <2>1, <2>2 DEF WatchInv, streamVars, StreamInit
<1>4. CASE Stream /\ UNCHANGED <<clusterVars, mainVars>>
  <2>1. pc' = pc
    BY <1>4 DEF mainVars
  <2>2. CASE Watch
    BY <1>1, <2>1, <2>2 DEF Watch, WatchInv
  <2>3. CASE WatchEnds
    BY <1>1, <2>1, <2>3 DEF WatchEnds, EndStream, StreamInit, WatchInv
  <2>4. CASE ReadEvents
    BY <1>1, <2>1, <2>4 DEF ReadEvents, WatchInv
  <2> QED
    BY <1>4, <2>2, <2>3, <2>4 DEF Stream
<1>5. CASE WatchFails /\ UNCHANGED <<streamVars, clusterVars, mainVars>>
  BY <1>1, <1>5 DEF WatchFails, WatchInv, streamVars, StreamInit, mainVars
<1>6. CASE Main /\ UNCHANGED <<streamVars, pods, clock, case>>
  <2>1. StreamInit => StreamInit'
    BY <1>6 DEF streamVars, StreamInit
  <2>2. pc' # "start"
    BY <1>6 DEF Main, Start, Command, Scale, Gather, GatherNothing, KillPods, KillNode, CommandFails,
                ProcessEvent, Stop, Await, AfterRecord
  <2>3. watcher' = watcher \/ (pc = "start" /\ Start)
    BY <1>6 DEF Main, Start, Command, Scale, Gather, GatherNothing, KillPods, KillNode, CommandFails,
                ProcessEvent, Stop, Await
  <2> QED
    BY <1>1, <2>1, <2>2, <2>3 DEF WatchInv
<1> QED
  BY <1>2, <1>3, <1>4, <1>5, <1>6, Kinds DEF vars, mainVars

DriverRest ==
    /\ case.target <= MaxPods
    /\ case.checker \in {"none", "deletion"} => case.command = "scale"
    /\ case.command \in {"none", "scale"} => picked = Nothing
    /\ pc \in {"start", "command", "kill"} => taken = 0 /\ counted = <<>> /\ end = 0
    /\ pc \in {"start", "command"} => picked = Nothing
    /\ case.command = "killpod" => picked.nodes = {}
    /\ pc = "process" => left > 0
    /\ pc \in {"stop", "done"} => left = 0
    /\ pc \in {"process", "stop", "done"} /\ case.command \in {"scale", "killpod"} =>
          left + Len(counted) = case.target
    /\ pc = "command" => case.command # "none"
    /\ pc = "kill" => case.command \in {"killpod", "killnode"}

LEMMA DriverRestStep ==
    ASSUME TypeOK, StreamInv, Driver, Main, UNCHANGED <<streamVars, pods, clock, case>>
    PROVE  DriverRest'
<1>1. /\ DriverRest /\ case' = case /\ case \in Cases /\ left \in Nat /\ case.target \in Nat
      /\ counted \in Seq(1 .. taken) /\ taken \in Nat /\ Len(counted) \in Nat
      /\ case.command \in {"none", "scale", "killpod", "killnode"}
      /\ case.checker \in {"none", "creation", "deletion"}
  BY DEF TypeOK, Driver, DriverRest, Cases, StreamInv, StreamTypes
<1>2. ASSUME NEW target \in Nat, Await(target), pc \in {"command", "kill"},
             case.command \in {"scale", "killpod"} => target = case.target,
             case.command = "scale" => picked' = Nothing,
             case.command = "killpod" => picked'.nodes = {}, case.command # "none"
      PROVE  DriverRest'
  <2>1. /\ left' = target /\ taken' = 0 /\ counted' = <<>> /\ end' = 0 /\ Len(counted') = 0
        /\ pc' \in {"dead", "stop", "process"} /\ (pc' = "process" => target # 0)
        /\ pc' = "stop" => target = 0
    BY <1>1, <1>2 DEF Await, DriverRest
  <2>2. left' + Len(counted') = target /\ (pc' = "process" => left' > 0)
    BY <1>2, <2>1
  <2> QED
    BY <1>1, <1>2, <2>1, <2>2 DEF DriverRest
<1>3. CASE Start
  BY <1>1, <1>3 DEF Start, DriverRest
<1>4. CASE Command
  <2>1. CASE Scale
    BY <1>1, <1>2, <2>1 DEF Scale, DriverRest
  <2>2. CASE Gather
    BY <1>1, <2>2 DEF Gather, DriverRest, Nothing
  <2>3. CASE GatherNothing
    BY <1>1, <1>2, <2>3 DEF GatherNothing
  <2>4. CASE KillPods
    BY <1>1, <1>2, <2>4 DEF KillPods, DriverRest
  <2>5. CASE KillNode
    BY <1>1, <1>2, <2>5 DEF KillNode
  <2> QED
    BY <1>4, <2>1, <2>2, <2>3, <2>4, <2>5 DEF Command
<1>5. CASE CommandFails
  <2>1. picked' = Nothing /\ case.command # "none" /\ pc \in {"command", "kill"}
    BY <1>1, <1>5 DEF CommandFails, DriverRest
  <2>4. picked'.nodes = {}
    BY <2>1 DEF Nothing
  <2>2. CASE Await(case.target)
    BY <1>1, <1>2, <2>1, <2>2, <2>4
  <2>3. CASE case.command = "killnode" /\ Await(0)
    BY <1>1, <1>2, <2>1, <2>3, <2>4
  <2> QED
    BY <1>5, <2>2, <2>3 DEF CommandFails
<1>6. CASE ProcessEvent
  <2>1. /\ pc = "process" /\ left > 0 /\ pc' \in {"process", "stop", "dead"}
        /\ UNCHANGED <<case, picked>> /\ taken' = taken + 1
    BY <1>1, <1>6 DEF ProcessEvent, DriverRest, AfterRecord
  <2>2. CASE left' = left - 1 /\ counted' = Append(counted, taken') /\ pc' = AfterRecord(left')
    <3>1. left' + Len(counted') = left + Len(counted)
      <4> DEFINE n == taken'
      <4>1. Len(Append(counted, n)) = Len(counted) + 1
        BY <1>1
      <4> QED
        BY <1>1, <2>2, <4>1
    <3>2. (pc' = "process" => left' > 0) /\ (pc' = "stop" => left' = 0) /\ pc' # "done"
      <4>1. left - 1 = 0 \/ left - 1 > 0
        BY <1>1, <2>1
      <4> QED
        BY <2>2, <4>1 DEF AfterRecord
    <3> QED
      BY <1>1, <2>1, <3>1, <3>2 DEF DriverRest
  <2>3. CASE UNCHANGED <<left, counted>> /\ (pc' = pc \/ pc' = "dead")
    BY <1>1, <2>1, <2>3 DEF DriverRest
  <2> QED
    BY <1>6, <2>2, <2>3 DEF ProcessEvent
<1>7. CASE Stop
  BY <1>1, <1>7 DEF Stop, DriverRest
<1> QED
  BY <1>3, <1>4, <1>5, <1>6, <1>7 DEF Main

LEMMA DriverStep ==
    ASSUME TypeOK, StreamInv, Driver, [Next]_vars
    PROVE  Driver'
<1>1. DriverRest'
  <2>1. DriverRest
    BY DEF Driver, DriverRest
  <2>2. CASE UNCHANGED mainVars
    BY <2>1, <2>2 DEF DriverRest, mainVars
  <2> QED
    BY <2>2, DriverRestStep, Kinds DEF vars
<1> QED
  BY <1>1, WatchStep DEF Driver, DriverRest, WatchInv

\* A pod that is not gone yet may change, and the first DELETED event of it comes with
\* its end.
LEMMA PodTells ==
    ASSUME TypeOK, EventsTrue, sent \in Seq(Events), NEW p \in PodNames, NEW new, Becomes(p, new),
           pods[p].is # "gone",
           \/ sent' = sent
           \/ \E e \in Events : /\ sent' = Append(sent, e) /\ e.pod = p
                                /\ IsDeletion(e) => new.is = "gone"
    PROVE  EventsTrue'
<1>1. /\ pods \in [PodNames -> Pod] /\ Len(sent) \in Nat
      /\ \A i \in 1 .. Len(sent) : sent[i] \in Events /\ sent[i].pod \in PodNames
  <2>1. pods \in [PodNames -> Pod]
    BY DEF TypeOK
  <2>2. \A e \in Events : e.pod \in PodNames
    BY DEF Events
  <2>3. Len(sent) \in Nat /\ \A i \in 1 .. Len(sent) : sent[i] \in Events
    BY ElementOfSeq
  <2> QED
    BY <2>1, <2>2, <2>3
<1>2. \A q \in PodNames : pods'[q] = IF q = p THEN new ELSE pods[q]
  BY <1>1 DEF Becomes
<1>3. \A i \in 1 .. Len(sent) : IsDeletion(sent[i]) =>
         sent[i].pod # p /\ pods'[sent[i].pod].is = "gone"
  BY <1>1, <1>2 DEF EventsTrue
<1>4. CASE sent' = sent
  BY <1>3, <1>4 DEF EventsTrue
<1>5. ASSUME NEW e \in Events, sent' = Append(sent, e), e.pod = p, IsDeletion(e) => new.is = "gone"
      PROVE  EventsTrue'
  <2> DEFINE n == Len(sent) + 1
  <2>1. /\ Len(sent') = n /\ sent'[n] = e
        /\ \A i \in 1 .. Len(sent) : sent'[i] = sent[i]
        /\ \A i \in 1 .. n : i = n \/ i \in 1 .. Len(sent)
    BY <1>1, <1>5
  <2> HIDE DEF n
  <2>2. \A i \in 1 .. n : IsDeletion(sent'[i]) => pods'[sent'[i].pod].is = "gone"
    BY <1>2, <1>3, <1>5, <2>1
  <2>3. \A i, j \in 1 .. n :
           IsDeletion(sent'[i]) /\ IsDeletion(sent'[j]) /\ sent'[i].pod = sent'[j].pod => i = j
    <3> SUFFICES ASSUME NEW i \in 1 .. n, NEW j \in 1 .. n, IsDeletion(sent'[i]),
                        IsDeletion(sent'[j]), sent'[i].pod = sent'[j].pod
                 PROVE  i = j
      OBVIOUS
    <3>1. CASE i = n /\ j = n
      BY <3>1
    <3>2. CASE i = n /\ j \in 1 .. Len(sent)
      BY <1>3, <1>5, <2>1, <3>2
    <3>3. CASE i \in 1 .. Len(sent) /\ j = n
      BY <1>3, <1>5, <2>1, <3>3
    <3>4. CASE i \in 1 .. Len(sent) /\ j \in 1 .. Len(sent)
      BY <2>1, <3>4 DEF EventsTrue
    <3> QED
      BY <2>1, <3>1, <3>2, <3>3, <3>4
  <2> QED
    BY <2>1, <2>2, <2>3 DEF EventsTrue
<1> QED
  BY <1>4, <1>5

LEMMA EventsStep ==
    ASSUME TypeOK, StreamInv, EventsTrue, [Next]_vars
    PROVE  EventsTrue'
<1>1. /\ sent \in Seq(Events) /\ pods \in [PodNames -> Pod]
  BY DEF TypeOK
<1>2. CASE UNCHANGED <<sent, pods>>
  BY <1>2 DEF EventsTrue
<1>3. ASSUME NEW p \in PodNames, Run(p) \/ Ready(p) \/ Restart(p) \/ StopPod(p) \/ Gone(p)
      PROVE  EventsTrue'
  <2>1. pods[p] \in Pod
    BY <1>1
  <2>2. ASSUME NEW new, Becomes(p, new), pods[p].is # "gone", sent' = sent
        PROVE  EventsTrue'
    BY <1>1, <2>2, PodTells
  <2>3. ASSUME NEW new, Becomes(p, new), pods[p].is # "gone", NEW e \in Events, Send(e), e.pod = p,
               IsDeletion(e) => new.is = "gone"
        PROVE  EventsTrue'
    <3>1. sent' = sent \/ sent' = Append(sent, e)
      BY <2>3 DEF Send, streamVars
    <3> QED
      BY <1>1, <2>2, <2>3, <3>1, PodTells
  <2>4. ASSUME NEW new, Becomes(p, new), new.started \in Stamps, NEW full \in BOOLEAN
        PROVE  /\ Modified(p, full) \in Events /\ Modified(p, full).pod = p
               /\ ~IsDeletion(Modified(p, full))
    <3>1. pods'[p] = new
      BY <1>1, <2>4 DEF Becomes
    <3> QED
      BY <2>4, <3>1 DEF Modified, Events, IsDeletion
  <2>5. CASE Run(p)
    <3>1. sent' = sent /\ pods[p].is # "gone" /\ \E new : Becomes(p, new)
      BY <2>5 DEF Run, streamVars
    <3> QED
      BY <2>2, <3>1
  <2>6. CASE Restart(p)
    <3>1. sent' = sent /\ pods[p].is # "gone" /\ \E new : Becomes(p, new)
      BY <2>6 DEF Restart, streamVars
    <3> QED
      BY <2>2, <3>1
  <2>7. CASE Ready(p)
    <3> DEFINE new == [pods[p] EXCEPT !.is = "ready"]
    <3>1. Becomes(p, new) /\ Send(Modified(p, TRUE)) /\ pods[p].is # "gone"
      BY <2>7 DEF Ready
    <3>2. new.started \in Stamps
      BY <2>1 DEF Pod
    <3> HIDE DEF new
    <3> QED
      BY <2>3, <2>4, <3>1, <3>2
  <2>8. CASE StopPod(p)
    <3> DEFINE new == [pods[p] EXCEPT !.is = "stopping", !.deleted = clock + Grace]
               ready == pods[p].is = "ready"
    <3>1. Becomes(p, new) /\ Send(Modified(p, ready)) /\ pods[p].is # "gone"
      BY <2>8 DEF StopPod, Kept, Live
    <3>2. new.started \in Stamps /\ ready \in BOOLEAN
      BY <2>1 DEF Pod
    <3> HIDE DEF new, ready
    <3> QED
      BY <2>3, <2>4, <3>1, <3>2
  <2>9. CASE Gone(p)
    <3> DEFINE new == [pods[p] EXCEPT !.is = "gone"]
    <3>1. PICK full \in BOOLEAN : Send(Deleted(p, full))
      BY <2>9 DEF Gone
    <3>2. Becomes(p, new) /\ pods[p].is # "gone" /\ new.is = "gone"
      BY <2>1, <2>9 DEF Gone, Pod
    <3>3. Deleted(p, full) \in Events /\ Deleted(p, full).pod = p
      BY <2>1 DEF Deleted, Events, Pod
    <3> HIDE DEF new
    <3> QED
      BY <2>3, <3>1, <3>2, <3>3
  <2> QED
    BY <1>3, <2>5, <2>6, <2>7, <2>8, <2>9
<1>4. CASE Cluster
  <2>1. CASE Tick
    BY <1>2, <2>1 DEF Tick, streamVars
  <2> QED
    BY <1>3, <1>4, <2>1 DEF Cluster
<1>5. CASE Stream
  <2>1. sent' = sent
    BY <1>5 DEF Stream, Watch, Open, WatchEnds, EndStream, ReadEvents, ReadByte, ReadChunk
  <2>2. pods' = pods
    BY <1>5 DEF Stream, Watch, WatchEnds, ReadEvents, clusterVars
  <2> QED
    BY <1>2, <2>1, <2>2
<1> QED
  BY <1>2, <1>4, <1>5, Kinds DEF vars, streamVars, clusterVars

LEMMA CountedOnceStep ==
    ASSUME TypeOK, StreamInv, CountedOnce, [Next]_vars
    PROVE  CountedOnce'
<1>1. counted \in Seq(1 .. taken) /\ Len(counted) \in Nat /\ taken \in Nat
  BY DEF TypeOK, StreamInv, StreamTypes
<1>2. \A i \in 1 .. Len(counted) : counted[i] \in 1 .. taken
  BY <1>1, ElementOfSeq
<1>3. CASE counted' = counted
  BY <1>3 DEF CountedOnce
<1>4. ASSUME taken' = taken + 1, counted' = Append(counted, taken')
      PROVE  CountedOnce'
  <2> DEFINE n == Len(counted) + 1
             t == taken'
  <2>1. /\ Len(counted') = n /\ counted'[n] = t
        /\ \A i \in 1 .. Len(counted) : counted'[i] = counted[i]
        /\ \A i \in 1 .. n : i = n \/ i \in 1 .. Len(counted)
    BY <1>1, <1>4
  <2>2. \A i \in 1 .. Len(counted) : counted[i] # t
    BY <1>1, <1>2, <1>4
  <2> HIDE DEF n, t
  <2> QED
    BY <2>1, <2>2 DEF CountedOnce
<1>5. ASSUME Main PROVE counted' = counted \/ (taken' = taken + 1 /\ counted' = Append(counted, taken'))
  BY <1>5 DEF Main, Start, Command, Scale, Gather, GatherNothing, KillPods, KillNode, CommandFails,
              ProcessEvent, Stop, Await
<1> QED
  BY <1>3, <1>4, <1>5, Kinds DEF vars, mainVars

\* What the queue handed over so far and the checker has to count.
Hits == {i \in 1 .. taken : IsWhole(put[i]) /\ Matches(sent[i])}

LEMMA WholeAreSent ==
    TypeOK /\ StreamInv =>
        /\ Hits = Matching \cap WholeTaken
        /\ \A i \in 1 .. taken : i \in 1 .. Len(put) /\ (IsWhole(put[i]) => i \in 1 .. Len(sent))
<1> SUFFICES ASSUME TypeOK, StreamInv
             PROVE  /\ Hits = Matching \cap WholeTaken
                    /\ \A i \in 1 .. taken :
                          i \in 1 .. Len(put) /\ (IsWhole(put[i]) => i \in 1 .. Len(sent))
  OBVIOUS
<1>1. taken \in 0 .. Len(put) /\ Len(put) \in Nat /\ Len(sent) \in Nat
  BY DEF TypeOK, StreamInv, StreamTypes
<1>2. \A i \in 1 .. taken : i \in 1 .. Len(put)
  BY <1>1
<1>3. \A i \in 1 .. Len(put) : IsWhole(put[i]) => i <= Len(sent)
  BY WhatIsHandedOn
<1>4. \A i \in 1 .. taken : IsWhole(put[i]) => i \in 1 .. Len(sent)
  BY <1>1, <1>2, <1>3
<1> QED
  BY <1>2, <1>4 DEF Hits, Matching, WholeTaken

LEMMA HitsCounted == TypeOK /\ StreamInv => Hits = Matching \cap WholeTaken
  BY WholeAreSent

LEMMA HitsCountedNext == TypeOK' /\ StreamInv' => (Hits = Matching \cap WholeTaken)'
  BY HitsCounted, PTL

\* Steps of others change nothing about the chunks that were taken.
LEMMA CountedStays ==
    ASSUME TypeOK, StreamInv, Driver, Counts, [Next]_vars, UNCHANGED <<case, taken, counted, end>>
    PROVE  Counts'
<1>1. Counted = Hits /\ Counted' = Counted
  BY WholeAreSent DEF Counts, Counted
<1>2. \A i \in 1 .. taken : i \in 1 .. Len(put) /\ (IsWhole(put[i]) => i \in 1 .. Len(sent))
  BY WholeAreSent
<1>3. /\ \A i \in 1 .. Len(put) : put'[i] = put[i]
      /\ \A i \in 1 .. Len(sent) : sent'[i] = sent[i]
  BY Grows
<1>4. \A i \in 1 .. taken :
         IsWhole(put'[i]) = IsWhole(put[i]) /\ (IsWhole(put[i]) => sent'[i] = sent[i])
  BY <1>2, <1>3
<1>5. Hits' = Hits
  BY <1>4 DEF Hits, Matches, MatchesAnyTime, CheckedType
<1>6. Hits' = (Matching \cap WholeTaken)'
  BY TypesStep, StreamSteps, HitsCountedNext
<1>7. \A i \in Counted : sent'[i] = sent[i]
  BY <1>1, <1>4 DEF Hits
<1> QED
  BY <1>1, <1>5, <1>6, <1>7 DEF Counts

LEMMA CountsStep ==
    ASSUME TypeOK, StreamInv, Driver, Counts, [Next]_vars
    PROVE  Counts'
<1>1. CASE UNCHANGED <<case, taken, counted, end>>
  BY <1>1, CountedStays
<1>2. CASE ProcessEvent /\ UNCHANGED <<streamVars, case>>
  <2> DEFINE hit == IsWhole(put[taken']) /\ Matches(sent[taken'])
  <2>1. /\ taken' = taken + 1 /\ taken \in Nat /\ put' = put /\ sent' = sent /\ EventQueued
        /\ counted \in Seq(1 .. taken) /\ Len(counted) \in Nat
    BY <1>2 DEF ProcessEvent, streamVars, TypeOK, StreamInv, StreamTypes
  <2>2. Hits' = IF hit THEN Hits \cup {taken'} ELSE Hits
    <3>1. 1 .. taken' = (1 .. taken) \cup {taken'} /\ taken' \notin 1 .. taken
      BY <2>1
    <3>2. \A i : (Matches(sent[i])') = Matches(sent[i])
      BY <1>2, <2>1 DEF Matches, MatchesAnyTime, CheckedType
    <3>3. Hits' = {i \in 1 .. taken' : IsWhole(put[i]) /\ Matches(sent[i])}
      BY <1>2, <2>1 DEF Hits, Matches, MatchesAnyTime, CheckedType
    <3> QED
      BY <3>1, <3>3 DEF Hits
  <2>3. Hits' = (Matching \cap WholeTaken)'
    BY TypesStep, StreamSteps, HitsCountedNext
  <2>4. Counted = Hits
    BY WholeAreSent DEF Counts
  <2>5. CASE hit /\ end' = LaterOf(sent[taken'].stamp) /\ counted' = Append(counted, taken')
    <3>1. Counted' = Counted \cup {taken'} /\ counted' # <<>> /\ taken' \in Counted'
      <4> DEFINE t == taken'
                 n == Len(counted)
      <4>1. /\ Len(counted') = n + 1 /\ counted'[n + 1] = t /\ n \in Nat
            /\ \A i \in 1 .. n : counted'[i] = counted[i]
        BY <2>1, <2>5
      <4>2. 1 .. n + 1 = (1 .. n) \cup {n + 1}
        BY <4>1
      <4>3. counted' # <<>>
        BY <4>1
      <4> HIDE DEF n
      <4>4. Counted' = Counted \cup {t}
        BY <4>1, <4>2 DEF Counted, n
      <4> QED
        BY <4>3, <4>4
    <3>2. sent[taken'].stamp \in Nat /\ end \in Nat
      BY <2>1, <2>5, EventTaken, PerfAssumption DEF Events, TypeOK, Stamps
    <3>3. \A i \in Counted : sent[i].stamp \in Nat
      <4>1. \A i \in Counted : i \in 1 .. Len(sent)
        BY <2>4, WholeAreSent DEF Matching
      <4>2. \A i \in 1 .. Len(sent) : sent[i].stamp \in Nat
        <5>1. sent \in Seq(Events)
          BY DEF TypeOK
        <5>2. \A i \in 1 .. Len(sent) : sent[i] \in Events
          BY <5>1, ElementOfSeq
        <5> QED
          BY <5>2, PerfAssumption DEF Events, Stamps
      <4> QED
        BY <4>1, <4>2
    <3>4. end' >= end /\ end' >= sent[taken'].stamp /\ (end' = end \/ end' = sent[taken'].stamp)
          /\ end' \in Nat
      BY <2>5, <3>2 DEF LaterOf
    <3>5. sent[taken'].stamp > 0
      BY <2>5 DEF Matches
    <3>6. \A i \in Counted' : sent'[i].stamp <= end'
      <4>1. \A i \in Counted : sent[i].stamp <= end
        BY DEF Counts
      <4>2. \A i \in Counted : sent[i].stamp <= end'
        BY <3>2, <3>3, <3>4, <4>1
      <4> QED
        BY <2>1, <3>1, <3>4, <4>2
    <3>7. \E i \in Counted' : sent'[i].stamp = end'
      <4>1. CASE end' = sent[taken'].stamp
        BY <2>1, <3>1, <4>1
      <4>2. CASE end' = end
        <5>1. CASE counted = <<>>
          BY <3>2, <3>4, <3>5, <4>2, <5>1 DEF Counts
        <5>2. CASE counted # <<>>
          BY <2>1, <3>1, <4>2, <5>2 DEF Counts
        <5> QED
          BY <5>1, <5>2
      <4> QED
        BY <3>4, <4>1, <4>2
    <3>8. Counted' = (Matching \cap WholeTaken)'
      BY <2>2, <2>3, <2>4, <2>5, <3>1
    <3> QED
      BY <3>1, <3>6, <3>7, <3>8 DEF Counts
  <2>6. CASE ~hit /\ UNCHANGED <<end, counted>>
    <3>1. Counted' = Counted
      BY <2>6 DEF Counted
    <3>2. Counted' = (Matching \cap WholeTaken)'
      BY <2>2, <2>3, <2>4, <2>6, <3>1
    <3> QED
      BY <2>1, <2>6, <3>1, <3>2 DEF Counts
  <2> QED
    BY <1>2, <2>5, <2>6 DEF ProcessEvent
<1>3. ASSUME Main, ~ProcessEvent PROVE UNCHANGED <<taken, counted, end>>
  BY <1>3 DEF Main, Start, Command, Scale, Gather, GatherNothing, KillPods, KillNode, CommandFails, Stop, Await
<1> QED
  BY <1>1, <1>2, <1>3, Kinds DEF vars, mainVars

CutOff == ~open /\ taken = Len(put) /\ put # <<>> /\ ~IsWhole(put[taken])

\* No chunk follows the one that was cut off.
LEMMA CutOffStays ==
    ASSUME TypeOK, StreamInv, Driver, CutOff, [Next]_vars, taken' = taken
    PROVE  CutOff'
<1>1. taken \in 1 .. Len(put)
  BY EmptySeq DEF CutOff, StreamInv, StreamTypes
<1>2. ~HasLength
  BY <1>1, WhatIsHandedOn DEF CutOff
<1>3. put' = put
  <2>1. CASE Cluster
    <3>1. CASE Tick
      BY <3>1 DEF Tick, streamVars
    <3>2. ASSUME NEW p \in PodNames, Run(p) \/ Ready(p) \/ Restart(p) \/ StopPod(p) \/ Gone(p)
          PROVE  put' = put
      <4>1. UNCHANGED streamVars \/ \E e \in Events : Send(e)
        BY <3>2, PodSteps
      <4> QED
        BY <4>1 DEF Send, streamVars
    <3> QED
      BY <2>1, <3>1, <3>2 DEF Cluster
  <2>2. CASE Stream
    BY <1>2, <2>2 DEF Stream, Watch, Open, WatchEnds, EndStream, ReadEvents, ReadByte, ReadChunk
  <2> QED
    BY <2>1, <2>2, Kinds DEF vars, streamVars
<1>4. ~open'
  BY Grows DEF CutOff
<1> QED
  BY <1>3, <1>4 DEF CutOff

LEMMA BackStep ==
    ASSUME TypeOK, StreamInv, Driver, Back, [Next]_vars
    PROVE  Back'
<1>1. Back = /\ pc \in {"process", "stop"} /\ ~mishap => picked.nodes \subseteq nodes \cup definition
             /\ pc = "done" /\ ~mishap => picked.nodes \subseteq nodes
             /\ pc = "dead" /\ ~mishap => picked.nodes \subseteq nodes \/ CutOff
  BY DEF Back, CutOff
<1>2. Nothing.nodes = {}
  BY DEF Nothing
<1>3. CASE UNCHANGED <<nodes, pc, picked, definition, mishap, taken>>
  <2>1. CutOff => CutOff'
    BY <1>3, CutOffStays
  <2> QED
    BY <1>1, <1>3, <2>1 DEF Back, CutOff
<1>4. CASE Start
  <2>1. picked' = Nothing
    BY <1>4 DEF Start, Driver
  <2> QED
    BY <1>2, <2>1 DEF Back
<1>5. ASSUME NEW target, Await(target), case.checker = "none" => picked' = Nothing,
             ~mishap' => picked'.nodes \subseteq nodes' \cup definition'
      PROVE  Back'
  BY <1>2, <1>5 DEF Await, Back
<1>6. CASE Command
  <2>1. CASE Scale
    BY <1>2, <1>5, <2>1 DEF Scale, Driver
  <2>2. CASE Gather
    BY <2>2 DEF Gather, Back
  <2>3. CASE GatherNothing
    BY <1>2, <1>5, <2>3 DEF GatherNothing, Driver
  <2>4. CASE KillPods
    <3>1. picked.nodes = {}
      BY <2>4 DEF KillPods, Driver
    <3> QED
      BY <1>5, <2>4, <3>1 DEF KillPods, Driver
  <2>5. CASE KillNode
    <3>1. case.checker # "none" /\ picked' = picked /\ (Await(left) \/ Await(case.target))
      BY <2>5 DEF KillNode, Driver
    <3>2. ~mishap' => definition' = picked.nodes
      BY <2>5 DEF KillNode
    <3> QED
      BY <1>5, <3>1, <3>2
  <2> QED
    BY <1>6, <2>1, <2>2, <2>3, <2>4, <2>5 DEF Command
<1>7. CASE CommandFails
  BY <1>2, <1>5, <1>7 DEF CommandFails
<1>8. CASE ProcessEvent
  <2>1. CASE pc' = "dead"
    <3>1. /\ put' = put /\ open' = open /\ taken' = taken + 1 /\ EventQueued
          /\ put[taken'] # <<>> /\ ~IsWhole(put[taken'])
      BY <1>8, <2>1 DEF ProcessEvent, streamVars, AfterRecord
    <3>2. taken' \in 1 .. Len(put)
      BY <3>1, EventTaken
    <3>3. ~open /\ taken' = Len(put)
      BY <3>1, <3>2, WhatIsHandedOn
    <3>4. put # <<>>
      BY <3>2
    <3> QED
      BY <2>1, <3>1, <3>3, <3>4 DEF Back
  <2>2. /\ pc = "process" /\ pc' \in {"process", "stop", "dead"}
        /\ UNCHANGED <<nodes, picked, definition, mishap>>
    BY <1>8 DEF ProcessEvent, AfterRecord, clusterVars
  <2> QED
    BY <2>1, <2>2 DEF Back
<1>9. CASE Stop
  BY <1>9 DEF Stop, Cleared, Back
<1>10. CASE Main
  BY <1>4, <1>6, <1>7, <1>8, <1>9, <1>10 DEF Main
<1> QED
  BY <1>3, <1>10, Kinds DEF vars, mainVars, clusterVars

-----------------------------------------------------------------------------
LEMMA Initial == Init => IInv
<1> SUFFICES ASSUME Init PROVE IInv
  OBVIOUS
<1>1. PICK n \in 0 .. MaxPods :
          /\ \E m \in n .. MaxPods : \E stop \in 0 .. Grace :
                pods = [p \in PodNames |->
                         [is |-> IF p <= n THEN "ready" ELSE IF p <= m THEN "stopping" ELSE "none",
                          started |-> 0, deleted |-> IF n < p /\ p <= m THEN stop ELSE 0,
                          host |-> Home]]
          /\ replicas = n
          /\ case \in {[command |-> "scale", checker |-> "creation",
                          replicas |-> r, target |-> r - n] : r \in n + 1 .. MaxPods}
                  \cup {[command |-> "scale", checker |-> "deletion",
                          replicas |-> r, target |-> n - r] : r \in 0 .. n - 1}
                  \cup [command : {"killpod", "killnode"}, checker : {"creation"},
                          replicas : {n} \ {MaxPods}, target : {1}]
                  \cup [command : {"scale"}, checker : {"none"},
                          replicas : {n} \ {MaxPods}, target : {1}]
                  \cup [command : {"none"}, checker : {"creation"},
                          replicas : {n} \ {MaxPods}, target : {1}]
  BY DEF Init
<1>2. /\ StreamInit /\ clock = 0 /\ watcher = "off" /\ pc = "start" /\ picked = Nothing
      /\ left = 0 /\ taken = 0 /\ counted = <<>> /\ end = 0 /\ mishap = FALSE
      /\ definition \in IF case.command = "killnode" THEN {{}} \cup {{h} : h \in Nodes} ELSE {{}}
      /\ nodes \in IF case.command = "killnode" THEN {Nodes, {Home}} ELSE {{Home}}
  BY DEF Init
<1>3. Home \in Nodes
  BY PerfAssumption DEF Home
<1>4. n \in Nat /\ n <= MaxPods /\ MaxPods \in Nat /\ (n # MaxPods => n + 1 <= MaxPods)
  BY PerfAssumption
<1> DEFINE Known == /\ case \in Cases /\ case.target <= MaxPods
                    /\ case.checker \in {"none", "deletion"} => case.command = "scale"
<1>5. Known
  <2>1. ASSUME NEW r \in n + 1 .. MaxPods,
               case = [command |-> "scale", checker |-> "creation", replicas |-> r, target |-> r - n]
        PROVE  Known
    <3>1. r - n \in Nat /\ r - n <= MaxPods /\ r \in 0 .. MaxPods
      BY <1>4
    <3> QED
      BY <2>1, <3>1 DEF Cases
  <2>2. ASSUME NEW r \in 0 .. n - 1,
               case = [command |-> "scale", checker |-> "deletion", replicas |-> r, target |-> n - r]
        PROVE  Known
    <3>1. n - r \in Nat /\ n - r <= MaxPods /\ r \in 0 .. MaxPods
      BY <1>4
    <3> QED
      BY <2>2, <3>1 DEF Cases
  <2>3. ASSUME \/ case \in [command : {"killpod", "killnode"}, checker : {"creation"},
                              replicas : {n} \ {MaxPods}, target : {1}]
               \/ case \in [command : {"scale"}, checker : {"none"},
                              replicas : {n} \ {MaxPods}, target : {1}]
               \/ case \in [command : {"none"}, checker : {"creation"},
                              replicas : {n} \ {MaxPods}, target : {1}]
        PROVE  Known
    <3>1. n \in 0 .. MaxPods /\ 1 <= MaxPods /\ 1 \in Nat
      BY <1>4, <2>3
    <3> QED
      BY <2>3, <3>1 DEF Cases
  <2> QED
    BY <1>1, <2>1, <2>2, <2>3
<1>6. pods \in [PodNames -> Pod]
  <2>1. PICK m \in n .. MaxPods, stop \in 0 .. Grace :
           pods = [p \in PodNames |->
                    [is |-> IF p <= n THEN "ready" ELSE IF p <= m THEN "stopping" ELSE "none",
                     started |-> 0, deleted |-> IF n < p /\ p <= m THEN stop ELSE 0,
                     host |-> Home]]
    BY <1>1
  <2>2. 0 \in Stamps /\ stop \in Stamps
    BY PerfAssumption DEF Stamps
  <2> QED
    BY <1>3, <2>1, <2>2 DEF Pod
<1>7. TypeOK
  <2>1. nodes \in SUBSET Nodes /\ definition \in SUBSET Nodes /\ mishap \in BOOLEAN
    BY <1>2, <1>3
  <2>2. picked.pods \in SUBSET PodNames /\ picked.nodes \in SUBSET Nodes
    BY <1>2 DEF Nothing
  <2>3. 0 \in 0 .. MaxPods /\ 0 \in 0 .. MaxClock /\ 0 \in Stamps /\ replicas \in 0 .. MaxPods
    BY <1>1, <1>4, PerfAssumption DEF Stamps
  <2>4. sent \in Seq(Events) /\ 0 \in 0 .. Len(put) /\ counted \in Seq(1 .. taken)
    BY <1>2 DEF StreamInit
  <2> QED
    BY <1>2, <1>5, <1>6, <2>1, <2>2, <2>3, <2>4 DEF TypeOK
<1>8. Driver
  BY <1>2, <1>5 DEF Driver, Nothing
<1>9. EventsTrue
  BY <1>2 DEF EventsTrue, StreamInit
<1>10. Counts
  BY <1>2 DEF Counts, Counted, Matching, WholeTaken, StreamInit
<1>12. CountedOnce
  BY <1>2 DEF CountedOnce
<1>11. Back
  BY <1>2 DEF Back
<1> QED
  BY <1>2, <1>7, <1>8, <1>9, <1>10, <1>11, <1>12, StreamStarts DEF IInv

LEMMA Inductive == IInv /\ [Next]_vars => IInv'
<1> SUFFICES ASSUME IInv, [Next]_vars PROVE IInv'
  OBVIOUS
<1>1. TypeOK /\ StreamInv /\ Driver /\ EventsTrue /\ Counts /\ CountedOnce /\ Back
  BY DEF IInv
<1>2. TypeOK' /\ StreamInv' /\ Driver'
  BY <1>1, TypesStep, StreamSteps, DriverStep
<1>3. EventsTrue' /\ Counts' /\ CountedOnce' /\ Back'
  BY <1>1, EventsStep, CountsStep, CountedOnceStep, BackStep
<1> QED
  BY <1>2, <1>3 DEF IInv

\* The inductive invariant: the stream that the watch reads, the driver, the cluster's
\* events and what the checker counts of them hold together in every state.
THEOREM Invariance == Spec => []IInv
<1>1. Init => IInv
  BY Initial
<1>2. IInv /\ [Next]_vars => IInv'
  BY Inductive
<1> QED
  BY <1>1, <1>2, PTL DEF Spec

\* TypeOK holds of case.py, the thread of watchEvents() and the cluster: "target" never
\* passes zero, and no event is taken from the queue that was not put there.
THEOREM TypeCorrect == Spec => []TypeOK
<1>1. IInv => TypeOK
  BY DEF IInv
<1> QED
  BY <1>1, Invariance, PTL

\* EventsIntact for every watch of the driver, whatever the radix of the lengths and the
\* number of events: watchEvents() puts each event into the queue once, whole and in order.
THEOREM StreamIsIntact == Spec => []EventsIntact
<1>1. IInv => EventsIntact
  BY Intact DEF IInv
<1> QED
  BY <1>1, Invariance, PTL

\* EndIsTheLast: the end_time that case.py logs is that of the last of the first events
\* that count, as many as "target", none skipped and none counted twice.
THEOREM LastIsTheEnd == Spec => []EndIsTheLast
<1>1. IInv => EndIsTheLast
  <2> SUFFICES ASSUME IInv PROVE EndIsTheLast
    OBVIOUS
  <2>1. counted # <<>> => \E i \in Counted : sent[i].stamp = end
    BY DEF IInv, Counts
  <2>2. Counted = Matching \cap WholeTaken /\ \A i \in Counted : sent[i].stamp <= end
    BY DEF IInv, Counts
  <2>3. ASSUME case.command \in {"scale", "killpod"}, left = 0, pc \in {"stop", "done"}
        PROVE  Len(counted) = case.target
    <3>1. left + Len(counted) = case.target /\ Len(counted) \in Nat
      BY <2>3 DEF IInv, Driver, TypeOK
    <3> QED
      BY <2>3, <3>1
  <2> QED
    BY <2>1, <2>2, <2>3 DEF EndIsTheLast
<1> QED
  BY <1>1, Invariance, PTL

\* As many pods are gone as DELETED events were counted: no two of them are about one pod,
\* and no event was counted twice.
LEMMA OnePodEach ==
    ASSUME IInv, case.checker = "deletion"
    PROVE  Cardinality({p \in PodNames : pods[p].is = "gone"}) >= Len(counted)
<1> DEFINE gone == {p \in PodNames : pods[p].is = "gone"}
           n == Len(counted)
           podOf == [i \in 1 .. n |-> sent[counted[i]].pod]
<1>1. /\ TypeOK /\ StreamInv /\ EventsTrue /\ Counts /\ CountedOnce
      /\ n \in Nat /\ sent \in Seq(Events)
  BY DEF IInv, TypeOK, StreamInv, StreamTypes
<1>2. \A i \in 1 .. n : counted[i] \in Matching
  BY <1>1 DEF Counts, Counted
<1>3. \A k \in Matching : k \in 1 .. Len(sent) /\ IsDeletion(sent[k])
  BY DEF Matching, Matches, MatchesAnyTime, CheckedType, IsDeletion
<1>4. \A k \in 1 .. Len(sent) : sent[k].pod \in PodNames
  <2>1. \A k \in 1 .. Len(sent) : sent[k] \in Events
    BY <1>1, ElementOfSeq
  <2> QED
    BY <2>1 DEF Events
<1>5. \A i \in 1 .. n : podOf[i] \in gone
  BY <1>1, <1>2, <1>3, <1>4 DEF EventsTrue
<1>6. \A i, j \in 1 .. n : podOf[i] = podOf[j] => i = j
  BY <1>1, <1>2, <1>3 DEF EventsTrue, CountedOnce
<1>7. IsFiniteSet(gone) /\ Cardinality(gone) \in Nat
  <2>1. IsFiniteSet(PodNames) /\ gone \in SUBSET PodNames
    BY FS_Interval, PerfAssumption DEF PodNames
  <2> QED
    BY <2>1, FS_Subset, FS_CardinalityType
<1> HIDE DEF gone, n
<1>8. IsFiniteSet(1 .. n) /\ Cardinality(1 .. n) = n
  BY <1>1, FS_Interval
<1>9. podOf \in Injection(1 .. n, gone)
  BY <1>5, <1>6 DEF Injection, IsInjective
<1>10. n <= Cardinality(gone)
  BY <1>7, <1>8, <1>9, FS_Injection
<1> QED
  BY <1>1, <1>7, <1>10 DEF gone, n

\* DeletedPodsAreGone: for any cluster, whatever else happens to the pods, a test with
\* checkDeletionEvent() ends only when as many pods are gone as it waited for.
THEOREM EndedTestsDeleted == Spec => []DeletedPodsAreGone
<1>1. IInv => DeletedPodsAreGone
  <2> SUFFICES ASSUME IInv, case.checker = "deletion", pc \in {"stop", "done"}
               PROVE  Cardinality({p \in PodNames : pods[p].is = "gone"}) >= case.target
    BY DEF DeletedPodsAreGone
  <2>1. left = 0 /\ left + Len(counted) = case.target /\ Len(counted) \in Nat
    BY DEF IInv, Driver, TypeOK
  <2> QED
    BY <2>1, OnePodEach
<1> QED
  BY <1>1, Invariance, PTL

\* NodeComesBack: the node that killnode.py took away is there again after the test, unless
\* killnode.py or clear_command failed, or the part of an event, the last of a watch that
\* ended, made json.loads() raise.
THEOREM NodeIsThereAgain == Spec => []NodeComesBack
<1>1. IInv => NodeComesBack
  BY DEF IInv, Back, NodeComesBack
<1> QED
  BY <1>1, Invariance, PTL
=============================================================================
