------------------------- MODULE UperSequenceProofs -------------------------
(***************************************************************************)
(* For every extensible type, all versions of it and every width of octet: *)
(* the receiver is in step with the sender, and gets of every value that   *)
(* arrives whole what its version understands.                             *)
(***************************************************************************)
EXTENDS UperSequence, Induction, SequenceTheorems

-----------------------------------------------------------------------------
(***************************************************************************)
(* Numbers and their bits.                                                 *)
(***************************************************************************)
\* Quotient and remainder are the only numbers that divide.
LEMMA DivModUnique ==
  ASSUME NEW a \in Nat, NEW p \in Nat, p > 0, NEW q \in Nat, NEW r \in 0 .. p - 1, a = p * q + r
  PROVE  a \div p = q /\ a % p = r
<1> DEFINE s == a \div p
           t == a % p
<1>1. s \in Int /\ t \in 0 .. p - 1 /\ a = p * s + t
  OBVIOUS
<1> HIDE DEF s, t
<1>2. p * (s - q) = r - t
  BY <1>1
<1>3. s - q > 0 => p * (s - q) >= p
  BY <1>1
<1>4. s - q < 0 => p * (s - q) <= -p
  BY <1>1
<1>5. s = q
  BY <1>1, <1>2, <1>3, <1>4
<1> QED BY <1>1, <1>5 DEF s, t

\* A power of two is a positive number, and twice the one before.
LEMMA Power ==
  ASSUME NEW k \in Nat
  PROVE  2^k \in Nat /\ 2^k > 0 /\ 2^(k + 1) = 2 * 2^k
<1>1. 2^0 = 1
  OBVIOUS
<1>2. \A m \in Nat : m <= k => 2^m <= 2^k /\ 2^k \in Nat
  BY PowersGrow
<1>3. 2^k \in Nat /\ 2^k > 0
  <2>1. PICK zero \in Nat : zero = 0
    OBVIOUS
  <2>2. 2^zero = 1
    BY <1>1, <2>1
  <2>3. zero <= k
    BY <2>1
  <2>4. 2^zero <= 2^k /\ 2^k \in Nat
    BY <1>2, <2>3, Zenon
  <2> QED BY <2>2, <2>4
<1> QED BY <1>3, PowerDoubles

\* Powers multiply.
LEMMA PowersMultiply ==
  ASSUME NEW a \in Nat, NEW b \in Nat
  PROVE  2^(a + b) = 2^a * 2^b
<1> DEFINE holds == {i \in Nat : 2^(a + i) = 2^a * 2^i}
<1>1. 0 \in holds
  <2>1. 2^0 = 1 /\ a + 0 = a /\ 2^a \in Nat
    BY Power
  <2> QED BY <2>1
<1>2. ASSUME NEW i \in 0 .. b - 1, i \in holds PROVE i + 1 \in holds
  <2>1. /\ 2^(a + i) = 2^a * 2^i /\ 2^(i + 1) = 2 * 2^i
        /\ 2^a \in Nat /\ 2^i \in Nat
    BY <1>2, Power
  <2>2. 2^((a + i) + 1) = 2 * 2^(a + i) /\ a + (i + 1) = (a + i) + 1
    BY Power
  <2>3. 2^(a + (i + 1)) = 2 * (2^a * 2^i)
    BY <2>1, <2>2
  <2>4. 2 * (2^a * 2^i) = 2^a * (2 * 2^i)
    BY <2>1
  <2> QED BY <2>1, <2>3, <2>4
<1> HIDE DEF holds
<1>3. \A i \in 0 .. b : i \in holds
  BY <1>1, <1>2, UpTo
<1> QED BY <1>3 DEF holds

\* A bit of a number is the parity of a quotient, and the quotient goes on from it.
LEMMA HalfQuotient ==
  ASSUME NEW n \in Nat, NEW p \in Nat, p > 0
  PROVE  /\ n \div p \in Nat /\ (n \div p) % 2 \in Bit
         /\ n \div p = 2 * (n \div (2 * p)) + ((n \div p) % 2)
<1> DEFINE s == n \div p
           t == n % p
           h == s \div 2
           b == s % 2
<1>1. s \in Nat /\ t \in 0 .. p - 1 /\ n = p * s + t
  OBVIOUS
<1>2. h \in Nat /\ b \in Bit /\ s = 2 * h + b
  BY <1>1 DEF Bit
<1> HIDE DEF s, t, h, b
<1>3. n = (2 * p) * h + (p * b + t) /\ p * b + t \in 0 .. 2 * p - 1
  <2>1. p * (2 * h + b) = p * (2 * h) + p * b
    BY <1>2 DEF Bit
  <2>2. p * (2 * h) = (2 * p) * h
    BY <1>2
  <2>3. p * b \in {0, p}
    BY <1>2 DEF Bit
  <2>4. p * b + t \in 0 .. 2 * p - 1
    BY <1>1, <2>3
  <2>5. p * s = (2 * p) * h + p * b
    BY <1>2, <2>1, <2>2
  <2>6. p * s \in Nat /\ (2 * p) * h \in Nat /\ p * b \in Nat
    BY <1>1, <1>2, <2>3
  <2>7. n = (2 * p) * h + (p * b + t)
    BY <1>1, <2>5, <2>6
  <2> QED BY <2>4, <2>7
<1>4. n \div (2 * p) = h
  <2>1. 2 * p \in Nat /\ 2 * p > 0
    OBVIOUS
  <2> QED BY <1>2, <1>3, <2>1, DivModUnique
<1> QED BY <1>1, <1>2, <1>4 DEF s, b

\* Sequences of bits with the same bits are the same.
LEMMA BitsEqual ==
  ASSUME NEW s \in Seq(Bit), NEW t \in Seq(Bit), Len(s) = Len(t),
         \A i \in 1 .. Len(s) : s[i] = t[i]
  PROVE  s = t
BY SeqEqual

\* The bits of a number.
LEMMA BitsOfType ==
  ASSUME NEW n \in Nat, NEW width \in Nat
  PROVE  /\ BitsOf(n, width) \in Seq(Bit) /\ Len(BitsOf(n, width)) = width
         /\ \A i \in 1 .. width : BitsOf(n, width)[i] = (n \div 2^(width - i)) % 2
<1>1. ASSUME NEW i \in 1 .. width PROVE (n \div 2^(width - i)) % 2 \in Bit
  <2>1. width - i \in Nat
    OBVIOUS
  <2>2. 2^(width - i) \in Nat /\ 2^(width - i) > 0
    BY <2>1, Power
  <2> QED BY <2>2, HalfQuotient
<1>2. BitsOf(n, width) \in [1 .. width -> Bit]
  BY <1>1 DEF BitsOf
<1>3. BitsOf(n, width) \in Seq(Bit)
  BY <1>2, SeqDef
<1>4. Len(BitsOf(n, width)) = width
  BY <1>2, <1>3, LenProperties
<1> QED BY <1>3, <1>4 DEF BitsOf

\* What the recursion of ValueOf computes.
ValueRun(f, bits) ==
  /\ f[0] = 0 /\ \A i \in 0 .. Len(bits) : f[i] \in Nat
  /\ \A i \in 1 .. Len(bits) : f[i] = 2 * f[i - 1] + bits[i]
  /\ ValueOf(bits) = f[Len(bits)]

\* The function that ValueOf is defined by.
LEMMA ValueUnfolds ==
  ASSUME NEW bits \in Seq(Bit)
  PROVE  \E f : ValueRun(f, bits)
<1> DEFINE n == Len(bits)
           Longer(v, i) == 2 * v + bits[i]
           Value(f, i) == IF i = 0 THEN 0 ELSE Longer(f[i - 1], i)
           step == [i \in 1 .. n |-> [v \in Nat |-> Longer(v, i)]]
           value == CHOOSE f : f = [i \in 0 .. n |-> Value(f, i)]
<1>1. ValueOf(bits) = value[n]
  BY DEF ValueOf
<1>2. n \in Nat
  OBVIOUS
<1>3. ASSUME NEW i \in 1 .. n, NEW v \in Nat PROVE Longer(v, i) \in Nat
  <2>1. bits[i] \in Bit
    OBVIOUS
  <2>2. bits[i] \in Nat
    BY <2>1 DEF Bit
  <2> QED BY <2>2
<1>4. \A v, i : Longer(v, i) = 2 * v + bits[i]
  OBVIOUS
<1> HIDE DEF n, Longer
<1>5. step \in StepsUp(n, Nat)
  BY <1>3 DEF StepsUp
<1>6. \A i \in 1 .. n : \A v \in Nat : step[i][v] = Longer(v, i)
  OBVIOUS
<1> HIDE DEF step
<1>7. PICK f : RunUp(f, n, Nat, 0, step)
  BY <1>2, <1>5, RecursionUp
<1>8. \A i \in 0 .. n : f[i] = Value(f, i)
  BY <1>2, <1>6, <1>7 DEF RunUp
<1>9. f = [i \in 0 .. n |-> Value(f, i)]
  <2> HIDE DEF Value
  <2> QED BY <1>7, <1>8 DEF RunUp
<1>10. value = [i \in 0 .. n |-> Value(value, i)]
  <2> HIDE DEF Value
  <2> QED BY <1>9, Zenon
<1> HIDE DEF value
<1>11. value[0] = 0 /\ \A i \in 1 .. n : value[i] = Longer(value[i - 1], i)
  BY <1>2, <1>10
<1>12. GoesUp(value, n, Nat, step)
  BY <1>6, <1>11 DEF GoesUp
<1>13. \A i \in 0 .. n : value[i] \in Nat
  BY <1>2, <1>5, <1>12, RecursionStays
<1> QED BY <1>1, <1>11, <1>13, <1>4 DEF ValueRun, n

\* Reading the bits of a number gives the number.
LEMMA ValueOfBits ==
  ASSUME NEW width \in Nat, NEW n \in Nat, n < 2^width
  PROVE  ValueOf(BitsOf(n, width)) = n
<1> DEFINE bits == BitsOf(n, width)
<1>1. /\ bits \in Seq(Bit) /\ Len(bits) = width
      /\ \A i \in 1 .. width : bits[i] = (n \div 2^(width - i)) % 2
  BY BitsOfType
<1> HIDE DEF bits
<1>2. PICK f : ValueRun(f, bits)
  BY <1>1, ValueUnfolds
<1> DEFINE holds == {i \in Nat : f[i] = n \div 2^(width - i)}
<1>3. 0 \in holds
  <2>1. n \div 2^width = 0
    <3>1. 2^width \in Nat /\ 2^width > 0 /\ n \in 0 .. 2^width - 1 /\ n = 2^width * 0 + n
      BY Power
    <3> QED BY <3>1, DivModUnique
  <2>2. f[0] = 0 /\ width - 0 = width
    BY <1>2 DEF ValueRun
  <2> QED BY <2>1, <2>2
<1>4. ASSUME NEW i \in 0 .. width - 1, i \in holds PROVE i + 1 \in holds
  <2> DEFINE k == width - (i + 1)
  <2>1. k \in Nat /\ width - i = k + 1 /\ i + 1 \in 1 .. width /\ (i + 1) - 1 = i
    OBVIOUS
  <2>2. f[i + 1] = 2 * f[i] + bits[i + 1]
    BY <1>1, <1>2, <2>1 DEF ValueRun
  <2>3. bits[i + 1] = (n \div 2^k) % 2
    BY <1>1, <2>1
  <2>4. f[i] = n \div 2^(k + 1)
    BY <1>4, <2>1
  <2>5. 2^k \in Nat /\ 2^k > 0 /\ 2^(k + 1) = 2 * 2^k
    BY <2>1, Power
  <2> HIDE DEF k
  <2>6. n \div 2^k = 2 * (n \div (2 * 2^k)) + ((n \div 2^k) % 2)
    BY <2>5, HalfQuotient
  <2>7. f[i + 1] = n \div 2^k
    BY <2>2, <2>3, <2>4, <2>5, <2>6
  <2> QED BY <2>7 DEF k
<1>5. width \in holds
  <2> HIDE DEF holds
  <2>1. \A i \in 0 .. width : i \in holds
    BY <1>3, <1>4, UpTo
  <2> QED BY <2>1
<1>6. f[width] = n
  <2>1. width - width = 0 /\ 2^0 = 1 /\ n \div 1 = n
    OBVIOUS
  <2> QED BY <1>5, <2>1
<1> QED BY <1>1, <1>2, <1>6 DEF ValueRun, bits

-----------------------------------------------------------------------------
(***************************************************************************)
(* Lengths.                                                                *)
(***************************************************************************)
\* The bounds between the forms of a length.
LEMMA Sizes ==
  /\ CHAR_BIT \in Nat /\ CHAR_BIT >= 3 /\ MaxFragments \in Nat /\ MaxFragments >= 1
  /\ 2^(CHAR_BIT - 2) \in Nat /\ MaxFragments < 2^(CHAR_BIT - 2)
  /\ Short \in Nat /\ Unit \in Nat /\ 1 < Short /\ Short <= Unit
  /\ Short = 2 * 2^(CHAR_BIT - 2) /\ 2^CHAR_BIT = 4 * 2^(CHAR_BIT - 2)
  /\ 2^(2 * CHAR_BIT - 1) = 2 * Unit /\ 2^(2 * CHAR_BIT) = 4 * Unit
<1> DEFINE c == CHAR_BIT
<1>1. c \in Nat /\ c >= 3 /\ MaxFragments \in 1 .. 2^(c - 2) - 1
  BY PerAssumption
<1> HIDE DEF c
<1>2. c - 2 \in Nat /\ (c - 2) + 1 = c - 1 /\ (c - 1) + 1 = c
  BY <1>1
<1>3. 2^(c - 2) \in Nat /\ 2^(c - 1) = 2 * 2^(c - 2)
  BY <1>2, Power
<1>4. c - 1 \in Nat /\ 2^c = 2 * 2^(c - 1)
  BY <1>2, Power
<1>5. 2 * c - 2 \in Nat /\ (2 * c - 2) + 1 = 2 * c - 1 /\ (2 * c - 1) + 1 = 2 * c
  BY <1>1
<1>6. 2^(2 * c - 2) \in Nat /\ 2^(2 * c - 1) = 2 * 2^(2 * c - 2)
  BY <1>5, Power
<1>7. 2 * c - 1 \in Nat /\ 2^(2 * c) = 2 * 2^(2 * c - 1)
  BY <1>5, Power
<1>8. 2^(c - 1) <= 2^(2 * c - 2)
  <2>1. c - 1 <= 2 * c - 2
    BY <1>1
  <2> QED BY <1>4, <1>5, <2>1, PowersGrow
<1>9. Short = 2^(c - 1) /\ Unit = 2^(2 * c - 2)
  BY DEF Short, Unit, c
<1>10. MaxFragments \in Nat /\ MaxFragments >= 1 /\ MaxFragments < 2^(c - 2)
  BY <1>1, <1>3
<1> HIDE DEF Short, Unit
<1>11. 1 < Short /\ Short \in Nat
  BY <1>3, <1>9, <1>10
<1>12. 2^c = 4 * 2^(c - 2)
  BY <1>3, <1>4
<1>13. 2^(2 * c) = 4 * Unit /\ 2^(2 * c - 1) = 2 * Unit /\ Unit \in Nat
  BY <1>6, <1>7, <1>9
<1> QED BY <1>1, <1>3, <1>8, <1>9, <1>10, <1>11, <1>12, <1>13 DEF c

\* How many units of n octets fit into a fragment.
LEMMA UnitsFit ==
  ASSUME NEW n \in Nat, n >= Unit
  PROVE  /\ Units(n) \in 1 .. MaxFragments
         /\ MaySave(n) \in 1 .. n /\ MaySave(n) = Units(n) * Unit
         /\ NeedEom(n) <=> MaySave(n) = n
<1> DEFINE q == n \div Unit
           r == n % Unit
           u == Units(n)
<1>1. Unit \in Nat /\ Unit > 0 /\ MaxFragments \in Nat /\ MaxFragments >= 1
  BY Sizes
<1>2. q \in Int /\ r \in 0 .. Unit - 1 /\ n = Unit * q + r
  BY <1>1
<1> HIDE DEF q, r
<1>3. q >= 1
  <2>1. q < 1 => Unit * q <= 0
    BY <1>1, <1>2
  <2> QED BY <1>1, <1>2, <2>1
<1>4. Min({q, MaxFragments}) = IF q <= MaxFragments THEN q ELSE MaxFragments
  BY <1>1, <1>2 DEF Min
<1>5. u = IF q <= MaxFragments THEN q ELSE MaxFragments
  BY <1>4 DEF Units, q
<1> HIDE DEF u
<1>6. u \in 1 .. MaxFragments /\ u <= q
  BY <1>1, <1>2, <1>3, <1>5
<1>7. MaySave(n) = u * Unit
  BY <1>1 DEF MaySave, u
<1>8. u * Unit >= Unit /\ u * Unit <= Unit * q
  BY <1>1, <1>2, <1>6
<1>9. MaySave(n) \in 1 .. n
  <2>1. u * Unit \in Int /\ Unit * q \in Int
    BY <1>1, <1>2, <1>6
  <2>2. 1 <= u * Unit /\ u * Unit <= n
    BY <1>1, <1>2, <1>8, <2>1
  <2> QED BY <1>7, <2>1, <2>2
<1>10. NeedEom(n) <=> r = 0 /\ q <= MaxFragments
  BY DEF NeedEom, q, r
<1>11. u * Unit = n <=> r = 0 /\ q <= MaxFragments
  <2>1. CASE q <= MaxFragments
    BY <1>1, <1>2, <1>5, <2>1
  <2>2. CASE ~(q <= MaxFragments)
    <3>1. u <= q - 1
      BY <1>1, <1>2, <1>5, <2>2
    <3>2. u * Unit <= Unit * q - Unit
      BY <1>1, <1>2, <1>6, <3>1
    <3> QED BY <1>1, <1>2, <1>6, <3>2, <2>2
  <2> QED BY <2>1, <2>2
<1> QED BY <1>6, <1>7, <1>9, <1>10, <1>11 DEF u

\* The bits of n come after the two of h.
TwoBefore(h, n, w, a, width) ==
  /\ BitsOf(a, width)[1] = h \div 2 /\ BitsOf(a, width)[2] = h % 2
  /\ SubSeq(BitsOf(a, width), 3, width) = BitsOf(n, w)

\* Two bits before the bits of a number.
LEMMA LowBits ==
  ASSUME NEW w \in Nat, NEW h \in 0 .. 3, NEW n \in Nat, n < 2^w,
         NEW width \in Nat, width = w + 2, NEW a \in Nat, a = h * 2^w + n
  PROVE  TwoBefore(h, n, w, a, width)
<1> DEFINE p == 2^w
           bits == BitsOf(a, width)
<1>1. p \in Nat /\ p > 0 /\ 2^(w + 1) = 2 * p /\ n < p /\ a = h * p + n
  BY Power
<1> HIDE DEF p
<1>2. a \in Nat
  BY <1>1
<1>3. w + 2 \in Nat
  OBVIOUS
<1>4. /\ bits \in Seq(Bit) /\ Len(bits) = w + 2
      /\ \A i \in 1 .. w + 2 : bits[i] = (a \div 2^((w + 2) - i)) % 2
  BY <1>2, <1>3, BitsOfType
<1> HIDE DEF bits
<1>5. bits[1] = h \div 2
  <2>1. (w + 2) - 1 = w + 1 /\ 1 \in 1 .. w + 2
    OBVIOUS
  <2>2. a \div (2 * p) = h \div 2
    <3> DEFINE s == h \div 2
               t == h % 2
    <3>1. s \in {0, 1} /\ t \in {0, 1} /\ h = 2 * s + t
      OBVIOUS
    <3> HIDE DEF s, t
    <3>2. a = (2 * p) * s + (t * p + n) /\ t * p + n \in 0 .. (2 * p) - 1
      BY <1>1, <3>1
    <3>3. 2 * p \in Nat /\ 2 * p > 0
      BY <1>1
    <3>4. s \in Nat
      BY <3>1
    <3>5. a \div (2 * p) = s
      BY <1>2, <3>2, <3>3, <3>4, DivModUnique
    <3> QED BY <3>5 DEF s
  <2>3. (h \div 2) % 2 = h \div 2
    OBVIOUS
  <2> QED BY <1>1, <1>4, <2>1, <2>2, <2>3
<1>6. bits[2] = h % 2
  <2>1. (w + 2) - 2 = w /\ 2 \in 1 .. w + 2
    OBVIOUS
  <2>2. a \div p = h
    <3>1. a = p * h + n /\ n \in 0 .. p - 1 /\ h \in Nat
      BY <1>1
    <3> QED BY <1>1, <1>2, <3>1, DivModUnique
  <2> QED BY <1>4, <2>1, <2>2 DEF p
<1>7. SubSeq(bits, 3, w + 2) = BitsOf(n, w)
  <2>1. /\ BitsOf(n, w) \in Seq(Bit) /\ Len(BitsOf(n, w)) = w
        /\ \A i \in 1 .. w : BitsOf(n, w)[i] = (n \div 2^(w - i)) % 2
    BY BitsOfType
  <2>2. /\ SubSeq(bits, 3, w + 2) \in Seq(Bit) /\ Len(SubSeq(bits, 3, w + 2)) = w
        /\ \A i \in 1 .. w : SubSeq(bits, 3, w + 2)[i] = bits[i + 2]
    BY <1>4
  <2>3. ASSUME NEW i \in 1 .. w PROVE bits[i + 2] = (n \div 2^(w - i)) % 2
    <3> DEFINE k == w - i
    <3>1. k \in Nat /\ i \in Nat /\ (w + 2) - (i + 2) = k /\ i + 2 \in 1 .. w + 2 /\ i + k = w
      OBVIOUS
    <3>2. bits[i + 2] = (a \div 2^k) % 2
      BY <1>4, <3>1
    <3>3. 2^k \in Nat /\ 2^k > 0 /\ 2^i \in Nat
      BY <3>1, Power
    <3>4. p = 2^i * 2^k
      BY <3>1, PowersMultiply DEF p
    <3>5. 2^i = 2 * 2^(i - 1) /\ 2^(i - 1) \in Nat
      <4>1. i - 1 \in Nat /\ (i - 1) + 1 = i
        OBVIOUS
      <4> QED BY <4>1, Power
    <3> DEFINE d == 2^k
               e == 2^(i - 1)
               s == n \div d
               t == n % d
    <3>6. d \in Nat /\ d > 0 /\ e \in Nat /\ p = (2 * e) * d
      BY <3>3, <3>4, <3>5
    <3> HIDE DEF d, e
    <3>7. s \in Nat /\ t \in 0 .. d - 1 /\ n = d * s + t
      BY <3>6
    <3> HIDE DEF s, t
    <3>8. a = d * ((2 * e) * h + s) + t
      <4> DEFINE f == 2 * e
      <4>1. f \in Nat /\ p = f * d
        BY <3>6
      <4> HIDE DEF f
      <4>2. h * (f * d) = d * (f * h)
        BY <3>6, <4>1
      <4>3. d * (f * h + s) = d * (f * h) + d * s
        BY <3>6, <3>7, <4>1
      <4>4. d * (f * h) \in Nat /\ d * s \in Nat
        BY <3>6, <3>7, <4>1
      <4>5. a = d * (f * h + s) + t
        BY <1>1, <3>7, <4>1, <4>2, <4>3, <4>4
      <4> QED BY <4>5 DEF f
    <3>9. (2 * e) * h \in Nat
      BY <3>6
    <3>10. (2 * e) * h + s \in Nat
      BY <3>7, <3>9
    <3>11. a \div d = (2 * e) * h + s
      BY <1>2, <3>6, <3>7, <3>8, <3>10, DivModUnique
    <3>12. PICK g \in Nat : g = e * h
      BY <3>6
    <3>13. (2 * e) * h = 2 * g
      BY <3>6, <3>12
    <3>14. (2 * g + s) % 2 = s % 2
      BY <3>7
    <3> QED BY <3>2, <3>11, <3>13, <3>14 DEF d, s, k
  <2> QED BY <2>1, <2>2, <2>3, BitsEqual
<1>8. width = w + 2
  OBVIOUS
<1> QED BY <1>5, <1>6, <1>7, <1>8 DEF bits, TwoBefore

\* What PutLength writes.
LEMMA PutLengthType ==
  ASSUME NEW n \in Nat
  PROVE  /\ PutLength(n) \in Seq(Bit)
         /\ Len(PutLength(n)) = IF n < Short \/ n >= Unit THEN CHAR_BIT ELSE 2 * CHAR_BIT
<1> USE Sizes
<1>1. CASE n < Short
  <2>1. PutLength(n) = BitsOf(n, CHAR_BIT)
    BY <1>1 DEF PutLength
  <2> QED BY <1>1, <2>1, BitsOfType
<1>2. CASE ~(n < Short) /\ n < Unit
  <2>1. PutLength(n) = BitsOf(2 * Unit + n, 2 * CHAR_BIT)
    BY <1>2 DEF PutLength
  <2>2. 2 * Unit + n \in Nat /\ 2 * CHAR_BIT \in Nat
    OBVIOUS
  <2> QED BY <1>2, <2>1, <2>2, BitsOfType
<1>3. CASE ~(n < Short) /\ n >= Unit
  <2>1. PutLength(n) = BitsOf(3 * 2^(CHAR_BIT - 2) + Units(n), CHAR_BIT)
    BY <1>3 DEF PutLength
  <2>2. Units(n) \in Nat
    BY <1>3, UnitsFit
  <2>3. 3 * 2^(CHAR_BIT - 2) + Units(n) \in Nat
    BY <2>2
  <2>4. CHAR_BIT \in Nat
    BY Sizes
  <2>5. /\ BitsOf(3 * 2^(CHAR_BIT - 2) + Units(n), CHAR_BIT) \in Seq(Bit)
        /\ Len(BitsOf(3 * 2^(CHAR_BIT - 2) + Units(n), CHAR_BIT)) = CHAR_BIT
    BY <2>3, <2>4, BitsOfType, Zenon
  <2> QED BY <1>3, <2>1, <2>5
<1> QED BY <1>1, <1>2, <1>3

\* What is on the wire, as far as it is there, is these bits.
Begins(rest, bits) == \A i \in 1 .. Len(bits) : i <= Len(rest) => rest[i] = bits[i]

\* The first bits of a wire that has all of them.
LEMMA BeginsWhole ==
  ASSUME NEW rest \in Seq(Bit), NEW bits \in Seq(Bit), Begins(rest, bits), Len(bits) <= Len(rest)
  PROVE  SubSeq(rest, 1, Len(bits)) = bits
<1>1. Len(rest) \in Nat /\ Len(bits) \in Nat
  BY LenProperties
<1>2. /\ SubSeq(rest, 1, Len(bits)) \in Seq(Bit)
      /\ Len(SubSeq(rest, 1, Len(bits))) = Len(bits)
      /\ \A i \in 1 .. Len(bits) : SubSeq(rest, 1, Len(bits))[i] = rest[i]
  BY <1>1
<1>3. \A i \in 1 .. Len(bits) : rest[i] = bits[i]
  BY <1>1 DEF Begins
<1> QED BY <1>2, <1>3, BitsEqual

\* Either side of a length: uper_get_length has from what uper_put_length wrote how
\* much follows and whether more does, or refuses what was cut off.
LEMMA GetPutLength ==
  ASSUME NEW n \in Nat, NEW rest \in Seq(Bit), Begins(rest, PutLength(n))
  PROVE  GetLength(rest) =
           IF Len(rest) < Len(PutLength(n)) THEN NoLength
           ELSE [n |-> MaySave(n), used |-> Len(PutLength(n)), repeat |-> n >= Unit]
<1> DEFINE c == CHAR_BIT
           bits == PutLength(n)
           P == 2^(c - 2)
<1>1. /\ c \in Nat /\ c >= 3 /\ P \in Nat /\ MaxFragments \in Nat /\ MaxFragments < P
      /\ Short \in Nat /\ Unit \in Nat /\ Short <= Unit /\ Short = 2 * P /\ 2^c = 4 * P
      /\ 2^(2 * c) = 4 * Unit
  BY Sizes
<1>2. bits \in Seq(Bit) /\ Len(bits) = IF n < Short \/ n >= Unit THEN c ELSE 2 * c
  BY PutLengthType
<1>3. Begins(rest, bits)
  OBVIOUS
<1>4. Len(rest) \in Nat
  BY LenProperties
<1>5. n < Short => bits = BitsOf(n, c)
  BY DEF PutLength
<1>6. ~(n < Short) /\ n < Unit => bits = BitsOf(2 * Unit + n, 2 * c)
  BY DEF PutLength
<1>7. ~(n < Short) /\ n >= Unit => bits = BitsOf(3 * P + Units(n), c)
  BY <1>1 DEF PutLength
<1>8. PICK w \in Nat : w = c - 2 /\ c = w + 2
  BY <1>1
<1>9. PICK v \in Nat : v = 2 * c - 2 /\ 2 * c = v + 2
  BY <1>1
<1>13. P = 2^w /\ Unit = 2^v
  BY <1>8, <1>9 DEF Unit
<1> HIDE DEF bits, c, P
<1> DEFINE value == ValueOf(SubSeq(rest, 1, c))
           m == value % P
<1>10. GetLength(rest) =
         IF Len(rest) < c THEN NoLength
         ELSE IF rest[1] = 0 THEN [n |-> value, used |-> c, repeat |-> FALSE]
         ELSE IF rest[2] = 0
           THEN IF Len(rest) < 2 * c THEN NoLength
                ELSE [n |-> ValueOf(SubSeq(rest, 3, 2 * c)), used |-> 2 * c, repeat |-> FALSE]
         ELSE IF m \in 1 .. MaxFragments
           THEN [n |-> m * Unit, used |-> c, repeat |-> TRUE]
         ELSE NoLength
  BY DEF GetLength, c, P
<1> HIDE DEF m
<1>11. CASE Len(rest) < c
  BY <1>1, <1>2, <1>4, <1>10, <1>11 DEF bits
<1>12. CASE Len(rest) >= c
  <2>1. 1 \in 1 .. Len(bits) /\ 2 \in 1 .. Len(bits) /\ 2 <= Len(rest)
    BY <1>1, <1>2, <1>12
  <2>2. rest[1] = bits[1] /\ rest[2] = bits[2]
    BY <1>3, <2>1, <1>4 DEF Begins
  <2>3. CASE n < Short
    <3> DEFINE half == n \div P
    <3>1. n = half * P + (n % P) /\ half \in {0, 1} /\ n % P \in 0 .. P - 1
      <4> DEFINE r == n % P
      <4>1. half \in Int /\ r \in 0 .. P - 1 /\ n = P * half + r
        BY <1>1
      <4> HIDE DEF half, r
      <4>2. half >= 2 => P * half >= 2 * P
        BY <1>1, <4>1
      <4>3. half < 0 => P * half <= -P
        BY <1>1, <4>1
      <4>4. half \in {0, 1}
        BY <1>1, <4>1, <4>2, <4>3, <2>3
      <4>5. half * P = P * half
        BY <1>1, <4>1
      <4> QED BY <4>1, <4>4, <4>5 DEF r
    <3> DEFINE r == n % P
    <3>2. half \in 0 .. 3 /\ r \in Nat /\ r < P /\ half * P + r = n
      BY <1>1, <3>1
    <3> HIDE DEF half, r
    <3>3. BitsOf(n, c)[1] = half \div 2
      <4>1. n = half * 2^w + r /\ r < 2^w
        BY <1>13, <3>2
      <4>2. TwoBefore(half, r, w, n, c)
        BY <1>1, <1>8, <3>2, <4>1, LowBits
      <4> QED BY <4>2 DEF TwoBefore
    <3>4. half \div 2 = 0
      BY <3>1 DEF half
    <3>5. rest[1] = 0
      BY <1>5, <2>2, <2>3, <3>3, <3>4
    <3>6. SubSeq(rest, 1, c) = bits
      <4>1. Len(bits) = c /\ Len(bits) <= Len(rest)
        BY <1>2, <1>12, <2>3, <1>1, <1>4
      <4> QED BY <1>2, <1>3, <4>1, BeginsWhole
    <3>7. value = n
      <4>1. n < 2^c
        BY <1>1, <2>3
      <4> QED BY <1>1, <1>5, <2>3, <3>6, <4>1, ValueOfBits
    <3>8. MaySave(n) = n /\ (n >= Unit) = FALSE
      BY <1>1, <2>3 DEF MaySave
    <3>9. Len(bits) = c /\ ~(Len(rest) < c)
      BY <1>1, <1>2, <1>4, <1>12, <2>3
    <3> HIDE DEF value
    <3> QED BY <1>10, <3>5, <3>7, <3>8, <3>9 DEF bits
  <2>4. CASE ~(n < Short) /\ n < Unit
    <3>1. 2 \in 0 .. 3 /\ 2 \div 2 = 1 /\ 2 % 2 = 0
      OBVIOUS
    <3>2. /\ bits[1] = 1 /\ bits[2] = 0
          /\ SubSeq(bits, 3, 2 * c) = BitsOf(n, 2 * c - 2)
      <4>1. n < 2^v /\ 2 * Unit + n = 2 * 2^v + n
        BY <1>13, <2>4
      <4>2. PICK h \in 0 .. 3 : h = 2
        BY <3>1
      <4>3. 2 * Unit + n = h * 2^v + n
        BY <4>1, <4>2
      <4>4. 2 * Unit + n \in Nat /\ 2 * c \in Nat
        BY <1>1
      <4>5. TwoBefore(h, n, v, 2 * Unit + n, 2 * c)
        BY <1>9, <4>1, <4>3, <4>4, LowBits
      <4> QED BY <1>6, <1>9, <2>4, <3>1, <4>2, <4>5 DEF TwoBefore
    <3>3. ~(rest[1] = 0) /\ rest[2] = 0 /\ ~(Len(rest) < c) /\ Len(bits) = 2 * c
      BY <1>1, <1>2, <1>4, <1>12, <2>2, <2>4, <3>2
    <3>4. CASE Len(rest) < 2 * c
      BY <1>10, <3>3, <3>4 DEF bits
    <3>5. CASE ~(Len(rest) < 2 * c)
      <4>1. Len(bits) <= Len(rest)
        BY <1>1, <1>4, <3>3, <3>5
      <4>2. SubSeq(rest, 1, 2 * c) = bits
        BY <1>2, <1>3, <3>3, <4>1, BeginsWhole
      <4>3. SubSeq(rest, 3, 2 * c) = SubSeq(SubSeq(rest, 1, 2 * c), 3, 2 * c)
        <5>1. /\ 2 * c <= Len(rest) /\ 2 * c \in Nat
              /\ Len(SubSeq(rest, 1, 2 * c)) = 2 * c
              /\ SubSeq(rest, 1, 2 * c) \in Seq(Bit)
              /\ \A i \in 1 .. 2 * c : SubSeq(rest, 1, 2 * c)[i] = rest[i]
          BY <1>1, <1>2, <3>3, <4>1, <4>2, <1>4
        <5> DEFINE t == SubSeq(rest, 1, 2 * c)
        <5> HIDE DEF t
        <5>2. /\ SubSeq(rest, 3, 2 * c) \in Seq(Bit) /\ SubSeq(t, 3, 2 * c) \in Seq(Bit)
              /\ Len(SubSeq(rest, 3, 2 * c)) = 2 * c - 2 /\ Len(SubSeq(t, 3, 2 * c)) = 2 * c - 2
              /\ \A i \in 1 .. 2 * c - 2 : SubSeq(rest, 3, 2 * c)[i] = rest[i + 2]
              /\ \A i \in 1 .. 2 * c - 2 : SubSeq(t, 3, 2 * c)[i] = t[i + 2]
          BY <1>1, <1>4, <5>1 DEF t
        <5>3. \A i \in 1 .. 2 * c - 2 : t[i + 2] = rest[i + 2]
          BY <1>1, <5>1 DEF t
        <5>4. SubSeq(rest, 3, 2 * c) = SubSeq(t, 3, 2 * c)
          BY <5>2, <5>3, BitsEqual
        <5> QED BY <5>4 DEF t
      <4>4. ValueOf(SubSeq(rest, 3, 2 * c)) = n
        <5>1. n < 2^(2 * c - 2)
          BY <1>9, <1>13, <2>4
        <5> QED BY <1>9, <3>2, <4>2, <4>3, <5>1, ValueOfBits
      <4>5. MaySave(n) = n /\ (n >= Unit) = FALSE
        BY <1>1, <2>4 DEF MaySave
      <4> HIDE DEF value
      <4> QED BY <1>10, <3>3, <3>5, <4>4, <4>5 DEF bits
    <3> QED BY <3>4, <3>5
  <2>5. CASE ~(n < Short) /\ n >= Unit
    <3> DEFINE u == Units(n)
    <3>1. u \in 1 .. MaxFragments /\ MaySave(n) = u * Unit
      BY <2>5, UnitsFit
    <3> HIDE DEF u
    <3>2. 3 \in 0 .. 3 /\ 3 \div 2 = 1 /\ 3 % 2 = 1 /\ u \in Nat /\ u < P
      BY <1>1, <3>1
    <3>3. bits = BitsOf(3 * P + u, c)
      BY <1>7, <2>5 DEF u
    <3>4. bits[1] = 1 /\ bits[2] = 1
      <4>1. PICK h \in 0 .. 3 : h = 3
        BY <3>2
      <4>2. 3 * P + u = h * 2^w + u /\ u < 2^w
        BY <1>13, <3>2, <4>1
      <4>3. 3 * P + u \in Nat
        BY <1>1, <3>2
      <4>4. TwoBefore(h, u, w, 3 * P + u, c)
        BY <1>1, <1>8, <3>2, <4>2, <4>3, LowBits
      <4> QED BY <3>2, <3>3, <4>1, <4>4 DEF TwoBefore
    <3>5. SubSeq(rest, 1, c) = bits
      <4>1. Len(bits) = c /\ Len(bits) <= Len(rest)
        BY <1>2, <1>12, <2>5, <1>1, <1>4
      <4> QED BY <1>2, <1>3, <4>1, BeginsWhole
    <3>6. value = 3 * P + u
      <4>1. 3 * P + u \in Nat /\ 3 * P + u < 2^c
        BY <1>1, <3>2
      <4> QED BY <1>1, <3>3, <3>5, <4>1, ValueOfBits
    <3>7. m = u
      <4>1. P > 0 /\ 3 * P + u \in Nat /\ 3 * P + u = P * 3 + u /\ u \in 0 .. P - 1
        BY <1>1, <3>2
      <4>2. (3 * P + u) % P = u
        BY <1>1, <4>1, DivModUnique
      <4> QED BY <3>6, <4>2 DEF m
    <3>8. /\ ~(Len(rest) < c) /\ rest[1] # 0 /\ rest[2] # 0 /\ Len(bits) = c
          /\ (n >= Unit) = TRUE
      BY <1>1, <1>2, <1>4, <1>12, <2>2, <2>5, <3>4
    <3>9. m \in 1 .. MaxFragments /\ m * Unit = MaySave(n)
      BY <3>1, <3>7
    <3> HIDE DEF value
    <3>10. GetLength(rest) = [n |-> MaySave(n), used |-> Len(bits), repeat |-> (n >= Unit)]
      BY <1>10, <3>8, <3>9
    <3>11. ~(Len(rest) < Len(bits))
      BY <3>8
    <3>12. GetLength(rest) = IF Len(rest) < Len(bits) THEN NoLength
                            ELSE [n |-> MaySave(n), used |-> Len(bits), repeat |-> (n >= Unit)]
      BY <3>10, <3>11, Zenon
    <3> QED BY <3>12, Zenon DEF bits
  <2> QED BY <1>1, <2>3, <2>4, <2>5
<1> QED BY <1>1, <1>4, <1>11, <1>12

\* A part of the first bits is a part of the whole.
LEMMA PartOfFront ==
  ASSUME NEW rest \in Seq(Bit), NEW m \in 0 .. Len(rest), NEW k \in 1 .. m + 1
  PROVE  SubSeq(SubSeq(rest, 1, m), k, m) = SubSeq(rest, k, m)
<1> DEFINE t == SubSeq(rest, 1, m)
<1>1. Len(rest) \in Nat /\ m \in Nat /\ m <= Len(rest) /\ k \in Nat /\ k >= 1 /\ k <= m + 1
  BY LenProperties
<1>2. t \in Seq(Bit) /\ Len(t) = m /\ \A i \in 1 .. m : t[i] = rest[i]
  BY <1>1
<1> HIDE DEF t
<1>3. /\ SubSeq(rest, k, m) \in Seq(Bit) /\ Len(SubSeq(rest, k, m)) = (m - k) + 1
      /\ \A i \in 1 .. (m - k) + 1 : SubSeq(rest, k, m)[i] = rest[(i + k) - 1]
  BY <1>1
<1>4. /\ SubSeq(t, k, m) \in Seq(Bit) /\ Len(SubSeq(t, k, m)) = (m - k) + 1
      /\ \A i \in 1 .. (m - k) + 1 : SubSeq(t, k, m)[i] = t[(i + k) - 1]
  BY <1>1, <1>2
<1>5. \A i \in 1 .. (m - k) + 1 : t[(i + k) - 1] = rest[(i + k) - 1]
  BY <1>1, <1>2
<1>6. SubSeq(t, k, m) = SubSeq(rest, k, m)
  BY <1>3, <1>4, <1>5, BitsEqual
<1> QED BY <1>6 DEF t

\* What PutNsLength writes of a small length.
LEMMA PutNsLengthType ==
  ASSUME NEW n \in 1 .. 2^SmallBits
  PROVE  /\ SmallBits \in Nat /\ PutNsLength(n) \in Seq(Bit)
         /\ Len(PutNsLength(n)) = SmallBits + 1
         /\ PutNsLength(n)[1] = 0
         /\ SubSeq(PutNsLength(n), 2, SmallBits + 1) = BitsOf(n - 1, SmallBits)
<1> DEFINE b == SmallBits
           p == 2^b
           bits == BitsOf(n - 1, b + 1)
<1>1. b \in Nat
  BY PerAssumption
<1>2. p \in Nat /\ p > 0 /\ n \in Nat /\ n <= p /\ n - 1 \in 0 .. p - 1
  BY <1>1, Power
<1> HIDE DEF p
<1>3. PutNsLength(n) = bits
  BY <1>2 DEF PutNsLength, p
<1> HIDE DEF b
<1>4. b + 1 \in Nat /\ n - 1 \in Nat
  BY <1>1, <1>2
<1>5. /\ bits \in Seq(Bit) /\ Len(bits) = b + 1
      /\ \A i \in 1 .. b + 1 : bits[i] = ((n - 1) \div 2^((b + 1) - i)) % 2
  BY <1>4, BitsOfType
<1> HIDE DEF bits
<1>6. bits[1] = 0
  <2>1. n - 1 = p * 0 + (n - 1)
    BY <1>2
  <2>2. (n - 1) \div p = 0
    BY <1>2, <1>4, <2>1, DivModUnique
  <2>3. (b + 1) - 1 = b /\ 1 \in 1 .. b + 1 /\ 0 % 2 = 0
    BY <1>1
  <2> QED BY <1>5, <2>2, <2>3 DEF p
<1>7. SubSeq(bits, 2, b + 1) = BitsOf(n - 1, b)
  <2>1. /\ BitsOf(n - 1, b) \in Seq(Bit) /\ Len(BitsOf(n - 1, b)) = b
        /\ \A i \in 1 .. b : BitsOf(n - 1, b)[i] = ((n - 1) \div 2^(b - i)) % 2
    BY <1>1, <1>4, BitsOfType
  <2>2. /\ SubSeq(bits, 2, b + 1) \in Seq(Bit) /\ Len(SubSeq(bits, 2, b + 1)) = b
        /\ \A i \in 1 .. b : SubSeq(bits, 2, b + 1)[i] = bits[i + 1]
    BY <1>1, <1>5
  <2>3. ASSUME NEW i \in 1 .. b PROVE bits[i + 1] = ((n - 1) \div 2^(b - i)) % 2
    <3>1. i + 1 \in 1 .. b + 1 /\ (b + 1) - (i + 1) = b - i
      BY <1>1
    <3> QED BY <1>5, <3>1
  <2> QED BY <2>1, <2>2, <2>3, BitsEqual
<1> QED BY <1>1, <1>3, <1>5, <1>6, <1>7 DEF b

\* Either side of the number of extension additions, up to 2^SmallBits of them (64 in
\* the code), or a refusal of what was cut off.
LEMMA GetPutNsLength ==
  ASSUME NEW n \in 1 .. 2^SmallBits, NEW rest \in Seq(Bit), Begins(rest, PutNsLength(n))
  PROVE  GetNsLength(rest) =
           IF Len(rest) < SmallBits + 1 THEN NoLength
           ELSE [n |-> n, used |-> SmallBits + 1, repeat |-> FALSE]
<1> DEFINE b == SmallBits
           bits == PutNsLength(n)
<1>1. /\ b \in Nat /\ bits \in Seq(Bit) /\ Len(bits) = b + 1 /\ bits[1] = 0
      /\ SubSeq(bits, 2, b + 1) = BitsOf(n - 1, b)
  BY PutNsLengthType
<1>2. Begins(rest, bits) /\ Len(rest) \in Nat
  BY LenProperties
<1>3. n \in Nat /\ n - 1 \in Nat /\ n - 1 < 2^b
  BY <1>1, Power
<1> HIDE DEF bits
<1>4. CASE rest = <<>>
  <2>1. From(rest, 2) = <<>>
    BY <1>4 DEF From
  <2>2. GetLength(<<>>) = NoLength
    <3>1. Len(<<>>) = 0 /\ 0 < CHAR_BIT
      BY Sizes
    <3> QED BY <3>1 DEF GetLength
  <2>3. GetNsLength(rest) = NoLength
    BY <1>4, <2>1, <2>2 DEF GetNsLength, NoLength
  <2>4. Len(rest) = 0
    BY <1>4
  <2> QED BY <1>1, <2>3, <2>4 DEF b
<1>5. CASE rest # <<>>
  <2>1. Len(rest) >= 1
    BY <1>2, <1>5
  <2>2. rest[1] = 0
    <3>1. 1 \in 1 .. Len(bits)
      BY <1>1
    <3> QED BY <1>1, <1>2, <2>1, <3>1 DEF Begins
  <2>3. CASE Len(rest) <= b
    BY <1>1, <1>2, <1>5, <2>2, <2>3 DEF GetNsLength, b
  <2>4. CASE ~(Len(rest) <= b)
    <3>1. Len(bits) <= Len(rest) /\ b + 1 \in 0 .. Len(rest) /\ 2 \in 1 .. (b + 1) + 1
      BY <1>1, <1>2, <2>4
    <3>2. SubSeq(rest, 1, b + 1) = bits
      BY <1>1, <1>2, <3>1, BeginsWhole
    <3>3. SubSeq(rest, 2, b + 1) = BitsOf(n - 1, b)
      BY <1>1, <3>1, <3>2, PartOfFront
    <3>4. ValueOf(SubSeq(rest, 2, b + 1)) = n - 1
      BY <1>1, <1>3, <3>3, ValueOfBits
    <3>5. (n - 1) + 1 = n
      BY <1>3
    <3>6. GetNsLength(rest) = [n |-> n, used |-> b + 1, repeat |-> FALSE]
      BY <1>5, <2>2, <2>4, <3>4, <3>5 DEF GetNsLength, b
    <3> QED BY <1>1, <1>2, <2>4, <3>6 DEF b
  <2> QED BY <2>3, <2>4
<1> QED BY <1>4, <1>5

-----------------------------------------------------------------------------
(***************************************************************************)
(* Sequences of bits and of parts.                                         *)
(***************************************************************************)
Bits == Seq(Bit)

\* Where e has X and then Y from position p on, it has Y from behind X on.
Advanced(e, p, X, Y) ==
  /\ Len(X) \in Nat /\ p + Len(X) \in 0 .. Len(e)
  /\ \A i \in 1 .. Len(X) : e[p + i] = X[i]
  /\ From(e, p + Len(X) + 1) = Y

\* The rest of a sequence of bits.
LEMMA FromType ==
  ASSUME NEW bits \in Bits, NEW i \in 1 .. Len(bits) + 1
  PROVE  /\ From(bits, i) \in Bits /\ Len(From(bits, i)) = Len(bits) + 1 - i
         /\ \A j \in 1 .. Len(bits) + 1 - i : From(bits, i)[j] = bits[i + j - 1]
BY DEF From, Bits

\* Going on from one part of a sequence to the next.
LEMMA Advance ==
  ASSUME NEW e \in Bits, NEW p \in 0 .. Len(e), NEW X \in Bits, NEW Y \in Bits,
         From(e, p + 1) = X \o Y
  PROVE  Advanced(e, p, X, Y)
<1> DEFINE t == From(e, p + 1)
<1>1. Len(e) \in Nat /\ Len(X) \in Nat /\ Len(Y) \in Nat /\ p \in Nat /\ p <= Len(e)
  BY LenProperties DEF Bits
<1>2. t \in Bits /\ Len(t) = Len(e) - p /\ \A i \in 1 .. Len(e) - p : t[i] = e[p + i]
  BY <1>1 DEF From, Bits
<1>3. /\ X \o Y \in Bits /\ Len(X \o Y) = Len(X) + Len(Y)
      /\ \A i \in 1 .. Len(X) + Len(Y) : (X \o Y)[i] = IF i <= Len(X) THEN X[i] ELSE Y[i - Len(X)]
  BY ConcatProperties DEF Bits
<1>4. t = X \o Y
  OBVIOUS
<1> HIDE DEF t
<1>5. Len(e) - p = Len(X) + Len(Y) /\ p + Len(X) \in 0 .. Len(e)
  BY <1>1, <1>2, <1>3, <1>4
<1>6. ASSUME NEW i \in 1 .. Len(X) PROVE e[p + i] = X[i]
  <2>1. i \in 1 .. Len(e) - p /\ i \in 1 .. Len(X) + Len(Y) /\ i <= Len(X)
    BY <1>1, <1>5
  <2> QED BY <1>2, <1>3, <1>4, <2>1
<1>7. From(e, p + Len(X) + 1) = Y
  <2> DEFINE r == From(e, p + Len(X) + 1)
  <2>1. r \in Bits /\ Len(r) = Len(Y) /\ \A i \in 1 .. Len(Y) : r[i] = e[(p + Len(X)) + i]
    <3> DEFINE q == p + Len(X)
    <3>1. q \in 0 .. Len(e) /\ q \in Nat /\ q + 1 \in 1 .. Len(e) + 1
      BY <1>1, <1>5
    <3>2. Len(Y) = Len(e) - q /\ Len(e) + 1 - (q + 1) = Len(e) - q
      BY <1>1, <1>5
    <3> HIDE DEF q
    <3>3. /\ From(e, q + 1) \in Bits /\ Len(From(e, q + 1)) = Len(e) + 1 - (q + 1)
          /\ \A i \in 1 .. Len(e) + 1 - (q + 1) : From(e, q + 1)[i] = e[(q + 1) + i - 1]
      BY <3>1, FromType, Zenon
    <3>4. \A i \in 1 .. Len(Y) : From(e, q + 1)[i] = e[q + i]
      <4> SUFFICES ASSUME NEW i \in 1 .. Len(Y) PROVE From(e, q + 1)[i] = e[q + i]
        OBVIOUS
      <4>1. (q + 1) + i - 1 = q + i
        BY <1>1, <3>1
      <4> QED BY <3>2, <3>3, <4>1
    <3>5. Len(From(e, q + 1)) = Len(Y)
      BY <3>2, <3>3
    <3> QED BY <3>3, <3>4, <3>5 DEF q
  <2> HIDE DEF r
  <2>2. ASSUME NEW i \in 1 .. Len(Y) PROVE r[i] = Y[i]
    <3>1. Len(X) + i \in 1 .. Len(e) - p /\ Len(X) + i \in 1 .. Len(X) + Len(Y)
          /\ ~(Len(X) + i <= Len(X)) /\ (Len(X) + i) - Len(X) = i
          /\ p + (Len(X) + i) = (p + Len(X)) + i
      BY <1>1, <1>5
    <3>2. t[Len(X) + i] = e[(p + Len(X)) + i]
      BY <1>2, <3>1
    <3>3. t[Len(X) + i] = Y[i]
      BY <1>3, <1>4, <3>1
    <3> QED BY <2>1, <3>2, <3>3
  <2>3. r = Y
    BY <2>1, <2>2, BitsEqual DEF Bits
  <2> QED BY <2>3 DEF r
<1> QED BY <1>1, <1>5, <1>6, <1>7 DEF Advanced

\* The bits of a concatenation.
LEMMA JoinedAt ==
  ASSUME NEW x \in Bits, NEW y \in Bits
  PROVE  /\ \A i \in 1 .. Len(x) : (x \o y)[i] = x[i]
         /\ \A i \in 1 .. Len(y) : (x \o y)[Len(x) + i] = y[i]
<1>1. x \in Seq(Bit) /\ y \in Seq(Bit) /\ Len(x) \in Nat /\ Len(y) \in Nat
  BY DEF Bits
<1>2. ASSUME NEW i \in 1 .. Len(x) PROVE (x \o y)[i] = x[i]
  BY <1>1
<1>3. ASSUME NEW i \in 1 .. Len(y) PROVE (x \o y)[Len(x) + i] = y[i]
  BY <1>1
<1> QED BY <1>2, <1>3

\* A part that begins, and the part that goes on from there.
LEMMA PartsJoin ==
  ASSUME NEW s \in Bits, NEW a \in Nat, NEW b \in Nat, a + b <= Len(s)
  PROVE  SubSeq(s, 1, a) \o SubSeq(s, a + 1, a + b) = SubSeq(s, 1, a + b)
<1> DEFINE l == SubSeq(s, 1, a)
           r == SubSeq(s, a + 1, a + b)
           t == SubSeq(s, 1, a + b)
<1>1. /\ l \in Seq(Bit) /\ Len(l) = a /\ \A i \in 1 .. a : l[i] = s[i]
  BY DEF Bits
<1>2. r \in Seq(Bit) /\ Len(r) = b /\ \A i \in 1 .. b : r[i] = s[a + i]
  BY DEF Bits
<1>3. t \in Seq(Bit) /\ Len(t) = a + b /\ \A i \in 1 .. a + b : t[i] = s[i]
  BY DEF Bits
<1> HIDE DEF l, r, t
<1>4. l \o r \in Seq(Bit) /\ Len(l \o r) = a + b
  BY <1>1, <1>2
<1>5. ASSUME NEW i \in 1 .. a + b PROVE (l \o r)[i] = t[i]
  <2>1. CASE i <= a
    <3>1. i \in 1 .. Len(l) /\ i \in Nat
      BY <1>1, <2>1
    <3>2. (l \o r)[i] = l[i]
      BY <1>1, <1>2, <3>1
    <3> QED BY <1>1, <1>3, <3>1, <3>2
  <2>2. CASE i > a
    <3>1. PICK j \in 1 .. b : i = a + j
      <4>1. i - a \in 1 .. b /\ i = a + (i - a)
        BY <2>2
      <4> QED BY <4>1
    <3>2. j \in 1 .. Len(r) /\ Len(l) + j = i
      BY <1>1, <1>2, <3>1
    <3>3. (l \o r)[Len(l) + j] = r[j]
      BY <1>1, <1>2, <3>2, JoinedAt DEF Bits
    <3>4. t[i] = s[a + j] /\ r[j] = s[a + j]
      BY <1>2, <1>3, <3>1
    <3>5. (l \o r)[i] = r[j]
      BY <3>2, <3>3
    <3> QED BY <3>4, <3>5
  <2>3. i <= a \/ i > a
    OBVIOUS
  <2> QED BY <2>1, <2>2, <2>3
<1>6. l \o r = t
  BY <1>3, <1>4, <1>5, BitsEqual
<1> QED BY <1>6 DEF l, r, t

\* The first of two parts that come next.
LEMMA FirstPart ==
  ASSUME NEW rest \in Bits, NEW X \in Bits, NEW Y \in Bits, Begins(rest, X \o Y)
  PROVE  Begins(rest, X)
<1> SUFFICES ASSUME NEW i \in 1 .. Len(X), i <= Len(rest) PROVE rest[i] = X[i]
  BY DEF Begins
<1>1. Len(X) \in Nat /\ Len(Y) \in Nat /\ Len(X \o Y) = Len(X) + Len(Y) /\ i \in 1 .. Len(X \o Y)
  BY DEF Bits
<1>2. (X \o Y)[i] = X[i]
  BY <1>1 DEF Bits
<1> QED BY <1>1, <1>2 DEF Begins

\* The second of two parts that come next.
LEMMA SecondPart ==
  ASSUME NEW rest \in Bits, NEW X \in Bits, NEW Y \in Bits, Begins(rest, X \o Y),
         NEW n \in Nat, n = Len(X) + Len(Y), n <= Len(rest)
  PROVE  /\ SubSeq(rest, Len(X) + 1, n) = Y /\ Begins(rest, X)
<1>1. /\ Len(X) \in Nat /\ Len(Y) \in Nat /\ Len(rest) \in Nat /\ Len(X \o Y) = n
      /\ \A i \in 1 .. n : (X \o Y)[i] = rest[i]
  <2>1. Len(X) \in Nat /\ Len(Y) \in Nat /\ Len(rest) \in Nat /\ Len(X \o Y) = n
    BY DEF Bits
  <2>2. \A i \in 1 .. n : (X \o Y)[i] = rest[i]
    <3>1. 1 .. n \subseteq 1 .. Len(X \o Y) /\ 1 .. n \subseteq 1 .. Len(rest)
      BY <2>1
    <3> QED BY <2>1, <3>1 DEF Begins
  <2> QED BY <2>1, <2>2
<1>2. \A i \in 1 .. Len(Y) : rest[Len(X) + i] = Y[i]
  <2> SUFFICES ASSUME NEW i \in 1 .. Len(Y) PROVE rest[Len(X) + i] = Y[i]
    OBVIOUS
  <2>1. (X \o Y)[Len(X) + i] = Y[i]
    BY <1>1 DEF Bits
  <2> QED BY <1>1, <2>1
<1>3. \A i \in 1 .. Len(X) : rest[i] = X[i]
  <2> SUFFICES ASSUME NEW i \in 1 .. Len(X) PROVE rest[i] = X[i]
    OBVIOUS
  <2>1. (X \o Y)[i] = X[i]
    BY <1>1 DEF Bits
  <2> QED BY <1>1, <2>1
<1> DEFINE s == SubSeq(rest, Len(X) + 1, n)
<1>4. s \in Seq(Bit) /\ Len(s) = Len(Y) /\ \A i \in 1 .. Len(Y) : s[i] = rest[Len(X) + i]
  BY <1>1 DEF Bits
<1> HIDE DEF s
<1>5. s = Y
  BY <1>2, <1>4, BitsEqual DEF Bits
<1> QED BY <1>3, <1>5 DEF s, Begins

\* Only zeros are worth nothing.
LEMMA ValueOfZeros ==
  ASSUME NEW bits \in Bits, \A i \in 1 .. Len(bits) : bits[i] = 0
  PROVE  ValueOf(bits) = 0
<1>1. Len(bits) \in Nat
  BY DEF Bits
<1>2. PICK f : ValueRun(f, bits)
  BY ValueUnfolds DEF Bits
<1> DEFINE holds == {i \in Nat : f[i] = 0}
<1>3. 0 \in holds
  BY <1>2 DEF ValueRun
<1>4. ASSUME NEW i \in 0 .. Len(bits) - 1, i \in holds PROVE i + 1 \in holds
  <2>1. i + 1 \in 1 .. Len(bits) /\ (i + 1) - 1 = i
    BY <1>1
  <2>2. f[i + 1] = 2 * f[i] + bits[i + 1] /\ bits[i + 1] = 0
    BY <1>2, <2>1 DEF ValueRun
  <2> QED BY <1>4, <2>2
<1>5. Len(bits) \in holds
  <2> HIDE DEF holds
  <2>1. \A i \in 0 .. Len(bits) : i \in holds
    BY <1>1, <1>3, <1>4, UpTo
  <2> QED BY <1>1, <2>1
<1> QED BY <1>2, <1>5 DEF ValueRun

\* Octets and more octets are octets.
LEMMA WholeOctets ==
  ASSUME NEW a \in Nat, a % CHAR_BIT = 0, NEW save \in Nat
  PROVE  (a + save * CHAR_BIT) % CHAR_BIT = 0
<1>1. CHAR_BIT \in Nat /\ CHAR_BIT > 0
  BY PerAssumption
<1>2. PICK q \in Nat : q = a \div CHAR_BIT
  BY <1>1
<1>3. a = CHAR_BIT * q
  BY <1>1, <1>2
<1>4. PICK t \in Nat : t = q + save
  OBVIOUS
<1>5. CHAR_BIT * t = a + save * CHAR_BIT
  BY <1>1, <1>3, <1>4
<1>6. PICK s \in Nat : s = a + save * CHAR_BIT
  BY <1>1, <1>4, <1>5
<1>7. s = CHAR_BIT * t + 0 /\ 0 \in 0 .. CHAR_BIT - 1
  BY <1>1, <1>5, <1>6
<1>8. s % CHAR_BIT = 0
  BY <1>1, <1>7, DivModUnique
<1> QED BY <1>6, <1>8

\* What the recursion of FlattenSeq computes.
FlattenRun(f, parts) ==
  /\ f[0] = <<>> /\ \A i \in 0 .. Len(parts) : f[i] \in Bits
  /\ \A i \in 1 .. Len(parts) : f[i] = f[i - 1] \o parts[i]
  /\ FlattenSeq(parts) = f[Len(parts)]

Parts == Seq(Bits)

\* The function that FlattenSeq is defined by.
LEMMA FlattenUnfolds ==
  ASSUME NEW parts \in Parts
  PROVE  \E f : FlattenRun(f, parts)
<1> DEFINE n == Len(parts)
<1>1. n \in Nat
  BY LenProperties DEF Parts
<1>2. <<>> \in Bits
  BY DEF Bits
<1>3. CASE n = 0
  <2> DEFINE f == [i \in 0 .. 0 |-> <<>>]
  <2>1. f[0] = <<>> /\ parts = <<>>
    BY <1>3, EmptySeq DEF Parts
  <2>2. FlattenSeq(parts) = f[n]
    BY <1>3, <2>1 DEF FlattenSeq
  <2> HIDE DEF f
  <2>3. FlattenRun(f, parts)
    BY <1>2, <1>3, <2>1, <2>2 DEF FlattenRun
  <2> QED BY <2>3
<1>4. CASE n # 0
  <2> DEFINE Longer(x, i) == x \o parts[i]
             Value(g, i) == IF i = 1 THEN parts[i] ELSE Longer(g[i - 1], i)
             step == [i \in 1 .. n |-> [x \in Bits |-> Longer(x, i)]]
             flatten == CHOOSE g : g = [i \in 1 .. n |-> Value(g, i)]
  <2>1. FlattenSeq(parts) = flatten[n]
    BY <1>4 DEF FlattenSeq
  <2>2. ASSUME NEW i \in 1 .. n PROVE parts[i] \in Bits
    BY DEF Parts
  <2>3. ASSUME NEW i \in 1 .. n, NEW x \in Bits PROVE Longer(x, i) \in Bits
    BY <2>2, ConcatProperties DEF Bits
  <2>4. ASSUME NEW i \in 1 .. n PROVE Longer(<<>>, i) = parts[i]
    BY <2>2, ConcatEmptySeq DEF Bits
  <2>5. \A x, i : Longer(x, i) = x \o parts[i]
    OBVIOUS
  <2> HIDE DEF n, Longer
  <2>6. step \in StepsUp(n, Bits)
    BY <2>3 DEF StepsUp
  <2>7. \A i \in 1 .. n : \A x \in Bits : step[i][x] = Longer(x, i)
    OBVIOUS
  <2> HIDE DEF step
  <2>8. PICK r : RunUp(r, n, Bits, <<>>, step)
    BY <1>1, <1>2, <2>6, RecursionUp
  <2> DEFINE g == [i \in 1 .. n |-> r[i]]
  <2>9. ASSUME NEW i \in 1 .. n PROVE g[i] = Value(g, i)
    <3>1. r[i] = Longer(r[i - 1], i) /\ r[0] = <<>>
      <4>1. r \in [0 .. n -> Bits] /\ r[0] = <<>> /\ r[i] = step[i][r[i - 1]] /\ i - 1 \in 0 .. n
        BY <2>8, <1>1 DEF RunUp
      <4>2. r[i - 1] \in Bits
        BY <4>1
      <4> QED BY <2>7, <4>1, <4>2
    <3>2. CASE i = 1
      <4>1. r[i - 1] = <<>>
        BY <3>1, <3>2
      <4> QED BY <2>4, <3>1, <3>2, <4>1
    <3>3. CASE i # 1
      <4>1. i - 1 \in 1 .. n
        BY <1>1, <3>3
      <4> QED BY <3>1, <3>3, <4>1
    <3> QED BY <3>2, <3>3
  <2>10. g = [i \in 1 .. n |-> Value(g, i)]
    <3> HIDE DEF Value
    <3> QED BY <2>9
  <2>11. flatten = [i \in 1 .. n |-> Value(flatten, i)]
    <3> HIDE DEF Value, g
    <3> QED BY <2>10, Zenon
  <2> HIDE DEF flatten, g
  <2> DEFINE f == [i \in 0 .. n |-> IF i = 0 THEN <<>> ELSE flatten[i]]
  <2>12. f[0] = <<>> /\ \A i \in 1 .. n : f[i] = flatten[i]
    BY <1>1
  <2> HIDE DEF f
  <2>13. ASSUME NEW i \in 1 .. n PROVE f[i] = Longer(f[i - 1], i)
    <3>1. f[i] = flatten[i] /\ flatten[i] = Value(flatten, i)
      BY <2>11, <2>12
    <3>2. CASE i = 1
      <4>1. f[i - 1] = <<>> /\ f[i] = parts[i]
        BY <2>12, <3>1, <3>2
      <4> QED BY <2>4, <4>1
    <3>3. CASE i # 1
      <4>1. i - 1 \in 1 .. n
        BY <1>1, <3>3
      <4>2. f[i - 1] = flatten[i - 1]
        BY <2>12, <4>1
      <4> QED BY <3>1, <3>3, <4>2
    <3> QED BY <3>2, <3>3
  <2>14. GoesUp(f, n, Bits, step)
    BY <1>2, <2>7, <2>12, <2>13 DEF GoesUp
  <2>15. \A i \in 0 .. n : f[i] \in Bits
    BY <1>1, <2>6, <2>14, RecursionStays
  <2>16. FlattenSeq(parts) = f[n]
    <3>1. n \in 1 .. n
      BY <1>1, <1>4
    <3> QED BY <2>1, <2>12, <3>1
  <2>17. FlattenRun(f, parts)
    BY <2>5, <2>12, <2>13, <2>15, <2>16 DEF FlattenRun, n
  <2> QED BY <2>17
<1> QED BY <1>3, <1>4

\* Concatenation of bits is associative.
LEMMA Associates == \A x, y, z \in Bits : (x \o y) \o z = x \o (y \o z)
BY ConcatAssociative DEF Bits

\* The first part comes first.
LEMMA FlattenFirst ==
  ASSUME NEW parts \in Parts, NEW tail \in Parts, Len(parts) = Len(tail) + 1,
         \A i \in 1 .. Len(tail) : tail[i] = parts[i + 1]
  PROVE  FlattenSeq(parts) = parts[1] \o FlattenSeq(tail)
<1> DEFINE n == Len(tail)
<1>1. n \in Nat /\ Len(parts) = n + 1
  BY LenProperties DEF Parts
<1>2. \A i \in 1 .. n + 1 : parts[i] \in Bits
  BY <1>1 DEF Parts
<1>3. \A i \in 1 .. n : tail[i] = parts[i + 1]
  OBVIOUS
<1> HIDE DEF n
<1>4. PICK f : FlattenRun(f, parts)
  BY FlattenUnfolds
<1>5. PICK g : FlattenRun(g, tail)
  BY FlattenUnfolds
<1>6. /\ f[0] = <<>> /\ \A i \in 1 .. n + 1 : f[i] = f[i - 1] \o parts[i]
      /\ FlattenSeq(parts) = f[n + 1]
  BY <1>1, <1>4 DEF FlattenRun
<1>7. /\ g[0] = <<>> /\ \A i \in 1 .. n : g[i] = g[i - 1] \o tail[i]
      /\ \A i \in 0 .. n : g[i] \in Bits
      /\ FlattenSeq(tail) = g[n]
  BY <1>5 DEF FlattenRun, n
<1>8. 1 \in 1 .. n + 1 /\ parts[1] \in Bits
  BY <1>1, <1>2
<1> DEFINE holds == {i \in Nat : f[i + 1] = parts[1] \o g[i]}
<1>9. 0 \in holds
  <2>1. f[1] = <<>> \o parts[1]
    <3>1. 1 - 1 = 0
      OBVIOUS
    <3> QED BY <1>6, <1>8, <3>1
  <2>2. <<>> \o parts[1] = parts[1] /\ parts[1] \o <<>> = parts[1]
    BY <1>8, ConcatEmptySeq DEF Bits
  <2>3. 0 + 1 = 1
    OBVIOUS
  <2> QED BY <1>7, <2>1, <2>2, <2>3
<1>10. ASSUME NEW i \in 0 .. n - 1, i \in holds PROVE i + 1 \in holds
  <2>1. /\ i + 1 \in 1 .. n /\ (i + 1) - 1 = i /\ i \in 0 .. n /\ i + 1 \in Nat
        /\ (i + 1) + 1 \in 1 .. n + 1 /\ ((i + 1) + 1) - 1 = i + 1
    BY <1>1
  <2>2. f[(i + 1) + 1] = f[i + 1] \o parts[(i + 1) + 1]
    BY <1>6, <2>1
  <2>3. f[i + 1] = parts[1] \o g[i]
    BY <1>10
  <2>4. g[i + 1] = g[i] \o parts[(i + 1) + 1]
    BY <1>3, <1>7, <2>1
  <2>5. g[i] \in Bits /\ parts[(i + 1) + 1] \in Bits
    BY <1>2, <1>7, <2>1
  <2>6. f[(i + 1) + 1] = parts[1] \o g[i + 1]
    <3>1. (parts[1] \o g[i]) \o parts[(i + 1) + 1] = parts[1] \o (g[i] \o parts[(i + 1) + 1])
      BY <1>8, <2>5, Associates, Zenon
    <3> QED BY <2>2, <2>3, <2>4, <3>1, Zenon
  <2> QED BY <2>1, <2>6
<1>11. n \in holds
  <2> HIDE DEF holds
  <2>1. \A i \in 0 .. n : i \in holds
    BY <1>1, <1>9, <1>10, UpTo
  <2> QED BY <1>1, <2>1
<1> QED BY <1>6, <1>7, <1>11

\* What is left of the parts, from the ith on.
Onwards(parts, i) == FlattenSeq(From(parts, i))

\* What is left is parts, and bits.
LEMMA OnwardsType ==
  ASSUME NEW parts \in Parts, NEW i \in 1 .. Len(parts) + 1
  PROVE  From(parts, i) \in Parts /\ Onwards(parts, i) \in Bits
<1>1. Len(parts) \in Nat
  BY LenProperties DEF Parts
<1>2. From(parts, i) \in Parts
  BY <1>1 DEF From, Parts
<1>3. PICK f : FlattenRun(f, From(parts, i))
  BY <1>2, FlattenUnfolds
<1>4. Len(From(parts, i)) \in 0 .. Len(From(parts, i))
  BY <1>2, LenProperties DEF Parts
<1> QED BY <1>2, <1>3, <1>4 DEF FlattenRun, Onwards

\* Going from one part to the next.
LEMMA OnwardsNext ==
  ASSUME NEW parts \in Parts, NEW i \in 1 .. Len(parts)
  PROVE  /\ parts[i] \in Bits /\ Onwards(parts, i + 1) \in Bits
         /\ Onwards(parts, i) = parts[i] \o Onwards(parts, i + 1)
<1>1. Len(parts) \in Nat /\ i \in 1 .. Len(parts) + 1 /\ i + 1 \in 1 .. Len(parts) + 1 /\ i \in Nat
  BY LenProperties DEF Parts
<1> DEFINE s == From(parts, i)
           t == From(parts, i + 1)
<1>2. s \in Parts /\ t \in Parts /\ Onwards(parts, i + 1) \in Bits
  BY <1>1, OnwardsType
<1>3. /\ Len(s) = (Len(parts) - i) + 1
      /\ \A k \in 1 .. (Len(parts) - i) + 1 : s[k] = parts[(i + k) - 1]
  BY <1>1 DEF From, Parts
<1>4. /\ Len(t) = Len(parts) - i
      /\ \A k \in 1 .. Len(parts) - i : t[k] = parts[((i + 1) + k) - 1]
  BY <1>1 DEF From, Parts
<1> HIDE DEF s, t
<1>5. s[1] = parts[i] /\ Len(s) = Len(t) + 1
  <2>1. 1 \in 1 .. (Len(parts) - i) + 1 /\ (i + 1) - 1 = i
    BY <1>1
  <2> QED BY <1>1, <1>3, <1>4, <2>1
<1>6. ASSUME NEW k \in 1 .. Len(t) PROVE t[k] = s[k + 1]
  <2>1. k + 1 \in 1 .. (Len(parts) - i) + 1 /\ (i + (k + 1)) - 1 = ((i + 1) + k) - 1
    BY <1>1, <1>4
  <2> QED BY <1>3, <1>4, <2>1
<1>7. FlattenSeq(s) = s[1] \o FlattenSeq(t)
  BY <1>2, <1>5, <1>6, FlattenFirst
<1>8. parts[i] \in Bits
  BY DEF Parts
<1> QED BY <1>2, <1>5, <1>7, <1>8 DEF Onwards, s, t

\* All of the parts, and none of them.
LEMMA OnwardsEnds ==
  ASSUME NEW parts \in Parts
  PROVE  /\ Onwards(parts, 1) = FlattenSeq(parts) /\ FlattenSeq(parts) \in Bits
         /\ Onwards(parts, Len(parts) + 1) = <<>>
<1>1. Len(parts) \in Nat /\ 1 \in 1 .. Len(parts) + 1
  BY LenProperties DEF Parts
<1>2. From(parts, 1) = parts
  BY SubSeqFull DEF From, Parts
<1>3. From(parts, Len(parts) + 1) = <<>>
  BY <1>1, SubSeqEmpty DEF From
<1>4. FlattenSeq(<<>>) = <<>>
  BY DEF FlattenSeq
<1>5. Onwards(parts, 1) \in Bits
  BY <1>1, OnwardsType
<1> QED BY <1>2, <1>3, <1>4, <1>5 DEF Onwards

-----------------------------------------------------------------------------
(***************************************************************************)
(* Open types.                                                             *)
(***************************************************************************)
\* A complete encoding is the bits, then zeros up to whole octets.
LEMMA CompleteType ==
  ASSUME NEW bits \in Bits
  PROVE  /\ Complete(bits) \in Bits /\ Padding(bits) \in 0 .. CHAR_BIT
         /\ Len(Complete(bits)) = Len(bits) + Padding(bits)
         /\ \E size \in Nat : size >= 1 /\ Len(Complete(bits)) = size * CHAR_BIT
         /\ bits # <<>> => Padding(bits) < CHAR_BIT
         /\ SubSeq(Complete(bits), 1, Len(bits)) = bits
         /\ \A i \in 1 .. Len(Complete(bits)) : i > Len(bits) => Complete(bits)[i] = 0
<1> DEFINE c == CHAR_BIT
           n == Len(bits)
           p == Padding(bits)
           zeros == [i \in 1 .. p |-> 0]
           all == Complete(bits)
<1>1. c \in Nat /\ c >= 3 /\ n \in Nat
  BY Sizes, LenProperties DEF Bits
<1>2. p \in 0 .. c /\ (bits # <<>> => p < c) /\ \E size \in Nat : size >= 1 /\ n + p = size * c
  <2>1. CASE bits = <<>>
    <3>1. p = c /\ n = 0
      BY <2>1 DEF Padding
    <3>2. PICK one \in Nat : one = 1
      OBVIOUS
    <3> HIDE DEF p, n
    <3>3. n + p = one * c /\ one >= 1
      BY <1>1, <3>1, <3>2
    <3>4. p \in 0 .. c
      BY <1>1, <3>1
    <3>5. \E size \in Nat : size >= 1 /\ n + p = size * c
      BY <3>2, <3>3, Zenon
    <3> QED BY <2>1, <3>4, <3>5, Zenon
  <2>2. CASE bits # <<>>
    <3> DEFINE q == (-n) \div c
               r == (-n) % c
    <3>1. p = r
      BY <2>2 DEF Padding
    <3>2. q \in Int /\ r \in 0 .. c - 1 /\ -n = c * q + r
      BY <1>1
    <3> HIDE DEF q, r, p, n
    <3>3. n + p = (-q) * c
      BY <1>1, <3>1, <3>2
    <3>4. n >= 1
      BY <2>2, EmptySeq DEF n, Bits
    <3>5. -q >= 1
      <4>1. -q < 1 => (-q) * c <= 0
        BY <1>1, <3>2
      <4> QED BY <1>1, <3>1, <3>2, <3>3, <3>4, <4>1
    <3>6. PICK size \in Nat : size = -q
      BY <3>2, <3>5
    <3>7. size >= 1 /\ n + p = size * c
      BY <3>3, <3>5, <3>6
    <3>8. \E m \in Nat : m >= 1 /\ n + p = m * c
      BY <3>6, <3>7, Zenon
    <3>9. p \in 0 .. c /\ p < c
      BY <1>1, <3>1, <3>2
    <3> QED BY <3>8, <3>9, Zenon
  <2> QED BY <2>1, <2>2
<1> HIDE DEF p, c, n
<1>3. zeros \in Bits /\ Len(zeros) = p /\ \A i \in 1 .. p : zeros[i] = 0
  <2>1. p \in Nat /\ 0 \in Bit
    BY <1>1, <1>2 DEF Bit
  <2>2. zeros \in [1 .. p -> Bit]
    BY <2>1
  <2>3. zeros \in Bits
    BY <2>1, <2>2, SeqDef DEF Bits
  <2>4. Len(zeros) = p
    BY <2>1, <2>2, <2>3, LenProperties DEF Bits
  <2> QED BY <2>3, <2>4
<1>4. all = bits \o zeros
  BY DEF Complete, p
<1> HIDE DEF all, zeros
<1>5. /\ all \in Bits /\ Len(all) = n + p
      /\ \A i \in 1 .. n + p : all[i] = IF i <= n THEN bits[i] ELSE zeros[i - n]
  BY <1>3, <1>4, ConcatProperties DEF Bits, n
<1>6. SubSeq(all, 1, n) = bits
  <2>1. /\ SubSeq(all, 1, n) \in Bits /\ Len(SubSeq(all, 1, n)) = n
        /\ \A i \in 1 .. n : SubSeq(all, 1, n)[i] = all[i]
    BY <1>1, <1>2, <1>5 DEF Bits
  <2>2. \A i \in 1 .. n : all[i] = bits[i]
    BY <1>1, <1>2, <1>5
  <2> QED BY <2>1, <2>2, BitsEqual DEF n, Bits
<1>7. \A i \in 1 .. n + p : i > n => all[i] = 0
  <2> SUFFICES ASSUME NEW i \in 1 .. n + p, i > n PROVE all[i] = 0
    OBVIOUS
  <2>1. i - n \in 1 .. p /\ ~(i <= n)
    BY <1>1, <1>2
  <2> QED BY <1>3, <1>5, <2>1
<1> QED BY <1>2, <1>5, <1>6, <1>7 DEF all, c, n, p

\* The loop of uper_open_type_put at the kth of size octets: what it puts for a
\* fragment, and what comes after.
Piece(whole, k, save) == SubSeq(whole, (k - 1) * CHAR_BIT + 1, (k - 1 + save) * CHAR_BIT)

Eom(n) == IF NeedEom(n) THEN PutLength(0) ELSE <<>>

PutAt(put, whole, size, k) ==
  LET n    == size + 1 - k
      save == MaySave(n)
  IN PutLength(n) \o Piece(whole, k, save) \o Eom(n)
     \o (IF save = n THEN <<>> ELSE put[k + save])

\* How much of what is left a fragment takes, and where the next one begins.
LEMMA SaveBounds ==
  ASSUME NEW n \in Nat
  PROVE  /\ MaySave(n) \in 0 .. n
         /\ n < Unit => MaySave(n) = n /\ ~NeedEom(n)
         /\ MaySave(n) # n => MaySave(n) >= 1 /\ n >= Unit
         /\ n >= Unit => (NeedEom(n) <=> MaySave(n) = n)
<1>1. Unit \in Nat
  BY Sizes
<1>2. CASE n < Unit
  BY <1>1, <1>2 DEF MaySave, NeedEom
<1>3. CASE n >= Unit
  BY <1>1, <1>3, UnitsFit
<1> QED BY <1>1, <1>2, <1>3

\* The octets of a fragment.
LEMMA PieceType ==
  ASSUME NEW size \in Nat, NEW whole \in Bits, Len(whole) = size * CHAR_BIT,
         NEW k \in 1 .. size + 1, NEW save \in 0 .. (size + 1) - k
  PROVE  /\ Piece(whole, k, save) \in Bits /\ Len(Piece(whole, k, save)) = save * CHAR_BIT
         /\ (k - 1) * CHAR_BIT \in 0 .. Len(whole)
         /\ (k - 1 + save) * CHAR_BIT = (k - 1) * CHAR_BIT + save * CHAR_BIT
         /\ (k - 1 + save) * CHAR_BIT \in 0 .. Len(whole)
<1> DEFINE c == CHAR_BIT
           a == (k - 1) * c
           b == save * c
<1>1. c \in Nat /\ c >= 3
  BY Sizes
<1>2. a \in Nat /\ b \in Nat /\ (k - 1 + save) * c = a + b
  BY <1>1
<1>3. a + b <= size * c
  <2>1. k - 1 + save <= size /\ k - 1 + save \in Nat
    OBVIOUS
  <2>2. (k - 1 + save) * c <= size * c
    BY <1>1, <2>1
  <2> QED BY <1>2, <2>2
<1>4. Piece(whole, k, save) = SubSeq(whole, a + 1, a + b)
  BY <1>2 DEF Piece
<1> HIDE DEF a, b
<1>5. Len(whole) \in Nat /\ a + b <= Len(whole)
  BY <1>3, LenProperties DEF Bits, c
<1>6. SubSeq(whole, a + 1, a + b) \in Bits /\ Len(SubSeq(whole, a + 1, a + b)) = b
  BY <1>2, <1>5 DEF Bits
<1>7. a \in 0 .. Len(whole) /\ a + b \in 0 .. Len(whole)
  BY <1>2, <1>5
<1> QED BY <1>2, <1>4, <1>6, <1>7 DEF a, b, c

\* Concatenations of bits are bits.
LEMMA Joined ==
  \A x, y \in Bits : x \o y \in Bits /\ Len(x \o y) = Len(x) + Len(y) /\ Len(x) \in Nat
BY ConcatProperties, LenProperties DEF Bits

\* Without bits before or after.
LEMMA JoinedEmpty == <<>> \in Bits /\ \A x \in Bits : x \o <<>> = x /\ <<>> \o x = x
BY ConcatEmptySeq DEF Bits

\* What is put at an octet is bits if what is put further on is.
LEMMA PutAtType ==
  ASSUME NEW size \in Nat, NEW whole \in Bits, Len(whole) = size * CHAR_BIT,
         NEW k \in 1 .. size + 1, NEW put,
         \A i \in k + 1 .. size + 1 : put[i] \in Bits
  PROVE  PutAt(put, whole, size, k) \in Bits
<1> DEFINE n == size + 1 - k
           save == MaySave(n)
           more == IF save = n THEN <<>> ELSE put[k + save]
<1>1. n \in Nat /\ n = (size + 1) - k
  OBVIOUS
<1> HIDE DEF n
<1>2. save \in 0 .. n /\ (save # n => save >= 1)
  BY <1>1, SaveBounds
<1> HIDE DEF save
<1>3. more \in Bits
  <2>1. CASE save = n
    BY <2>1, JoinedEmpty
  <2>2. CASE save # n
    <3>1. k + save \in k + 1 .. size + 1
      BY <1>1, <1>2, <2>2
    <3> QED BY <2>2, <3>1
  <2> QED BY <2>1, <2>2
<1> HIDE DEF more
<1>4. PutLength(n) \in Bits /\ PutLength(0) \in Bits
  BY <1>1, PutLengthType DEF Bits
<1>5. Piece(whole, k, save) \in Bits
  BY <1>1, <1>2, PieceType
<1>6. Eom(n) \in Bits
  BY <1>4, JoinedEmpty DEF Eom
<1>7. PutLength(n) \o Piece(whole, k, save) \o Eom(n) \o more \in Bits
  BY <1>3, <1>4, <1>5, <1>6, Joined
<1> QED BY <1>7 DEF PutAt, more, save, n

\* The function that Fragments is defined by.
LEMMA FragmentsUnfold ==
  ASSUME NEW size \in Nat, NEW whole \in Bits, Len(whole) = size * CHAR_BIT
  PROVE  \A k \in 1 .. size + 1 : /\ Fragments(whole)[k] \in Bits
                                  /\ Fragments(whole)[k] = PutAt(Fragments(whole), whole, size, k)
<1> DEFINE N == size + 1
           V == Bits
           Value(put, k) == PutAt(put, whole, size, k)
           put == Fragments(whole)
           step == [k \in 1 .. N |-> [f \in [1 .. N -> V] |-> Value(f, k)]]
<1>1. Len(whole) \div CHAR_BIT = size
  <2>1. /\ CHAR_BIT \in Nat /\ CHAR_BIT > 0 /\ Len(whole) \in Nat
        /\ Len(whole) = CHAR_BIT * size + 0 /\ 0 \in 0 .. CHAR_BIT - 1
    BY Sizes
  <2> QED BY <2>1, DivModUnique
<1>2. put = CHOOSE f : f = [k \in 1 .. N |-> Value(f, k)]
  BY <1>1 DEF Fragments, PutAt, Piece, Eom
<1>3. ASSUME NEW k \in 1 .. N, NEW f, \A i \in k + 1 .. N : f[i] \in V
      PROVE  Value(f, k) \in V
  BY <1>3, PutAtType
<1>4. ASSUME NEW k \in 1 .. N, NEW f, NEW g, \A i \in k + 1 .. N : f[i] = g[i]
      PROVE  Value(f, k) = Value(g, k)
  <2> DEFINE n == size + 1 - k
             save == MaySave(n)
  <2>1. n \in Nat /\ n = N - k
    OBVIOUS
  <2> HIDE DEF n
  <2>2. save \in 0 .. n /\ (save # n => save >= 1)
    BY <2>1, SaveBounds
  <2> HIDE DEF save
  <2>3. save # n => k + save \in k + 1 .. N
    BY <2>1, <2>2
  <2>4. (IF save = n THEN <<>> ELSE f[k + save]) = (IF save = n THEN <<>> ELSE g[k + save])
    BY <1>4, <2>3
  <2> QED BY <2>4 DEF PutAt, save, n
<1>5. N \in Nat
  OBVIOUS
<1> HIDE DEF N, Value, put
<1>6. step \in StepsDown(N, V)
  <2>1. step \in [1 .. N -> [[1 .. N -> V] -> V]]
    <3>1. ASSUME NEW k \in 1 .. N, NEW f \in [1 .. N -> V] PROVE Value(f, k) \in V
      <4>1. \A i \in k + 1 .. N : f[i] \in V
        BY <1>5
      <4> QED BY <1>3, <4>1
    <3> QED BY <3>1
  <2>2. ASSUME NEW i \in 1 .. N, NEW f \in [1 .. N -> V], NEW g \in [1 .. N -> V],
               \A k \in i + 1 .. N : f[k] = g[k]
        PROVE  step[i][f] = step[i][g]
    <3>1. Value(f, i) = Value(g, i)
      BY <1>4, <2>2
    <3> QED BY <3>1
  <2> HIDE DEF step
  <2> QED BY <2>1, <2>2 DEF StepsDown
<1>7. \A k \in 1 .. N : \A f \in [1 .. N -> V] : step[k][f] = Value(f, k)
  OBVIOUS
<1> HIDE DEF step
<1>8. PICK f : RunDown(f, N, V, step)
  <2>1. <<>> \in V
    BY JoinedEmpty
  <2> QED BY <1>5, <1>6, <2>1, RecursionDown
<1>9. f = [k \in 1 .. N |-> Value(f, k)]
  BY <1>7, <1>8 DEF RunDown
<1>10. put = [k \in 1 .. N |-> Value(put, k)]
  BY <1>2, <1>9, Zenon
<1>11. \A k \in 1 .. N : put[k] = Value(put, k)
  BY <1>10
<1> DEFINE holds == {m \in Nat : \A k \in 1 .. N : k > N - m => put[k] \in V}
<1>12. 0 \in holds
  BY <1>5
<1>13. ASSUME NEW m \in 0 .. N - 1, m \in holds PROVE m + 1 \in holds
  <2> SUFFICES ASSUME NEW k \in 1 .. N, k > N - (m + 1) PROVE put[k] \in V
    BY <1>5
  <2>1. \A i \in k + 1 .. N : put[i] \in V
    <3> SUFFICES ASSUME NEW i \in k + 1 .. N PROVE put[i] \in V
      OBVIOUS
    <3>1. i \in 1 .. N /\ i > N - m
      BY <1>5
    <3> QED BY <1>13, <3>1
  <2>2. Value(put, k) \in V
    BY <1>3, <2>1
  <2> QED BY <1>11, <2>2
<1>14. N \in holds
  <2> HIDE DEF holds
  <2>1. \A i \in 0 .. N : i \in holds
    BY <1>5, <1>12, <1>13, UpTo
  <2> QED BY <1>5, <2>1
<1>15. \A k \in 1 .. N : put[k] \in V
  BY <1>5, <1>14
<1> QED BY <1>11, <1>15 DEF N, Value, put

\* A fragment, and what comes after: another one if it was of whole units.
LEMMA FragmentNext ==
  ASSUME NEW size \in Nat, NEW whole \in Bits, Len(whole) = size * CHAR_BIT,
         NEW k \in 1 .. size + 1, NEW n \in Nat, n = (size + 1) - k
  PROVE  LET more == IF n >= Unit THEN Fragments(whole)[k + MaySave(n)] ELSE <<>>
         IN /\ more \in Bits
            /\ n >= Unit => k + MaySave(n) \in 1 .. size + 1
            /\ Fragments(whole)[k] = (PutLength(n) \o Piece(whole, k, MaySave(n))) \o more
<1> DEFINE put == Fragments(whole)
           save == MaySave(n)
           more == IF n >= Unit THEN put[k + save] ELSE <<>>
           a == PutLength(n)
           b == Piece(whole, k, save)
<1>1. Unit \in Nat /\ Unit > 1
  BY Sizes
<1>2. /\ save \in 0 .. n
      /\ n < Unit => save = n /\ ~NeedEom(n)
      /\ n >= Unit => (NeedEom(n) <=> save = n)
  BY SaveBounds
<1>3. a \in Bits /\ b \in Bits /\ PutLength(0) \in Bits
  <2>1. save \in 0 .. (size + 1) - k
    BY <1>2
  <2> QED BY <2>1, PieceType, PutLengthType DEF Bits
<1>4. \A i \in 1 .. size + 1 : put[i] \in Bits /\ put[i] = PutAt(put, whole, size, i)
  BY FragmentsUnfold
<1>5. k + save \in 1 .. size + 1
  BY <1>2
<1>6. put[k] = a \o b \o Eom(n) \o (IF save = n THEN <<>> ELSE put[k + save])
  <2>1. size + 1 - k = n
    OBVIOUS
  <2>2. put[k] = PutAt(put, whole, size, k)
    BY <1>4
  <2> HIDE DEF put
  <2> QED BY <2>1, <2>2 DEF PutAt
<1> HIDE DEF put, save, a, b
<1>7. a \o b \in Bits
  BY <1>3, Joined
<1>8. CASE n < Unit
  <2>1. put[k] = a \o b \o <<>> \o <<>>
    BY <1>2, <1>6, <1>8 DEF Eom
  <2>2. put[k] = (a \o b) \o <<>>
    BY <1>7, <2>1, JoinedEmpty
  <2>3. ~(n >= Unit)
    BY <1>1, <1>8
  <2> QED BY <2>2, <2>3, JoinedEmpty DEF a, b, put, save
<1>9. CASE n >= Unit /\ save = n
  <2>1. put[k] = a \o b \o PutLength(0) \o <<>>
    BY <1>2, <1>6, <1>9 DEF Eom
  <2>2. put[k] = (a \o b) \o PutLength(0)
    BY <1>3, <1>7, <2>1, Joined, JoinedEmpty
  <2>3. put[k + save] = PutLength(0)
    <3> DEFINE last == size + 1
    <3>1. k + save = last /\ last \in 1 .. size + 1 /\ size + 1 - last = 0
      BY <1>9
    <3> HIDE DEF last
    <3>2. put[last] = PutAt(put, whole, size, last)
      BY <1>4, <3>1
    <3>3. MaySave(0) = 0 /\ ~NeedEom(0)
      BY <1>1, SaveBounds
    <3>4. Piece(whole, last, 0) = <<>>
      <4>1. 0 \in 0 .. (size + 1) - last
        BY <3>1 DEF last
      <4>2. Piece(whole, last, 0) \in Bits /\ Len(Piece(whole, last, 0)) = 0 * CHAR_BIT
        BY <3>1, <4>1, PieceType
      <4>3. 0 * CHAR_BIT = 0
        BY Sizes
      <4> QED BY <4>2, <4>3, EmptySeq DEF Bits
    <3>5. PutAt(put, whole, size, last) = PutLength(0) \o <<>> \o <<>> \o <<>>
      BY <3>1, <3>3, <3>4 DEF PutAt, Eom
    <3>6. PutLength(0) \o <<>> = PutLength(0)
      BY <1>3, JoinedEmpty
    <3> QED BY <3>1, <3>2, <3>5, <3>6
  <2> QED BY <1>3, <1>5, <1>9, <2>2, <2>3 DEF a, b, put, save
<1>10. CASE n >= Unit /\ save # n
  <2>1. put[k] = a \o b \o <<>> \o put[k + save]
    BY <1>2, <1>6, <1>10 DEF Eom
  <2>2. put[k] = (a \o b) \o put[k + save]
    BY <1>7, <2>1, JoinedEmpty
  <2>3. put[k + save] \in Bits
    BY <1>4, <1>5
  <2> QED BY <1>5, <1>10, <2>2, <2>3 DEF a, b, put, save
<1>11. n < Unit \/ (n >= Unit /\ save = n) \/ (n >= Unit /\ save # n)
  BY <1>1
<1> QED BY <1>8, <1>9, <1>10, <1>11, Zenon

-----------------------------------------------------------------------------
(***************************************************************************)
(* Structures and their encodings.                                         *)
(***************************************************************************)
\* The members of the type, in every version.
LEMMA Members ==
  /\ Len(Root) \in Nat /\ DOMAIN Root = 1 .. Len(Root)
  /\ Len(Additions) \in Nat /\ DOMAIN Additions = 1 .. Len(Additions)
  /\ \A i \in 1 .. Len(Root) : IsMember(Root[i]) /\ (Root[i].default => Root[i].optional)
  /\ \A i \in 1 .. Len(Additions) : IsMember(Additions[i])
<1>1. Root \in Seq(Range(Root)) /\ Additions \in Seq(Range(Additions))
  BY SequenceTypeAssumption
<1>2. Len(Root) \in Nat /\ DOMAIN Root = 1 .. Len(Root)
  BY <1>1, LenProperties
<1>3. Len(Additions) \in Nat /\ DOMAIN Additions = 1 .. Len(Additions)
  BY <1>1, LenProperties
<1> QED BY <1>2, <1>3, SequenceTypeAssumption

\* How many members a version has beyond the root.
Extra(version) == IF version = Closed THEN 0 ELSE version

\* The members of a version are the root and its additions.
LEMMA ElementsOf ==
  ASSUME NEW version \in Versions
  PROVE  /\ Extra(version) \in 0 .. Len(Additions)
         /\ Len(Elements(version)) = Len(Root) + Extra(version)
         /\ \A i \in 1 .. Len(Root) : Elements(version)[i] = Root[i]
         /\ \A i \in 1 .. Extra(version) : Elements(version)[Len(Root) + i] = Additions[i]
<1> DEFINE S == Range(Root) \cup Range(Additions)
<1>1. Root \in Seq(S) /\ Additions \in Seq(S)
  <2>1. Root \in Seq(Range(Root)) /\ Additions \in Seq(Range(Additions))
    BY SequenceTypeAssumption
  <2> QED BY <2>1, SeqMonotonic
<1> HIDE DEF S
<1>2. Len(Root) \in Nat /\ Len(Additions) \in Nat
  BY Members
<1>3. CASE version = Closed
  <2>1. Extra(version) = 0 /\ Elements(version) = Root
    BY <1>3 DEF Extra, Elements
  <2> QED BY <1>2, <2>1
<1>4. CASE version # Closed
  <2>1. version \in 0 .. Len(Additions)
    BY <1>2, <1>4 DEF Versions, Closed
  <2> DEFINE more == SubSeq(Additions, 1, version)
  <2>2. more \in Seq(S) /\ Len(more) = version /\ \A i \in 1 .. version : more[i] = Additions[i]
    BY <1>1, <1>2, <2>1
  <2>3. Extra(version) = version /\ Elements(version) = Root \o more
    BY <1>4 DEF Extra, Elements
  <2> HIDE DEF more
  <2>4. /\ Len(Root \o more) = Len(Root) + version
        /\ \A i \in 1 .. Len(Root) + version :
              (Root \o more)[i] = IF i <= Len(Root) THEN Root[i] ELSE more[i - Len(Root)]
    BY <1>1, <2>2, ConcatProperties
  <2>5. ASSUME NEW i \in 1 .. Len(Root) PROVE (Root \o more)[i] = Root[i]
    BY <1>2, <2>1, <2>4
  <2>6. ASSUME NEW i \in 1 .. version PROVE (Root \o more)[Len(Root) + i] = Additions[i]
    <3>1. /\ Len(Root) + i \in 1 .. Len(Root) + version /\ ~(Len(Root) + i <= Len(Root))
          /\ (Len(Root) + i) - Len(Root) = i
      BY <1>2, <2>1
    <3> QED BY <2>2, <2>4, <3>1
  <2> QED BY <2>1, <2>3, <2>4, <2>5, <2>6
<1> QED BY <1>3, <1>4

\* What the recursion of Structures computes.
StructuresRun(f, version, X) ==
  /\ f[0] = {<<>>} /\ \A k \in 0 .. Len(Elements(version)) : f[k] \in SUBSET Seq(X)
  /\ \A k \in 1 .. Len(Elements(version)) :
        f[k] = {Append(s, x) : s \in f[k - 1], x \in MayHold(version, k)}
  /\ Structures(version) = f[Len(Elements(version))]

\* The function that Structures is defined by.
LEMMA StructuresUnfold ==
  ASSUME NEW version \in Versions, NEW X,
         \A k \in 1 .. Len(Elements(version)) : MayHold(version, k) \subseteq X
  PROVE  \E f : StructuresRun(f, version, X)
<1> DEFINE n == Len(Elements(version))
           V == SUBSET Seq(X)
           Longer(T, k) == {Append(s, x) : s \in T, x \in MayHold(version, k)}
           Value(f, k) == IF k = 0 THEN {<<>>} ELSE Longer(f[k - 1], k)
           step == [k \in 1 .. n |-> [T \in V |-> Longer(T, k)]]
           upto == CHOOSE f : f = [k \in 0 .. n |-> Value(f, k)]
<1>1. Structures(version) = upto[n]
  BY DEF Structures
<1>2. n \in Nat
  BY Members, ElementsOf
<1>3. ASSUME NEW k \in 1 .. n, NEW T \in V PROVE Longer(T, k) \in V
  <2>1. ASSUME NEW s \in T, NEW x \in MayHold(version, k) PROVE Append(s, x) \in Seq(X)
    <3>1. s \in Seq(X) /\ x \in X
      OBVIOUS
    <3> QED BY <3>1, AppendProperties
  <2> QED BY <2>1
<1>4. \A T, k : Longer(T, k) = {Append(s, x) : s \in T, x \in MayHold(version, k)}
  OBVIOUS
<1>5. {<<>>} \in V
  OBVIOUS
<1> HIDE DEF n, V, Longer
<1>6. step \in StepsUp(n, V)
  BY <1>3 DEF StepsUp
<1>7. \A k \in 1 .. n : \A T \in V : step[k][T] = Longer(T, k)
  OBVIOUS
<1> HIDE DEF step
<1>8. PICK f : RunUp(f, n, V, {<<>>}, step)
  BY <1>2, <1>5, <1>6, RecursionUp
<1>9. \A k \in 0 .. n : f[k] = Value(f, k)
  BY <1>2, <1>7, <1>8 DEF RunUp
<1>10. f = [k \in 0 .. n |-> Value(f, k)]
  <2> HIDE DEF Value
  <2> QED BY <1>8, <1>9 DEF RunUp
<1>11. upto = [k \in 0 .. n |-> Value(upto, k)]
  <2> HIDE DEF Value
  <2> QED BY <1>10, Zenon
<1> HIDE DEF upto
<1>12. upto[0] = {<<>>} /\ \A k \in 1 .. n : upto[k] = Longer(upto[k - 1], k)
  <2>1. \A k \in 0 .. n : upto[k] = Value(upto, k)
    <3> HIDE DEF Value
    <3> QED BY <1>11
  <2>2. Value(upto, 0) = {<<>>}
    OBVIOUS
  <2>3. \A k \in 1 .. n : Value(upto, k) = Longer(upto[k - 1], k)
    OBVIOUS
  <2>4. 0 \in 0 .. n /\ \A k \in 1 .. n : k \in 0 .. n
    BY <1>2
  <2> HIDE DEF Value
  <2> QED BY <2>1, <2>2, <2>3, <2>4
<1>13. GoesUp(upto, n, V, step)
  BY <1>5, <1>7, <1>12 DEF GoesUp
<1>14. \A k \in 0 .. n : upto[k] \in V
  BY <1>2, <1>6, <1>13, RecursionStays
<1> QED BY <1>1, <1>4, <1>12, <1>14 DEF StructuresRun, n, V

\* A value of a member, or none where it may be missing.
Holds(x, member, mayMiss) ==
  x \in [1 .. member.width -> Bit] \/ (x = Absent /\ mayMiss)

\* What an application may fill in.
Shape(version, value) ==
  /\ Len(value) = Len(Root) + Extra(version)
  /\ \A i \in 1 .. Len(Root) : Holds(value[i], Root[i], Root[i].optional)
  /\ \A i \in 1 .. Extra(version) : Holds(Addition(value, i), Additions[i], TRUE)

\* Structures have that shape.
LEMMA StructureShape ==
  ASSUME NEW version \in Versions, NEW value \in Structures(version)
  PROVE  Shape(version, value)
<1> DEFINE n == Len(Elements(version))
           X == UNION {MayHold(version, k) : k \in 1 .. n}
<1>1. \A k \in 1 .. n : MayHold(version, k) \subseteq X
  OBVIOUS
<1> HIDE DEF X
<1>2. PICK f : StructuresRun(f, version, X)
  BY <1>1, StructuresUnfold
<1>3. n \in Nat /\ n = Len(Root) + Extra(version) /\ Extra(version) \in 0 .. Len(Additions)
      /\ Len(Root) \in Nat /\ Len(Additions) \in Nat
  BY Members, ElementsOf
<1> DEFINE Filled0(s, k) == Len(s) = k /\ \A i \in 1 .. k : s[i] \in MayHold(version, i)
           holds == {k \in Nat : \A s \in f[k] : Filled0(s, k)}
<1>4. /\ f[0] = {<<>>} /\ \A k \in 0 .. n : f[k] \in SUBSET Seq(X)
      /\ \A k \in 1 .. n : f[k] = {Append(s, x) : s \in f[k - 1], x \in MayHold(version, k)}
      /\ value \in f[n]
  BY <1>2 DEF StructuresRun
<1> HIDE DEF n
<1>5. 0 \in holds
  BY <1>4
<1>6. ASSUME NEW k \in 0 .. n - 1, k \in holds PROVE k + 1 \in holds
  <2> SUFFICES ASSUME NEW t \in f[k + 1] PROVE Filled0(t, k + 1)
    BY <1>3
  <2>1. k + 1 \in 1 .. n /\ (k + 1) - 1 = k /\ k \in 0 .. n
    BY <1>3
  <2>2. PICK s \in f[k], x \in MayHold(version, k + 1) : t = Append(s, x)
    BY <1>4, <2>1
  <2>3. s \in Seq(X) /\ x \in X /\ Filled0(s, k)
    BY <1>1, <1>4, <1>6, <2>1 DEF n
  <2>4. /\ Len(t) = k + 1 /\ \A i \in 1 .. k : t[i] = s[i]
        /\ t[k + 1] = x
    BY <2>2, <2>3, AppendProperties
  <2> QED BY <2>2, <2>3, <2>4
<1>7. n \in holds
  <2> HIDE DEF holds
  <2>1. \A i \in 0 .. n : i \in holds
    BY <1>3, <1>5, <1>6, UpTo
  <2> QED BY <1>3, <2>1
<1>8. Len(value) = n /\ \A i \in 1 .. n : value[i] \in MayHold(version, i)
  BY <1>4, <1>7
<1>9. ASSUME NEW i \in 1 .. Len(Root) PROVE Holds(value[i], Root[i], Root[i].optional)
  <2>1. i \in 1 .. n /\ Elements(version)[i] = Root[i] /\ IsMember(Root[i])
    BY <1>3, ElementsOf, Members
  <2>2. value[i] \in Root[i].values \/ (value[i] = Absent /\ Root[i].optional)
    BY <1>8, <2>1 DEF MayHold
  <2> QED BY <2>1, <2>2 DEF Holds, IsMember
<1>10. ASSUME NEW i \in 1 .. Extra(version) PROVE Holds(Addition(value, i), Additions[i], TRUE)
  <2>1. /\ Len(Root) + i \in 1 .. n /\ Elements(version)[Len(Root) + i] = Additions[i]
        /\ i \in 1 .. Len(Additions)
    BY <1>3, ElementsOf
  <2>2. IsMember(Additions[i])
    BY <2>1, Members
  <2>3. value[Len(Root) + i] \in MayHold(version, Len(Root) + i)
    BY <1>8, <2>1
  <2>4. value[Len(Root) + i] \in Additions[i].values \/ value[Len(Root) + i] = Absent
    BY <2>1, <2>3 DEF MayHold
  <2> QED BY <2>2, <2>4 DEF Holds, IsMember, Addition
<1> QED BY <1>3, <1>8, <1>9, <1>10 DEF Shape

\* Values of members are bits, and never the mark of an absent one.
LEMMA MemberBits ==
  ASSUME NEW width \in Nat, NEW x \in [1 .. width -> Bit]
  PROVE  x \in Bits /\ Len(x) = width /\ x # Absent
<1>1. x \in Bits
  BY SeqDef DEF Bits
<1>2. Len(x) = width
  BY <1>1, LenProperties DEF Bits
<1>3. x # Absent
  <2> SUFFICES ASSUME x = Absent PROVE FALSE
    OBVIOUS
  <2>1. Len(x) = 1 /\ x[1] = -1
    BY DEF Absent
  <2>2. x[1] \in Bit
    BY <1>2, <2>1
  <2> QED BY <2>1, <2>2 DEF Bit
<1> QED BY <1>1, <1>2, <1>3

\* The presence bits and the members of the root, as parts.
LEMMA RootParts ==
  ASSUME NEW version \in Versions, NEW value, Shape(version, value)
  PROVE  /\ PresenceBits(value) \in Parts /\ Len(PresenceBits(value)) = Len(Root)
         /\ RootBits(value) \in Parts /\ Len(RootBits(value)) = Len(Root)
         /\ \A i \in 1 .. Len(Root) :
              /\ PresenceBits(value)[i] =
                   IF Root[i].optional THEN BitOf(Written(value, i)) ELSE <<>>
              /\ RootBits(value)[i] = IF Written(value, i) THEN value[i] ELSE <<>>
              /\ Written(value, i) => value[i] \in Bits /\ Len(value[i]) = Root[i].width
              /\ ~Root[i].optional => Written(value, i)
<1> DEFINE n == Len(Root)
<1>1. n \in Nat
  BY Members
<1>2. ASSUME NEW i \in 1 .. n
      PROVE  /\ Written(value, i) => value[i] \in Bits /\ Len(value[i]) = Root[i].width
             /\ ~Root[i].optional => Written(value, i)
  <2>1. IsMember(Root[i]) /\ (Root[i].default => Root[i].optional)
    BY Members
  <2>2. Holds(value[i], Root[i], Root[i].optional)
    BY DEF Shape
  <2>3. CASE value[i] \in [1 .. Root[i].width -> Bit]
    <3>1. Root[i].width \in Nat
      BY <2>1 DEF IsMember
    <3>2. value[i] \in Bits /\ Len(value[i]) = Root[i].width /\ value[i] # Absent
      BY <2>3, <3>1, MemberBits
    <3> QED BY <2>1, <3>2 DEF Written
  <2>4. CASE value[i] = Absent /\ Root[i].optional
    BY <2>4 DEF Written
  <2> QED BY <2>2, <2>3, <2>4 DEF Holds
<1>3. <<>> \in Bits /\ <<0>> \in Bits /\ <<1>> \in Bits
  BY DEF Bits, Bit
<1>4. ASSUME NEW i \in 1 .. n
      PROVE  /\ (IF Root[i].optional THEN BitOf(Written(value, i)) ELSE <<>>) \in Bits
             /\ (IF Written(value, i) THEN value[i] ELSE <<>>) \in Bits
  BY <1>2, <1>3 DEF BitOf
<1>5. PresenceBits(value) \in [1 .. n -> Bits] /\ RootBits(value) \in [1 .. n -> Bits]
  BY <1>4 DEF PresenceBits, RootBits
<1>6. PresenceBits(value) \in Parts /\ RootBits(value) \in Parts
  BY <1>1, <1>5, SeqDef DEF Parts
<1>7. Len(PresenceBits(value)) = n /\ Len(RootBits(value)) = n
  BY <1>1, <1>5, <1>6, LenProperties DEF Parts
<1> QED BY <1>2, <1>6, <1>7 DEF PresenceBits, RootBits

\* The optional members to come.
OptionalFrom(i) == {k \in i .. Len(Root) : Root[k].optional}

\* There is one presence bit for each of them.
LEMMA PresenceCount ==
  ASSUME NEW version \in Versions, NEW value, Shape(version, value), NEW i \in 1 .. Len(Root) + 1
  PROVE  /\ Cardinality(OptionalFrom(i)) \in Nat
         /\ Len(Onwards(PresenceBits(value), i)) = Cardinality(OptionalFrom(i))
<1> DEFINE n == Len(Root)
           parts == PresenceBits(value)
           Counted(k) == /\ Cardinality(OptionalFrom(k)) \in Nat
                         /\ Len(Onwards(parts, k)) = Cardinality(OptionalFrom(k))
           holds == {m \in Nat : Counted(n + 1 - m)}
<1>1. n \in Nat
  BY Members
<1>2. /\ parts \in Parts /\ Len(parts) = n
      /\ \A k \in 1 .. n : parts[k] = IF Root[k].optional THEN BitOf(Written(value, k)) ELSE <<>>
  BY RootParts
<1> HIDE DEF parts
<1>3. 0 \in holds
  <2>1. Onwards(parts, n + 1) = <<>>
    BY <1>2, OnwardsEnds
  <2>2. OptionalFrom(n + 1) = {}
    BY <1>1 DEF OptionalFrom
  <2>3. Cardinality({}) = 0 /\ Len(<<>>) = 0
    BY FS_EmptySet
  <2>4. Counted(n + 1)
    <3>1. Cardinality(OptionalFrom(n + 1)) = 0
      BY <2>2, <2>3, Zenon
    <3>2. Len(Onwards(parts, n + 1)) = 0
      BY <2>1, <2>3, Zenon
    <3> QED BY <3>1, <3>2
  <2>5. n + 1 - 0 = n + 1
    BY <1>1
  <2> QED BY <2>4, <2>5
<1>4. ASSUME NEW m \in 0 .. n - 1, m \in holds PROVE m + 1 \in holds
  <2> DEFINE k == n - m
  <2>1. k \in 1 .. n /\ n + 1 - (m + 1) = k /\ n + 1 - m = k + 1
    BY <1>1
  <2>2. Counted(k + 1)
    BY <1>4, <2>1
  <2> HIDE DEF k
  <2>3. /\ parts[k] \in Bits /\ Onwards(parts, k + 1) \in Bits
        /\ Onwards(parts, k) = parts[k] \o Onwards(parts, k + 1)
    BY <1>2, <2>1, OnwardsNext
  <2>4. Len(Onwards(parts, k)) = Len(parts[k]) + Len(Onwards(parts, k + 1))
    BY <2>3, Joined
  <2>5. IsFiniteSet(OptionalFrom(k + 1)) /\ k \notin OptionalFrom(k + 1)
    <3>1. IsFiniteSet(k + 1 .. n)
      BY <1>1, <2>1, FS_Interval
    <3>2. OptionalFrom(k + 1) \subseteq k + 1 .. n
      BY DEF OptionalFrom
    <3>3. k \notin k + 1 .. n
      BY <1>1, <2>1
    <3> QED BY <3>1, <3>2, <3>3, FS_Subset
  <2>6. CASE Root[k].optional
    <3>1. OptionalFrom(k) = OptionalFrom(k + 1) \cup {k}
      BY <1>1, <2>1, <2>6 DEF OptionalFrom
    <3>2. Cardinality(OptionalFrom(k)) = Cardinality(OptionalFrom(k + 1)) + 1
      BY <2>5, <3>1, FS_AddElement
    <3>3. Len(parts[k]) = 1
      <4>1. parts[k] = <<IF Written(value, k) THEN 1 ELSE 0>>
        BY <1>2, <2>1, <2>6 DEF BitOf
      <4>2. \A x : Len(<<x>>) = 1
        OBVIOUS
      <4> QED BY <4>1, <4>2
    <3>4. Counted(k)
      BY <2>2, <2>4, <3>2, <3>3
    <3> QED BY <2>1, <3>4
  <2>7. CASE ~Root[k].optional
    <3>1. OptionalFrom(k) = OptionalFrom(k + 1)
      BY <1>1, <2>1, <2>7 DEF OptionalFrom
    <3>2. Len(parts[k]) = 0
      BY <1>2, <2>1, <2>7
    <3>3. Counted(k)
      BY <2>2, <2>4, <3>1, <3>2
    <3> QED BY <2>1, <3>3
  <2> QED BY <2>6, <2>7
<1>5. n + 1 - i \in holds
  <2> HIDE DEF holds
  <2>1. \A m \in 0 .. n : m \in holds
    BY <1>1, <1>3, <1>4, UpTo
  <2> QED BY <1>1, <2>1
<1>6. n + 1 - (n + 1 - i) = i
  BY <1>1
<1>7. Counted(i)
  BY <1>5, <1>6
<1> QED BY <1>7 DEF parts

\* The extension additions, as parts.
LEMMA ExtensionParts ==
  ASSUME NEW version \in Versions, version # Closed, NEW value, Shape(version, value)
  PROVE  /\ version \in 0 .. Len(Additions) /\ Extra(version) = version
         /\ SentBits(version, value) \in Bits /\ Len(SentBits(version, value)) = version
         /\ OpenTypes(version, value) \in Parts /\ Len(OpenTypes(version, value)) = version
         /\ \A i \in 1 .. version :
              LET whole == Complete(Addition(value, i))
              IN /\ SentBits(version, value)[i] = IF Addition(value, i) # Absent THEN 1 ELSE 0
                 /\ Addition(value, i) = Absent => OpenTypes(version, value)[i] = <<>>
                 /\ Addition(value, i) # Absent =>
                      /\ Addition(value, i) \in Bits
                      /\ Len(Addition(value, i)) = Additions[i].width
                      /\ OpenTypes(version, value)[i] = Fragments(whole)[1]
<1>1. version \in 0 .. Len(Additions) /\ Extra(version) = version
  BY Members DEF Versions, Closed, Extra
<1>2. ASSUME NEW i \in 1 .. version, Addition(value, i) # Absent
      PROVE  /\ Addition(value, i) \in Bits /\ Len(Addition(value, i)) = Additions[i].width
             /\ OpenTypePut(Addition(value, i)) \in Bits
  <2>1. IsMember(Additions[i])
    BY <1>1, Members
  <2>2. Holds(Addition(value, i), Additions[i], TRUE)
    BY <1>1 DEF Shape
  <2>3. Addition(value, i) \in [1 .. Additions[i].width -> Bit] /\ Additions[i].width \in Nat
    BY <1>2, <2>1, <2>2 DEF Holds, IsMember
  <2>4. Addition(value, i) \in Bits /\ Len(Addition(value, i)) = Additions[i].width
    BY <2>3, MemberBits
  <2> DEFINE whole == Complete(Addition(value, i))
  <2>5. whole \in Bits /\ \E size \in Nat : size >= 1 /\ Len(whole) = size * CHAR_BIT
    BY <2>4, CompleteType
  <2> HIDE DEF whole
  <2>6. PICK size \in Nat : Len(whole) = size * CHAR_BIT
    BY <2>5
  <2>7. Fragments(whole)[1] \in Bits
    <3>1. 1 \in 1 .. size + 1
      OBVIOUS
    <3> QED BY <2>5, <2>6, <3>1, FragmentsUnfold
  <2> QED BY <2>4, <2>7 DEF OpenTypePut, whole
<1>3. SentBits(version, value) \in [1 .. version -> Bit]
  BY DEF SentBits, Bit
<1>4. OpenTypes(version, value) \in [1 .. version -> Bits]
  BY <1>2, JoinedEmpty DEF OpenTypes
<1>5. SentBits(version, value) \in Bits /\ OpenTypes(version, value) \in Parts
  BY <1>1, <1>3, <1>4, SeqDef DEF Bits, Parts
<1>6. Len(SentBits(version, value)) = version /\ Len(OpenTypes(version, value)) = version
  BY <1>1, <1>3, <1>4, <1>5, LenProperties DEF Bits, Parts
<1> QED BY <1>1, <1>2, <1>5, <1>6 DEF SentBits, OpenTypes, OpenTypePut

\* What follows the root.
ExtensionsOf(version, value) ==
  IF HasExtensions(version, value) THEN ExtensionBits(version, value) ELSE <<>>

\* The bit that says whether extensions follow.
ExtBit(version, value) ==
  IF version = Closed THEN <<>> ELSE BitOf(HasExtensions(version, value))

\* An encoding is its preamble, the root, and what follows it.
LEMMA EncodingParts ==
  ASSUME NEW version \in Versions, NEW value, Shape(version, value)
  PROVE  /\ ExtBit(version, value) \in Bits
         /\ FlattenSeq(PresenceBits(value)) \in Bits /\ FlattenSeq(RootBits(value)) \in Bits
         /\ ExtensionsOf(version, value) \in Bits /\ Encoding(version, value) \in Bits
         /\ Encoding(version, value) =
              (ExtBit(version, value) \o FlattenSeq(PresenceBits(value)))
              \o (FlattenSeq(RootBits(value)) \o ExtensionsOf(version, value))
         /\ HasExtensions(version, value) =>
              /\ version \in 1 .. 2^SmallBits /\ version # Closed
              /\ PutNsLength(version) \in Bits /\ SentBits(version, value) \in Bits
              /\ FlattenSeq(OpenTypes(version, value)) \in Bits
<1> DEFINE a == ExtBit(version, value)
           b == FlattenSeq(PresenceBits(value))
           c == FlattenSeq(RootBits(value))
           d == ExtensionsOf(version, value)
<1>1. a \in Bits
  <2>1. <<>> \in Bits /\ <<0>> \in Bits /\ <<1>> \in Bits
    BY DEF Bits, Bit
  <2> QED BY <2>1 DEF ExtBit, BitOf
<1>2. b \in Bits /\ c \in Bits
  BY RootParts, OnwardsEnds
<1>3. ASSUME HasExtensions(version, value)
      PROVE  /\ version \in 1 .. 2^SmallBits /\ version # Closed
             /\ PutNsLength(version) \in Bits /\ SentBits(version, value) \in Bits
             /\ FlattenSeq(OpenTypes(version, value)) \in Bits
             /\ ExtensionBits(version, value) \in Bits
  <2>1. version # Closed /\ \E i \in 1 .. version : Addition(value, i) # Absent
    BY <1>3 DEF HasExtensions
  <2>2. /\ version \in 0 .. Len(Additions) /\ SentBits(version, value) \in Bits
        /\ OpenTypes(version, value) \in Parts
    BY <2>1, ExtensionParts
  <2>3. SmallBits \in Nat
    BY PerAssumption
  <2>4. version \in 1 .. 2^SmallBits
    <3>1. 2^SmallBits \in Nat
      BY <2>3, Power
    <3>2. Len(Additions) <= 2^SmallBits /\ Len(Additions) \in Nat
      BY SequenceTypeAssumption, Members
    <3>3. version >= 1
      BY <2>1, <2>2
    <3> QED BY <2>2, <3>1, <3>2, <3>3
  <2>5. PutNsLength(version) \in Bits
    BY <2>4, PutNsLengthType DEF Bits
  <2>6. FlattenSeq(OpenTypes(version, value)) \in Bits
    BY <2>2, OnwardsEnds
  <2>7. ExtensionBits(version, value) \in Bits
    BY <2>2, <2>5, <2>6, Joined DEF ExtensionBits
  <2> QED BY <2>1, <2>2, <2>4, <2>5, <2>6, <2>7
<1>4. d \in Bits
  BY <1>3, JoinedEmpty DEF ExtensionsOf
<1>5. Encoding(version, value) = a \o b \o c \o d
  BY DEF Encoding, ExtensionsOf, ExtBit
<1> HIDE DEF a, b, c, d
<1>6. a \o b \in Bits /\ c \o d \in Bits
  BY <1>1, <1>2, <1>4, Joined
<1>7. (a \o b) \o c \o d = (a \o b) \o (c \o d)
  BY <1>2, <1>4, <1>6, Associates
<1>8. (a \o b) \o (c \o d) \in Bits
  BY <1>6, Joined
<1>9. Encoding(version, value) = (a \o b) \o (c \o d) /\ Encoding(version, value) \in Bits
  BY <1>5, <1>7, <1>8, Zenon
<1> USE DEF a, b, c, d
<1> QED BY <1>1, <1>2, <1>3, <1>4, <1>9, Zenon

-----------------------------------------------------------------------------
(***************************************************************************)
(* The inductive invariant: where the receiver is in the encoding of the   *)
(* message at hand, and what it has made of it so far.                     *)
(***************************************************************************)
MessagesOf(version) == {[version |-> version, value |-> value] : value \in Structures(version)}

\* Where the kth message begins, and its encoding.
Start(k) == IF k = 1 THEN 0 ELSE ends[k - 1]
Coded(k) == Encoding(sender, sent[k].value)

\* What has arrived of the kth message is what was sent.
Arrived(k) ==
  \A i \in 1 .. Len(Coded(k)) : Start(k) + i <= Len(wire) => wire[Start(k) + i] = Coded(k)[i]

\* The wire: the messages one after the other, and the last one may be cut off.
OnWire ==
  /\ Len(ends) <= Len(sent) /\ Len(sent) <= Len(ends) + 1
  /\ \A k \in 1 .. Len(ends) : ends[k] = Start(k) + Len(Coded(k)) /\ ends[k] <= Len(wire)
  /\ Len(sent) = Len(ends) => Len(wire) = Start(Len(ends) + 1)
  /\ Len(sent) > Len(ends) => Len(wire) < Start(Len(sent)) + Len(Coded(Len(sent)))
  /\ \A k \in 1 .. Len(sent) : Arrived(k)

Typed ==
  /\ sender \in Versions /\ receiver \in Versions
  /\ (sender = Closed <=> receiver = Closed)
  /\ sent \in Seq(MessagesOf(sender)) /\ wire \in Bits /\ ends \in Seq(Nat)
  /\ pos \in 0 .. Len(wire) /\ edx \in 1 .. Known + 1
  /\ buf \in Bits /\ Len(buf) % CHAR_BIT = 0
  /\ received \in Seq({UnderstoodBy(m, receiver) : m \in MessagesOf(sender)})
  /\ pc \in {"idle", "root", "bitmap", "extensions", "fragments", "opentype", "defaults", "over"}

\* The message at hand, and what of its encoding is not yet taken.
At    == Len(received) + 1
Value == sent[At].value

AheadAt(p, bits) ==
  /\ p - Start(At) \in 0 .. Len(Coded(At))
  /\ From(Coded(At), (p - Start(At)) + 1) = bits

Ahead(bits) == AheadAt(pos, bits)

\* What the ith member of the structure comes to, but for defaults of additions.
Settled(i) ==
  IF i <= Len(Value) /\ Value[i] # Absent THEN Value[i]
  ELSE IF i <= Len(Root) THEN Filler(Root[i]) ELSE Absent

Filling ==
  /\ DOMAIN st = 1 .. Known
  /\ \A i \in 1 .. Known : st[i] = IF i < edx THEN Settled(i) ELSE Absent

\* How many additions have been looked at, and where that leaves edx.
Seen == sender - Len(epmd)

CursorAfter(n) == edx = IF n <= Extra(receiver) THEN Len(Root) + 1 + n ELSE Known + 1

Additional == Onwards(OpenTypes(sender, Value), Seen + 1)

InRoot ==
  /\ edx <= Len(Root) + 1
  /\ extpresent = HasExtensions(sender, Value)
  /\ opmd = Onwards(PresenceBits(Value), edx)
  /\ Ahead(Onwards(RootBits(Value), edx) \o ExtensionsOf(sender, Value))
  /\ Filling

InBitmap ==
  /\ HasExtensions(sender, Value) /\ edx = Len(Root) + 1
  /\ Ahead(ExtensionBits(sender, Value))
  /\ Filling

Extending ==
  /\ HasExtensions(sender, Value)
  /\ Len(epmd) \in 0 .. sender /\ epmd = From(SentBits(sender, Value), Seen + 1)
  /\ Filling

InExtensions == Extending /\ CursorAfter(Seen) /\ Ahead(Additional)

\* The addition that is being gathered.
Gathering ==
  /\ Extending
  /\ Seen >= 1 /\ Addition(Value, Seen) # Absent
  /\ edx = IF Seen <= Extra(receiver) THEN Len(Root) + Seen ELSE Known + 1

Whole == Complete(Addition(Value, Seen))

GatheredTo(k) ==
  /\ k \in 1 .. (Len(Whole) \div CHAR_BIT) + 1
  /\ buf = SubSeq(Whole, 1, (k - 1) * CHAR_BIT)
  /\ Ahead(Fragments(Whole)[k] \o Additional)

InFragments == Gathering /\ \E k \in 1 .. (Len(Whole) \div CHAR_BIT) + 1 : GatheredTo(k)

InOpenType == Gathering /\ buf = Whole /\ Ahead(Additional)

InDefaults ==
  /\ Ahead(<<>>)
  /\ DOMAIN st = 1 .. Known /\ \A i \in 1 .. Known : st[i] = Settled(i)

Place ==
  /\ Len(received) <= Len(ends)
  /\ pc = "idle" => pos = Start(At)
  /\ pc \notin {"idle", "over"} => At <= Len(sent)
  /\ pc = "root" => InRoot
  /\ pc = "bitmap" => InBitmap
  /\ pc = "extensions" => InExtensions
  /\ pc = "fragments" => InFragments
  /\ pc = "opentype" => InOpenType
  /\ pc = "defaults" => InDefaults

IInv == Typed /\ OnWire /\ Place

-----------------------------------------------------------------------------
(***************************************************************************)
(* The message at hand.                                                    *)
(***************************************************************************)
\* There is a message at hand, and the receiver is within it.
Within ==
  /\ Typed /\ OnWire
  /\ Len(received) <= Len(ends) /\ At <= Len(sent)

\* What the invariant says of the message at hand.
LEMMA AtHand ==
  ASSUME Within
  PROVE  /\ At \in 1 .. Len(sent) /\ Len(ends) \in Nat /\ Len(sent) \in Nat
         /\ sender \in Versions /\ receiver \in Versions
         /\ Shape(sender, Value) /\ Coded(At) = Encoding(sender, Value) /\ Coded(At) \in Bits
         /\ Start(At) \in Nat /\ Arrived(At)
         /\ At <= Len(ends) => Start(At) + Len(Coded(At)) <= Len(wire)
         /\ At > Len(ends) => Len(received) = Len(ends) /\ Len(ends) < Len(sent)
<1>1. /\ At \in 1 .. Len(sent) /\ Len(ends) \in Nat /\ Len(sent) \in Nat
      /\ Len(received) \in Nat /\ sender \in Versions /\ receiver \in Versions
  BY DEF Within, Typed, At
<1>2. sent[At] \in MessagesOf(sender)
  BY <1>1 DEF Within, Typed
<1>3. Value \in Structures(sender)
  BY <1>2 DEF MessagesOf, Value
<1>4. Shape(sender, Value)
  BY <1>1, <1>3, StructureShape
<1>5. Coded(At) = Encoding(sender, Value)
  BY DEF Coded, Value
<1>6. Coded(At) \in Bits
  BY <1>1, <1>4, <1>5, EncodingParts
<1>7. Start(At) \in Nat
  BY <1>1 DEF Start, Within, Typed, At
<1>8. At <= Len(ends) => Start(At) + Len(Coded(At)) <= Len(wire)
  <2>1. CASE At <= Len(ends)
    <3>1. ends[At] = Start(At) + Len(Coded(At)) /\ ends[At] <= Len(wire)
      BY <1>1, <2>1 DEF Within, OnWire
    <3> QED BY <3>1
  <2> QED BY <2>1
<1> QED BY <1>1, <1>4, <1>5, <1>6, <1>7, <1>8 DEF Within, OnWire, At

\* Reading the bits X that come next: they are on the wire as far as it goes, it ends
\* before them only if the message was cut off, and after them come the others.
LEMMA Reading ==
  ASSUME Within, NEW X \in Bits, NEW Y \in Bits, Ahead(X \o Y)
  PROVE  /\ Rest \in Bits /\ Begins(Rest, X) /\ Len(X) \in Nat
         /\ Len(Rest) = Len(wire) - pos /\ pos \in Nat /\ Len(wire) \in Nat
         /\ HasBits(Len(X)) =>
              Taken(Len(X)) = X /\ AheadAt(pos + Len(X), Y) /\ pos + Len(X) \in 0 .. Len(wire)
         /\ ~HasBits(Len(X)) => Len(received) = Len(ends) /\ Len(ends) < Len(sent)
<1>1. pos \in 0 .. Len(wire) /\ wire \in Bits /\ Len(wire) \in Nat
  BY DEF Within, Typed, Bits
<1> DEFINE e == Coded(At)
           s == Start(At)
           p == pos - s
<1>2. e \in Bits /\ s \in Nat /\ p \in 0 .. Len(e) /\ From(e, p + 1) = X \o Y /\ Len(e) \in Nat
  <2>1. e \in Bits /\ s \in Nat
    BY AtHand
  <2>2. p \in 0 .. Len(e) /\ From(e, p + 1) = X \o Y
    BY DEF Ahead, AheadAt
  <2> QED BY <2>1, <2>2 DEF Bits
<1>3. \A i \in 1 .. Len(e) : s + i <= Len(wire) => wire[s + i] = e[i]
  BY AtHand DEF Arrived
<1>4. At <= Len(ends) => s + Len(e) <= Len(wire)
  BY AtHand
<1>5. \A b : AheadAt(pos + Len(X), b) <=>
        /\ (pos + Len(X)) - s \in 0 .. Len(e)
        /\ From(e, ((pos + Len(X)) - s) + 1) = b
  BY DEF AheadAt
<1> HIDE DEF e, s
<1>p. p = pos - s
  OBVIOUS
<1> HIDE DEF p
<1>6. /\ Len(X) \in Nat /\ p + Len(X) \in 0 .. Len(e)
      /\ \A i \in 1 .. Len(X) : e[p + i] = X[i]
      /\ From(e, p + Len(X) + 1) = Y
  <2>1. Advanced(e, p, X, Y)
    BY <1>2, Advance
  <2> QED BY <2>1 DEF Advanced
<1>7. /\ Rest \in Bits /\ Len(Rest) = Len(wire) - pos
      /\ \A i \in 1 .. Len(Rest) : Rest[i] = wire[pos + i]
  BY <1>1 DEF Rest, From, Bits
<1>8. Begins(Rest, X)
  <2> SUFFICES ASSUME NEW i \in 1 .. Len(X), i <= Len(Rest) PROVE Rest[i] = X[i]
    BY DEF Begins
  <2>1. i \in Nat /\ pos + i = s + (p + i) /\ p + i \in 1 .. Len(e) /\ pos + i <= Len(wire)
    BY <1>1, <1>2, <1>6, <1>7, <1>p
  <2>2. wire[s + (p + i)] = e[p + i]
    BY <1>3, <2>1
  <2>3. Rest[i] = wire[pos + i]
    BY <1>7, <2>1
  <2> QED BY <1>6, <2>1, <2>2, <2>3
<1>9. ASSUME HasBits(Len(X))
      PROVE  Taken(Len(X)) = X /\ AheadAt(pos + Len(X), Y) /\ pos + Len(X) \in 0 .. Len(wire)
  <2>1. pos + Len(X) \in 0 .. Len(wire)
    BY <1>1, <1>6, <1>9 DEF HasBits
  <2>2. Len(X) <= Len(Rest)
    BY <1>1, <1>6, <1>7, <2>1
  <2>3. SubSeq(Rest, 1, Len(X)) = X
    BY <1>7, <1>8, <2>2, BeginsWhole DEF Bits
  <2>4. Taken(Len(X)) = SubSeq(Rest, 1, Len(X))
    <3> DEFINE a == Taken(Len(X))
               b == SubSeq(Rest, 1, Len(X))
    <3>1. a \in Seq(Bit) /\ Len(a) = Len(X) /\ \A i \in 1 .. Len(X) : a[i] = wire[pos + i]
      BY <1>1, <1>6, <2>1 DEF Taken, Bits
    <3>2. b \in Seq(Bit) /\ Len(b) = Len(X) /\ \A i \in 1 .. Len(X) : b[i] = Rest[i]
      BY <1>6, <1>7, <2>2 DEF Bits
    <3>3. \A i \in 1 .. Len(X) : a[i] = b[i]
      BY <1>6, <1>7, <2>2, <3>1, <3>2
    <3> QED BY <3>1, <3>2, <3>3, BitsEqual
  <2>5. (pos + Len(X)) - s = p + Len(X)
    BY <1>1, <1>2, <1>6, <1>p
  <2> QED BY <1>5, <1>6, <2>1, <2>3, <2>4, <2>5
<1>10. ASSUME ~HasBits(Len(X)) PROVE Len(received) = Len(ends) /\ Len(ends) < Len(sent)
  <2>1. pos + Len(X) <= s + Len(e)
    BY <1>1, <1>2, <1>6, <1>p
  <2>2. ~(At <= Len(ends))
    BY <1>1, <1>2, <1>4, <1>6, <1>10, <2>1 DEF HasBits
  <2> QED BY <2>2, AtHand
<1> QED BY <1>1, <1>6, <1>7, <1>8, <1>9, <1>10

-----------------------------------------------------------------------------
(***************************************************************************)
(* Steps.                                                                  *)
(***************************************************************************)
\* Decoding leaves what was sent alone.
Reads == UNCHANGED <<sender, receiver, sent, wire, ends>>

\* While the message at hand stays the same, so does all that is said of it.
LEMMA SameMessage ==
  ASSUME Reads
  PROVE  /\ OnWire => OnWire'
         /\ Known' = Known
         /\ received' = received => /\ At' = At /\ Value' = Value
                                    /\ \A i : Settled(i)' = Settled(i)
                                    /\ \A bits : Ahead(bits)' <=> AheadAt(pos', bits)
<1>1. OnWire => OnWire'
  BY DEF Reads, OnWire, Start, Coded, Arrived
<1>2. Known' = Known
  BY DEF Reads, Known
<1>3. ASSUME received' = received
      PROVE  /\ At' = At /\ Value' = Value
             /\ \A i : Settled(i)' = Settled(i)
             /\ \A bits : Ahead(bits)' <=> AheadAt(pos', bits)
  <2>1. At' = At /\ Value' = Value
    BY <1>3 DEF Reads, At, Value
  <2>2. \A i : Settled(i)' = Settled(i)
    BY <2>1 DEF Reads, Settled
  <2>3. Start(At)' = Start(At) /\ Coded(At)' = Coded(At)
    BY <1>3, <2>1 DEF Reads, Start, Coded
  <2>4. \A bits : Ahead(bits)' <=> AheadAt(pos', bits)
    BY <2>1, <2>3 DEF Ahead, AheadAt
  <2> QED BY <2>1, <2>2, <2>4
<1> QED BY <1>1, <1>2, <1>3

\* Wherever a step within a message leads, the message is still the one at hand.
LEMMA StepWithin ==
  ASSUME Within, Reads, received' = received,
         pos' \in 0 .. Len(wire), edx' \in 1 .. Known + 1,
         buf' \in Bits, Len(buf') % CHAR_BIT = 0,
         pc' \in {"root", "bitmap", "extensions", "fragments", "opentype", "defaults", "over"},
         pc' = "root" => InRoot', pc' = "bitmap" => InBitmap',
         pc' = "extensions" => InExtensions', pc' = "fragments" => InFragments',
         pc' = "opentype" => InOpenType', pc' = "defaults" => InDefaults'
  PROVE  IInv'
<1>1. OnWire'
  BY SameMessage DEF Within
<1>2. Typed'
  <2>1. {UnderstoodBy(m, receiver) : m \in MessagesOf(sender)}'
          = {UnderstoodBy(m, receiver) : m \in MessagesOf(sender)}
    BY DEF Reads
  <2> QED BY <2>1, SameMessage DEF Within, Typed, Reads
<1>3. Len(received') <= Len(ends') /\ At' <= Len(sent')
  BY SameMessage DEF Within, Reads
<1> QED BY <1>1, <1>2, <1>3 DEF IInv, Place

\* The message at hand was cut off.
CutOff == Len(received) = Len(ends) /\ Len(ends) < Len(sent)

\* So it does after a refusal.
LEMMA Refusing ==
  ASSUME Within, Reads, Refuse
  PROVE  IInv'
BY StepWithin DEF Refuse, Within, Typed

\* A member that has been settled.
LEMMA FillNext ==
  ASSUME Filling, edx \in 1 .. Known, Reads, received' = received,
         edx' = edx + 1, st' = [st EXCEPT ![edx] = Settled(edx)]
  PROVE  Filling'
<1>1. Known' = Known /\ \A i : Settled(i)' = Settled(i)
  BY SameMessage
<1>2. DOMAIN st' = 1 .. Known' /\ edx \in Nat
  BY <1>1 DEF Filling
<1>3. ASSUME NEW i \in 1 .. Known' PROVE st'[i] = IF i < edx' THEN Settled(i)' ELSE Absent
  <2>1. i \in 1 .. Known /\ i \in Nat /\ Settled(i)' = Settled(i)
    BY <1>1, <1>3
  <2>2. st[i] = IF i < edx THEN Settled(i) ELSE Absent
    BY <2>1 DEF Filling
  <2>3. CASE i = edx
    BY <1>2, <2>1, <2>3 DEF Filling
  <2>4. CASE i # edx
    BY <1>2, <2>1, <2>2, <2>4 DEF Filling
  <2> QED BY <2>3, <2>4
<1> QED BY <1>2, <1>3 DEF Filling

\* A member that stays as it is.
LEMMA FillStays ==
  ASSUME Filling, Reads, received' = received, edx' = edx, st' = st
  PROVE  Filling'
<1>1. Known' = Known /\ \A i : Settled(i)' = Settled(i)
  BY SameMessage
<1> QED BY <1>1 DEF Filling

\* At a member of the root: whether it came, and what is left of the presence bits
\* and of the members after it.
RootAt(value, i, left) ==
  /\ (Root[i].optional /\ left[1] = 0) <=> ~Written(value, i)
  /\ Onwards(PresenceBits(value), i + 1) = IF Root[i].optional THEN Tail(left) ELSE left
  /\ Onwards(RootBits(value), i) = RootBits(value)[i] \o Onwards(RootBits(value), i + 1)
  /\ RootBits(value)[i] \in Bits /\ Onwards(RootBits(value), i + 1) \in Bits
  /\ RootBits(value)[i] = IF Written(value, i) THEN value[i] ELSE <<>>
  /\ Written(value, i) => Len(value[i]) = Root[i].width

\* The member at hand follows from the presence bits.
LEMMA RootNext ==
  ASSUME NEW version \in Versions, NEW value, Shape(version, value), NEW i \in 1 .. Len(Root)
  PROVE  RootAt(value, i, Onwards(PresenceBits(value), i))
<1> DEFINE p == PresenceBits(value)
           r == RootBits(value)
<1>1. /\ p \in Parts /\ Len(p) = Len(Root) /\ r \in Parts /\ Len(r) = Len(Root)
      /\ p[i] = IF Root[i].optional THEN BitOf(Written(value, i)) ELSE <<>>
      /\ r[i] = IF Written(value, i) THEN value[i] ELSE <<>>
      /\ Written(value, i) => Len(value[i]) = Root[i].width
      /\ ~Root[i].optional => Written(value, i)
  BY RootParts
<1> HIDE DEF p, r
<1>2. /\ p[i] \in Bits /\ Onwards(p, i + 1) \in Bits
      /\ Onwards(p, i) = p[i] \o Onwards(p, i + 1)
  BY <1>1, OnwardsNext
<1>3. /\ r[i] \in Bits /\ Onwards(r, i + 1) \in Bits
      /\ Onwards(r, i) = r[i] \o Onwards(r, i + 1)
  BY <1>1, OnwardsNext
<1>4. CASE ~Root[i].optional
  <2>1. Onwards(p, i) = Onwards(p, i + 1)
    BY <1>1, <1>2, <1>4, JoinedEmpty
  <2> QED BY <1>1, <1>3, <1>4, <2>1 DEF RootAt, p, r
<1>5. CASE Root[i].optional
  <2> DEFINE w == IF Written(value, i) THEN 1 ELSE 0
             o == Onwards(p, i + 1)
  <2>1. Onwards(p, i) = <<w>> \o o /\ o \in Seq(Bit) /\ w \in Bit
    BY <1>1, <1>2, <1>5 DEF BitOf, Bits, Bit
  <2>2. w = 0 <=> ~Written(value, i)
    OBVIOUS
  <2> HIDE DEF w, o
  <2>3. Onwards(p, i)[1] = w /\ Tail(Onwards(p, i)) = o
    <3>1. (<<w>> \o o)[1] = w
      BY <2>1
    <3>2. Tail(<<w>> \o o) = o
      BY <2>1
    <3> QED BY <2>1, <3>1, <3>2
  <2> QED BY <1>1, <1>3, <1>5, <2>2, <2>3 DEF RootAt, p, r, o
<1> QED BY <1>4, <1>5

\* A decoder that is neither waiting nor over is within a message.
LEMMA IsWithin ==
  ASSUME IInv, pc \notin {"idle", "over"}
  PROVE  Within
BY DEF IInv, Place, Within

\* A member of the version at hand has room in the structure.
LEMMA RootRoom ==
  ASSUME Typed
  PROVE  /\ Known \in Nat /\ Len(Root) \in Nat /\ Len(Root) <= Known /\ edx \in Nat /\ edx >= 1
         /\ Extra(receiver) \in Nat /\ Known = Len(Root) + Extra(receiver)
<1>1. receiver \in Versions /\ edx \in 1 .. Known + 1
  BY DEF Typed
<1>2. Known = Len(Root) + Extra(receiver) /\ Extra(receiver) \in Nat /\ Len(Root) \in Nat
  BY <1>1, ElementsOf, Members DEF Known
<1> QED BY <1>1, <1>2

\* A member of the root that did not come.
LEMMA RootMissingStep ==
  ASSUME IInv, RootMissing
  PROVE  IInv'
<1>1. /\ Within /\ InRoot /\ Reads /\ received' = received /\ pos' = pos /\ pc' = "root"
      /\ extpresent' = extpresent /\ edx \in 1 .. Len(Root) /\ edx' = edx + 1
  BY IsWithin, RootRoom DEF IInv, Place, RootMissing, AtRoot, Reads, Typed
<1>2. Typed /\ sender \in Versions /\ Shape(sender, Value) /\ edx \in 1 .. Known /\ edx \in Nat
  BY <1>1, AtHand, RootRoom DEF Within
<1>3. RootAt(Value, edx, opmd)
  BY <1>1, <1>2, RootNext DEF InRoot
<1>4. ~Written(Value, edx)
  BY <1>1, <1>3 DEF RootMissing, Missing, RootAt
<1>5. opmd' = Onwards(PresenceBits(Value), edx + 1)
  BY <1>3 DEF RootAt, RootMissing, OpmdAfter
<1>6. Onwards(RootBits(Value), edx) = Onwards(RootBits(Value), edx + 1)
  BY <1>3, <1>4, JoinedEmpty DEF RootAt
<1>7. Settled(edx) = Filler(Root[edx])
  BY <1>1, <1>2, <1>4 DEF Written, Settled, Filler
<1>8. Filling'
  BY <1>1, <1>2, <1>7, FillNext DEF RootMissing, InRoot
<1>9. Value' = Value /\ \A bits : Ahead(bits)' <=> AheadAt(pos', bits)
  BY <1>1, SameMessage
<1>10. InRoot'
  <2>1. edx' <= Len(Root) + 1 /\ extpresent' = HasExtensions(sender', Value')
    BY <1>1, <1>2, <1>9 DEF InRoot, Reads
  <2>2. opmd' = Onwards(PresenceBits(Value'), edx')
    BY <1>1, <1>5, <1>9
  <2>3. Ahead(Onwards(RootBits(Value), edx + 1) \o ExtensionsOf(sender, Value))
    BY <1>1, <1>6 DEF InRoot
  <2>4. Ahead(Onwards(RootBits(Value), edx) \o ExtensionsOf(sender, Value))'
    BY <1>1, <1>9, <2>3 DEF Ahead, Reads
  <2> QED BY <1>8, <2>1, <2>2, <2>4 DEF InRoot
<1> QED
  <2>1. /\ pos' \in 0 .. Len(wire) /\ edx' \in 1 .. Known + 1
        /\ buf' \in Bits /\ Len(buf') % CHAR_BIT = 0
    BY <1>1, <1>2, RootRoom DEF RootMissing, Typed
  <2> QED BY <1>1, <1>10, <2>1, StepWithin

\* A member of the root that came.
LEMMA RootMemberStep ==
  ASSUME IInv, RootMember
  PROVE  IInv' /\ (refused' = refused \/ CutOff)
<1>1. /\ Within /\ InRoot /\ Reads /\ pc = "root" /\ edx \in 1 .. Len(Root)
  BY IsWithin, RootRoom DEF IInv, Place, RootMember, AtRoot, Reads, Typed
<1>2. Typed /\ sender \in Versions /\ Shape(sender, Value) /\ edx \in 1 .. Known /\ edx \in Nat
  BY <1>1, AtHand, RootRoom DEF Within
<1>3. RootAt(Value, edx, opmd)
  BY <1>1, <1>2, RootNext DEF InRoot
<1>4. Written(Value, edx)
  BY <1>1, <1>3 DEF RootMember, Missing, RootAt
<1> DEFINE X == Value[edx]
           A == Onwards(RootBits(Value), edx + 1)
           E == ExtensionsOf(sender, Value)
<1>5. X \in Bits /\ A \in Bits /\ E \in Bits /\ Len(X) = Root[edx].width
      /\ Onwards(RootBits(Value), edx) = X \o A
  BY <1>2, <1>3, <1>4, EncodingParts DEF RootAt
<1>6. Ahead(Onwards(RootBits(Value), edx) \o E)
  BY <1>1 DEF InRoot
<1>7. X = Value[edx] /\ A \o E \in Bits
  BY <1>5, Joined
<1> HIDE DEF X
<1>8. (X \o A) \o E = X \o (A \o E)
  BY <1>5, Associates
<1>9. Ahead(X \o (A \o E))
  BY <1>5, <1>6, <1>8
<1>10. CASE ~HasBits(Root[edx].width)
  <2>1. IInv'
    BY <1>1, <1>10, Refusing DEF RootMember
  <2>2. CutOff
    BY <1>1, <1>5, <1>7, <1>9, <1>10, Reading DEF CutOff
  <2> QED BY <2>1, <2>2
<1>11. CASE HasBits(Root[edx].width)
  <2>1. /\ received' = received /\ pos' = pos + Len(X) /\ edx' = edx + 1 /\ pc' = "root"
        /\ extpresent' = extpresent /\ opmd' = OpmdAfter /\ buf' = buf
        /\ st' = [st EXCEPT ![edx] = Taken(Len(X))]
    BY <1>1, <1>5, <1>11 DEF RootMember, Take
  <2>2. Taken(Len(X)) = X /\ AheadAt(pos + Len(X), A \o E) /\ pos + Len(X) \in 0 .. Len(wire)
    BY <1>1, <1>5, <1>7, <1>9, <1>11, Reading
  <2>3. opmd' = Onwards(PresenceBits(Value), edx + 1)
    BY <1>3, <2>1 DEF RootAt, OpmdAfter
  <2>4. Settled(edx) = X
    <3>1. Len(Value) = Len(Root) + Extra(sender) /\ Extra(sender) \in Nat
      BY <1>2, ElementsOf DEF Shape
    <3>2. edx <= Len(Value) /\ Value[edx] # Absent
      BY <1>1, <1>4, <3>1, Members DEF Written
    <3> QED BY <1>7, <3>2 DEF Settled
  <2>5. Filling'
    BY <1>1, <1>2, <2>1, <2>2, <2>4, FillNext DEF InRoot
  <2>6. Value' = Value /\ \A bits : Ahead(bits)' <=> AheadAt(pos', bits)
    BY <1>1, <2>1, SameMessage
  <2>7. InRoot'
    <3>1. edx' <= Len(Root) + 1 /\ extpresent' = HasExtensions(sender', Value')
      BY <1>1, <1>2, <2>1, <2>6 DEF InRoot, Reads
    <3>2. opmd' = Onwards(PresenceBits(Value'), edx')
      BY <2>1, <2>3, <2>6
    <3>3. Ahead(Onwards(RootBits(Value), edx) \o ExtensionsOf(sender, Value))'
      BY <1>1, <2>1, <2>2, <2>6 DEF Ahead, Reads
    <3> QED BY <2>5, <3>1, <3>2, <3>3 DEF InRoot
  <2>8. /\ pos' \in 0 .. Len(wire) /\ edx' \in 1 .. Known + 1
        /\ buf' \in Bits /\ Len(buf') % CHAR_BIT = 0
    BY <1>1, <1>2, <2>1, <2>2, RootRoom, SMTT(20) DEF Typed
  <2>9. refused' = refused
    BY <1>1, <1>5, <1>11 DEF RootMember
  <2> QED BY <1>1, <2>1, <2>7, <2>8, <2>9, StepWithin
<1> QED BY <1>10, <1>11

\* The end of the root.
LEMMA RootDoneStep ==
  ASSUME IInv, RootDone
  PROVE  IInv'
<1>1. /\ Within /\ InRoot /\ Reads /\ pc = "root" /\ edx > Len(Root)
      /\ UNCHANGED <<received, pos, edx, st, buf>>
      /\ pc' = IF HasExtensions(sender, Value) THEN "bitmap" ELSE "defaults"
  BY IsWithin DEF IInv, Place, RootDone, Reads, InRoot
<1>2. Typed /\ sender \in Versions /\ Shape(sender, Value) /\ receiver \in Versions
  BY <1>1, AtHand DEF Within
<1>3. edx = Len(Root) + 1
  BY <1>1, <1>2, RootRoom DEF InRoot
<1>4. Onwards(RootBits(Value), edx) = <<>> /\ ExtensionsOf(sender, Value) \in Bits
  BY <1>2, <1>3, RootParts, OnwardsEnds, EncodingParts
<1>5. Ahead(ExtensionsOf(sender, Value))
  BY <1>1, <1>4, JoinedEmpty DEF InRoot
<1>6. Value' = Value /\ Known' = Known /\ (\A i : Settled(i)' = Settled(i))
      /\ \A bits : Ahead(bits)' <=> AheadAt(pos', bits)
  BY <1>1, SameMessage
<1>7. Filling'
  BY <1>1, FillStays DEF InRoot
<1>8. CASE HasExtensions(sender, Value)
  <2>1. pc' = "bitmap" /\ Ahead(ExtensionBits(sender, Value))
    BY <1>1, <1>5, <1>8 DEF ExtensionsOf
  <2>2. Ahead(ExtensionBits(sender, Value))'
    BY <1>1, <1>6, <2>1 DEF Ahead, Reads
  <2>3. InBitmap'
    BY <1>1, <1>3, <1>6, <1>7, <1>8, <2>2 DEF InBitmap, Reads
  <2> QED BY <1>1, <2>1, <2>3, StepWithin DEF Within, Typed
<1>9. CASE ~HasExtensions(sender, Value)
  <2>1. pc' = "defaults" /\ Ahead(<<>>)
    BY <1>1, <1>5, <1>9 DEF ExtensionsOf
  <2>2. Ahead(<<>>)'
    BY <1>1, <1>6, <2>1 DEF Ahead
  <2>3. ASSUME NEW i \in 1 .. Known, i > Len(Root) PROVE Settled(i) = Absent
    <3>1. Len(Value) = Len(Root) + Extra(sender) /\ Extra(sender) \in Nat /\ Len(Root) \in Nat
      BY <1>2, ElementsOf, Members DEF Shape
    <3>2. i \in Nat /\ ~(i <= Len(Root))
      BY <2>3, <3>1
    <3>3. CASE i <= Len(Value)
      <4>1. sender # Closed /\ Extra(sender) = sender /\ i - Len(Root) \in 1 .. sender
        BY <1>2, <3>1, <3>2, <3>3 DEF Extra
      <4>2. Addition(Value, i - Len(Root)) = Absent
        BY <1>9, <4>1 DEF HasExtensions
      <4>3. Len(Root) + (i - Len(Root)) = i
        BY <3>1, <3>2
      <4> QED BY <3>2, <4>2, <4>3 DEF Addition, Settled
    <3>4. CASE ~(i <= Len(Value))
      BY <3>2, <3>4 DEF Settled
    <3> QED BY <3>3, <3>4
  <2>4. ASSUME NEW i \in 1 .. Known PROVE st[i] = Settled(i)
    <3>1. st[i] = IF i < edx THEN Settled(i) ELSE Absent
      BY <1>1, <2>4 DEF InRoot, Filling
    <3>2. i < edx \/ i > Len(Root)
      BY <1>2, <1>3, RootRoom
    <3> QED BY <2>3, <3>1, <3>2
  <2>5. InDefaults'
    BY <1>1, <1>6, <2>2, <2>4 DEF InDefaults, InRoot, Filling
  <2> QED BY <1>1, <2>1, <2>5, StepWithin DEF Within, Typed
<1> QED BY <1>8, <1>9

\* A part of the wire ahead.
LEMMA RestPart ==
  ASSUME Typed, NEW a \in Nat, NEW b \in Nat, (pos + a) + b <= Len(wire)
  PROVE  SubSeq(wire, pos + a + 1, pos + a + b) = SubSeq(Rest, a + 1, a + b)
<1>1. wire \in Bits /\ pos \in Nat /\ Len(wire) \in Nat /\ pos <= Len(wire)
  BY DEF Typed, Bits
<1>2. /\ Rest \in Bits /\ Len(Rest) = Len(wire) - pos
      /\ \A i \in 1 .. Len(Rest) : Rest[i] = wire[pos + i]
  BY <1>1 DEF Rest, From, Bits
<1> DEFINE s == SubSeq(wire, pos + a + 1, pos + a + b)
           t == SubSeq(Rest, a + 1, a + b)
<1>3. s \in Seq(Bit) /\ Len(s) = b /\ \A i \in 1 .. b : s[i] = wire[pos + a + i]
  BY <1>1 DEF Bits
<1>4. t \in Seq(Bit) /\ Len(t) = b /\ \A i \in 1 .. b : t[i] = Rest[a + i]
  BY <1>1, <1>2 DEF Bits
<1>5. \A i \in 1 .. b : s[i] = t[i]
  <2> SUFFICES ASSUME NEW i \in 1 .. b PROVE s[i] = t[i]
    OBVIOUS
  <2>1. Rest[a + i] = wire[pos + (a + i)]
    BY <1>1, <1>2
  <2>2. pos + (a + i) = pos + a + i
    BY <1>1
  <2> QED BY <1>3, <1>4, <2>1, <2>2
<1> HIDE DEF s, t
<1>6. s = t
  BY <1>3, <1>4, <1>5, BitsEqual
<1> QED BY <1>6 DEF s, t

\* All of a message is ahead where it begins.
LEMMA Beginning ==
  ASSUME Within, pos = Start(At)
  PROVE  Ahead(Encoding(sender, Value))
<1>1. Coded(At) = Encoding(sender, Value) /\ Coded(At) \in Bits /\ Start(At) \in Nat
  BY AtHand
<1>2. pos - Start(At) = 0 /\ (pos - Start(At)) + 1 = 1
  BY <1>1
<1>3. From(Coded(At), 1) = Coded(At)
  BY <1>1 DEF From, Bits
<1>4. 0 \in 0 .. Len(Coded(At))
  BY <1>1 DEF Bits
<1> QED BY <1>1, <1>2, <1>3, <1>4 DEF Ahead, AheadAt

\* The beginning of a message.
LEMMA PreambleStep ==
  ASSUME IInv, Preamble
  PROVE  IInv' /\ (refused' = refused \/ CutOff)
<1> DEFINE ext == IF receiver = Closed THEN 0 ELSE 1
           B == ExtBit(sender, Value)
           P == FlattenSeq(PresenceBits(Value))
           A == FlattenSeq(RootBits(Value)) \o ExtensionsOf(sender, Value)
           n == ext + Optionals
<1>1. Within /\ Reads /\ pos = Start(At) /\ pc = "idle"
  BY DEF IInv, Place, Preamble, Within, Reads, Typed, At
<1>2. /\ Typed /\ sender \in Versions /\ Shape(sender, Value) /\ receiver \in Versions
      /\ (sender = Closed <=> receiver = Closed)
  BY <1>1, AtHand DEF Within, Typed
<1>3. /\ B \in Bits /\ P \in Bits /\ A \in Bits /\ Encoding(sender, Value) = (B \o P) \o A
      /\ B \o P \in Bits
  BY <1>2, EncodingParts, Joined
<1>4. Len(B) = ext /\ (ext = 1 => B[1] = IF HasExtensions(sender, Value) THEN 1 ELSE 0)
  BY <1>2 DEF ExtBit, BitOf
<1>5. Len(P) = Optionals /\ Optionals \in Nat
  <2>1. 1 \in 1 .. Len(Root) + 1 /\ DOMAIN Root = 1 .. Len(Root)
    BY Members
  <2>2. Len(Onwards(PresenceBits(Value), 1)) = Cardinality(OptionalFrom(1))
        /\ Cardinality(OptionalFrom(1)) \in Nat
    BY <1>2, <2>1, PresenceCount
  <2>3. Onwards(PresenceBits(Value), 1) = P
    BY <1>2, RootParts, OnwardsEnds
  <2>4. Optionals = Cardinality(OptionalFrom(1))
    BY <2>1 DEF Optionals, OptionalFrom
  <2> QED BY <2>2, <2>3, <2>4
<1>6. HasExtensions(sender, Value) => ext = 1
  BY <1>2 DEF HasExtensions
<1>7. ext \in Nat /\ ext = IF receiver = Closed THEN 0 ELSE 1
  OBVIOUS
<1>8. Ahead((B \o P) \o A)
  BY <1>1, <1>3, Beginning
<1> HIDE DEF ext, B, P, A
<1>9. Len(B \o P) = n /\ n \in Nat
  BY <1>3, <1>4, <1>5, <1>7, Joined
<1> HIDE DEF n
<1>10. CASE ~HasBits(n)
  <2>1. IInv'
    BY <1>1, <1>10, Refusing DEF Preamble, ext, n
  <2>2. CutOff
    BY <1>1, <1>3, <1>8, <1>9, <1>10, Reading DEF CutOff
  <2> QED BY <2>1, <2>2
<1>11. CASE HasBits(n)
  <2>1. /\ received' = received /\ pos' = pos + n /\ edx' = 1 /\ pc' = "root" /\ buf' = buf
        /\ extpresent' = (ext = 1 /\ Rest[1] = 1)
        /\ opmd' = SubSeq(wire, pos + ext + 1, pos + n)
        /\ st' = [i \in 1 .. Known |-> Absent]
    <3>1. pos + ext + Optionals = pos + n
      BY <1>2, <1>5, <1>7 DEF n, Typed
    <3> QED BY <1>1, <1>11, <3>1 DEF Preamble, ext, n, Take
  <2>2. /\ Rest \in Bits /\ Begins(Rest, B \o P) /\ Len(Rest) = Len(wire) - pos
        /\ AheadAt(pos + n, A) /\ pos + n \in 0 .. Len(wire) /\ pos \in Nat /\ Len(wire) \in Nat
    BY <1>1, <1>3, <1>8, <1>9, <1>11, Reading
  <2>3. SubSeq(Rest, ext + 1, n) = P /\ Begins(Rest, B)
    <3>1. n = Len(B) + Len(P) /\ n <= Len(Rest)
      BY <1>4, <1>5, <1>9, <2>2 DEF n
    <3>2. SubSeq(Rest, Len(B) + 1, n) = P /\ Begins(Rest, B)
      BY <1>3, <1>9, <2>2, <3>1, SecondPart
    <3> QED BY <1>4, <3>2
  <2>4. opmd' = P
    <3>1. (pos + ext) + Optionals <= Len(wire) /\ pos + ext + Optionals = pos + n
          /\ ext + Optionals = n
      BY <1>5, <1>7, <2>2 DEF n
    <3>2. SubSeq(wire, pos + ext + 1, pos + ext + Optionals) = SubSeq(Rest, ext + 1, ext + Optionals)
      BY <1>2, <1>5, <1>7, <3>1, RestPart
    <3> QED BY <2>1, <2>3, <3>1, <3>2
  <2>5. extpresent' = HasExtensions(sender, Value)
    <3>1. ASSUME ext = 1 PROVE Rest[1] = 1 <=> HasExtensions(sender, Value)
      <4>1. 1 \in 1 .. Len(B) /\ 1 <= Len(Rest)
        BY <1>4, <1>5, <1>9, <2>2, <3>1 DEF n
      <4>2. Rest[1] = B[1]
        BY <2>3, <4>1 DEF Begins
      <4> QED BY <1>4, <3>1, <4>2
    <3>2. (ext = 1 /\ Rest[1] = 1) <=> HasExtensions(sender, Value)
      BY <1>6, <3>1, Zenon
    <3>3. HasExtensions(sender, Value) \in BOOLEAN
      BY DEF HasExtensions
    <3>4. extpresent' = HasExtensions(sender, Value)
      BY <2>1, <3>2, <3>3, Zenon
    <3> QED BY <3>4
  <2>6. /\ Value' = Value /\ Known' = Known
        /\ \A bits : Ahead(bits)' <=> AheadAt(pos', bits)
    BY <1>1, <2>1, SameMessage
  <2>7. Filling'
    <3>1. \A i \in 1 .. Known' : i >= 1
      BY <1>2, <2>6, RootRoom
    <3> QED BY <2>1, <2>6, <3>1 DEF Filling
  <2>8. InRoot'
    <3>1. edx' <= Len(Root) + 1
      BY <2>1, Members
    <3>2. opmd' = Onwards(PresenceBits(Value'), edx')
      BY <1>2, <2>1, <2>4, <2>6, RootParts, OnwardsEnds DEF P
    <3>3. Onwards(RootBits(Value), 1) = FlattenSeq(RootBits(Value))
      BY <1>2, RootParts, OnwardsEnds
    <3>4. (Onwards(RootBits(Value), edx) \o ExtensionsOf(sender, Value))' = A
      BY <1>1, <2>1, <2>6, <3>3 DEF Reads, A
    <3>5. Ahead(Onwards(RootBits(Value), edx) \o ExtensionsOf(sender, Value))'
      BY <2>1, <2>2, <2>6, <3>4 DEF Ahead
    <3> QED BY <1>1, <2>5, <2>6, <2>7, <3>1, <3>2, <3>5 DEF InRoot, Reads
  <2>9. /\ pos' \in 0 .. Len(wire) /\ edx' \in 1 .. Known + 1
        /\ buf' \in Bits /\ Len(buf') % CHAR_BIT = 0
    BY <1>2, <2>1, <2>2, RootRoom DEF Typed
  <2>10. refused' = refused
    BY <1>1, <1>11 DEF Preamble, ext, n
  <2> QED BY <1>1, <2>1, <2>8, <2>9, <2>10, StepWithin
<1> QED BY <1>10, <1>11

\* The presence bits of the additions.
LEMMA BitmapStep ==
  ASSUME IInv, Bitmap
  PROVE  IInv' /\ (refused' = refused \/ CutOff)
<1> DEFINE L == PutNsLength(sender)
           S == SentBits(sender, Value)
           F == FlattenSeq(OpenTypes(sender, Value))
           n == (SmallBits + 1) + sender
           length == GetNsLength(Rest)
<1>1. Within /\ InBitmap /\ Reads /\ pc = "bitmap"
  BY IsWithin DEF IInv, Place, Bitmap, Reads
<1>2. /\ Typed /\ sender \in Versions /\ Shape(sender, Value) /\ receiver \in Versions
      /\ HasExtensions(sender, Value) /\ edx = Len(Root) + 1
  BY <1>1, AtHand DEF Within, InBitmap
<1>3. /\ sender \in 1 .. 2^SmallBits /\ sender # Closed
      /\ L \in Bits /\ S \in Bits /\ F \in Bits /\ L \o S \in Bits
  BY <1>2, EncodingParts, Joined
<1>4. Len(L) = SmallBits + 1 /\ Len(S) = sender /\ SmallBits \in Nat
      /\ OpenTypes(sender, Value) \in Parts /\ Extra(sender) = sender
  BY <1>2, <1>3, PutNsLengthType, ExtensionParts
<1>5. Ahead((L \o S) \o F)
  BY <1>1 DEF InBitmap, ExtensionBits
<1>6. Len(L \o S) = n /\ n \in Nat /\ n = (SmallBits + 1) + sender /\ sender \in Nat
  <2>1. sender \in Nat
    BY <1>4, <1>2, ElementsOf
  <2> QED BY <1>3, <1>4, <2>1, Joined
<1> HIDE DEF L, S, F, n
<1>7. Rest \in Bits /\ Begins(Rest, L \o S) /\ Len(Rest) = Len(wire) - pos /\ pos \in Nat
      /\ Len(wire) \in Nat
  BY <1>1, <1>3, <1>5, Reading
<1>8. Begins(Rest, L)
  BY <1>3, <1>7, FirstPart
<1>9. length = IF Len(Rest) < SmallBits + 1 THEN NoLength
               ELSE [n |-> sender, used |-> SmallBits + 1, repeat |-> FALSE]
  BY <1>3, <1>7, <1>8, GetPutNsLength DEF L, Bits
<1> HIDE DEF length
<1>10. /\ ~HasBits(n) => length.n = -1 \/ ~HasBits(length.used + length.n)
       /\ HasBits(n) => length.n = sender /\ length.used = SmallBits + 1
  BY <1>4, <1>6, <1>7, <1>9 DEF HasBits, NoLength
<1>11. CASE ~HasBits(n)
  <2>1. Refuse
    BY <1>1, <1>10, <1>11 DEF Bitmap, length
  <2>2. CutOff
    BY <1>1, <1>3, <1>5, <1>6, <1>11, Reading DEF CutOff
  <2> QED BY <1>1, <2>1, <2>2, Refusing
<1>12. CASE HasBits(n)
  <2>1. length.n = sender /\ length.used = SmallBits + 1 /\ length.n # -1
        /\ length.used + length.n = n
    BY <1>6, <1>10, <1>12
  <2>2. /\ received' = received /\ refused' = refused /\ pos' = pos + n /\ pc' = "extensions"
        /\ UNCHANGED <<edx, st, buf>>
        /\ epmd' = SubSeq(Rest, (SmallBits + 1) + 1, n)
    BY <1>1, <1>12, <2>1 DEF Bitmap, length, Take
  <2>3. AheadAt(pos + n, F) /\ pos + n \in 0 .. Len(wire)
    BY <1>1, <1>3, <1>5, <1>6, <1>12, Reading
  <2>4. epmd' = S
    <3>1. n = Len(L) + Len(S) /\ n <= Len(Rest)
      BY <1>4, <1>6, <1>7, <2>3
    <3>2. SubSeq(Rest, Len(L) + 1, n) = S
      BY <1>3, <1>6, <1>7, <3>1, SecondPart
    <3> QED BY <1>4, <2>2, <3>2
  <2>5. /\ Value' = Value /\ Known' = Known /\ sender' = sender
        /\ \A bits : Ahead(bits)' <=> AheadAt(pos', bits)
    BY <1>1, <2>2, SameMessage DEF Reads
  <2>6. Filling'
    BY <1>1, <2>2, FillStays DEF InBitmap
  <2>7. Seen' = 0 /\ Seen' + 1 = 1
    BY <1>4, <1>6, <2>4, <2>5 DEF Seen
  <2>8. Extending'
    <3>1. From(S, 1) = S
      BY <1>3 DEF From, Bits
    <3>2. Len(epmd') \in 0 .. sender'
      BY <1>4, <1>6, <2>4, <2>5
    <3>3. HasExtensions(sender', Value')
      BY <1>2, <2>5
    <3>4. epmd' = From(SentBits(sender', Value'), Seen' + 1)
      BY <2>4, <2>5, <2>7, <3>1 DEF S
    <3> QED BY <2>6, <3>2, <3>3, <3>4 DEF Extending
  <2>9. InExtensions'
    <3>1. Additional' = F
      <4>1. Onwards(OpenTypes(sender, Value), 1) = F
        BY <1>4, OnwardsEnds DEF F
      <4> QED BY <2>5, <2>7, <4>1 DEF Additional
    <3>2. Ahead(Additional)'
      BY <2>2, <2>3, <2>5, <3>1 DEF Ahead
    <3>3. CursorAfter(Seen)'
      <4>1. receiver' = receiver
        BY <1>1 DEF Reads
      <4>2. edx' = IF 0 <= Extra(receiver') THEN Len(Root) + 1 + 0 ELSE Known' + 1
        BY <1>2, <2>2, <4>1, RootRoom
      <4> QED BY <2>7, <4>2 DEF CursorAfter
    <3> QED BY <2>8, <3>2, <3>3 DEF InExtensions
  <2>10. /\ pos' \in 0 .. Len(wire) /\ edx' \in 1 .. Known + 1
         /\ buf' \in Bits /\ Len(buf') % CHAR_BIT = 0
    BY <1>2, <2>2, <2>3, RootRoom DEF Typed
  <2> QED BY <1>1, <2>2, <2>9, <2>10, StepWithin
<1> QED BY <1>11, <1>12

\* What an addition of the value sent comes to.
LEMMA SettledAddition ==
  ASSUME NEW i \in Nat, i >= 1, sender \in Versions, Shape(sender, Value)
  PROVE  /\ i \in 1 .. Extra(sender) => Settled(Len(Root) + i) = Addition(Value, i)
         /\ i > Extra(sender) => Settled(Len(Root) + i) = Absent
<1>1. Len(Value) = Len(Root) + Extra(sender) /\ Extra(sender) \in Nat /\ Len(Root) \in Nat
  BY ElementsOf, Members DEF Shape
<1>2. ~(Len(Root) + i <= Len(Root))
  BY <1>1
<1>3. ASSUME i \in 1 .. Extra(sender) PROVE Settled(Len(Root) + i) = Addition(Value, i)
  <2>1. Len(Root) + i <= Len(Value)
    BY <1>1, <1>3
  <2> QED BY <1>2, <2>1 DEF Settled, Addition
<1>4. ASSUME i > Extra(sender) PROVE Settled(Len(Root) + i) = Absent
  <2>1. ~(Len(Root) + i <= Len(Value))
    BY <1>1, <1>4
  <2> QED BY <1>2, <2>1 DEF Settled
<1> QED BY <1>3, <1>4

\* The next addition, what is known of it, and what is left after it.
AdditionAt(version, value, i, left) ==
  LET types == OpenTypes(version, value)
  IN /\ left[1] = IF Addition(value, i) # Absent THEN 1 ELSE 0
     /\ Tail(left) = From(SentBits(version, value), i + 1) /\ Len(Tail(left)) = version - i
     /\ Onwards(types, i) = types[i] \o Onwards(types, i + 1)
     /\ types[i] \in Bits /\ Onwards(types, i + 1) \in Bits
     /\ types[i] = IF Addition(value, i) # Absent
                   THEN Fragments(Complete(Addition(value, i)))[1] ELSE <<>>

\* The addition at hand follows from the presence bits.
LEMMA AdditionNext ==
  ASSUME NEW version \in Versions, version # Closed, NEW value, Shape(version, value),
         NEW i \in 1 .. version
  PROVE  /\ version \in Nat /\ Extra(version) = version
         /\ AdditionAt(version, value, i, From(SentBits(version, value), i))
<1> DEFINE s == SentBits(version, value)
           t == OpenTypes(version, value)
<1>1. /\ version \in Nat /\ Extra(version) = version
      /\ s \in Bits /\ Len(s) = version /\ t \in Parts /\ Len(t) = version
      /\ s[i] = IF Addition(value, i) # Absent THEN 1 ELSE 0
      /\ Addition(value, i) = Absent => t[i] = <<>>
      /\ Addition(value, i) # Absent => t[i] = Fragments(Complete(Addition(value, i)))[1]
  BY ExtensionParts
<1> HIDE DEF s, t
<1>2. /\ t[i] \in Bits /\ Onwards(t, i + 1) \in Bits
      /\ Onwards(t, i) = t[i] \o Onwards(t, i + 1)
  BY <1>1, OnwardsNext
<1>3. /\ From(s, i)[1] = s[i] /\ Tail(From(s, i)) = From(s, i + 1)
      /\ Len(From(s, i + 1)) = version - i
  <2>1. i \in 1 .. Len(s) /\ i \in Nat /\ Len(s) \in Nat /\ s \in Seq(Bit)
    BY <1>1 DEF Bits
  <2> DEFINE f == From(s, i)
             g == From(s, i + 1)
  <2>2. f \in Seq(Bit) /\ Len(f) = Len(s) + 1 - i
        /\ \A j \in 1 .. Len(s) + 1 - i : f[j] = s[i + j - 1]
    <3>1. i \in 1 .. Len(s) + 1
      BY <2>1
    <3> QED BY <1>1, <3>1, FromType DEF Bits
  <2>3. g \in Seq(Bit) /\ Len(g) = Len(s) - i /\ \A j \in 1 .. Len(s) - i : g[j] = s[i + j]
    <3>1. i + 1 \in 1 .. Len(s) + 1
      BY <2>1
    <3>2. g \in Seq(Bit) /\ Len(g) = Len(s) + 1 - (i + 1)
          /\ \A j \in 1 .. Len(s) + 1 - (i + 1) : g[j] = s[(i + 1) + j - 1]
      BY <1>1, <3>1, FromType DEF Bits
    <3>3. Len(s) + 1 - (i + 1) = Len(s) - i /\ \A j \in Nat : (i + 1) + j - 1 = i + j
      BY <2>1
    <3>4. /\ g \in Seq(Bit) /\ Len(g) = Len(s) - i
          /\ \A j \in 1 .. Len(s) - i : g[j] = s[(i + 1) + j - 1]
      BY <3>2, <3>3, Zenon
    <3>5. \A j \in 1 .. Len(s) - i : j \in Nat
      BY <2>1
    <3>6. \A j \in 1 .. Len(s) - i : g[j] = s[i + j]
      BY <3>3, <3>4, <3>5, Zenon
    <3> QED BY <3>4, <3>6, Zenon
  <2> HIDE DEF f, g
  <2>4. Tail(f) \in Seq(Bit) /\ Len(Tail(f)) = Len(s) - i
        /\ \A j \in 1 .. Len(s) - i : Tail(f)[j] = f[j + 1]
    <3>1. f # <<>>
      BY <2>1, <2>2
    <3> QED BY <2>1, <2>2, <3>1
  <2>5. \A j \in 1 .. Len(s) - i : Tail(f)[j] = g[j]
    <3> SUFFICES ASSUME NEW j \in 1 .. Len(s) - i PROVE Tail(f)[j] = g[j]
      OBVIOUS
    <3>1. j + 1 \in 1 .. Len(s) + 1 - i /\ i + (j + 1) - 1 = i + j
      BY <2>1
    <3>2. f[j + 1] = s[i + j]
      BY <2>2, <3>1
    <3> QED BY <2>3, <2>4, <3>2
  <2>6. Tail(From(s, i)) = From(s, i + 1)
    BY <2>3, <2>4, <2>5, BitsEqual DEF f, g
  <2>7. From(s, i)[1] = s[i]
    <3>1. 1 \in 1 .. Len(s) + 1 - i /\ i + 1 - 1 = i
      BY <2>1
    <3> QED BY <2>2, <3>1 DEF f
  <2> QED BY <1>1, <2>3, <2>6, <2>7 DEF g
<1> QED BY <1>1, <1>2, <1>3 DEF AdditionAt, s, t

\* What the invariant says between two additions.
LEMMA BetweenAdditions ==
  ASSUME Within, Extending
  PROVE  /\ Typed /\ Shape(sender, Value) /\ sender \in Versions /\ sender # Closed
         /\ receiver \in Versions
         /\ sender \in Nat /\ Extra(sender) = sender /\ Seen \in 0 .. sender
         /\ Len(epmd) \in Nat /\ Seen = sender - Len(epmd)
         /\ OpenTypes(sender, Value) \in Parts /\ Len(OpenTypes(sender, Value)) = sender
<1>1. /\ Typed /\ Shape(sender, Value) /\ sender \in Versions /\ sender # Closed
      /\ receiver \in Versions
  BY AtHand DEF Within, Extending, HasExtensions
<1>2. /\ sender \in 0 .. Len(Additions) /\ Extra(sender) = sender
      /\ OpenTypes(sender, Value) \in Parts /\ Len(OpenTypes(sender, Value)) = sender
  BY <1>1, ExtensionParts
<1>3. Len(epmd) \in 0 .. sender /\ sender \in Nat
  BY <1>2, Members DEF Extending
<1> QED BY <1>1, <1>2, <1>3 DEF Seen

\* One more presence bit of an addition.
LEMMA NextAdditionStep ==
  ASSUME IInv, NextAddition
  PROVE  IInv'
<1> DEFINE i == Seen + 1
           types == OpenTypes(sender, Value)
           item == Addition(Value, i)
<1>1. /\ Within /\ InExtensions /\ Extending /\ Reads /\ epmd # <<>> /\ epmd' = Tail(epmd)
      /\ UNCHANGED <<received, pos, st>> /\ buf' = <<>>
  BY IsWithin DEF IInv, Place, NextAddition, Reads, EpmdAfter, InExtensions
<1>2. /\ Typed /\ Shape(sender, Value) /\ sender \in Versions /\ sender # Closed
      /\ receiver \in Versions
      /\ sender \in Nat /\ Extra(sender) = sender /\ Seen \in 0 .. sender
      /\ Len(epmd) \in Nat /\ Seen = sender - Len(epmd)
  BY <1>1, BetweenAdditions
<1>3. epmd = From(SentBits(sender, Value), i) /\ i \in 1 .. sender /\ i \in Nat /\ Seen \in Nat
      /\ Seen = i - 1
  <2>1. SentBits(sender, Value) \in Bits /\ Len(SentBits(sender, Value)) = sender
    BY <1>2, ExtensionParts
  <2>2. epmd = From(SentBits(sender, Value), i)
    BY <1>1 DEF Extending
  <2>3. epmd \in Bits
    <3>1. i \in 1 .. sender + 1
      BY <1>2
    <3> HIDE DEF i
    <3> QED BY <2>1, <2>2, <3>1, FromType
  <2>4. Len(epmd) # 0
    BY <1>1, <2>3 DEF Bits
  <2> QED BY <1>2, <2>2, <2>4
<1>4. AdditionAt(sender, Value, i, epmd)
  BY <1>2, <1>3, AdditionNext
<1> HIDE DEF i
<1>5. /\ epmd[1] = IF item # Absent THEN 1 ELSE 0
      /\ epmd' = From(SentBits(sender, Value), i + 1) /\ Len(epmd') = sender - i
      /\ Onwards(types, i) = types[i] \o Onwards(types, i + 1)
      /\ types[i] \in Bits /\ Onwards(types, i + 1) \in Bits
      /\ types[i] = IF item # Absent THEN Fragments(Complete(item))[1] ELSE <<>>
  BY <1>1, <1>4 DEF AdditionAt
<1>6. Ahead(types[i] \o Onwards(types, i + 1))
  BY <1>1, <1>5 DEF InExtensions, Additional, i
<1>7. edx = IF i - 1 <= Extra(receiver) THEN Len(Root) + i ELSE Known + 1
  <2>1. Len(Root) \in Nat
    BY Members
  <2>2. Len(Root) + 1 + Seen = Len(Root) + i
    BY <1>3, <2>1
  <2> QED BY <1>1, <1>3, <2>2 DEF InExtensions, CursorAfter
<1>8. /\ Known \in Nat /\ Len(Root) \in Nat /\ edx \in Nat /\ Extra(receiver) \in Nat
      /\ Known = Len(Root) + Extra(receiver)
  BY <1>2, RootRoom
<1>9. /\ Value' = Value /\ Known' = Known /\ sender' = sender /\ receiver' = receiver
      /\ (\A j : Settled(j)' = Settled(j))
      /\ \A bits : Ahead(bits)' <=> AheadAt(pos', bits)
  BY <1>1, SameMessage DEF Reads
<1>10. Seen' = i
  BY <1>2, <1>3, <1>5, <1>9 DEF Seen
<1>11. /\ HasExtensions(sender', Value') /\ Len(epmd') \in 0 .. sender'
       /\ epmd' = From(SentBits(sender', Value'), Seen' + 1)
  <2>1. HasExtensions(sender', Value')
    BY <1>1, <1>9 DEF Extending
  <2> QED BY <1>2, <1>3, <1>5, <1>9, <1>10, <2>1
<1>12. Additional' = Onwards(types, i + 1)
  BY <1>9, <1>10 DEF Additional
<1> HIDE DEF item, types
<1>13. CASE item # Absent
  <2>1. pc' = "fragments" /\ edx' = edx
    BY <1>5, <1>13 DEF NextAddition, IsSent
  <2>2. Filling'
    BY <1>1, <2>1, FillStays DEF Extending
  <2>3. edx' = IF i <= Extra(receiver) THEN Len(Root) + i ELSE Known + 1
    BY <1>3, <1>7, <1>8, <2>1
  <2>4. Gathering'
    <3>1. Seen' >= 1
      BY <1>3, <1>10
    <3>2. Addition(Value', Seen') # Absent
      BY <1>9, <1>10, <1>13 DEF item
    <3> QED BY <1>9, <1>10, <1>11, <2>2, <2>3, <3>1, <3>2 DEF Gathering, Extending
  <2>5. Whole' = Complete(item) /\ item \in Bits
    <3>1. Whole' = Complete(item)
      BY <1>9, <1>10 DEF Whole, item
    <3>2. item \in Bits
      BY <1>2, <1>3, <1>13, ExtensionParts DEF item
    <3> QED BY <3>1, <3>2
  <2>6. /\ Len(Whole') \in Nat /\ Len(Whole') \div CHAR_BIT \in Nat
        /\ 1 \in 1 .. (Len(Whole') \div CHAR_BIT) + 1
    <3>1. PICK size \in Nat : Len(Complete(item)) = size * CHAR_BIT
      BY <2>5, CompleteType
    <3>2. CHAR_BIT \in Nat /\ CHAR_BIT > 0 /\ 0 \in 0 .. CHAR_BIT - 1
      BY PerAssumption
    <3>3. Len(Complete(item)) \in Nat
      BY <2>5, CompleteType DEF Bits
    <3>4. Len(Complete(item)) = CHAR_BIT * size + 0
      BY <3>1, <3>2, <3>3
    <3>5. Len(Complete(item)) \div CHAR_BIT = size
      BY <3>2, <3>3, <3>4, DivModUnique
    <3> QED BY <2>5, <3>3, <3>5
  <2>7. GatheredTo(1)'
    <3>1. (1 - 1) * CHAR_BIT = 0
      BY PerAssumption
    <3>2. SubSeq(Whole', 1, 0) = <<>>
      BY <2>5, CompleteType DEF Bits
    <3>3. (Fragments(Whole)[1] \o Additional)' = types[i] \o Onwards(types, i + 1)
      BY <1>5, <1>12, <1>13, <2>5
    <3>4. Ahead(Fragments(Whole)[1] \o Additional)'
      BY <1>1, <1>6, <1>9, <3>3 DEF Ahead
    <3> QED BY <1>1, <2>6, <3>1, <3>2, <3>4 DEF GatheredTo
  <2>8. InFragments'
    BY <2>4, <2>6, <2>7 DEF InFragments
  <2>9. /\ pos' \in 0 .. Len(wire) /\ edx' \in 1 .. Known + 1
        /\ buf' \in Bits /\ Len(buf') % CHAR_BIT = 0
    BY <1>1, <1>2, <2>1, JoinedEmpty, PerAssumption DEF Typed
  <2> QED BY <1>1, <2>1, <2>8, <2>9, StepWithin
<1>14. CASE item = Absent
  <2>1. pc' = "extensions" /\ edx' = IF edx <= Known THEN edx + 1 ELSE edx
    BY <1>5, <1>14 DEF NextAddition, IsSent
  <2>2. edx' = IF i <= Extra(receiver) THEN Len(Root) + 1 + i ELSE Known + 1
    BY <1>3, <1>7, <1>8, <2>1
  <2>3. Filling'
    <3>1. ASSUME NEW j \in 1 .. Known' PROVE st'[j] = IF j < edx' THEN Settled(j)' ELSE Absent
      <4>1. /\ st[j] = (IF j < edx THEN Settled(j) ELSE Absent) /\ j \in Nat /\ st' = st
            /\ Settled(j)' = Settled(j)
        BY <1>1, <1>8, <1>9, <3>1 DEF Extending, Filling
      <4>2. CASE j = edx
        <5>1. edx = Len(Root) + i
          BY <1>3, <1>7, <1>8, <1>9, <4>2
        <5>2. Settled(edx) = Absent
          BY <1>2, <1>3, <1>14, <5>1, SettledAddition DEF item
        <5> QED BY <4>1, <4>2, <5>2
      <4>3. CASE j # edx
        <5>1. j < edx' <=> j < edx
          BY <1>8, <1>9, <2>1, <4>1, <4>3
        <5> QED BY <4>1, <5>1
      <4> QED BY <4>2, <4>3
    <3> QED BY <1>1, <1>9, <3>1 DEF Filling, Extending
  <2>4. Extending'
    BY <1>11, <2>3 DEF Extending
  <2>5. CursorAfter(Seen)'
    BY <1>9, <1>10, <2>2 DEF CursorAfter
  <2>6. Ahead(Additional)'
    <3>1. types[i] \o Onwards(types, i + 1) = Onwards(types, i + 1)
      BY <1>5, <1>14, JoinedEmpty
    <3> QED BY <1>1, <1>6, <1>9, <1>12, <3>1 DEF Ahead
  <2>7. InExtensions'
    BY <2>4, <2>5, <2>6 DEF InExtensions
  <2>8. /\ pos' \in 0 .. Len(wire) /\ edx' \in 1 .. Known + 1
        /\ buf' \in Bits /\ Len(buf') % CHAR_BIT = 0
    <3>1. edx' \in 1 .. Known + 1
      BY <1>3, <1>8, <2>2
    <3> QED BY <1>1, <1>2, <3>1, JoinedEmpty, PerAssumption DEF Typed
  <2> QED BY <1>1, <2>1, <2>7, <2>8, StepWithin
<1> QED BY <1>13, <1>14

\* The end of the additions.
LEMMA NoMoreAdditionsStep ==
  ASSUME IInv, NoMoreAdditions
  PROVE  IInv'
<1>1. /\ Within /\ InExtensions /\ Extending /\ Reads /\ epmd = <<>> /\ pc' = "defaults"
      /\ UNCHANGED <<received, pos, edx, st, buf>>
  BY IsWithin DEF IInv, Place, NoMoreAdditions, Reads, InExtensions
<1>2. /\ Typed /\ Shape(sender, Value) /\ sender \in Versions /\ receiver \in Versions
      /\ sender \in Nat /\ Extra(sender) = sender /\ Seen = sender - Len(epmd)
      /\ OpenTypes(sender, Value) \in Parts /\ Len(OpenTypes(sender, Value)) = sender
  BY <1>1, BetweenAdditions
<1>3. Seen = sender
  BY <1>1, <1>2
<1>4. Ahead(<<>>)
  <2>1. Additional = <<>>
    BY <1>2, <1>3, OnwardsEnds DEF Additional
  <2> QED BY <1>1, <2>1 DEF InExtensions
<1>5. /\ Known \in Nat /\ Len(Root) \in Nat /\ edx \in Nat /\ Extra(receiver) \in Nat
      /\ Known = Len(Root) + Extra(receiver)
  BY <1>2, RootRoom
<1>6. edx = IF sender <= Extra(receiver) THEN Len(Root) + 1 + sender ELSE Known + 1
  BY <1>1, <1>3 DEF InExtensions, CursorAfter
<1>7. ASSUME NEW i \in 1 .. Known PROVE st[i] = Settled(i)
  <2>1. st[i] = IF i < edx THEN Settled(i) ELSE Absent
    BY <1>1 DEF Extending, Filling
  <2>2. CASE ~(i < edx)
    <3>1. i - Len(Root) \in Nat /\ i - Len(Root) >= 1 /\ i - Len(Root) > sender
          /\ Len(Root) + (i - Len(Root)) = i
      BY <1>2, <1>5, <1>6, <2>2
    <3>2. PICK j \in Nat : j = i - Len(Root)
      BY <3>1
    <3>3. Settled(Len(Root) + j) = Absent
      BY <1>2, <3>1, <3>2, SettledAddition
    <3> QED BY <2>1, <2>2, <3>1, <3>2, <3>3
  <2> QED BY <2>1, <2>2
<1>8. Value' = Value /\ Known' = Known /\ (\A i : Settled(i)' = Settled(i))
      /\ \A bits : Ahead(bits)' <=> AheadAt(pos', bits)
  BY <1>1, SameMessage
<1>9. Ahead(<<>>)'
  BY <1>1, <1>4, <1>8 DEF Ahead
<1>10. InDefaults'
  BY <1>1, <1>7, <1>8, <1>9 DEF InDefaults, Extending, Filling
<1> QED BY <1>1, <1>10, StepWithin DEF Within, Typed

\* The addition that is being gathered, and where it belongs.
LEMMA Gathered ==
  ASSUME Within, Gathering
  PROVE  /\ Extending /\ Seen \in Nat /\ Seen >= 1 /\ Seen \in 1 .. sender
         /\ Addition(Value, Seen) \in Bits /\ Addition(Value, Seen) # Absent
         /\ Len(Addition(Value, Seen)) = Additions[Seen].width /\ Seen \in 1 .. Len(Additions)
         /\ Whole \in Bits
         /\ \E size \in Nat : Len(Whole) = size * CHAR_BIT /\ Len(Whole) \div CHAR_BIT = size
         /\ Seen <= Extra(receiver) =>
              /\ edx = Len(Root) + Seen /\ edx \in 1 .. Known
              /\ Settled(edx) = Addition(Value, Seen)
              /\ Elements(receiver)[edx] = Additions[Seen]
         /\ Seen > Extra(receiver) => edx = Known + 1
         /\ Seen <= Extra(receiver) \/ Seen > Extra(receiver)
<1>1. Extending /\ Seen >= 1 /\ Addition(Value, Seen) # Absent
  BY DEF Gathering
<1>2. /\ Typed /\ Shape(sender, Value) /\ sender \in Versions /\ sender # Closed
      /\ receiver \in Versions
      /\ sender \in Nat /\ Extra(sender) = sender /\ Seen \in 0 .. sender
  BY <1>1, BetweenAdditions
<1>3. Seen \in Nat /\ Seen \in 1 .. sender
  BY <1>1, <1>2
<1>4. /\ Addition(Value, Seen) \in Bits
      /\ Len(Addition(Value, Seen)) = Additions[Seen].width
      /\ sender \in 0 .. Len(Additions)
  BY <1>1, <1>2, <1>3, ExtensionParts
<1>5. Seen \in 1 .. Len(Additions)
  BY <1>3, <1>4, Members
<1>6. Whole \in Bits /\ \E size \in Nat : size >= 1 /\ Len(Whole) = size * CHAR_BIT
  BY <1>4, CompleteType DEF Whole
<1>7. \E size \in Nat : Len(Whole) = size * CHAR_BIT /\ Len(Whole) \div CHAR_BIT = size
  <2>1. PICK size \in Nat : size >= 1 /\ Len(Whole) = size * CHAR_BIT
    BY <1>6
  <2>2. Len(Whole) \in Nat /\ CHAR_BIT \in Nat /\ CHAR_BIT > 0
    BY <1>6, PerAssumption DEF Bits
  <2>3. Len(Whole) = CHAR_BIT * size + 0 /\ 0 \in 0 .. CHAR_BIT - 1
    BY <2>1, <2>2
  <2>4. Len(Whole) \div CHAR_BIT = size
    BY <2>2, <2>3, DivModUnique
  <2> QED BY <2>1, <2>4
<1>8. /\ Known \in Nat /\ Len(Root) \in Nat /\ Extra(receiver) \in Nat
      /\ Known = Len(Root) + Extra(receiver)
  BY <1>2, RootRoom
<1>9. edx = IF Seen <= Extra(receiver) THEN Len(Root) + Seen ELSE Known + 1
  BY DEF Gathering
<1>10. ASSUME Seen <= Extra(receiver)
       PROVE  /\ edx = Len(Root) + Seen /\ edx \in 1 .. Known
              /\ Settled(edx) = Addition(Value, Seen)
              /\ Elements(receiver)[edx] = Additions[Seen]
  <2>1. edx = Len(Root) + Seen
    BY <1>9, <1>10
  <2>2. edx \in 1 .. Known /\ Seen \in 1 .. Extra(receiver)
    BY <1>3, <1>8, <1>10, <2>1
  <2>3. Settled(Len(Root) + Seen) = Addition(Value, Seen)
    BY <1>1, <1>2, <1>3, SettledAddition
  <2>4. Elements(receiver)[Len(Root) + Seen] = Additions[Seen]
    BY <1>2, <2>2, ElementsOf
  <2> QED BY <2>1, <2>2, <2>3, <2>4
<1>11. Seen > Extra(receiver) => edx = Known + 1
  BY <1>3, <1>8, <1>9
<1> QED BY <1>1, <1>3, <1>4, <1>5, <1>6, <1>7, <1>8, <1>10, <1>11

\* An addition has been gathered: what is ahead is left as it is.
LEMMA AfterAddition ==
  ASSUME Within, Gathering, Reads, Ahead(Additional), CursorAfter(Seen)', Filling',
         received' = received, pos' = pos, epmd' = epmd
  PROVE  InExtensions'
<1>1. Value' = Value /\ sender' = sender /\ \A bits : Ahead(bits)' <=> AheadAt(pos', bits)
  BY SameMessage DEF Reads
<1>2. Seen' = Seen
  BY <1>1 DEF Seen
<1>3. Additional' = Additional
  BY <1>1, <1>2 DEF Additional
<1>4. Ahead(Additional)'
  BY <1>1, <1>3 DEF Ahead
<1>5. Extending'
  BY <1>1, <1>2 DEF Gathering, Extending
<1> QED BY <1>4, <1>5 DEF InExtensions

\* An addition this version knows: the receiver takes whatever was gathered.
LEMMA KnownAdditionStep ==
  ASSUME IInv, KnownAddition
  PROVE  IInv' /\ refused' = refused
<1> DEFINE item == Addition(Value, Seen)
           width == Elements(receiver)[edx].width
<1>1. /\ Within /\ InOpenType /\ Gathering /\ Reads /\ edx <= Known /\ buf = Whole
      /\ Ahead(Additional)
  BY IsWithin DEF IInv, Place, KnownAddition, Reads, InOpenType
<1>2. Typed /\ Known \in Nat /\ edx \in Nat /\ Extra(receiver) \in Nat
  BY <1>1, RootRoom DEF Within
<1>3. /\ Seen \in Nat /\ item \in Bits /\ item # Absent /\ Len(item) = Additions[Seen].width
      /\ Seen <= Extra(receiver)
      /\ edx = Len(Root) + Seen /\ edx \in 1 .. Known /\ Settled(edx) = item
      /\ Elements(receiver)[edx] = Additions[Seen] /\ Extending
  <2>1. ~(Seen > Extra(receiver))
    BY <1>1, <1>2, Gathered
  <2> QED BY <1>1, <2>1, Gathered
<1>4. width = Len(item) /\ buf = Complete(item)
  BY <1>1, <1>3 DEF Whole
<1> HIDE DEF item, width
<1>5. /\ Complete(item) \in Bits /\ Padding(item) \in 0 .. CHAR_BIT
      /\ Len(Complete(item)) = Len(item) + Padding(item)
      /\ item # <<>> => Padding(item) < CHAR_BIT
      /\ SubSeq(Complete(item), 1, Len(item)) = item
      /\ \A i \in 1 .. Len(Complete(item)) : i > Len(item) => Complete(item)[i] = 0
      /\ Len(item) \in Nat
  <2>1. Len(item) \in Nat
    BY <1>3 DEF Bits
  <2>2. /\ Complete(item) \in Bits /\ Padding(item) \in 0 .. CHAR_BIT
        /\ Len(Complete(item)) = Len(item) + Padding(item)
        /\ item # <<>> => Padding(item) < CHAR_BIT
        /\ SubSeq(Complete(item), 1, Len(item)) = item
    BY <1>3, CompleteType
  <2>3. \A i \in 1 .. Len(Complete(item)) : i > Len(item) => Complete(item)[i] = 0
    BY <1>3, CompleteType, Zenon
  <2> QED BY <2>1, <2>2, <2>3
<1>6. Fitting
  <2>1. Len(buf) - width = Padding(item) /\ CHAR_BIT \in Nat
    BY <1>4, <1>5, PerAssumption
  <2>2. ASSUME Padding(item) >= CHAR_BIT
        PROVE  width = 0 /\ Padding(item) = CHAR_BIT /\ ValueOf(buf) = 0
    <3>1. item = <<>> /\ Padding(item) = CHAR_BIT
      BY <1>5, <2>1, <2>2
    <3>2. Len(item) = 0
      BY <3>1
    <3>3. \A i \in 1 .. Len(buf) : buf[i] = 0
      BY <1>4, <1>5, <3>2
    <3> QED BY <1>4, <1>5, <3>1, <3>2, <3>3, ValueOfZeros
  <2> QED BY <1>5, <2>1, <2>2 DEF Fitting, width
<1>7. /\ edx' = edx + 1 /\ pc' = "extensions" /\ st' = [st EXCEPT ![edx] = Settled(edx)]
      /\ UNCHANGED <<pos, epmd, buf, received, refused>>
  <2>1. SubSeq(buf, 1, width) = Settled(edx)
    BY <1>3, <1>4, <1>5
  <2> QED BY <1>6, <2>1 DEF KnownAddition, width
<1>8. Filling'
  BY <1>1, <1>3, <1>7, FillNext DEF Extending
<1>9. CursorAfter(Seen)'
  <2>1. sender' = sender /\ receiver' = receiver
    BY <1>1 DEF Reads
  <2>2. Seen' = Seen
    BY <1>7, <2>1 DEF Seen
  <2>3. edx' = Len(Root) + 1 + Seen
    BY <1>3, <1>7, Members
  <2> QED BY <1>3, <2>1, <2>2, <2>3 DEF CursorAfter
<1>10. InExtensions'
  BY <1>1, <1>7, <1>8, <1>9, AfterAddition
<1> QED
  <2>1. /\ pos' \in 0 .. Len(wire) /\ edx' \in 1 .. Known + 1
        /\ buf' \in Bits /\ Len(buf') % CHAR_BIT = 0
    BY <1>2, <1>3, <1>7 DEF Typed
  <2> QED BY <1>1, <1>7, <1>10, <2>1, StepWithin

\* An addition this version does not know.
LEMMA UnknownAdditionStep ==
  ASSUME IInv, UnknownAddition
  PROVE  IInv'
<1>1. /\ Within /\ InOpenType /\ Gathering /\ Reads /\ edx > Known /\ Ahead(Additional)
      /\ pc' = "extensions" /\ UNCHANGED <<received, pos, edx, st, epmd, buf>>
  BY IsWithin DEF IInv, Place, UnknownAddition, Reads, InOpenType
<1>2. Typed /\ Known \in Nat /\ edx \in Nat /\ Extra(receiver) \in Nat
  BY <1>1, RootRoom DEF Within
<1>3. Seen \in Nat /\ Seen > Extra(receiver) /\ edx = Known + 1 /\ Extending
  <2>1. ~(Seen <= Extra(receiver))
    BY <1>1, <1>2, Gathered
  <2> QED BY <1>1, <2>1, Gathered
<1>4. Filling'
  BY <1>1, <1>3, FillStays DEF Extending
<1>5. CursorAfter(Seen)'
  <2>1. sender' = sender /\ receiver' = receiver /\ Known' = Known
    BY <1>1, SameMessage DEF Reads
  <2>2. Seen' = Seen
    BY <1>1, <2>1 DEF Seen
  <2>3. ~(Seen <= Extra(receiver))
    BY <1>2, <1>3
  <2> QED BY <1>1, <1>3, <2>1, <2>2, <2>3 DEF CursorAfter
<1>6. InExtensions'
  BY <1>1, <1>4, <1>5, AfterAddition
<1> QED BY <1>1, <1>6, StepWithin DEF Within, Typed

\* The kth octet of an open type, and the fragment that comes next.
FragmentAt(whole, size, k, n, more) ==
  /\ more \in Bits /\ PutLength(n) \in Bits /\ Piece(whole, k, MaySave(n)) \in Bits
  /\ MaySave(n) \in Nat /\ Len(Piece(whole, k, MaySave(n))) = MaySave(n) * CHAR_BIT
  /\ MaySave(n) * CHAR_BIT \in Nat
  /\ Fragments(whole)[k] = (PutLength(n) \o Piece(whole, k, MaySave(n))) \o more
  /\ SubSeq(whole, 1, (k - 1) * CHAR_BIT) \o Piece(whole, k, MaySave(n))
       = SubSeq(whole, 1, ((k + MaySave(n)) - 1) * CHAR_BIT)
  /\ n >= Unit => /\ k + MaySave(n) \in 1 .. size + 1 /\ more = Fragments(whole)[k + MaySave(n)]
  /\ n < Unit => more = <<>> /\ SubSeq(whole, 1, ((k + MaySave(n)) - 1) * CHAR_BIT) = whole

\* What comes next at the kth octet.
LEMMA FragmentsNext ==
  ASSUME NEW size \in Nat, NEW whole \in Bits, Len(whole) = size * CHAR_BIT,
         NEW k \in 1 .. size + 1, NEW n \in Nat, n = (size + 1) - k
  PROVE  \E more : FragmentAt(whole, size, k, n, more)
<1> DEFINE more == IF n >= Unit THEN Fragments(whole)[k + MaySave(n)] ELSE <<>>
           save == MaySave(n)
           piece == Piece(whole, k, save)
<1>1. /\ more \in Bits
      /\ n >= Unit => k + save \in 1 .. size + 1
      /\ Fragments(whole)[k] = (PutLength(n) \o piece) \o more
  BY FragmentNext
<1>2. /\ save \in 0 .. n /\ (n < Unit => save = n)
  BY SaveBounds
<1>3. PutLength(n) \in Bits /\ CHAR_BIT \in Nat /\ Unit \in Nat /\ Len(whole) \in Nat
  BY PutLengthType, Sizes DEF Bits
<1> HIDE DEF more, save
<1>4. save \in 0 .. (size + 1) - k /\ save \in Nat /\ k \in Nat
  BY <1>2
<1>5. /\ piece \in Bits /\ Len(piece) = save * CHAR_BIT
      /\ (k - 1) * CHAR_BIT \in 0 .. Len(whole)
      /\ (k - 1 + save) * CHAR_BIT = (k - 1) * CHAR_BIT + save * CHAR_BIT
      /\ (k - 1 + save) * CHAR_BIT \in 0 .. Len(whole)
  BY <1>4, PieceType
<1> DEFINE a == (k - 1) * CHAR_BIT
           b == save * CHAR_BIT
<1>6. piece = SubSeq(whole, a + 1, a + b)
  BY <1>5 DEF Piece
<1>7. (k + save) - 1 = k - 1 + save
  BY <1>4
<1>8. a \in Nat /\ b \in Nat /\ a + b <= Len(whole) /\ ((k + save) - 1) * CHAR_BIT = a + b
  <2>1. b = Len(piece) /\ Len(piece) \in Nat
    BY <1>5 DEF Bits
  <2> QED BY <1>3, <1>5, <1>7, <2>1
<1> HIDE DEF a, b
<1>9. SubSeq(whole, 1, a) \o SubSeq(whole, a + 1, a + b) = SubSeq(whole, 1, a + b)
  BY <1>8, PartsJoin
<1>10. n < Unit => SubSeq(whole, 1, a + b) = whole
  <2> SUFFICES ASSUME n < Unit PROVE SubSeq(whole, 1, a + b) = whole
    OBVIOUS
  <2>1. (k + save) - 1 = size
    BY <1>2, <1>4
  <2>2. a + b = Len(whole)
    BY <1>8, <2>1
  <2> QED BY <2>2 DEF Bits
<1>11. n < Unit \/ n >= Unit
  BY <1>3
<1>12. FragmentAt(whole, size, k, n, more)
  <2>1. b \in Nat /\ b = save * CHAR_BIT
    BY <1>8 DEF b
  <2>2. SubSeq(whole, 1, (k - 1) * CHAR_BIT) \o piece = SubSeq(whole, 1, ((k + save) - 1) * CHAR_BIT)
    BY <1>6, <1>8, <1>9 DEF a
  <2>3. n < Unit => SubSeq(whole, 1, ((k + save) - 1) * CHAR_BIT) = whole
    BY <1>8, <1>10
  <2>4. n < Unit => more = <<>>
    BY <1>3 DEF more
  <2>5. n >= Unit => more = Fragments(whole)[k + save]
    BY DEF more, save
  <2> QED BY <1>1, <1>3, <1>4, <1>5, <2>1, <2>2, <2>3, <2>4, <2>5 DEF FragmentAt, save
<1> QED BY <1>12

\* A fragment of an open type.
LEMMA FragmentStep ==
  ASSUME IInv, Fragment
  PROVE  IInv' /\ (refused' = refused \/ CutOff)
<1> DEFINE length == GetLength(Rest)
<1>1. Within /\ InFragments /\ Gathering /\ Reads /\ pc = "fragments"
  BY IsWithin DEF IInv, Place, Fragment, Reads, InFragments
<1>2. /\ Typed /\ Extending /\ Whole \in Bits
      /\ \E size \in Nat : Len(Whole) = size * CHAR_BIT /\ Len(Whole) \div CHAR_BIT = size
  BY <1>1, Gathered DEF Within
<1>3. PICK size \in Nat : Len(Whole) = size * CHAR_BIT /\ Len(Whole) \div CHAR_BIT = size
  BY <1>2
<1>4. PICK k \in 1 .. size + 1 : GatheredTo(k)
  BY <1>1, <1>3 DEF InFragments
<1>5. PICK n \in Nat : n = (size + 1) - k
  BY <1>4
<1>6. PICK more : FragmentAt(Whole, size, k, n, more)
  BY <1>2, <1>3, <1>4, <1>5, FragmentsNext
<1> DEFINE X1 == PutLength(n)
           save == MaySave(n)
           X2 == Piece(Whole, k, save)
           Y == more \o Additional
           bits == save * CHAR_BIT
<1>7. /\ more \in Bits /\ X1 \in Bits /\ X2 \in Bits /\ save \in Nat /\ Len(X2) = bits
      /\ bits \in Nat /\ Fragments(Whole)[k] = (X1 \o X2) \o more
      /\ buf \o X2 = SubSeq(Whole, 1, ((k + save) - 1) * CHAR_BIT)
      /\ n >= Unit => /\ k + save \in 1 .. size + 1 /\ more = Fragments(Whole)[k + save]
      /\ n < Unit => more = <<>> /\ SubSeq(Whole, 1, ((k + save) - 1) * CHAR_BIT) = Whole
  BY <1>4, <1>6 DEF FragmentAt, GatheredTo
<1>8. Additional \in Bits
  <2>1. /\ OpenTypes(sender, Value) \in Parts /\ Len(OpenTypes(sender, Value)) = sender
        /\ Seen + 1 \in 1 .. sender + 1
    BY <1>1, <1>2, BetweenAdditions
  <2>2. PICK i \in 1 .. sender + 1 : i = Seen + 1
    BY <2>1
  <2>3. Onwards(OpenTypes(sender, Value), i) \in Bits
    BY <2>1, <2>2, OnwardsType
  <2> QED BY <2>2, <2>3 DEF Additional
<1> HIDE DEF X1, X2, save, bits
<1>9. Ahead((X1 \o X2) \o Y) /\ X1 \o X2 \in Bits /\ Y \in Bits
      /\ Len(X1 \o X2) = Len(X1) + bits /\ Len(X1) \in Nat
  <2>1. X1 \o X2 \in Bits /\ Y \in Bits /\ Len(X1 \o X2) = Len(X1) + Len(X2) /\ Len(X1) \in Nat
    BY <1>7, <1>8, Joined
  <2>2. ((X1 \o X2) \o more) \o Additional = (X1 \o X2) \o Y
    <3>1. (X1 \o X2) \in Bits /\ more \in Bits /\ Additional \in Bits
      BY <1>7, <1>8, <2>1, Zenon
    <3> QED BY <3>1, Associates, Zenon DEF Y
  <2> QED BY <1>4, <1>7, <2>1, <2>2 DEF GatheredTo
<1> HIDE DEF Y
<1> DEFINE m == Len(X1) + bits
<1>10. m \in Nat /\ m = Len(X1) + bits
  BY <1>7, <1>9
<1> HIDE DEF m
<1>11. /\ Rest \in Bits /\ Begins(Rest, X1 \o X2) /\ Len(Rest) = Len(wire) - pos /\ pos \in Nat
       /\ Len(wire) \in Nat
       /\ HasBits(m) => AheadAt(pos + m, Y) /\ pos + m \in 0 .. Len(wire)
       /\ ~HasBits(m) => CutOff
  BY <1>1, <1>9, <1>10, Reading DEF CutOff
<1>12. length = IF Len(Rest) < Len(X1) THEN NoLength
                ELSE [n |-> save, used |-> Len(X1), repeat |-> n >= Unit]
  <2>1. Begins(Rest, X1)
    BY <1>7, <1>11, FirstPart
  <2> QED BY <1>11, <2>1, GetPutLength DEF X1, save, Bits
<1> HIDE DEF length
<1>13. CASE ~HasBits(m)
  <2>1. length.n = -1 \/ ~HasBits(length.used + length.n * CHAR_BIT)
    <3>1. CASE Len(Rest) < Len(X1)
      BY <1>12, <3>1 DEF NoLength
    <3>2. CASE ~(Len(Rest) < Len(X1))
      <4>1. length.used = Len(X1) /\ length.n = save
        BY <1>12, <3>2
      <4>2. length.used + length.n * CHAR_BIT = m
        BY <1>10, <4>1 DEF bits
      <4> QED BY <1>13, <4>2
    <3> QED BY <3>1, <3>2
  <2>2. Refuse
    BY <1>1, <2>1 DEF Fragment, length
  <2> QED BY <1>1, <1>11, <1>13, <2>2, Refusing
<1>14. CASE HasBits(m)
  <2>1. m <= Len(Rest)
    BY <1>10, <1>11, <1>14
  <2>2. length.n = save /\ length.used = Len(X1) /\ length.repeat = (n >= Unit)
    <3>1. ~(Len(Rest) < Len(X1))
      BY <1>7, <1>9, <1>10, <1>11, <2>1
    <3> QED BY <1>12, <3>1, Zenon
  <2>3. length.n # -1 /\ length.n * CHAR_BIT = bits /\ length.used + bits = m
    <3>1. length.n * CHAR_BIT = bits
      BY <2>2 DEF bits
    <3> QED BY <1>7, <1>10, <2>2, <3>1
  <2>4. /\ buf' = buf \o SubSeq(Rest, Len(X1) + 1, m) /\ pos' = pos + m
        /\ pc' = IF n >= Unit THEN "fragments" ELSE "opentype"
        /\ UNCHANGED <<edx, st, extpresent, opmd, epmd, received, refused>>
    BY <1>1, <1>14, <2>2, <2>3 DEF Fragment, length, Take
  <2>5. SubSeq(Rest, Len(X1) + 1, m) = X2
    <3>1. /\ Rest \in Bits /\ X1 \in Bits /\ X2 \in Bits /\ Begins(Rest, X1 \o X2)
          /\ Len(X1) + Len(X2) <= Len(Rest) /\ m = Len(X1) + Len(X2)
      BY <1>7, <1>10, <1>11, <2>1
    <3> QED BY <3>1, SecondPart
  <2>6. buf' = SubSeq(Whole, 1, ((k + save) - 1) * CHAR_BIT) /\ buf' = buf \o X2
    BY <1>7, <2>4, <2>5
  <2>7. /\ Value' = Value /\ sender' = sender /\ receiver' = receiver /\ Known' = Known
        /\ \A b : Ahead(b)' <=> AheadAt(pos', b)
    BY <1>1, <2>4, SameMessage DEF Reads
  <2>8. Seen' = Seen
    BY <2>4, <2>7 DEF Seen
  <2>9. Whole' = Whole /\ Additional' = Additional
    BY <2>7, <2>8 DEF Whole, Additional
  <2>10. Filling'
    BY <1>1, <1>2, <2>4, FillStays DEF Extending
  <2>11. Gathering'
    <3>1. Extending'
      BY <1>2, <2>4, <2>7, <2>8, <2>10 DEF Extending
    <3> QED BY <1>1, <2>4, <2>7, <2>8, <3>1 DEF Gathering
  <2>12. AheadAt(pos', Y)
    BY <1>11, <1>14, <2>4
  <2>13. /\ pos' \in 0 .. Len(wire) /\ edx' \in 1 .. Known + 1
         /\ buf' \in Bits /\ Len(buf') % CHAR_BIT = 0
    <3>1. pos' \in 0 .. Len(wire) /\ edx' \in 1 .. Known + 1 /\ buf \in Bits /\ Len(buf) \in Nat
          /\ Len(buf) % CHAR_BIT = 0
      BY <1>2, <1>11, <1>14, <2>4 DEF Typed, Bits
    <3>2. buf' \in Bits /\ Len(buf') = Len(buf) + bits
      BY <1>7, <2>6, <3>1, Joined
    <3>3. (Len(buf) + bits) % CHAR_BIT = 0
      BY <1>7, <3>1, WholeOctets DEF bits
    <3> QED BY <3>1, <3>2, <3>3
  <2>14. CASE n >= Unit
    <3>1. pc' = "fragments" /\ k + save \in 1 .. size + 1 /\ Y = Fragments(Whole)[k + save] \o Additional
      BY <1>7, <2>4, <2>14 DEF Y
    <3>2. PICK j \in 1 .. size + 1 : j = k + save
      BY <3>1
    <3>3. j \in 1 .. (Len(Whole') \div CHAR_BIT) + 1 /\ buf' = SubSeq(Whole', 1, (j - 1) * CHAR_BIT)
      BY <1>3, <2>6, <2>9, <3>2
    <3>4. Ahead(Fragments(Whole)[j] \o Additional)'
      BY <2>7, <2>9, <2>12, <3>1, <3>2 DEF Ahead
    <3>5. GatheredTo(j)'
      BY <3>3, <3>4 DEF GatheredTo
    <3>6. InFragments'
      BY <2>11, <3>3, <3>5 DEF InFragments
    <3> QED BY <1>1, <2>4, <2>13, <3>1, <3>6, StepWithin
  <2>15. CASE n < Unit
    <3>1. pc' = "opentype" /\ Y = Additional /\ buf' = Whole'
      <4>1. ~(n >= Unit)
        BY <2>15, Sizes
      <4> QED BY <1>7, <1>8, <2>4, <2>6, <2>9, <2>15, <4>1, JoinedEmpty DEF Y
    <3>2. Ahead(Additional)'
      BY <2>7, <2>9, <2>12, <3>1 DEF Ahead
    <3>3. InOpenType'
      BY <2>11, <3>1, <3>2 DEF InOpenType
    <3> QED BY <1>1, <2>4, <2>13, <3>1, <3>3, StepWithin
  <2>16. n < Unit \/ n >= Unit
    BY Sizes
  <2> QED BY <2>14, <2>15, <2>16
<1> QED BY <1>13, <1>14

\* The end of a message: the receiver is where the sender was, and has understood it.
LEMMA DefaultsStep ==
  ASSUME IInv, Defaults
  PROVE  /\ IInv' /\ refused' = refused /\ Len(received) < Len(ends)
         /\ received' = Append(received, UnderstoodBy(sent[At], receiver))
<1>1. /\ Within /\ InDefaults /\ Reads /\ Ahead(<<>>)
      /\ received' = Append(received, Filled) /\ pc' = "idle"
      /\ UNCHANGED <<pos, edx, st, buf, refused>>
  BY IsWithin DEF IInv, Place, Defaults, Reads, InDefaults
<1>2. /\ Typed /\ OnWire /\ Shape(sender, Value) /\ sender \in Versions /\ receiver \in Versions
      /\ At \in 1 .. Len(sent) /\ Len(ends) \in Nat /\ Len(sent) \in Nat
      /\ Coded(At) \in Bits /\ Start(At) \in Nat
      /\ At = Len(received) + 1 /\ Len(received) \in Nat
  BY <1>1, AtHand DEF Within, Typed, At
<1>3. pos \in 0 .. Len(wire) /\ Len(wire) \in Nat
  BY <1>2 DEF Typed, Bits
<1>4. pos = Start(At) + Len(Coded(At))
  <2> DEFINE e == Coded(At)
             p == pos - Start(At)
  <2>1. p \in 0 .. Len(e) /\ From(e, p + 1) = <<>> /\ e \in Bits /\ Len(e) \in Nat
    BY <1>1, <1>2 DEF Ahead, AheadAt, Bits
  <2>2. p + 1 \in 1 .. Len(e) + 1 /\ p = pos - Start(At)
    BY <2>1
  <2> HIDE DEF e, p
  <2>3. Len(From(e, p + 1)) = Len(e) + 1 - (p + 1)
    BY <2>1, <2>2, FromType
  <2>4. p = Len(e)
    BY <2>1, <2>3
  <2> QED BY <1>2, <1>3, <2>1, <2>2, <2>4 DEF e
<1>5. At <= Len(ends)
  <2> SUFFICES ASSUME ~(At <= Len(ends)) PROVE FALSE
    OBVIOUS
  <2>1. Len(sent) > Len(ends) /\ At = Len(sent)
    BY <1>2 DEF OnWire
  <2>2. Len(wire) < Start(Len(sent)) + Len(Coded(Len(sent)))
    BY <1>2, <2>1 DEF OnWire
  <2> QED BY <1>2, <1>3, <1>4, <2>1, <2>2
<1>6. ends[At] = pos
  BY <1>2, <1>4, <1>5 DEF OnWire
<1>7. Filled = UnderstoodBy(sent[At], receiver)
  <2>1. ASSUME NEW i \in 1 .. Known
        PROVE  (IF i > Len(Root) /\ st[i] = Absent THEN Filler(Elements(receiver)[i]) ELSE st[i])
               = IF i <= Len(Value) /\ Value[i] # Absent THEN Value[i]
                 ELSE Filler(Elements(receiver)[i])
    <3>1. st[i] = Settled(i)
      BY <1>1 DEF InDefaults
    <3>2. i <= Len(Root) => Elements(receiver)[i] = Root[i]
      BY <1>2, ElementsOf, Members
    <3>3. i <= Len(Root) <=> ~(i > Len(Root))
      BY <1>2, RootRoom
    <3> QED BY <3>1, <3>2, <3>3 DEF Settled
  <2> QED BY <2>1 DEF Filled, UnderstoodBy, Known, Value
<1>8. received' = Append(received, UnderstoodBy(sent[At], receiver))
  BY <1>1, <1>7
<1>9. sent[At] \in MessagesOf(sender)
  BY <1>2 DEF Typed
<1>10. OnWire' /\ Known' = Known
  BY <1>1, <1>2, SameMessage
<1>11. Typed'
  <2> DEFINE R == {UnderstoodBy(m, receiver) : m \in MessagesOf(sender)}
  <2>1. R' = R
    BY <1>1 DEF Reads
  <2>2. received \in Seq(R) /\ UnderstoodBy(sent[At], receiver) \in R
    BY <1>2, <1>9 DEF Typed
  <2> HIDE DEF R
  <2>3. received' \in Seq(R')
    BY <1>8, <2>1, <2>2
  <2> QED BY <1>1, <1>2, <1>10, <2>3 DEF Typed, Reads, R
<1>12. Len(received') = At
  BY <1>2, <1>8 DEF Typed
<1>13. Len(received') <= Len(ends') /\ pos' = Start(At)'
  <2>1. At' = At + 1 /\ At' # 1 /\ (At + 1) - 1 = At
    BY <1>2, <1>12 DEF At
  <2>2. Start(At)' = ends[At]
    BY <1>1, <2>1 DEF Start, Reads
  <2> QED BY <1>1, <1>2, <1>5, <1>6, <1>12, <2>2 DEF Reads
<1>14. Len(received) < Len(ends)
  BY <1>2, <1>5
<1> QED BY <1>1, <1>8, <1>10, <1>11, <1>13, <1>14 DEF IInv, Place

\* One more message, and as much of it as arrives.
LEMMA WireGrows ==
  ASSUME Typed, OnWire, Len(sent) = Len(ends), sender' = sender,
         NEW value \in Structures(sender), NEW arrives \in Nat,
         arrives <= Len(Encoding(sender, value)),
         sent' = Append(sent, Message(value)),
         wire' = wire \o SubSeq(Encoding(sender, value), 1, arrives),
         \/ arrives = Len(Encoding(sender, value)) /\ ends' = Append(ends, Len(wire'))
         \/ arrives < Len(Encoding(sender, value)) /\ ends' = ends
  PROVE  /\ OnWire' /\ wire' \in Bits /\ ends' \in Seq(Nat) /\ sent' \in Seq(MessagesOf(sender))
         /\ Len(wire) <= Len(wire') /\ Len(wire) \in Nat /\ Len(wire') \in Nat
<1> DEFINE e == Encoding(sender, value)
           l == Len(ends)
           w == Len(wire)
<1>1. /\ sender \in Versions /\ sent \in Seq(MessagesOf(sender)) /\ wire \in Bits
      /\ ends \in Seq(Nat) /\ l \in Nat /\ w \in Nat /\ Len(sent) = l
  BY DEF Typed, Bits
<1>2. e \in Bits /\ Len(e) \in Nat
  <2>1. e \in Bits
    BY <1>1, StructureShape, EncodingParts
  <2> QED BY <2>1 DEF Bits
<1>3. Message(value) \in MessagesOf(sender) /\ Message(value).value = value
  BY DEF Message, MessagesOf
<1> HIDE DEF e, l, w
<1>4. /\ sent' \in Seq(MessagesOf(sender)) /\ Len(sent') = l + 1
      /\ \A k \in 1 .. l : sent'[k] = sent[k]
      /\ sent'[l + 1] = Message(value)
  BY <1>1, <1>3
<1> DEFINE x == SubSeq(e, 1, arrives)
<1>5. x \in Bits /\ Len(x) = arrives /\ \A i \in 1 .. arrives : x[i] = e[i]
  BY <1>2 DEF Bits, e
<1>6. wire' = wire \o x
  BY DEF e
<1> HIDE DEF x
<1>7. /\ wire' \in Bits /\ Len(wire') = w + arrives /\ Len(wire') \in Nat
      /\ \A i \in 1 .. w : wire'[i] = wire[i]
      /\ \A i \in 1 .. arrives : wire'[w + i] = e[i]
  <2>1. wire' \in Bits /\ Len(wire') = w + arrives
    BY <1>1, <1>5, <1>6, Joined DEF w
  <2>2. (\A i \in 1 .. w : wire'[i] = wire[i]) /\ \A i \in 1 .. Len(x) : wire'[w + i] = x[i]
    <3>1. \A i \in 1 .. Len(wire) : (wire \o x)[i] = wire[i]
      BY <1>1, <1>5, JoinedAt, Zenon
    <3>2. \A i \in 1 .. Len(x) : (wire \o x)[Len(wire) + i] = x[i]
      BY <1>1, <1>5, JoinedAt, Zenon
    <3> QED BY <1>6, <3>1, <3>2, Zenon DEF w
  <2> QED BY <1>1, <1>5, <2>1, <2>2
<1>8. /\ ends' \in Seq(Nat) /\ l <= Len(ends') /\ Len(ends') \in Nat
      /\ \A k \in 1 .. l : ends'[k] = ends[k]
      /\ arrives = Len(e) => Len(ends') = l + 1 /\ ends'[l + 1] = w + Len(e)
      /\ arrives < Len(e) => Len(ends') = l
  <2>1. CASE arrives = Len(e) /\ ends' = Append(ends, Len(wire'))
    BY <1>1, <1>2, <1>7, <2>1 DEF l
  <2>2. CASE arrives < Len(e) /\ ends' = ends
    BY <1>1, <1>2, <2>2 DEF l
  <2> QED BY <2>1, <2>2 DEF e
<1>9. arrives = Len(e) \/ arrives < Len(e)
  BY <1>2 DEF e
<1>10. ASSUME NEW k \in 1 .. l + 1
       PROVE  /\ Start(k)' = Start(k) /\ Start(k) \in Nat
              /\ Coded(k)' = IF k = l + 1 THEN e ELSE Coded(k)
  <2>1. k # 1 => k - 1 \in 1 .. l
    BY <1>1
  <2>2. Start(k)' = Start(k) /\ Start(k) \in Nat
    <3>1. CASE k = 1
      BY <3>1 DEF Start
    <3>2. CASE k # 1
      <4>1. ends'[k - 1] = ends[k - 1]
        BY <1>8, <2>1, <3>2
      <4>2. ends[k - 1] \in Nat
        BY <1>1, <2>1, <3>2 DEF l
      <4> QED BY <3>2, <4>1, <4>2 DEF Start
    <3> QED BY <3>1, <3>2
  <2>3. CASE k = l + 1
    BY <1>3, <1>4, <2>2, <2>3 DEF Coded, e
  <2>4. CASE k # l + 1
    <3>1. k \in 1 .. l
      BY <1>1, <2>4
    <3> QED BY <1>4, <2>2, <2>4, <3>1 DEF Coded
  <2> QED BY <2>3, <2>4
<1>11. Start(l + 1) = w /\ l + 1 \in 1 .. l + 1
  BY <1>1 DEF OnWire, l, w
<1>12. \A k \in 1 .. l : /\ ends[k] = Start(k) + Len(Coded(k)) /\ ends[k] <= w
                         /\ Arrived(k) /\ k \in 1 .. l + 1 /\ k # l + 1
  BY <1>1 DEF OnWire, l, w
<1>13. \A k \in 1 .. Len(ends') : ends'[k] = (Start(k) + Len(Coded(k)))' /\ ends'[k] <= Len(wire')
  <2> SUFFICES ASSUME NEW k \in 1 .. Len(ends')
               PROVE  ends'[k] = (Start(k) + Len(Coded(k)))' /\ ends'[k] <= Len(wire')
    OBVIOUS
  <2>1. CASE k \in 1 .. l
    <3>1. k \in 1 .. l + 1 /\ k # l + 1 /\ ends[k] = Start(k) + Len(Coded(k)) /\ ends[k] <= w
      BY <1>12, <2>1
    <3>2. Start(k)' = Start(k) /\ Coded(k)' = Coded(k) /\ ends'[k] = ends[k]
      BY <1>8, <1>10, <2>1, <3>1
    <3>3. ends[k] \in Nat
      BY <1>1, <2>1 DEF l
    <3> QED BY <1>1, <1>7, <3>1, <3>2, <3>3
  <2>2. CASE k \notin 1 .. l
    <3>1. k = l + 1 /\ arrives = Len(e)
      BY <1>1, <1>8, <1>9, <2>2
    <3>2. Start(k)' = w /\ Coded(k)' = e
      BY <1>10, <1>11, <3>1
    <3> QED BY <1>7, <1>8, <3>1, <3>2
  <2> QED BY <2>1, <2>2
<1>14. \A k \in 1 .. Len(sent') : Arrived(k)'
  <2> SUFFICES ASSUME NEW k \in 1 .. Len(sent') PROVE Arrived(k)'
    OBVIOUS
  <2>1. k \in 1 .. l + 1
    BY <1>4
  <2>2. CASE k = l + 1
    <3>1. Start(k)' = w /\ Coded(k)' = e
      BY <1>10, <1>11, <2>1, <2>2
    <3>2. \A i \in 1 .. Len(e) : w + i <= Len(wire') => wire'[w + i] = e[i]
      BY <1>1, <1>2, <1>7
    <3> QED BY <3>1, <3>2 DEF Arrived
  <2>3. CASE k # l + 1
    <3>1. k \in 1 .. l
      BY <1>1, <2>1, <2>3
    <3>2. Start(k)' = Start(k) /\ Coded(k)' = Coded(k) /\ Start(k) \in Nat
      BY <1>10, <2>1, <2>3
    <3>3. /\ Start(k) + Len(Coded(k)) <= w
          /\ \A i \in 1 .. Len(Coded(k)) : Start(k) + i <= w => wire[Start(k) + i] = Coded(k)[i]
      BY <1>12, <3>1 DEF Arrived, w
    <3>4. Len(Coded(k)) \in Nat
      <4>1. sent[k] \in MessagesOf(sender)
        BY <1>1, <3>1
      <4>2. sent[k].value \in Structures(sender)
        BY <4>1 DEF MessagesOf
      <4>3. Coded(k) \in Bits
        BY <1>1, <4>2, StructureShape, EncodingParts DEF Coded
      <4> QED BY <4>3 DEF Bits
    <3>5. ASSUME NEW i \in 1 .. Len(Coded(k)) PROVE wire'[Start(k) + i] = Coded(k)[i]
      <4>1. Start(k) + i \in 1 .. w
        BY <1>1, <3>2, <3>3, <3>4
      <4>2. wire'[Start(k) + i] = wire[Start(k) + i]
        BY <1>7, <4>1
      <4>3. Start(k) + i <= w
        BY <4>1
      <4>4. wire[Start(k) + i] = Coded(k)[i]
        BY <3>3, <4>3
      <4> QED BY <4>2, <4>4
    <3> QED BY <3>2, <3>5 DEF Arrived
  <2> QED BY <2>2, <2>3
<1>15. Len(sent') = Len(ends') => Len(wire') = Start(Len(ends) + 1)'
  <2> SUFFICES ASSUME Len(sent') = Len(ends') PROVE Len(wire') = Start(Len(ends) + 1)'
    OBVIOUS
  <2>1. arrives = Len(e) /\ Len(ends') = l + 1
    BY <1>1, <1>4, <1>8, <1>9
  <2>2. Start(Len(ends) + 1)' = ends'[l + 1]
    <3>1. Len(ends') + 1 # 1 /\ (Len(ends') + 1) - 1 = l + 1
      BY <1>1, <2>1
    <3> QED BY <3>1 DEF Start
  <2> QED BY <1>7, <1>8, <2>1, <2>2
<1>16. Len(sent') > Len(ends') => Len(wire') < (Start(Len(sent)) + Len(Coded(Len(sent))))'
  <2> SUFFICES ASSUME Len(sent') > Len(ends')
               PROVE  Len(wire') < (Start(Len(sent)) + Len(Coded(Len(sent))))'
    OBVIOUS
  <2>1. arrives < Len(e)
    BY <1>1, <1>4, <1>8, <1>9
  <2>2. Start(Len(sent))' = w /\ Coded(Len(sent))' = e
    BY <1>4, <1>10, <1>11 DEF Start, Coded
  <2> QED BY <1>1, <1>2, <1>7, <2>1, <2>2
<1>17. Len(ends') <= Len(sent') /\ Len(sent') <= Len(ends') + 1
  BY <1>1, <1>4, <1>8, <1>9
<1>18. OnWire'
  BY <1>13, <1>14, <1>15, <1>16, <1>17 DEF OnWire
<1> QED BY <1>1, <1>4, <1>7, <1>8, <1>18 DEF w

\* Whatever is sent before the receiver begins.
LEMMA SendStep ==
  ASSUME IInv, Send \/ SendCutOff
  PROVE  /\ IInv' /\ receiver' = receiver /\ received' = received /\ refused' = refused
         /\ Len(ends) = Len(sent) /\ Len(ends') \in {Len(ends), Len(ends) + 1}
         /\ \E value \in Structures(sender) : sent' = Append(sent, Message(value))
<1>1. /\ Typed /\ OnWire /\ Place /\ pc = "idle" /\ received = <<>> /\ Len(ends) = Len(sent)
      /\ pc' = pc /\ edx' = edx /\ buf' = buf
      /\ UNCHANGED <<sender, receiver, pos, received, refused>>
  BY DEF IInv, Send, SendCutOff, CanSend, decoding
<1>2. PICK value \in Structures(sender) : \E n \in Nat :
        /\ n <= Len(Encoding(sender, value))
        /\ sent' = Append(sent, Message(value))
        /\ wire' = wire \o SubSeq(Encoding(sender, value), 1, n)
        /\ \/ n = Len(Encoding(sender, value)) /\ ends' = Append(ends, Len(wire'))
           \/ n < Len(Encoding(sender, value)) /\ ends' = ends
  <2>1. ASSUME NEW value \in Structures(sender) PROVE Encoding(sender, value) \in Bits
    BY <1>1, StructureShape, EncodingParts DEF Typed
  <2>2. CASE Send
    <3>1. PICK value \in Structures(sender) :
            /\ sent' = Append(sent, Message(value))
            /\ wire' = wire \o Encoding(sender, value)
      BY <2>2 DEF Send
    <3>2. Encoding(sender, value) \in Bits
      BY <2>1
    <3>3. PICK n \in Nat : n = Len(Encoding(sender, value))
      BY <3>2 DEF Bits
    <3>4. SubSeq(Encoding(sender, value), 1, n) = Encoding(sender, value)
      BY <3>2, <3>3 DEF Bits
    <3>5. ends' = Append(ends, Len(wire'))
      BY <2>2 DEF Send
    <3>6. n <= Len(Encoding(sender, value))
      BY <3>3
    <3> QED BY <3>1, <3>3, <3>4, <3>5, <3>6
  <2>3. CASE SendCutOff
    <3>1. PICK value \in Structures(sender) :
            /\ sent' = Append(sent, Message(value))
            /\ \E n \in 0 .. Len(Encoding(sender, value)) - 1 :
                 wire' = wire \o SubSeq(Encoding(sender, value), 1, n)
      BY <2>3 DEF SendCutOff
    <3>2. PICK n \in 0 .. Len(Encoding(sender, value)) - 1 :
            wire' = wire \o SubSeq(Encoding(sender, value), 1, n)
      BY <3>1
    <3>3. n \in Nat /\ n <= Len(Encoding(sender, value)) /\ n < Len(Encoding(sender, value))
      <4>1. Len(Encoding(sender, value)) \in Nat
        BY <2>1 DEF Bits
      <4> QED BY <3>2, <4>1
    <3>4. ends' = ends
      BY <2>3 DEF SendCutOff
    <3> QED BY <3>1, <3>2, <3>3, <3>4
  <2> QED BY <2>2, <2>3
<1>3. PICK n \in Nat :
        /\ n <= Len(Encoding(sender, value))
        /\ wire' = wire \o SubSeq(Encoding(sender, value), 1, n)
        /\ \/ n = Len(Encoding(sender, value)) /\ ends' = Append(ends, Len(wire'))
           \/ n < Len(Encoding(sender, value)) /\ ends' = ends
  BY <1>2
<1>4. /\ OnWire' /\ wire' \in Bits /\ ends' \in Seq(Nat) /\ sent' \in Seq(MessagesOf(sender))
      /\ Len(wire) <= Len(wire') /\ Len(wire) \in Nat /\ Len(wire') \in Nat
  BY <1>1, <1>2, <1>3, WireGrows
<1>5. Typed'
  <2> DEFINE R == {UnderstoodBy(m, receiver) : m \in MessagesOf(sender)}
  <2>1. R' = R /\ received \in Seq(R) /\ MessagesOf(sender') = MessagesOf(sender)
        /\ Known' = Known
    BY <1>1 DEF Typed, Known
  <2>2. pos' \in 0 .. Len(wire')
    BY <1>1, <1>4 DEF Typed
  <2> HIDE DEF R
  <2>3. received' \in Seq(R')
    BY <1>1, <2>1
  <2> QED BY <1>1, <1>4, <2>1, <2>2, <2>3 DEF Typed, R
<1>6. Len(ends') \in {Len(ends), Len(ends) + 1} /\ Len(ends') \in Nat
  BY <1>1, <1>3 DEF Typed
<1>7. pos' = Start(At)'
  <2>1. At = 1 /\ At' = 1
    BY <1>1 DEF At
  <2>2. pos = 0
    BY <1>1, <2>1 DEF Place, Start
  <2> QED BY <1>1, <2>1, <2>2 DEF Start
<1>8. Place'
  <2>1. Len(received') <= Len(ends')
    BY <1>1, <1>6
  <2> QED BY <1>1, <1>7, <2>1 DEF Place
<1> QED BY <1>1, <1>2, <1>4, <1>5, <1>6, <1>8 DEF IInv

\* The beginning.
LEMMA Initially ==
  ASSUME Init
  PROVE  IInv
<1>1. Known \in Nat /\ Known + 1 \in Nat
  <2>1. receiver \in Versions
    BY DEF Init
  <2> QED BY <2>1, ElementsOf, Members DEF Known
<1>2. Typed
  <2>1. 0 % CHAR_BIT = 0
    BY PerAssumption
  <2> QED BY <1>1, <2>1 DEF Init, Typed, Bits
<1>3. OnWire
  BY DEF Init, OnWire, Start
<1>4. Place
  BY DEF Init, Place, Start, At
<1> QED BY <1>2, <1>3, <1>4 DEF IInv

\* What each step of the decoder does to the invariant and to what is promised.
LEMMA DecodeStep ==
  ASSUME IInv, Decode
  PROVE  /\ IInv' /\ Reads
         /\ \/ received' = received /\ (refused' = refused \/ (refused' = TRUE /\ CutOff))
            \/ /\ Len(received) < Len(ends) /\ refused' = refused
               /\ received' = Append(received, UnderstoodBy(sent[At], receiver))
<1>1. CASE Preamble
  BY <1>1, PreambleStep DEF Preamble, Reads, Refuse
<1>2. CASE RootMissing
  BY <1>2, RootMissingStep DEF RootMissing, Reads
<1>3. CASE RootMember
  BY <1>3, RootMemberStep DEF RootMember, Reads, Refuse
<1>4. CASE RootDone
  BY <1>4, RootDoneStep DEF RootDone, Reads
<1>5. CASE Bitmap
  BY <1>5, BitmapStep DEF Bitmap, Reads, Refuse
<1>6. CASE NextAddition
  BY <1>6, NextAdditionStep DEF NextAddition, Reads
<1>7. CASE NoMoreAdditions
  BY <1>7, NoMoreAdditionsStep DEF NoMoreAdditions, Reads
<1>8. CASE Fragment
  BY <1>8, FragmentStep DEF Fragment, Reads, Refuse
<1>9. CASE KnownAddition
  BY <1>9, KnownAdditionStep DEF KnownAddition, Reads, Refuse
<1>10. CASE UnknownAddition
  BY <1>10, UnknownAdditionStep DEF UnknownAddition, Reads
<1>11. CASE Defaults
  BY <1>11, DefaultsStep DEF Defaults, Reads
<1> QED
  BY <1>1, <1>2, <1>3, <1>4, <1>5, <1>6, <1>7, <1>8, <1>9, <1>10, <1>11 DEF Decode

\* A step that changes nothing.
LEMMA Stutters ==
  ASSUME IInv, UNCHANGED vars
  PROVE  IInv'
<1>1. /\ Typed /\ OnWire /\ Place /\ Reads /\ received' = received
      /\ UNCHANGED <<pos, pc, edx, st, extpresent, opmd, epmd, buf>>
  BY DEF vars, decoding, IInv, Reads
<1>2. /\ OnWire' /\ Known' = Known /\ At' = At /\ Value' = Value
      /\ sender' = sender /\ receiver' = receiver
      /\ \A bits : Ahead(bits)' <=> AheadAt(pos', bits)
      /\ \A i : Settled(i)' = Settled(i)
  BY <1>1, SameMessage DEF Reads
<1>3. Filling => Filling'
  BY <1>1, FillStays
<1>4. Seen' = Seen /\ Additional' = Additional /\ Whole' = Whole
  <2>1. Seen' = Seen
    BY <1>1, <1>2 DEF Seen
  <2> QED BY <1>2, <2>1 DEF Additional, Whole
<1>5. Extending => Extending'
  BY <1>1, <1>2, <1>3, <1>4 DEF Extending
<1>6. Gathering => Gathering'
  BY <1>1, <1>2, <1>4, <1>5 DEF Gathering
<1>7. CASE pc \notin {"idle", "over"}
  <2>1. pc = "root" => InRoot'
    <3> SUFFICES ASSUME InRoot PROVE InRoot'
      BY <1>1 DEF Place
    <3>1. Ahead(Onwards(RootBits(Value), edx) \o ExtensionsOf(sender, Value))'
      BY <1>1, <1>2 DEF Ahead, InRoot
    <3>2. edx' <= Len(Root) + 1 /\ extpresent' = HasExtensions(sender', Value')
          /\ opmd' = Onwards(PresenceBits(Value'), edx')
      BY <1>1, <1>2 DEF InRoot
    <3> QED BY <1>3, <3>1, <3>2 DEF InRoot
  <2>2. pc = "bitmap" => InBitmap'
    <3> SUFFICES ASSUME InBitmap PROVE InBitmap'
      BY <1>1 DEF Place
    <3>1. Ahead(ExtensionBits(sender, Value))'
      BY <1>1, <1>2 DEF Ahead, InBitmap
    <3> QED BY <1>1, <1>2, <1>3, <3>1 DEF InBitmap
  <2>3. Ahead(Additional) => Ahead(Additional)'
    BY <1>1, <1>2, <1>4 DEF Ahead
  <2>4. pc = "extensions" => InExtensions'
    <3> SUFFICES ASSUME InExtensions PROVE InExtensions'
      BY <1>1 DEF Place
    <3>1. CursorAfter(Seen)'
      BY <1>1, <1>2, <1>4 DEF InExtensions, CursorAfter
    <3> QED BY <1>5, <2>3, <3>1 DEF InExtensions
  <2>5. pc = "fragments" => InFragments'
    <3> SUFFICES ASSUME InFragments PROVE InFragments'
      BY <1>1 DEF Place
    <3>1. PICK k \in 1 .. (Len(Whole) \div CHAR_BIT) + 1 : GatheredTo(k)
      BY DEF InFragments
    <3>2. Ahead(Fragments(Whole)[k] \o Additional)'
      BY <1>1, <1>2, <1>4, <3>1 DEF Ahead, GatheredTo
    <3>3. GatheredTo(k)' /\ k \in 1 .. (Len(Whole') \div CHAR_BIT) + 1
      BY <1>1, <1>4, <3>1, <3>2 DEF GatheredTo
    <3> QED BY <1>6, <3>3 DEF InFragments
  <2>6. pc = "opentype" => InOpenType'
    BY <1>1, <1>4, <1>6, <2>3 DEF Place, InOpenType
  <2>7. pc = "defaults" => InDefaults'
    <3> SUFFICES ASSUME InDefaults PROVE InDefaults'
      BY <1>1 DEF Place
    <3>1. Ahead(<<>>)'
      BY <1>1, <1>2 DEF Ahead, InDefaults
    <3> QED BY <1>1, <1>2, <3>1 DEF InDefaults
  <2>8. Within /\ pc' \in {"root", "bitmap", "extensions", "fragments", "opentype", "defaults"}
    BY <1>1, <1>7, IsWithin DEF IInv, Typed
  <2>9. /\ pos' \in 0 .. Len(wire) /\ edx' \in 1 .. Known + 1
        /\ buf' \in Bits /\ Len(buf') % CHAR_BIT = 0
    BY <1>1 DEF Typed
  <2> QED BY <1>1, <2>1, <2>2, <2>4, <2>5, <2>6, <2>7, <2>8, <2>9, StepWithin
<1>8. CASE pc \in {"idle", "over"}
  <2> DEFINE R == {UnderstoodBy(m, receiver) : m \in MessagesOf(sender)}
  <2>1. R' = R
    BY <1>1 DEF Reads
  <2>2. Typed'
    BY <1>1, <1>2, <2>1 DEF Typed, Reads
  <2>3. Start(At)' = Start(At)
    BY <1>1, <1>2 DEF Start, Reads
  <2>4. Place'
    BY <1>1, <1>8, <2>3 DEF Place, Reads
  <2> QED BY <1>2, <2>2, <2>4 DEF IInv
<1> QED BY <1>7, <1>8

\* The invariant holds in every state of every execution.
LEMMA InvariantHolds == Spec => []IInv
<1>1. Init => IInv
  BY Initially
<1>2. IInv /\ [Next]_vars => IInv'
  BY SendStep, DecodeStep, Stutters DEF Next
<1> QED BY <1>1, <1>2, PTL DEF Spec

-----------------------------------------------------------------------------
(***************************************************************************)
(* What follows.                                                           *)
(***************************************************************************)
\* For every type of at most 2^SmallBits extension additions (64 in the code) and every
\* pair of versions, the decoder's variables stay in their types, and the presence bits
\* that are left are those of the members to come.
THEOREM TypeOKHolds == Spec => []TypeOK
<1>1. ASSUME IInv PROVE TypeOK
  <2>1. Typed /\ Place
    BY <1>1 DEF IInv
  <2>2. pos \in 0 .. Len(wire) /\ edx \in 1 .. Known + 1 /\ Len(buf) % CHAR_BIT = 0
    BY <2>1 DEF Typed
  <2>3. ASSUME pc = "root"
        PROVE  Len(opmd) = Cardinality({i \in edx .. Len(Root) : Root[i].optional})
    <3>1. Within /\ InRoot
      BY <1>1, <2>1, <2>3, IsWithin DEF Place
    <3>2. sender \in Versions /\ Shape(sender, Value)
      BY <3>1, AtHand
    <3>3. edx \in 1 .. Len(Root) + 1
      BY <2>1, <3>1, RootRoom DEF InRoot
    <3>4. Len(Onwards(PresenceBits(Value), edx)) = Cardinality(OptionalFrom(edx))
      BY <3>2, <3>3, PresenceCount
    <3> QED BY <3>1, <3>4 DEF InRoot, OptionalFrom
  <2>4. ASSUME pc \in {"root", "bitmap", "extensions", "fragments", "opentype", "defaults"}
        PROVE  DOMAIN st = 1 .. Known
    BY <2>1, <2>4 DEF Place, InRoot, InBitmap, InExtensions, InFragments, InOpenType, InDefaults,
                     Gathering, Extending, Filling
  <2> QED BY <2>2, <2>3, <2>4 DEF TypeOK
<1> QED BY <1>1, InvariantHolds, PTL

\* For every type of at most 2^SmallBits extension additions (64 in the code) and every
\* pair of versions, the receiver is at the first bit of a message whenever it begins with one: SEQUENCE_decode_uper takes exactly the bits that
\* SEQUENCE_encode_uper put, those of additions it does not know included.
THEOREM InStepHolds == Spec => []InStep
<1>1. ASSUME IInv PROVE InStep
  <2>1. pc = "idle" => pos = Start(At)
    BY <1>1 DEF IInv, Place
  <2>2. received \in Seq({UnderstoodBy(m, receiver) : m \in MessagesOf(sender)})
    BY <1>1 DEF IInv, Typed
  <2>3. CASE received = <<>>
    BY <2>1, <2>3 DEF InStep, Start, At
  <2>4. CASE received # <<>>
    <3>1. At # 1 /\ At - 1 = Len(received)
      BY <2>2, <2>4 DEF At
    <3> QED BY <2>1, <2>4, <3>1 DEF InStep, Start
  <2> QED BY <2>3, <2>4
<1> QED BY <1>1, InvariantHolds, PTL

\* For every type of at most 2^SmallBits extension additions (64 in the code) and every
\* pair of versions, sender and receiver are a channel between versions: what arrives whole is received in order, as much of it as the receiver's
\* version understands, and only what was cut off is refused.
THEOREM UnderstandingHolds == Spec => Understanding
<1>1. Init => Channel!Init
  BY DEF Init, Channel!Init
<1>2. ASSUME IInv, Next PROVE Channel!Next \/ UNCHANGED Channel!vars
  <2>1. CASE Send \/ SendCutOff
    <3>1. /\ receiver' = receiver /\ received' = received /\ refused' = refused
          /\ Len(ends) = Len(sent) /\ Len(ends') \in {Len(ends), Len(ends) + 1}
          /\ \E value \in Structures(sender) : sent' = Append(sent, Message(value))
      BY <1>2, <2>1, SendStep
    <3>2. PICK value \in Structures(sender) : sent' = Append(sent, Message(value))
      BY <3>1
    <3>3. sender \in Versions
      BY <1>2 DEF IInv, Typed
    <3>4. Message(value) \in
            UNION {{[version |-> v, value |-> s] : s \in Structures(v)} : v \in Versions}
      BY <3>2, <3>3 DEF Message
    <3>5. Channel!Send
      BY <3>1, <3>2, <3>4 DEF Channel!Send
    <3> QED BY <3>5 DEF Channel!Next
  <2>2. CASE Decode
    <3>1. /\ Reads
          /\ \/ received' = received /\ (refused' = refused \/ (refused' = TRUE /\ CutOff))
             \/ /\ Len(received) < Len(ends) /\ refused' = refused
                /\ received' = Append(received, UnderstoodBy(sent[At], receiver))
      BY <1>2, <2>2, DecodeStep
    <3>2. CASE received' = received /\ refused' = refused
      BY <3>1, <3>2 DEF Reads, Channel!vars
    <3>3. CASE received' = received /\ refused' = TRUE /\ CutOff
      <4>1. Channel!Refuse
        BY <3>1, <3>3 DEF Reads, CutOff, Channel!Refuse
      <4> QED BY <4>1 DEF Channel!Next
    <3>4. CASE /\ Len(received) < Len(ends) /\ refused' = refused
               /\ received' = Append(received, UnderstoodBy(sent[At], receiver))
      <4>1. Channel!Receive
        BY <3>1, <3>4 DEF Reads, At, Channel!Receive
      <4> QED BY <4>1 DEF Channel!Next
    <3> QED BY <3>1, <3>2, <3>3, <3>4
  <2> QED BY <1>2, <2>1, <2>2 DEF Next
<1>3. IInv /\ [Next]_vars => [Channel!Next]_(Channel!vars)
  <2>1. UNCHANGED vars => UNCHANGED Channel!vars
    BY DEF vars, Channel!vars
  <2> QED BY <1>2, <2>1
<1> QED BY <1>1, <1>3, InvariantHolds, PTL DEF Spec, Understanding, Channel!Spec
=============================================================================
