----------------------------- MODULE BerTLVProofs -----------------------------
(***************************************************************************)
(* What the readers of BerTLV return for every window of octets: never     *)
(* more than the window holds, and a length that can be counted down.      *)
(***************************************************************************)
EXTENDS BerTLV, Induction, SequenceTheorems

\* An octet is a number.
LEMMA OctetIsNat == \A o \in Octet : o \in Nat
BY DEF Octet

\* The smaller of two numbers.
LEMMA MinOfTwo ==
  ASSUME NEW a \in Int, NEW b \in Int
  PROVE  Min({a, b}) = IF a <= b THEN a ELSE b
BY DEF Min

\* What is left of a window from an index on.
LEMMA FromProperties ==
  ASSUME NEW w \in Seq(Octet), NEW i \in 1 .. Len(w) + 1
  PROVE  /\ From(w, i) \in Seq(Octet)
         /\ Len(From(w, i)) = Len(w) - i + 1
         /\ \A k \in 1 .. Len(w) - i + 1 : From(w, i)[k] = w[i + k - 1]
<1>1. Len(w) \in Nat /\ \A k \in i .. Len(w) : w[k] \in Octet
  OBVIOUS
<1> QED BY <1>1, SubSeqProperties DEF From

\* A part of a window.
LEMMA PartProperties ==
  ASSUME NEW w \in Seq(Octet), NEW u \in Nat, NEW s \in Nat, u + s <= Len(w)
  PROVE  /\ SubSeq(w, u + 1, u + s) \in Seq(Octet)
         /\ Len(SubSeq(w, u + 1, u + s)) = s
         /\ \A k \in 1 .. s : SubSeq(w, u + 1, u + s)[k] = w[u + k]
<1>1. Len(w) \in Nat /\ \A k \in u + 1 .. u + s : w[k] \in Octet
  OBVIOUS
<1>2. /\ SubSeq(w, u + 1, u + s) \in Seq(Octet)
      /\ Len(SubSeq(w, u + 1, u + s)) = IF u + 1 <= u + s THEN u + s - (u + 1) + 1 ELSE 0
      /\ \A k \in 1 .. u + s - (u + 1) + 1 : SubSeq(w, u + 1, u + s)[k] = w[u + 1 + k - 1]
  BY <1>1, SubSeqProperties
<1> QED BY <1>2, SMTT(20)

-----------------------------------------------------------------------------
(***************************************************************************)
(* ber_fetch_tag and ber_fetch_length.                                     *)
(***************************************************************************)
\* A tag that was read lies within the window, and its class is in its first octet;
\* its number too, where it has no other octet.
LEMMA FetchTagBounds ==
  ASSUME NEW w \in Seq(Octet)
  PROVE  /\ FetchTag(w).len \in -1 .. Len(w)
         /\ FetchTag(w).len > 0 =>
              /\ w # <<>>
              /\ FetchTag(w).tag[2] = w[1] \div 64
              /\ w[1] % 32 = 31 \/ FetchTag(w).tag[1] = w[1] % 32
<1>1. CASE w = <<>>
  BY <1>1 DEF FetchTag
<1>2. CASE w # <<>> /\ w[1] % 32 # 31
  BY <1>2 DEF FetchTag
<1>3. CASE w # <<>> /\ w[1] % 32 = 31
  <2> DEFINE ends == {Len(w) + 1} \cup {k \in 2 .. Len(w) : w[k] < 128}
  <2>1. ends \in SUBSET Nat /\ ends # {}
    OBVIOUS
  <2>2. \E k \in ends : \A j \in ends : k <= j
    BY <2>1, LeastNat
  <2>3. Min(ends) \in ends
    BY <2>2, Zenon DEF Min
  <2>4. Min(ends) \in Nat /\ Min(ends) > 0
    BY <2>3, <1>3
  <2> HIDE DEF ends
  <2>5. ASSUME NEW k \in Nat, k > 0
        PROVE  /\ HighTag(w, k).len \in -1 .. Len(w)
               /\ HighTag(w, k).len > 0 => HighTag(w, k).tag[2] = w[1] \div 64
    BY <2>5 DEF HighTag
  <2>6. FetchTag(w) = HighTag(w, Min(ends))
    BY <1>3 DEF FetchTag, ends
  <2> QED BY <1>3, <2>4, <2>5, <2>6
<1> QED BY <1>1, <1>2, <1>3

\* The loop of ber_fetch_length over the octets of a length.
Shifted(v, octet) == IF v = -1 \/ v >= 2^(SizeBits - 9) THEN -1 ELSE v * 256 + octet

LengthRun(f, octets) ==
  /\ f[0] = 0 /\ \A i \in 0 .. Len(octets) : f[i] \in Nat \cup {-1}
  /\ \A i \in 1 .. Len(octets) : f[i] = Shifted(f[i - 1], octets[i])
  /\ LengthOf(octets) = f[Len(octets)]

\* The function that LengthOf is defined by.
LEMMA LengthUnfolds ==
  ASSUME NEW octets \in Seq(Octet)
  PROVE  \E f : LengthRun(f, octets)
<1> DEFINE n == Len(octets)
           V == Nat \cup {-1}
           limit == 2^(SizeBits - 9)
           Shift(v, i) == IF v = -1 \/ v >= limit THEN -1 ELSE v * 256 + octets[i]
           Value(f, i) == IF i = 0 THEN 0 ELSE Shift(f[i - 1], i)
           step == [i \in 1 .. n |-> [v \in V |-> Shift(v, i)]]
           len == CHOOSE f : f = [i \in 0 .. n |-> Value(f, i)]
<1>1. LengthOf(octets) = len[n]
  BY DEF LengthOf
<1>2. n \in Nat
  OBVIOUS
<1>3. ASSUME NEW i \in 1 .. n, NEW v \in V PROVE Shift(v, i) \in V
  <2> HIDE DEF limit
  <2>1. octets[i] \in Octet
    OBVIOUS
  <2>2. octets[i] \in Nat
    BY <2>1, OctetIsNat
  <2>3. CASE v = -1 \/ v >= limit
    BY <2>3
  <2>4. CASE ~(v = -1 \/ v >= limit)
    <3>1. v \in Nat
      BY <2>4
    <3>2. v * 256 + octets[i] \in Nat
      BY <2>2, <3>1
    <3> QED BY <2>4, <3>2
  <2> QED BY <2>3, <2>4
<1> HIDE DEF n
<1>4. \A v, i : Shift(v, i) = Shifted(v, octets[i])
  BY DEF Shifted
<1> HIDE DEF Shift
<1>5. step \in StepsUp(n, V)
  BY <1>3 DEF StepsUp
<1>6. \A i \in 1 .. n : \A v \in V : step[i][v] = Shift(v, i)
  OBVIOUS
<1>7. 0 \in V
  OBVIOUS
<1> HIDE DEF V, step
<1>8. PICK f : RunUp(f, n, V, 0, step)
  BY <1>2, <1>5, <1>7, RecursionUp
<1>9. \A i \in 0 .. n : f[i] = Value(f, i)
  BY <1>2, <1>6, <1>8 DEF RunUp
<1>10. f = [i \in 0 .. n |-> Value(f, i)]
  <2> HIDE DEF Value
  <2> QED BY <1>8, <1>9 DEF RunUp
<1>11. len = [i \in 0 .. n |-> Value(len, i)]
  <2> HIDE DEF Value
  <2> QED BY <1>10, Zenon
<1> HIDE DEF len
<1>12. len[0] = 0 /\ \A i \in 1 .. n : len[i] = Shift(len[i - 1], i)
  BY <1>2, <1>11
<1>13. GoesUp(len, n, V, step)
  BY <1>6, <1>7, <1>12 DEF GoesUp
<1>14. \A i \in 0 .. n : len[i] \in V
  BY <1>2, <1>5, <1>13, RecursionStays
<1>15. \A i \in 0 .. n : len[i] \in Nat \cup {-1}
  BY <1>14 DEF V
<1> QED BY <1>1, <1>12, <1>15, <1>4 DEF LengthRun, n

\* The octets of a length make a natural number, or too large a one.
LEMMA LengthOfType ==
  ASSUME NEW octets \in Seq(Octet)
  PROVE  LengthOf(octets) \in Nat \cup {-1}
<1>1. PICK f : LengthRun(f, octets)
  BY LengthUnfolds
<1> QED BY <1>1 DEF LengthRun

\* A length that was read lies within the window, and is indefinite only if it may be.
LEMMA FetchLengthBounds ==
  ASSUME NEW w \in Seq(Octet), NEW constructed \in BOOLEAN
  PROVE  /\ FetchLength(constructed, w).len \in -1 .. Len(w)
         /\ FetchLength(constructed, w).len > 0 =>
              /\ FetchLength(constructed, w).value \in Nat \cup {-1}
              /\ FetchLength(constructed, w).value = -1 => constructed
<1>1. CASE w = <<>>
  BY <1>1 DEF FetchLength
<1>2. CASE w # <<>>
  <2>1. w[1] \in Octet /\ Len(w) \in Nat /\ Len(w) > 0
    BY <1>2
  <2>2. w[1] \in Nat
    BY <2>1, OctetIsNat
  <2>3. CASE w[1] < 128
    BY <1>2, <2>1, <2>2, <2>3 DEF FetchLength
  <2>4. CASE w[1] = 128 /\ constructed
    BY <1>2, <2>1, <2>4 DEF FetchLength
  <2>5. CASE w[1] = 255 
    BY <1>2, <2>1, <2>5 DEF FetchLength
  <2>6. CASE w[1] >= 128 /\ ~(w[1] = 128 /\ constructed) /\ w[1] # 255
    <3> DEFINE n    == w[1] % 128
               last == Min({Len(w), 1 + n})
               have == SubSeq(w, 2, last)
    <3>1. n \in Nat
      BY <2>2
    <3> HIDE DEF n
    <3>2. last = IF Len(w) <= 1 + n THEN Len(w) ELSE 1 + n
      <4>1. \E x \in {Len(w), 1 + n} : \A y \in {Len(w), 1 + n} : x <= y
        BY <2>1, <3>1
      <4>2. last \in {Len(w), 1 + n} /\ \A y \in {Len(w), 1 + n} : last <= y
        BY <4>1, Zenon DEF Min
      <4> QED BY <2>1, <3>1, <4>2
    <3> HIDE DEF last
    <3>3. have \in Seq(Octet) /\ Len(have) = last - 1
      <4>1. last - 1 \in Nat /\ 1 + (last - 1) <= Len(w) /\ 1 + (last - 1) = last /\ 1 + 1 = 2
        BY <2>1, <3>1, <3>2
      <4> QED BY <4>1, PartProperties
    <3>4. LengthOf(have) \in Nat \cup {-1}
      BY <3>3, LengthOfType
    <3>5. FetchLength(constructed, w) = LongLength(n, have, LengthOf(have))
      BY <1>2, <2>2, <2>6 DEF FetchLength, FetchLong, n, last
    <3> HIDE DEF have
    <3>6. LongLength(n, have, LengthOf(have)).len \in {-1, 0} \/
            /\ LongLength(n, have, LengthOf(have)).len = n + 1
            /\ LongLength(n, have, LengthOf(have)).value = LengthOf(have)
            /\ LengthOf(have) # -1 /\ ~(Len(have) < n)
      BY DEF LongLength
    <3> QED BY <2>1, <3>1, <3>2, <3>3, <3>4, <3>5, <3>6
  <2> QED BY <2>2, <2>3, <2>4, <2>5, <2>6
<1> QED BY <1>1, <1>2

\* RSSIZE_MAX + 1 is beyond the lengths of the short form.
LEMMA LengthTooLargeType == LengthTooLarge \in Nat /\ 128 <= LengthTooLarge
<1>1. 7 \in Nat /\ SizeBits - 2 \in Nat /\ 7 <= SizeBits - 2
  BY SizeBitsAssumption
<1>2. 2^(SizeBits - 2) \in Nat /\ 2^7 <= 2^(SizeBits - 2)
  BY <1>1, PowersGrow
<1> QED BY <1>2 DEF LengthTooLarge

\* A length that was read is one that ssize_t can hold.
LEMMA FetchLengthLimit ==
  ASSUME NEW w \in Seq(Octet), NEW constructed \in BOOLEAN,
         FetchLength(constructed, w).len > 0
  PROVE  LengthTooLarge \in Nat /\ FetchLength(constructed, w).value < LengthTooLarge
<1> DEFINE l == FetchLength(constructed, w)
<1>1. LengthTooLarge \in Nat /\ 128 <= LengthTooLarge
  BY LengthTooLargeType
<1>2. l.value \in Nat \cup {-1}
  BY FetchLengthBounds
<1>3. w # <<>> /\ w[1] \in Nat
  <2>1. w # <<>>
    BY DEF FetchLength
  <2> QED BY <2>1, OctetIsNat
<1>4. CASE w[1] < 128
  BY <1>1, <1>3, <1>4 DEF FetchLength
<1>5. CASE w[1] = 128 /\ constructed
  BY <1>1, <1>3, <1>5 DEF FetchLength
<1>6. CASE w[1] = 255
  BY <1>3, <1>6 DEF FetchLength
<1>7. CASE ~(w[1] < 128) /\ ~(w[1] = 128 /\ constructed) /\ w[1] # 255
  <2> DEFINE n == w[1] % 128
             have == SubSeq(w, 2, Min({Len(w), 1 + n}))
  <2>1. l = LongLength(n, have, LengthOf(have))
    BY <1>3, <1>7 DEF FetchLength, FetchLong
  <2> HIDE DEF n, have
  <2>2. ~(l.value >= LengthTooLarge)
    BY <2>1 DEF LongLength
  <2> HIDE DEF l
  <2>3. l.value < LengthTooLarge
    BY <1>1, <1>2, <2>2
  <2> QED BY <1>1, <2>3 DEF l
<1> QED BY <1>3, <1>4, <1>5, <1>6, <1>7

\* The number that octets stand for, octet by octet.
NumberRun(f, octets) ==
  /\ f[0] = 0 /\ \A i \in 0 .. Len(octets) : f[i] \in Nat
  /\ \A i \in 1 .. Len(octets) : f[i] = f[i - 1] * 256 + octets[i]
  /\ Number(octets) = f[Len(octets)]

\* The function that Number is defined by.
LEMMA NumberUnfolds ==
  ASSUME NEW octets \in Seq(Octet)
  PROVE  \E f : NumberRun(f, octets)
<1> DEFINE n == Len(octets)
           Longer(v, i) == v * 256 + octets[i]
           Value(f, i) == IF i = 0 THEN 0 ELSE Longer(f[i - 1], i)
           step == [i \in 1 .. n |-> [v \in Nat |-> Longer(v, i)]]
           num == CHOOSE f : f = [i \in 0 .. n |-> Value(f, i)]
<1>1. Number(octets) = num[n] /\ n \in Nat
  BY DEF Number
<1>2. \A i \in 1 .. n : \A v \in Nat : Longer(v, i) \in Nat
  <2>1. \A i \in 1 .. n : octets[i] \in Nat
    BY OctetIsNat
  <2> QED BY <2>1
<1> HIDE DEF n, Longer
<1>3. step \in StepsUp(n, Nat) /\ 0 \in Nat
  BY <1>2 DEF StepsUp
<1>4. \A i \in 1 .. n : \A v \in Nat : step[i][v] = Longer(v, i)
  OBVIOUS
<1> HIDE DEF step
<1>5. PICK f : RunUp(f, n, Nat, 0, step)
  BY <1>1, <1>3, RecursionUp
<1>6. ASSUME NEW i \in 0 .. n PROVE f[i] = Value(f, i)
  <2>1. i = 0 => f[i] = 0
    BY <1>5 DEF RunUp
  <2>2. i # 0 => f[i] = step[i][f[i - 1]] /\ f[i - 1] \in Nat /\ i \in 1 .. n
    BY <1>1, <1>5 DEF RunUp
  <2> QED BY <1>4, <2>1, <2>2
<1> HIDE DEF Value
<1>7. f = [i \in 0 .. n |-> Value(f, i)]
  BY <1>5, <1>6 DEF RunUp
<1>8. num = [i \in 0 .. n |-> Value(num, i)]
  BY <1>7, Zenon
<1> HIDE DEF num
<1>9. num[0] = 0 /\ \A i \in 1 .. n : num[i] = Longer(num[i - 1], i)
  BY <1>1, <1>8 DEF Value
<1>10. GoesUp(num, n, Nat, step)
  BY <1>4, <1>9 DEF GoesUp
<1>11. \A i \in 0 .. n : num[i] \in Nat
  BY <1>1, <1>3, <1>10, RecursionStays
<1> QED BY <1>1, <1>9, <1>11 DEF NumberRun, Longer, n

\* Where the loop gave up, the number is beyond what ssize_t can hold; elsewhere the
\* loop has the number.
LEMMA LengthOrTooLarge ==
  ASSUME NEW octets \in Seq(Octet)
  PROVE  /\ Number(octets) \in Nat
         /\ IF LengthOf(octets) = -1 THEN Number(octets) >= LengthTooLarge
            ELSE LengthOf(octets) = Number(octets)
<1> DEFINE n == Len(octets)
           limit == 2^(SizeBits - 9)
<1>1. PICK f : LengthRun(f, octets)
  BY LengthUnfolds
<1>2. PICK g : NumberRun(g, octets)
  BY NumberUnfolds
<1>3. n \in Nat
  OBVIOUS
<1>4. limit \in Nat /\ LengthTooLarge \in Nat /\ LengthTooLarge <= 256 * limit
  <2> DEFINE p(k) == 2^(SizeBits - 9 + k)
  <2>1. \A k \in 0 .. 7 : SizeBits - 9 + k \in Nat /\ SizeBits - 9 + k + 1 = SizeBits - 9 + (k + 1)
    BY SizeBitsAssumption
  <2>2. \A k \in 0 .. 7 : p(k) \in Nat /\ p(k + 1) = 2 * p(k)
    BY <2>1, PowerDoubles
  <2>3. SizeBits - 9 + 0 = SizeBits - 9 /\ SizeBits - 9 + 7 = SizeBits - 2
    BY SizeBitsAssumption
  <2>4. p(0) = limit /\ p(7) = LengthTooLarge
    BY <2>3 DEF LengthTooLarge
  <2> HIDE DEF p, limit
  <2>5. p(0) \in Nat /\ p(1) = 2 * p(0) /\ p(2) = 2 * p(1) /\ p(3) = 2 * p(2) /\ p(4) = 2 * p(3)
        /\ p(5) = 2 * p(4) /\ p(6) = 2 * p(5) /\ p(7) = 2 * p(6)
    BY <2>2
  <2> QED BY <2>4, <2>5, SMTT(20)
<1> DEFINE Agrees(i) == IF f[i] = -1 THEN g[i] >= LengthTooLarge ELSE f[i] = g[i]
           holds == {i \in Nat : Agrees(i)}
<1>5. 0 \in holds
  BY <1>1, <1>2 DEF LengthRun, NumberRun
<1>6. ASSUME NEW i \in 0 .. n - 1, i \in holds PROVE i + 1 \in holds
  <2>1. i + 1 \in 1 .. n /\ i + 1 - 1 = i /\ i \in 0 .. n
    BY <1>3
  <2>2. /\ f[i + 1] = Shifted(f[i], octets[i + 1]) /\ f[i] \in Nat \cup {-1}
        /\ f[i + 1] \in Nat \cup {-1}
    BY <1>1, <2>1 DEF LengthRun
  <2>3. g[i + 1] = g[i] * 256 + octets[i + 1] /\ g[i] \in Nat
    BY <1>2, <2>1 DEF NumberRun
  <2>4. octets[i + 1] \in Nat
    BY <2>1, OctetIsNat
  <2>5. Agrees(i)
    BY <1>6
  <2> HIDE DEF limit
  <2>6. CASE f[i] = -1 \/ f[i] >= limit
    <3>1. f[i + 1] = -1
      BY <2>2, <2>6 DEF Shifted, limit
    <3>2. g[i + 1] >= LengthTooLarge
      BY <1>4, <2>2, <2>3, <2>4, <2>5, <2>6, SMTT(20)
    <3> QED BY <3>1, <3>2
  <2>7. CASE ~(f[i] = -1 \/ f[i] >= limit)
    <3>1. f[i + 1] = f[i] * 256 + octets[i + 1]
      BY <2>2, <2>7 DEF Shifted, limit
    <3>2. f[i + 1] = g[i + 1] /\ f[i + 1] # -1
      BY <2>2, <2>3, <2>4, <2>5, <2>7, <3>1
    <3> QED BY <3>2
  <2> QED BY <2>6, <2>7
<1>7. n \in holds
  <2> HIDE DEF holds, n
  <2>1. \A i \in 0 .. n : i \in holds
    BY <1>3, <1>5, <1>6, UpTo
  <2> QED BY <1>3, <2>1
<1> QED BY <1>1, <1>2, <1>3, <1>7 DEF LengthRun, NumberRun

\* A share of a natural number is none greater.
LEMMA ShareOf ==
  ASSUME NEW a \in Nat, NEW d \in Nat, d > 0
  PROVE  a \div d <= a
<1> DEFINE q == a \div d
           r == a % d
<1>1. q \in Int /\ r \in 0 .. d - 1 /\ a = d * q + r
  OBVIOUS
<1> HIDE DEF q, r
<1>2. q > 0 => d * q >= q
  BY <1>1
<1> QED BY <1>1, <1>2 DEF q

\* ber_fetch_length, for every length of up to 126 octets and at every width of
\* ssize_t, gives the number its octets make or an error, asks for more only while
\* the length may still turn out right, and wraps nothing around.
THEOREM FetchLengthExact ==
  ASSUME NEW n \in 1 .. 126, NEW have \in Seq(Octet), Len(have) <= n
  PROVE  LengthIsExact(n, have)
<1> DEFINE w == <<128 + n>> \o have
           m == Len(have)
           read == FetchLength(TRUE, w)
           number == Number(have)
<1>1. m \in 0 .. n /\ n \in Nat /\ m \in Nat
  OBVIOUS
<1>2. /\ Len(w) = m + 1 /\ w # <<>> /\ w[1] = 128 + n
      /\ \A i \in 1 .. m : w[i + 1] = have[i]
  <2>1. w \in Seq(Nat)
    BY OctetIsNat
  <2> QED BY <1>1, <2>1
<1>3. ~(w[1] < 128) /\ w[1] # 128 /\ w[1] # 255 /\ w[1] % 128 = n
  BY <1>2
<1>4. SubSeq(w, 2, Min({Len(w), 1 + n})) = have
  <2>1. Min({Len(w), 1 + n}) = m + 1
    BY <1>1, <1>2, MinOfTwo
  <2>2. SubSeq(w, 2, m + 1) = have
    <3>1. w \in Seq(Octet) /\ 1 + 1 = 2 /\ 1 + m = m + 1 /\ 1 + m <= Len(w)
      BY <1>1, <1>2 DEF Octet
    <3>2. /\ SubSeq(w, 2, m + 1) \in Seq(Octet) /\ Len(SubSeq(w, 2, m + 1)) = m
          /\ \A k \in 1 .. m : SubSeq(w, 2, m + 1)[k] = w[1 + k]
      BY <1>1, <3>1, PartProperties
    <3> QED BY <1>1, <1>2, <3>2
  <2> QED BY <2>1, <2>2
<1>5. read = LongLength(n, have, LengthOf(have))
  BY <1>2, <1>3, <1>4 DEF FetchLength, FetchLong
<1>6. /\ number \in Nat
      /\ IF LengthOf(have) = -1 THEN number >= LengthTooLarge ELSE LengthOf(have) = number
  BY LengthOrTooLarge
<1>7. LengthTooLarge \in Nat /\ LengthTooLarge > 0
  BY LengthTooLargeType
<1>8. Sane(have, n - m) => number < LengthTooLarge
  <2>1. n - m \in Nat /\ 8 * (n - m) \in Nat /\ 0 \in Nat /\ 0 <= 8 * (n - m)
    BY <1>1
  <2>2. 2^(8 * (n - m)) \in Nat /\ 2^(8 * (n - m)) > 0
    <3>1. 2^(8 * (n - m)) \in Nat /\ 2^0 <= 2^(8 * (n - m))
      BY <2>1, PowersGrow
    <3>2. 2^0 = 1
      OBVIOUS
    <3> QED BY <3>1, <3>2
  <2>3. (LengthTooLarge - 1) \div 2^(8 * (n - m)) <= LengthTooLarge - 1
    BY <1>7, <2>2, ShareOf
  <2>4. (LengthTooLarge - 1) \div 2^(8 * (n - m)) \in Int
    BY <1>7, <2>2
  <2> QED BY <1>6, <1>7, <2>3, <2>4 DEF Sane
<1>9. number < LengthTooLarge => Sane(have, 0)
  <2>1. 8 * 0 = 0 /\ 2^0 = 1
    OBVIOUS
  <2>2. 2^(8 * 0) = 1
    BY <2>1
  <2>3. (LengthTooLarge - 1) \div 2^(8 * 0) = LengthTooLarge - 1
    BY <1>7, <2>2
  <2> QED BY <1>6, <1>7, <2>3 DEF Sane
<1> HIDE DEF read, number
<1>10. CASE m = n /\ Sane(have, 0)
  <2>1. n - m = 0
    BY <1>1, <1>10
  <2>2. number < LengthTooLarge
    BY <1>8, <1>10, <2>1
  <2>3. LengthOf(have) = number /\ number # -1 /\ ~(Len(have) < n) /\ ~(number >= LengthTooLarge)
    BY <1>1, <1>6, <1>7, <1>10, <2>2
  <2>4. read = [len |-> n + 1, value |-> number]
    BY <1>5, <2>3 DEF LongLength
  <2> QED BY <1>10, <2>4 DEF LengthIsExact, read, number
<1>11. CASE m # n
  <2>1. Len(have) < n
    BY <1>1, <1>11
  <2>2. read.len = -1 \/ read.len = 0
    BY <1>5, <2>1 DEF LongLength
  <2>3. Sane(have, n - m) => read.len = 0
    BY <1>5, <1>6, <1>7, <1>8, <2>1 DEF LongLength
  <2> QED BY <1>11, <2>2, <2>3 DEF LengthIsExact, read
<1>12. CASE m = n /\ ~Sane(have, 0)
  <2>1. n - m = 0 /\ ~(Len(have) < n)
    BY <1>1, <1>12
  <2>2. number >= LengthTooLarge
    BY <1>6, <1>7, <1>9, <1>12
  <2>3. read.len = -1
    BY <1>5, <1>6, <1>7, <2>1, <2>2 DEF LongLength
  <2> QED BY <1>12, <2>1, <2>3 DEF LengthIsExact, read
<1> QED BY <1>10, <1>11, <1>12

-----------------------------------------------------------------------------
(***************************************************************************)
(* ber_skip_length.  The contents of an indefinite length are a recursion  *)
(* towards the end of the window: body[j] is made from later ones.         *)
(***************************************************************************)
Indexes(w) == 1 .. Len(w) + 1

\* No body is longer than what is left of the window, from index i on.
Fits(body, w, i) == \A k \in Indexes(w) : k >= i => body[k] \in -1 .. Len(w) + 1 - k

\* Two bodies are the same from index i on.
SameFrom(f, g, w, i) == \A k \in Indexes(w) : k >= i => f[k] = g[k]

\* The length and the contents at i fit, and depend on the later bodies only.
LEMMA LengthAndValueBounds ==
  ASSUME NEW w \in Seq(Octet), NEW constructed \in BOOLEAN, NEW i \in Indexes(w),
         NEW f, Fits(f, w, i + 1)
  PROVE  /\ LengthAndValue(constructed, w, i, f) \in -1 .. Len(w) + 1 - i
         /\ \A g : SameFrom(f, g, w, i + 1) =>
              LengthAndValue(constructed, w, i, g) = LengthAndValue(constructed, w, i, f)
<1> DEFINE l == FetchLength(constructed, From(w, i))
<1>1. Len(w) \in Nat /\ i \in 1 .. Len(w) + 1
  BY DEF Indexes
<1>2. From(w, i) \in Seq(Octet) /\ Len(From(w, i)) = Len(w) - i + 1
  BY <1>1, FromProperties
<1>3. l.len \in -1 .. Len(w) - i + 1 /\ (l.len > 0 => l.value \in Nat \cup {-1})
  BY <1>2, FetchLengthBounds
<1> HIDE DEF l
<1>4. \A h : LengthAndValue(constructed, w, i, h) = ValueAfter(l, w, i, h)
  BY DEF LengthAndValue, l
<1>5. CASE l.len <= 0
  BY <1>1, <1>3, <1>4, <1>5 DEF ValueAfter
<1>6. CASE l.len > 0 /\ l.value < 0
  <2> DEFINE k == i + l.len
  <2>1. k \in Indexes(w) /\ k >= i + 1
    BY <1>1, <1>3, <1>6 DEF Indexes
  <2>2. \A h : LengthAndValue(constructed, w, i, h) = Plus(l.len, h[k])
    BY <1>3, <1>4, <1>6 DEF ValueAfter
  <2>3. f[k] \in -1 .. Len(w) + 1 - k
    BY <2>1 DEF Fits
  <2>4. Plus(l.len, f[k]) \in -1 .. Len(w) + 1 - i
    BY <1>1, <1>3, <1>6, <2>3 DEF Plus
  <2>5. \A g : SameFrom(f, g, w, i + 1) => g[k] = f[k]
    BY <2>1 DEF SameFrom
  <2> HIDE DEF k
  <2> QED BY <2>2, <2>4, <2>5
<1>7. CASE l.len > 0 /\ ~(l.value < 0)
  <2>1. \A h : LengthAndValue(constructed, w, i, h) =
                 IF l.len + l.value > Len(w) - i + 1 THEN 0 ELSE l.len + l.value
    BY <1>3, <1>4, <1>7 DEF ValueAfter
  <2> QED BY <1>1, <1>3, <1>7, <2>1
<1> QED BY <1>3, <1>5, <1>6, <1>7

\* The value the recursion gives at j.
BodyAt(w, f, j) == AfterItem(ItemAt(FetchTag(From(w, j)), w, j, f), w, j, f)

\* A whole TLV at j fits, and depends on the later bodies only.
LEMMA ItemBounds ==
  ASSUME NEW w \in Seq(Octet), NEW j \in Indexes(w), NEW f, Fits(f, w, j + 1),
         NEW t, t = FetchTag(From(w, j))
  PROVE  /\ ItemAt(t, w, j, f) \in -1 .. Len(w) + 1 - j
         /\ \A g : SameFrom(f, g, w, j + 1) => ItemAt(t, w, j, g) = ItemAt(t, w, j, f)
<1> DEFINE constructed == Constructed(From(w, j))
           i == j + t.len
           lv(h) == LengthAndValue(constructed, w, i, h)
<1>1. Len(w) \in Nat /\ j \in 1 .. Len(w) + 1
  BY DEF Indexes
<1>2. From(w, j) \in Seq(Octet) /\ Len(From(w, j)) = Len(w) - j + 1
  BY <1>1, FromProperties
<1>3. t.len \in -1 .. Len(w) - j + 1
  BY <1>2, FetchTagBounds
<1>4. constructed \in BOOLEAN
  BY DEF Constructed
<1> HIDE DEF constructed
<1>5. CASE t.len <= 0
  BY <1>1, <1>3, <1>5 DEF ItemAt
<1>6. CASE t.len > 0
  <2>1. i \in Indexes(w) /\ i >= j + 1 /\ i \in Nat
    BY <1>1, <1>3, <1>6 DEF Indexes
  <2>2. \A h : ItemAt(t, w, j, h) = Plus(t.len, lv(h))
    BY <1>3, <1>6 DEF ItemAt, constructed
  <2>3. /\ Fits(f, w, i + 1)
        /\ \A g : SameFrom(f, g, w, j + 1) => SameFrom(f, g, w, i + 1)
    BY <1>1, <2>1 DEF Fits, SameFrom, Indexes
  <2>4. /\ lv(f) \in -1 .. Len(w) + 1 - i
        /\ \A g : SameFrom(f, g, w, i + 1) => lv(g) = lv(f)
    BY <1>4, <2>1, <2>3, LengthAndValueBounds
  <2> HIDE DEF lv
  <2>5. Plus(t.len, lv(f)) \in -1 .. Len(w) + 1 - j
    BY <1>1, <1>3, <1>6, <2>4 DEF Plus
  <2> QED BY <2>2, <2>3, <2>4, <2>5
<1> QED BY <1>3, <1>5, <1>6

\* A body at j fits if the later ones do, and depends on them only.
LEMMA BodyBounds ==
  ASSUME NEW w \in Seq(Octet), NEW j \in Indexes(w), NEW f, Fits(f, w, j + 1)
  PROVE  /\ BodyAt(w, f, j) \in -1 .. Len(w) + 1 - j
         /\ \A g : SameFrom(f, g, w, j + 1) => BodyAt(w, g, j) = BodyAt(w, f, j)
<1> DEFINE t == FetchTag(From(w, j))
           item(h) == ItemAt(t, w, j, h)
           m == item(f)
<1>1. Len(w) \in Nat /\ j \in 1 .. Len(w) + 1
  BY DEF Indexes
<1>2. m \in -1 .. Len(w) + 1 - j /\ \A g : SameFrom(f, g, w, j + 1) => item(g) = m
  BY ItemBounds
<1>3. \A h : BodyAt(w, h, j) = AfterItem(item(h), w, j, h)
  BY DEF BodyAt
<1> HIDE DEF item, m
<1>4. CASE m <= 0 \/ (w[j] = 0 /\ w[j + 1] = 0)
  <2>1. \A h : item(h) = m => BodyAt(w, h, j) = m
    BY <1>3, <1>4 DEF AfterItem
  <2> QED BY <1>2, <2>1 DEF m
<1>5. CASE ~(m <= 0 \/ (w[j] = 0 /\ w[j + 1] = 0))
  <2> DEFINE k == j + m
  <2>1. \A h : item(h) = m => BodyAt(w, h, j) = Plus(m, h[k])
    BY <1>3, <1>5 DEF AfterItem
  <2>2. k \in Indexes(w) /\ k >= j + 1 /\ m > 0
    BY <1>1, <1>2, <1>5 DEF Indexes
  <2>3. f[k] \in -1 .. Len(w) + 1 - k
    BY <2>2 DEF Fits
  <2>4. Plus(m, f[k]) \in -1 .. Len(w) + 1 - j
    BY <1>1, <1>2, <2>2, <2>3 DEF Plus
  <2>5. \A g : SameFrom(f, g, w, j + 1) => g[k] = f[k]
    BY <2>2 DEF SameFrom
  <2> HIDE DEF k
  <2> QED BY <1>2, <2>1, <2>4, <2>5 DEF m
<1> QED BY <1>4, <1>5

\* A body that follows the recursion wherever what comes later fits, fits everywhere.
LEMMA FitsDown ==
  ASSUME NEW w \in Seq(Octet), NEW f,
         \A j \in Indexes(w) : Fits(f, w, j + 1) => f[j] = BodyAt(w, f, j)
  PROVE  \A j \in 1 .. Len(w) + 2 : Fits(f, w, j)
<1> DEFINE n == Len(w) + 1
           holds == {i \in Nat : Fits(f, w, n + 1 - i)}
<1>1. n \in Nat /\ Indexes(w) = 1 .. n /\ Len(w) \in Nat
  BY DEF Indexes
<1>2. 0 \in holds
  BY <1>1 DEF Fits
<1>3. ASSUME NEW i \in 0 .. n - 1, i \in holds PROVE i + 1 \in holds
  <2> DEFINE j == n - i
  <2>1. j \in 1 .. n /\ j + 1 = n + 1 - i /\ n + 1 - (i + 1) = j
    BY <1>1
  <2>2. Fits(f, w, j + 1)
    BY <1>3, <2>1
  <2>3. f[j] \in -1 .. n - j
    BY <1>1, <2>1, <2>2, BodyBounds
  <2>4. ASSUME NEW k \in Indexes(w), k >= j PROVE f[k] \in -1 .. Len(w) + 1 - k
    <3>1. k = j \/ k >= j + 1
      BY <1>1, <2>1, <2>4
    <3> QED BY <2>2, <2>3, <3>1 DEF Fits
  <2> QED BY <2>1, <2>4 DEF Fits
<1>4. \A i \in 0 .. n : i \in holds
  <2> HIDE DEF holds, n
  <2> QED BY <1>1, <1>2, <1>3, UpTo, Zenon
<1> SUFFICES ASSUME NEW j \in 1 .. n + 1 PROVE Fits(f, w, j)
  BY <1>1
<1> DEFINE i == n + 1 - j
<1>5. i \in 0 .. n /\ n + 1 - i = j
  BY <1>1
<1>6. Fits(f, w, n + 1 - i)
  BY <1>4, <1>5
<1> HIDE DEF n, i
<1> QED BY <1>5, <1>6, Zenon

\* The recursion has a solution, and what it gives for a window fits into it.
LEMMA IndefiniteBodyFits ==
  ASSUME NEW w \in Seq(Octet)
  PROVE  Fits(IndefiniteBody(w), w, 1)
<1> DEFINE n == Len(w) + 1
           body == CHOOSE f : f = [j \in 1 .. Len(w) + 1 |-> BodyAt(w, f, j)]
           Guarded(f, j) == IF Fits(f, w, j + 1) THEN BodyAt(w, f, j) ELSE 0
           V == -1 .. n
           step == [j \in 1 .. n |-> [f \in [1 .. n -> V] |-> Guarded(f, j)]]
<1>1. IndefiniteBody(w) = body
  BY DEF IndefiniteBody, BodyAt
<1>2. n \in Nat /\ n = Len(w) + 1 /\ Len(w) \in Nat /\ Indexes(w) = 1 .. n /\ 0 \in V
  BY DEF Indexes
<1>3. ASSUME NEW j \in 1 .. n, NEW f, Fits(f, w, j + 1) PROVE BodyAt(w, f, j) \in -1 .. n - j
  BY <1>2, <1>3, BodyBounds
<1>4. \A j \in 1 .. n : \A f : Guarded(f, j) \in V
  BY <1>2, <1>3
<1>5. ASSUME NEW j \in 1 .. n, NEW f, NEW g, \A k \in j + 1 .. n : f[k] = g[k]
      PROVE  Guarded(f, j) = Guarded(g, j)
  <2>1. SameFrom(f, g, w, j + 1)
    BY <1>2, <1>5 DEF SameFrom
  <2>2. Fits(f, w, j + 1) <=> Fits(g, w, j + 1)
    BY <2>1 DEF Fits, SameFrom
  <2>3. Fits(f, w, j + 1) => BodyAt(w, g, j) = BodyAt(w, f, j)
    BY <1>2, <2>1, BodyBounds
  <2> QED BY <2>2, <2>3
<1> HIDE DEF Guarded, V, n, body
<1>6. step \in StepsDown(n, V)
  BY <1>4, <1>5 DEF StepsDown
<1>7. \A j \in 1 .. n : \A f \in [1 .. n -> V] : step[j][f] = Guarded(f, j)
  OBVIOUS
<1> HIDE DEF step
<1>8. PICK f : RunDown(f, n, V, step)
  BY <1>2, <1>6, RecursionDown
<1>9. \A j \in 1 .. n : f[j] = Guarded(f, j)
  BY <1>7, <1>8 DEF RunDown
<1>10. \A j \in 1 .. n + 1 : Fits(f, w, j)
  BY <1>2, <1>9, FitsDown DEF Guarded
<1>11. f = [j \in 1 .. n |-> BodyAt(w, f, j)]
  <2>1. \A j \in 1 .. n : f[j] = BodyAt(w, f, j)
    BY <1>2, <1>9, <1>10 DEF Guarded
  <2> QED BY <1>8, <2>1 DEF RunDown
<1>12. body = [j \in 1 .. n |-> BodyAt(w, body, j)]
  BY <1>2, <1>11, Zenon DEF body
<1>13. \A j \in 1 .. n : body[j] = BodyAt(w, body, j)
  BY <1>12
<1> QED BY <1>1, <1>2, <1>13, FitsDown

\* What is skipped lies within the window.
THEOREM SkipLengthBounds ==
  ASSUME NEW w \in Seq(Octet), NEW constructed \in BOOLEAN
  PROVE  SkipLength(constructed, w) \in -1 .. Len(w)
<1>1. 1 \in Indexes(w) /\ Len(w) \in Nat
  BY DEF Indexes
<1>2. Fits(IndefiniteBody(w), w, 1 + 1)
  BY IndefiniteBodyFits DEF Fits, Indexes
<1>3. LengthAndValue(constructed, w, 1, IndefiniteBody(w)) \in -1 .. Len(w) + 1 - 1
  BY <1>1, <1>2, LengthAndValueBounds
<1> QED BY <1>1, <1>3 DEF SkipLength

-----------------------------------------------------------------------------
(***************************************************************************)
(* ber_check_tags.                                                         *)
(***************************************************************************)
ChainRecord ==
  [code : {"ok", "more", "fail"}, used : Nat, size : Nat, limit : Int, nulls : Nat,
   step : Nat, constr : {-1, 0, 1}, length : Int]

\* The locals of the loop: they stay within the window, a tag that was accepted has
\* taken some of it, and what follows the tag of a primitive form has a definite length.
ChainOK(chain, w) ==
  /\ chain \in ChainRecord
  /\ chain.used + chain.size <= Len(w)
  /\ chain.constr # -1 => chain.used > 0
  /\ chain.code = "ok" /\ chain.constr = 0 => chain.nulls = 0 /\ chain.length \in Nat

\* A tag that was not accepted leaves used and step as they were.
Stays(chain, next) ==
  next.code # "ok" => next.used = chain.used /\ next.step = chain.step

\* What the check of one tag, of a form constr, makes of the locals.
Follows(chain, next, constr, w) ==
  /\ ChainOK(next, w)
  /\ Stays(chain, next)
  /\ next.code = "ok" => next.constr = constr /\ next.step = chain.step + 1

\* A reading stopped before its tag leaves the chain where it was.
LEMMA StopOK ==
  ASSUME NEW w, NEW chain, ChainOK(chain, w), NEW n, NEW constr
  PROVE  Follows(chain, Stop(chain, n), constr, w)
<1>1. chain \in ChainRecord
  BY DEF ChainOK
<1>2. /\ Stop(chain, n) \in ChainRecord /\ Stop(chain, n).code # "ok"
      /\ Stop(chain, n).used = chain.used /\ Stop(chain, n).size = chain.size
      /\ Stop(chain, n).step = chain.step /\ Stop(chain, n).constr = chain.constr
  BY <1>1 DEF Stop, ChainRecord
<1> QED BY <1>2 DEF ChainOK, Stays, Follows

\* A stopped reading is not a success.
LEMMA StoppedChain ==
  ASSUME NEW w, NEW chain, ChainOK(chain, w), NEW n
  PROVE  Stop(chain, n).code # "ok"
BY DEF ChainOK, ChainRecord, Stop

\* The fields of a chain that has gone over a header.
LEMMA OnwardRecord ==
  ASSUME NEW chain \in ChainRecord, NEW header \in 1 .. chain.size, NEW value \in Int,
         NEW constr \in {0, 1}
  PROVE  \E next \in ChainRecord :
            /\ next = Onward(chain, header, value, constr)
            /\ next.code = chain.code /\ next.constr = constr /\ next.length = value
            /\ next.used = chain.used + header /\ next.size = chain.size - header
            /\ next.step = chain.step + 1 /\ next.nulls = chain.nulls
<1> DEFINE next == Onward(chain, header, value, constr)
<1>1. /\ chain.used + header \in Nat /\ chain.size - header \in Nat /\ chain.step + 1 \in Nat
      /\ constr \in {-1, 0, 1}
  BY DEF ChainRecord
<1>2. next \in ChainRecord
  BY <1>1, Zenon DEF Onward, ChainRecord
<1>3. /\ next.code = chain.code /\ next.constr = constr /\ next.length = value
      /\ next.used = chain.used + header /\ next.size = chain.size - header
      /\ next.step = chain.step + 1 /\ next.nulls = chain.nulls
  BY DEF Onward, ChainRecord
<1> QED BY <1>2, <1>3, Zenon

\* The fields of a chain under a definite length.
LEMMA LimitedRecord ==
  ASSUME NEW chain \in ChainRecord, NEW limit \in Nat
  PROVE  \E next \in ChainRecord :
            /\ next = Limited(chain, limit)
            /\ next.code = chain.code /\ next.constr = chain.constr
            /\ next.length = chain.length /\ next.used = chain.used
            /\ next.size <= chain.size
            /\ next.step = chain.step /\ next.nulls = chain.nulls
<1> DEFINE next == Limited(chain, limit)
           size == IF chain.size > limit THEN limit ELSE chain.size
<1>1. size \in Nat /\ size <= chain.size /\ limit \in Int
  BY DEF ChainRecord
<1>2. next = [chain EXCEPT !.limit = limit, !.size = size]
  BY DEF Limited
<1> HIDE DEF size, next
<1>3. next \in ChainRecord
  BY <1>1, <1>2, Zenon DEF ChainRecord
<1>4. /\ next.code = chain.code /\ next.constr = chain.constr
      /\ next.length = chain.length /\ next.used = chain.used
      /\ next.size = size
      /\ next.step = chain.step /\ next.nulls = chain.nulls
  BY <1>2 DEF ChainRecord
<1> QED BY <1>1, <1>3, <1>4, Zenon DEF next

\* A length accepted after the first header octets of a tag and length.
LEMMA CheckLengthOK ==
  ASSUME NEW w \in Seq(Octet), NEW chain, ChainOK(chain, w), chain.code = "ok",
         NEW constr \in {0, 1}, NEW header \in 1 .. chain.size,
         NEW value \in Nat \cup {-1}, value = -1 => constr = 1
  PROVE  Follows(chain, CheckLength(chain, header, value, constr), constr, w)
<1> DEFINE next == CheckLength(chain, header, value, constr)
<1> SUFFICES Follows(chain, next, constr, w)
  OBVIOUS
<1>1. /\ chain \in ChainRecord /\ chain.used + chain.size <= Len(w) /\ Len(w) \in Nat
      /\ chain.used \in Nat /\ chain.size \in Nat /\ chain.nulls \in Nat
  BY DEF ChainOK, ChainRecord
<1>2. PICK onward \in ChainRecord :
         /\ onward = Onward(chain, header, value, constr)
         /\ onward.code = chain.code /\ onward.constr = constr /\ onward.length = value
         /\ onward.used = chain.used + header /\ onward.size = chain.size - header
         /\ onward.step = chain.step + 1 /\ onward.nulls = chain.nulls
  <2>1. value \in Int
    OBVIOUS
  <2> QED BY <1>1, <2>1, OnwardRecord
<1>3. CASE value = -1 /\ chain.limit = -1
  <2>1. next = [onward EXCEPT !.nulls = @ + 1]
    BY <1>2, <1>3 DEF CheckLength
  <2>2. onward.nulls + 1 \in Nat
    BY DEF ChainRecord
  <2>3. next \in ChainRecord
    BY <2>1, <2>2, Zenon DEF ChainRecord
  <2>4. /\ next.code = "ok" /\ next.constr = 1 /\ next.step = chain.step + 1
        /\ next.used = chain.used + header /\ next.size = chain.size - header
    BY <1>2, <1>3, <2>1 DEF ChainRecord
  <2> HIDE DEF next
  <2> QED BY <1>1, <1>3, <2>3, <2>4 DEF ChainOK, Stays, Follows
<1>4. CASE value # -1 /\ ~(chain.nulls > 0 \/ chain.limit \notin {-1, value + header})
  <2>1. next = Limited(onward, value)
    BY <1>2, <1>4 DEF CheckLength
  <2>2. value \in Nat /\ chain.nulls = 0
    BY <1>1, <1>4
  <2>3. PICK limited \in ChainRecord :
           /\ limited = Limited(onward, value)
           /\ limited.code = onward.code /\ limited.constr = onward.constr
           /\ limited.length = onward.length /\ limited.used = onward.used
           /\ limited.size <= onward.size
           /\ limited.step = onward.step /\ limited.nulls = onward.nulls
    BY <2>2, LimitedRecord
  <2>4. /\ next \in ChainRecord /\ next.code = "ok" /\ next.constr = constr
        /\ next.length = value /\ next.used = chain.used + header
        /\ next.size <= chain.size - header
        /\ next.step = chain.step + 1 /\ next.nulls = 0
    BY <1>2, <2>1, <2>2, <2>3
  <2>5. next.size \in Nat
    BY <2>4 DEF ChainRecord
  <2> HIDE DEF next
  <2> QED BY <1>1, <2>2, <2>4, <2>5 DEF ChainOK, Stays, Follows
<1>5. CASE \/ value = -1 /\ chain.limit # -1
           \/ value # -1 /\ (chain.nulls > 0 \/ chain.limit \notin {-1, value + header})
  <2>1. next = Stop(chain, -1)
    BY <1>5 DEF CheckLength
  <2> QED BY <2>1, StopOK
<1> QED BY <1>3, <1>4, <1>5

\* The reading of a length after a tag keeps the chain within its window.
LEMMA AfterTOK ==
  ASSUME NEW w \in Seq(Octet), NEW chain, ChainOK(chain, w), chain.code = "ok",
         NEW constr \in {0, 1}, NEW t, t.len \in 1 .. chain.size,
         NEW l, l.len \in -1 .. chain.size - t.len,
         l.len > 0 => l.value \in Nat \cup {-1} /\ (l.value = -1 => constr = 1)
  PROVE  Follows(chain, AfterT(chain, t, constr, l), constr, w)
<1>1. chain.size \in Nat
  BY DEF ChainOK, ChainRecord
<1>2. CASE l.len <= 0
  BY <1>2, StopOK DEF AfterT
<1>3. CASE ~(l.len <= 0)
  <2>1. t.len + l.len \in 1 .. chain.size
    BY <1>1, <1>3
  <2>2. Follows(chain, CheckLength(chain, t.len + l.len, l.value, constr), constr, w)
    BY <1>1, <1>3, <2>1, CheckLengthOK
  <2> QED BY <1>3, <2>2 DEF AfterT
<1> QED BY <1>2, <1>3

\* The form is a bit, cleared where the window is empty or its tag primitive.
LEMMA FormType == \A w : Form(w) \in {0, 1} /\ (Form(w) = 0 <=> w = <<>> \/ ~Constructed(w))
BY DEF Form

\* What one tag of the chain must be to be accepted.
FormAccepted(ty, tagno, constr) ==
  IF tagno < Len(ty.tags) - 1 THEN constr # 0 ELSE ty.form \in {-1, constr}

\* One turn of the loop over the tags keeps the chain within its window.
LEMMA CheckTagOK ==
  ASSUME NEW w \in Seq(Octet), NEW chain, ChainOK(chain, w), chain.code = "ok",
         NEW rest \in Seq(Octet), Len(rest) = chain.size, NEW ty, NEW tagno
  PROVE  /\ Follows(chain, CheckTag(ty, chain, tagno, rest), Form(rest), w)
         /\ CheckTag(ty, chain, tagno, rest).code = "ok" => FormAccepted(ty, tagno, Form(rest))
<1> DEFINE t == FetchTag(rest)
           constr == Form(rest)
           l == FetchLength(constr = 1, From(rest, t.len + 1))
           next == CheckT(ty, chain, tagno, rest, t, constr)
<1> SUFFICES Follows(chain, next, constr, w) /\ (next.code = "ok" => FormAccepted(ty, tagno, constr))
  BY DEF CheckTag
<1>1. t.len \in -1 .. chain.size /\ chain.size \in Nat
  BY FetchTagBounds DEF ChainOK, ChainRecord
<1>2. constr \in {0, 1} /\ (constr = 1) \in BOOLEAN
  BY FormType
<1>3. CASE t.len <= 0
  <2>1. next = Stop(chain, t.len)
    BY <1>3 DEF CheckT
  <2>2. Follows(chain, next, constr, w) /\ next.code # "ok"
    BY <2>1, StoppedChain, StopOK
  <2> HIDE DEF next
  <2> QED BY <2>2
<1>4. CASE ~(t.len <= 0) /\ Mismatched(ty, chain, tagno, t, constr)
  <2>1. next = Stop(chain, -1)
    BY <1>4 DEF CheckT
  <2>2. Follows(chain, next, constr, w) /\ next.code # "ok"
    BY <2>1, StoppedChain, StopOK
  <2> HIDE DEF next
  <2> QED BY <2>2
<1>5. CASE ~(t.len <= 0) /\ ~Mismatched(ty, chain, tagno, t, constr)
  <2>1. next = AfterT(chain, t, constr, l)
    BY <1>5 DEF CheckT
  <2>2. t.len + 1 \in 1 .. Len(rest) + 1
    BY <1>1, <1>5
  <2>3. From(rest, t.len + 1) \in Seq(Octet) /\ Len(From(rest, t.len + 1)) = chain.size - t.len
    BY <1>1, <2>2, FromProperties
  <2>4. /\ l.len \in -1 .. chain.size - t.len
        /\ l.len > 0 => l.value \in Nat \cup {-1} /\ (l.value = -1 => constr = 1)
    BY <1>2, <2>3, FetchLengthBounds
  <2> HIDE DEF l, t, constr
  <2>5. Follows(chain, next, constr, w)
    BY <1>1, <1>2, <1>5, <2>1, <2>4, AfterTOK
  <2>6. FormAccepted(ty, tagno, constr)
    BY <1>5 DEF Mismatched, FormAccepted
  <2> QED BY <2>5, <2>6
<1> QED BY <1>3, <1>4, <1>5

-----------------------------------------------------------------------------
\* The locals after one more tag.
NextOf(ty, first, w, i, chain) ==
  CheckTag(ty, chain, first + i - 1, SubSeq(w, chain.used + 1, chain.used + chain.size))

\* What a tag is looked for in.
LEMMA RestOK ==
  ASSUME NEW w \in Seq(Octet), NEW chain, ChainOK(chain, w)
  PROVE  LET rest == SubSeq(w, chain.used + 1, chain.used + chain.size)
         IN  /\ rest \in Seq(Octet) /\ Len(rest) = chain.size
             /\ \A k \in 1 .. chain.size : rest[k] = w[chain.used + k]
<1>1. chain.used \in Nat /\ chain.size \in Nat /\ chain.used + chain.size <= Len(w)
  BY DEF ChainOK, ChainRecord
<1> QED BY <1>1, PartProperties

\* So does the turn over the window that the chain has left.
LEMMA NextOfOK ==
  ASSUME NEW w \in Seq(Octet), NEW chain, ChainOK(chain, w), NEW ty, NEW first, NEW i
  PROVE  ChainOK(NextOf(ty, first, w, i, chain), w)
<1> DEFINE rest == SubSeq(w, chain.used + 1, chain.used + chain.size)
<1>1. CASE chain.code # "ok"
  BY <1>1 DEF NextOf, CheckTag
<1>2. CASE chain.code = "ok"
  <2>1. rest \in Seq(Octet) /\ Len(rest) = chain.size
    BY RestOK
  <2> QED BY <1>2, <2>1, CheckTagOK DEF NextOf, Follows
<1> QED BY <1>1, <1>2

\* f is the run of the loop over the tags from first on.
ChainRun(f, ty, first, fresh, w) ==
  /\ f[0] = fresh
  /\ \A i \in 0 .. Len(ty.tags) - first : ChainOK(f[i], w)
  /\ \A i \in 1 .. Len(ty.tags) - first : f[i] = NextOf(ty, first, w, i, f[i - 1])
  /\ Chain(ty, first, fresh, w) = f[Len(ty.tags) - first]

\* The loop over the tags has a run, from the fresh chain on.
LEMMA ChainUnfolds ==
  ASSUME NEW w \in Seq(Octet), NEW ty, NEW first \in Int, Len(ty.tags) - first \in Nat,
         NEW fresh, ChainOK(fresh, w)
  PROVE  \E f : ChainRun(f, ty, first, fresh, w)
<1> DEFINE n == Len(ty.tags) - first
           V == {c \in ChainRecord : ChainOK(c, w)}
           At(f, i) == IF i = 0 THEN fresh ELSE NextOf(ty, first, w, i, f[i - 1])
           step == [i \in 1 .. n |-> [c \in V |-> NextOf(ty, first, w, i, c)]]
           after == CHOOSE f : f = [i \in 0 .. n |-> At(f, i)]
<1>1. Chain(ty, first, fresh, w) = after[n] /\ n \in Nat
  BY Zenon DEF Chain, NextOf
<1>2. n \in Nat
  OBVIOUS
<1> HIDE DEF n
<1>3. \A i \in 1 .. n : \A c \in V : NextOf(ty, first, w, i, c) \in V
  BY NextOfOK DEF ChainOK
<1>4. fresh \in V
  BY DEF ChainOK
<1> HIDE DEF V
<1>5. step \in StepsUp(n, V)
  BY <1>3 DEF StepsUp
<1>6. \A i \in 1 .. n : \A c \in V : step[i][c] = NextOf(ty, first, w, i, c)
  OBVIOUS
<1> HIDE DEF step
<1>7. PICK f : RunUp(f, n, V, fresh, step)
  BY <1>2, <1>4, <1>5, RecursionUp
<1>8. \A i \in 0 .. n : f[i] = At(f, i)
  BY <1>2, <1>6, <1>7 DEF RunUp
<1>9. f = [i \in 0 .. n |-> At(f, i)]
  <2> HIDE DEF At
  <2> QED BY <1>7, <1>8 DEF RunUp
<1>10. after = [i \in 0 .. n |-> At(after, i)]
  <2> HIDE DEF At
  <2> QED BY <1>9, Zenon
<1> HIDE DEF after
<1>11. /\ after[0] = fresh
       /\ \A i \in 1 .. n : after[i] = NextOf(ty, first, w, i, after[i - 1])
  BY <1>2, <1>10
<1>12. GoesUp(after, n, V, step)
  BY <1>4, <1>6, <1>11 DEF GoesUp
<1>13. \A i \in 0 .. n : after[i] \in V
  BY <1>2, <1>5, <1>12, RecursionStays
<1>14. ChainRun(after, ty, first, fresh, w)
  BY <1>1, <1>11, <1>13 DEF ChainRun, V, n
<1> QED BY <1>14

-----------------------------------------------------------------------------
Fresh(start, w) ==
  [code |-> "ok", used |-> 0, size |-> Len(w), limit |-> -1, nulls |-> 0,
   step |-> start, constr |-> -1, length |-> -1]

\* The chain before any tag.
LEMMA FreshOK ==
  ASSUME NEW w \in Seq(Octet), NEW start \in Nat
  PROVE  ChainOK(Fresh(start, w), w)
BY DEF Fresh, ChainOK, ChainRecord

\* The steps of a run of the loop: one for each tag, none once it has stopped.
LEMMA ChainRunSteps ==
  ASSUME NEW w \in Seq(Octet), NEW ty, NEW first \in Int, Len(ty.tags) - first \in Nat,
         NEW fresh, NEW f, ChainRun(f, ty, first, fresh, w)
  PROVE  \A i \in 0 .. Len(ty.tags) - first : f[i].step \in fresh.step .. fresh.step + i
<1> DEFINE n == Len(ty.tags) - first
           holds == {i \in Nat : f[i].step \in fresh.step .. fresh.step + i}
<1>1. \A i \in 0 .. n : ChainOK(f[i], w) /\ f[i].step \in Nat /\ f[i].code \in {"ok", "more", "fail"}
  BY DEF ChainRun, ChainOK, ChainRecord
<1>2. f[0] = fresh /\ n \in Nat /\ 0 \in 0 .. n
  BY DEF ChainRun
<1>3. 0 \in holds
  BY <1>1, <1>2
<1>4. ASSUME NEW i \in 0 .. n - 1, i \in holds PROVE i + 1 \in holds
  <2> DEFINE chain == f[i]
             rest == SubSeq(w, chain.used + 1, chain.used + chain.size)
  <2>1. i + 1 \in 1 .. n /\ i \in 0 .. n /\ (i + 1) - 1 = i
    BY <1>2
  <2>2. f[i + 1] = CheckTag(ty, chain, first + (i + 1) - 1, rest)
    BY <2>1 DEF ChainRun, NextOf
  <2>3. ChainOK(chain, w)
    BY <1>1, <2>1
  <2>4. rest \in Seq(Octet) /\ Len(rest) = chain.size
    BY <2>3, RestOK
  <2>5. f[i + 1].step \in {chain.step, chain.step + 1}
    <3>1. CASE chain.code = "ok"
      <4>1. Follows(chain, f[i + 1], Form(rest), w)
        BY <2>2, <2>3, <2>4, <3>1, CheckTagOK
      <4> QED BY <4>1 DEF Follows, Stays
    <3>2. CASE chain.code # "ok"
      BY <2>2, <3>2 DEF CheckTag
    <3> QED BY <3>1, <3>2
  <2>6. chain.step \in fresh.step .. fresh.step + i /\ fresh.step \in Nat
    BY <1>1, <1>2, <1>4
  <2> HIDE DEF chain, rest
  <2> QED BY <2>5, <2>6, SMTT(20)
<1>5. \A i \in 0 .. n : i \in holds
  <2> HIDE DEF holds, n
  <2> QED BY <1>2, <1>3, <1>4, UpTo, Zenon
<1> QED BY <1>5

\* The form of the last tag, where it was accepted.
LEMMA ChainRunForm ==
  ASSUME NEW w \in Seq(Octet), NEW ty, NEW first \in Int, Len(ty.tags) - first \in Nat \ {0},
         ty.form = 0, Len(ty.tags) \in Nat,
         NEW fresh, NEW f, ChainRun(f, ty, first, fresh, w),
         f[Len(ty.tags) - first].code = "ok"
  PROVE  f[Len(ty.tags) - first].constr = 0
<1> DEFINE n == Len(ty.tags) - first
           chain == f[n - 1]
           rest == SubSeq(w, chain.used + 1, chain.used + chain.size)
<1>1. n \in 1 .. n /\ n - 1 \in 0 .. n
  OBVIOUS
<1>2. f[n] = CheckTag(ty, chain, first + n - 1, rest)
  BY <1>1 DEF ChainRun, NextOf
<1>3. ChainOK(chain, w)
  BY <1>1 DEF ChainRun
<1>4. rest \in Seq(Octet) /\ Len(rest) = chain.size
  BY <1>3, RestOK
<1>5. chain.code = "ok"
  BY <1>2 DEF CheckTag
<1> HIDE DEF chain, rest
<1>6. Follows(chain, f[n], Form(rest), w) /\ FormAccepted(ty, first + n - 1, Form(rest))
  BY <1>2, <1>3, <1>4, <1>5, CheckTagOK
<1>7. Form(rest) = 0
  <2>1. ~(first + n - 1 < Len(ty.tags) - 1)
    OBVIOUS
  <2> QED BY <1>6, <2>1, FormType DEF FormAccepted
<1> QED BY <1>6, <1>7 DEF Follows

\* What of the answer of ber_check_tags does not depend on where the tags are.
AnswerOK(r, w, steps) ==
  /\ r.code \in {"ok", "more", "fail"}
  /\ r.used \in 0 .. Len(w)
  /\ r.step \in steps
  /\ r.length \in Int
  /\ r.code = "ok" /\ r.constr = 0 => r.length \in Nat

\* What is reported of a chain that is within its window.
LEMMA CheckedOK ==
  ASSUME NEW w \in Seq(Octet), NEW chain, ChainOK(chain, w), NEW steps, chain.step \in steps,
         NEW saves \in BOOLEAN
  PROVE  AnswerOK(Checked(chain, saves), w, steps)
<1>1. /\ chain \in ChainRecord /\ chain.used + chain.size <= Len(w) /\ Len(w) \in Nat
      /\ chain.used \in Nat /\ chain.size \in Nat /\ chain.nulls \in Nat /\ chain.length \in Int
      /\ chain.code \in {"ok", "more", "fail"}
  BY DEF ChainOK, ChainRecord
<1>2. chain.used \in 0 .. Len(w)
  BY <1>1
<1> QED BY <1>1, <1>2 DEF Checked, AnswerOK, ChainOK

\* The untagged ANY type.
LEMMA AnyTagOK ==
  ASSUME NEW w \in Seq(Octet), NEW start \in Nat
  PROVE  LET next == AnyTag(Fresh(start, w), w, FetchTag(w))
         IN  /\ ChainOK(next, w) /\ next.step = start
             /\ next.code = "ok" => next.constr = Form(w)
<1> DEFINE fresh == Fresh(start, w)
           t == FetchTag(w)
           l == FetchLength(Form(w) = 1, From(w, t.len + 1))
           next == AnyTag(fresh, w, t)
<1> SUFFICES ChainOK(next, w) /\ next.step = start /\ (next.code = "ok" => next.constr = Form(w))
  OBVIOUS
<1>1. ChainOK(fresh, w) /\ fresh.code = "ok" /\ fresh.size = Len(w) /\ fresh.step = start
  BY FreshOK DEF Fresh
<1>2. t.len \in -1 .. Len(w) /\ Len(w) \in Nat
  BY FetchTagBounds
<1>3. Form(w) \in {0, 1} /\ (Form(w) = 1) \in BOOLEAN
  BY FormType
<1>4. CASE t.len <= 0
  <2>1. next = Stop(fresh, t.len)
    BY <1>4 DEF AnyTag
  <2>2. Follows(fresh, next, 0, w) /\ next.code # "ok"
    BY <1>1, <2>1, StopOK, StoppedChain
  <2> HIDE DEF next
  <2> QED BY <1>1, <2>2 DEF Follows, Stays
<1>5. CASE ~(t.len <= 0)
  <2>1. t.len + 1 \in 1 .. Len(w) + 1
    BY <1>2, <1>5
  <2>2. From(w, t.len + 1) \in Seq(Octet) /\ Len(From(w, t.len + 1)) = Len(w) - t.len
    BY <1>2, <2>1, FromProperties
  <2>3. /\ l.len \in -1 .. Len(w) - t.len
        /\ l.len > 0 => l.value \in Nat \cup {-1} /\ (l.value = -1 => Form(w) = 1)
    BY <1>3, <2>2, FetchLengthBounds
  <2> DEFINE mid == AfterT(fresh, t, Form(w), l)
  <2>4. next = [mid EXCEPT !.nulls = 0, !.step = fresh.step]
    BY <1>5 DEF AnyTag
  <2> HIDE DEF l, t, fresh, next
  <2>5. Follows(fresh, mid, Form(w), w)
    BY <1>1, <1>2, <1>3, <1>5, <2>3, AfterTOK
  <2> HIDE DEF mid
  <2>6. mid \in ChainRecord /\ 0 \in Nat /\ fresh.step \in Nat
    BY <1>1, <2>5 DEF Follows, ChainOK
  <2>7. next \in ChainRecord
    BY <2>4, <2>6, Zenon DEF ChainRecord
  <2>8. /\ next.code = mid.code /\ next.constr = mid.constr /\ next.used = mid.used
        /\ next.size = mid.size /\ next.length = mid.length /\ next.step = start
        /\ next.nulls = 0
    BY <1>1, <2>4, <2>6 DEF ChainRecord
  <2> QED BY <2>5, <2>7, <2>8 DEF Follows, ChainOK
<1> QED BY <1>4, <1>5

FirstOf(mode, start) == start + (IF mode = 1 THEN -1 ELSE 0)

\* ber_check_tags answers with no more octets consumed than it was given and a step
\* between the one it resumed at and the number of tags; a primitive form has a definite length.
THEOREM CheckTagsBounds ==
  ASSUME NEW w \in Seq(Octet), NEW tags, Len(tags) \in Nat, NEW mode \in {-1, 0, 1}, NEW form,
         NEW start \in Nat, NEW saves \in BOOLEAN, FirstOf(mode, start) <= Len(tags)
  PROVE  AnswerOK(CheckTags(tags, mode, form, start, saves, w), w,
                  start .. start + Len(tags) - FirstOf(mode, start))
<1> DEFINE ty == [tags |-> tags, mode |-> mode, form |-> form]
           first == FirstOf(mode, start)
           fresh == Fresh(start, w)
           steps == start .. start + Len(tags) - first
           chain == IF mode = 0 /\ first = Len(tags) THEN AnyTag(fresh, w, FetchTag(w))
                    ELSE Chain(ty, first, fresh, w)
<1>1. CheckTags(tags, mode, form, start, saves, w) = Checked(chain, saves)
  BY DEF CheckTags, Fresh, FirstOf
<1>2. first \in Int /\ Len(ty.tags) - first \in Nat /\ ty.tags = tags
  BY DEF FirstOf
<1>3. ChainOK(fresh, w) /\ fresh.step = start
  BY FreshOK DEF Fresh
<1>4. ChainOK(chain, w) /\ chain.step \in steps
  <2>1. CASE mode = 0 /\ first = Len(tags)
    BY <1>2, <2>1, AnyTagOK
  <2>2. CASE ~(mode = 0 /\ first = Len(tags))
    <3> HIDE DEF ty, first, fresh
    <3>1. PICK f : ChainRun(f, ty, first, fresh, w)
      BY <1>2, <1>3, ChainUnfolds
    <3>2. chain = f[Len(ty.tags) - first] /\ Len(ty.tags) - first \in 0 .. Len(ty.tags) - first
      BY <1>2, <2>2, <3>1 DEF ChainRun
    <3>3. f[Len(ty.tags) - first].step \in fresh.step .. fresh.step + (Len(ty.tags) - first)
      BY <1>2, <3>1, <3>2, ChainRunSteps
    <3>4. ChainOK(chain, w)
      BY <3>1, <3>2 DEF ChainRun
    <3> HIDE DEF chain
    <3> QED BY <1>2, <1>3, <3>2, <3>3, <3>4
  <2> QED BY <2>1, <2>2
<1> HIDE DEF chain, steps
<1>5. AnswerOK(Checked(chain, saves), w, steps)
  BY <1>4, CheckedOK
<1> QED BY <1>1, <1>5 DEF steps

\* The last tag of a type that must be primitive is there, and followed by a definite
\* length.
LEMMA PrimitiveTags ==
  ASSUME NEW w \in Seq(Octet), NEW tags, Len(tags) \in Nat \ {0}, NEW mode \in {-1, 0, 1},
         NEW saves \in BOOLEAN,
         CheckTags(tags, mode, 0, 0, saves, w).code = "ok"
  PROVE  LET r == CheckTags(tags, mode, 0, 0, saves, w) IN r.length \in Nat /\ r.used > 0
<1> DEFINE ty == [tags |-> tags, mode |-> mode, form |-> 0]
           first == FirstOf(mode, 0)
           fresh == Fresh(0, w)
           n == Len(ty.tags) - first
           chain == Chain(ty, first, fresh, w)
<1>1. first \in Int /\ n \in Nat \ {0} /\ ty.tags = tags /\ ty.form = 0 /\ first # Len(tags)
  BY DEF FirstOf
<1>2. CheckTags(tags, mode, 0, 0, saves, w) = Checked(chain, saves)
  BY <1>1 DEF CheckTags, Fresh, FirstOf
<1>3. ChainOK(fresh, w)
  BY FreshOK
<1> HIDE DEF ty, first, fresh
<1>4. PICK f : ChainRun(f, ty, first, fresh, w)
  BY <1>1, <1>3, ChainUnfolds
<1>5. chain = f[n] /\ ChainOK(f[n], w)
  BY <1>1, <1>4 DEF ChainRun
<1>6. f[n].code = "ok"
  BY <1>2, <1>5 DEF Checked
<1>7. f[n].constr = 0
  BY <1>1, <1>4, <1>6, ChainRunForm
<1>8. f[n].nulls = 0 /\ f[n].length \in Nat /\ f[n].used > 0
  BY <1>5, <1>6, <1>7 DEF ChainOK
<1> HIDE DEF n, chain
<1> QED BY <1>2, <1>5, <1>8 DEF Checked

\* Where the first octet is not of a constructed form, a type without an explicit tag
\* is found as a primitive TLV of definite length, or no tag of it is settled.
LEMMA StringTags ==
  ASSUME NEW w \in Seq(Octet), w = <<>> \/ ~Constructed(w),
         NEW tags, Len(tags) \in Nat \ {0}, NEW mode \in {-1, 0}, NEW form,
         NEW saves \in BOOLEAN
  PROVE  LET r == CheckTags(tags, mode, form, 0, saves, w)
         IN  IF r.code = "ok" THEN r.length \in Nat /\ r.used > 0 ELSE r.step = 0 /\ r.used = 0
<1> DEFINE ty == [tags |-> tags, mode |-> mode, form |-> form]
           first == FirstOf(mode, 0)
           fresh == Fresh(0, w)
           n == Len(ty.tags) - first
           chain == Chain(ty, first, fresh, w)
           r == CheckTags(tags, mode, form, 0, saves, w)
<1>1. first = 0 /\ n = Len(tags) /\ n \in Nat \ {0} /\ ty.tags = tags
  BY DEF FirstOf
<1>2. r = Checked(chain, saves)
  BY <1>1 DEF CheckTags, Fresh, FirstOf
<1>3. /\ ChainOK(fresh, w) /\ fresh.code = "ok" /\ fresh.used = 0 /\ fresh.step = 0
      /\ fresh.size = Len(w) /\ Len(w) \in Nat
  BY FreshOK DEF Fresh
<1> HIDE DEF ty, first, fresh
<1>4. PICK f : ChainRun(f, ty, first, fresh, w)
  BY <1>1, <1>3, ChainUnfolds
<1>5. chain = f[n] /\ ChainOK(f[n], w)
  BY <1>1, <1>4 DEF ChainRun
<1> DEFINE rest == SubSeq(w, fresh.used + 1, fresh.used + fresh.size)
<1>6. /\ f[1] = CheckTag(ty, fresh, 0, rest)
      /\ rest \in Seq(Octet) /\ Len(rest) = Len(w) /\ \A k \in 1 .. Len(w) : rest[k] = w[k]
  <2>1. f[1] = NextOf(ty, first, w, 1, f[0]) /\ f[0] = fresh
    BY <1>1, <1>4 DEF ChainRun
  <2> QED BY <1>1, <1>3, <2>1, RestOK DEF NextOf
<1>7. Form(rest) = 0
  BY <1>6, SMTT(20) DEF Form, Constructed
<1> HIDE DEF rest, n, chain, r
<1>8. Follows(fresh, f[1], 0, w) /\ (f[1].code = "ok" => FormAccepted(ty, 0, 0))
  BY <1>3, <1>6, <1>7, CheckTagOK
<1>9. CASE n = 1
  <2>1. chain = f[1]
    BY <1>5, <1>9
  <2>2. f[1].code = "ok" => f[1].nulls = 0 /\ f[1].length \in Nat /\ f[1].used > 0
    BY <1>8 DEF Follows, ChainOK
  <2>3. f[1].code # "ok" => f[1].used = 0 /\ f[1].step = 0
    BY <1>3, <1>8 DEF Follows, Stays
  <2> QED BY <1>2, <2>1, <2>2, <2>3 DEF Checked, r
<1>10. CASE n # 1
  <2>1. f[1].code # "ok" /\ f[1].used = 0 /\ f[1].step = 0
    BY <1>1, <1>3, <1>8, <1>10 DEF FormAccepted, Follows, Stays
  <2> DEFINE holds == {i \in Nat : f[i + 1] = f[1]}
  <2>2. 0 \in holds
    OBVIOUS
  <2>3. ASSUME NEW i \in 0 .. n - 1 - 1, i \in holds PROVE i + 1 \in holds
    <3>1. i + 2 \in 1 .. n /\ i + 2 - 1 = i + 1 /\ i + 1 + 1 = i + 2
      BY <1>1
    <3>2. f[i + 2] = NextOf(ty, first, w, i + 2, f[i + 1])
      BY <1>1, <1>4, <3>1 DEF ChainRun
    <3>3. f[i + 2] = f[i + 1]
      BY <2>1, <2>3, <3>2 DEF NextOf, CheckTag
    <3> QED BY <2>3, <3>1, <3>3
  <2>4. n - 1 \in Nat /\ n - 1 \in 0 .. n - 1 /\ n - 1 + 1 = n
    BY <1>1, <1>10
  <2>5. n - 1 \in holds
    <3> HIDE DEF holds
    <3> QED BY <2>2, <2>3, <2>4, UpTo
  <2>6. chain = f[1]
    BY <1>5, <2>4, <2>5
  <2> QED BY <1>2, <2>1, <2>6 DEF Checked, r
<1> QED BY <1>9, <1>10

\* One tag, not an explicit one: what was read is its form and its length, which is
\* definite unless the form is constructed; or else nothing was.
LEMMA OneTag ==
  ASSUME NEW w \in Seq(Octet), NEW tags, Len(tags) = 1, NEW form
  PROVE  LET r == CheckTags(tags, 0, form, 0, TRUE, w)
         IN  /\ r.code \in {"ok", "more", "fail"} /\ r.used \in 0 .. Len(w)
             /\ r.step \in {0, 1}
             /\ r.code # "ok" => r.used = 0 /\ r.step = 0
             /\ r.code = "ok" =>
                  /\ r.constr \in {0, 1} /\ r.length \in -1 .. LengthTooLarge
                  /\ r.constr = 0 => r.length >= 0
<1> DEFINE ty == [tags |-> tags, mode |-> 0, form |-> form]
           fresh == Fresh(0, w)
           chain == Chain(ty, 0, fresh, w)
           r == CheckTags(tags, 0, form, 0, TRUE, w)
           rest == SubSeq(w, fresh.used + 1, fresh.used + fresh.size)
           constr == Form(rest)
<1>1. /\ ty.tags = tags /\ Len(ty.tags) - 0 = 1 /\ 0 \in Int /\ 1 \in Nat
      /\ Len(tags) \in Nat /\ 0 \in Nat /\ FirstOf(0, 0) = 0
  BY DEF FirstOf
<1>2. r = Checked(chain, TRUE)
  BY <1>1 DEF CheckTags, Fresh
<1>3. /\ ChainOK(fresh, w) /\ fresh.code = "ok" /\ fresh.used = 0 /\ fresh.step = 0
      /\ fresh.size = Len(w) /\ Len(w) \in Nat /\ fresh.limit = -1 /\ fresh.nulls = 0
  BY FreshOK DEF Fresh
<1>4. AnswerOK(r, w, 0 .. 0 + Len(tags) - FirstOf(0, 0))
  <2>1. 0 \in {-1, 0, 1} /\ TRUE \in BOOLEAN /\ FirstOf(0, 0) <= Len(tags)
    BY <1>1
  <2> QED BY <1>1, <2>1, CheckTagsBounds
<1> HIDE DEF ty, fresh, chain, r
<1>13. r.step \in {0, 1}
  BY <1>1, <1>4 DEF AnswerOK
<1>5. PICK f : ChainRun(f, ty, 0, fresh, w)
  BY <1>1, <1>3, ChainUnfolds
<1>6. chain = f[1] /\ f[0] = fresh /\ f[1] = NextOf(ty, 0, w, 1, f[0])
  <2>1. 1 \in 1 .. Len(ty.tags) - 0 /\ 1 - 1 = 0
    BY <1>1
  <2> QED BY <1>1, <1>5, <2>1 DEF ChainRun, chain
<1>7. chain = CheckTag(ty, fresh, 0, rest) /\ rest \in Seq(Octet) /\ Len(rest) = Len(w)
  BY <1>3, <1>6, RestOK DEF NextOf
<1>8. constr \in {0, 1} /\ (constr = 1) \in BOOLEAN
  BY FormType
<1> HIDE DEF rest, constr
<1>9. Follows(fresh, chain, constr, w)
  BY <1>3, <1>7, CheckTagOK DEF constr
<1>10. ASSUME chain.code # "ok" PROVE chain.used = 0 /\ chain.step = 0
  BY <1>3, <1>9, <1>10 DEF Follows, Stays
<1>11. ASSUME chain.code = "ok"
       PROVE  /\ r.constr = constr /\ r.length \in -1 .. LengthTooLarge
              /\ constr = 0 => r.length >= 0
  <2> DEFINE t == FetchTag(rest)
             l == FetchLength(constr = 1, From(rest, t.len + 1))
             header == t.len + l.len
  <2>1. chain = CheckT(ty, fresh, 0, rest, t, constr)
    BY <1>3, <1>7 DEF CheckTag, constr
  <2>2. ~(t.len <= 0) /\ chain = AfterT(fresh, t, constr, l)
    BY <1>3, <1>11, <2>1, StoppedChain DEF CheckT
  <2>3. t.len \in -1 .. Len(w)
    BY <1>7, FetchTagBounds
  <2>4. From(rest, t.len + 1) \in Seq(Octet) /\ Len(From(rest, t.len + 1)) = Len(w) - t.len
    <3>1. t.len + 1 \in 1 .. Len(rest) + 1
      BY <1>3, <1>7, <2>2, <2>3
    <3> QED BY <1>3, <1>7, <2>3, <3>1, FromProperties
  <2>5. /\ l.len \in -1 .. Len(w) - t.len
        /\ l.len > 0 => l.value \in Nat \cup {-1} /\ (l.value = -1 => constr = 1)
    BY <1>8, <2>4, FetchLengthBounds
  <2>6. l.len > 0 => LengthTooLarge \in Nat /\ l.value < LengthTooLarge
    BY <1>8, <2>4, FetchLengthLimit
  <2> HIDE DEF t, l
  <2>7. ~(l.len <= 0) /\ chain = CheckLength(fresh, header, l.value, constr)
    BY <1>3, <1>11, <2>2, StoppedChain DEF AfterT
  <2>8. l.len > 0 /\ header \in 1 .. fresh.size
    BY <1>3, <2>2, <2>3, <2>5, <2>7
  <2>9. l.value \in -1 .. LengthTooLarge /\ l.value \in Int /\ (constr = 0 => l.value >= 0)
    BY <2>5, <2>6, <2>8
  <2> HIDE DEF header
  <2>10. fresh \in ChainRecord
    BY <1>3 DEF ChainOK
  <2>11. PICK onward \in ChainRecord :
            /\ onward = Onward(fresh, header, l.value, constr)
            /\ onward.code = fresh.code /\ onward.constr = constr /\ onward.length = l.value
            /\ onward.used = fresh.used + header /\ onward.size = fresh.size - header
            /\ onward.step = fresh.step + 1 /\ onward.nulls = fresh.nulls
    BY <1>8, <2>8, <2>9, <2>10, OnwardRecord
  <2>12. CASE l.value = -1
    <3>1. chain = [onward EXCEPT !.nulls = @ + 1]
      BY <1>3, <2>7, <2>11, <2>12 DEF CheckLength
    <3>2. chain.nulls = 1 /\ chain.constr = constr
      BY <1>3, <2>11, <3>1 DEF ChainRecord
    <3>3. r.length = -1 /\ r.constr = constr
      BY <1>2, <3>2 DEF Checked
    <3> QED BY <2>9, <2>12, <3>3
  <2>13. CASE l.value # -1
    <3>1. chain = Limited(onward, l.value)
      BY <1>3, <1>11, <2>7, <2>11, <2>13, StoppedChain DEF CheckLength
    <3>2. l.value \in Nat
      BY <2>9, <2>13
    <3>3. PICK limited \in ChainRecord :
             /\ limited = Limited(onward, l.value)
             /\ limited.code = onward.code /\ limited.constr = onward.constr
             /\ limited.length = onward.length /\ limited.used = onward.used
             /\ limited.size <= onward.size
             /\ limited.step = onward.step /\ limited.nulls = onward.nulls
      BY <3>2, LimitedRecord
    <3>4. r.length = l.value /\ r.constr = constr
      BY <1>2, <1>3, <2>11, <3>1, <3>3 DEF Checked
    <3> QED BY <2>9, <3>4
  <2> QED BY <2>12, <2>13
<1>12. r.code = chain.code /\ r.used = chain.used /\ r.step = chain.step
  BY <1>2, <1>10 DEF Checked
<1> QED BY <1>4, <1>8, <1>10, <1>11, <1>12, <1>13 DEF AnswerOK, r
=============================================================================
