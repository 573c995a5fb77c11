------------------------- MODULE DecodeDriverProofs -------------------------
(***************************************************************************)
(* For octets of any width, buffers and files of any size and any number   *)
(* of them: the DynamicBuffer of the converter gives the decoder the bits  *)
(* of the file that no call has consumed, all of them and in order.        *)
(***************************************************************************)
EXTENDS DecodeDriver, SequenceTheorems, TLAPS

-----------------------------------------------------------------------------
(***************************************************************************)
(* Octets and bits.                                                        *)
(***************************************************************************)
LEMMA WholeOctets ==
  ASSUME NEW x \in Nat
  PROVE  /\ x \div CHAR_BIT \in Nat /\ x % CHAR_BIT \in 0 .. CHAR_BIT - 1
         /\ x = CHAR_BIT * (x \div CHAR_BIT) + (x % CHAR_BIT)
         /\ CHAR_BIT * x \in Nat /\ (CHAR_BIT * x) \div CHAR_BIT = x
BY BoundsAssumption

\* Octets in bits: sums and differences.
LEMMA OctetsAdd ==
  ASSUME NEW x \in Int, NEW y \in Int
  PROVE  /\ CHAR_BIT * (x + y) = CHAR_BIT * x + CHAR_BIT * y
         /\ CHAR_BIT * (x - y) = CHAR_BIT * x - CHAR_BIT * y
         /\ CHAR_BIT * x \in Int
BY BoundsAssumption

\* Octets in bits: order.
LEMMA OctetsMonotone ==
  ASSUME NEW x \in Int, NEW y \in Int
  PROVE  /\ x <= y <=> CHAR_BIT * x <= CHAR_BIT * y
         /\ x >= 1 => CHAR_BIT * x >= CHAR_BIT
BY BoundsAssumption

-----------------------------------------------------------------------------
(***************************************************************************)
(* memcpy, memmove and the shift, cell by cell.                            *)
(***************************************************************************)
LEMMA PartOfCells ==
  ASSUME NEW s \in Seq(Int), NEW a \in Nat, NEW b \in Nat, a <= b, b <= Len(s)
  PROVE  /\ SubSeq(s, a + 1, b) \in Seq(Int) /\ Len(SubSeq(s, a + 1, b)) = b - a
         /\ \A i \in 1 .. b - a : SubSeq(s, a + 1, b)[i] = s[a + i]
<1>1. Len(s) \in Nat /\ \A k \in a + 1 .. b : s[k] \in Int
  OBVIOUS
<1>2. /\ SubSeq(s, a + 1, b) \in Seq(Int)
      /\ Len(SubSeq(s, a + 1, b)) = IF a + 1 <= b THEN b - (a + 1) + 1 ELSE 0
      /\ \A i \in 1 .. b - (a + 1) + 1 : SubSeq(s, a + 1, b)[i] = s[a + 1 + i - 1]
  BY <1>1, SubSeqProperties
<1> QED BY <1>1, <1>2

\* A fresh allocation.
LEMMA ZerosType ==
  ASSUME NEW n \in Nat
  PROVE  Zeros(n) \in Seq(Int) /\ Len(Zeros(n)) = n /\ \A i \in 1 .. n : Zeros(n)[i] = 0
BY DEF Zeros

\* A stretch of the file.
LEMMA BitsType ==
  ASSUME NEW from \in Nat, NEW n \in Nat
  PROVE  /\ Bits(from, from + n) \in Seq(Int) /\ Len(Bits(from, from + n)) = n
         /\ \A i \in 1 .. n : Bits(from, from + n)[i] = from + i
<1>1. from + n - from = n
  OBVIOUS
<1> QED BY <1>1 DEF Bits

\* Two sequences of bits joined.
LEMMA Joining ==
  ASSUME NEW s \in Seq(Int), NEW t \in Seq(Int)
  PROVE  /\ s \o t \in Seq(Int) /\ Len(s \o t) = Len(s) + Len(t)
         /\ \A i \in 1 .. Len(s) : (s \o t)[i] = s[i]
         /\ \A i \in Len(s) + 1 .. Len(s) + Len(t) : (s \o t)[i] = t[i - Len(s)]
OBVIOUS

\* n cells from start on are overwritten by those that follow them up to end; the
\* cells from end on are overwritten by those of bits.
Without(s, start, n, end) ==
  SubSeq(s, 0 + 1, start) \o SubSeq(s, start + n + 1, end) \o Zeros(n)
    \o SubSeq(s, end + 1, Len(s))

IsWithout(t, s, start, n, end) ==
  /\ t \in Seq(Int) /\ Len(t) = Len(s)
  /\ \A i \in 1 .. start : t[i] = s[i]
  /\ \A i \in start + 1 .. end - n : t[i] = s[i + n]

Overwritten(s, end, bits) ==
  SubSeq(s, 0 + 1, end) \o bits \o SubSeq(s, end + Len(bits) + 1, Len(s))

IsOverwritten(t, s, end, bits) ==
  /\ t \in Seq(Int) /\ Len(t) = Len(s)
  /\ \A i \in 1 .. end : t[i] = s[i]
  /\ \A i \in 1 .. Len(bits) : t[end + i] = bits[i]

\* memmove: the cells after the shift, one by one.
LEMMA ShiftCells ==
  ASSUME NEW s \in Seq(Int), NEW start \in Nat, NEW n \in Nat, NEW end \in Nat,
         start + n <= end, end <= Len(s)
  PROVE  IsWithout(Without(s, start, n, end), s, start, n, end)
<1> DEFINE a == SubSeq(s, 0 + 1, start)
           b == SubSeq(s, start + n + 1, end)
           z == Zeros(n)
           c == SubSeq(s, end + 1, Len(s))
<1>0. Len(s) \in Nat /\ 0 \in Nat
  OBVIOUS
<1>1. a \in Seq(Int) /\ Len(a) = start /\ \A i \in 1 .. start : a[i] = s[i]
  <2>1. /\ SubSeq(s, 0 + 1, start) \in Seq(Int) /\ Len(SubSeq(s, 0 + 1, start)) = start - 0
        /\ \A i \in 1 .. start - 0 : SubSeq(s, 0 + 1, start)[i] = s[0 + i]
    BY <1>0, PartOfCells
  <2> QED BY <2>1
<1>2. /\ b \in Seq(Int) /\ Len(b) = end - (start + n)
      /\ \A i \in 1 .. end - (start + n) : b[i] = s[start + n + i]
  BY <1>0, PartOfCells
<1>3. z \in Seq(Int) /\ Len(z) = n
  BY ZerosType
<1>4. c \in Seq(Int) /\ Len(c) = Len(s) - end
  BY <1>0, PartOfCells
<1> HIDE DEF a, b, z, c
<1>5. /\ a \o b \in Seq(Int) /\ Len(a \o b) = end - n
      /\ \A i \in 1 .. start : (a \o b)[i] = s[i]
      /\ \A i \in start + 1 .. end - n : (a \o b)[i] = s[i + n]
  <2>1. /\ a \o b \in Seq(Int) /\ Len(a \o b) = Len(a) + Len(b)
        /\ \A i \in 1 .. Len(a) : (a \o b)[i] = a[i]
        /\ \A i \in Len(a) + 1 .. Len(a) + Len(b) : (a \o b)[i] = b[i - Len(a)]
    BY <1>1, <1>2, Joining
  <2>2. Len(a) + Len(b) = end - n
    BY <1>1, <1>2
  <2>3. ASSUME NEW i \in start + 1 .. end - n PROVE (a \o b)[i] = s[i + n]
    <3>1. i - start \in 1 .. end - (start + n) /\ start + n + (i - start) = i + n
      OBVIOUS
    <3>2. (a \o b)[i] = b[i - start]
      BY <1>1, <1>2, <2>1, <2>2
    <3> QED BY <1>2, <3>1, <3>2
  <2> QED BY <1>1, <2>1, <2>2, <2>3
<1>6. /\ (a \o b) \o z \in Seq(Int) /\ Len((a \o b) \o z) = end
      /\ \A i \in 1 .. end - n : ((a \o b) \o z)[i] = (a \o b)[i]
  <2> DEFINE ab == a \o b
  <2>1. ab \in Seq(Int) /\ Len(ab) = end - n
    BY <1>5
  <2> HIDE DEF ab
  <2>2. /\ ab \o z \in Seq(Int) /\ Len(ab \o z) = Len(ab) + Len(z)
        /\ \A i \in 1 .. Len(ab) : (ab \o z)[i] = ab[i]
    BY <1>3, <2>1, Joining
  <2>3. Len(ab) + Len(z) = end
    BY <1>3, <2>1
  <2> QED BY <2>1, <2>2, <2>3 DEF ab
<1>7. /\ ((a \o b) \o z) \o c \in Seq(Int) /\ Len(((a \o b) \o z) \o c) = Len(s)
      /\ \A i \in 1 .. end : (((a \o b) \o z) \o c)[i] = ((a \o b) \o z)[i]
  <2> DEFINE abz == (a \o b) \o z
  <2>1. abz \in Seq(Int) /\ Len(abz) = end
    BY <1>6
  <2> HIDE DEF abz
  <2>2. /\ abz \o c \in Seq(Int) /\ Len(abz \o c) = Len(abz) + Len(c)
        /\ \A i \in 1 .. Len(abz) : (abz \o c)[i] = abz[i]
    BY <1>4, <2>1, Joining
  <2>3. Len(abz) + Len(c) = Len(s)
    BY <1>0, <1>4, <2>1
  <2> QED BY <2>1, <2>2, <2>3 DEF abz
<1>8. /\ \A i \in 1 .. start : (((a \o b) \o z) \o c)[i] = s[i]
      /\ \A i \in start + 1 .. end - n : (((a \o b) \o z) \o c)[i] = s[i + n]
  <2> DEFINE ab == a \o b
             abz == (a \o b) \o z
             abzc == ((a \o b) \o z) \o c
  <2>1. /\ \A i \in 1 .. start : ab[i] = s[i]
        /\ \A i \in start + 1 .. end - n : ab[i] = s[i + n]
        /\ \A i \in 1 .. end - n : abz[i] = ab[i]
        /\ \A i \in 1 .. end : abzc[i] = abz[i]
    BY <1>5, <1>6, <1>7
  <2> HIDE DEF ab, abz, abzc
  <2>2. ASSUME NEW i \in 1 .. end - n PROVE abzc[i] = ab[i]
    <3>1. i \in 1 .. end
      OBVIOUS
    <3> QED BY <2>1, <3>1
  <2>3. ASSUME NEW i \in 1 .. start PROVE abzc[i] = s[i]
    <3>1. i \in 1 .. end - n
      OBVIOUS
    <3> QED BY <2>1, <2>2, <3>1
  <2>4. ASSUME NEW i \in start + 1 .. end - n PROVE abzc[i] = s[i + n]
    <3>1. i \in 1 .. end - n
      OBVIOUS
    <3> QED BY <2>1, <2>2, <3>1
  <2> QED BY <2>3, <2>4 DEF abzc
<1>9. Without(s, start, n, end) = ((a \o b) \o z) \o c
  BY DEF Without, a, b, z, c
<1> QED BY <1>7, <1>8, <1>9 DEF IsWithout

\* memcpy: the cells after the copy, one by one.
LEMMA CopyCells ==
  ASSUME NEW s \in Seq(Int), NEW bits \in Seq(Int), NEW end \in Nat,
         end + Len(bits) <= Len(s)
  PROVE  IsOverwritten(Overwritten(s, end, bits), s, end, bits)
<1> DEFINE a == SubSeq(s, 0 + 1, end)
           c == SubSeq(s, end + Len(bits) + 1, Len(s))
           ab == a \o bits
<1>0. Len(s) \in Nat /\ 0 \in Nat /\ Len(bits) \in Nat
  OBVIOUS
<1>1. a \in Seq(Int) /\ Len(a) = end /\ \A i \in 1 .. end : a[i] = s[i]
  <2>1. /\ SubSeq(s, 0 + 1, end) \in Seq(Int) /\ Len(SubSeq(s, 0 + 1, end)) = end - 0
        /\ \A i \in 1 .. end - 0 : SubSeq(s, 0 + 1, end)[i] = s[0 + i]
    BY <1>0, PartOfCells
  <2> QED BY <2>1
<1>2. c \in Seq(Int) /\ Len(c) = Len(s) - (end + Len(bits))
  BY <1>0, PartOfCells
<1> HIDE DEF a, c
<1>3. /\ ab \in Seq(Int) /\ Len(ab) = end + Len(bits)
      /\ \A i \in 1 .. end : ab[i] = s[i]
      /\ \A i \in 1 .. Len(bits) : ab[end + i] = bits[i]
  <2>1. /\ a \o bits \in Seq(Int) /\ Len(a \o bits) = Len(a) + Len(bits)
        /\ \A i \in 1 .. Len(a) : (a \o bits)[i] = a[i]
        /\ \A i \in Len(a) + 1 .. Len(a) + Len(bits) : (a \o bits)[i] = bits[i - Len(a)]
    BY <1>1, Joining
  <2>2. ASSUME NEW i \in 1 .. Len(bits) PROVE ab[end + i] = bits[i]
    <3>1. end + i \in end + 1 .. end + Len(bits) /\ end + i - end = i
      BY <1>0
    <3> QED BY <1>1, <2>1, <3>1, SMTT(20)
  <2> QED BY <1>1, <2>1, <2>2
<1> HIDE DEF ab
<1>4. /\ ab \o c \in Seq(Int) /\ Len(ab \o c) = Len(s)
      /\ \A i \in 1 .. Len(ab) : (ab \o c)[i] = ab[i]
  BY <1>0, <1>2, <1>3, Joining, SMTT(20)
<1>5. /\ \A i \in 1 .. end : (ab \o c)[i] = s[i]
      /\ \A i \in 1 .. Len(bits) : (ab \o c)[end + i] = bits[i]
  BY <1>0, <1>3, <1>4
<1>6. Overwritten(s, end, bits) = ab \o c
  BY DEF Overwritten, a, ab, c
<1> QED BY <1>4, <1>5, <1>6 DEF IsOverwritten

-----------------------------------------------------------------------------
(***************************************************************************)
(* The buffer.  Its contents are the octets from offset on; as many of     *)
(* their last bits as unbits says are not in use.                          *)
(***************************************************************************)
BufferType ==
  [data : Seq(Int), offset : Nat, length : Nat, unbits : 0 .. CHAR_BIT - 1,
   allocated : Nat, bytes_shifted : Nat]

BufferOK(d) ==
  /\ d \in BufferType
  /\ Len(d.data) = CHAR_BIT * d.allocated
  /\ d.offset + d.length <= d.allocated
  /\ d.unbits > 0 => d.length > 0

Room(d) == CHAR_BIT * d.length - d.unbits

\* The bits of the file behind the first from, up to bit number upto.
Holds(d, from, upto) ==
  /\ Room(d) = upto - from
  /\ \A i \in 1 .. upto - from : d.data[CHAR_BIT * d.offset + i] = from + i

\* The fields of a buffer that is in order.
LEMMA BufferFields ==
  ASSUME NEW d, BufferOK(d)
  PROVE  /\ d.data \in Seq(Int) /\ d.offset \in Nat /\ d.length \in Nat
         /\ d.unbits \in 0 .. CHAR_BIT - 1 /\ d.unbits \in Nat
         /\ d.allocated \in Nat /\ d.bytes_shifted \in Nat
         /\ Len(d.data) \in Nat /\ CHAR_BIT \in Nat /\ CHAR_BIT > 0
         /\ CHAR_BIT * d.offset \in Nat /\ CHAR_BIT * d.length \in Nat
         /\ CHAR_BIT * d.allocated \in Nat
         /\ CHAR_BIT * (d.offset + d.length) = CHAR_BIT * d.offset + CHAR_BIT * d.length
         /\ CHAR_BIT * (d.offset + d.length) <= Len(d.data)
         /\ d.unbits <= CHAR_BIT * d.length /\ Room(d) \in Nat
<1>1. /\ d.data \in Seq(Int) /\ d.offset \in Nat /\ d.length \in Nat
      /\ d.unbits \in 0 .. CHAR_BIT - 1 /\ d.allocated \in Nat /\ d.bytes_shifted \in Nat
  BY DEF BufferOK, BufferType
<1>2. CHAR_BIT \in Nat /\ CHAR_BIT > 0 /\ d.unbits \in Nat /\ Len(d.data) \in Nat
  BY <1>1, BoundsAssumption
<1>3. /\ CHAR_BIT * d.offset \in Nat /\ CHAR_BIT * d.length \in Nat
      /\ CHAR_BIT * d.allocated \in Nat
  BY <1>1, WholeOctets
<1>4. CHAR_BIT * (d.offset + d.length) = CHAR_BIT * d.offset + CHAR_BIT * d.length
  <2>1. d.offset \in Int /\ d.length \in Int
    BY <1>1
  <2> QED BY <2>1, OctetsAdd, Zenon
<1>5. CHAR_BIT * (d.offset + d.length) <= CHAR_BIT * d.allocated
  BY <1>1, OctetsMonotone DEF BufferOK
<1>6. d.unbits > 0 => CHAR_BIT * d.length >= CHAR_BIT
  BY <1>1, OctetsMonotone DEF BufferOK
<1>7. d.unbits <= CHAR_BIT * d.length
  BY <1>1, <1>2, <1>3, <1>6
<1> QED BY <1>1, <1>2, <1>3, <1>4, <1>5, <1>7, SMTT(20) DEF BufferOK, Room

\* The first cell that buffer_shift_left overwrites is the one behind this.
ShiftStart(d, at, bits) ==
  CHAR_BIT * (d.offset + at) - (IF at > 0 THEN bits ELSE 0)

IsCut(r, d, start, bits) ==
  /\ BufferOK(r) /\ r.offset = d.offset /\ r.allocated = d.allocated
  /\ r.bytes_shifted + r.length = d.bytes_shifted + d.length
  /\ r.bytes_shifted >= d.bytes_shifted
  /\ Room(r) = Room(d) - bits
  /\ \A i \in 1 .. start : r.data[i] = d.data[i]
  /\ \A i \in start + 1 .. CHAR_BIT * (d.offset + d.length) - bits :
       r.data[i] = d.data[i + bits]

\* buffer_shift_left takes bits out of the contents, before octet at or at their
\* beginning, and what an octet that becomes unused counted is counted as shifted.
LEMMA ShiftOK ==
  ASSUME NEW d, BufferOK(d), NEW at \in Nat, NEW bits \in 0 .. CHAR_BIT - 1,
         at <= d.length, at > 0 => d.unbits = 0, bits <= Room(d),
         NEW start, start = ShiftStart(d, at, bits),
         NEW r, r = BufferShiftLeft(d, at, bits)
  PROVE  IsCut(r, d, start, bits)
<1> DEFINE end == CHAR_BIT * (d.offset + d.length)
           off == CHAR_BIT * d.offset
           len == CHAR_BIT * d.length
           place == CHAR_BIT * (d.offset + at)
<1>1. /\ d.data \in Seq(Int) /\ Len(d.data) \in Nat /\ d.offset \in Nat /\ d.length \in Nat
      /\ d.unbits \in 0 .. CHAR_BIT - 1 /\ d.unbits \in Nat
      /\ d.allocated \in Nat /\ d.bytes_shifted \in Nat
      /\ CHAR_BIT \in Nat /\ CHAR_BIT > 0 /\ Room(d) \in Nat
      /\ off \in Nat /\ len \in Nat /\ end = off + len /\ end <= Len(d.data)
      /\ Room(d) = len - d.unbits
  BY BufferFields DEF Room
<1>2. d.length = 0 => len = 0
  BY <1>1
<1>3. /\ Len(d.data) = CHAR_BIT * d.allocated /\ d.offset + d.length <= d.allocated
      /\ d.unbits > 0 => d.length > 0
  BY Zenon DEF BufferOK
<1>4. place <= end /\ (at > 0 => place >= CHAR_BIT) /\ place \in Int /\ (at = 0 => place = off)
  <2>1. d.offset + at \in Int /\ d.offset + d.length \in Int /\ d.offset + at <= d.offset + d.length
    <3>1. d.offset \in Nat /\ d.length \in Nat
      BY <1>1
    <3> QED BY <3>1
  <2>2. place <= end
    BY <2>1, OctetsMonotone, Zenon
  <2>3. at > 0 => d.offset + at >= 1
    BY <1>1, SMTT(20)
  <2>4. at > 0 => place >= CHAR_BIT
    BY <2>1, <2>3, OctetsMonotone, Zenon
  <2>5. place \in Int
    <3>1. d.offset \in Int /\ at \in Int /\ d.offset + at + 0 = d.offset + at /\ 0 \in Int
      BY <1>1
    <3>2. CHAR_BIT * (d.offset + at) \in Int
      BY <2>1, OctetsAdd, Zenon
    <3> QED BY <3>2
  <2>6. at = 0 => place = off
    BY <1>1
  <2> QED BY <2>2, <2>4, <2>5, <2>6
<1>5. start = place - (IF at > 0 THEN bits ELSE 0)
  BY DEF ShiftStart
<1> HIDE DEF end, off, len, place
<1> SUFFICES
      /\ BufferOK(r) /\ r.offset = d.offset /\ r.allocated = d.allocated
      /\ r.bytes_shifted + r.length = d.bytes_shifted + d.length
      /\ r.bytes_shifted >= d.bytes_shifted
      /\ Room(r) = Room(d) - bits
      /\ \A i \in 1 .. start : r.data[i] = d.data[i]
      /\ \A i \in start + 1 .. end - bits : r.data[i] = d.data[i + bits]
  BY Zenon DEF IsCut, end
<1>6. bits \in Nat /\ end \in Nat
  BY <1>1
<1>7. /\ d.length \in Nat /\ d.bytes_shifted \in Nat /\ d.allocated \in Nat
      /\ d.offset \in Nat
  BY <1>1
<1>8. /\ CHAR_BIT \in Nat /\ d.unbits \in Nat /\ d.unbits < CHAR_BIT
      /\ bits \in Nat /\ bits < CHAR_BIT
  BY <1>1
<1>9. start \in Nat /\ start + bits <= end
  BY <1>1, <1>6, <1>4, <1>5
<1>10. CASE bits = 0
  <2>1. r = d
    BY <1>10 DEF BufferShiftLeft
  <2>2. Room(d) - 0 = Room(d) /\ \A i \in start + 1 .. end - bits : i + 0 = i
    BY <1>1, <1>6, <1>9
  <2> QED BY <1>7, <1>10, <2>1, <2>2
<1>11. CASE bits # 0
  <2> DEFINE t == ShiftedBits(d, at, bits)
             e == [d EXCEPT !.data = t]
  <2>1. /\ t \in Seq(Int) /\ Len(t) = Len(d.data)
        /\ \A i \in 1 .. start : t[i] = d.data[i]
        /\ \A i \in start + 1 .. end - bits : t[i] = d.data[i + bits]
    <3>0. start = CHAR_BIT * (d.offset + at) - (IF at > 0 THEN bits ELSE 0)
      BY DEF ShiftStart
    <3>1. t = Without(d.data, start, bits, end)
      BY <3>0, Zenon DEF ShiftedBits, Cells, Without, end
    <3>2. d.data \in Seq(Int) /\ start \in Nat /\ bits \in Nat /\ end \in Nat
      BY <1>1, <1>6, <1>9
    <3>3. start + bits <= end /\ end <= Len(d.data)
      BY <1>1, <1>9
    <3>4. IsWithout(Without(d.data, start, bits, end), d.data, start, bits, end)
      BY <3>2, <3>3, ShiftCells
    <3> HIDE DEF t
    <3> QED BY <3>1, <3>4 DEF IsWithout
  <2> HIDE DEF t
  <2>2. /\ e \in BufferType /\ e.data = t /\ e.offset = d.offset /\ e.length = d.length
        /\ e.unbits = d.unbits /\ e.allocated = d.allocated
        /\ e.bytes_shifted = d.bytes_shifted
    <3>1. e \in BufferType
      BY <2>1, Zenon DEF BufferType, BufferOK
    <3> QED BY <3>1 DEF BufferType, BufferOK
  <2> HIDE DEF e
  <2>3. r = Unused(e, bits)
    BY <1>11 DEF BufferShiftLeft, e, t
  <2>4. CASE d.unbits = 0 \/ d.unbits + bits < CHAR_BIT
    <3>1. r = [e EXCEPT !.unbits = @ + bits]
      BY <2>2, <2>3, <2>4 DEF Unused
    <3>2. e.unbits + bits \in 0 .. CHAR_BIT - 1
      BY <1>1, <1>6, <2>2, <2>4
    <3>3. r \in BufferType
      BY <2>2, <3>1, <3>2, Zenon DEF BufferType
    <3>4. /\ r.data = t /\ r.offset = d.offset /\ r.length = d.length
          /\ r.unbits = d.unbits + bits /\ r.allocated = d.allocated
          /\ r.bytes_shifted = d.bytes_shifted
      BY <2>2, <3>1 DEF BufferType
    <3>5. Room(r) = Room(d) - bits
      <4>1. Room(r) = len - (d.unbits + bits)
        BY <3>4 DEF Room, len
      <4> QED BY <1>1, <1>6, <4>1
    <3>6. d.length > 0
      BY <1>1, <1>6, <1>11, <1>2, SMTT(20)
    <3>7. Len(r.data) = CHAR_BIT * r.allocated
      BY <1>3, <2>1, <3>4, Zenon
    <3>8. r.offset + r.length <= r.allocated /\ (r.unbits > 0 => r.length > 0)
      BY <1>1, <1>6, <1>3, <3>4, <3>6
    <3>9. BufferOK(r)
      BY <3>3, <3>7, <3>8 DEF BufferOK
    <3>10. /\ r.bytes_shifted + r.length = d.bytes_shifted + d.length
           /\ r.bytes_shifted >= d.bytes_shifted
      BY <1>1, <3>4
    <3> QED BY <2>1, <3>4, <3>5, <3>9, <3>10
  <2>5. CASE ~(d.unbits = 0 \/ d.unbits + bits < CHAR_BIT)
    <3>1. r = [e EXCEPT !.unbits = @ + bits - CHAR_BIT, !.length = @ - 1,
                        !.bytes_shifted = @ + 1]
      BY <2>2, <2>3, <2>5 DEF Unused
    <3>2. /\ e.unbits + bits - CHAR_BIT \in 0 .. CHAR_BIT - 1 /\ e.length - 1 \in Nat
          /\ e.bytes_shifted + 1 \in Nat
      <4>1. d.length > 0
        BY <1>1, <1>2, <1>3, <2>5
      <4>2. d.unbits + bits - CHAR_BIT \in 0 .. CHAR_BIT - 1
        BY <1>8, <2>5
      <4>3. d.length - 1 \in Nat /\ d.bytes_shifted + 1 \in Nat
        BY <1>1, <4>1
      <4> QED BY <2>2, <4>2, <4>3
    <3>3. r \in BufferType
      BY <2>2, <3>1, <3>2, Zenon DEF BufferType
    <3>4. /\ r.data = t /\ r.offset = d.offset /\ r.length = d.length - 1
          /\ r.unbits = d.unbits + bits - CHAR_BIT /\ r.allocated = d.allocated
          /\ r.bytes_shifted = d.bytes_shifted + 1
      BY <2>2, <3>1 DEF BufferType
    <3>5. CHAR_BIT * (d.length - 1) = len - CHAR_BIT
      BY <1>1 DEF len
    <3>6. Room(r) = Room(d) - bits
      <4>1. Room(r) = len - CHAR_BIT - (d.unbits + bits - CHAR_BIT)
        BY <3>4, <3>5 DEF Room
      <4> QED BY <1>1, <1>6, <4>1
    <3>7. d.length - 1 = 0 => len = CHAR_BIT
      BY <1>1 DEF len
    <3>8. r.unbits > 0 => r.length > 0
      BY <1>1, <1>6, <2>2, <3>2, <3>4, <3>7, SMTT(20)
    <3>9. Len(r.data) = CHAR_BIT * r.allocated
      BY <1>3, <2>1, <3>4, Zenon
    <3>10. r.offset + r.length <= r.allocated
      <4>1. d.offset + (d.length - 1) <= d.allocated
        BY <1>3, <1>7
      <4> QED BY <3>4, <4>1
    <3>11. BufferOK(r)
      BY <3>3, <3>8, <3>9, <3>10 DEF BufferOK
    <3>12. /\ r.bytes_shifted + r.length = d.bytes_shifted + d.length
           /\ r.bytes_shifted >= d.bytes_shifted
      BY <1>7, <3>4
    <3> QED BY <2>1, <3>4, <3>6, <3>11, <3>12
  <2> QED BY <2>4, <2>5
<1> QED BY <1>6, <1>10, <1>11

-----------------------------------------------------------------------------
(***************************************************************************)
(* add_bytes_to_buffer.                                                    *)
(***************************************************************************)
IsFront(t, s, off, len, rest) ==
  /\ t \in Seq(Int) /\ Len(t) = len + Len(rest)
  /\ \A i \in 1 .. len : t[i] = s[off + i]

\* Contents moved to the front of what follows them.
LEMMA FrontCells ==
  ASSUME NEW s \in Seq(Int), NEW off \in Nat, NEW len \in Nat, NEW rest \in Seq(Int),
         off + len <= Len(s)
  PROVE  IsFront(SubSeq(s, off + 1, off + len) \o rest, s, off, len, rest)
<1> DEFINE c == SubSeq(s, off + 1, off + len)
<1>1. c \in Seq(Int) /\ Len(c) = len /\ \A i \in 1 .. len : c[i] = s[off + i]
  <2>1. off <= off + len /\ off + len \in Nat /\ off + len - off = len
    OBVIOUS
  <2>2. /\ SubSeq(s, off + 1, off + len) \in Seq(Int)
        /\ Len(SubSeq(s, off + 1, off + len)) = off + len - off
        /\ \A i \in 1 .. off + len - off : SubSeq(s, off + 1, off + len)[i] = s[off + i]
    BY <2>1, PartOfCells
  <2> QED BY <2>1, <2>2
<1> HIDE DEF c
<1>2. /\ c \o rest \in Seq(Int) /\ Len(c \o rest) = Len(c) + Len(rest)
      /\ \A i \in 1 .. Len(c) : (c \o rest)[i] = c[i]
  BY <1>1, Joining
<1>3. IsFront(c \o rest, s, off, len, rest)
  BY <1>1, <1>2 DEF IsFront
<1> QED BY <1>3 DEF c

\* The contents have stayed, and as many octets find room behind them.
RoomMade(r, d, bytes) ==
  /\ BufferOK(r) /\ r.length = d.length /\ r.unbits = d.unbits
  /\ r.offset + r.length + bytes <= r.allocated
  /\ r.bytes_shifted + r.offset <= d.bytes_shifted + d.offset
  /\ r.bytes_shifted >= d.bytes_shifted
  /\ \A i \in 1 .. CHAR_BIT * d.length :
       r.data[CHAR_BIT * r.offset + i] = d.data[CHAR_BIT * d.offset + i]

\* buffer_make_room gives the room asked for and loses nothing.
LEMMA MakeRoomOK ==
  ASSUME NEW d, BufferOK(d), NEW bytes \in Nat
  PROVE  RoomMade(MakeRoom(d, bytes), d, bytes)
<1> DEFINE off == CHAR_BIT * d.offset
           len == CHAR_BIT * d.length
           end == CHAR_BIT * (d.offset + d.length)
<1>1. /\ d.data \in Seq(Int) /\ off \in Nat /\ len \in Nat /\ end = off + len
      /\ end <= Len(d.data) /\ Len(d.data) \in Nat
  BY BufferFields
<1>2. /\ d.length \in Nat /\ d.offset \in Nat /\ d.allocated \in Nat
      /\ d.bytes_shifted \in Nat /\ d.unbits \in 0 .. CHAR_BIT - 1
  BY BufferFields
<1>3. /\ d \in BufferType /\ Len(d.data) = CHAR_BIT * d.allocated
      /\ d.offset + d.length <= d.allocated /\ (d.unbits > 0 => d.length > 0)
  BY Zenon DEF BufferOK
<1>4. ASSUME NEW r, r.offset = 0, NEW rest, IsFront(r.data, d.data, off, len, rest)
      PROVE  \A i \in 1 .. CHAR_BIT * d.length :
               r.data[CHAR_BIT * r.offset + i] = d.data[CHAR_BIT * d.offset + i]
  <2>1. \A i \in 1 .. len : r.data[i] = d.data[off + i]
    BY <1>4 DEF IsFront
  <2>2. CHAR_BIT * r.offset = 0
    BY <1>4, BoundsAssumption
  <2>3. \A i \in 1 .. len : 0 + i = i
    BY <1>1
  <2> HIDE DEF off, len
  <2>4. \A i \in 1 .. len : r.data[0 + i] = d.data[off + i]
    BY <2>1, <2>3
  <2> QED BY <2>2, <2>4 DEF off, len
<1>5. Contents(d) = SubSeq(d.data, off + 1, off + len)
  <2>1. Contents(d) = SubSeq(d.data, off + 1, end)
    BY DEF Contents, Cells
  <2> QED BY <1>1, <2>1
<1>6. CASE d.allocated >= d.offset + d.length + bytes
  <2>1. MakeRoom(d, bytes) = d
    BY <1>6 DEF MakeRoom
  <2> QED BY <1>2, <1>6, <2>1 DEF RoomMade
<1>7. CASE ~(d.allocated >= d.offset + d.length + bytes) /\ bytes <= d.offset
  <2> DEFINE rest == SubSeq(d.data, len + 1, Len(d.data))
             t == SubSeq(d.data, off + 1, off + len) \o rest
             r == MakeRoom(d, bytes)
  <2>1. r = [d EXCEPT !.data = t, !.bytes_shifted = @ + d.offset, !.offset = 0]
    BY <1>5, <1>7 DEF MakeRoom, MovedToFront, Cells
  <2>2. rest \in Seq(Int) /\ Len(rest) = Len(d.data) - len
    <3> HIDE DEF off, len, end
    <3>1. len <= Len(d.data)
      BY <1>1
    <3> QED BY <1>1, <3>1, PartOfCells
  <2> HIDE DEF off, len, end, rest
  <2>3. IsFront(t, d.data, off, len, rest)
    <3>1. off + len <= Len(d.data)
      BY <1>1
    <3> QED BY <1>1, <2>2, <3>1, FrontCells
  <2>4. t \in Seq(Int) /\ Len(t) = len + Len(rest)
    BY <2>3 DEF IsFront
  <2>5. len + Len(rest) = Len(d.data)
    BY <1>1, <2>2
  <2> HIDE DEF t, r
  <2>6. d.bytes_shifted + d.offset \in Nat /\ 0 \in Nat
    BY <1>2
  <2>7. r \in BufferType
    BY <1>3, <2>1, <2>4, <2>6, Zenon DEF BufferType
  <2>8. /\ r.data = t /\ r.offset = 0 /\ r.length = d.length /\ r.unbits = d.unbits
        /\ r.allocated = d.allocated /\ r.bytes_shifted = d.bytes_shifted + d.offset
    BY <1>3, <2>1 DEF BufferType
  <2>9. r.offset + r.length + bytes <= r.allocated /\ r.offset + r.length <= r.allocated
    BY <1>2, <1>3, <1>7, <2>8
  <2>10. Len(r.data) = CHAR_BIT * r.allocated
    BY <1>3, <2>4, <2>5, <2>8, Zenon
  <2>11. BufferOK(r)
    BY <1>3, <2>7, <2>8, <2>9, <2>10, Zenon DEF BufferOK
  <2>12. \A i \in 1 .. CHAR_BIT * d.length :
           r.data[CHAR_BIT * r.offset + i] = d.data[CHAR_BIT * d.offset + i]
    BY <1>4, <2>3, <2>8
  <2>13. /\ r.bytes_shifted + r.offset <= d.bytes_shifted + d.offset
         /\ r.bytes_shifted >= d.bytes_shifted
    BY <1>2, <2>8
  <2>14. RoomMade(r, d, bytes)
    BY <2>8, <2>9, <2>11, <2>12, <2>13, Zenon DEF RoomMade
  <2> QED BY <2>14 DEF r
<1>8. CASE ~(d.allocated >= d.offset + d.length + bytes) /\ ~(bytes <= d.offset)
  <2> DEFINE newsize == 4 * d.allocated + bytes
             rest == Zeros(CHAR_BIT * (newsize - d.length))
             t == SubSeq(d.data, off + 1, off + len) \o rest
             r == MakeRoom(d, bytes)
  <2>1. r = [d EXCEPT !.data = t, !.offset = 0, !.allocated = newsize]
    BY <1>5, <1>8 DEF MakeRoom, Reallocated
  <2>2. newsize \in Nat /\ newsize - d.length \in Nat
    BY <1>2, <1>3, SMTT(20)
  <2>3. d.length + bytes <= newsize
    BY <1>2, <1>3
  <2> HIDE DEF newsize
  <2>4. /\ CHAR_BIT * (newsize - d.length) \in Nat
        /\ CHAR_BIT * (newsize - d.length) = CHAR_BIT * newsize - len
        /\ CHAR_BIT * newsize \in Nat
    <3>1. newsize \in Int /\ d.length \in Int
      BY <1>2, <2>2
    <3>2. CHAR_BIT * (newsize - d.length) = CHAR_BIT * newsize - CHAR_BIT * d.length
      BY <3>1, OctetsAdd, Zenon
    <3>3. CHAR_BIT * (newsize - d.length) \in Nat /\ CHAR_BIT * newsize \in Nat
      BY <2>2, WholeOctets, Zenon
    <3> QED BY <3>2, <3>3
  <2>5. rest \in Seq(Int) /\ Len(rest) = CHAR_BIT * (newsize - d.length)
    BY <2>4, ZerosType, Zenon
  <2>6. Len(rest) = CHAR_BIT * newsize - len
    BY <2>4, <2>5, Zenon
  <2> DEFINE all == CHAR_BIT * newsize
  <2>7. all \in Nat /\ Len(rest) = all - len
    BY <2>4, <2>6
  <2> HIDE DEF off, len, end, rest, all
  <2>8. IsFront(t, d.data, off, len, rest)
    <3>1. off + len <= Len(d.data)
      BY <1>1
    <3> QED BY <1>1, <2>5, <3>1, FrontCells
  <2>9. t \in Seq(Int) /\ Len(t) = len + Len(rest)
    BY <2>8 DEF IsFront
  <2>10. len + Len(rest) = all
    BY <1>1, <2>7
  <2> HIDE DEF t, r
  <2>11. 0 \in Nat
    OBVIOUS
  <2>12. r \in BufferType
    BY <1>3, <2>1, <2>2, <2>9, <2>11, Zenon DEF BufferType
  <2>13. /\ r.data = t /\ r.offset = 0 /\ r.length = d.length /\ r.unbits = d.unbits
         /\ r.allocated = newsize /\ r.bytes_shifted = d.bytes_shifted
    BY <1>3, <2>1 DEF BufferType
  <2>14. r.offset + r.length + bytes <= r.allocated /\ r.offset + r.length <= r.allocated
    BY <1>2, <2>2, <2>3, <2>13
  <2>15. Len(r.data) = CHAR_BIT * r.allocated
    BY <2>9, <2>10, <2>13, Zenon DEF all
  <2>16. BufferOK(r)
    BY <1>3, <2>12, <2>13, <2>14, <2>15, Zenon DEF BufferOK
  <2>17. \A i \in 1 .. CHAR_BIT * d.length :
           r.data[CHAR_BIT * r.offset + i] = d.data[CHAR_BIT * d.offset + i]
    BY <1>4, <2>8, <2>13
  <2>18. /\ r.bytes_shifted + r.offset <= d.bytes_shifted + d.offset
         /\ r.bytes_shifted >= d.bytes_shifted
    BY <1>2, <2>13
  <2>19. RoomMade(r, d, bytes)
    BY <2>13, <2>14, <2>16, <2>17, <2>18, Zenon DEF RoomMade
  <2> QED BY <2>19 DEF r
<1> QED BY <1>6, <1>7, <1>8

\* bits have been copied behind the contents.
IsAppended(a, g, bits, bytes) ==
  /\ BufferOK(a) /\ a.offset = g.offset /\ a.length = g.length + bytes
  /\ a.unbits = g.unbits /\ a.allocated = g.allocated
  /\ a.bytes_shifted = g.bytes_shifted
  /\ \A i \in 1 .. CHAR_BIT * (g.offset + g.length) : a.data[i] = g.data[i]
  /\ \A i \in 1 .. Len(bits) :
       a.data[CHAR_BIT * (g.offset + g.length) + i] = bits[i]

\* memcpy into the room that was made.
LEMMA AppendedOK ==
  ASSUME NEW g, BufferOK(g), NEW bytes \in Nat, NEW bits \in Seq(Int),
         Len(bits) = CHAR_BIT * bytes, g.offset + g.length + bytes <= g.allocated
  PROVE  IsAppended(Appended(g, bits), g, bits, bytes)
<1> DEFINE end == CHAR_BIT * (g.offset + g.length)
           t == Overwritten(g.data, end, bits)
           a == Appended(g, bits)
<1>1. /\ g.data \in Seq(Int) /\ g.length \in Nat /\ g.offset \in Nat
      /\ g.allocated \in Nat
  BY BufferFields
<1>2. /\ g \in BufferType /\ Len(g.data) = CHAR_BIT * g.allocated
      /\ (g.unbits > 0 => g.length > 0)
  BY Zenon DEF BufferOK
<1>3. end \in Nat /\ end + Len(bits) <= Len(g.data)
  <2> DEFINE oct == g.offset + g.length
  <2>1. oct \in Nat /\ oct + bytes <= g.allocated /\ oct + bytes \in Int
    BY <1>1
  <2> HIDE DEF oct
  <2>2. CHAR_BIT * oct \in Nat
    BY <2>1, WholeOctets, Zenon
  <2>3. CHAR_BIT * (oct + bytes) = CHAR_BIT * oct + CHAR_BIT * bytes
    <3>1. oct \in Int /\ bytes \in Int
      BY <2>1
    <3> QED BY <3>1, OctetsAdd, Zenon
  <2>4. CHAR_BIT * (oct + bytes) <= CHAR_BIT * g.allocated
    <3>1. g.allocated \in Int
      BY <1>1
    <3> QED BY <2>1, <3>1, OctetsMonotone, Zenon
  <2>5. CHAR_BIT * oct + Len(bits) <= Len(g.data)
    BY <1>2, <2>3, <2>4, Zenon
  <2> QED BY <2>2, <2>5 DEF oct
<1>4. Len(bits) \div CHAR_BIT = bytes
  BY WholeOctets, Zenon
<1>5. a = [g EXCEPT !.length = @ + bytes, !.data = t]
  BY <1>4 DEF Appended, Overwritten, Cells
<1> HIDE DEF end
<1>6. IsOverwritten(t, g.data, end, bits)
  BY <1>1, <1>3, CopyCells
<1>7. t \in Seq(Int) /\ Len(t) = Len(g.data)
  BY <1>6 DEF IsOverwritten
<1> HIDE DEF t, a
<1>8. g.length + bytes \in Nat
  BY <1>1
<1>9. a \in BufferType
  BY <1>2, <1>5, <1>7, <1>8, Zenon DEF BufferType
<1>10. /\ a.data = t /\ a.offset = g.offset /\ a.length = g.length + bytes
       /\ a.unbits = g.unbits /\ a.allocated = g.allocated
       /\ a.bytes_shifted = g.bytes_shifted
  BY <1>2, <1>5 DEF BufferType
<1>11. /\ a.offset + a.length <= a.allocated /\ (a.unbits > 0 => a.length > 0)
  <2>1. g.offset + (g.length + bytes) <= g.allocated
    BY <1>1
  <2>2. g.unbits > 0 => g.length + bytes > 0
    BY <1>1, <1>2
  <2> QED BY <1>10, <2>1, <2>2
<1>12. Len(a.data) = CHAR_BIT * a.allocated
  BY <1>2, <1>7, <1>10, Zenon
<1>13. BufferOK(a)
  BY <1>9, <1>11, <1>12, Zenon DEF BufferOK
<1>14. /\ \A i \in 1 .. end : a.data[i] = g.data[i]
       /\ \A i \in 1 .. Len(bits) : a.data[end + i] = bits[i]
  BY <1>6, <1>10 DEF IsOverwritten
<1> QED BY <1>10, <1>13, <1>14, Zenon DEF IsAppended, end, a

\* d after its first bits have been given up.
IsShifted(r, d, from, upto) ==
  /\ BufferOK(r) /\ Holds(r, from, upto)
  /\ r.offset = d.offset /\ r.allocated = d.allocated
  /\ r.bytes_shifted + r.length = d.bytes_shifted + d.length
  /\ r.bytes_shifted >= d.bytes_shifted

\* buffer_shift_left drops the bits asked for, and those only.
LEMMA ShiftHolds ==
  ASSUME NEW d, BufferOK(d), NEW from \in Nat, NEW upto \in Nat, Holds(d, from, upto),
         NEW bits \in 0 .. CHAR_BIT - 1, bits <= upto - from
  PROVE  IsShifted(BufferShiftLeft(d, 0, bits), d, from + bits, upto)
<1> DEFINE r == BufferShiftLeft(d, 0, bits)
           start == ShiftStart(d, 0, bits)
           off == CHAR_BIT * d.offset
           len == CHAR_BIT * d.length
           end == CHAR_BIT * (d.offset + d.length)
<1>1. /\ d.offset \in Nat /\ d.length \in Nat /\ d.bytes_shifted \in Nat
      /\ d.unbits \in Nat
  BY BufferFields
<1>2. off \in Nat /\ len \in Nat /\ end = off + len /\ Room(d) = len - d.unbits
  BY BufferFields DEF Room
<1>3. Room(d) = upto - from /\ \A i \in 1 .. upto - from : d.data[off + i] = from + i
  BY DEF Holds
<1>4. bits \in Nat
  BY BoundsAssumption
<1>5. start = off
  <2>1. start = CHAR_BIT * (d.offset + 0) - 0
    BY DEF ShiftStart
  <2>2. d.offset + 0 = d.offset
    BY <1>1
  <2>3. start = CHAR_BIT * d.offset - 0
    BY <2>1, <2>2, Zenon
  <2> HIDE DEF start
  <2>4. start = off - 0
    BY <2>3
  <2> HIDE DEF off
  <2> QED BY <1>2, <2>4
<1>6. /\ BufferOK(r) /\ r.offset = d.offset /\ r.allocated = d.allocated
      /\ r.bytes_shifted + r.length = d.bytes_shifted + d.length
      /\ r.bytes_shifted >= d.bytes_shifted
      /\ Room(r) = Room(d) - bits
      /\ \A i \in start + 1 .. end - bits : r.data[i] = d.data[i + bits]
  <2>1. 0 \in Nat /\ 0 <= d.length /\ ~(0 > 0) /\ bits <= Room(d)
    BY <1>1, <1>3
  <2> HIDE DEF start, r
  <2>2. start = ShiftStart(d, 0, bits) /\ r = BufferShiftLeft(d, 0, bits)
    BY DEF start, r
  <2>3. IsCut(r, d, start, bits)
    BY <2>1, <2>2, ShiftOK, Zenon
  <2> QED BY <2>3, Zenon DEF IsCut
<1> HIDE DEF r, start, off, len, end
<1>7. Room(r) = upto - (from + bits)
  BY <1>3, <1>4, <1>6
<1>8. ASSUME NEW i \in 1 .. upto - (from + bits) PROVE r.data[off + i] = from + bits + i
  <2>1. off + i \in start + 1 .. end - bits
    BY <1>1, <1>2, <1>3, <1>4, <1>5
  <2>2. r.data[off + i] = d.data[(off + i) + bits]
    BY <1>6, <2>1
  <2>3. i + bits \in 1 .. upto - from /\ (off + i) + bits = off + (i + bits)
        /\ from + (i + bits) = from + bits + i
    BY <1>2, <1>4
  <2> QED BY <1>3, <2>2, <2>3
<1>9. CHAR_BIT * r.offset = off
  BY <1>6 DEF off
<1>10. Holds(r, from + bits, upto)
  BY <1>7, <1>8, <1>9 DEF Holds
<1> QED BY <1>6, <1>10 DEF IsShifted, r

\* d and what has been added to it.
IsGrown(r, d, from, upto, bytes) ==
  /\ BufferOK(r) /\ Holds(r, from, upto)
  /\ r.bytes_shifted + r.offset + r.length
       <= d.bytes_shifted + d.offset + d.length + bytes
  /\ r.bytes_shifted >= d.bytes_shifted
  /\ bytes > 0 \/ d.allocated > 0 => r.allocated > 0

\* add_bytes_to_buffer adds the bytes that were read behind those it holds.
LEMMA AddBytesOK ==
  ASSUME NEW d, BufferOK(d), NEW from \in Nat, NEW mid \in Nat, NEW bytes \in Nat,
         Holds(d, from, mid)
  PROVE  IsGrown(AddBytesToBuffer(d, Bits(mid, mid + CHAR_BIT * bytes)), d,
                 from, mid + CHAR_BIT * bytes, bytes)
<1> DEFINE n == CHAR_BIT * bytes
           bits == Bits(mid, mid + n)
           r == AddBytesToBuffer(d, bits)
<1>1. /\ d.offset \in Nat /\ d.length \in Nat /\ d.bytes_shifted \in Nat
      /\ d.unbits \in Nat /\ d.allocated \in Nat /\ d.unbits < CHAR_BIT
      /\ CHAR_BIT \in Nat /\ Room(d) \in Nat
  BY BufferFields
<1>2. n \in Nat /\ n \div CHAR_BIT = bytes
  BY WholeOctets, Zenon
<1>3. bits \in Seq(Int) /\ Len(bits) = n /\ \A i \in 1 .. n : bits[i] = mid + i
  <2> HIDE DEF n
  <2> QED BY <1>2, BitsType
<1> HIDE DEF r, bits, n
<1>4. CASE bytes = 0
  <2>1. n = 0
    BY <1>4, BoundsAssumption DEF n
  <2>2. bits = <<>>
    BY <1>3, <2>1
  <2>3. r = d
    BY <2>2 DEF r, AddBytesToBuffer
  <2>4. mid + n = mid
    BY <2>1
  <2>5. d.bytes_shifted + d.offset + d.length
          <= d.bytes_shifted + d.offset + d.length + bytes
    BY <1>1
  <2>6. /\ d.bytes_shifted >= d.bytes_shifted
        /\ bytes > 0 \/ d.allocated > 0 => d.allocated > 0
    BY <1>1, <1>4
  <2>7. IsGrown(r, d, from, mid + n, bytes)
    BY <2>3, <2>4, <2>5, <2>6, Zenon DEF IsGrown
  <2> QED BY <2>7 DEF r, bits, n
<1>5. CASE bytes > 0
  <2> DEFINE g == MakeRoom(d, bytes)
             a == Appended(g, bits)
             a0 == [a EXCEPT !.unbits = 0]
             at == a.length - bytes
             off == CHAR_BIT * g.offset
             len == CHAR_BIT * d.length
             start == ShiftStart(a0, at, d.unbits)
  <2>1. n >= CHAR_BIT
    BY <1>5, OctetsMonotone DEF n
  <2>2. r = BufferShiftLeft(a0, at, d.unbits)
    <3>1. bits # <<>>
      <4>1. CHAR_BIT > 0
        BY BoundsAssumption
      <4>2. Len(bits) # 0
        BY <1>1, <1>2, <1>3, <2>1, <4>1
      <4>3. Len(<<>>) = 0
        OBVIOUS
      <4> QED BY <4>2, <4>3, Zenon
    <3> QED BY <1>2, <1>3, <3>1 DEF r, AddBytesToBuffer, Joined
  <2>3. RoomMade(g, d, bytes)
    BY MakeRoomOK
  <2> HIDE DEF g
  <2>4. IsAppended(a, g, bits, bytes)
    <3>1. BufferOK(g) /\ g.offset + g.length + bytes <= g.allocated
      BY <2>3 DEF RoomMade
    <3> QED BY <1>3, <3>1, AppendedOK, Zenon DEF n
  <2> HIDE DEF a
  <2>5. /\ BufferOK(g) /\ g.length = d.length
        /\ g.offset + g.length + bytes <= g.allocated
        /\ g.bytes_shifted + g.offset <= d.bytes_shifted + d.offset
        /\ g.bytes_shifted >= d.bytes_shifted
    BY <2>3 DEF RoomMade
  <2>6. /\ g.offset \in Nat /\ g.bytes_shifted \in Nat /\ g.allocated \in Nat
        /\ off \in Nat /\ CHAR_BIT * (g.offset + g.length) = off + CHAR_BIT * g.length
    BY <2>5, BufferFields, Zenon
  <2>7. /\ BufferOK(a) /\ a.offset = g.offset /\ a.length = d.length + bytes
        /\ a.allocated = g.allocated /\ a.bytes_shifted = g.bytes_shifted
        /\ a \in BufferType
    BY <2>4, <2>5 DEF IsAppended, BufferOK
  <2>8. len \in Nat /\ Room(d) = len - d.unbits /\ (d.length = 0 => d.unbits = 0)
    <3>1. d.unbits > 0 => d.length > 0
      BY Zenon DEF BufferOK
    <3>2. len \in Nat /\ Room(d) = len - d.unbits
      BY BufferFields DEF Room
    <3> QED BY <1>1, <3>1, <3>2
  <2>9. at = d.length
    BY <1>1, <2>7
  <2>10. /\ a0.data = a.data /\ a0.offset = g.offset /\ a0.length = d.length + bytes
         /\ a0.unbits = 0 /\ a0.allocated = g.allocated
         /\ a0.bytes_shifted = g.bytes_shifted
    BY <2>7 DEF BufferType
  <2>11. BufferOK(a0)
    <3>1. a0 \in BufferType
      <4>1. 0 \in 0 .. CHAR_BIT - 1
        BY BoundsAssumption
      <4> QED BY <2>7, <4>1, Zenon DEF BufferType
    <3>2. /\ Len(a.data) = CHAR_BIT * a.allocated /\ a.offset + a.length <= a.allocated
      BY <2>7, Zenon DEF BufferOK
    <3>3. ~(0 > 0)
      OBVIOUS
    <3> QED BY <2>7, <2>10, <3>1, <3>2, <3>3, Zenon DEF BufferOK
  <2>12. CHAR_BIT * (d.length + bytes) = len + n
    <3>1. d.length \in Int /\ bytes \in Int
      BY <1>1
    <3> QED BY <3>1, OctetsAdd, Zenon DEF n
  <2>13. CHAR_BIT * (g.offset + d.length) = off + len
    BY <2>5, <2>6
  <2>14. CHAR_BIT * (g.offset + (d.length + bytes)) = off + len + n
    <3>1. g.offset \in Int /\ d.length + bytes \in Int
      BY <1>1, <2>6
    <3>2. CHAR_BIT * (g.offset + (d.length + bytes)) = off + CHAR_BIT * (d.length + bytes)
      BY <3>1, OctetsAdd, Zenon
    <3>3. CHAR_BIT * (g.offset + (d.length + bytes)) = off + (len + n)
      BY <2>12, <3>2, Zenon
    <3> HIDE DEF off, len
    <3>4. off + (len + n) = off + len + n
      BY <1>2, <2>6, <2>8
    <3> QED BY <3>3, <3>4
  <2>15. Room(a0) = len + n
    <3> DEFINE w == CHAR_BIT * (d.length + bytes)
    <3>1. Room(a0) = w - 0 /\ w = len + n
      BY <2>10, <2>12 DEF Room
    <3> HIDE DEF w, len
    <3> QED BY <1>2, <2>8, <3>1
  <2>16. start = off + Room(d)
    <3>1. start = CHAR_BIT * (g.offset + d.length) - (IF d.length > 0 THEN d.unbits ELSE 0)
      BY <2>9, <2>10 DEF ShiftStart
    <3>2. (IF d.length > 0 THEN d.unbits ELSE 0) = d.unbits
      BY <1>1, <2>8
    <3>3. start = (off + len) - d.unbits
      BY <2>13, <3>1, <3>2, Zenon
    <3> HIDE DEF off, len, start
    <3> QED BY <1>1, <2>6, <2>8, <3>3
  <2> HIDE DEF a0, at, off, len, start
  <2>17. IsCut(r, a0, start, d.unbits)
    <3>1. /\ at \in Nat /\ at <= a0.length /\ (at > 0 => a0.unbits = 0)
      BY <1>1, <2>9, <2>10
    <3>2. d.unbits <= Room(a0) /\ d.unbits \in 0 .. CHAR_BIT - 1
      BY <1>1, <1>2, <2>1, <2>8, <2>15
    <3>3. start = ShiftStart(a0, at, d.unbits)
      BY DEF start
    <3> QED BY <2>2, <2>11, <3>1, <3>2, <3>3, ShiftOK, Zenon
  <2>18. /\ BufferOK(r) /\ r.offset = g.offset /\ r.allocated = g.allocated
         /\ r.bytes_shifted + r.length = g.bytes_shifted + (d.length + bytes)
         /\ r.bytes_shifted >= g.bytes_shifted
         /\ Room(r) = (len + n) - d.unbits
         /\ \A i \in 1 .. start : r.data[i] = a.data[i]
         /\ \A i \in start + 1 .. (off + len + n) - d.unbits :
              r.data[i] = a.data[i + d.unbits]
    <3> DEFINE top == CHAR_BIT * (a0.offset + a0.length)
    <3>1. /\ BufferOK(r) /\ r.offset = a0.offset /\ r.allocated = a0.allocated
          /\ r.bytes_shifted + r.length = a0.bytes_shifted + a0.length
          /\ r.bytes_shifted >= a0.bytes_shifted
          /\ Room(r) = Room(a0) - d.unbits
          /\ \A i \in 1 .. start : r.data[i] = a0.data[i]
          /\ \A i \in start + 1 .. top - d.unbits : r.data[i] = a0.data[i + d.unbits]
      BY <2>17 DEF IsCut
    <3>2. top = off + len + n
      BY <2>10, <2>14
    <3> HIDE DEF top
    <3>3. /\ r.bytes_shifted + r.length = g.bytes_shifted + (d.length + bytes)
          /\ r.bytes_shifted >= g.bytes_shifted /\ Room(r) = (len + n) - d.unbits
      BY <2>10, <2>15, <3>1, Zenon
    <3>4. \A i \in start + 1 .. top - d.unbits : r.data[i] = a.data[i + d.unbits]
      BY <2>10, <3>1
    <3>5. \A i \in start + 1 .. (off + len + n) - d.unbits : r.data[i] = a.data[i + d.unbits]
      BY <3>2, <3>4, Zenon
    <3> QED BY <2>10, <3>1, <3>3, <3>5
  <2>19. Room(d) = mid - from /\ \A i \in 1 .. mid - from : d.data[CHAR_BIT * d.offset + i] = from + i
    BY DEF Holds
  <2>20. Room(r) = (mid + n) - from
    BY <1>1, <1>2, <2>8, <2>18, <2>19
  <2>21. ASSUME NEW i \in 1 .. mid - from PROVE r.data[off + i] = from + i
    <3>1. /\ off + i \in 1 .. start /\ off + i \in 1 .. off + len
          /\ i \in 1 .. len
      BY <1>1, <2>6, <2>8, <2>16, <2>19
    <3>2. r.data[off + i] = a.data[off + i]
      BY <2>18, <3>1
    <3>3. a.data[off + i] = g.data[off + i]
      <4>1. \A j \in 1 .. off + len : a.data[j] = g.data[j]
        BY <2>4, <2>5, <2>13, Zenon DEF IsAppended
      <4> QED BY <3>1, <4>1
    <3>4. g.data[off + i] = d.data[CHAR_BIT * d.offset + i]
      <4>1. \A j \in 1 .. len : g.data[off + j] = d.data[CHAR_BIT * d.offset + j]
        BY <2>3, Zenon DEF RoomMade, len, off
      <4> QED BY <3>1, <4>1, Zenon
    <3>5. d.data[CHAR_BIT * d.offset + i] = from + i
      BY <2>19, Zenon
    <3> QED BY <3>2, <3>3, <3>4, <3>5
  <2>22. ASSUME NEW i \in (mid - from) + 1 .. (mid + n) - from PROVE r.data[off + i] = from + i
    <3>1. /\ off + i \in start + 1 .. (off + len + n) - d.unbits
          /\ i - Room(d) \in 1 .. n /\ i - Room(d) \in 1 .. Len(bits)
          /\ (off + i) + d.unbits = off + len + (i - Room(d))
          /\ mid + (i - Room(d)) = from + i
      <4> DEFINE u == d.unbits
                 room == Room(d)
      <4>1. /\ u \in Nat /\ room \in Nat /\ off \in Nat /\ len \in Nat /\ n \in Nat
            /\ room = len - u /\ start = off + room /\ room = mid - from /\ Len(bits) = n
        BY <1>1, <1>2, <1>3, <2>6, <2>8, <2>16, <2>19
      <4> HIDE DEF u, room
      <4>2. i \in room + 1 .. room + n
        BY <4>1
      <4>3. /\ off + i \in start + 1 .. (off + len + n) - u
            /\ i - room \in 1 .. n /\ i - room \in 1 .. Len(bits)
            /\ (off + i) + u = off + len + (i - room)
            /\ mid + (i - room) = from + i
        BY <4>1, <4>2
      <4> QED BY <4>3 DEF u, room
    <3>2. r.data[off + i] = a.data[(off + i) + d.unbits]
      BY <2>18, <3>1
    <3>3. a.data[off + len + (i - Room(d))] = bits[i - Room(d)]
      <4>1. \A j \in 1 .. Len(bits) : a.data[off + len + j] = bits[j]
        BY <2>4, <2>5, <2>13, Zenon DEF IsAppended
      <4> QED BY <3>1, <4>1, Zenon
    <3>4. bits[i - Room(d)] = mid + (i - Room(d))
      BY <1>3, <3>1, Zenon
    <3> QED BY <3>1, <3>2, <3>3, <3>4, Zenon
  <2>23. ASSUME NEW i \in 1 .. (mid + n) - from PROVE r.data[CHAR_BIT * r.offset + i] = from + i
    <3>1. CHAR_BIT * r.offset = off
      BY <2>18 DEF off
    <3>2. i \in 1 .. mid - from \/ i \in (mid - from) + 1 .. (mid + n) - from
      BY <1>1, <1>2, <2>19
    <3> QED BY <2>21, <2>22, <3>1, <3>2, Zenon
  <2>24. Holds(r, from, mid + n)
    <3>1. \A i \in 1 .. (mid + n) - from : r.data[CHAR_BIT * r.offset + i] = from + i
      BY <2>23, Zenon
    <3> HIDE DEF n
    <3> DEFINE top == mid + n
    <3>2. Room(r) = top - from /\ \A i \in 1 .. top - from : r.data[CHAR_BIT * r.offset + i] = from + i
      BY <2>20, <3>1, Zenon
    <3> HIDE DEF top
    <3>3. Holds(r, from, top)
      BY <3>2, Zenon DEF Holds
    <3> QED BY <3>3 DEF top
  <2>25. /\ r.bytes_shifted + r.offset + r.length
             <= d.bytes_shifted + d.offset + d.length + bytes
         /\ r.bytes_shifted >= d.bytes_shifted
    <3>1. r.bytes_shifted \in Nat /\ r.length \in Nat
      BY <2>18, BufferFields
    <3> QED BY <1>1, <2>5, <2>6, <2>18, <3>1
  <2>26. r.allocated > 0
    <3>1. g.allocated > 0
      BY <1>1, <1>5, <2>5, <2>6
    <3> QED BY <2>18, <3>1
  <2>27. IsGrown(r, d, from, mid + n, bytes)
    BY <2>18, <2>24, <2>25, <2>26, Zenon DEF IsGrown
  <2> QED BY <2>27 DEF r, bits, n
<1> QED BY <1>4, <1>5

-----------------------------------------------------------------------------
(***************************************************************************)
(* What the decoder has consumed is taken off the buffer.                  *)
(***************************************************************************)
\* Whole octets are given up by moving the offset.
IsConsumed(r, d, from, upto) ==
  /\ BufferOK(r) /\ Holds(r, from, upto) /\ r.allocated = d.allocated
  /\ r.bytes_shifted + r.offset + r.length = d.bytes_shifted + d.offset + d.length

\* Dropping whole octets from the front.
LEMMA ConsumedOK ==
  ASSUME NEW d, BufferOK(d), NEW from \in Nat, NEW upto \in Nat, Holds(d, from, upto),
         NEW c \in Nat, CHAR_BIT * c <= upto - from
  PROVE  IsConsumed([d EXCEPT !.offset = @ + c, !.length = @ - c], d,
                    from + CHAR_BIT * c, upto)
<1> DEFINE r == [d EXCEPT !.offset = @ + c, !.length = @ - c]
           n == CHAR_BIT * c
           off == CHAR_BIT * d.offset
           len == CHAR_BIT * d.length
<1>1. /\ d.offset \in Nat /\ d.length \in Nat /\ d.bytes_shifted \in Nat
      /\ d.unbits \in Nat /\ d.allocated \in Nat
  BY BufferFields
<1>2. /\ d \in BufferType /\ Len(d.data) = CHAR_BIT * d.allocated
      /\ d.offset + d.length <= d.allocated /\ (d.unbits > 0 => d.length > 0)
  BY Zenon DEF BufferOK
<1>3. off \in Nat /\ len \in Nat /\ n \in Nat /\ Room(d) = len - d.unbits
  BY BufferFields, WholeOctets DEF Room
<1>4. Room(d) = upto - from /\ \A i \in 1 .. upto - from : d.data[off + i] = from + i
  BY DEF Holds
<1>5. n <= len /\ (d.unbits > 0 => ~(len <= n))
  <2> HIDE DEF n, len, off
  <2>1. n <= upto - from
    BY DEF n
  <2> QED BY <1>1, <1>3, <1>4, <2>1
<1>6. c <= d.length /\ (d.unbits > 0 => ~(d.length <= c))
  <2>1. c \in Int /\ d.length \in Int
    BY <1>1
  <2> QED BY <1>5, <2>1, OctetsMonotone, Zenon
<1>7. d.offset + c \in Nat /\ d.length - c \in Nat
  BY <1>1, <1>6
<1>8. CHAR_BIT * (d.offset + c) = off + n /\ CHAR_BIT * (d.length - c) = len - n
  <2>1. d.offset \in Int /\ d.length \in Int /\ c \in Int
    BY <1>1
  <2> QED BY <2>1, OctetsAdd, Zenon
<1> HIDE DEF r
<1>9. r \in BufferType
  BY <1>2, <1>7, Zenon DEF BufferType, r
<1>10. /\ r.data = d.data /\ r.offset = d.offset + c /\ r.length = d.length - c
       /\ r.unbits = d.unbits /\ r.allocated = d.allocated
       /\ r.bytes_shifted = d.bytes_shifted
  BY <1>2 DEF BufferType, r
<1>11. /\ r.offset + r.length = d.offset + d.length
       /\ r.unbits > 0 => r.length > 0
  BY <1>1, <1>6, <1>10
<1>12. BufferOK(r)
  <2>1. Len(r.data) = CHAR_BIT * r.allocated /\ r.offset + r.length <= r.allocated
    BY <1>2, <1>10, <1>11, Zenon
  <2> QED BY <1>9, <1>11, <2>1, Zenon DEF BufferOK
<1>13. r.bytes_shifted + r.offset + r.length = d.bytes_shifted + d.offset + d.length
  BY <1>1, <1>7, <1>10
<1>14. Room(r) = (len - n) - d.unbits /\ CHAR_BIT * r.offset = off + n
  BY <1>8, <1>10, Zenon DEF Room
<1> HIDE DEF n, off, len
<1>15. Room(r) = upto - (from + n)
  BY <1>1, <1>3, <1>4, <1>14
<1>16. ASSUME NEW i \in 1 .. upto - (from + n) PROVE r.data[(off + n) + i] = (from + n) + i
  <2>1. /\ n + i \in 1 .. upto - from /\ (off + n) + i = off + (n + i)
        /\ (from + n) + i = from + (n + i)
    BY <1>3
  <2> QED BY <1>4, <1>10, <2>1
<1>17. Holds(r, from + n, upto)
  BY <1>14, <1>15, <1>16 DEF Holds
<1>18. IsConsumed(r, d, from + n, upto)
  BY <1>10, <1>12, <1>13, <1>17, Zenon DEF IsConsumed
<1> QED BY <1>18 DEF n, r

\* A buffer that was never allocated holds nothing, wherever it is asked from.
LEMMA Unallocated ==
  ASSUME NEW d, BufferOK(d), d.allocated = 0, NEW at \in Nat
  PROVE  /\ d.offset = 0 /\ d.length = 0 /\ d.unbits = 0 /\ Holds(d, at, at)
<1>1. /\ d.offset \in Nat /\ d.length \in Nat /\ d.unbits \in Nat
  BY BufferFields
<1>2. d.offset + d.length <= d.allocated /\ (d.unbits > 0 => d.length > 0)
  BY Zenon DEF BufferOK
<1>3. d.offset = 0 /\ d.length = 0 /\ d.unbits = 0
  BY <1>1, <1>2
<1>4. Room(d) = 0 /\ at - at = 0
  BY <1>3, BoundsAssumption DEF Room
<1>5. \A i \in 1 .. 0 : d.data[CHAR_BIT * d.offset + i] = at + i
  OBVIOUS
<1>6. Holds(d, at, at)
  BY <1>4, <1>5, Zenon DEF Holds
<1> QED BY <1>3, <1>6

-----------------------------------------------------------------------------
(***************************************************************************)
(* The inductive invariant.  While a file is read, the buffer holds what   *)
(* arrived and has not been consumed; a buffer that was not allocated      *)
(* stands for the last piece read, of which the decoder takes all before   *)
(* the next one is read.                                                   *)
(***************************************************************************)
OptOK == opt \in [isyntax : Syntaxes, bufsize : BufSizes, onepdu : BOOLEAN]

Running == pc \in {"read", "decode", "report"} \/ (pc = "call" /\ ~first_pdu)

\* Of a file that was just opened nothing has arrived.
JustOpened == pc = "call" /\ first_pdu => taken = 0 /\ arrived = 0

Buffered(d, from) ==
  /\ Holds(d, from, CHAR_BIT * arrived)
  /\ d.bytes_shifted + d.offset + d.length <= arrived

BufferedOK == Running /\ db.allocated > 0 => Buffered(db, taken)

UnbufferedOK ==
  /\ Running /\ db.allocated = 0 => CHAR_BIT * db.bytes_shifted <= taken
  /\ pc = "decode" /\ db.allocated = 0 => taken = CHAR_BIT * (arrived - rd)
  /\ (pc = "read" \/ (pc = "call" /\ ~first_pdu)) /\ db.allocated = 0 =>
       taken = CHAR_BIT * arrived

IInv ==
  /\ TypeOK /\ OptOK /\ BufferOK(db) /\ JustOpened /\ BufferedOK /\ UnbufferedOK

\* The counters of the file, in bits.
LEMMA ArrivedBits ==
  ASSUME TypeOK
  PROVE  /\ arrived \in Nat /\ rd \in Nat /\ rd <= arrived /\ arrived - rd \in Nat
         /\ CHAR_BIT * arrived \in Nat /\ CHAR_BIT * rd \in Nat
         /\ CHAR_BIT * (arrived - rd) \in Nat
         /\ CHAR_BIT * (arrived - rd) = CHAR_BIT * arrived - CHAR_BIT * rd
         /\ taken \in Nat /\ taken <= CHAR_BIT * arrived /\ file \in Nat /\ arrived <= file
<1>1. /\ file \in Nat /\ arrived \in 0 .. file /\ rd \in 0 .. arrived
      /\ taken \in 0 .. CHAR_BIT * arrived
  BY BoundsAssumption DEF TypeOK
<1>2. arrived \in Nat /\ rd \in Nat /\ rd <= arrived /\ arrived - rd \in Nat /\ arrived <= file
  BY <1>1
<1>3. /\ CHAR_BIT * arrived \in Nat /\ CHAR_BIT * rd \in Nat
      /\ CHAR_BIT * (arrived - rd) \in Nat
  BY <1>2, WholeOctets, Zenon
<1>4. CHAR_BIT * (arrived - rd) = CHAR_BIT * arrived - CHAR_BIT * rd
  <2>1. arrived \in Int /\ rd \in Int
    BY <1>2
  <2> QED BY <2>1, OctetsAdd, Zenon
<1>5. taken \in Nat /\ taken <= CHAR_BIT * arrived
  <2> DEFINE a == CHAR_BIT * arrived
  <2>1. a \in Nat /\ taken \in 0 .. a
    BY <1>1, <1>3
  <2> HIDE DEF a
  <2>2. taken \in Nat /\ taken <= a
    BY <2>1
  <2> QED BY <2>2 DEF a
<1> QED BY <1>1, <1>2, <1>3, <1>4, <1>5

\* The buffer before the first allocation.
LEMMA NoBufferOK == BufferOK(NoBuffer) /\ NoBuffer.allocated = 0
<1>1. <<>> \in Seq(Int) /\ 0 \in Nat /\ 0 \in 0 .. CHAR_BIT - 1 /\ Len(<<>>) = 0
  BY BoundsAssumption
<1>2. NoBuffer \in BufferType
  BY <1>1 DEF NoBuffer, BufferType
<1>3. CHAR_BIT * 0 = 0
  BY BoundsAssumption
<1> QED BY <1>1, <1>2, <1>3 DEF BufferOK, NoBuffer

\* IInv at the start.
LEMMA InitOK == Init => IInv
<1> SUFFICES ASSUME Init PROVE IInv
  OBVIOUS
<1>1. CHAR_BIT * 0 = 0 /\ CHAR_BIT \in Nat \ {0} /\ MaxFile \in Nat /\ MaxFiles \in Nat
  BY BoundsAssumption
<1>2. TypeOK
  BY <1>1 DEF Init, TypeOK, NoBuffer
<1>3. BufferOK(db)
  BY NoBufferOK DEF Init
<1>4. pc = "next"
  BY DEF Init
<1>5. OptOK
  BY DEF Init, OptOK
<1> QED BY <1>2, <1>3, <1>4, <1>5 DEF IInv, JustOpened, BufferedOK, UnbufferedOK, Running

\* IInv over the opening of the next file.
LEMMA OpenFileKeeps == IInv /\ OpenFile => IInv'
<1> SUFFICES ASSUME IInv, OpenFile PROVE IInv'
  OBVIOUS
<1>1. PICK size \in 0 .. MaxFile : Open(size)
  BY DEF OpenFile
<1>2. CHAR_BIT * 0 = 0 /\ MaxFile \in Nat /\ MaxFiles \in Nat
  BY BoundsAssumption
<1>3. /\ pc' = "call" /\ first_pdu' = TRUE /\ taken' = 0 /\ arrived' = 0 /\ db' = db
      /\ rd' = 0 /\ file' = size /\ status' = "open"
  BY <1>1 DEF OpenFile, Open
<1>4. TypeOK'
  <2>1. files' \in 0 .. MaxFiles
    BY <1>2 DEF IInv, TypeOK, OpenFile
  <2>2. taken' \in 0 .. CHAR_BIT * arrived'
    BY <1>2, <1>3
  <2> QED BY <1>1, <1>3, <2>1, <2>2 DEF IInv, TypeOK, OpenFile
<1>5. OptOK' /\ BufferOK(db)'
  BY <1>3 DEF IInv, OptOK, OpenFile
<1> QED BY <1>3, <1>4, <1>5 DEF IInv, JustOpened, BufferedOK, UnbufferedOK, Running

\* IInv over the start of a call of data_decode_from_file.
LEMMA CallDecodeKeeps == IInv /\ CallDecode => IInv'
<1> SUFFICES ASSUME IInv, CallDecode PROVE IInv'
  OBVIOUS
<1>1. /\ pc = "call" /\ pc' = "read" /\ taken' = taken /\ arrived' = arrived
      /\ first_pdu' = first_pdu /\ opt' = opt /\ rd' = rd /\ file' = file
      /\ files' = files /\ status' = status
      /\ db' = (IF first_pdu THEN NoBuffer ELSE db)
      /\ old_offset' = db'.bytes_shifted + db'.offset /\ tolerate_eof' = 1
  BY DEF CallDecode, fileVars
<1>2. BufferOK(db')
  BY <1>1, NoBufferOK DEF IInv
<1>3. TypeOK'
  <2>1. /\ db'.offset \in Nat /\ db'.length \in Nat /\ db'.unbits \in 0 .. CHAR_BIT - 1
        /\ db'.bytes_shifted \in Nat
    BY <1>2, BufferFields, Zenon
  <2>2. old_offset' \in Nat
    BY <1>1, <2>1
  <2> QED BY <1>1, <2>1, <2>2 DEF IInv, TypeOK
<1>4. OptOK'
  BY <1>1 DEF IInv, OptOK
<1>5. CASE first_pdu
  <2>1. taken' = 0 /\ arrived' = 0
    BY <1>1, <1>5 DEF IInv, JustOpened
  <2>2. db'.allocated = 0 /\ db'.bytes_shifted = 0
    BY <1>1, <1>5 DEF NoBuffer
  <2>3. CHAR_BIT * 0 = 0
    BY BoundsAssumption
  <2> QED BY <1>1, <1>2, <1>3, <1>4, <2>1, <2>2, <2>3
          DEF IInv, JustOpened, BufferedOK, UnbufferedOK
<1>6. CASE ~first_pdu
  <2>1. db' = db /\ Running
    BY <1>1, <1>6 DEF Running
  <2>2. (db.allocated > 0 => Buffered(db, taken)) /\ (db.allocated = 0 =>
           CHAR_BIT * db.bytes_shifted <= taken /\ taken = CHAR_BIT * arrived)
    BY <1>1, <1>6, <2>1 DEF IInv, BufferedOK, UnbufferedOK
  <2>3. Buffered(db, taken) => Buffered(db, taken)'
    BY <1>1, <2>1 DEF Buffered
  <2>4. BufferedOK' /\ UnbufferedOK' /\ JustOpened'
    BY <1>1, <2>1, <2>2, <2>3, Zenon DEF BufferedOK, UnbufferedOK, JustOpened
  <2> QED BY <1>2, <1>3, <1>4, <2>4 DEF IInv
<1> QED BY <1>5, <1>6

\* IInv over an fread that gave some bytes.
LEMMA FreadKeeps ==
  ASSUME IInv, pc = "read", NEW bytes \in 0 .. file - arrived, Fread(bytes)
  PROVE  IInv'
<1>1. /\ arrived \in Nat /\ CHAR_BIT * arrived \in Nat /\ taken \in Nat
      /\ taken <= CHAR_BIT * arrived /\ file \in Nat /\ arrived <= file
  BY ArrivedBits DEF IInv
<1>2. /\ rd' = bytes /\ arrived' = arrived + bytes /\ taken' = taken /\ opt' = opt
      /\ files' = files /\ file' = file /\ first_pdu' = first_pdu /\ status' = status
      /\ old_offset' = old_offset /\ tolerate_eof' = tolerate_eof
      /\ \/ /\ pc' = "decode"
            /\ db' = (IF db.allocated > 0
                       THEN AddBytesToBuffer(db, Bits(CHAR_BIT * arrived, CHAR_BIT * arrived'))
                       ELSE db)
         \/ /\ pc' = "report" /\ db' = db
            /\ ~(rd' > 0)
  BY DEF Fread, callVars
<1>3. bytes \in Nat /\ arrived' \in 0 .. file /\ rd' \in 0 .. arrived' /\ arrived' - rd' = arrived
  BY <1>1, <1>2
<1>4. /\ CHAR_BIT * arrived' = CHAR_BIT * arrived + CHAR_BIT * bytes
      /\ CHAR_BIT * bytes \in Nat
  <2>1. arrived \in Int /\ bytes \in Int
    BY <1>1, <1>3
  <2>2. CHAR_BIT * (arrived + bytes) = CHAR_BIT * arrived + CHAR_BIT * bytes
    BY <2>1, OctetsAdd, Zenon
  <2>3. CHAR_BIT * bytes \in Nat
    BY <1>3, WholeOctets, Zenon
  <2> QED BY <1>2, <2>2, <2>3
<1>5. taken' \in 0 .. CHAR_BIT * arrived'
  <2> DEFINE a == CHAR_BIT * arrived
             b == CHAR_BIT * bytes
             c == CHAR_BIT * arrived'
  <2>1. a \in Nat /\ b \in Nat /\ c = a + b /\ taken \in Nat /\ taken <= a /\ taken' = taken
    BY <1>1, <1>2, <1>4
  <2> HIDE DEF a, b, c
  <2>2. taken' \in 0 .. c
    BY <2>1
  <2> QED BY <2>2 DEF c
<1>6. Running /\ Running'
  BY <1>2 DEF Running
<1>7. BufferOK(db) /\ db.allocated \in Nat
  BY BufferFields DEF IInv
<1>8. /\ db.allocated > 0 => Buffered(db, taken)
      /\ db.allocated = 0 => CHAR_BIT * db.bytes_shifted <= taken /\ taken = CHAR_BIT * arrived
  BY <1>6 DEF IInv, BufferedOK, UnbufferedOK
<1>9. BufferOK(db') /\ BufferedOK' /\ UnbufferedOK'
  <2>1. CASE pc' = "decode" /\ db.allocated > 0
    <3> DEFINE mid == CHAR_BIT * arrived
    <3>1. db' = AddBytesToBuffer(db, Bits(mid, mid + CHAR_BIT * bytes))
      BY <1>2, <1>4, <2>1
    <3>2. Holds(db, taken, mid) /\ db.bytes_shifted + db.offset + db.length <= arrived
      BY <1>8, <2>1 DEF Buffered
    <3>3. mid \in Nat
      BY <1>1
    <3> HIDE DEF mid
    <3>4. IsGrown(db', db, taken, mid + CHAR_BIT * bytes, bytes)
      BY <1>1, <1>3, <1>7, <3>1, <3>2, <3>3, AddBytesOK
    <3>5. /\ BufferOK(db') /\ Holds(db', taken, mid + CHAR_BIT * bytes)
          /\ db'.bytes_shifted + db'.offset + db'.length
               <= db.bytes_shifted + db.offset + db.length + bytes
          /\ db'.allocated > 0
      BY <2>1, <3>4 DEF IsGrown
    <3>6. /\ db'.bytes_shifted \in Nat /\ db'.offset \in Nat /\ db'.length \in Nat
          /\ db.bytes_shifted \in Nat /\ db.offset \in Nat /\ db.length \in Nat
          /\ db'.allocated \in Nat
      BY <1>7, <3>5, BufferFields, Zenon
    <3>7. db'.bytes_shifted + db'.offset + db'.length <= arrived'
      BY <1>1, <1>2, <1>3, <3>2, <3>5, <3>6
    <3>8. Holds(db', taken', CHAR_BIT * arrived')
      BY <1>2, <1>4, <3>5, Zenon DEF mid
    <3>9. db'.allocated # 0
      BY <3>5, <3>6
    <3> QED BY <3>5, <3>7, <3>8, <3>9, Zenon DEF BufferedOK, UnbufferedOK, Buffered
  <2>2. CASE pc' = "decode" /\ ~(db.allocated > 0)
    <3>1. db' = db /\ db.allocated = 0
      BY <1>2, <1>7, <2>2
    <3>2. taken' = CHAR_BIT * (arrived' - rd') /\ CHAR_BIT * db'.bytes_shifted <= taken'
      BY <1>2, <1>3, <1>8, <3>1, Zenon
    <3> QED BY <1>7, <2>2, <3>1, <3>2, Zenon DEF BufferedOK, UnbufferedOK
  <2>3. CASE pc' = "report"
    <3>1. db' = db /\ bytes = 0
      BY <1>2, <1>3, <2>3
    <3>2. arrived' = arrived
      BY <1>1, <1>2, <3>1
    <3>3. Buffered(db, taken) => Buffered(db, taken)'
      BY <1>2, <3>1, <3>2 DEF Buffered
    <3> QED BY <1>2, <1>7, <1>8, <2>3, <3>1, <3>3, Zenon DEF BufferedOK, UnbufferedOK
  <2> QED BY <1>2, <2>1, <2>2, <2>3
<1>10. TypeOK'
  <2>1. /\ db'.offset \in Nat /\ db'.length \in Nat /\ db'.unbits \in 0 .. CHAR_BIT - 1
        /\ db'.bytes_shifted \in Nat
    BY <1>9, BufferFields, Zenon
  <2>2. pc' \in {"next", "call", "read", "decode", "report", "exit"}
    BY <1>2
  <2>3. arrived' \in 0 .. file'
    BY <1>2, <1>3
  <2>4. /\ files' \in 0 .. MaxFiles /\ file' \in 0 .. MaxFile /\ old_offset' \in Nat
        /\ tolerate_eof' \in Int /\ status' \in {"open", "eof", "error"}
    BY <1>2 DEF IInv, TypeOK
  <2> QED BY <1>3, <1>5, <2>1, <2>2, <2>3, <2>4 DEF TypeOK
<1>11. OptOK' /\ JustOpened'
  BY <1>2 DEF IInv, OptOK, JustOpened
<1> QED BY <1>9, <1>10, <1>11 DEF IInv

\* IInv over a reading, failed or not.
LEMMA ReadKeeps == IInv /\ (Read \/ ReadFails) => IInv'
<1> SUFFICES ASSUME IInv, Read \/ ReadFails PROVE IInv'
  OBVIOUS
<1>1. arrived \in Nat /\ file \in Nat /\ arrived <= file
  BY ArrivedBits DEF IInv
<1>2. opt.bufsize \in Nat \ {0}
  BY BoundsAssumption DEF IInv, OptOK
<1>3. PICK bytes : bytes \in 0 .. file - arrived /\ Fread(bytes)
  <2>1. ASSUME NEW most \in Nat
        PROVE  Fewer(most, file - arrived) \in 0 .. file - arrived
    BY <1>1 DEF Fewer
  <2>2. CASE Read
    <3>1. Fewer(opt.bufsize, file - arrived) \in 0 .. file - arrived
      BY <1>2, <2>1
    <3> QED BY <2>2, <3>1 DEF Read
  <2>3. CASE ReadFails
    <3>1. Fewer(opt.bufsize - 1, file - arrived) \in 0 .. file - arrived
      BY <1>2, <2>1
    <3>2. PICK bytes \in 0 .. Fewer(opt.bufsize - 1, file - arrived) : Fread(bytes)
      BY <2>3 DEF ReadFails
    <3>3. bytes \in 0 .. file - arrived
      BY <1>1, <3>1, <3>2
    <3> QED BY <3>2, <3>3
  <2> QED BY <2>2, <2>3
<1>4. pc = "read"
  BY DEF Read, ReadFails
<1> QED BY <1>3, <1>4, FreadKeeps

-----------------------------------------------------------------------------
(***************************************************************************)
(* What the decoder is given and consumes.                                 *)
(***************************************************************************)
LEMMA GivenBits ==
  ASSUME IInv, pc = "decode"
  PROVE  /\ Given \in Nat /\ taken + Given = CHAR_BIT * arrived
         /\ db.allocated = 0 => Given = CHAR_BIT * rd
         /\ db.allocated > 0 => Given = Room(db)
<1>1. /\ CHAR_BIT * arrived \in Nat /\ CHAR_BIT * rd \in Nat /\ taken \in Nat
      /\ CHAR_BIT * (arrived - rd) = CHAR_BIT * arrived - CHAR_BIT * rd
  BY ArrivedBits DEF IInv
<1>2. db.allocated \in Nat /\ Room(db) \in Nat
  BY BufferFields DEF IInv
<1>3. CASE db.allocated > 0
  <2>1. Given = Room(db)
    BY <1>3 DEF Given, Room
  <2>2. Room(db) = CHAR_BIT * arrived - taken
    BY <1>3 DEF IInv, BufferedOK, Running, Buffered, Holds
  <2> DEFINE a == CHAR_BIT * arrived
  <2>3. a \in Nat /\ Room(db) = a - taken
    BY <1>1, <2>2
  <2> HIDE DEF a
  <2>4. taken + Room(db) = a
    BY <1>1, <1>2, <2>3
  <2> QED BY <1>2, <1>3, <2>1, <2>4 DEF a
<1>4. CASE db.allocated = 0
  <2>1. Given = CHAR_BIT * rd /\ taken = CHAR_BIT * (arrived - rd)
    BY <1>4 DEF Given, IInv, UnbufferedOK
  <2> DEFINE a == CHAR_BIT * arrived
             b == CHAR_BIT * rd
  <2>2. a \in Nat /\ b \in Nat /\ taken = a - b /\ Given = b
    BY <1>1, <2>1
  <2> HIDE DEF a, b
  <2>3. taken + Given = a /\ Given = b
    BY <2>2
  <2> QED BY <1>1, <1>4, <2>3 DEF a, b
<1> QED BY <1>2, <1>3, <1>4

\* What an answer consumes: whole octets and the bits of one more.
LEMMA AnswerBits ==
  ASSUME IInv, pc = "decode", NEW r \in Answers,
         NEW n, n = Unit * r.units, NEW c, c = n \div CHAR_BIT, NEW e, e = n % CHAR_BIT
  PROVE  /\ n \in Nat /\ c \in Nat /\ e \in 0 .. CHAR_BIT - 1 /\ e \in Nat
         /\ n = CHAR_BIT * c + e /\ n <= Given
         /\ r.code \in {"ok", "more", "fail"} /\ (r.code # "ok" => e = 0)
<1>1. Given \in Nat /\ CHAR_BIT \in Nat \ {0}
  BY GivenBits, BoundsAssumption
<1>2. Unit \in {1, CHAR_BIT} /\ (Restartable => Unit = CHAR_BIT)
  BY DEF Unit, Restartable
<1>3. Unit * (Given \div Unit) <= Given /\ Given \div Unit \in Nat
  <2>1. CASE Unit = 1
    BY <1>1, <2>1
  <2>2. CASE Unit = CHAR_BIT
    <3>1. /\ Given \div CHAR_BIT \in Nat /\ Given % CHAR_BIT \in 0 .. CHAR_BIT - 1
          /\ Given = CHAR_BIT * (Given \div CHAR_BIT) + (Given % CHAR_BIT)
          /\ CHAR_BIT * (Given \div CHAR_BIT) \in Nat
      BY <1>1, WholeOctets, Zenon
    <3> DEFINE q == CHAR_BIT * (Given \div CHAR_BIT)
               m == Given % CHAR_BIT
    <3>2. q \in Nat /\ m \in Nat /\ Given = q + m
      BY <1>1, <3>1
    <3> HIDE DEF q, m
    <3>3. q <= Given
      BY <1>1, <3>2
    <3> QED BY <2>2, <3>1, <3>3 DEF q
  <2> QED BY <1>2, <2>1, <2>2
<1>4. /\ r.code \in {"ok", "more", "fail"} /\ r.units \in 0 .. Given \div Unit
      /\ r.code # "ok" => Restartable \/ r.units = 0
  <2>1. /\ 0 \in 0 .. Given \div Unit
        /\ Smallest .. Given \div Unit \subseteq 0 .. Given \div Unit
    <3>1. Smallest \in {0, 1}
      BY DEF Smallest
    <3> QED BY <1>3, <3>1
  <2> QED BY <2>1 DEF Answers
<1>5. r.units \in Nat /\ r.units <= Given \div Unit
  BY <1>3, <1>4
<1>6. n \in Nat /\ n <= Given
  <2>1. CASE Unit = 1
    BY <1>1, <1>3, <1>5, <2>1
  <2>2. CASE Unit = CHAR_BIT
    <3>1. r.units \in Int /\ Given \div Unit \in Int
      BY <1>3, <1>5
    <3>2. CHAR_BIT * r.units <= CHAR_BIT * (Given \div Unit)
      BY <1>5, <3>1, OctetsMonotone, Zenon
    <3>3. CHAR_BIT * r.units \in Nat /\ CHAR_BIT * (Given \div Unit) \in Nat
      BY <1>3, <1>5, WholeOctets, Zenon
    <3> DEFINE p == CHAR_BIT * (Given \div Unit)
    <3>4. n <= p /\ p <= Given /\ p \in Nat /\ n \in Nat
      BY <1>3, <2>2, <3>2, <3>3
    <3> HIDE DEF p
    <3> QED BY <1>1, <3>4
  <2> QED BY <1>2, <2>1, <2>2
<1>7. /\ c \in Nat /\ e \in 0 .. CHAR_BIT - 1 /\ n = CHAR_BIT * c + e
  BY <1>6, WholeOctets, Zenon
<1>8. e \in Nat
  BY <1>1, <1>7
<1>9. r.code # "ok" => e = 0
  <2> SUFFICES ASSUME r.code # "ok" PROVE e = 0
    OBVIOUS
  <2>1. CASE r.units = 0
    <3>1. n = 0
      BY <1>2, <2>1, BoundsAssumption
    <3> QED BY <3>1, BoundsAssumption
  <2>2. CASE Unit = CHAR_BIT
    <3>1. (CHAR_BIT * r.units) \div CHAR_BIT = r.units
      BY <1>5, WholeOctets, Zenon
    <3>2. c = r.units /\ n = CHAR_BIT * c
      BY <2>2, <3>1
    <3> DEFINE p == CHAR_BIT * c
    <3>3. p = p + e /\ p \in Nat
      BY <1>6, <1>7, <3>2
    <3> HIDE DEF p
    <3> QED BY <1>8, <3>3
  <2> QED BY <1>2, <1>4, <2>1, <2>2
<1> QED BY <1>4, <1>6, <1>7, <1>8, <1>9

\* The buffer after an answer: it starts with what has not been consumed.
IsAdjusted(a, code, upto) ==
  /\ BufferOK(a)
  /\ a.allocated > 0 => Buffered(a, upto)
  /\ a.allocated = 0 => /\ CHAR_BIT * a.bytes_shifted <= upto
                        /\ code # "fail" => upto = CHAR_BIT * arrived

\* The buffer after an answer has lost the bits the answer counts, and those only.
LEMMA AdjustedOK ==
  ASSUME IInv, pc = "decode", NEW r \in Answers,
         NEW n, n = Unit * r.units, NEW c, c = n \div CHAR_BIT, NEW e, e = n % CHAR_BIT
  PROVE  IsAdjusted(Adjusted(r, c, e), r.code, taken + n)
<1> DEFINE all == CHAR_BIT * arrived
           w == CHAR_BIT * c
<1>1. /\ n \in Nat /\ c \in Nat /\ e \in 0 .. CHAR_BIT - 1 /\ e \in Nat
      /\ n = w + e /\ n <= Given /\ (r.code # "ok" => e = 0)
  BY AnswerBits
<1>2. /\ Given \in Nat /\ taken + Given = all
      /\ (db.allocated = 0 => Given = CHAR_BIT * rd)
      /\ (db.allocated > 0 => Given = Room(db))
  BY GivenBits
<1>3. /\ arrived \in Nat /\ rd \in Nat /\ rd <= arrived /\ all \in Nat /\ taken \in Nat
      /\ w \in Nat
  BY <1>1, ArrivedBits, WholeOctets DEF IInv
<1>4. BufferOK(db) /\ db.allocated \in Nat /\ db.bytes_shifted \in Nat
  BY BufferFields DEF IInv
<1>5. Running
  BY DEF Running
<1>6. CASE db.allocated > 0
  <2> DEFINE d == [db EXCEPT !.offset = @ + c, !.length = @ - c]
  <2>1. Adjusted(r, c, e) = IF r.code = "ok" THEN BufferShiftLeft(d, 0, e) ELSE d
    BY <1>4, <1>6 DEF Adjusted
  <2>2. Holds(db, taken, all) /\ db.bytes_shifted + db.offset + db.length <= arrived
    BY <1>5, <1>6 DEF IInv, BufferedOK, Buffered
  <2>3. IsConsumed(d, db, taken + w, all)
    <3>1. w <= all - taken
      <4> HIDE DEF w, all
      <4> QED BY <1>1, <1>2, <1>3
    <3>2. taken \in Nat /\ all \in Nat /\ c \in Nat
      BY <1>1, <1>3
    <3> HIDE DEF all
    <3> QED BY <1>4, <2>2, <3>1, <3>2, ConsumedOK, Zenon
  <2> HIDE DEF d, w, all
  <2>4. /\ BufferOK(d) /\ Holds(d, taken + w, all) /\ d.allocated > 0
        /\ d.bytes_shifted + d.offset + d.length <= arrived
    BY <1>6, <2>2, <2>3 DEF IsConsumed
  <2>5. taken + w \in Nat /\ e <= all - (taken + w) /\ taken + w + e = taken + n
    BY <1>1, <1>2, <1>3
  <2>6. CASE r.code = "ok"
    <3> DEFINE a == BufferShiftLeft(d, 0, e)
    <3>1. IsShifted(a, d, taken + w + e, all)
      BY <1>1, <1>3, <2>4, <2>5, ShiftHolds, Zenon
    <3> HIDE DEF a
    <3>2. /\ BufferOK(a) /\ Holds(a, taken + n, all)
          /\ a.offset = d.offset /\ a.allocated = d.allocated
          /\ a.bytes_shifted + a.length = d.bytes_shifted + d.length
      BY <2>5, <3>1 DEF IsShifted
    <3>3. /\ a.bytes_shifted \in Nat /\ a.length \in Nat /\ a.allocated \in Nat
          /\ d.bytes_shifted \in Nat /\ d.length \in Nat /\ d.offset \in Nat
      BY <2>4, <3>2, BufferFields, Zenon
    <3>4. a.bytes_shifted + a.offset + a.length <= arrived
      BY <1>3, <2>4, <3>2, <3>3
    <3>5. a.allocated # 0
      BY <2>4, <3>2, <3>3
    <3>6. IsAdjusted(a, r.code, taken + n)
      BY <3>2, <3>4, <3>5, Zenon DEF IsAdjusted, Buffered, all
    <3> QED BY <2>1, <2>6, <3>6 DEF a
  <2>7. CASE r.code # "ok"
    <3>1. taken + w = taken + n
      BY <1>1, <1>3, <2>7
    <3>2. d.allocated # 0
      BY <2>4
    <3>3. IsAdjusted(d, r.code, taken + n)
      BY <2>4, <3>1, <3>2, Zenon DEF IsAdjusted, Buffered, all
    <3> QED BY <2>1, <2>7, <3>3
  <2> QED BY <2>6, <2>7
<1>7. CASE db.allocated = 0 /\ r.code # "fail" /\ c < rd
  <2> DEFINE bytes == rd - c
             from == taken + w
             g == AddBytesToBuffer(db, Bits(CHAR_BIT * (arrived - rd + c), CHAR_BIT * arrived))
             s == BufferShiftLeft(g, 0, e)
             a == [s EXCEPT !.bytes_shifted = c]
  <2>1. Adjusted(r, c, e) = a
    BY <1>7 DEF Adjusted, Remainder
  <2>2. bytes \in Nat /\ bytes > 0
    BY <1>1, <1>3, <1>7
  <2>3. CHAR_BIT * bytes = CHAR_BIT * rd - w /\ CHAR_BIT * bytes \in Nat
    <3>1. rd \in Int /\ c \in Int
      BY <1>1, <1>3
    <3>2. CHAR_BIT * bytes \in Nat
      BY <2>2, WholeOctets, Zenon
    <3> QED BY <3>1, <3>2, OctetsAdd, Zenon
  <2>4. CHAR_BIT * bytes >= CHAR_BIT
    BY <2>2, OctetsMonotone
  <2>5. CHAR_BIT * (arrived - rd + c) = from
    <3>1. taken = CHAR_BIT * (arrived - rd)
      BY <1>7 DEF IInv, UnbufferedOK
    <3>2. arrived - rd \in Int /\ c \in Int
      BY <1>1, <1>3
    <3> QED BY <3>1, <3>2, OctetsAdd, Zenon
  <2> DEFINE bits == CHAR_BIT * bytes
  <2>6. bits \in Nat /\ bits >= CHAR_BIT /\ from \in Nat /\ all = from + bits
    <3> DEFINE v == CHAR_BIT * rd
    <3>1. /\ v = Given /\ bits = v - w /\ bits \in Nat /\ bits >= CHAR_BIT
      BY <1>2, <1>7, <2>3, <2>4
    <3> HIDE DEF v, w, all, bits
    <3> QED BY <1>2, <1>3, <3>1
  <2>7. g = AddBytesToBuffer(db, Bits(from, from + bits))
    BY <2>5, <2>6, Zenon
  <2> HIDE DEF g, s, a, from, all, w
  <2>8. IsGrown(g, db, from, from + bits, bytes)
    BY <1>4, <1>7, <2>2, <2>6, <2>7, Unallocated, AddBytesOK, Zenon
  <2> HIDE DEF bytes, bits
  <2>9. /\ BufferOK(g) /\ Holds(g, from, all) /\ g.bytes_shifted >= db.bytes_shifted
        /\ g.bytes_shifted + g.offset + g.length
             <= db.bytes_shifted + db.offset + db.length + bytes
        /\ g.allocated > 0
    BY <2>2, <2>6, <2>8 DEF IsGrown
  <2>10. IsShifted(s, g, from + e, all)
    <3>1. e <= all - from
      BY <1>1, <1>3, <2>6, BoundsAssumption
    <3> QED BY <1>1, <1>3, <2>6, <2>9, <3>1, ShiftHolds, Zenon DEF s
  <2>11. /\ BufferOK(s) /\ Holds(s, from + e, all) /\ s.offset = g.offset
         /\ s.allocated = g.allocated /\ s.bytes_shifted >= g.bytes_shifted
         /\ s.bytes_shifted + s.length = g.bytes_shifted + g.length
    BY <2>10 DEF IsShifted
  <2>12. /\ s.bytes_shifted \in Nat /\ s.offset \in Nat /\ s.length \in Nat
         /\ g.bytes_shifted \in Nat /\ g.offset \in Nat /\ g.length \in Nat
         /\ g.allocated \in Nat
    BY <2>9, <2>11, BufferFields, Zenon
  <2>13. db.offset = 0 /\ db.length = 0
    BY <1>4, <1>7, <1>3, Unallocated
  <2>14. c + s.offset + s.length <= arrived
    <3>1. g.bytes_shifted + g.offset + g.length <= db.bytes_shifted + bytes
      BY <1>4, <2>2, <2>9, <2>12, <2>13
    <3>2. s.offset + s.length <= bytes
      BY <1>4, <2>2, <2>9, <2>11, <2>12, <3>1
    <3>3. c + bytes = rd
      BY <1>1, <1>3 DEF bytes
    <3> QED BY <1>1, <1>3, <2>2, <2>12, <3>2, <3>3
  <2>15. /\ a \in BufferType /\ a.data = s.data /\ a.offset = s.offset
         /\ a.length = s.length /\ a.unbits = s.unbits /\ a.allocated = s.allocated
         /\ a.bytes_shifted = c
    <3>1. s \in BufferType
      BY <2>11, Zenon DEF BufferOK
    <3>2. a \in BufferType
      BY <1>1, <3>1, Zenon DEF BufferType, a
    <3> QED BY <3>1, <3>2 DEF BufferType, a
  <2>16. BufferOK(a)
    BY <2>11, <2>15, Zenon DEF BufferOK
  <2>17. Holds(a, taken + n, all)
    <3>1. from + e = taken + n
      BY <1>1, <1>3 DEF from
    <3>2. Room(a) = Room(s)
      BY <2>15, Zenon DEF Room
    <3>3. Holds(s, taken + n, all)
      BY <2>11, <3>1
    <3> QED BY <2>15, <3>2, <3>3, Zenon DEF Holds
  <2>18. a.allocated # 0 /\ a.bytes_shifted + a.offset + a.length <= arrived
    BY <2>9, <2>11, <2>12, <2>14, <2>15
  <2>19. IsAdjusted(a, r.code, taken + n)
    BY <2>16, <2>17, <2>18, Zenon DEF IsAdjusted, Buffered, all
  <2> QED BY <2>1, <2>19
<1>8. CASE db.allocated = 0 /\ ~(r.code # "fail" /\ c < rd)
  <2> DEFINE a == [db EXCEPT !.bytes_shifted = @ + c]
             b == CHAR_BIT * db.bytes_shifted
             v == CHAR_BIT * rd
  <2>1. Adjusted(r, c, e) = a
    BY <1>8 DEF Adjusted
  <2>2. /\ a \in BufferType /\ a.data = db.data /\ a.offset = db.offset
        /\ a.length = db.length /\ a.unbits = db.unbits /\ a.allocated = db.allocated
        /\ a.bytes_shifted = db.bytes_shifted + c
    <3>1. db \in BufferType
      BY <1>4, Zenon DEF BufferOK
    <3>2. db.bytes_shifted + c \in Nat
      BY <1>1, <1>4
    <3>3. a \in BufferType
      BY <3>1, <3>2, Zenon DEF BufferType
    <3> QED BY <3>1, <3>3 DEF BufferType
  <2> HIDE DEF a
  <2>3. BufferOK(a)
    BY <1>4, <2>2, Zenon DEF BufferOK
  <2>4. CHAR_BIT * a.bytes_shifted = b + w /\ b <= taken /\ b \in Nat
    <3>1. b <= taken
      BY <1>5, <1>8 DEF IInv, UnbufferedOK
    <3>2. db.bytes_shifted \in Int /\ c \in Int /\ b \in Nat
      BY <1>1, <1>4, WholeOctets
    <3>3. CHAR_BIT * (db.bytes_shifted + c) = b + w
      BY <3>2, OctetsAdd, Zenon
    <3>4. CHAR_BIT * a.bytes_shifted = CHAR_BIT * (db.bytes_shifted + c)
      BY <2>2, Zenon
    <3> QED BY <3>1, <3>2, <3>3, <3>4, Zenon
  <2>5. w <= v => c <= rd
    <3>1. c \in Int /\ rd \in Int
      BY <1>1, <1>3
    <3> QED BY <3>1, OctetsMonotone, Zenon
  <2>6. v = Given /\ (c = rd => w = v)
    BY <1>2, <1>8
  <2> HIDE DEF all, w, b, v
  <2>7. CHAR_BIT * a.bytes_shifted <= taken + n
    <3> DEFINE p == CHAR_BIT * a.bytes_shifted
    <3>1. p = b + w
      BY <2>4
    <3> HIDE DEF p
    <3>2. p <= taken + n
      BY <1>1, <1>3, <2>4, <3>1
    <3> QED BY <3>2 DEF p
  <2>8. r.code # "fail" => taken + n = all
    <3> SUFFICES ASSUME r.code # "fail" PROVE taken + n = all
      OBVIOUS
    <3>1. w <= v
      BY <1>1, <1>2, <1>3, <2>6
    <3>2. c = rd
      BY <1>1, <1>3, <1>8, <2>5, <3>1
    <3> QED BY <1>1, <1>2, <1>3, <2>6, <3>2, SMTT(20)
  <2>9. ~(a.allocated > 0)
    BY <1>8, <2>2
  <2>10. IsAdjusted(a, r.code, taken + n)
    BY <2>3, <2>7, <2>8, <2>9, Zenon DEF IsAdjusted, all
  <2> QED BY <2>1, <2>10
<1> QED BY <1>4, <1>6, <1>7, <1>8

\* IInv over a call of the decoder.
LEMMA DecodeKeeps == IInv /\ Decode => IInv'
<1> SUFFICES ASSUME IInv, Decode PROVE IInv'
  OBVIOUS
<1>1. pc = "decode"
  BY DEF Decode
<1>2. PICK r \in Answers :
        /\ taken' = taken + Unit * r.units
        /\ db' = Adjusted(r, (Unit * r.units) \div CHAR_BIT, (Unit * r.units) % CHAR_BIT)
        /\ tolerate_eof' = Tolerance(r.code)
        /\ CASE r.code = "ok" -> /\ pc' = "call" /\ first_pdu' = FALSE
             [] r.code = "more" -> pc' = "read" /\ first_pdu' = first_pdu
             [] r.code = "fail" -> pc' = "report" /\ first_pdu' = first_pdu
  BY DEF Decode
<1>3. /\ opt' = opt /\ files' = files /\ file' = file /\ arrived' = arrived /\ rd' = rd
      /\ old_offset' = old_offset /\ status' = status
  BY DEF Decode, fileVars
<1> DEFINE n == Unit * r.units
           c == n \div CHAR_BIT
           e == n % CHAR_BIT
<1>4. IsAdjusted(db', r.code, taken')
  <2>1. taken' = taken + n /\ db' = Adjusted(r, c, e)
    BY <1>2
  <2>2. n = Unit * r.units /\ c = n \div CHAR_BIT /\ e = n % CHAR_BIT
    OBVIOUS
  <2> HIDE DEF n, c, e
  <2>3. IsAdjusted(Adjusted(r, c, e), r.code, taken + n)
    BY <1>1, <2>2, AdjustedOK
  <2> QED BY <2>1, <2>3
<1>5. n \in Nat /\ n <= Given /\ r.code \in {"ok", "more", "fail"}
  <2>1. n = Unit * r.units /\ c = n \div CHAR_BIT /\ e = n % CHAR_BIT
    OBVIOUS
  <2> HIDE DEF n, c, e
  <2> QED BY <1>1, <2>1, AnswerBits
<1>6. taken' \in 0 .. CHAR_BIT * arrived'
  <2> DEFINE all == CHAR_BIT * arrived
  <2>1. /\ all \in Nat /\ taken \in Nat /\ Given \in Nat /\ taken + Given = all
        /\ taken' = taken + n
    BY <1>1, <1>2, ArrivedBits, GivenBits DEF IInv
  <2> HIDE DEF all, n
  <2>2. taken' \in 0 .. all
    BY <1>5, <2>1
  <2> QED BY <1>3, <2>2 DEF all
<1>7. /\ pc' \in {"call", "read", "report"} /\ (pc' = "call" => ~first_pdu')
      /\ (r.code = "fail" => pc' = "report")
  BY <1>2, <1>5
<1>8. BufferOK(db') /\ db'.allocated \in Nat
  BY <1>4, BufferFields DEF IsAdjusted
<1>9. TypeOK'
  <2>1. /\ db'.offset \in Nat /\ db'.length \in Nat /\ db'.unbits \in 0 .. CHAR_BIT - 1
        /\ db'.bytes_shifted \in Nat
    BY <1>8, BufferFields
  <2>2. tolerate_eof' \in Int
    BY <1>2 DEF IInv, TypeOK, Tolerance
  <2>3. /\ files' \in 0 .. MaxFiles /\ file' \in 0 .. MaxFile /\ old_offset' \in Nat
        /\ arrived' \in 0 .. file' /\ rd' \in 0 .. arrived'
        /\ status' \in {"open", "eof", "error"}
    BY <1>3 DEF IInv, TypeOK
  <2> QED BY <1>6, <1>7, <2>1, <2>2, <2>3 DEF TypeOK
<1>10. OptOK' /\ JustOpened'
  BY <1>3, <1>7 DEF IInv, OptOK, JustOpened
<1>11. BufferedOK'
  <2>1. Buffered(db', taken') => Buffered(db, taken)'
    BY <1>3 DEF Buffered
  <2> QED BY <1>4, <2>1 DEF IsAdjusted, BufferedOK
<1>12. UnbufferedOK'
  <2>1. db'.allocated = 0 =>
          /\ CHAR_BIT * db'.bytes_shifted <= taken'
          /\ pc' # "report" => taken' = CHAR_BIT * arrived'
    BY <1>3, <1>4, <1>7, Zenon DEF IsAdjusted
  <2>2. pc' # "decode"
    BY <1>7
  <2>3. pc' = "read" \/ pc' = "call" => pc' # "report"
    OBVIOUS
  <2> QED BY <2>1, <2>2, <2>3, Zenon DEF UnbufferedOK
<1> QED BY <1>8, <1>9, <1>10, <1>11, <1>12 DEF IInv

\* Steps between files, and those that change nothing.
LEMMA RestKeeps == IInv /\ (Report \/ OnePdu \/ Quit \/ UNCHANGED vars) => IInv'
<1> SUFFICES ASSUME IInv, Report \/ OnePdu \/ Quit \/ UNCHANGED vars PROVE IInv'
  OBVIOUS
<1>1. /\ opt' = opt /\ files' = files /\ file' = file /\ arrived' = arrived /\ rd' = rd
      /\ old_offset' = old_offset /\ tolerate_eof' = tolerate_eof /\ taken' = taken
      /\ db' = db /\ first_pdu' = first_pdu
  BY DEF Report, OnePdu, Quit, vars, fileVars, callVars
<1>2. TypeOK'
  <2>1. /\ pc' \in {"next", "call", "read", "decode", "report", "exit"}
        /\ status' \in {"open", "eof", "error"}
    BY DEF IInv, TypeOK, Report, OnePdu, Quit, vars
  <2> QED BY <1>1, <2>1 DEF IInv, TypeOK
<1>3. pc' \in {"next", "exit"} \/ pc' = pc
  BY DEF Report, OnePdu, Quit, vars
<1>4. Buffered(db, taken) => Buffered(db, taken)'
  BY <1>1 DEF Buffered
<1>5. OptOK' /\ BufferOK(db)'
  BY <1>1 DEF IInv, OptOK
<1>6. CASE pc' = pc
  <2>1. JustOpened' /\ UnbufferedOK' /\ (Running' => Running)
    BY <1>1, <1>6, Zenon DEF IInv, JustOpened, UnbufferedOK, Running
  <2>2. BufferedOK'
    BY <1>1, <1>4, <2>1 DEF IInv, BufferedOK
  <2> QED BY <1>2, <1>5, <2>1, <2>2 DEF IInv
<1>7. CASE pc' \in {"next", "exit"}
  BY <1>2, <1>5, <1>7 DEF IInv, JustOpened, BufferedOK, UnbufferedOK, Running
<1> QED BY <1>3, <1>6, <1>7

\* IInv is kept by every step.
LEMMA Inductive == Spec => []IInv
<1>1. IInv /\ [Next]_vars => IInv'
  BY OpenFileKeeps, CallDecodeKeeps, ReadKeeps, DecodeKeeps, RestKeeps DEF Next, Program
<1> QED BY <1>1, InitOK, PTL DEF Spec

-----------------------------------------------------------------------------
\* The variables have the types of the code, for octets of any width, any sizes of
\* files and pieces and any number of files.
THEOREM TypeOKHolds == Spec => []TypeOK
<1>1. IInv => TypeOK
  BY DEF IInv
<1> QED BY <1>1, Inductive, PTL

\* Every call of the decoder is given exactly the bits that no call has consumed:
\* the buffer starts with the first of them and ends with the last that was read.
THEOREM ContentIntactHolds == Spec => []ContentIntact
<1>1. IInv => ContentIntact
  <2> SUFFICES ASSUME IInv, pc = "decode" PROVE Handed = Bits(taken, CHAR_BIT * arrived)
    BY DEF ContentIntact
  <2>1. BufferOK(db) /\ db.allocated \in Nat
    BY BufferFields DEF IInv
  <2>2. CASE db.allocated = 0
    BY <2>2 DEF Handed, IInv, UnbufferedOK
  <2>3. CASE db.allocated > 0
    <3> DEFINE off == CHAR_BIT * db.offset
               all == CHAR_BIT * arrived
               s == SubSeq(db.data, off + 1, off + Given)
    <3>1. /\ db.data \in Seq(Int) /\ off \in Nat /\ off + Given <= Len(db.data)
      <4>1. /\ db.data \in Seq(Int) /\ off \in Nat /\ CHAR_BIT * db.length \in Nat
            /\ CHAR_BIT * (db.offset + db.length) = off + CHAR_BIT * db.length
            /\ CHAR_BIT * (db.offset + db.length) <= Len(db.data)
            /\ db.unbits \in Nat /\ Len(db.data) \in Nat
            /\ Room(db) = CHAR_BIT * db.length - db.unbits
        BY <2>1, BufferFields DEF Room
      <4> DEFINE len == CHAR_BIT * db.length
                 end == CHAR_BIT * (db.offset + db.length)
      <4>2. /\ off \in Nat /\ len \in Nat /\ end = off + len /\ end <= Len(db.data)
            /\ Given = len - db.unbits
        BY <2>3, <4>1, GivenBits
      <4> HIDE DEF off, len, end
      <4>3. off + Given <= Len(db.data)
        BY <4>1, <4>2
      <4> QED BY <4>1, <4>2, <4>3
    <3>2. /\ Given \in Nat /\ taken + Given = all /\ taken \in Nat /\ Room(db) = Given
      BY <2>3, GivenBits, ArrivedBits DEF IInv
    <3>3. /\ Room(db) = all - taken
          /\ \A i \in 1 .. all - taken : db.data[off + i] = taken + i
      BY <2>3 DEF IInv, BufferedOK, Running, Buffered, Holds
    <3>4. Handed = s
      BY <2>3 DEF Handed, Cells
    <3> HIDE DEF off, all
    <3>5. /\ s \in Seq(Int) /\ Len(s) = Given
          /\ \A i \in 1 .. Given : s[i] = db.data[off + i]
      <4>1. off + Given \in Nat /\ off <= off + Given /\ (off + Given) - off = Given
        BY <3>1, <3>2
      <4>2. /\ SubSeq(db.data, off + 1, off + Given) \in Seq(Int)
            /\ Len(SubSeq(db.data, off + 1, off + Given)) = (off + Given) - off
            /\ \A i \in 1 .. (off + Given) - off :
                 SubSeq(db.data, off + 1, off + Given)[i] = db.data[off + i]
        BY <3>1, <4>1, PartOfCells
      <4> QED BY <4>1, <4>2
    <3> DEFINE b == Bits(taken, taken + Given)
    <3>6. /\ b \in Seq(Int) /\ Len(b) = Given /\ \A i \in 1 .. Given : b[i] = taken + i
      BY <3>2, BitsType
    <3>7. \A i \in 1 .. Given : s[i] = b[i]
      BY <3>2, <3>3, <3>5, <3>6
    <3> HIDE DEF s, b
    <3>8. s = b
      BY <3>5, <3>6, <3>7, SeqEqual
    <3> QED BY <3>2, <3>4, <3>8 DEF b, all
  <2> QED BY <2>1, <2>2, <2>3
<1> QED BY <1>1, Inductive, PTL

\* No copy and no shift goes beyond what was allocated.
THEOREM WithinAllocationHolds == Spec => []WithinAllocation
<1>1. IInv => WithinAllocation
  BY Zenon DEF IInv, BufferOK, WithinAllocation
<1> QED BY <1>1, Inductive, PTL

\* The byte an error names has been consumed.
THEOREM NeverAheadHolds == Spec => []NeverAhead
<1>1. IInv => NeverAhead
  <2> SUFFICES ASSUME IInv, pc = "report"
               PROVE  CHAR_BIT * (db.bytes_shifted + db.offset) <= taken
    BY DEF NeverAhead
  <2>1. /\ BufferOK(db) /\ db.allocated \in Nat /\ db.bytes_shifted \in Nat
        /\ db.offset \in Nat /\ db.length \in Nat /\ db.unbits \in Nat
    BY BufferFields DEF IInv
  <2>2. CASE db.allocated = 0
    <3>1. db.offset = 0
      BY <2>1, <2>2, Unallocated
    <3>2. db.bytes_shifted + db.offset = db.bytes_shifted
      BY <2>1, <3>1
    <3> QED BY <2>2, <3>2, Zenon DEF IInv, UnbufferedOK, Running
  <2>3. CASE db.allocated > 0
    <3> DEFINE all == CHAR_BIT * arrived
               len == CHAR_BIT * db.length
               at == db.bytes_shifted + db.offset
               p == CHAR_BIT * at
    <3>1. /\ Room(db) = all - taken /\ at + db.length <= arrived
      BY <2>3 DEF IInv, BufferedOK, Running, Buffered, Holds
    <3>2. all \in Nat /\ taken \in Nat /\ arrived \in Nat
      BY ArrivedBits DEF IInv
    <3>3. at \in Nat /\ at \in Int /\ db.length \in Int /\ at + db.length \in Int /\ arrived \in Int
      BY <2>1, <3>2
    <3> HIDE DEF at
    <3>4. p + len <= all
      <4>1. CHAR_BIT * (at + db.length) <= all
        BY <3>1, <3>3, OctetsMonotone, Zenon
      <4>2. CHAR_BIT * (at + db.length) = p + len
        BY <3>3, OctetsAdd, Zenon
      <4> QED BY <4>1, <4>2, Zenon
    <3>5. p \in Nat /\ len \in Nat /\ Room(db) = len - db.unbits
      BY <2>1, <3>3, WholeOctets DEF Room
    <3> HIDE DEF all, len, p
    <3>6. p <= taken
      BY <2>1, <3>1, <3>2, <3>4, <3>5
    <3> QED BY <3>6 DEF p, at
  <2> QED BY <2>1, <2>2, <2>3
<1> QED BY <1>1, Inductive, PTL
=============================================================================
