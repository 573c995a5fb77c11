-------------------------- MODULE BitOutputProofs --------------------------
(***************************************************************************)
(* For every size of tmpspace from five octets on, all payloads and any    *)
(* failures of the callback: asn_bit_outp_t never writes outside tmpspace, *)
(* and implements BitStream.                                               *)
(***************************************************************************)
EXTENDS BitOutput, SequenceTheorems, TLAPS

\* What the steps rest on besides the types: the position is within the buffer,
\* only a call in progress has bits to put, and the callback has taken whole octets.
IInv ==
  /\ TypeOK
  /\ WithinSpace
  /\ op \in {"none", "over"} => todo = <<>>
  /\ op # "over" => Len(out) = 8 * flushed_bytes
  /\ Len(out) % 8 = 0

-----------------------------------------------------------------------------
(***************************************************************************)
(* Arithmetic of positions.                                                *)
(***************************************************************************)
LEMMA SpaceIsWhole == Space \in Nat /\ Space = 8 * TmpSpace /\ Space >= 40
BY SpaceAssumption DEF Space

\* Octets and the bits left over.
LEMMA DivMod ==
  ASSUME NEW n \in Nat
  PROVE  /\ n \div 8 \in Nat /\ n % 8 \in 0 .. 7
         /\ n = 8 * (n \div 8) + (n % 8)
OBVIOUS

\* Whole octets added to whole octets.
LEMMA Eights ==
  ASSUME NEW a \in Nat, NEW b \in Nat, a % 8 = 0
  PROVE  (a + 8 * b) % 8 = 0 /\ (b % 8 = 0 => (a + b) % 8 = 0)
OBVIOUS

\* OctetEnd rounds a position up to whole octets, and the buffer is one of those.
LEMMA OctetEnds ==
  ASSUME NEW p \in Nat
  PROVE  /\ OctetEnd(p) \in Nat /\ p <= OctetEnd(p) /\ OctetEnd(p) < p + 8
         /\ OctetEnd(p) % 8 = 0
         /\ p <= Space => OctetEnd(p) <= Space
<1>1. (p + 7) \div 8 \in Nat /\ p <= 8 * ((p + 7) \div 8) /\ 8 * ((p + 7) \div 8) < p + 8
  OBVIOUS
<1>2. p <= 8 * TmpSpace => 8 * ((p + 7) \div 8) <= 8 * TmpSpace
  BY <1>1, SpaceAssumption
<1>3. \A k \in Nat : (8 * k) % 8 = 0
  OBVIOUS
<1> QED BY <1>1, <1>2, <1>3 DEF OctetEnd, Space

\* What is left of the buffer, in bits.
LEMMA RoomLeft ==
  ASSUME NEW b \in 0 .. TmpSpace
  PROVE  Space - 8 * b \in 0 .. Space /\ b # NULL
BY SpaceAssumption DEF Space, NULL

\* Normalizing moves whole octets from nboff into the position.
LEMMA Normalized ==
  ASSUME IInv
  PROVE  /\ Base \in 0 .. TmpSpace /\ Used \in 0 .. Space
         /\ At \in 0 .. TmpSpace /\ Off \in 0 .. 7 /\ Used = 8 * At + Off
         /\ Left \in 0 .. Space /\ Off <= Left
         /\ Left = Space - 8 * At \/ (Left = 0 /\ At = 0)
<1>1. Base \in 0 .. TmpSpace /\ nboff \in Nat /\ nbits \in Nat
  BY SpaceAssumption DEF IInv, TypeOK, Base, NULL
<1>2. /\ nboff \div 8 \in Nat /\ nboff % 8 \in 0 .. 7
      /\ nboff = 8 * (nboff \div 8) + (nboff % 8)
  BY <1>1, DivMod
<1>3. nboff <= nbits /\ (nbits = Space - 8 * Base \/ (nbits = 0 /\ Base = 0))
  BY DEF IInv, WithinSpace
<1>4. Used \in 0 .. Space
  BY <1>1, <1>3, SpaceIsWhole DEF Used
<1>5. At \in Nat /\ Off \in 0 .. 7 /\ Used = 8 * At + Off
  BY <1>1, <1>2 DEF At, Off, Used
<1>6. Left \in Int /\ Left = nbits - 8 * (nboff \div 8) /\ Off <= Left
  BY <1>1, <1>2, <1>3 DEF Left, Off
<1>7. Left = Space - 8 * At \/ (Left = 0 /\ At = 0)
  <2>1. CASE nbits = Space - 8 * Base
    BY <1>1, <1>2, <1>6, <2>1, SpaceIsWhole DEF At
  <2>2. CASE nbits = 0 /\ Base = 0
    <3>1. nboff \div 8 = 0
      BY <1>1, <1>2, <1>3, <2>2
    <3> QED BY <1>6, <2>2, <3>1 DEF At
  <2> QED BY <1>3, <2>1, <2>2
<1>8. At <= TmpSpace /\ Left \in 0 .. Space
  BY <1>4, <1>5, <1>6, <1>7, SpaceIsWhole, SpaceAssumption
<1> QED BY <1>1, <1>4, <1>5, <1>6, <1>7, <1>8

\* What SubSeq gives of a sequence of bits.
LEMMA Slice ==
  ASSUME NEW s \in Seq(Bit), NEW m \in Nat \ {0}, NEW n \in 0 .. Len(s)
  PROVE  /\ SubSeq(s, m, n) \in Seq(Bit)
         /\ Len(SubSeq(s, m, n)) = IF m <= n THEN n - m + 1 ELSE 0
         /\ \A i \in 1 .. n - m + 1 : SubSeq(s, m, n)[i] = s[m + i - 1]
<1>1. Len(s) \in Nat
  BY LenProperties
<1>2. \A i \in m .. n : s[i] \in Bit
  BY <1>1, ElementOfSeq
<1>3. m \in Int /\ n \in Int
  BY <1>1
<1> QED BY <1>2, <1>3, SubSeqProperties

-----------------------------------------------------------------------------
(***************************************************************************)
(* The buffer under a put.                                                 *)
(***************************************************************************)
LEMMA WrittenBits ==
  ASSUME NEW cells \in [1 .. Space -> Bit], NEW bits \in Seq(Bit), NEW p \in Nat,
         p + Len(bits) <= Space
  PROVE  /\ Written(cells, p, bits) \in [1 .. Space -> Bit]
         /\ \A i \in 1 .. Space : i <= p => Written(cells, p, bits)[i] = cells[i]
         /\ \A i \in 1 .. Len(bits) : Written(cells, p, bits)[p + i] = bits[i]
<1>1. Len(bits) \in Nat /\ \A i \in 1 .. Len(bits) : bits[i] \in Bit
  BY ElementOfSeq, LenProperties
<1>2. OctetEnd(p + Len(bits)) \in Nat /\ p + Len(bits) <= OctetEnd(p + Len(bits))
  BY <1>1, OctetEnds
<1>3. \A i \in 1 .. Space : i > p /\ i <= p + Len(bits) => i - p \in 1 .. Len(bits)
  BY <1>1, SpaceIsWhole
<1>4. Written(cells, p, bits) \in [1 .. Space -> Bit]
  BY <1>1, <1>3 DEF Written, Bit
<1>5. \A i \in 1 .. Space : i <= p => Written(cells, p, bits)[i] = cells[i]
  BY DEF Written
<1>6. ASSUME NEW i \in 1 .. Len(bits)
      PROVE  Written(cells, p, bits)[p + i] = bits[i]
  <2>1. p + i \in 1 .. Space /\ ~(p + i <= p) /\ p + i <= p + Len(bits) /\ (p + i) - p = i
    BY <1>1, SpaceIsWhole
  <2>2. ~(p + i > OctetEnd(p + Len(bits)))
    BY <1>1, <1>2, <2>1
  <2> QED BY <2>1, <2>2 DEF Written
<1> QED BY <1>4, <1>5, <1>6

\* Whether in one go or in two, the chunk lands right behind the bits before it,
\* and the new position is the end of it.
LEMMA StoreWrites ==
  ASSUME IInv, Putting,
         NEW cells \in [1 .. Space -> Bit], NEW at \in 0 .. TmpSpace, NEW left,
         left = Space - 8 * at, Off + Chunk <= left, Store(cells, at, left)
  PROVE  /\ tmp' \in [1 .. Space -> Bit]
         /\ buffer' \in 0 .. TmpSpace /\ nboff' \in 0 .. 31
         /\ nbits' = Space - 8 * buffer' /\ nboff' <= nbits'
         /\ 8 * buffer' + nboff' = 8 * at + Off + Chunk
         /\ \A i \in 1 .. 8 * at + Off : tmp'[i] = cells[i]
         /\ \A i \in 1 .. Chunk : tmp'[8 * at + Off + i] = todo[i]
<1>1. /\ Off \in 0 .. 7 /\ Chunk \in 1 .. 31 /\ todo \in Seq(Bit) /\ Chunk <= Len(todo)
      /\ Len(todo) \in Nat
  <2>1. Off \in 0 .. 7
    BY Normalized
  <2>2. todo \in Seq(Bit) /\ Len(todo) \in Nat
    BY LenProperties DEF IInv, TypeOK
  <2>3. Chunk \in 1 .. 31
    BY DEF Putting
  <2>4. Chunk <= Len(todo)
    BY <2>2 DEF Chunk
  <2> QED BY <2>1, <2>2, <2>3, <2>4
<1>2. /\ 8 * at + Off \in Nat /\ 8 * at + Off + Chunk <= Space /\ 8 * at + Off <= Space
      /\ at \in Nat /\ TmpSpace \in Nat /\ Space = 8 * TmpSpace
  BY <1>1, SpaceIsWhole, SpaceAssumption
<1>4. CASE Off + Chunk <= 31
  <2> DEFINE bits == SubSeq(todo, 1, Chunk)
  <2>1. bits \in Seq(Bit) /\ Len(bits) = Chunk /\ \A i \in 1 .. Chunk : bits[i] = todo[i]
    <3>1. Chunk \in 0 .. Len(todo) /\ 1 \in Nat \ {0}
      BY <1>1
    <3>2. /\ bits \in Seq(Bit) /\ Len(bits) = IF 1 <= Chunk THEN Chunk - 1 + 1 ELSE 0
          /\ \A i \in 1 .. Chunk - 1 + 1 : bits[i] = todo[1 + i - 1]
      BY <1>1, <3>1, Slice
    <3> HIDE DEF bits
    <3>3. Len(bits) = Chunk
      BY <1>1, <3>2
    <3>4. \A i \in 1 .. Chunk : i \in 1 .. Chunk - 1 + 1 /\ 1 + i - 1 = i
      BY <1>1
    <3> QED BY <3>2, <3>3, <3>4
  <2>2. /\ tmp' = Written(cells, 8 * at + Off, bits)
        /\ buffer' = at /\ nboff' = Off + Chunk /\ nbits' = left
    BY <1>4 DEF Store
  <2> HIDE DEF bits
  <2> DEFINE p == 8 * at + Off
  <2>3. p \in Nat /\ p <= Space /\ p + Len(bits) <= Space
    BY <1>1, <1>2, <2>1
  <2>4. tmp' = Written(cells, p, bits)
    BY <2>2
  <2> HIDE DEF bits, p
  <2>5. /\ tmp' \in [1 .. Space -> Bit]
        /\ \A i \in 1 .. Space : i <= p => tmp'[i] = cells[i]
        /\ \A i \in 1 .. Chunk : tmp'[p + i] = todo[i]
    BY <2>1, <2>3, <2>4, WrittenBits
  <2>6. \A i \in 1 .. p : tmp'[i] = cells[i]
    <3>1. \A i \in 1 .. p : i \in 1 .. Space /\ i <= p
      BY <2>3, SpaceIsWhole
    <3> QED BY <2>5, <3>1
  <2>7. /\ buffer' \in 0 .. TmpSpace /\ nboff' \in 0 .. 31
        /\ nbits' = Space - 8 * buffer' /\ nboff' <= nbits'
        /\ 8 * buffer' + nboff' = 8 * at + Off + Chunk
    <3>1. Off + Chunk \in 0 .. 31 /\ Off + Chunk <= Space - 8 * at
      BY <1>1, <1>2, <1>4
    <3>2. nbits' = Space - 8 * buffer'
      BY <2>2
    <3>3. buffer' \in 0 .. TmpSpace /\ nboff' \in 0 .. 31
      BY <2>2, <3>1
    <3>4. nboff' <= nbits'
      BY <2>2, <3>1
    <3>5. 8 * buffer' + nboff' = 8 * at + Off + Chunk
      BY <1>1, <1>2, <2>2
    <3> QED BY <3>2, <3>3, <3>4, <3>5
  <2> QED BY <2>5, <2>6, <2>7 DEF p
<1>5. CASE ~(Off + Chunk <= 31)
  <2> DEFINE first == SubSeq(todo, 1, 24)
             rest  == SubSeq(todo, 25, Chunk)
             p     == 8 * at + Off
             mid   == Written(cells, p, first)
  <2>1. /\ first \in Seq(Bit) /\ Len(first) = 24 /\ \A i \in 1 .. 24 : first[i] = todo[i]
        /\ rest \in Seq(Bit) /\ Len(rest) = Chunk - 24
        /\ \A i \in 1 .. Chunk - 24 : rest[i] = todo[24 + i]
    <3>1. /\ 24 \in 0 .. Len(todo) /\ Chunk \in 0 .. Len(todo) /\ 25 <= Chunk
          /\ 1 \in Nat \ {0} /\ 25 \in Nat \ {0}
      BY <1>1, <1>5
    <3>2. /\ first \in Seq(Bit) /\ Len(first) = IF 1 <= 24 THEN 24 - 1 + 1 ELSE 0
          /\ \A i \in 1 .. 24 - 1 + 1 : first[i] = todo[1 + i - 1]
      <4> DEFINE n == 24
      <4>1. n \in 0 .. Len(todo)
        BY <3>1
      <4> HIDE DEF n
      <4>2. /\ SubSeq(todo, 1, n) \in Seq(Bit)
            /\ Len(SubSeq(todo, 1, n)) = IF 1 <= n THEN n - 1 + 1 ELSE 0
            /\ \A i \in 1 .. n - 1 + 1 : SubSeq(todo, 1, n)[i] = todo[1 + i - 1]
        BY <1>1, <3>1, <4>1, Slice
      <4> QED BY <4>2 DEF n
    <3>3. /\ rest \in Seq(Bit) /\ Len(rest) = IF 25 <= Chunk THEN Chunk - 25 + 1 ELSE 0
          /\ \A i \in 1 .. Chunk - 25 + 1 : rest[i] = todo[25 + i - 1]
      BY <1>1, <3>1, Slice
    <3> HIDE DEF first, rest
    <3>4. Len(first) = 24 /\ Len(rest) = Chunk - 24
      BY <1>1, <3>1, <3>2, <3>3
    <3>5. \A i \in 1 .. 24 : first[i] = todo[i]
      <4>1. \A i \in 1 .. 24 : i \in 1 .. 24 - 1 + 1 /\ 1 + i - 1 = i
        OBVIOUS
      <4> QED BY <3>2, <4>1
    <3>6. \A i \in 1 .. Chunk - 24 : rest[i] = todo[24 + i]
      <4>1. \A i \in 1 .. Chunk - 24 : i \in 1 .. Chunk - 25 + 1 /\ 25 + i - 1 = 24 + i
        BY <1>1
      <4> QED BY <3>3, <4>1
    <3> QED BY <3>2, <3>3, <3>4, <3>5, <3>6
  <2>2. /\ tmp' = Written(mid, p + 24, rest)
        /\ buffer' = at + (Off + 24) \div 8
        /\ nboff' = ((Off + 24) % 8) + Chunk - 24
        /\ nbits' = left - 8 * ((Off + 24) \div 8)
    BY <1>5 DEF Store
  <2>3. (Off + 24) \div 8 = 3 /\ (Off + 24) % 8 = Off
    BY <1>1
  <2>4. p \in Nat /\ p + 24 + (Chunk - 24) <= Space /\ p + 24 <= Space
    BY <1>1, <1>2, <1>5
  <2> HIDE DEF first, rest, p
  <2>11. p + Len(first) <= Space /\ p + 24 + Len(rest) <= Space /\ p + 24 \in Nat
    BY <2>1, <2>4
  <2>5. /\ mid \in [1 .. Space -> Bit]
        /\ \A i \in 1 .. Space : i <= p => mid[i] = cells[i]
        /\ \A i \in 1 .. 24 : mid[p + i] = todo[i]
    <3>1. /\ mid \in [1 .. Space -> Bit]
          /\ \A i \in 1 .. Space : i <= p => mid[i] = cells[i]
          /\ \A i \in 1 .. Len(first) : mid[p + i] = first[i]
      <4>1. first \in Seq(Bit) /\ p \in Nat /\ p + Len(first) <= Space
        BY <2>1, <2>4, <2>11
      <4> QED BY <4>1, WrittenBits
    <3> HIDE DEF mid
    <3> QED BY <2>1, <3>1
  <2> HIDE DEF mid
  <2>6. /\ tmp' \in [1 .. Space -> Bit]
        /\ \A i \in 1 .. Space : i <= p + 24 => tmp'[i] = mid[i]
        /\ \A i \in 1 .. Chunk - 24 : tmp'[p + 24 + i] = todo[24 + i]
    <3>1. /\ tmp' \in [1 .. Space -> Bit]
          /\ \A i \in 1 .. Space : i <= p + 24 => tmp'[i] = mid[i]
          /\ \A i \in 1 .. Len(rest) : tmp'[p + 24 + i] = rest[i]
      <4> DEFINE at24 == p + 24
      <4>1. at24 \in Nat /\ at24 + Len(rest) <= Space /\ tmp' = Written(mid, at24, rest)
        BY <2>2, <2>11
      <4>2. mid \in [1 .. Space -> Bit] /\ rest \in Seq(Bit)
        BY <2>1, <2>5
      <4> HIDE DEF at24
      <4>3. /\ tmp' \in [1 .. Space -> Bit]
            /\ \A i \in 1 .. Space : i <= at24 => tmp'[i] = mid[i]
            /\ \A i \in 1 .. Len(rest) : tmp'[at24 + i] = rest[i]
        BY <4>1, <4>2, WrittenBits
      <4> QED BY <4>3 DEF at24
    <3> QED BY <2>1, <3>1
  <2>7. \A i \in 1 .. p : tmp'[i] = cells[i]
    <3>1. ASSUME NEW i \in 1 .. p PROVE i \in 1 .. Space /\ i <= p /\ i <= p + 24
      BY <2>4, SpaceIsWhole
    <3> QED BY <2>5, <2>6, <3>1
  <2>8. ASSUME NEW i \in 1 .. Chunk PROVE tmp'[p + i] = todo[i]
    <3>1. CASE i <= 24
      <4>1. i \in 1 .. 24 /\ p + i \in 1 .. Space /\ p + i <= p + 24
        BY <2>4, <3>1, SpaceIsWhole
      <4> QED BY <2>5, <2>6, <4>1
    <3>2. CASE ~(i <= 24)
      <4>1. i - 24 \in 1 .. Chunk - 24 /\ p + 24 + (i - 24) = p + i /\ 24 + (i - 24) = i
        BY <1>1, <2>4, <3>2
      <4> QED BY <2>6, <4>1
    <3> QED BY <3>1, <3>2
  <2>9. /\ buffer' = at + 3 /\ nboff' = Off + Chunk - 24 /\ nbits' = left - 24
    BY <1>1, <2>2, <2>3
  <2>10. /\ buffer' \in 0 .. TmpSpace /\ nboff' \in 0 .. 31
         /\ nbits' = Space - 8 * buffer' /\ nboff' <= nbits'
         /\ 8 * buffer' + nboff' = 8 * at + Off + Chunk
    <3>1. at \in Nat /\ TmpSpace \in Nat /\ 8 * at + Off + Chunk <= 8 * TmpSpace
      BY <1>2, SpaceAssumption, SpaceIsWhole
    <3>2. at + 3 <= TmpSpace /\ Off + Chunk - 24 \in 0 .. 31
      BY <1>1, <1>5, <3>1
    <3> QED BY <1>1, <1>5, <2>9, <3>1, <3>2, SpaceIsWhole
  <2> QED BY <2>6, <2>7, <2>8, <2>10 DEF p
<1> QED BY <1>4, <1>5

\* What the flushes hand over.
LEMMA MaskedBits ==
  ASSUME IInv
  PROVE  /\ Masked \in [1 .. Space -> Bit]
         /\ OctetEnd(Used) \in Used .. Space /\ OctetEnd(Used) % 8 = 0
         /\ OctetEnd(Used) < Used + 8
         /\ SubSeq(Masked, 1, OctetEnd(Used)) \in Seq(Bit)
         /\ Len(SubSeq(Masked, 1, OctetEnd(Used))) = OctetEnd(Used)
         /\ \A i \in 1 .. OctetEnd(Used) :
              SubSeq(Masked, 1, OctetEnd(Used))[i] = IF i <= Used THEN tmp[i] ELSE 0
         /\ \A i \in 1 .. Used : Masked[i] = tmp[i]
<1>1. Used \in 0 .. Space /\ tmp \in [1 .. Space -> Bit]
  BY Normalized DEF IInv, TypeOK
<1>2. OctetEnd(Used) \in Used .. Space /\ OctetEnd(Used) % 8 = 0 /\ OctetEnd(Used) < Used + 8
  BY <1>1, OctetEnds, SpaceIsWhole
<1>3. Masked \in [1 .. Space -> Bit]
  BY <1>1 DEF Masked, Bit
<1>4. \A i \in 1 .. OctetEnd(Used) : i \in 1 .. Space /\ Masked[i] = IF i <= Used THEN tmp[i] ELSE 0
  BY <1>1, <1>2, SpaceIsWhole DEF Masked
<1>5. /\ SubSeq(Masked, 1, OctetEnd(Used)) \in Seq(Bit)
      /\ Len(SubSeq(Masked, 1, OctetEnd(Used))) = OctetEnd(Used)
      /\ \A i \in 1 .. OctetEnd(Used) : SubSeq(Masked, 1, OctetEnd(Used))[i] = Masked[i]
  <2> DEFINE e == OctetEnd(Used)
  <2>1. e \in 0 .. Space /\ \A i \in 1 .. e : Masked[i] \in Bit
    BY <1>1, <1>2, <1>3, <1>4, SpaceIsWhole
  <2> HIDE DEF e
  <2>2. 1 \in Int /\ e \in Int /\ \A i \in 1 .. e : 1 + i - 1 = i
    BY <2>1, SpaceIsWhole
  <2>3. /\ SubSeq(Masked, 1, e) \in Seq(Bit)
        /\ Len(SubSeq(Masked, 1, e)) = IF 1 <= e THEN e - 1 + 1 ELSE 0
        /\ \A i \in 1 .. e - 1 + 1 : SubSeq(Masked, 1, e)[i] = Masked[1 + i - 1]
    BY <2>1, <2>2, SubSeqProperties
  <2> QED BY <2>1, <2>2, <2>3, SpaceIsWhole DEF e
<1>6. \A i \in 1 .. Used : Masked[i] = tmp[i]
  BY <1>1, <1>2, <1>4
<1> QED BY <1>2, <1>3, <1>4, <1>5, <1>6

\* The octet that is not complete finds itself in front, the others can go.
LEMMA CarriedBits ==
  ASSUME IInv
  PROVE  /\ Carried \in [1 .. Space -> Bit]
         /\ \A i \in 1 .. Off : Carried[i] = tmp[8 * At + i]
         /\ SubSeq(tmp, 1, 8 * At) \in Seq(Bit)
         /\ Len(SubSeq(tmp, 1, 8 * At)) = 8 * At
         /\ \A i \in 1 .. 8 * At : SubSeq(tmp, 1, 8 * At)[i] = tmp[i]
<1>1. /\ tmp \in [1 .. Space -> Bit] /\ At \in 0 .. TmpSpace /\ Off \in 0 .. 7
      /\ 8 * At + Off <= Space
  BY Normalized DEF IInv, TypeOK
<1>2. Carried \in [1 .. Space -> Bit] /\ \A i \in 1 .. Off : Carried[i] = tmp[8 * At + i]
  <2>1. CASE Off > 0
    <3>1. 8 * At + 8 <= Space
      BY <1>1, <2>1, SpaceIsWhole, SpaceAssumption
    <3>2. \A i \in 1 .. Space : i <= 8 => 8 * At + i \in 1 .. Space
      BY <1>1, <3>1, SpaceIsWhole
    <3>3. Carried = [i \in 1 .. Space |-> IF i <= 8 THEN tmp[8 * At + i] ELSE tmp[i]]
      BY <2>1 DEF Carried
    <3>4. Carried \in [1 .. Space -> Bit]
      BY <1>1, <3>2, <3>3
    <3>5. \A i \in 1 .. Off : i \in 1 .. Space /\ i <= 8
      BY <1>1, SpaceIsWhole
    <3> QED BY <3>3, <3>4, <3>5
  <2>2. CASE ~(Off > 0)
    BY <1>1, <2>2 DEF Carried
  <2> QED BY <2>1, <2>2
<1>4. \A i \in 1 .. 8 * At : i \in 1 .. Space /\ tmp[i] \in Bit
  BY <1>1, SpaceIsWhole
<1>5. /\ SubSeq(tmp, 1, 8 * At) \in Seq(Bit)
      /\ Len(SubSeq(tmp, 1, 8 * At)) = 8 * At
      /\ \A i \in 1 .. 8 * At : SubSeq(tmp, 1, 8 * At)[i] = tmp[i]
  <2> DEFINE e == 8 * At
  <2>1. e \in Nat /\ \A i \in 1 .. e : tmp[i] \in Bit
    BY <1>1, <1>4
  <2> HIDE DEF e
  <2>2. 1 \in Int /\ e \in Int /\ \A i \in 1 .. e : 1 + i - 1 = i
    BY <2>1
  <2>3. /\ SubSeq(tmp, 1, e) \in Seq(Bit)
        /\ Len(SubSeq(tmp, 1, e)) = IF 1 <= e THEN e - 1 + 1 ELSE 0
        /\ \A i \in 1 .. e - 1 + 1 : SubSeq(tmp, 1, e)[i] = tmp[1 + i - 1]
    BY <2>1, <2>2, SubSeqProperties
  <2> QED BY <2>1, <2>2, <2>3 DEF e
<1> QED BY <1>2, <1>5

-----------------------------------------------------------------------------
(***************************************************************************)
(* The types and the bounds of the buffer.                                 *)
(***************************************************************************)
LEMMA InitHolds == Init => IInv
<1> SUFFICES ASSUME Init PROVE IInv
  OBVIOUS
<1>1. \A b \in Bit : [i \in 1 .. Space |-> b] \in [1 .. Space -> Bit]
  OBVIOUS
<1>2. tmp \in [1 .. Space -> Bit]
  BY <1>1 DEF Init, Bit
<1>3. <<>> \in Seq(Bit) /\ Len(<<>>) = 0
  OBVIOUS
<1>4. TypeOK
  BY <1>2, <1>3, SpaceIsWhole, SpaceAssumption DEF Init, TypeOK, NULL, Open, Failed
<1>5. WithinSpace
  BY SpaceIsWhole DEF Init, WithinSpace, Base, NULL
<1> QED BY <1>3, <1>4, <1>5 DEF Init, IInv

\* The buffer, and what the callback has, after a step that leaves them alone.
LEMMA SameBuffer ==
  ASSUME IInv, UNCHANGED <<tmp, buffer, nboff, nbits, flushed_bytes, out>>,
         op' \in {"none", "few", "many"}, todo' \in Seq(Bit), op' = "none" => todo' = <<>>,
         op # "over", encoded' \in {Open, Failed} \cup Nat
  PROVE  IInv'
BY DEF IInv, TypeOK, WithinSpace, Base

\* What the callback takes joins what it has.
LEMMA TakenBits ==
  ASSUME NEW o \in Seq(Bit), NEW bits \in Seq(Bit)
  PROVE  o \o bits \in Seq(Bit) /\ Len(o \o bits) = Len(o) + Len(bits) /\ Len(o) \in Nat
BY ConcatProperties, LenProperties

\* The bits still to put.
LEMMA RestBits ==
  ASSUME IInv, Putting
  PROVE  Rest \in Seq(Bit) /\ (Rest = <<>> \/ op \in {"few", "many"})
<1>1. todo \in Seq(Bit) /\ Len(todo) \in Nat /\ Chunk \in 1 .. 31
  BY LenProperties DEF IInv, TypeOK, Putting
<1>2. Chunk + 1 \in Nat \ {0} /\ Len(todo) \in 0 .. Len(todo)
  BY <1>1
<1> QED BY <1>1, <1>2, Slice DEF Rest, Putting

\* IInv is kept by every step.
LEMMA StepKeeps == IInv /\ [Next]_vars => IInv'
<1> SUFFICES ASSUME IInv, [Next]_vars PROVE IInv'
  OBVIOUS
<1> USE DEF Open, Failed
<1>1. ASSUME CallFew \/ CallMany PROVE IInv'
  BY <1>1, SameBuffer, PayloadAssumption DEF CallFew, CallMany, Call, IInv, TypeOK
<1>2. CASE ReturnAtOnce
  <2>1. <<>> \in Seq(Bit)
    OBVIOUS
  <2> QED BY <1>2, <2>1, SameBuffer DEF ReturnAtOnce, IInv, TypeOK
<1>3. CASE PutInPlace
  <2>1. Putting /\ Fits /\ Store(tmp, At, Left) /\ UNCHANGED <<flushed_bytes, out>>
    BY <1>3 DEF PutInPlace
  <2>2. /\ At \in 0 .. TmpSpace /\ Off + Chunk <= Left /\ Left = Space - 8 * At
        /\ tmp \in [1 .. Space -> Bit]
    <3>1. Off + Chunk <= Left /\ Chunk \in 1 .. 31
      BY <2>1 DEF Fits, Putting
    <3>2. /\ At \in 0 .. TmpSpace /\ Off \in 0 .. 7 /\ Left \in 0 .. Space
          /\ Left = Space - 8 * At \/ Left = 0
      BY Normalized
    <3>3. Left = Space - 8 * At
      BY <3>1, <3>2, SpaceIsWhole
    <3> QED BY <3>1, <3>2, <3>3 DEF IInv, TypeOK
  <2>3. /\ tmp' \in [1 .. Space -> Bit] /\ buffer' \in 0 .. TmpSpace /\ nboff' \in 0 .. 31
        /\ nbits' = Space - 8 * buffer' /\ nboff' <= nbits'
    BY <2>1, <2>2, StoreWrites
  <2>4. todo' = Rest /\ op' = (IF Rest = <<>> THEN "none" ELSE op) /\ encoded' = encoded
    BY <2>1 DEF Store
  <2>5. nbits' \in 0 .. Space /\ Base' = buffer'
    <3>1. Space - 8 * buffer' \in 0 .. Space /\ buffer' # NULL
      BY <2>3, RoomLeft
    <3> QED BY <2>3, <3>1 DEF Base
  <2>6. TypeOK'
    BY <2>1, <2>3, <2>4, <2>5, RestBits DEF TypeOK, IInv
  <2>7. WithinSpace'
    BY <2>3, <2>5 DEF WithinSpace
  <2> QED BY <2>1, <2>4, <2>6, <2>7 DEF IInv, Putting
<1>4. CASE PutAfterOutput
  <2>1. /\ Putting /\ Store(Carried, 0, Space)
        /\ out' = out \o SubSeq(tmp, 1, 8 * At) /\ flushed_bytes' = flushed_bytes + At
    BY <1>4 DEF PutAfterOutput
  <2>2. 0 \in 0 .. TmpSpace /\ Off + Chunk <= Space /\ Space = Space - 8 * 0
    <3>1. Off \in 0 .. 7 /\ Chunk \in 1 .. 31
      BY <2>1, Normalized DEF Putting
    <3> QED BY <3>1, SpaceIsWhole, SpaceAssumption
  <2>3. /\ tmp' \in [1 .. Space -> Bit] /\ buffer' \in 0 .. TmpSpace /\ nboff' \in 0 .. 31
        /\ nbits' = Space - 8 * buffer' /\ nboff' <= nbits'
    BY <2>1, <2>2, CarriedBits, StoreWrites
  <2>4. todo' = Rest /\ op' = (IF Rest = <<>> THEN "none" ELSE op) /\ encoded' = encoded
    BY <2>1 DEF Store
  <2>5. nbits' \in 0 .. Space /\ Base' = buffer'
    <3>1. Space - 8 * buffer' \in 0 .. Space /\ buffer' # NULL
      BY <2>3, RoomLeft
    <3> QED BY <2>3, <3>1 DEF Base
  <2>6. /\ out' \in Seq(Bit) /\ flushed_bytes' \in Nat
        /\ Len(out') = Len(out) + 8 * At /\ Len(out) \in Nat /\ At \in Nat
    <3>1. out \in Seq(Bit) /\ At \in Nat /\ flushed_bytes \in Nat
      BY Normalized, SpaceAssumption DEF IInv, TypeOK
    <3>2. SubSeq(tmp, 1, 8 * At) \in Seq(Bit) /\ Len(SubSeq(tmp, 1, 8 * At)) = 8 * At
      BY CarriedBits
    <3> QED BY <2>1, <3>1, <3>2, TakenBits
  <2>7. Len(out') = 8 * flushed_bytes' /\ Len(out') % 8 = 0
    <3>1. Len(out) = 8 * flushed_bytes /\ Len(out) % 8 = 0 /\ flushed_bytes \in Nat
      BY <2>1 DEF IInv, TypeOK, Putting
    <3>2. (Len(out) + 8 * At) % 8 = 0
      BY <2>6, <3>1, Eights
    <3>3. flushed_bytes' = flushed_bytes + At
      BY <2>1
    <3> QED BY <2>6, <3>1, <3>2, <3>3
  <2>8. TypeOK'
    BY <2>1, <2>3, <2>4, <2>5, <2>6, RestBits DEF TypeOK, IInv
  <2>9. WithinSpace'
    BY <2>3, <2>5 DEF WithinSpace
  <2> QED BY <2>1, <2>4, <2>7, <2>8, <2>9 DEF IInv, Putting
<1>5. CASE PutFails
  <2>1. buffer' \in 0 .. TmpSpace /\ nboff' \in 0 .. 7 /\ nbits' \in 0 .. Space /\ Base' = buffer'
    BY <1>5, Normalized, SpaceAssumption DEF PutFails, Base, NULL
  <2>2. WithinSpace'
    BY <1>5, <2>1, Normalized DEF PutFails, WithinSpace
  <2>3. <<>> \in Seq(Bit)
    OBVIOUS
  <2>4. TypeOK'
    BY <1>5, <2>1, <2>3 DEF PutFails, IInv, TypeOK
  <2> QED BY <1>5, <2>2, <2>4 DEF PutFails, Putting, IInv
<1>6. CASE AlignedFlush
  <2>1. /\ out' \in Seq(Bit) /\ Len(out') = Len(out) + OctetEnd(Used)
        /\ Len(out) \in Nat /\ OctetEnd(Used) \in Nat /\ OctetEnd(Used) % 8 = 0
    <3>1. out' = out \o SubSeq(Masked, 1, OctetEnd(Used)) /\ out \in Seq(Bit)
      BY <1>6 DEF AlignedFlush, IInv, TypeOK
    <3>2. OctetEnd(Used) \in Nat
      BY Normalized, OctetEnds, SpaceIsWhole
    <3> QED BY <3>1, <3>2, MaskedBits, TakenBits
  <2>2. /\ OctetEnd(Used) \div 8 \in Nat /\ OctetEnd(Used) = 8 * (OctetEnd(Used) \div 8)
    BY <2>1
  <2>3. /\ flushed_bytes' \in Nat /\ Len(out') = 8 * flushed_bytes' /\ Len(out') % 8 = 0
    <3>1. /\ flushed_bytes' = flushed_bytes + OctetEnd(Used) \div 8
          /\ Len(out) = 8 * flushed_bytes /\ Len(out) % 8 = 0 /\ flushed_bytes \in Nat
      BY <1>6 DEF AlignedFlush, IInv, TypeOK
    <3>2. Len(out') % 8 = 0
      BY <2>1, <3>1, Eights
    <3>3. flushed_bytes' \in Nat /\ Len(out') = 8 * flushed_bytes'
      <4> DEFINE k == OctetEnd(Used) \div 8
      <4>1. /\ k \in Nat /\ flushed_bytes' = flushed_bytes + k
            /\ Len(out') = 8 * flushed_bytes + 8 * k
        BY <2>1, <2>2, <3>1
      <4> HIDE DEF k
      <4> QED BY <3>1, <4>1
    <3> QED BY <3>2, <3>3
  <2>4. TypeOK'
    <3>1. tmp' \in [1 .. Space -> Bit]
      BY <1>6, MaskedBits DEF AlignedFlush
    <3>2. buffer' \in 0 .. TmpSpace /\ nboff' \in 0 .. 31 /\ nbits' \in 0 .. Space
      BY <1>6, SpaceIsWhole, SpaceAssumption DEF AlignedFlush
    <3>3. op' = op /\ todo' = todo /\ encoded' = encoded
      BY <1>6 DEF AlignedFlush
    <3> QED BY <2>1, <2>3, <3>1, <3>2, <3>3 DEF IInv, TypeOK
  <2>5. WithinSpace'
    BY <1>6, SpaceIsWhole DEF AlignedFlush, WithinSpace, Base, NULL
  <2> QED BY <1>6, <2>3, <2>4, <2>5 DEF AlignedFlush, IInv
<1>7. CASE AlignedFlushFails
  <2>1. TypeOK' /\ WithinSpace'
    BY <1>7, MaskedBits DEF AlignedFlushFails, IInv, TypeOK, WithinSpace, Base
  <2> QED BY <1>7, <2>1 DEF AlignedFlushFails, IInv
<1>8. CASE Finish
  <2>1. /\ out' \in Seq(Bit) /\ Len(out') = Len(out) + OctetEnd(Used)
        /\ Len(out) \in Nat /\ OctetEnd(Used) \in Nat /\ OctetEnd(Used) % 8 = 0
    <3>1. out' = out \o SubSeq(Masked, 1, OctetEnd(Used)) /\ out \in Seq(Bit)
      BY <1>8 DEF Finish, IInv, TypeOK
    <3>2. OctetEnd(Used) \in Nat
      BY Normalized, OctetEnds, SpaceIsWhole
    <3> QED BY <3>1, <3>2, MaskedBits, TakenBits
  <2>2. Len(out) % 8 = 0 /\ Len(out') % 8 = 0
    BY <2>1, Eights DEF IInv
  <2>3. encoded' \in Nat
    <3>1. flushed_bytes \in Nat /\ Used \in Nat
      BY Normalized, SpaceIsWhole DEF IInv, TypeOK
    <3>2. encoded' = 8 * flushed_bytes + Used
      BY <1>8 DEF Finish
    <3> QED BY <3>1, <3>2
  <2>4. TypeOK' /\ WithinSpace'
    BY <1>8, <2>1, <2>3, MaskedBits DEF Finish, IInv, TypeOK, WithinSpace, Base
  <2> QED BY <1>8, <2>2, <2>4 DEF Finish, IInv
<1>9. CASE FinishFails
  <2>1. TypeOK' /\ WithinSpace'
    BY <1>9, MaskedBits DEF FinishFails, IInv, TypeOK, WithinSpace, Base
  <2> QED BY <1>9, <2>1 DEF FinishFails, IInv
<1>10. CASE UNCHANGED vars
  BY <1>10 DEF vars, IInv, TypeOK, WithinSpace, Base
<1> QED BY <1>1, <1>2, <1>3, <1>4, <1>5, <1>6, <1>7, <1>8, <1>9, <1>10 DEF Next

\* The variables of asn_bit_outp_t keep their types.
THEOREM Typed == Spec => []TypeOK
<1>1. IInv => TypeOK
  BY DEF IInv
<1> QED BY InitHolds, StepKeeps, <1>1, PTL DEF Spec

\* No put writes outside tmpspace, and nbits never claims room that is not there:
\* "due to sizeof(tmpspace), we are guaranteed large enough space".
THEOREM WithinSpaceHolds == Spec => []WithinSpace
<1>1. IInv => WithinSpace
  BY DEF IInv
<1> QED BY InitHolds, StepKeeps, <1>1, PTL DEF Spec

-----------------------------------------------------------------------------
(***************************************************************************)
(* BitOutput implements BitStream.                                         *)
(***************************************************************************)
LEMMA Joined ==
  ASSUME NEW p \in Seq(Bit), NEW b \in Seq(Bit), NEW q \in Seq(Bit),
         Len(q) = Len(p) + Len(b),
         \A i \in 1 .. Len(p) : q[i] = p[i],
         \A i \in 1 .. Len(b) : q[Len(p) + i] = b[i]
  PROVE  q = p \o b
<1>1. Len(p) \in Nat /\ Len(b) \in Nat
  BY LenProperties
<1>2. /\ p \o b \in Seq(Bit) /\ Len(p \o b) = Len(p) + Len(b)
      /\ \A i \in 1 .. Len(p) + Len(b) :
           (p \o b)[i] = IF i <= Len(p) THEN p[i] ELSE b[i - Len(p)]
  BY ConcatProperties
<1>3. ASSUME NEW i \in 1 .. Len(q) PROVE q[i] = (p \o b)[i]
  <2>1. CASE i <= Len(p)
    BY <1>1, <1>2, <1>3, <2>1
  <2>2. CASE ~(i <= Len(p))
    <3>1. i - Len(p) \in 1 .. Len(b) /\ Len(p) + (i - Len(p)) = i
      BY <1>1, <1>3, <2>2
    <3>2. q[i] = b[i - Len(p)]
      BY <3>1
    <3> QED BY <1>1, <1>2, <1>3, <2>2, <3>2
  <2> QED BY <2>1, <2>2
<1> QED BY <1>2, <1>3, SeqEqual

\* Concatenation is associative, in a form that later steps instantiate.
Assoc(x, y, z) == (x \o y) \o z = x \o (y \o z)

\* Concatenation of bits is associative.
LEMMA Associates == \A x, y, z \in Seq(Bit) : Assoc(x, y, z)
BY ConcatAssociative DEF Assoc

\* The first n bits of a buffer as a sequence.
Front(cells, n) == [i \in 1 .. n |-> cells[i]]

\* The first n cells of the buffer.
LEMMA FrontBits ==
  ASSUME NEW cells \in [1 .. Space -> Bit], NEW n \in 0 .. Space
  PROVE  /\ Front(cells, n) \in Seq(Bit) /\ Len(Front(cells, n)) = n
         /\ \A i \in 1 .. n : Front(cells, n)[i] = cells[i]
<1>1. \A i \in 1 .. n : cells[i] \in Bit
  BY SpaceIsWhole
<1>2. n \in Nat
  BY SpaceIsWhole
<1>3. Front(cells, n) \in [1 .. n -> Bit]
  BY <1>1 DEF Front
<1>4. Front(cells, n) \in Seq(Bit)
  BY <1>2, <1>3, SeqDef
<1>5. Len(Front(cells, n)) = n
  BY <1>2, <1>3, <1>4, LenProperties
<1> QED BY <1>4, <1>5 DEF Front

\* Where the abstract stream stands, unless Finish has delivered it all.
LEMMA StreamSoFar ==
  ASSUME IInv, op # "over"
  PROVE  /\ Pending = Front(tmp, Used) /\ Pending \in Seq(Bit) /\ Len(Pending) = Used
         /\ out \in Seq(Bit) /\ Len(out) \in Nat /\ Len(out) % 8 = 0
         /\ out \o Pending \in Seq(Bit) /\ Len(out \o Pending) = Len(out) + Used
<1>1. tmp \in [1 .. Space -> Bit] /\ Used \in 0 .. Space /\ out \in Seq(Bit)
  BY Normalized DEF IInv, TypeOK
<1>2. Pending = Front(tmp, Used)
  BY DEF Pending, Front
<1> QED BY <1>1, <1>2, FrontBits, TakenBits DEF IInv

\* An encoder's padding and the one BitStream speaks of are the same.
LEMMA PadFits ==
  ASSUME NEW a \in Nat, a % 8 = 0, NEW u \in Nat
  PROVE  Stream!PadLength(a + u) = OctetEnd(u) - u
<1>1. (a + u) % 8 = u % 8
  OBVIOUS
<1>2. /\ u % 8 \in 0 .. 7 /\ u \div 8 \in Nat /\ u = 8 * (u \div 8) + (u % 8)
  OBVIOUS
<1>3. CASE u % 8 = 0
  <2>1. (u + 7) \div 8 = u \div 8
    BY <1>2, <1>3
  <2> QED BY <1>1, <1>2, <1>3, <2>1 DEF Stream!PadLength, OctetEnd
<1>4. CASE u % 8 # 0
  <2>1. (u + 7) \div 8 = (u \div 8) + 1
    BY <1>2, <1>4
  <2>2. (8 - (u % 8)) % 8 = 8 - (u % 8)
    BY <1>2, <1>4
  <2> QED BY <1>1, <1>2, <1>4, <2>1, <2>2 DEF Stream!PadLength, OctetEnd
<1> QED BY <1>3, <1>4

\* Flushing the masked buffer delivers the padded stream.
LEMMA FlushPads ==
  ASSUME IInv, op # "over"
  PROVE  /\ out \o SubSeq(Masked, 1, OctetEnd(Used)) = Stream!Padded
         /\ Stream!Padded \in Seq(Bit)
<1> DEFINE zeros == [i \in 1 .. Stream!PadLength(Len(out \o Pending)) |-> 0]
           q     == SubSeq(Masked, 1, OctetEnd(Used))
<1>1. /\ Pending = Front(tmp, Used) /\ Pending \in Seq(Bit) /\ Len(Pending) = Used
      /\ out \in Seq(Bit) /\ Len(out) \in Nat /\ Len(out) % 8 = 0
      /\ Len(out \o Pending) = Len(out) + Used
  BY StreamSoFar
<1>2. Used \in Nat /\ Used \in 0 .. Space /\ tmp \in [1 .. Space -> Bit]
  BY Normalized, SpaceIsWhole DEF IInv, TypeOK
<1>3. OctetEnd(Used) \in Nat /\ OctetEnd(Used) >= Used
  BY <1>2, OctetEnds
<1>4. zeros = [i \in 1 .. OctetEnd(Used) - Used |-> 0]
  BY <1>1, <1>2, PadFits
<1>5. zeros \in Seq(Bit) /\ Len(zeros) = OctetEnd(Used) - Used
  <2> DEFINE k == OctetEnd(Used) - Used
  <2>1. k \in Nat
    BY <1>2, <1>3
  <2> HIDE DEF k
  <2>2. [i \in 1 .. k |-> 0] \in [1 .. k -> Bit]
    BY DEF Bit
  <2>3. [i \in 1 .. k |-> 0] \in Seq(Bit) /\ Len([i \in 1 .. k |-> 0]) = k
    BY <2>1, <2>2, SeqDef, LenProperties
  <2> QED BY <1>4, <2>3 DEF k
<1>6. /\ q \in Seq(Bit) /\ Len(q) = OctetEnd(Used)
      /\ \A i \in 1 .. OctetEnd(Used) : q[i] = IF i <= Used THEN tmp[i] ELSE 0
  BY MaskedBits
<1> HIDE DEF zeros, q
<1>7. \A i \in 1 .. Used : q[i] = Pending[i]
  <2>1. \A i \in 1 .. Used : Front(tmp, Used)[i] = tmp[i]
    BY <1>2, FrontBits
  <2>2. \A i \in 1 .. Used : i \in 1 .. OctetEnd(Used) /\ i <= Used
    BY <1>2, <1>3
  <2> QED BY <1>1, <1>6, <2>1, <2>2
<1>8. \A i \in 1 .. OctetEnd(Used) - Used : q[Used + i] = zeros[i]
  <2>1. ASSUME NEW i \in 1 .. OctetEnd(Used) - Used
        PROVE  Used + i \in 1 .. OctetEnd(Used) /\ ~(Used + i <= Used)
    BY <1>2, <1>3
  <2>2. \A i \in 1 .. OctetEnd(Used) - Used : zeros[i] = 0
    BY <1>4
  <2> QED BY <1>6, <2>1, <2>2
<1>9. Len(q) = Len(Pending) + Len(zeros)
  BY <1>1, <1>2, <1>3, <1>5, <1>6
<1>10. out \o q = (out \o Pending) \o zeros
  <2>1. /\ \A i \in 1 .. Len(Pending) : q[i] = Pending[i]
        /\ \A i \in 1 .. Len(zeros) : q[Len(Pending) + i] = zeros[i]
    BY <1>1, <1>5, <1>7, <1>8
  <2>2. out \in Seq(Bit) /\ Pending \in Seq(Bit) /\ zeros \in Seq(Bit) /\ q \in Seq(Bit)
    BY <1>1, <1>5, <1>6
  <2>3. q = Pending \o zeros
    BY <1>9, <2>1, <2>2, Joined
  <2>4. Assoc(out, Pending, zeros)
    BY <2>2, Associates
  <2> QED BY <2>3, <2>4 DEF Assoc
<1>11. Stream!Padded = (out \o Pending) \o zeros
  BY DEF Stream!Padded, zeros
<1>12. (out \o Pending) \o zeros \in Seq(Bit)
  BY <1>1, <1>5, TakenBits
<1> QED BY <1>10, <1>11, <1>12 DEF q

\* The same buffer contents, as far as they are in use, are the same stream.
LEMMA SamePending ==
  ASSUME IInv, IInv', op # "over", out' = out, Used' = Used,
         op' # "over" \/ encoded' < 0,
         \A i \in 1 .. Used : tmp'[i] = tmp[i]
  PROVE  (out \o Pending)' = out \o Pending
<1>1. Pending = [i \in 1 .. Used |-> tmp[i]] /\ Pending' = [i \in 1 .. Used' |-> tmp'[i]]
  <2>1. ~(op' = "over" /\ encoded' >= 0)
    BY DEF IInv, TypeOK, Open, Failed
  <2> QED BY <2>1 DEF Pending
<1>2. Pending' = Pending
  BY <1>1
<1> QED BY <1>2

\* A chunk stored in the buffer, out of which the octets in gone went to the
\* callback, extends the stream by just that chunk.
LEMMA ChunkJoins ==
  ASSUME IInv, Putting, NEW gone \in Seq(Bit), NEW kept \in Nat,
         Used = Len(gone) + kept, out' = out \o gone, op' # "over",
         Used' = kept + Chunk, Used' \in 0 .. Space, tmp' \in [1 .. Space -> Bit],
         \A i \in 1 .. Len(gone) : gone[i] = tmp[i],
         \A i \in 1 .. kept : tmp'[i] = tmp[Len(gone) + i],
         \A i \in 1 .. Chunk : tmp'[kept + i] = todo[i]
  PROVE  (out \o Pending)' = (out \o Pending) \o SubSeq(todo, 1, Chunk)
<1> DEFINE chunk == SubSeq(todo, 1, Chunk)
           back  == [i \in 1 .. kept |-> tmp[Len(gone) + i]]
<1>1. /\ todo \in Seq(Bit) /\ Chunk \in 1 .. 31 /\ Chunk <= Len(todo) /\ Len(todo) \in Nat
      /\ op # "over" /\ Len(gone) \in Nat /\ tmp \in [1 .. Space -> Bit] /\ Used \in 0 .. Space
  <2>1. /\ todo \in Seq(Bit) /\ Len(todo) \in Nat /\ Len(gone) \in Nat
        /\ tmp \in [1 .. Space -> Bit] /\ Used \in 0 .. Space
    BY Normalized, LenProperties DEF IInv, TypeOK
  <2>2. op \in {"few", "many"} /\ Chunk \in 1 .. 31
    BY DEF Putting
  <2>3. Chunk <= Len(todo)
    BY <2>1 DEF Chunk
  <2> QED BY <2>1, <2>2, <2>3
<1>2. /\ chunk \in Seq(Bit) /\ Len(chunk) = Chunk /\ \A i \in 1 .. Chunk : chunk[i] = todo[i]
  <2>1. Chunk \in 0 .. Len(todo) /\ 1 \in Nat \ {0}
    BY <1>1
  <2>2. /\ chunk \in Seq(Bit) /\ Len(chunk) = IF 1 <= Chunk THEN Chunk - 1 + 1 ELSE 0
        /\ \A i \in 1 .. Chunk - 1 + 1 : chunk[i] = todo[1 + i - 1]
    BY <1>1, <2>1, Slice
  <2> HIDE DEF chunk
  <2> QED BY <1>1, <2>2
<1>3. back \in Seq(Bit) /\ Len(back) = kept /\ \A i \in 1 .. kept : back[i] = tmp[Len(gone) + i]
  <2>1. \A i \in 1 .. kept : tmp[Len(gone) + i] \in Bit
    BY <1>1, SpaceIsWhole
  <2>2. back \in [1 .. kept -> Bit]
    BY <2>1
  <2>3. \A i \in 1 .. kept : back[i] = tmp[Len(gone) + i]
    OBVIOUS
  <2> HIDE DEF back
  <2>4. back \in Seq(Bit)
    BY <2>2, SeqDef
  <2>5. Len(back) = kept
    BY <2>2, <2>4, LenProperties
  <2> QED BY <2>3, <2>4, <2>5
<1> HIDE DEF chunk, back
<1>4. /\ Pending \in Seq(Bit) /\ Len(Pending) = Used /\ out \in Seq(Bit)
      /\ \A i \in 1 .. Used : Pending[i] = tmp[i]
  <2>1. Pending = Front(tmp, Used) /\ Pending \in Seq(Bit) /\ Len(Pending) = Used /\ out \in Seq(Bit)
    BY <1>1, StreamSoFar
  <2>2. \A i \in 1 .. Used : Front(tmp, Used)[i] = tmp[i]
    BY <1>1, FrontBits
  <2> QED BY <2>1, <2>2
<1>5. Pending = gone \o back
  <2>1. \A i \in 1 .. Len(gone) : Pending[i] = gone[i]
    <3>1. \A i \in 1 .. Len(gone) : i \in 1 .. Used
      BY <1>1
    <3> QED BY <1>4, <3>1
  <2>2. \A i \in 1 .. Len(back) : Pending[Len(gone) + i] = back[i]
    <3>1. \A i \in 1 .. kept : Len(gone) + i \in 1 .. Used
      BY <1>1
    <3> QED BY <1>3, <1>4, <3>1
  <2>3. Len(Pending) = Len(gone) + Len(back)
    BY <1>3, <1>4
  <2> QED BY <1>3, <1>4, <2>1, <2>2, <2>3, Joined
<1>6. /\ Pending' \in Seq(Bit) /\ Len(Pending') = kept + Chunk
      /\ \A i \in 1 .. kept + Chunk : (Pending')[i] = tmp'[i]
  <2>1. Pending' = Front(tmp', Used')
    BY DEF Pending, Front
  <2>2. /\ Front(tmp', Used') \in Seq(Bit) /\ Len(Front(tmp', Used')) = Used'
        /\ \A i \in 1 .. Used' : Front(tmp', Used')[i] = tmp'[i]
    BY FrontBits
  <2> QED BY <2>1, <2>2
<1>7. Pending' = back \o chunk
  <2>1. \A i \in 1 .. Len(back) : (Pending')[i] = back[i]
    <3>1. \A i \in 1 .. kept : i \in 1 .. kept + Chunk
      BY <1>1
    <3> QED BY <1>3, <1>6, <3>1
  <2>2. \A i \in 1 .. Len(chunk) : (Pending')[Len(back) + i] = chunk[i]
    <3>1. \A i \in 1 .. Chunk : kept + i \in 1 .. kept + Chunk
      BY <1>1
    <3> QED BY <1>2, <1>3, <1>6, <3>1
  <2>3. Len(Pending') = Len(back) + Len(chunk)
    BY <1>2, <1>3, <1>6
  <2> QED BY <1>2, <1>3, <1>6, <2>1, <2>2, <2>3, Joined
<1>8. (out \o gone) \o (back \o chunk) = (out \o (gone \o back)) \o chunk
  <2>1. back \o chunk \in Seq(Bit) /\ gone \o back \in Seq(Bit)
    BY <1>2, <1>3, TakenBits
  <2>2. /\ Assoc(out, gone, back \o chunk) /\ Assoc(out, gone \o back, chunk)
        /\ Assoc(gone, back, chunk)
    BY <1>2, <1>3, <1>4, <2>1, Associates
  <2> QED BY <2>2 DEF Assoc
<1> QED BY <1>5, <1>7, <1>8 DEF chunk

\* A put that extends the stream by its chunk accepts it.
LEMMA Accepted ==
  ASSUME IInv, IInv', Putting, NEW cells, NEW at, NEW left, Store(cells, at, left),
         (out \o Pending)' = (out \o Pending) \o SubSeq(todo, 1, Chunk),
         Len(out') \in Len(out) .. Len(out \o Pending)
  PROVE  Stream!Next
<1>1. /\ todo' = SubSeq(todo, Chunk + 1, Len(todo)) /\ encoded' = encoded /\ op' # "over"
  <2>1. todo' = Rest /\ op' \in {"none", op} /\ encoded' = encoded
    BY DEF Store
  <2>2. op \in {"few", "many"}
    BY DEF Putting
  <2>3. op' # "over"
    BY <2>1, <2>2
  <2>4. todo' = SubSeq(todo, Chunk + 1, Len(todo))
    BY <2>1 DEF Rest
  <2> QED BY <2>1, <2>3, <2>4
<1>2. Len(todo) \in Nat /\ Chunk \in 1 .. Len(todo)
  <2>1. Len(todo) \in Nat
    BY LenProperties DEF IInv, TypeOK
  <2>2. Chunk \in 1 .. 31 /\ Chunk <= Len(todo)
    BY <2>1 DEF Putting, Chunk
  <2> QED BY <2>1, <2>2
<1>3. Len(out') % 8 = 0
  <2>1. IInv' => Len(out') % 8 = 0
    BY DEF IInv
  <2> QED BY <2>1
<1>4. Stream!Accept
  BY <1>1, <1>2, <1>3 DEF Stream!Accept
<1> QED BY <1>4 DEF Stream!Next

\* What a put, a call and a failure mean on the stream; todo is the same there.
LEMMA StreamStep ==
  ASSUME IInv, IInv', Next
  PROVE  Stream!Next \/ UNCHANGED Stream!vars
<1>0. /\ out \in Seq(Bit) /\ Len(out) \in Nat /\ tmp \in [1 .. Space -> Bit]
      /\ Used \in 0 .. Space /\ todo \in Seq(Bit) /\ Len(todo) \in Nat
      /\ Open = -1 /\ Failed = -2 /\ encoded \in {Open, Failed} \cup Nat
  BY Normalized, LenProperties DEF IInv, TypeOK, Open, Failed
<1>1. CASE CallFew \/ CallMany
  <2>1. /\ op = "none" /\ op' # "over" /\ out' = out /\ encoded' = encoded /\ tmp' = tmp
        /\ Used' = Used /\ todo' \in Few \cup Many
    <3>1. CASE CallFew
      BY <3>1 DEF CallFew, Call, Used, Base
    <3>2. CASE CallMany
      BY <3>2 DEF CallMany, Call, Used, Base
    <3> QED BY <1>1, <3>1, <3>2
  <2>2. todo = <<>>
    BY <2>1 DEF IInv
  <2>3. (out \o Pending)' = out \o Pending
    BY <2>1, SamePending
  <2>4. Stream!Ask
    BY <2>1, <2>2, <2>3 DEF Stream!Ask
  <2> QED BY <2>4 DEF Stream!Next
<1>2. CASE ReturnAtOnce
  <2>1. /\ op # "over" /\ op' # "over" /\ out' = out /\ tmp' = tmp /\ Used' = Used
        /\ encoded' \in {encoded, Failed} /\ todo' = <<>>
    BY <1>2 DEF ReturnAtOnce, Used, Base
  <2>2. (out \o Pending)' = out \o Pending
    BY <2>1, SamePending
  <2>3. Stream!Refuse
    BY <1>0, <2>1, <2>2 DEF Stream!Refuse, Stream!Failed, Failed
  <2> QED BY <2>3 DEF Stream!Next
<1>3. CASE PutFails
  <2>1. /\ op # "over" /\ op' # "over" /\ out' = out /\ tmp' = tmp /\ encoded' = Failed /\ todo' = <<>>
    BY <1>3 DEF PutFails, Putting
  <2>2. Used' = Used
    BY <1>3, Normalized, SpaceAssumption DEF PutFails, Used, Base, NULL
  <2>3. (out \o Pending)' = out \o Pending
    BY <2>1, <2>2, SamePending
  <2>4. Stream!Refuse
    BY <1>0, <2>1, <2>3 DEF Stream!Refuse, Stream!Failed, Failed
  <2> QED BY <2>4 DEF Stream!Next
<1>4. CASE AlignedFlushFails
  <2>1. /\ op = "none" /\ op' # "over" /\ out' = out /\ tmp' = Masked /\ encoded' = Failed
        /\ todo' = todo /\ Used' = Used
    BY <1>4 DEF AlignedFlushFails, Used, Base
  <2>2. \A i \in 1 .. Used : tmp'[i] = tmp[i]
    BY <1>0, <2>1, SpaceIsWhole DEF Masked
  <2>3. (out \o Pending)' = out \o Pending
    BY <2>1, <2>2, SamePending
  <2>4. todo = <<>>
    BY <2>1 DEF IInv
  <2>5. Stream!Refuse
    BY <1>0, <2>1, <2>3, <2>4 DEF Stream!Refuse, Stream!Failed, Failed
  <2> QED BY <2>5 DEF Stream!Next
<1>5. CASE FinishFails
  <2>1. /\ op = "none" /\ encoded' < 0 /\ out' = out /\ tmp' = Masked /\ encoded' = Failed
        /\ todo' = todo /\ Used' = Used
    BY <1>5 DEF FinishFails, Used, Base, Failed
  <2>2. \A i \in 1 .. Used : tmp'[i] = tmp[i]
    BY <1>0, <2>1, SpaceIsWhole DEF Masked
  <2>3. (out \o Pending)' = out \o Pending
    BY <2>1, <2>2, SamePending
  <2>4. todo = <<>>
    BY <2>1 DEF IInv
  <2>5. Stream!Refuse
    BY <1>0, <2>1, <2>3, <2>4 DEF Stream!Refuse, Stream!Failed, Failed
  <2> QED BY <2>5 DEF Stream!Next
<1>6. CASE AlignedFlush
  <2>1. /\ op = "none" /\ op' = op /\ todo' = todo /\ encoded' = encoded /\ Used' = 0
        /\ out' = out \o SubSeq(Masked, 1, OctetEnd(Used))
    BY <1>6 DEF AlignedFlush, Used, Base, NULL
  <2>2. todo = <<>> /\ op' # "over"
    BY <2>1 DEF IInv
  <2>3. out' = Stream!Padded /\ out' \in Seq(Bit)
    BY <2>1, FlushPads
  <2>4. (out \o Pending)' = out'
    <3>1. Pending' = <<>>
      BY <2>1, <2>2 DEF Pending
    <3> QED BY <2>3, <3>1, ConcatProperties
  <2>5. Stream!Flush
    BY <2>1, <2>2, <2>3, <2>4 DEF Stream!Flush, Stream!FlushWith
  <2> QED BY <2>5 DEF Stream!Next
<1>7. CASE Finish
  <2>1. /\ op = "none" /\ op' = "over" /\ todo' = todo
        /\ encoded' = 8 * flushed_bytes + Used
        /\ out' = out \o SubSeq(Masked, 1, OctetEnd(Used))
    BY <1>7 DEF Finish
  <2>2. todo = <<>> /\ Len(out) = 8 * flushed_bytes
    BY <2>1 DEF IInv
  <2>3. out' = Stream!Padded /\ out' \in Seq(Bit)
    BY <2>1, FlushPads
  <2>4. encoded' = Len(out \o Pending)
    BY <2>1, <2>2, StreamSoFar
  <2>5. encoded' >= 0
    BY <1>0, <2>1, <2>2, SpaceIsWhole
  <2>6. (out \o Pending)' = out'
    <3>1. Pending' = <<>>
      BY <2>1, <2>5 DEF Pending
    <3> QED BY <2>3, <3>1, ConcatProperties
  <2>7. Stream!Close
    BY <2>1, <2>2, <2>3, <2>4, <2>6 DEF Stream!Close, Stream!FlushWith
  <2> QED BY <2>7 DEF Stream!Next
<1>8. CASE PutInPlace
  <2>1. /\ Putting /\ op # "over" /\ Store(tmp, At, Left) /\ out' = out
    BY <1>8 DEF PutInPlace, Putting
  <2>2. /\ At \in 0 .. TmpSpace /\ Off + Chunk <= Left /\ Left = Space - 8 * At
        /\ Off \in 0 .. 7 /\ Chunk \in 1 .. 31 /\ Used = 8 * At + Off
    <3>1. Off + Chunk <= Left /\ Chunk \in 1 .. 31
      BY <1>8 DEF PutInPlace, Fits, Putting
    <3> QED BY <3>1, Normalized, SpaceIsWhole
  <2>3. /\ tmp' \in [1 .. Space -> Bit] /\ buffer' \in 0 .. TmpSpace
        /\ 8 * buffer' + nboff' = 8 * At + Off + Chunk
        /\ \A i \in 1 .. 8 * At + Off : tmp'[i] = tmp[i]
        /\ \A i \in 1 .. Chunk : tmp'[8 * At + Off + i] = todo[i]
    BY <1>0, <2>1, <2>2, StoreWrites
  <2>4. /\ <<>> \in Seq(Bit) /\ Len(<<>>) = 0 /\ out' = out \o <<>>
    BY <1>0, <2>1, ConcatProperties
  <2>5. /\ Used' = Used + Chunk /\ Used \in Nat
    <3>1. Base' = buffer' /\ buffer' \in Nat /\ Used' = 8 * Base' + nboff'
      BY <2>3, SpaceAssumption DEF Used, Base, NULL
    <3>2. Used' = 8 * At + Off + Chunk
      BY <2>3, <3>1
    <3>3. Used \in Nat
      BY <1>0, SpaceIsWhole
    <3> QED BY <2>2, <3>2, <3>3
  <2>6. Used' \in 0 .. Space
    BY Normalized, SpaceIsWhole, <2>2, <2>5
  <2>7. (out \o Pending)' = (out \o Pending) \o SubSeq(todo, 1, Chunk)
    <3>1. /\ Used = Len(<<>>) + Used /\ Used' = Used + Chunk
          /\ \A i \in 1 .. Len(<<>>) : <<>>[i] = tmp[i]
          /\ \A i \in 1 .. Used : tmp'[i] = tmp[Len(<<>>) + i]
          /\ \A i \in 1 .. Chunk : tmp'[Used + i] = todo[i]
      BY <2>2, <2>3, <2>4, <2>5
    <3>2. op' # "over"
      BY <2>1 DEF Store
    <3> QED BY <2>1, <2>3, <2>4, <2>5, <2>6, <3>1, <3>2, ChunkJoins
  <2>8. Len(out') \in Len(out) .. Len(out \o Pending)
    <3>1. Len(out \o Pending) = Len(out) + Used
      BY <2>1, StreamSoFar
    <3> QED BY <1>0, <2>1, <2>5, <3>1
  <2> QED BY <2>1, <2>7, <2>8, Accepted
<1>9. CASE PutAfterOutput
  <2> DEFINE gone == SubSeq(tmp, 1, 8 * At)
  <2>1. /\ Putting /\ op # "over" /\ Store(Carried, 0, Space) /\ out' = out \o gone
    BY <1>9 DEF PutAfterOutput, Putting
  <2>2. /\ 0 \in 0 .. TmpSpace /\ Off + Chunk <= Space /\ Space = Space - 8 * 0
        /\ Off \in 0 .. 7 /\ Chunk \in 1 .. 31 /\ Used = 8 * At + Off /\ At \in Nat
    <3>1. Off \in 0 .. 7 /\ Chunk \in 1 .. 31
      BY <2>1, Normalized DEF Putting
    <3> QED BY <3>1, Normalized, SpaceIsWhole, SpaceAssumption
  <2>3. /\ tmp' \in [1 .. Space -> Bit] /\ buffer' \in 0 .. TmpSpace
        /\ 8 * buffer' + nboff' = 8 * 0 + Off + Chunk
        /\ \A i \in 1 .. 8 * 0 + Off : tmp'[i] = Carried[i]
        /\ \A i \in 1 .. Chunk : tmp'[8 * 0 + Off + i] = todo[i]
    BY <2>1, <2>2, CarriedBits, StoreWrites
  <2>4. /\ gone \in Seq(Bit) /\ Len(gone) = 8 * At
        /\ \A i \in 1 .. 8 * At : gone[i] = tmp[i]
        /\ \A i \in 1 .. Off : Carried[i] = tmp[8 * At + i]
    BY CarriedBits
  <2> HIDE DEF gone
  <2>5. /\ Used' = Off + Chunk /\ Used' \in 0 .. Space
    <3>1. Base' = buffer' /\ buffer' \in Nat /\ Used' = 8 * Base' + nboff'
      BY <2>3, SpaceAssumption DEF Used, Base, NULL
    <3>2. Off + Chunk \in 0 .. Space
      BY <2>2, SpaceIsWhole
    <3>3. Used' = Off + Chunk
      BY <2>2, <2>3, <3>1
    <3> QED BY <3>2, <3>3
  <2>6. (out \o Pending)' = (out \o Pending) \o SubSeq(todo, 1, Chunk)
    <3>1. /\ Used = Len(gone) + Off /\ Off \in Nat
          /\ \A i \in 1 .. Len(gone) : gone[i] = tmp[i]
      BY <2>2, <2>4
    <3>2. /\ \A i \in 1 .. Off : tmp'[i] = tmp[Len(gone) + i]
          /\ \A i \in 1 .. Chunk : tmp'[Off + i] = todo[i]
      BY <2>2, <2>3, <2>4
    <3>3. op' # "over"
      BY <2>1 DEF Store
    <3> QED BY <2>1, <2>3, <2>4, <2>5, <3>1, <3>2, <3>3, ChunkJoins
  <2>7. Len(out') \in Len(out) .. Len(out \o Pending)
    <3>1. Len(out') = Len(out) + 8 * At
      BY <1>0, <2>1, <2>4, TakenBits
    <3>2. Len(out \o Pending) = Len(out) + Used
      BY <2>1, StreamSoFar
    <3> QED BY <1>0, <2>2, <3>1, <3>2
  <2> QED BY <2>1, <2>6, <2>7, Accepted
<1> QED BY <1>1, <1>2, <1>3, <1>4, <1>5, <1>6, <1>7, <1>8, <1>9 DEF Next

\* The callback and the buffer together hold what was accepted, in order, padded
\* only where a flush pads, whatever the callback fails on; and the size that
\* uper_encode reports is the length of it.
THEOREM Implements == Spec => KeepsTheStream
<1>1. Init => Stream!Init
  <2> SUFFICES ASSUME Init PROVE Stream!Init
    OBVIOUS
  <2>1. Used = 0 /\ out = <<>> /\ todo = <<>> /\ encoded = Open
    BY DEF Init, Used, Base, NULL
  <2>2. Pending = <<>>
    BY <2>1 DEF Pending, Init
  <2> QED BY <2>1, <2>2 DEF Stream!Init, Stream!Open, Open
<1>2. IInv /\ IInv' /\ [Next]_vars => [Stream!Next]_Stream!vars
  <2> SUFFICES ASSUME IInv, IInv', [Next]_vars PROVE Stream!Next \/ UNCHANGED Stream!vars
    OBVIOUS
  <2>1. CASE UNCHANGED vars
    BY <2>1 DEF vars, Stream!vars, Pending, Used, Base
  <2> QED BY <2>1, StreamStep
<1> QED BY InitHolds, StepKeeps, <1>1, <1>2, PTL DEF Spec, KeepsTheStream, Stream!Spec
=============================================================================
