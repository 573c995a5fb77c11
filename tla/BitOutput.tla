----------------------------- MODULE BitOutput -----------------------------
(***************************************************************************)
(* The output of bits of the PER and OER encoders, asn_bit_outp_t of       *)
(* skeletons/asn_bit_data.c: bits gather in a small buffer inside the      *)
(* structure, tmpspace, and go to the output callback when the next ones   *)
(* do not fit.  The callback may fail at any time.                         *)
(*                                                                         *)
(* A sequence of bits stands for the value and the width an encoder        *)
(* passes, most significant bit first, and tmpspace is the sequence of its *)
(* bits.                                                                   *)
(***************************************************************************)
EXTENDS Integers, Sequences

CONSTANTS TmpSpace,   \* octets of tmpspace, 32 in the code
          Few,        \* what asn_put_few_bits may be asked to put
          Many,       \* what asn_put_many_bits may be asked to put
          MaxStream   \* bound: bits put

Bit   == {0, 1}
Space == 8 * TmpSpace

\* The comment "due to sizeof(tmpspace), we are guaranteed large enough space":
\* 31 bits after 7 of an incomplete octet.
ASSUME SpaceAssumption == TmpSpace \in Nat /\ TmpSpace >= 5 /\ MaxStream \in Nat

ASSUME PayloadAssumption == Few \subseteq Seq(Bit) /\ Many \subseteq Seq(Bit)

VARIABLES
  tmp,            \* po->tmpspace
  buffer,         \* po->buffer as an offset into tmpspace, or NULL
  nboff,          \* po->nboff: bits in use from buffer on
  nbits,          \* po->nbits: bits there are from buffer on
  flushed_bytes,  \* po->flushed_bytes
  out,            \* the bits the callback has taken
  op,             \* the call in progress
  todo,           \* the bits it has not put yet
  encoded         \* er.encoded in the end, Open until then

vars == <<tmp, buffer, nboff, nbits, flushed_bytes, out, op, todo, encoded>>

NULL   == -1
Open   == -1
Failed == -2

Base == IF buffer = NULL THEN 0 ELSE buffer

\* uper_encode and aper_encode start at tmpspace and leave in it what the stack
\* held (nothing but zeros or nothing but ones, say); SEQUENCE_encode_oer clears
\* the structure with memset, so that buffer is NULL and nothing seems to fit.
Init ==
  /\ \/ buffer = 0 /\ nbits = Space /\ tmp \in {[i \in 1 .. Space |-> b] : b \in Bit}
     \/ buffer = NULL /\ nbits = 0 /\ tmp = [i \in 1 .. Space |-> 0]
  /\ nboff = 0 /\ flushed_bytes = 0 /\ out = <<>>
  /\ op = "none" /\ todo = <<>> /\ encoded = Open

(***************************************************************************)
(* The encoder calls.                                                      *)
(***************************************************************************)
Room == MaxStream - 8 * (flushed_bytes + Base) - nboff

Call(function, payloads) ==
  /\ op = "none"
  /\ op' = function
  /\ todo' \in payloads /\ Len(todo') <= Room
  /\ UNCHANGED <<tmp, buffer, nboff, nbits, flushed_bytes, out, encoded>>

CallFew  == Call("few", Few)
CallMany == Call("many", Many)

\* asn_put_many_bits puts 24 bits at a time and then the rest.
Chunk == IF op = "many" /\ Len(todo) >= 24 THEN 24 ELSE Len(todo)
Rest  == SubSeq(todo, Chunk + 1, Len(todo))

\* A call with no bits left returns 0, one with too many for a word -1.
ReturnAtOnce ==
  /\ op \in {"few", "many"} /\ (Chunk = 0 \/ Chunk >= 32)
  /\ op' = "none" /\ todo' = <<>>
  /\ encoded' = IF Chunk = 0 THEN encoded ELSE Failed
  /\ UNCHANGED <<tmp, buffer, nboff, nbits, flushed_bytes, out>>

Putting == op \in {"few", "many"} /\ Chunk \in 1 .. 31

(***************************************************************************)
(* asn_put_few_bits.                                                       *)
(***************************************************************************)
\* "Normalize position indicator."
At   == Base + nboff \div 8
Off  == nboff % 8

\* A slip WithinSpace catches: normalizing without giving up the octets passed.
LeftUndiminished == nbits

\* A slip TypeOK catches: giving up the bits of the incomplete octet, too.
LeftLessAll == nbits - nboff

Left == nbits - 8 * (nboff \div 8)

Fits == Off + Chunk <= Left

\* The bits land after the first p of the buffer; the rest of the last octet they
\* touch is zero.
OctetEnd(p) == 8 * ((p + 7) \div 8)

Written(cells, p, bits) ==
  [i \in 1 .. Space |-> IF i <= p \/ i > OctetEnd(p + Len(bits)) THEN cells[i]
                        ELSE IF i <= p + Len(bits) THEN bits[i - p] ELSE 0]

\* Up to 31 bits from the start of an octet are stored at once; the 31-bit word
\* that reaches beyond is put in two goes, 24 bits of it first.
Store(cells, at, left) ==
  /\ IF Off + Chunk <= 31
       THEN /\ tmp' = Written(cells, 8 * at + Off, SubSeq(todo, 1, Chunk))
            /\ buffer' = at /\ nboff' = Off + Chunk /\ nbits' = left
       ELSE /\ tmp' = Written(Written(cells, 8 * at + Off, SubSeq(todo, 1, 24)),
                              8 * at + Off + 24, SubSeq(todo, 25, Chunk))
            /\ buffer' = at + (Off + 24) \div 8
            /\ nboff' = ((Off + 24) % 8) + Chunk - 24
            /\ nbits' = left - 8 * ((Off + 24) \div 8)
  /\ todo' = Rest
  /\ op' = IF Rest = <<>> THEN "none" ELSE op
  /\ encoded' = encoded

PutInPlace ==
  /\ Putting /\ Fits
  /\ Store(tmp, At, Left)
  /\ UNCHANGED <<flushed_bytes, out>>

\* A slip KeepsTheStream catches: the incomplete octet stays behind.
CarriedNot == tmp

\* The complete octets have gone out, an incomplete one is carried to the front.
Carried == IF Off > 0 THEN [i \in 1 .. Space |-> IF i <= 8 THEN tmp[8 * At + i] ELSE tmp[i]]
           ELSE tmp

PutAfterOutput ==
  /\ Putting /\ ~Fits
  /\ out' = out \o SubSeq(tmp, 1, 8 * At)
  /\ flushed_bytes' = flushed_bytes + At
  /\ Store(Carried, 0, Space)

\* The callback fails: the caller gets -1 and the position stays normalized.
PutFails ==
  /\ Putting /\ ~Fits
  /\ buffer' = At /\ nboff' = Off /\ nbits' = Left
  /\ op' = "none" /\ todo' = <<>> /\ encoded' = Failed
  /\ UNCHANGED <<tmp, flushed_bytes, out>>

(***************************************************************************)
(* asn_put_aligned_flush, and _uper_encode_flush_outp (_aper_...) at the   *)
(* end of uper_encode and aper_encode.  Both clear the unused bits of the  *)
(* last octet.                                                             *)
(***************************************************************************)
Used == 8 * Base + nboff

Masked == [i \in 1 .. Space |-> IF i > Used /\ i <= OctetEnd(Used) THEN 0 ELSE tmp[i]]

AlignedFlush ==
  /\ op = "none"
  /\ tmp' = Masked
  /\ out' = out \o SubSeq(Masked, 1, OctetEnd(Used))
  /\ flushed_bytes' = flushed_bytes + OctetEnd(Used) \div 8
  /\ buffer' = 0 /\ nboff' = 0 /\ nbits' = Space
  /\ UNCHANGED <<op, todo, encoded>>

AlignedFlushFails ==
  /\ op = "none"
  /\ tmp' = Masked
  /\ encoded' = Failed
  /\ UNCHANGED <<buffer, nboff, nbits, flushed_bytes, out, op, todo>>

\* er.encoded is the number of bits; an encoder that was refused any gets no here.
Finish ==
  /\ op = "none" /\ encoded = Open /\ buffer # NULL
  /\ tmp' = Masked
  /\ out' = out \o SubSeq(Masked, 1, OctetEnd(Used))
  /\ encoded' = 8 * flushed_bytes + Used
  /\ op' = "over"
  /\ UNCHANGED <<buffer, nboff, nbits, flushed_bytes, todo>>

FinishFails ==
  /\ op = "none" /\ encoded = Open /\ Used > 0
  /\ tmp' = Masked
  /\ encoded' = Failed /\ op' = "over"
  /\ UNCHANGED <<buffer, nboff, nbits, flushed_bytes, out, todo>>

Next ==
  \/ CallFew \/ CallMany \/ ReturnAtOnce
  \/ PutInPlace \/ PutAfterOutput \/ PutFails
  \/ AlignedFlush \/ AlignedFlushFails \/ Finish \/ FinishFails

Spec == Init /\ [][Next]_vars
-----------------------------------------------------------------------------
(***************************************************************************)
(* Properties.                                                             *)
(***************************************************************************)
\* The variables have the types of the code.
TypeOK ==
  /\ tmp \in [1 .. Space -> Bit]
  /\ buffer \in {NULL} \cup 0 .. TmpSpace
  /\ nboff \in 0 .. 31 /\ nbits \in 0 .. Space
  /\ flushed_bytes \in Nat /\ out \in Seq(Bit)
  /\ op \in {"none", "few", "many", "over"}
  /\ todo \in Seq(Bit)
  /\ encoded \in {Open, Failed} \cup Nat

\* nbits is always what there really is from buffer on, however often the position
\* was normalized, carried to the front or reset, and nothing is in use beyond it:
\* no put writes outside tmpspace.  (A cleared structure has none until its first
\* output succeeds.)
WithinSpace ==
  /\ nboff <= nbits
  /\ nbits = Space - 8 * Base \/ (nbits = 0 /\ Base = 0)

\* Nothing is lost, repeated, reordered or padded in the wrong place, whatever the
\* callback fails on: the callback and the buffer together hold what was accepted,
\* and the size in bits that uper_encode reports is its length.
\* When Finish is over, the buffer has gone out.
Pending == [i \in 1 .. (IF op = "over" /\ encoded >= 0 THEN 0 ELSE Used) |-> tmp[i]]

Stream == INSTANCE BitStream WITH Payloads  <- Few \cup Many,
                                  stream    <- out \o Pending,
                                  delivered <- Len(out)

KeepsTheStream == Stream!Spec
=============================================================================
