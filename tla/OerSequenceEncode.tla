------------------------- MODULE OerSequenceEncode -------------------------
(***************************************************************************)
(* Encoding a SEQUENCE in OER through asn_encode and its variants:         *)
(* SEQUENCE_encode_oer of skeletons/constr_SEQUENCE_oer.c emits a preamble *)
(* of presence bits, the root members, the presence bitmap of the          *)
(* extension additions and these as open types, each in a loop of its own  *)
(* that judges presence anew.  Each output may be the one that fails.      *)
(*                                                                         *)
(* Bits gather in an asn_bit_outp_t (module BitOutput) which has no buffer *)
(* before its first output, so the first bit put causes an output of no    *)
(* octets, and the flush the output of all the rest.                       *)
(***************************************************************************)
EXTENDS EncodeSink, Sequences

CONSTANTS
  Elements,    \* td->elements: [optional, defaulted (has default_value_cmp), chunks]
  FirstExt     \* specs->first_extension, -1: not extensible

N == Len(Elements)
El(e) == Elements[e + 1]

Extensible == FirstExt >= 0
RootEnd    == IF Extensible THEN FirstExt ELSE N
Root       == 0 .. RootEnd - 1
Additions  == RootEnd .. N - 1

BitmapBits   == Cardinality({e \in Root : El(e).optional})
PreambleBits == BitmapBits + (IF Extensible THEN 1 ELSE 0)

\* The compiler makes every addition optional, and what has a default is; bitmaps
\* stay within a tmpspace of 32 octets.  chunks: the sizes of the outputs of the
\* member's encoder, at least one.
ASSUME TableAssumption ==
  /\ N \in Nat \ {0} /\ FirstExt \in -1 .. N
  /\ \A e \in 0 .. N - 1 : /\ El(e).defaulted \/ e \in Additions => El(e).optional
                           /\ El(e).chunks \in Seq(Nat) \ {<<>>}
  /\ PreambleBits <= 256 /\ 16 + N <= 256

\* The octets of all outputs of an encoder.
Total(outputs) ==
  LET sum[i \in 0 .. Len(outputs)] == IF i = 0 THEN 0 ELSE sum[i - 1] + outputs[i]
  IN sum[Len(outputs)]

\* Octets are counted in a size_t.
ASSUME SizeAssumption ==
  \A e \in Additions : \E k \in 1 .. 8 : Total(El(e).chunks) < 256^k

VARIABLES
  has,             \* the structure: a status of every member
  pc, edx,         \* where the encoder is, and its loop variable
  chunks,          \* outputs of the running member encoder still to come
  computed_size,   \* local of SEQUENCE_encode_oer
  extended,        \* the extension bit the output holds
  claimed,         \* members a presence bit in the output says are there
  written,         \* members that are in the output whole
  encoded          \* er.encoded in the end, Open until then

encoder == <<has, pc, edx, chunks, computed_size, extended, claimed, written, encoded>>
vars == <<encoder, sink>>

Open    == -1
Failed  == -2
Aborted == -3

\* "broken" is a value the encoder of the member rejects.
Statuses(e) == {"absent", "coded", "broken"} \cup (IF El(e).defaulted THEN {"default"} ELSE {})

\* Not missing, and not the default value either.
There(e) == has[e] \in {"coded", "broken"}

\* A slip SelfDescribing catches: default values among the additions count.
HasExtensionsPresent == \E e \in Additions : has[e] # "absent"

HasExtensions == \E e \in Additions : There(e)

Init ==
  /\ has \in {h \in [0 .. N - 1 -> {"absent", "coded", "broken", "default"}] :
                \A e \in 0 .. N - 1 : h[e] \in Statuses(e)}
  /\ pc = (IF PreambleBits > 0 THEN "preamble" ELSE "root") /\ edx = 0
  /\ chunks = <<>> /\ computed_size = 0
  /\ extended = FALSE /\ claimed = {} /\ written = {}
  /\ encoded = Open
  /\ InitSink

Over(result) == /\ pc' = "over" /\ encoded' = result
                /\ UNCHANGED <<has, edx, chunks, computed_size, extended, claimed, written>>

(***************************************************************************)
(* The preamble.  "assert(ret == 0)" follows the first put, if that is the *)
(* extension bit.                                                          *)
(***************************************************************************)
StartPreamble ==
  /\ pc = "preamble"
  /\ \/ Accept(0) /\ pc' = "preamble flush"
        /\ UNCHANGED <<has, edx, chunks, computed_size, extended, claimed, written, encoded>>
     \/ Refuse /\ Over(IF Extensible THEN Aborted ELSE Failed)

Octets(bits) == (bits + 7) \div 8

\* A slip EncodedIsProduced catches: the bits are not counted.
CountedNot(n) == computed_size

\* "computed_size += preamble.flushed_bytes" and "+= extadds.flushed_bytes".
Counted(n) == computed_size + n

\* What asn_put_aligned_flush returns is not looked at.
FlushPreamble ==
  /\ pc = "preamble flush"
  /\ \/ /\ Accept(Octets(PreambleBits))
        /\ computed_size' = Counted(Octets(PreambleBits))
        /\ extended' = HasExtensions
        /\ claimed' = {e \in Root : El(e).optional /\ There(e)}
     \/ Refuse /\ UNCHANGED <<computed_size, extended, claimed>>
  /\ pc' = "root"
  /\ UNCHANGED <<has, edx, chunks, written, encoded>>

(***************************************************************************)
(* The members of the root and, as open types, the additions.              *)
(***************************************************************************)
At(phase, last) == pc = phase /\ edx <= last /\ chunks = <<>>

PassOver(phase, last) ==
  /\ At(phase, last)
  /\ ~There(edx) /\ (has[edx] = "default" \/ El(edx).optional)
  /\ edx' = edx + 1
  /\ UNCHANGED <<has, pc, chunks, computed_size, extended, claimed, written, encoded, sink>>

RejectMember(phase, last) ==
  /\ At(phase, last)
  /\ has[edx] = "broken" \/ (has[edx] = "absent" /\ ~El(edx).optional)
  /\ Over(Failed) /\ UNCHANGED sink

StartMember(phase, last, outputs) ==
  /\ At(phase, last) /\ has[edx] = "coded"
  /\ chunks' = outputs
  /\ UNCHANGED <<has, pc, edx, computed_size, extended, claimed, written, encoded, sink>>

\* oer_serialize_length
LengthOctets(n) ==
  IF n <= 127 THEN 1 ELSE 1 + CHOOSE k \in 1 .. 8 : 256^(k - 1) <= n /\ n < 256^k

\* oer_open_type_put counts the octets first.
OpenType(e) == <<LengthOctets(Total(El(e).chunks))>> \o El(e).chunks

OmitMember   == PassOver("root", RootEnd - 1) \/ PassOver("additions", N - 1)
RefuseMember == RejectMember("root", RootEnd - 1) \/ RejectMember("additions", N - 1)
EncodeMember == \/ StartMember("root", RootEnd - 1, El(edx).chunks)
                \/ StartMember("additions", N - 1, OpenType(edx))

\* A member encoder fails when its output does.
OutputChunk ==
  /\ pc \in {"root", "additions"} /\ chunks # <<>>
  /\ \/ /\ Accept(Head(chunks))
        /\ computed_size' = computed_size + Head(chunks)
        /\ chunks' = Tail(chunks)
        /\ IF Len(chunks) = 1 THEN edx' = edx + 1 /\ written' = written \cup {edx}
           ELSE UNCHANGED <<edx, written>>
        /\ UNCHANGED <<has, pc, extended, claimed, encoded>>
     \/ Refuse /\ Over(Failed)

(***************************************************************************)
(* After the root: the bitmap of the additions (X.696 #16.4), if any.      *)
(***************************************************************************)
Encoded ==
  /\ chunks = <<>>
  /\ \/ pc = "root" /\ edx = RootEnd /\ ~HasExtensions
     \/ pc = "additions" /\ edx = N
  /\ Over(computed_size) /\ UNCHANGED sink

StartBitmap ==
  /\ pc = "root" /\ edx = RootEnd /\ chunks = <<>> /\ HasExtensions
  /\ \/ Accept(0) /\ pc' = "bitmap flush"
        /\ UNCHANGED <<has, edx, chunks, computed_size, extended, claimed, written, encoded>>
     \/ Refuse /\ Over(Failed)

\* A length, the number of unused bits, and a bit for every addition; again nobody
\* looks at what asn_put_aligned_flush returns.
FlushBitmap ==
  /\ pc = "bitmap flush"
  /\ \/ /\ Accept(Octets(16 + N - RootEnd))
        /\ computed_size' = Counted(Octets(16 + N - RootEnd))
        /\ claimed' = claimed \cup {e \in Additions : There(e)}
     \/ Refuse /\ UNCHANGED <<computed_size, claimed>>
  /\ pc' = "additions"
  /\ UNCHANGED <<has, edx, chunks, extended, written, encoded>>

Next ==
  \/ StartPreamble \/ FlushPreamble
  \/ OmitMember \/ RefuseMember \/ EncodeMember \/ OutputChunk
  \/ StartBitmap \/ FlushBitmap \/ Encoded

Spec == Init /\ [][Next]_vars
-----------------------------------------------------------------------------
(***************************************************************************)
(* Properties.                                                             *)
(***************************************************************************)
\* The variables have the types of the code.
TypeOK ==
  /\ has \in [0 .. N - 1 -> {"absent", "coded", "broken", "default"}]
  /\ pc \in {"preamble", "preamble flush", "root", "bitmap flush", "additions", "over"}
  /\ edx \in 0 .. N /\ chunks \in Seq(Nat) /\ computed_size \in Nat
  /\ extended \in BOOLEAN /\ claimed \subseteq 0 .. N - 1 /\ written \subseteq 0 .. N - 1
  /\ encoded \in {Open, Failed, Aborted} \cup Nat
  /\ capacity \in Nat /\ produced \in Nat /\ failed \in BOOLEAN
  /\ stored \subseteq 0 .. produced - 1

\* What the presence bits say is what follows them, although every loop of
\* SEQUENCE_encode_oer judges presence and defaults for itself: a decoder reads
\* just the members that are there.
SelfDescribing ==
  encoded >= 0 /\ ~failed =>
    /\ claimed = {e \in written : El(e).optional}
    /\ extended <=> claimed \cap Additions # {}
    /\ \A e \in Root : ~El(e).optional => e \in written

\* "assert(er.encoded < 0 || (size_t)er.encoded == buf_key.computed_size)" of
\* asn_encode_to_buffer: the encoder counts what it puts out.
EncodedIsProduced == encoded >= 0 /\ ~failed => encoded = produced

\* asn_encode_to_buffer never writes beyond the caller's buffer, leaves no hole in
\* what it wrote when small outputs follow one that did not fit, and an encoding
\* reported no larger than the buffer is there whole (the contract of snprintf).
BufferIsPrefix ==
  kind = "fixed" =>
    /\ \E n \in 0 .. offered : stored = 0 .. n - 1
    /\ encoded >= 0 /\ encoded <= offered => stored = 0 .. encoded - 1

\* asn_encode_to_new_buffer has the whole encoding so far and room for the zero it
\* ends with ("assert(buf_key.computed_size < buf_key.buffer_size)"), or nothing.
NewBufferIsWhole ==
  kind = "dynamic" =>
    IF capacity = 0 THEN stored = {}
    ELSE stored = 0 .. produced - 1 /\ produced < capacity

\* skeletons/asn_application.c:151, "assert(er.encoded == -1)" once the callback
\* has failed; asn_application.h:121: "-1: Failed to consume bytes. Abort the
\* mission."
FailureAbortsTheMission == failed => encoded < 0

\* asn_application.h:99-100: "On failure: (.buffer) is NULL".
NoBufferOnFailure == kind = "dynamic" /\ encoded = Failed => capacity = 0
=============================================================================
