# Verification of asn2c

asn2c (a fork of asn1c) is two programs in one repository: a compiler that turns
ASN.1 modules into C structures and tables (`asn1c/`, `libasn1*/`), and the run-time
support those tables drive (`skeletons/`): encoders and decoders of BER/DER, PER, OER,
XER and JER. This directory holds TLA+ models of the stateful parts of that run-time
support, the configurations that model-check them, and theorems about them.
Paths below are relative to the repository; line numbers are in `PROJECT.json` ("map").

## 1. The system

| component | state it keeps | operations | interacts with | what makes it hard | what makes it correct |
|---|---|---|---|---|---|
| BER tags and lengths: `skeletons/ber_tlv_tag.c`, `ber_tlv_length.c`, `ber_decoder.c` | none; `ber_check_tags` saves `step` in its caller's context | `ber_fetch_tag`, `ber_fetch_length`, `ber_skip_length`, `ber_check_tags` | called by every BER decoder with a window of octets | the window may end anywhere; 0 means "more", -1 "broken"; a chain of tags restarted halfway | a restart answers as a single reading would |
| BER SEQUENCE: `constr_SEQUENCE_ber.c` | `asn_struct_ctx_t` in the structure: phase, step, left | `SEQUENCE_decode_ber` | element table from the compiler; member decoders, each with a context of its own | restart at every octet, unknown extensions, optional members stepped over, definite and indefinite frames | chunk independence, mandatory members, the frame, termination |
| BER strings and primitive types: `asn_codecs_prim_ber.c`, `OCTET_STRING_ber.c` | primitive: none; string: phase, left, what was appended, and for the constructed form a stack of expectations | `ber_decode_primitive`, `OCTET_STRING_decode_ber` | called by the constructed decoders | partial consumption; a stack that outlives calls; definite frames around indefinite ones; the unused-bits octet of every piece | as above; the frames agree with one another |
| BER SET, CHOICE, SET OF: `constr_*_ber.c` | context and presence map, chosen alternative, or list | `*_decode_ber` | as SEQUENCE | as SEQUENCE, duplicates | as SEQUENCE, no duplicate, none missing |
| bit output: `asn_bit_data.c`, `uper_encoder.c`, `aper_encoder.c` | `asn_bit_outp_t`: tmpspace, buffer, nboff, nbits, flushed_bytes | put few / many bits, aligned flush, final flush | PER encoders, OER preambles; output callback | the boundary of a 32-octet buffer, an incomplete octet carried over, a failing callback | it is a stream of bits |
| bit input: `asn_bit_data.c` | `asn_bit_data_t` | get few / many bits, undo | PER decoders | an end within a read (the refill callback is set by nothing that is compiled) | reads what was written |
| PER: `uper_support.c`, `uper_opentype.c`, `constr_*_uper.c`, `aper_*` | locals only | lengths, normally small numbers, open types, `SEQUENCE_encode_uper`, `SEQUENCE_decode_uper` | bit input and output; two peers of different versions | 16K fragments, number ranges, unknown additions, no restart | the receiver understands what it knows and stays in step |
| encoding entry points: `asn_application.c` | a key per callback: size, capacity, failed | `asn_encode`, `asn_encode_to_buffer`, `asn_encode_to_new_buffer` | every encoder calls back | buffers that end or cannot grow, callbacks that fail | the buffer is a prefix / the whole; failure is reported |
| OER SEQUENCE: `constr_SEQUENCE_oer.c`, `oer_encoder.c`, `oer_support.c` | encoder: locals only; decoder: context | `SEQUENCE_encode_oer`, `SEQUENCE_decode_oer` | bit output for presence bits, callbacks, member encoders | five loops judge presence separately, outputs fail | the bits describe what follows, sizes add up |
| converter: `converter-example.c` | `DynamicBuffer`: offset, length, unbits, allocated, bytes_shifted | `data_decode_from_file`, `add_bytes_to_buffer`, `buffer_shift_left` | feeds `asn_decode` chunk by chunk | partial reads, leftovers, PDUs that end within an octet, EOF | no bit lost or repeated, the loop ends, EOF is EOF, every file has its turn |
| XER, JER: `xer_*.c`, `jer_*.c` | context, token buffer | tokenizers and decoders | as BER | restart in a token | chunk independence |
| compiler: `libasn1parser`, `libasn1fix`, `libasn1compiler`, `libasn1print` | a syntax tree | parse, fix, generate | emits the element tables | no concurrency; recursion over trees | the tables satisfy what the decoders assume |

Nothing in the repository runs concurrently. What interleaves is the *caller* with a
*decoder that returns in the middle of its work* (RC_WMORE, then a call with more
octets), an *encoder* with *output that may fail at any call*, and a *sender* with a
*receiver* that was generated from another version of the type. These are the subject of
the models. `Gen_File/` (generated code) and `examples/` are not modelled.

## 2. Modules

| module | models | state and actions in terms of the code |
|---|---|---|
| `BerTLV` | the four functions on tags and lengths | pure operators on a window of octets, same return convention; `CheckTags` takes the saved `step` and returns the new one; `LengthIsExact` says what a length field should be read as |
| `Induction` | nothing: induction and recursion along an interval of numbers | the lemmas of every module of proofs about functions that are defined by recursion |
| `BerTLVProofs` | proofs about `BerTLV` | |
| `SequenceTable` | the element table; `ber_decode_primitive`; the string decoder in primitive form | constants `Elements`, `FirstExt`, `Tags`; the assumption says what the compiler guarantees of `elements[].optional` |
| `BerSequence` | `SEQUENCE_decode_ber` and its caller | `ctx` is the `asn_struct_ctx_t`, `sctx` the contexts inside string members, `edx` the local; `Deliver` and `Call` are the caller, each further action is one pass of the code from one loop head to the next or to a return |
| `SequenceOneShot` | the reference: one reading of a complete input, written from the grammar of a TLV, without phase, step or left | operators only |
| `StreamDecoder` | abstract specification: octets arrive between calls, and every call that returns answers what `Reading` says of the octets so far. A running call is a variable of its own (`calling`), so that a return with a wrong "more" is no stuttering step | refined by `BerSequence`, `BerOctetString` and `BerSet` |
| `MCBerSequence` | instances, bounds, and the refinement mapping | |
| `BerSequenceProofs` | proofs about `BerSequence`, and about `BerSet`, which shares most of its steps | |
| `BitOutput` | `asn_bit_outp_t` and what puts into it | `tmp`, `buffer` (an offset or NULL), `nboff`, `nbits`, `flushed_bytes` as in the structure, `out` what the callback took; the recursion of the 32-bit case and the loop of `asn_put_many_bits` are steps of their own or folded into `Store` |
| `BitStream` | abstract specification: a sequence of bits that grows, is padded to octets, delivered; a refused call loses what it had not yet put | refined by `BitOutput` |
| `BitOutputProofs` | proofs about `BitOutput` | |
| `EncodeSink` | the three callbacks of `asn_application.c` | an octet is its index; `capacity` is `buffer_size`, `stored` what was copied, `produced` is `computed_size` |
| `DecodeDriver` | `data_decode_from_file` with `DynamicBuffer`, and the loops of `main` | `db` is the structure with `data` as cells of one bit, each holding the number of a bit of the file; `Read`/`ReadFails` are `fread`, `Decode` the call of the decoder (external: any answer its convention allows, empty PDUs in OER and unpadded PER included) and all that follows it in the loop |
| `DecodeDriverProofs` | proofs about `DecodeDriver` | |
| `BerOctetString` | `OCTET_STRING_decode_ber` for OCTET STRING and BIT STRING, primitive and constructed | `stack` is the list of `_stack_el` up to `cur_ptr`, `ctx.context` whether a buffer is allocated; one action per turn of the loop of phase 1 and per branch, `Take` is phase 2, `TakePart` and `TakeRest` phase 3; the caller is that of `BerSequence` |
| `BerOctetStringProofs` | proofs about `BerOctetString` | |
| `MCBerOctetString` | instance; the reference reading by the grammar of pieces, with neither stack nor phase, which says of a frame that comes out short that it does (`Short`); the refinement of `StreamDecoder` | |
| `BerSet` | `SET_decode_ber` | extends `BerSequence` for the macros, tags, member decoders and the tail, which the two functions share line by line, and adds the presence map and the search by tag |
| `MCBerSet` | instance; reference reading; the refinement of `StreamDecoder` | |
| `UperSupport` | lengths, normally small lengths and open types of PER | operators on sequences of bits; the width of an octet and the unit of fragmentation are scaled down together |
| `UperSequence` | `SEQUENCE_encode_uper`, `SEQUENCE_decode_uper`, `uper_open_type_get_simple`, `uper_open_type_skip` | `Send` is a whole encoding; the decoder goes member by member, addition by addition and fragment by fragment, with `opmd`, `epmd` and the open type's `buf` as in the code |
| `VersionedChannel` | abstract specification: of each message that arrives whole the receiver gets what its version understands; only one that was cut off is refused | refined by `UperSequence` |
| `MCUperSequence` | instance | |
| `UperSequenceProofs` | proofs about `UperSupport` and `UperSequence` | |
| `OerSequenceEncode` | `SEQUENCE_encode_oer`, open types and lengths, composed with `EncodeSink` | `has` is the structure; each output of octets is one action that may be refused |
| `OerSequenceEncodeProofs` | proofs about `EncodeSink` and `OerSequenceEncode` | |

External: what the application does (`Deliver`), the peer and the wire of `UperSequence`
(`CanSend`, `SendCutOff`), the file and the decoder of `DecodeDriver`. In `BerSequence` the application follows
the manual (`doc/docsrc/asn1c-usage.tex`, "Restartability"): it keeps unconsumed octets
and passes them again with more.

## 3. What the runs check

`tlc -config X.cfg M`, each within a minute.

| run | instance and bounds | properties |
|---|---|---|
| `ber_sequence` | `[0] EXPLICIT SEQUENCE { a OCTET STRING OPTIONAL, b INTEGER, ..., c OBJECT IDENTIFIER }`, seven octet values that serve as tags, lengths and contents, inputs up to 10 octets, none prolonged by more than one octet after it is decided (`UndecidedButOne`), an outermost length that is 6 or indefinite (`FewLengths`), no call that ends between the two tags (`NoRestartBetweenTags`) | `ChunkIndependence`, `CallMakesProgress`, `FrameNeverMoves`, `MandatoryPresent`, `LengthsExact`, types |
| `ber_sequence_restart` | the same type without extensions, inputs up to 6 octets, calls that end anywhere | `RestartAcceptsTheSame`: **violated** |
| `bit_output` | tmpspace of 5 octets, words of 0, 7, 31 and 32 bits, a string of 41, streams up to 90 bits, both initial states | `KeepsTheStream`, `WithinSpace`, types |
| `oer_sequence_encode` | a root of mandatory, optional and defaulted members and extension additions with defaults, each member absent, default, encodable or not; buffers of several sizes; all three entry points | `SelfDescribing`, `EncodedIsProduced`, `BufferIsPrefix`, `NewBufferIsWhole`, types |
| `oer_encode_failure` | the same | `FailureAbortsTheMission`: **violated** |
| `oer_encode_new_buffer` | the same | `NoBufferOnFailure`: **violated** |
| `decode_driver` | two files of up to 6 octets of 3 bits, read in pieces of 1 or 2 octets, the five kinds of syntax (BER, OER, XER, padded and unpadded PER), with and without `-1`; reading may fail | `ContentIntact`, `WithinAllocation`, `NeverAhead`, `Terminates`, types |
| `decode_driver_eof` | one file of up to 4 octets | `EofOnlyAtEnd`: **violated** |
| `decode_driver_empty_pdu` | two files of up to 2 octets, OER | `FilesInTurn`: **violated** |
| `ber_octet_string` | BIT STRING, inputs up to 8 octets over seven values; `EndsWhenDecided`, `FewLengths` | `ChunkIndependence`, `FramesNest`, `GotIsConsumed`, `CallMakesProgress`, types |
| `ber_set` | `SET { a OCTET STRING OPTIONAL, b INTEGER, ..., c BOOLEAN }`, and that without the extension mark, inputs up to 7 octets (`UndecidedButOne`) | `ChunkIndependence`, `CallMakesProgress`, `NeverOverwritten`, `MandatoryPresent`, types |
| `uper_sequence` | a root of a mandatory and a defaulted member; additions of 0, 10 and 96 bits; every pair of versions, and the type without extensions; two messages, of which one may be cut off at any bit | `Understanding`, `InStep`, `AllReceived`, types |

Why the bounds are enough. In `ber_sequence` eight octets hold, cut at every octet, two headers of
definite length, the mandatory member and, before or behind it, the optional one, the addition or an
unknown one; ten hold two headers of indefinite length, a member and both terminators, and nine
something else in place of the second terminator. What becomes of a call that ends between the two
tags is the subject of `ber_sequence_restart`; there `ChunkIndependence` cannot hold, and that
`MandatoryPresent`, `FrameNeverMoves` and `CallMakesProgress` hold is proved (section 5). In `ber_set`
seven octets hold one header, two members in either order, and a terminator or something
unknown in place of the second. Five octets are the smallest tmpspace for which the
comment "we are guaranteed large enough space" is true (31 bits after 7), so that its
boundary is met after two puts, and 90 bits pass it twice. All octet values occur as
tag, length and content, which is what the decoder distinguishes. `SizeBits = 24` is the
smallest width in which TLC's integers hold `2^(SizeBits-2)` comfortably; the inputs are
too short for a length to reach it, so `LengthsExact` looks at all lengths of up to four
octets, which pass it, on their own (it is `LengthIsExact` for these).

In `ber_octet_string` eight octets hold a container, a container in it and a piece in that,
in every mixture of definite and indefinite lengths, or two pieces with contents; `FewLengths`
keeps 6 for the length of the outermost container and 35 from being a length there, so that
every value still occurs in the role that matters. In `decode_driver` octets of 3 bits make
every offset within an octet occur together with every state of the buffer; six octets read
by one or two fill, drain, move and reallocate it several times. In `uper_sequence` octets of 3
bits scale a unit of fragmentation down from 16384 octets to 16 (the formula is the code's,
with 8 replaced), and a fragment holds one unit at most instead of four: 96 bits are 32 octets,
two whole units, hence two fragments and the empty one that must follow; 10 bits are 4 octets,
with a length in two octets and padding; no bits at all are one octet of zeros.
`MaxBeforeCut = 0` lets only the first message be cut off: what is before a message that is
cut off does not matter to it, since a message leaves no state but the position.

The properties, in a sentence each:

* `ChunkIndependence`: however a stream is cut into calls, the answer of every call that
  returns (code, octets consumed, decoded members) is that of a single reading of all that has
  arrived: a complete encoding is accepted, a broken one refused, and more is asked for
  only where that reading is undecided. It is a refinement of `StreamDecoder`, and it holds
  where no call ends between two tags (finding 1). Of the string it holds but for frames that
  come out short (see the observations): these the reference keeps apart by `Short`, and
  expects "more" of the code.
* `FrameNeverMoves`: octets consumed plus `left` is the same number at every step of every
  call, and `left` never crosses from definite to indefinite.
* `MandatoryPresent`: no restart makes the decoder accept a structure without a mandatory
  member, although it only ever consults counts of optional elements.
* `LengthsExact`: `ber_fetch_length` gives the exact length, or an error for one beyond what
  `ssize_t` holds, and asks for more only while the length may still be right.
* `CallMakesProgress`: every step of a running call returns, goes on to a later phase,
  consumes something or settles the element. These measures are bounded, so every call
  returns. Stated as an action property, it needs no fairness: inside a call the
  decoder is sequential code, between calls nothing obliges an application to go on.
* `FramesNest`, `GotIsConsumed`: at every step the frames of the pieces of a string fit into one
  another, with what they got and what they still expect, and together they account for
  every octet consumed; so no length left turns negative, which would mean an indefinite one.
* `NeverOverwritten`: a member of a SET that is complete is not changed by anything that follows.
* `ContentIntact`: each call of the decoder is given exactly the bits of the file that no call
  has consumed, through any sequence of leftovers, moves, reallocations and shifts within
  octets. `WithinAllocation`: none of them leaves the buffer. `NeverAhead`: the position in
  the error message has been reached.
* `Terminates`: the converter ends, whatever the files and the decoder, unless reading fails or
  the decoder answers with one empty PDU after another for ever (`EmptyPdu`, finding 5).
* `Understanding`: the refinement of `VersionedChannel`. `InStep`: between messages the receiver
  is at the first bit of the next one. `AllReceived`: every message that arrived whole is
  received. All three are of types with at most `2^SmallBits` additions, 64 in the code; beyond,
  see the observations.
* `KeepsTheStream`: buffer and callback together hold the bits accepted, in order, padded
  only by flushes, whatever the callback fails on; `uper_encode` reports their number.
* `WithinSpace`: `nbits` is always the true room from `buffer` on.
* `SelfDescribing`, `EncodedIsProduced`: what the presence bits of an OER encoding claim is
  what follows; the size returned is what was put out.
* `BufferIsPrefix`, `NewBufferIsWhole`: a caller's buffer holds a prefix of the encoding
  without holes, all of it if it fits; an allocated one holds everything and has room
  for the closing zero.

Fairness. Two runs state liveness. `Terminates` is checked under `WF_vars(Next)`: the converter
is one sequential program, which runs on, and `fread` returns. It holds only as long as
reading does not fail (see the observations below) and not all PDUs are empty from some point
on (finding 5), and says so; `FilesInTurn`, which does not, is violated under the same fairness. `AllReceived` is
checked under `WF_vars(Decode)`: a decoder that was called runs on; nothing is assumed of the
sender. The other runs state none: nothing obliges an application to deliver more octets.

`CHECK_DEADLOCK FALSE` in every configuration: a decoder that has decided and an encoder
that has returned are done, and so is the converter when it exits.

## 4. Findings

1. **A restart within a chain of tags loses its limits** (`ber_decoder.c:77`). The context
   keeps the step; `limit_len` and `expect_00_terminators` start anew.
   `A0 01 30 02 02 00` fed as 2 + 4 octets is accepted, in one piece it is not. With
   indefinite lengths one pair of terminators is left unread.
2. **A failed flush goes unnoticed** (`constr_SEQUENCE_oer.c:445` and `:524`). A callback
   that fails there leads `asn_encode` into its own `assert(er.encoded == -1)`.
3. **`asn_encode_to_new_buffer` returns its buffer on failure** (`asn_application.c:212`),
   where header and manual promise NULL.

4. **Garbage taken for the end of the file** (`converter-example.c:911`, `:963`). If a PDU ends
   exactly where a piece read by `fread` ends and the next piece cannot be decoded, the
   converter leaves the file without a message and exits with 0: `01 01 FF 05 05 05` as
   BOOLEAN with `-b 3`. With any other buffer size it reports the error.

5. **A PDU of nothing is decoded for ever** (`converter-example.c:932`). NULL in OER
   (`NULL_oer.c:14`), and NULL or a SEQUENCE of nothing in PER with `-per-nopad`, are done with
   nothing consumed. If octets are left at the end of the file, each call of
   `data_decode_from_file` tolerates that end anew and hands over another such PDU: the loop of
   `main` does not end, and the files after this one are not processed (`:461`). `conv -ioer`
   for NULL on a file of one octet prints `<NULL></NULL>` without end.

Each was reproduced with the code of `skeletons/` compiled as it is.

Observations, made while modelling and seen in the compiled code, of which no document of the
repository says the contrary or which lie outside of the models:

* `assert(ret == 0)` at `constr_SEQUENCE_oer.c:415` stands before the check of `ret`, so that a
  callback failing on the first, empty output of an extensible SEQUENCE aborts the
  program (`Aborted` in `OerSequenceEncode`).
* `bytes_shifted` is not updated when the buffer of the converter is reallocated, and line 915
  overwrites it: "Decode failed past byte 5" may be said of byte 8. `NeverAhead` is the half
  of the matter that holds.
* `conv -iber <directory>` does not end: `fread` fails without setting the end of the file, and the
  loop asks `feof` alone. Hence the `error` in `Terminates`.
* In a definite frame with too little left for another header, `OCTET_STRING_decode_ber` answers
  RC_WMORE for ever (`24 01 04 00 ...`); SEQUENCE and SET fail there.
* A constructed string under an implicit or explicit tag is expected to have pieces with the tag
  of the level above: `[0] IMPLICIT OCTET STRING` as `A0 03 04 01 78` is rejected, as
  `A0 03 80 01 78` accepted. `BerOctetString!StringTypeAssumption` excludes these types.
* `uper_put_nslength` writes a length above 64 without the leading bit that `uper_get_nslength` expects
  (65 is read back as 33), so a SEQUENCE with more than 64 additions cannot be read back;
  `UperSequence!SequenceTypeAssumption` excludes it. `uper_put_nsnnwn` and `uper_get_nsnnwn`
  disagree from 64 on, which concerns CHOICE and ENUMERATED (not modelled).
* `uper_open_type_get_simple` checks the padding of an open type but accepts the value if the check
  fails on less than an octet (`Fitting`).

What the proofs corrected in the models. The bound of `step` in `BerSequence!TypeOK` was that of
the element table, which a chain of tags longer than it passes. `OutputChunk` of
`OerSequenceEncode` went on with a member after a refused output. A `Call` of `BerSequence` that
resumes within a member did not set `edx`. `Fragments` of `UperSupport` had no value for bits
that are not whole octets. Besides, several things every instance satisfied had to be said:
that every type has a tag and strings no constructed form (`TypeAssumption`, `StringAssumption`
of `SequenceTable`), that octets are octets (`InputAssumption` of `BerOctetString`), that a
`size_t` has at most eight of them (`SizeAssumption` of `OerSequenceEncode`), what a member is in
PER (`IsMember`), and, as `LengthIsExact`, at any width, what `LengthsExact` said of one.

## 5. What is proved

With TLAPS, for every value of the constants that satisfies the assumptions named in the
modules (`... Assumption`; each says what the compiler, the C types or the modelled part of
the format guarantee, and TLC evaluates each on a run). Every module of proofs has the same
layout: facts about operators, the inductive invariant, one lemma per action that it is
preserved, then the theorems.

**`BerTLVProofs`**, for every window of octets.

* `SkipLengthBounds`, `CheckTagsBounds`: `ber_skip_length` and `ber_check_tags` answer -1, 0 or a
  number of octets that the window holds; the step saved is one the chain has; a definite length
  goes with the primitive form. Every bound in the decoders rests on these two.
* `FetchLengthExact`: `LengthIsExact` at every width of `ssize_t`, for lengths in up to 126 octets.
  The loop is unrolled by `RecursionUp`, the invariant is that the number gathered is that of
  the octets read; the overflow test is shown to fire at the first octet that is too much.

**`BerSequenceProofs`**, for every element table, chain of tags, alphabet and way of feeding.

* `MandatoryPresentHolds`. The property is not inductive; `IInv` adds that every mandatory
  element before the current one has been decoded, both for the local `edx` and for the element
  saved in `ctx.step`, and that phase and control state fit together. `SteppedOver` says that
  the elements a tag lets the decoder step over are never mandatory, `EndReachableOmits` that
  none remains at a legitimate end. The proof does not depend on what `CheckTags` or the
  member decoders return, so it holds with finding 1 as well.
* `TypeOKHolds`, by `TInv`: the types, that the context of a string member is one it may be in
  (`StringsOK`), that a resumed call stands at the element its step names (`Resumed`), and that
  the first octet of a string not yet begun is there, in primitive form (`ElementAhead`). `MemberReady` is what the
  member decoders need, `MemberDecodeBounds` what they give: an amount within the window.
* `FrameNeverMovesHolds`, `CallMakesProgressHolds`: action properties of every step that starts
  in `IInv` and `TInv`; the macros `ADVANCE` and `LEFT` enter through `MemberDecodeBounds` and `SkipLengthBounds`.
* `SetTypeOKHolds`, `SetMandatoryPresentHolds`, `SetFrameNeverMovesHolds`, `NeverOverwrittenHolds`,
  `SetCallMakesProgressHolds`: the same of a SET. `SInv` ties the presence map to the members: what is
  noted as present has been decoded to its end; a member is decoded only where its bit in the map is
  clear. The step of a SET goes back to 0 after each member, so what keeps its loop from turning in
  place is that a complete member has consumed something: a new one its header, and a string
  that is resumed waits for octets, since one with nothing left is in the map.
* `LengthsExactHolds`: `FetchLengthExact` for the width of the run.

**`BerOctetStringProofs`**, for every stream, cut and depth of nesting: `TypeOKHolds`,
`FramesNestHolds`, `GotIsConsumedHolds`, `CallMakesProgressHolds`. `IInv` is `FramesNest` with the
types of the frames, the phase each control state belongs to (`Staged`) and `Summed`: what
the levels got adds up to what was consumed. `SumsExist` unrolls the sum over the stack,
and one lemma each says what a push, a pop and an advance of the innermost level do to it.

**`BitOutputProofs`**, for every size of tmpspace from 5 octets and all payloads.

* `Typed`, `WithinSpaceHolds`: the inductive invariant is their conjunction, with
  `Len(out) = 8 * flushed_bytes` and nothing to do between calls; `RoomLeft` is the comment
  "due to sizeof(tmpspace), we are guaranteed large enough space".
* `Implements`: `Spec => KeepsTheStream`, the refinement. `StreamStep` maps every action to
  a step of `BitStream` or a stutter; `ChunkJoins` is the case of a put, `FlushPads` that of a
  flush.

**`OerSequenceEncodeProofs`**, for every table, structure, size of buffer and failing output.

* `BufferIsPrefixHolds`, `NewBufferIsWholeHolds`: `SinkInv` says of each kind of sink what it holds.
  `DoubledFits` is about the loop that doubles an allocation: it ends, and with room for the zero.
* `SelfDescribingHolds`, `EncodedIsProducedHolds`, `TypeOKHolds`: `IInv` adds, for every place of the
  encoder, what has been claimed and what has been written so far (`Presence`), which members
  have been passed (`Passed`), and that `computed_size` with what was just put is `produced`
  (`CountedInv`).

**`DecodeDriverProofs`**, for octets of any width and files, pieces and answers of any size, none
included:
`TypeOKHolds`, `ContentIntactHolds`, `WithinAllocationHolds`, `NeverAheadHolds`. `IInv` says that an
allocated buffer holds the bits of the file from the first unconsumed one to the last that
arrived (`Buffered`), and that where nothing is allocated the last piece read stands for it
(`UnbufferedOK`). Lemmas about `memmove`, the reallocation and the shift within octets say
where each bit is afterwards.

**`UperSequenceProofs`**, for every extensible type of at most `2^SmallBits` additions (64 in the
code), every pair of versions and width of octet.

* `GetPutLength`, `GetPutNsLength`: what the length functions of the encoder write is read back, with
  anything behind it, or refused if it was cut off within. They are stated of a window
  into the wire, so that the cut-off case is the same lemma.
* `TypeOKHolds`, `InStepHolds`, `UnderstandingHolds`: `IInv` is `Typed`, `OnWire` (the wire is the
  encodings of what was sent, the last perhaps cut off) and `Place`, which says for every place
  of the decoder which part of the current message's encoding is still ahead and what the structure
  holds so far: a defaulted member as it was sent or its default, additions settled up to
  the one at hand. In the middle of an open type the fragments gathered and those ahead make up
  the whole (`GatheredTo`, by `FragmentsNext`). At the end of a message, ahead is nothing, which is
  `InStep`; and the structure is what the receiver's version understands, which with
  `DecodeStep` (a refusal happens only where the message was cut off) is the refinement of
  `VersionedChannel`. TLC checked `IInv` on one message of the run's instance before it was proved.

`Induction` states induction and recursion along an interval without an operator as a parameter,
which the provers cannot instantiate: a predicate is the set of the numbers that satisfy it, a
step is a function. It is what makes recursive functions over the input accessible.

Only model-checked: `ChunkIndependence` of the three BER decoders, whose proof needs that an answer
other than "more" does not change when octets are appended, through every operator of
`BerTLV`, and relates the decoder to a second recursive definition (`Reading`); it is the
subject of the plan. (Of `BerSequence` it is true only where no call ends between two tags, finding 1.) `Terminates` and
`AllReceived` are liveness under fairness, which is beyond the prover, as is `ENABLED`. No
module uses RECURSIVE operators.

## 6. What is left out

Of the modelled components: the depth check of the C stack, failing allocations of
decoded structures (the failing allocations of `dynamic_encoder_cb` are modelled), ANY, untagged
CHOICE members and open types in a SEQUENCE or SET, constructed strings as members (they are
modelled on their own), chains of tags before a constructed string, a member encoder that
fails after some of its own output for a reason of its own. A member's contents are octets or
bits; the conversion to C values is not modelled. Encoders of members are the sizes of
their outputs, or in PER their bits. In `UperSequence` additions are held by pointers and mandatory
members of the root are there. In `DecodeDriver` the decoder is external and what becomes of a
decoded structure is left out.

Not modelled and why: see the components in `PROJECT.json`. The compiler is recursion over
syntax trees without state between steps; the table it emits enters as assumptions
(`SequenceTable!TableAssumption`). `Gen_File/` is its output.

## 7. Plan

1. `BerTLV`, `SequenceTable`, `BerSequence` against `StreamDecoder`: modelled; all properties but
   `ChunkIndependence` proved.
2. `BitOutput` against `BitStream`: modelled, proved.
3. `EncodeSink` and `OerSequenceEncode`: modelled, proved.
4. `DecodeDriver`: modelled, safety proved.
5. `BerOctetString` against `StreamDecoder`: modelled; all but `ChunkIndependence` proved.
6. `UperSupport`, `UperSequence` against `VersionedChannel`: modelled, safety and refinement proved.
7. `BerSet` against `StreamDecoder`: modelled; all but `ChunkIndependence` proved.
8. Next: window lemmas of `BerTLV` (an answer of `FetchTag`, `FetchLength`, `SkipLength` and
   `CheckTags` other than "more" is that of every longer window), from them that `Reading` is
   stable once decided, and with it `ChunkIndependence`, of `BerSequence` for calls that do not end between two tags.
9. Not begun: `SEQUENCE_decode_oer` and what it makes of what `OerSequenceEncode` emits; BER of CHOICE
   and SET OF; aligned PER and the remaining PER types; the tokenizers of XER and JER.
