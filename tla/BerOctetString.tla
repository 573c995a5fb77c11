--------------------------- MODULE BerOctetString ---------------------------
(***************************************************************************)
(* The restartable BER decoder of strings, OCTET_STRING_decode_ber of      *)
(* skeletons/OCTET_STRING_ber.c, in its primitive form and in the          *)
(* constructed one: a string in pieces, nested to any depth, each in       *)
(* definite or indefinite length.  A stack of expectations in the context  *)
(* outlives the calls.                                                     *)
(*                                                                         *)
(* The caller is that of BerSequence.  Left out: the ANY subvariant and    *)
(* failing allocations.                                                    *)
(***************************************************************************)
EXTENDS BerTLV

CONSTANTS Tags,        \* td->tags
          AllTags,     \* td->all_tags
          Subvariant,  \* "STR" or "BIT"
          Alphabet,    \* octets an input is made of
          MaxInput     \* bound: octets delivered

\* Under a chain of tags, or where AllTags begins with an implicit tag, the decoder
\* expects the first of AllTags of the pieces as well, and rejects them.
ASSUME StringTypeAssumption ==
  /\ Subvariant \in {"STR", "BIT"}
  /\ Len(Tags) = 1 /\ AllTags = Tags

ASSUME InputAssumption == Alphabet \subseteq Octet /\ MaxInput \in Nat

VARIABLES
  input,    \* all octets that have arrived so far
  pos,      \* octets consumed, by all calls
  pc,       \* "idle" between calls, else where the decoder is
  ctx,      \* asn_struct_ctx_t: phase, step, left, and whether context is not 0
  stack,    \* ctx->ptr, up to cur_ptr
  st,       \* the string: octets and bits_unused
  verdict   \* what the last call returned, "more" before the first one

vars == <<input, pos, pc, ctx, stack, st, verdict>>

Init ==
  /\ input = <<>> /\ pos = 0 /\ pc = "idle"
  /\ ctx = [phase |-> 0, step |-> 0, left |-> 0, context |-> FALSE]
  /\ stack = <<>> /\ st = [octets |-> <<>>, unused |-> 0]
  /\ verdict = "more"

Deliver(octet) ==
  /\ pc = "idle" /\ verdict = "more" /\ Len(input) < MaxInput
  /\ input' = Append(input, octet)
  /\ UNCHANGED <<pos, pc, ctx, stack, st, verdict>>

\* Phase 3 does without a stack.
Stage == [p \in 0 .. 3 |-> CASE p = 0 -> "tags" [] p = 1 -> "expect" [] p = 2 -> "take"
                             [] p = 3 -> "primitive"]

Call ==
  /\ pc = "idle" /\ verdict = "more"
  /\ pc' = Stage[ctx.phase]
  /\ UNCHANGED <<input, pos, ctx, stack, st, verdict>>

Return(code) == pc' = "idle" /\ verdict' = code
Continue == pc' = pc /\ verdict' = verdict

Size == Len(input) - pos
Advance(n) == pos' = pos + n

\* What becomes of a string that is complete: the unused bits of a BIT STRING are
\* cleared, in its last octet.
Cleared(s) == [s EXCEPT !.octets[Len(s.octets)] = @ - (@ % 2^s.unused)]

Conclude(s) ==
  IF Subvariant = "BIT" /\ (IF s.octets = <<>> THEN s.unused # 0 ELSE s.unused > 7)
    THEN Return("fail") /\ st' = s
  ELSE Return("ok") /\ st' = IF Subvariant = "BIT" /\ s.octets # <<>> THEN Cleared(s) ELSE s

(***************************************************************************)
(* Phase 0.  The header of a constructed string is not consumed yet.       *)
(***************************************************************************)
CheckOwnTags ==
  /\ pc = "tags"
  /\ \E r \in {CheckTags(Tags, 0, -1, ctx.step, TRUE, From(input, pos + 1))} :
       IF r.code # "ok"
         THEN Advance(r.used) /\ ctx' = [ctx EXCEPT !.step = r.step] /\ Return(r.code)
       ELSE IF r.constr = 1
         THEN /\ ctx' = [ctx EXCEPT !.step = r.step, !.left = r.length, !.phase = 1]
              /\ pc' = "expect" /\ UNCHANGED <<pos, verdict>>
       ELSE /\ ctx' = [ctx EXCEPT !.step = r.step, !.left = r.length, !.phase = 3]
            /\ Advance(r.used) /\ pc' = "primitive" /\ verdict' = verdict
  /\ UNCHANGED <<input, stack, st>>

(***************************************************************************)
(* Phase 1: fill the stack with expectations, down to a piece in primitive *)
(* form.  left = -1 is an indefinite length, outside of any definite one.  *)
(***************************************************************************)
Depth == Len(stack)
Sel   == stack[Depth]
Outer == stack[Depth - 1]

Left == IF Depth = 0 \/ Sel.left = -1 \/ Sel.left >= Size THEN Size ELSE Sel.left
Window == SubSeq(input, pos + 1, pos + Left)

Settled == pc = "expect" /\ Depth > 0 /\ Sel.left <= 0 /\ Sel.want_nulls = 0

\* A slip FramesNest catches: the outer frame does not shrink by what its piece got.
OuterUncharged == [Outer EXCEPT !.got = @ + Sel.got]

OuterAfter ==
  [Outer EXCEPT !.left = IF @ = -1 THEN -1 ELSE @ - Sel.got, !.got = @ + Sel.got]

Pop ==
  /\ Settled /\ Depth > 1
  /\ IF Outer.left # -1 /\ Outer.left < Sel.got
       THEN Return("fail") /\ stack' = stack
       ELSE Continue /\ stack' = Append(SubSeq(stack, 1, Depth - 2), OuterAfter)
  /\ UNCHANGED <<input, pos, ctx, st>>

PhaseOut ==
  /\ Settled /\ Depth = 1
  /\ stack' = <<>> /\ ctx' = [ctx EXCEPT !.phase = 4]
  /\ Conclude(st)
  /\ UNCHANGED <<input, pos>>

Expecting == pc = "expect" /\ ~Settled

Tag    == FetchTag(Window)
Form_  == Constructed(Window)
Length == FetchLength(Form_, From(Window, Tag.len + 1))

TagAndLength == IF Tag.len <= 0 THEN Tag.len ELSE Length.len

NoHeader ==
  /\ Expecting /\ TagAndLength <= 0
  /\ Return(IF TagAndLength = 0 THEN "more" ELSE "fail")
  /\ UNCHANGED <<input, pos, ctx, stack, st>>

Headed == Expecting /\ TagAndLength > 0

EndOfContents == Depth > 0 /\ Sel.want_nulls > 0 /\ Window[1] = 0 /\ Window[2] = 0

\* A slip GotIsConsumed catches: the frame does not count its terminator.
ClosedUncounted == [Sel EXCEPT !.left = 0, !.want_nulls = 0]

Closed == [Sel EXCEPT !.got = @ + 2, !.left = 0, !.want_nulls = 0]

\* A slip CallMakesProgress catches: the terminator is seen and not eaten.
EatEOCInPlace ==
  /\ Headed /\ EndOfContents
  /\ stack' = [stack EXCEPT ![Depth].got = @ + 2]
  /\ Continue
  /\ UNCHANGED <<input, pos, ctx, st>>

EatEOC ==
  /\ Headed /\ EndOfContents
  /\ Advance(2)
  /\ stack' = [stack EXCEPT ![Depth] = Closed]
  /\ Continue
  /\ UNCHANGED <<input, ctx, st>>

\* The tag a piece must have, that of the level above it; the outermost was checked.
Expected ==
  IF Depth = 0 THEN Tag.tag ELSE AllTags[Min({Depth, Len(AllTags)})]

\* T and L together.
Header == Tag.len + Length.len
Value  == IF Length.value = -1 THEN 0 ELSE Length.value

Roomy == IF Depth = 0 THEN TRUE ELSE Sel.left = -1 \/ Sel.left >= Header + Value

\* (tlv_len + tlvl) < 0, in ssize_t.
TooBig == Header + Length.value >= 2^(SizeBits - 1)

Acceptable == Tag.tag = Expected /\ ~TooBig /\ Roomy

\* A piece that its frame has no room for is on the stack already when it fails; a
\* decoder that failed is not called again.
RejectPiece ==
  /\ Headed /\ ~EndOfContents
  /\ ~Acceptable
  /\ Return("fail")
  /\ UNCHANGED <<input, pos, ctx, stack, st>>

Frame == IF Length.value = -1 /\ Depth > 0 /\ Sel.left # -1 THEN Sel.left - Header
         ELSE Length.value

\* OS__add_stack_el; the loop ends with a piece in primitive form.
Expect ==
  /\ Headed /\ ~EndOfContents
  /\ Acceptable
  /\ stack' = Append(stack, [left |-> Frame, got |-> Header, bits_chopped |-> FALSE,
                             want_nulls |-> IF Length.value = -1 THEN 1 ELSE 0])
  /\ Advance(Header)
  /\ IF Form_ THEN pc' = pc /\ ctx' = ctx
     ELSE pc' = "take" /\ ctx' = [ctx EXCEPT !.phase = 2]
  /\ UNCHANGED <<input, st, verdict>>

(***************************************************************************)
(* Phase 2: the contents of a piece.  The first octet of each one of a BIT *)
(* STRING is the number of unused bits.                                    *)
(***************************************************************************)
Chop(s, octets, first) ==
  IF Subvariant = "BIT" /\ first /\ octets # <<>>
    THEN [octets |-> s.octets \o Tail(octets), unused |-> octets[1]]
    ELSE [s EXCEPT !.octets = @ \o octets]

\* A slip ChunkIndependence catches: a piece that goes on in a later call begins anew.
EachTimeFirst == TRUE

FirstOctets == ~Sel.bits_chopped

\* A slip TypeOK catches: all that has arrived is taken for the piece.
AllArrived == Size

Arrived == Min({Size, Sel.left})

Take ==
  /\ pc = "take"
  /\ \E len \in {Arrived} :
       /\ st' = Chop(st, SubSeq(input, pos + 1, pos + len), FirstOctets)
       /\ Advance(len)
       /\ stack' = [stack EXCEPT ![Depth].left = @ - len, ![Depth].got = @ + len,
                                 ![Depth].bits_chopped = @ \/ (len > 0 /\ Subvariant = "BIT")]
       /\ IF len < Sel.left
            THEN Return("more") /\ ctx' = ctx
            ELSE pc' = "expect" /\ verdict' = verdict /\ ctx' = [ctx EXCEPT !.phase = 1]
  /\ input' = input

(***************************************************************************)
(* Phase 3: the primitive form.  That nothing has been allocated yet tells *)
(* that the first octet of a BIT STRING is still to come.                  *)
(***************************************************************************)
Starved ==
  /\ pc = "primitive" /\ Size = 0 /\ ctx.left > 0
  /\ Return("more")
  /\ UNCHANGED <<input, pos, ctx, stack, st>>

TakePart ==
  /\ pc = "primitive" /\ Size > 0 /\ Size < ctx.left
  /\ st' = Chop(st, From(input, pos + 1), ~ctx.context)
  /\ Advance(Size)
  /\ ctx' = [ctx EXCEPT !.left = @ - Size, !.context = TRUE]
  /\ Return("more")
  /\ UNCHANGED <<input, stack>>

TakeRest ==
  /\ pc = "primitive" /\ Size >= ctx.left
  /\ Conclude(Chop(st, SubSeq(input, pos + 1, pos + ctx.left), ~ctx.context))
  /\ Advance(ctx.left)
  /\ ctx' = [ctx EXCEPT !.left = 0, !.context = TRUE, !.phase = 4]
  /\ UNCHANGED <<input, stack>>

Decode ==
  \/ CheckOwnTags
  \/ Pop \/ PhaseOut \/ NoHeader \/ EatEOC \/ RejectPiece \/ Expect
  \/ Take
  \/ Starved \/ TakePart \/ TakeRest

Next == (\E octet \in Alphabet : Deliver(octet)) \/ Call \/ Decode

Spec == Init /\ [][Next]_vars
-----------------------------------------------------------------------------
(***************************************************************************)
(* Properties.                                                             *)
(***************************************************************************)
\* The variables have the types of the code; a piece being taken has a length.
TypeOK ==
  /\ pos \in 0 .. Len(input)
  /\ ctx.phase \in 0 .. 4 /\ ctx.left \in -1 .. LengthTooLarge
  /\ \A d \in 1 .. Depth : /\ stack[d].left >= -1 /\ stack[d].got \in Nat
                           /\ stack[d].want_nulls \in {0, 1}
  /\ ctx.phase = 2 => Depth > 0 /\ Sel.left >= 0
  /\ ctx.phase \in {0, 3} => stack = <<>>
  /\ verdict \in {"more", "ok", "fail"}

\* Wherever a call ends, the frames on the stack fit into one another: what a piece
\* got and what it still expects is within what its container has left, so that
\* popping it never makes a length of the container negative, which would stand for
\* an indefinite one.
FramesNest ==
  \A d \in 2 .. Depth :
    stack[d - 1].left # -1 =>
      /\ stack[d].left >= 0
      /\ stack[d].got + stack[d].left <= stack[d - 1].left

GotSum(frames) ==
  LET sum[d \in 0 .. Len(frames)] == IF d = 0 THEN 0 ELSE sum[d - 1] + frames[d].got
  IN sum[Len(frames)]

\* What the frames got and the octets consumed agree at every level.
GotIsConsumed == Depth > 0 => GotSum(stack) = pos

\* Every call returns: a step that does not return consumes something, or else
\* gives up an expectation or goes on to an earlier stage, and there is an end to
\* these.  (A piece without contents passes through all of them.)
CallMakesProgress ==
  [][pc # "idle" => \/ pc' = "idle"
                    \/ pos' > pos
                    \/ pc = "tags" /\ pc' # "tags"
                    \/ pc = "take" /\ pc' = "expect"
                    \/ pc = "expect" /\ Len(stack') < Depth]_vars
=============================================================================
