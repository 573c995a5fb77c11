----------------------------- MODULE BerSequence -----------------------------
(***************************************************************************)
(* The restartable BER decoder of the SEQUENCE types, SEQUENCE_decode_ber  *)
(* of skeletons/constr_SEQUENCE_ber.c, called by a program that feeds it a *)
(* stream: the caller hands over what has arrived and was not consumed     *)
(* yet, and calls again after RC_WMORE.  Octets arrive only between calls. *)
(*                                                                         *)
(* One action is one pass through the decoder's loops up to the next       *)
(* loop head or return, so that every intermediate context is a state.     *)
(***************************************************************************)
EXTENDS SequenceTable

VARIABLES
  input,     \* all octets that have arrived so far
  pos,       \* octets consumed, by all calls
  pc,        \* "idle" between calls, else where the decoder is
  edx,       \* local edx of the running call
  ctx,       \* asn_struct_ctx_t of the structure: phase, step, left
  sctx,      \* the contexts inside the string members
  value,     \* the members decoded so far
  verdict    \* what the last call returned, "more" before the first one

vars == <<input, pos, pc, edx, ctx, sctx, value, verdict>>

(***************************************************************************)
(* The macros LEFT, SIZE_VIOLATION, ADVANCE and RETURN.                    *)
(***************************************************************************)
Size == Len(input) - pos
Left == IF ctx.left >= 0 /\ ctx.left < Size THEN ctx.left ELSE Size
Window == SubSeq(input, pos + 1, pos + Left)
SizeViolation == ctx.left >= 0 /\ ctx.left <= Size

\* A slip FrameNeverMoves catches: an ADVANCE that does not count down left.
LeftKept(n) == ctx.left

LeftAfter(n) == IF ctx.left >= 0 THEN ctx.left - n ELSE ctx.left

Advance(n) == pos' = pos + n
Return(code) == pc' = "idle" /\ edx' = 0 /\ verdict' = code

\* A slip ChunkIndependence of MCBerSet catches: at the end of its frame, too, the
\* decoder asks for more.
StarvedAnywhere == "more"

Starved == IF SizeViolation THEN "fail" ELSE "more"

Init ==
  /\ input = <<>> /\ pos = 0
  /\ pc = "idle" /\ edx = 0 /\ verdict = "more"
  /\ ctx = [phase |-> 0, step |-> 0, left |-> 0]
  /\ sctx = [e \in 0 .. N - 1 |-> [phase |-> 0, step |-> 0, left |-> 0]]
  /\ value = [e \in 0 .. N - 1 |-> Absent]

(***************************************************************************)
(* The caller.                                                             *)
(***************************************************************************)
Deliver(octet) ==
  /\ pc = "idle" /\ verdict = "more" /\ Len(input) < MaxInput
  /\ input' = Append(input, octet)
  /\ UNCHANGED <<pos, pc, edx, ctx, sctx, value, verdict>>

Call ==
  /\ pc = "idle" /\ verdict = "more"
  /\ pc' = CASE ctx.phase = 0 -> "tags" [] ctx.phase = 1 -> "members"
             [] OTHER -> "tail"
  /\ edx' = IF ctx.phase = 1 THEN ctx.step \div 2 ELSE 0
  /\ UNCHANGED <<input, pos, ctx, sctx, value, verdict>>

(***************************************************************************)
(* Phase 0: the tags of the SEQUENCE itself.                               *)
(***************************************************************************)
CheckOwnTags ==
  /\ pc = "tags"
  /\ \E r \in {CheckTags(Tags, 0, 1, ctx.step, TRUE, From(input, pos + 1))} :
        /\ Advance(r.used)
        /\ IF r.code = "ok"
             THEN /\ ctx' = [phase |-> 1, step |-> 0, left |-> r.length]
                  /\ pc' = "members" /\ edx' = 0 /\ verdict' = verdict
             ELSE /\ ctx' = [ctx EXCEPT !.step = r.step]
                  /\ Return(r.code)
  /\ UNCHANGED <<input, sctx, value>>

(***************************************************************************)
(* Phase 1, microphase 1: find the element the next tag stands for.        *)
(***************************************************************************)
Synchronizing == pc = "members" /\ edx < N /\ ctx.step % 2 = 0

LegitimateEnd == ctx.left = 0 /\ EndReachable(edx)

EndOfSequence ==
  /\ Synchronizing /\ LegitimateEnd
  /\ ctx' = [ctx EXCEPT !.phase = 10]
  /\ Return("ok")
  /\ UNCHANGED <<input, pos, sctx, value>>

NoTag ==
  /\ Synchronizing /\ ~LegitimateEnd
  /\ FetchTag(Window).len <= 0
  /\ Return(IF FetchTag(Window).len = 0 THEN Starved ELSE "fail")
  /\ UNCHANGED <<input, pos, ctx, sctx, value>>

\* A zero octet where the indefinite length may end: wait for the other one.
ZeroOctet == ctx.left < 0 /\ Window[1] = 0
HalfTerminator == ZeroOctet /\ Left < 2
Terminator == ZeroOctet /\ Left >= 2 /\ Window[2] = 0

Tagged == Synchronizing /\ ~LegitimateEnd /\ FetchTag(Window).len > 0

AwaitTerminator ==
  /\ Tagged /\ HalfTerminator
  /\ Return("more")
  /\ UNCHANGED <<input, pos, ctx, sctx, value>>

ReachTerminator ==
  /\ Tagged /\ Terminator /\ EndReachable(edx)
  /\ ctx' = [ctx EXCEPT !.phase = 3] /\ pc' = "tail"
  /\ UNCHANGED <<input, pos, edx, sctx, value, verdict>>

Searching == /\ Tagged /\ ~HalfTerminator
             /\ ~(Terminator /\ EndReachable(edx))

FindElement ==
  /\ Searching
  /\ \E n \in Candidates(edx, FetchTag(Window).tag) :
        /\ edx' = n
        /\ ctx' = [ctx EXCEPT !.step = 2 * n + 1]
  /\ UNCHANGED <<input, pos, pc, sctx, value, verdict>>

Unknown == Searching /\ Candidates(edx, FetchTag(Window).tag) = {}

RejectUnknown ==
  /\ Unknown /\ ~InExtensionGroup(edx + Optional(edx))
  /\ Return("fail")
  /\ UNCHANGED <<input, pos, ctx, sctx, value>>

\* Octets of the V and L that follow the tag at the start of the window.
Skip == SkipLength(Constructed(Window), From(Window, FetchTag(Window).len + 1))

SkipUnknown ==
  /\ Unknown /\ InExtensionGroup(edx + Optional(edx))
  /\ IF Skip <= 0
       THEN /\ Return(IF Skip = 0 THEN Starved ELSE "fail")
            /\ UNCHANGED <<pos, ctx>>
       ELSE /\ Advance(FetchTag(Window).len + Skip)
            /\ ctx' = [ctx EXCEPT !.left = LeftAfter(FetchTag(Window).len + Skip)]
            /\ edx' = edx + Optional(edx)
            /\ UNCHANGED <<pc, verdict>>
  /\ UNCHANGED <<input, sctx, value>>

(***************************************************************************)
(* Phase 1, microphase 2: the decoder of the element found.                *)
(***************************************************************************)
MemberDecode ==
  IF El(edx).kind = "prim" THEN PrimitiveDecode(El(edx), Window)
  ELSE StringDecode(El(edx), sctx[edx],
                    IF value[edx].present THEN value[edx].octets ELSE <<>>, Window)

InvokeMember ==
  /\ pc = "members" /\ edx < N /\ ctx.step % 2 = 1
  /\ \E r \in {MemberDecode} :
     /\ IF El(edx).kind = "prim"
          THEN /\ value' = IF r.code = "ok" THEN [value EXCEPT ![edx] = Got(r.octets)]
                           ELSE value
               /\ sctx' = sctx
          ELSE /\ value' = [value EXCEPT ![edx] = Got(r.octets)]
               /\ sctx' = [sctx EXCEPT ![edx] = r.c]
     /\ CASE r.code = "ok" ->
               /\ Advance(r.used)
               /\ ctx' = [ctx EXCEPT !.left = LeftAfter(r.used), !.step = @ + 1]
               /\ edx' = edx + 1
               /\ UNCHANGED <<pc, verdict>>
          [] r.code = "more" /\ ~SizeViolation ->
               /\ Advance(r.used)
               /\ ctx' = [ctx EXCEPT !.left = LeftAfter(r.used)]
               /\ Return("more")
          [] OTHER -> Return("fail") /\ UNCHANGED <<pos, ctx>>
  /\ UNCHANGED input

MembersExhausted ==
  /\ pc = "members" /\ edx >= N
  /\ ctx' = [ctx EXCEPT !.phase = 3] /\ pc' = "tail"
  /\ UNCHANGED <<input, pos, edx, sctx, value, verdict>>

(***************************************************************************)
(* Phases 3 and 4: what is left of the frame.  Extensions nobody knows are *)
(* skipped, but not after the first terminator.                            *)
(***************************************************************************)
Finish ==
  /\ pc = "tail" /\ ctx.left = 0
  /\ ctx' = [ctx EXCEPT !.phase = 10]
  /\ Return("ok")
  /\ UNCHANGED <<input, pos, sctx, value>>

Leftover == pc = "tail" /\ ctx.left # 0
NextTag  == Leftover /\ FetchTag(Window).len > 0

LeftoverNoTag ==
  /\ Leftover /\ FetchTag(Window).len <= 0
  /\ Return(IF FetchTag(Window).len = 0 THEN Starved ELSE "fail")
  /\ UNCHANGED <<input, pos, ctx, sctx, value>>

LeftoverAwaitTerminator ==
  /\ NextTag /\ HalfTerminator
  /\ Return("more")
  /\ UNCHANGED <<input, pos, ctx, sctx, value>>

\* A slip CallMakesProgress catches: the terminator is counted but not consumed.
EatTerminatorInPlace ==
  /\ NextTag /\ Terminator
  /\ ctx' = [ctx EXCEPT !.left = @ + 1, !.phase = 4]
  /\ UNCHANGED <<input, pos, pc, edx, sctx, value, verdict>>

EatTerminator ==
  /\ NextTag /\ Terminator
  /\ Advance(2)
  /\ ctx' = [ctx EXCEPT !.left = @ + 1, !.phase = 4]
  /\ UNCHANGED <<input, pc, edx, sctx, value, verdict>>

RejectLeftover ==
  /\ NextTag /\ ~HalfTerminator /\ ~Terminator
  /\ ~InExtensionGroup(N) \/ ctx.phase = 4
  /\ Return("fail")
  /\ UNCHANGED <<input, pos, ctx, sctx, value>>

SkipLeftover ==
  /\ NextTag /\ ~HalfTerminator /\ ~Terminator
  /\ InExtensionGroup(N) /\ ctx.phase # 4
  /\ IF Skip <= 0
       THEN /\ Return(IF Skip = 0 THEN Starved ELSE "fail")
            /\ UNCHANGED <<pos, ctx>>
       ELSE /\ Advance(FetchTag(Window).len + Skip)
            /\ ctx' = [ctx EXCEPT !.left = LeftAfter(FetchTag(Window).len + Skip)]
            /\ UNCHANGED <<pc, edx, verdict>>
  /\ UNCHANGED <<input, sctx, value>>

Decode ==
  \/ CheckOwnTags
  \/ EndOfSequence \/ NoTag \/ AwaitTerminator \/ ReachTerminator
  \/ FindElement \/ RejectUnknown \/ SkipUnknown
  \/ InvokeMember \/ MembersExhausted
  \/ Finish \/ LeftoverNoTag \/ LeftoverAwaitTerminator \/ EatTerminator
  \/ RejectLeftover \/ SkipLeftover

Next == (\E octet \in Alphabet : Deliver(octet)) \/ Call \/ Decode

Spec == Init /\ [][Next]_vars
-----------------------------------------------------------------------------
(***************************************************************************)
(* Properties.                                                             *)
(***************************************************************************)
Contexts == [phase : {0, 1, 3, 4, 10}, step : Nat, left : Int]

\* The variables have the types of the code; what is consumed has arrived; the step
\* counts tags first, and then two for an element.
TypeOK ==
  /\ input \in Seq(Alphabet) /\ pos \in 0 .. Len(input)
  /\ pc \in {"idle", "tags", "members", "tail"}
  /\ edx \in 0 .. N
  /\ verdict \in {"more", "ok", "fail"}
  /\ ctx \in Contexts
  /\ ctx.step <= IF ctx.phase = 0 THEN Len(Tags) ELSE 2 * N
  /\ \A e \in 0 .. N - 1 :
        /\ sctx[e].phase \in {0, 3} /\ sctx[e].left \in Nat
        /\ value[e].present => value[e].octets \in Seq(Alphabet)

\* A structure is handed over as decoded only with every mandatory member in it,
\* whatever the restarts it took: the end of the frame is accepted, and omitable
\* elements are stepped over, by the counts in elements[].optional alone.
MandatoryPresent ==
  verdict = "ok" => \A e \in 0 .. N - 1 : Mandatory(e) => value[e].present

\* A frame of definite length stays where its header put it: what is consumed and
\* what is left of it add up to the same end at every step of every call, nothing
\* reaches beyond that end, and left never wraps into the negative numbers that
\* stand for an indefinite length.
FrameNeverMoves ==
  [][ctx.phase > 0 =>
       IF ctx.left >= 0
         THEN ctx'.left >= 0 /\ pos' + ctx'.left = pos + ctx.left
         ELSE ctx'.left <= 0 /\ (ctx'.left > ctx.left => input[pos'] = 0)]_vars

\* Every call of the decoder returns: a step that does not return goes on to a
\* later phase, or consumes something, or at least settles which element comes
\* next, and there is an end to each of these.
LaterPhase == \/ pc = "tags" /\ pc' \in {"members", "tail"}
              \/ pc = "members" /\ pc' = "tail"

CallMakesProgress ==
  [][pc # "idle" => \/ pc' = "idle"
                    \/ LaterPhase
                    \/ pc' = pc /\ pos' > pos
                    \/ pc' = pc /\ pos' = pos /\ ctx'.step > ctx.step]_vars
=============================================================================
