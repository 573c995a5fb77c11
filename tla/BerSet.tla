------------------------------- MODULE BerSet -------------------------------
(***************************************************************************)
(* The restartable BER decoder of the SET types, SET_decode_ber of         *)
(* skeletons/constr_SET_ber.c.  The members come in any order, each at     *)
(* most once; a map of those that are present outlives the calls.          *)
(*                                                                         *)
(* Its caller, its macros, its tags and the octets after its members are   *)
(* those of the SEQUENCE, and BerSequence has them.  Of the two types that *)
(* specs->extensible tells apart, either may be the one that is decoded.   *)
(***************************************************************************)
EXTENDS BerSequence

\* tag2el, which bsearch looks a tag up in, lists every tag once.
ASSUME SetTableAssumption ==
  \A n, m \in 0 .. N - 1 : n # m => El(n).tag # El(m).tag

VARIABLES present,    \* the presence map
          extensible  \* specs->extensible

setvars == <<vars, present, extensible>>

SetInit == Init /\ present = {} /\ extensible \in BOOLEAN

\* The head of the loop: no member is being decoded.
SetSynchronizing == pc = "members" /\ ctx.step % 2 = 0

EndOfFrame ==
  /\ SetSynchronizing /\ ctx.left = 0
  /\ ctx' = [ctx EXCEPT !.phase = 3] /\ pc' = "tail"
  /\ UNCHANGED <<input, pos, edx, sctx, value, verdict, present>>

SetNoTag ==
  /\ SetSynchronizing /\ ctx.left # 0
  /\ FetchTag(Window).len <= 0
  /\ Return(IF FetchTag(Window).len = 0 THEN Starved ELSE "fail")
  /\ UNCHANGED <<input, pos, ctx, sctx, value, present>>

SetTagged == SetSynchronizing /\ ctx.left # 0 /\ FetchTag(Window).len > 0

SetAwaitTerminator ==
  /\ SetTagged /\ HalfTerminator
  /\ Return("more")
  /\ UNCHANGED <<input, pos, ctx, sctx, value, present>>

SetReachTerminator ==
  /\ SetTagged /\ Terminator
  /\ ctx' = [ctx EXCEPT !.phase = 3] /\ pc' = "tail"
  /\ UNCHANGED <<input, pos, edx, sctx, value, verdict, present>>

Tags2El(tag) == {n \in 0 .. N - 1 : El(n).tag = tag}

SetSearching == SetTagged /\ ~HalfTerminator /\ ~Terminator

SetFindElement ==
  /\ SetSearching
  /\ \E n \in Tags2El(FetchTag(Window).tag) :
       edx' = n /\ ctx' = [ctx EXCEPT !.step = 2 * n + 1]
  /\ UNCHANGED <<input, pos, pc, sctx, value, verdict, present>>

SetUnknown == SetSearching /\ Tags2El(FetchTag(Window).tag) = {}

SetRejectUnknown ==
  /\ SetUnknown /\ ~extensible
  /\ Return("fail")
  /\ UNCHANGED <<input, pos, ctx, sctx, value, present>>

SetSkipUnknown ==
  /\ SetUnknown /\ extensible
  /\ IF Skip <= 0
       THEN /\ Return(IF Skip = 0 THEN Starved ELSE "fail")
            /\ UNCHANGED <<pos, ctx>>
       ELSE /\ Advance(FetchTag(Window).len + Skip)
            /\ ctx' = [ctx EXCEPT !.left = LeftAfter(FetchTag(Window).len + Skip)]
            /\ UNCHANGED <<pc, edx, verdict>>
  /\ UNCHANGED <<input, sctx, value, present>>

\* A slip NeverOverwritten catches: the map is not asked.
DuplicateNever == FALSE

Duplicate == edx \in present

RejectDuplicate ==
  /\ pc = "members" /\ ctx.step % 2 = 1 /\ Duplicate
  /\ Return("fail")
  /\ UNCHANGED <<input, pos, ctx, sctx, value, present>>

\* A slip SetTypeOK catches: a member is in the map before it is complete.
PresentOnceBegun(code) == present \cup {edx}

PresentAfter(code) == IF code = "ok" THEN present \cup {edx} ELSE present

SetInvokeMember ==
  /\ pc = "members" /\ ctx.step % 2 = 1 /\ ~Duplicate
  /\ \E r \in {MemberDecode} :
     /\ IF El(edx).kind = "prim"
          THEN /\ value' = IF r.code = "ok" THEN [value EXCEPT ![edx] = Got(r.octets)]
                           ELSE value
               /\ sctx' = sctx
          ELSE /\ value' = [value EXCEPT ![edx] = Got(r.octets)]
               /\ sctx' = [sctx EXCEPT ![edx] = r.c]
     /\ present' = PresentAfter(r.code)
     /\ CASE r.code = "ok" ->
               /\ Advance(r.used)
               /\ ctx' = [ctx EXCEPT !.left = LeftAfter(r.used), !.step = 0]
               /\ UNCHANGED <<pc, edx, verdict>>
          [] r.code = "more" /\ ~SizeViolation ->
               /\ Advance(r.used)
               /\ ctx' = [ctx EXCEPT !.left = LeftAfter(r.used)]
               /\ Return("more")
          [] OTHER -> Return("fail") /\ UNCHANGED <<pos, ctx>>
  /\ UNCHANGED input

\* A slip MandatoryPresent catches: a terminator leads past the last phase.
PopulatedOrTerminated == ctx.phase = 4 \/ \A e \in 0 .. N - 1 : Mandatory(e) => e \in present

\* _SET_is_populated
Populated == \A e \in 0 .. N - 1 : Mandatory(e) => e \in present

SetFinish ==
  /\ pc = "tail" /\ ctx.left = 0
  /\ ctx' = [ctx EXCEPT !.phase = IF Populated THEN 6 ELSE 5]
  /\ Return(IF Populated THEN "ok" ELSE "fail")
  /\ UNCHANGED <<input, pos, sctx, value, present>>

\* FirstExt, which the last two ask, decides nothing: in phase 3 nothing comes but a
\* terminator (SetTypeOK), and after one nothing else is taken.
AfterMembers ==
  LeftoverNoTag \/ LeftoverAwaitTerminator \/ EatTerminator \/ RejectLeftover \/ SkipLeftover

SetDecode ==
  \/ EndOfFrame \/ SetNoTag \/ SetAwaitTerminator \/ SetReachTerminator
  \/ SetFindElement \/ SetRejectUnknown \/ SetSkipUnknown
  \/ RejectDuplicate \/ SetInvokeMember \/ SetFinish
  \/ (CheckOwnTags \/ AfterMembers) /\ present' = present

SetNext ==
  /\ \/ SetDecode
     \/ (Call \/ \E octet \in Alphabet : Deliver(octet)) /\ present' = present
  /\ extensible' = extensible

SetSpec == SetInit /\ [][SetNext]_setvars
-----------------------------------------------------------------------------
(***************************************************************************)
(* Properties.                                                             *)
(***************************************************************************)
\* The variables have the types of the code, and what the map holds is complete;
\* phase 3 is at the end of the frame or at a terminator.
SetTypeOK ==
  /\ ctx.phase \in {0, 1, 3, 4, 5, 6}
  /\ ctx.step \in 0 .. IF ctx.phase = 0 THEN Len(Tags) ELSE 2 * N
  /\ edx \in 0 .. N - 1
  /\ \A e \in present : value[e].present /\ sctx[e].left = 0
  /\ pc = "tail" /\ ctx.phase = 3 /\ ctx.left # 0 => Terminator

\* A member that is complete stays as it is: not a later TLV of the same tag, in
\* this call or in another one, nor the rest of the encoding changes it.
NeverOverwritten ==
  [][\A e \in present : value'[e] = value[e] /\ e \in present']_setvars
=============================================================================
