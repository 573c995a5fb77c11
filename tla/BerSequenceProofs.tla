-------------------------- MODULE BerSequenceProofs --------------------------
(***************************************************************************)
(* For every element table the compiler may emit, every alphabet and every *)
(* way of feeding the decoders of SEQUENCE and of SET: a structure is      *)
(* handed over as decoded only with all its mandatory members, the         *)
(* variables stay within their types, a frame of definite length stays     *)
(* where it is, every call returns, and a complete member of a SET is not  *)
(* decoded again.                                                          *)
(***************************************************************************)
EXTENDS BerSet, MCBerSequence, BerTLVProofs

\* The mandatory elements before element n have been decoded.
Below(n) == \A e \in 0 .. N - 1 : e < n /\ Mandatory(e) => value[e].present

\* What a context must vouch for while the decoder is away: all mandatory members
\* before the one it will resume at, and all of them from phase 3 on.
ContextVouches ==
  /\ ctx.phase = 1 => ctx.step \in Nat /\ ctx.step \div 2 <= N /\ Below(ctx.step \div 2)
  /\ ctx.phase \notin {0, 1} => Below(N)

\* While it runs, its cursor edx may be ahead of the context, never behind.
CursorVouches ==
  /\ pc = "tags" => ctx.phase = 0
  /\ pc = "members" => /\ ctx.phase = 1 /\ edx \in 0 .. N /\ Below(edx)
                       /\ ctx.step \in Nat /\ ctx.step \div 2 <= edx
  /\ pc = "tail" => ctx.phase \notin {0, 1} /\ Below(N)

IInv ==
  /\ DOMAIN value = 0 .. N - 1
  /\ DOMAIN ctx = {"phase", "step", "left"}
  /\ pc \in {"idle", "tags", "members", "tail"}
  /\ pc # "idle" => verdict = "more"
  /\ pc = "idle" /\ verdict = "more" => ContextVouches
  /\ CursorVouches
  /\ verdict = "ok" => Below(N)

-----------------------------------------------------------------------------
(***************************************************************************)
(* Facts about the element table.                                          *)
(***************************************************************************)
\* Where the end may come, no mandatory element is left.
LEMMA EndReachableOmits ==
  ASSUME NEW e \in 0 .. N - 1, EndReachable(e)
  PROVE  \A k \in e .. N - 1 : ~Mandatory(k)
<1>1. CASE e + Optional(e) = N
  <2>1. /\ \A k \in e .. e + Optional(e) - 1 : ~Mandatory(k)
        /\ Optional(e) \in 0 .. N - e
    BY TableAssumption
  <2>2. e + Optional(e) - 1 = N - 1
    BY <1>1, <2>1, TableAssumption
  <2> QED BY <2>1, <2>2
<1>2. CASE InExtensionGroup(e)
  <2>1. \A k \in e .. N - 1 : InExtensionGroup(k)
    BY <1>2, TableAssumption DEF InExtensionGroup
  <2>2. \A k \in e .. N - 1 : k \in 0 .. N - 1
    BY TableAssumption
  <2> QED BY <2>1, <2>2, TableAssumption
<1> QED BY <1>1, <1>2 DEF EndReachable

\* What a tag may step over on its way to its element is omitable.
LEMMA SteppedOver ==
  ASSUME NEW e \in 0 .. N - 1, NEW n \in e .. e + Optional(e), n <= N
  PROVE  /\ n \in 0 .. N
         /\ \A k \in 0 .. N - 1 : e <= k /\ k < n => ~Mandatory(k)
<1>1. Optional(e) \in 0 .. N - e /\ \A k \in e .. e + Optional(e) - 1 : ~Mandatory(k)
  BY TableAssumption
<1>2. n \in 0 .. N
  BY <1>1, TableAssumption
<1>3. ASSUME NEW k \in 0 .. N - 1, e <= k, k < n
      PROVE  ~Mandatory(k)
  <2>1. k \in e .. e + Optional(e) - 1
    BY <1>1, <1>3, TableAssumption
  <2> QED BY <1>1, <2>1
<1> QED BY <1>2, <1>3

\* A candidate is a member of the table, within the optional run.
LEMMA CandidateRange ==
  ASSUME NEW e \in 0 .. N - 1, NEW tag, NEW n \in Candidates(e, tag)
  PROVE  n \in e .. e + Optional(e) /\ n < N
BY DEF Candidates

-----------------------------------------------------------------------------
\* IInv at the start.
LEMMA InitVouches == Init => IInv
<1> SUFFICES ASSUME Init PROVE IInv
  OBVIOUS
<1>1. DOMAIN value = 0 .. N - 1 /\ DOMAIN ctx = {"phase", "step", "left"}
  BY DEF Init
<1> QED BY <1>1 DEF Init, IInv, ContextVouches, CursorVouches

\* The context and the values unchanged, a return that does not hand anything over
\* leaves a context that vouches for as much as the cursor did.
LEMMA ReturnVouches ==
  ASSUME IInv, pc # "idle", NEW code, code # "ok",
         pc' = "idle", verdict' = code, UNCHANGED <<ctx, value>>
  PROVE  IInv'
<1>1. Below(ctx.step \div 2)' \/ ctx.phase # 1
  BY TableAssumption DEF IInv, CursorVouches, Below
<1> QED BY <1>1, TableAssumption DEF IInv, CursorVouches, ContextVouches, Below

\* IInv is kept by every step.
LEMMA StepVouches == IInv /\ [Next]_vars => IInv'
<1> SUFFICES ASSUME IInv, [Next]_vars PROVE IInv'
  OBVIOUS
<1>1. ASSUME NEW octet \in Alphabet, Deliver(octet) PROVE IInv'
  BY <1>1 DEF Deliver, IInv, ContextVouches, CursorVouches, Below
<1>2. CASE Call
  <2>1. CASE ctx.phase = 1
    BY <1>2, <2>1, TableAssumption DEF Call, IInv, ContextVouches, CursorVouches, Below
  <2>2. CASE ctx.phase # 1
    BY <1>2, <2>2 DEF Call, IInv, ContextVouches, CursorVouches, Below
  <2> QED BY <2>1, <2>2
<1>3. CASE CheckOwnTags
  <2>1. PICK r : /\ IF r.code = "ok"
                      THEN /\ ctx' = [phase |-> 1, step |-> 0, left |-> r.length]
                           /\ pc' = "members" /\ edx' = 0 /\ verdict' = verdict
                      ELSE /\ ctx' = [ctx EXCEPT !.step = r.step]
                           /\ Return(r.code)
                 /\ value' = value /\ pc = "tags"
    BY <1>3 DEF CheckOwnTags
  <2>2. CASE r.code = "ok"
    <3>1. Below(0)' /\ 0 \in 0 .. N
      BY TableAssumption DEF Below
    <3> QED BY <2>1, <2>2, <3>1 DEF IInv, CursorVouches, ContextVouches
  <2>3. CASE r.code # "ok"
    <3>1. ctx'.phase = 0 /\ DOMAIN ctx' = DOMAIN ctx
      BY <2>1, <2>3 DEF IInv, CursorVouches
    <3> QED BY <2>1, <2>3, <3>1 DEF IInv, CursorVouches, ContextVouches, Return
  <2> QED BY <2>2, <2>3
<1>4. CASE EndOfSequence
  <2>1. edx \in 0 .. N - 1 /\ Below(edx) /\ EndReachable(edx)
    BY <1>4, TableAssumption DEF EndOfSequence, Synchronizing, LegitimateEnd, IInv, CursorVouches
  <2>2. Below(N)
    BY <2>1, EndReachableOmits, TableAssumption DEF Below
  <2> QED BY <1>4, <2>2 DEF EndOfSequence, Return, IInv, CursorVouches, ContextVouches, Below
<1>5. CASE NoTag
  BY <1>5, ReturnVouches DEF NoTag, Return, Starved, Synchronizing
<1>6. CASE AwaitTerminator
  BY <1>6, ReturnVouches DEF AwaitTerminator, Return, Tagged, Synchronizing
<1>7. CASE ReachTerminator
  <2>1. edx \in 0 .. N - 1 /\ Below(edx) /\ EndReachable(edx)
    BY <1>7, TableAssumption DEF ReachTerminator, Tagged, Synchronizing, IInv, CursorVouches
  <2>2. Below(N)
    BY <2>1, EndReachableOmits, TableAssumption DEF Below
  <2> QED BY <1>7, <2>2 DEF ReachTerminator, Tagged, Synchronizing, IInv, CursorVouches, Below
<1>8. CASE FindElement
  <2>1. PICK n \in Candidates(edx, FetchTag(Window).tag) :
           edx' = n /\ ctx' = [ctx EXCEPT !.step = 2 * n + 1]
    BY <1>8 DEF FindElement
  <2>2. edx \in 0 .. N - 1 /\ Below(edx) /\ pc = "members"
    BY <1>8, TableAssumption DEF FindElement, Searching, Tagged, Synchronizing, IInv, CursorVouches
  <2>3. n \in edx .. edx + Optional(edx) /\ n < N
    BY <2>1, <2>2, CandidateRange
  <2>4. n \in 0 .. N /\ Below(n)
    BY <2>2, <2>3, SteppedOver, TableAssumption DEF Below
  <2>5. (2 * n + 1) \div 2 = n /\ 2 * n + 1 \in Nat
    BY <2>4
  <2> QED BY <1>8, <2>1, <2>2, <2>4, <2>5 DEF FindElement, IInv, CursorVouches, Below
<1>9. CASE RejectUnknown
  BY <1>9, ReturnVouches DEF RejectUnknown, Return, Unknown, Searching, Tagged, Synchronizing
<1>10. CASE SkipUnknown
  <2>0. pc = "members" /\ edx \in 0 .. N - 1 /\ Below(edx)
    BY <1>10, TableAssumption DEF SkipUnknown, Unknown, Searching, Tagged, Synchronizing, IInv, CursorVouches
  <2>1. CASE Skip <= 0
    BY <1>10, <2>0, <2>1, ReturnVouches DEF SkipUnknown, Return, Starved
  <2>2. CASE ~(Skip <= 0)
    <3>1. edx' = edx + Optional(edx) /\ UNCHANGED <<pc, verdict, value>>
      BY <1>10, <2>2 DEF SkipUnknown
    <3>2. edx' \in 0 .. N /\ Below(edx') /\ edx' >= edx
      BY <2>0, <3>1, SteppedOver, TableAssumption DEF Below
    <3>3. ctx'.phase = ctx.phase /\ ctx'.step = ctx.step /\ DOMAIN ctx' = DOMAIN ctx
      BY <1>10, <2>2 DEF SkipUnknown, IInv
    <3> QED BY <2>0, <3>1, <3>2, <3>3 DEF IInv, CursorVouches, Below
  <2> QED BY <2>1, <2>2
<1>11. CASE InvokeMember
  <2>1. pc = "members" /\ edx \in 0 .. N - 1 /\ Below(edx)
    BY <1>11, TableAssumption DEF InvokeMember, IInv, CursorVouches
  <2>2. PICK r : /\ IF El(edx).kind = "prim"
                      THEN value' = IF r.code = "ok" THEN [value EXCEPT ![edx] = Got(r.octets)]
                                    ELSE value
                      ELSE value' = [value EXCEPT ![edx] = Got(r.octets)]
                 /\ CASE r.code = "ok" ->
                           /\ ctx' = [ctx EXCEPT !.left = LeftAfter(r.used), !.step = @ + 1]
                           /\ edx' = edx + 1
                           /\ UNCHANGED <<pc, verdict>>
                      [] r.code = "more" /\ ~SizeViolation ->
                           /\ ctx' = [ctx EXCEPT !.left = LeftAfter(r.used)]
                           /\ Return("more")
                      [] OTHER -> Return("fail") /\ ctx' = ctx
    BY <1>11, ZenonT(30) DEF InvokeMember
  <2>3. /\ DOMAIN value' = 0 .. N - 1
        /\ \A e \in 0 .. N - 1 : value[e].present => value'[e].present
        /\ r.code = "ok" => value'[edx].present
    <3>1. value' = value \/ value' = [value EXCEPT ![edx] = Got(r.octets)]
      BY <2>2
    <3>2. r.code = "ok" => value' = [value EXCEPT ![edx] = Got(r.octets)]
      BY <2>2
    <3>3. DOMAIN value = 0 .. N - 1 /\ edx \in DOMAIN value
      BY <2>1 DEF IInv
    <3>4. Got(r.octets).present
      BY DEF Got
    <3>5. ASSUME value' = [value EXCEPT ![edx] = Got(r.octets)]
          PROVE  /\ DOMAIN value' = 0 .. N - 1
                 /\ \A e \in 0 .. N - 1 : value[e].present => value'[e].present
                 /\ value'[edx].present
      BY <3>3, <3>4, <3>5
    <3> QED BY <3>1, <3>2, <3>3, <3>5
  <2>4. CASE r.code = "ok"
    <3>1. /\ \A e \in 0 .. N - 1 : e < edx + 1 /\ Mandatory(e) => value'[e].present
          /\ edx + 1 \in 0 .. N
      <4>1. edx + 1 \in 0 .. N
        BY <2>1, TableAssumption
      <4>2. ASSUME NEW e \in 0 .. N - 1, e < edx + 1, Mandatory(e)
            PROVE  value'[e].present
        <5>1. CASE e = edx
          BY <2>3, <2>4, <5>1
        <5>2. CASE e # edx
          <6>1. e < edx
            BY <2>1, <4>2, <5>2, TableAssumption
          <6>2. value[e].present
            BY <2>1, <4>2, <6>1 DEF Below
          <6> QED BY <2>3, <6>2
        <5> QED BY <5>1, <5>2
      <4> QED BY <4>1, <4>2
    <3>2. ctx'.phase = 1 /\ ctx'.step = ctx.step + 1 /\ DOMAIN ctx' = DOMAIN ctx
      BY <2>1, <2>2, <2>4 DEF IInv, CursorVouches
    <3>3. ctx'.step \in Nat /\ ctx'.step \div 2 <= edx + 1
      BY <2>1, <3>2 DEF IInv, CursorVouches
    <3> QED BY <2>1, <2>2, <2>3, <2>4, <3>1, <3>2, <3>3 DEF IInv, CursorVouches, Below
  <2>5. CASE r.code # "ok"
    <3>1. /\ pc' = "idle" /\ verdict' # "ok" /\ DOMAIN ctx' = DOMAIN ctx
          /\ ctx'.phase = ctx.phase /\ ctx'.step = ctx.step
      BY <2>2, <2>5 DEF IInv, Return
    <3>2. Below(ctx.step \div 2)'
      BY <2>1, <2>3, <3>1, TableAssumption DEF IInv, CursorVouches, Below
    <3> QED BY <2>1, <2>3, <3>1, <3>2, TableAssumption DEF IInv, CursorVouches, ContextVouches, Below
  <2> QED BY <2>4, <2>5
<1>12. CASE MembersExhausted
  BY <1>12, TableAssumption DEF MembersExhausted, IInv, CursorVouches, Below
<1>13. CASE Finish
  BY <1>13 DEF Finish, Return, IInv, CursorVouches, ContextVouches, Below
<1>14. CASE LeftoverNoTag
  BY <1>14, ReturnVouches DEF LeftoverNoTag, Leftover, Return, Starved
<1>15. CASE LeftoverAwaitTerminator
  BY <1>15, ReturnVouches DEF LeftoverAwaitTerminator, NextTag, Leftover, Return
<1>16. CASE EatTerminator
  BY <1>16 DEF EatTerminator, NextTag, Leftover, IInv, CursorVouches, Below
<1>17. CASE RejectLeftover
  BY <1>17, ReturnVouches DEF RejectLeftover, NextTag, Leftover, Return
<1>18. CASE SkipLeftover
  <2>1. CASE Skip <= 0
    BY <1>18, <2>1, ReturnVouches DEF SkipLeftover, NextTag, Leftover, Return, Starved
  <2>2. CASE ~(Skip <= 0)
    BY <1>18, <2>2 DEF SkipLeftover, NextTag, Leftover, IInv, CursorVouches, Below
  <2> QED BY <2>1, <2>2
<1>19. CASE UNCHANGED vars
  BY <1>19 DEF vars, IInv, ContextVouches, CursorVouches, Below
<1> QED
  BY <1>1, <1>2, <1>3, <1>4, <1>5, <1>6, <1>7, <1>8, <1>9, <1>10, <1>11, <1>12, <1>13,
     <1>14, <1>15, <1>16, <1>17, <1>18, <1>19 DEF Next, Decode

\* A structure handed over as decoded has all its mandatory members: the end
\* conditions and the repositioning of SEQUENCE_decode_ber never step over one.
THEOREM MandatoryPresentHolds == Spec => []MandatoryPresent
<1>1. IInv => MandatoryPresent
  BY TableAssumption DEF IInv, MandatoryPresent, Below
<1> QED BY InitVouches, StepVouches, <1>1, PTL DEF Spec
-----------------------------------------------------------------------------
(***************************************************************************)
(* The member decoders stay within their window.                           *)
(***************************************************************************)
StringContexts ==
  {c \in [phase : {0, 3}, step : Nat, left : Nat] : c.phase = 0 => c.step = 0}

\* Windows of the input are windows for BerTLV.
LEMMA WindowsAreOctets == Seq(Alphabet) \subseteq Seq(Octet)
BY StringAssumption

\* A part of a window, which may be empty.
LEMMA PartOfWindow ==
  ASSUME NEW w \in Seq(Alphabet), NEW u \in Nat, NEW s \in Nat, u + s <= Len(w)
  PROVE  SubSeq(w, u + 1, u + s) \in Seq(Alphabet)
<1>1. Len(w) \in Nat /\ \A k \in u + 1 .. u + s : w[k] \in Alphabet
  OBVIOUS
<1> QED BY <1>1, SubSeqProperties

\* ber_decode_primitive takes the whole TLV or nothing, and no more than there is; a TLV
\* is not empty.
LEMMA PrimitiveDecodeBounds ==
  ASSUME NEW w \in Seq(Alphabet), NEW e \in 0 .. N - 1, El(e).kind = "prim"
  PROVE  LET r == PrimitiveDecode(El(e), w)
         IN  /\ r.code \in {"ok", "more", "fail"} /\ r.used \in 0 .. Len(w)
             /\ r.code = "ok" => r.octets \in Seq(Alphabet) /\ r.used > 0
<1> DEFINE tags == El(e).tags
           mode == El(e).mode
           r == CheckTags(tags, mode, 0, 0, FALSE, w)
<1>1. tags \in Seq(Nat \X Nat) /\ tags # <<>> /\ mode \in {-1, 0, 1}
  BY TypeAssumption
<1>2. Len(tags) \in Nat \ {0} /\ w \in Seq(Octet) /\ Len(w) \in Nat
  BY <1>1, WindowsAreOctets
<1>3. FirstOf(mode, 0) <= Len(tags) /\ FALSE \in BOOLEAN /\ 0 \in Nat
  BY <1>1, <1>2 DEF FirstOf
<1>4. AnswerOK(r, w, 0 .. 0 + Len(tags) - FirstOf(mode, 0))
  BY <1>1, <1>2, <1>3, CheckTagsBounds
<1>5. r.code = "ok" => r.length \in Nat /\ r.used > 0
  BY <1>1, <1>2, <1>3, PrimitiveTags
<1>6. PrimitiveDecode(El(e), w) = PrimitiveTake(r, w)
  BY DEF PrimitiveDecode
<1> HIDE DEF r
<1>7. CASE r.code # "ok"
  BY <1>2, <1>4, <1>6, <1>7 DEF PrimitiveTake, AnswerOK
<1>8. CASE r.code = "ok" /\ r.length > Len(w) - r.used
  BY <1>2, <1>6, <1>8 DEF PrimitiveTake
<1>9. CASE r.code = "ok" /\ ~(r.length > Len(w) - r.used)
  <2>1. r.used \in Nat /\ r.used > 0 /\ r.length \in Nat /\ r.used + r.length <= Len(w)
    BY <1>2, <1>4, <1>5, <1>9 DEF AnswerOK
  <2>2. SubSeq(w, r.used + 1, r.used + r.length) \in Seq(Alphabet)
    BY <2>1, PartOfWindow
  <2>3. r.used + r.length \in 0 .. Len(w) /\ r.used + r.length > 0
    BY <1>2, <2>1
  <2> QED BY <1>6, <1>9, <2>2, <2>3 DEF PrimitiveTake
<1> QED BY <1>7, <1>8, <1>9

\* What a string decoder answers when called with the context c: its window bounds it,
\* where it has not begun nothing has changed, and where nothing of a string is left it
\* is complete.  A string that was waited for takes something to complete.
StringAnswerOK(r, c, w) ==
  /\ r.code \in {"ok", "more", "fail"} /\ r.used \in 0 .. Len(w)
  /\ r.octets \in Seq(Alphabet)
  /\ r.c \in StringContexts
  /\ r.c.phase = 0 => r.code # "ok" /\ r.used = 0 /\ r.c = c
  /\ r.code = "ok" => r.c.left = 0
  /\ r.c.phase = 3 /\ r.c.left = 0 => r.code = "ok"
  /\ r.code = "ok" /\ (c.phase = 0 \/ c.left > 0) => r.used > 0

\* The octets of a string taken from the window answer within it.
LEMMA StringTakeBounds ==
  ASSUME NEW w \in Seq(Alphabet), NEW octets \in Seq(Alphabet), NEW used \in 0 .. Len(w),
         NEW c \in StringContexts, c.phase = 3
  PROVE  /\ StringAnswerOK(StringTake(c, used, octets, w), c, w)
         /\ StringTake(c, used, octets, w).used >= used
<1> DEFINE take == Min({Len(w) - used, c.left})
           r == StringTake(c, used, octets, w)
           rest == [c EXCEPT !.left = @ - take]
<1>1. Len(w) \in Nat /\ used \in Nat /\ c.left \in Nat /\ c.step \in Nat
  BY DEF StringContexts
<1>2. take \in Nat /\ take <= Len(w) - used /\ take <= c.left
  <2>1. take = IF Len(w) - used <= c.left THEN Len(w) - used ELSE c.left
    BY <1>1, MinOfTwo
  <2> QED BY <1>1, <2>1
<1> HIDE DEF take
<1>3. used + take \in 0 .. Len(w)
  BY <1>1, <1>2
<1>4. SubSeq(w, used + 1, used + take) \in Seq(Alphabet)
  BY <1>1, <1>2, PartOfWindow
<1>5. octets \o SubSeq(w, used + 1, used + take) \in Seq(Alphabet)
  BY <1>4, ConcatProperties
<1>6. /\ r.code = (IF take < c.left THEN "more" ELSE "ok") /\ r.used = used + take
      /\ r.octets = octets \o SubSeq(w, used + 1, used + take)
      /\ r.c = rest
  BY DEF StringTake, StringAppend, take
<1> HIDE DEF r
<1>7. rest \in StringContexts /\ rest.phase = 3 /\ rest.left = c.left - take
  BY <1>1, <1>2 DEF StringContexts
<1>8. r.code \in {"ok", "more"} /\ (r.code = "ok" <=> take = c.left) /\ r.c.phase = 3
  <2>1. ~(take < c.left) <=> take = c.left
    BY <1>1, <1>2
  <2>2. r.c.phase = 3
    BY <1>6, <1>7
  <2>3. r.code = IF take < c.left THEN "more" ELSE "ok"
    BY <1>6
  <2> QED BY <2>1, <2>2, <2>3
<1>9. StringAnswerOK(r, c, w)
  BY <1>1, <1>2, <1>3, <1>5, <1>6, <1>7, <1>8, SMTT(20) DEF StringAnswerOK
<1>10. r.used >= used
  BY <1>1, <1>2, <1>6
<1> QED BY <1>9, <1>10 DEF r

\* OCTET_STRING_decode_ber, called with the context it left, on octets that do not
\* begin with a constructed tag.
LEMMA StringDecodeBounds ==
  ASSUME NEW w \in Seq(Alphabet), NEW e \in 0 .. N - 1, El(e).kind = "string",
         NEW c \in StringContexts, NEW octets \in Seq(Alphabet),
         c.phase = 0 => w = <<>> \/ ~Constructed(w)
  PROVE  StringAnswerOK(StringDecode(El(e), c, octets, w), c, w)
<1>1. CASE c.phase = 3
  <2>1. Len(w) \in Nat /\ 0 \in 0 .. Len(w)
    OBVIOUS
  <2> QED BY <1>1, <2>1, StringTakeBounds DEF StringDecode
<1>2. CASE c.phase # 3
  <2> DEFINE tags == El(e).tags
             mode == El(e).mode
             r == CheckTags(tags, mode, -1, 0, TRUE, w)
  <2>1. c.phase = 0 /\ c.step = 0
    BY <1>2 DEF StringContexts
  <2>2. tags \in Seq(Nat \X Nat) /\ tags # <<>> /\ mode \in {-1, 0}
    BY TypeAssumption
  <2>3. Len(tags) \in Nat \ {0} /\ w \in Seq(Octet) /\ Len(w) \in Nat
    BY <2>2, WindowsAreOctets
  <2>4. FirstOf(mode, 0) <= Len(tags) /\ FirstOf(mode, 0) = 0 /\ TRUE \in BOOLEAN /\ 0 \in Nat
    BY <2>2, <2>3 DEF FirstOf
  <2>5. AnswerOK(r, w, 0 .. 0 + Len(tags) - FirstOf(mode, 0))
    BY <2>2, <2>3, <2>4, CheckTagsBounds
  <2>6. IF r.code = "ok" THEN r.length \in Nat /\ r.used > 0 ELSE r.step = 0 /\ r.used = 0
    BY <2>1, <2>2, <2>3, <2>4, StringTags
  <2>7. StringDecode(El(e), c, octets, w) = StringStart(r, c, octets, w)
    BY <1>2, <2>1 DEF StringDecode
  <2> HIDE DEF r
  <2>8. CASE r.code = "ok"
    <3> DEFINE begun == [phase |-> 3, step |-> r.step, left |-> r.length]
    <3>1. r.step \in Nat /\ r.used \in 1 .. Len(w) /\ r.used \in 0 .. Len(w) /\ r.length \in Nat
      BY <2>3, <2>4, <2>5, <2>6, <2>8 DEF AnswerOK
    <3>2. begun \in StringContexts /\ begun.phase = 3
      BY <3>1 DEF StringContexts
    <3>3. StringStart(r, c, octets, w) = StringTake(begun, r.used, octets, w)
      BY <2>8 DEF StringStart
    <3> HIDE DEF begun
    <3>4. /\ StringAnswerOK(StringStart(r, c, octets, w), begun, w)
          /\ StringStart(r, c, octets, w).used >= r.used
      BY <3>1, <3>2, <3>3, StringTakeBounds
    <3>5. StringStart(r, c, octets, w).c.phase = 3
      <4>1. StringTake(begun, r.used, octets, w).c.phase = begun.phase
        BY <3>2 DEF StringTake, StringAppend, StringContexts
      <4> QED BY <3>2, <3>3, <4>1
    <3> QED BY <2>7, <3>1, <3>4, <3>5 DEF StringAnswerOK
  <2>9. CASE r.code # "ok"
    <3>1. r.code \in {"more", "fail"} /\ r.used = 0 /\ r.step = 0 /\ 0 \in 0 .. Len(w)
      BY <2>3, <2>5, <2>6, <2>9 DEF AnswerOK
    <3>2. [c EXCEPT !.step = r.step] = c
      BY <2>1, <3>1 DEF StringContexts
    <3>3. StringStart(r, c, octets, w) = [code |-> r.code, used |-> 0, octets |-> octets, c |-> c]
      BY <2>9, <3>1, <3>2 DEF StringStart
    <3> QED BY <2>1, <2>7, <3>1, <3>3 DEF StringAnswerOK
  <2> QED BY <2>8, <2>9
<1> QED BY <1>1, <1>2
\* A member whose decoder has not begun is primitive where its tag is that of a string.
LEMMA TaggedStringIsPrimitive ==
  ASSUME NEW w \in Seq(Alphabet), FetchTag(w).len > 0,
         NEW e \in 0 .. N - 1, El(e).kind = "string", El(e).tag = FetchTag(w).tag
  PROVE  w # <<>> /\ ~Constructed(<<w[1]>>)
<1>1. w \in Seq(Octet)
  BY WindowsAreOctets
<1>2. /\ w # <<>> /\ El(e).tag[2] = w[1] \div 64
      /\ w[1] % 32 = 31 \/ El(e).tag[1] = w[1] % 32
  BY <1>1, FetchTagBounds
<1>3. w[1] \in Alphabet
  BY <1>2
<1> QED BY <1>2, <1>3, StringAssumption

-----------------------------------------------------------------------------
(***************************************************************************)
(* The macros of the decoder.  What the window shows has arrived, and it   *)
(* ends where the frame does.                                              *)
(***************************************************************************)
Streaming == input \in Seq(Alphabet) /\ pos \in 0 .. Len(input) /\ ctx.left \in Int

\* What the decoder sees is a part of what the caller has put in.
LEMMA WindowBounds ==
  ASSUME Streaming
  PROVE  /\ Window \in Seq(Alphabet) /\ Window \in Seq(Octet)
         /\ Len(Window) = Left /\ Left \in Nat /\ pos + Left <= Len(input)
         /\ ctx.left >= 0 => Left <= ctx.left
         /\ \A k \in 1 .. Left : Window[k] = input[pos + k]
<1>1. input \in Seq(Alphabet) /\ pos \in Nat /\ Len(input) \in Nat /\ pos <= Len(input)
  BY DEF Streaming
<1>2. Left \in Nat /\ pos + Left <= Len(input) /\ (ctx.left >= 0 => Left <= ctx.left)
  BY <1>1 DEF Streaming, Left, Size
<1>3. Window = SubSeq(input, pos + 1, pos + Left)
  BY DEF Window
<1> HIDE DEF Left, Window
<1>4. Window \in Seq(Alphabet)
  BY <1>1, <1>2, <1>3, PartOfWindow
<1>5. input \in Seq(Octet)
  BY <1>1, WindowsAreOctets
<1>6. Len(Window) = Left /\ \A k \in 1 .. Left : Window[k] = input[pos + k]
  BY <1>1, <1>2, <1>3, <1>5, PartProperties
<1> QED BY <1>2, <1>4, <1>6, WindowsAreOctets

\* ADVANCE keeps a frame of definite length where it is.
LEMMA AdvanceBounds ==
  ASSUME Streaming, NEW n \in 0 .. Left
  PROVE  /\ pos + n \in 0 .. Len(input) /\ LeftAfter(n) \in Int
         /\ IF ctx.left >= 0 THEN LeftAfter(n) >= 0 /\ pos + n + LeftAfter(n) = pos + ctx.left
            ELSE LeftAfter(n) = ctx.left
BY WindowBounds DEF Streaming, LeftAfter

\* What is skipped, tag included, is in the window.
LEMMA SkipBounds ==
  ASSUME Streaming, FetchTag(Window).len > 0
  PROVE  Skip \in Int /\ (Skip > 0 => FetchTag(Window).len + Skip \in 1 .. Left)
<1> DEFINE w == Window
           n == FetchTag(w).len
<1>1. w \in Seq(Octet) /\ Len(w) = Left /\ Left \in Nat
  BY WindowBounds
<1> HIDE DEF w
<1>2. n \in -1 .. Len(w)
  BY <1>1, FetchTagBounds
<1>3. n > 0
  BY DEF w
<1> HIDE DEF n
<1>4. n + 1 \in 1 .. Len(w) + 1
  BY <1>1, <1>2, <1>3
<1>5. From(w, n + 1) \in Seq(Octet) /\ Len(From(w, n + 1)) = Len(w) - n
  <2>1. From(w, n + 1) \in Seq(Octet) /\ Len(From(w, n + 1)) = Len(w) - (n + 1) + 1
    BY <1>1, <1>4, FromProperties
  <2> QED BY <1>1, <1>2, <2>1
<1>6. SkipLength(Constructed(w), From(w, n + 1)) \in -1 .. Len(w) - n
  BY <1>5, SkipLengthBounds DEF Constructed
<1>7. Skip = SkipLength(Constructed(w), From(w, n + 1)) /\ n = FetchTag(Window).len
  BY DEF Skip, w, n
<1> QED BY <1>1, <1>2, <1>3, <1>6, <1>7

\* The decoder of the member that edx stands for.
MemberReady ==
  /\ edx \in 0 .. N - 1
  /\ sctx[edx] \in StringContexts
  /\ value[edx].present => value[edx].octets \in Seq(Alphabet)
  /\ El(edx).kind = "string" /\ sctx[edx].phase = 0 =>
       pos < Len(input) /\ ~Constructed(<<input[pos + 1]>>)

\* A member decoder consumes no more than the window, and keeps its own context.
LEMMA MemberDecodeBounds ==
  ASSUME Streaming, MemberReady
  PROVE  /\ MemberDecode.code \in {"ok", "more", "fail"} /\ MemberDecode.used \in 0 .. Left
         /\ El(edx).kind = "prim" /\ MemberDecode.code = "ok" =>
              MemberDecode.octets \in Seq(Alphabet) /\ MemberDecode.used > 0
         /\ El(edx).kind # "prim" => StringAnswerOK(MemberDecode, sctx[edx], Window)
<1> DEFINE w == Window
<1>1. /\ w \in Seq(Alphabet) /\ Len(w) = Left /\ Left \in Nat
      /\ \A k \in 1 .. Left : w[k] = input[pos + k]
  BY WindowBounds
<1>2. edx \in 0 .. N - 1
  BY DEF MemberReady
<1>3. CASE El(edx).kind = "prim"
  <2>1. MemberDecode = PrimitiveDecode(El(edx), w)
    BY <1>3 DEF MemberDecode
  <2> HIDE DEF w
  <2> QED BY <1>1, <1>2, <1>3, <2>1, PrimitiveDecodeBounds
<1>4. CASE El(edx).kind # "prim"
  <2> DEFINE c == sctx[edx]
             octets == IF value[edx].present THEN value[edx].octets ELSE <<>>
  <2>1. El(edx).kind = "string"
    BY <1>2, <1>4, TypeAssumption
  <2>2. octets \in Seq(Alphabet) /\ c \in StringContexts
    BY DEF MemberReady
  <2>3. c.phase = 0 => w = <<>> \/ ~Constructed(w)
    <3> SUFFICES ASSUME c.phase = 0, w # <<>> PROVE ~Constructed(w)
      OBVIOUS
    <3>1. w[1] = input[pos + 1]
      BY <1>1
    <3>2. ~Constructed(<<input[pos + 1]>>)
      BY <2>1 DEF MemberReady
    <3> QED BY <3>1, <3>2 DEF Constructed
  <2>4. MemberDecode = StringDecode(El(edx), c, octets, w)
    BY <1>4 DEF MemberDecode
  <2> HIDE DEF w, c, octets
  <2>5. StringAnswerOK(MemberDecode, c, w)
    BY <1>1, <1>2, <2>1, <2>2, <2>3, <2>4, StringDecodeBounds
  <2> QED BY <1>1, <1>4, <2>5 DEF StringAnswerOK, c, w
<1> QED BY <1>3, <1>4

-----------------------------------------------------------------------------
(***************************************************************************)
(* Types.  TypeOK is not inductive: what a string decoder is called with   *)
(* depends on the member that waits for it.                                *)
(***************************************************************************)
StringsOK == DOMAIN sctx = 0 .. N - 1 /\ \A e \in 0 .. N - 1 : sctx[e] \in StringContexts

\* In microphase 2 the cursor is at the member that the step names.
Resumed == pc = "members" /\ ctx.step % 2 = 1 => edx = ctx.step \div 2

\* A string whose decoder is called for and has not begun is there, in primitive form.
StringAhead(e) ==
  e < N /\ (El(e).kind = "string" /\ sctx[e].phase = 0 =>
              pos < Len(input) /\ ~Constructed(<<input[pos + 1]>>))

ElementAhead ==
  verdict = "more" /\ ctx.phase = 1 /\ ctx.step % 2 = 1 => StringAhead(ctx.step \div 2)

TInv == TypeOK /\ StringsOK /\ Resumed /\ ElementAhead

\* TypeOK gives what WindowBounds needs.
LEMMA TypedStreams == TypeOK => Streaming
BY DEF TypeOK, Contexts, Streaming

\* The context, the input and the members unchanged, any return is fine.
LEMMA ReturnTyped ==
  ASSUME IInv, TInv, pc # "idle", NEW code \in {"more", "ok", "fail"}, Return(code),
         UNCHANGED <<input, pos, ctx, sctx, value>>
  PROVE  TInv'
<1>1. TypeOK'
  BY TableAssumption DEF TInv, TypeOK, Return
<1>2. StringsOK' /\ Resumed'
  BY DEF TInv, StringsOK, Resumed, Return
<1>3. ElementAhead'
  BY DEF IInv, TInv, ElementAhead, StringAhead
<1> QED BY <1>1, <1>2, <1>3 DEF TInv

\* Steps that move nothing but the position, the cursor, the phase and what is left.
LEMMA MoveTyped ==
  ASSUME IInv, TInv, pc # "idle", pc' # "idle", UNCHANGED <<input, verdict, sctx, value>>,
         pc' \in {"members", "tail"}, pos' \in 0 .. Len(input), edx' \in 0 .. N,
         ctx' \in Contexts, ctx.phase # 0, ctx'.phase # 0, ctx'.step = ctx.step,
         ctx.step % 2 = 0 \/ (pc' # "members" /\ ctx'.phase # 1)
  PROVE  TInv'
<1>1. TypeOK'
  BY DEF TInv, TypeOK
<1>2. StringsOK'
  BY DEF TInv, StringsOK
<1>3. Resumed' /\ ElementAhead'
  BY DEF Resumed, ElementAhead
<1> QED BY <1>1, <1>2, <1>3 DEF TInv

\* TInv at the start.
LEMMA InitTyped == Init => TInv
<1> SUFFICES ASSUME Init PROVE TInv
  OBVIOUS
<1>1. ctx \in Contexts /\ ctx.phase = 0 /\ ctx.step = 0
  BY DEF Init, Contexts
<1>2. \A e \in 0 .. N - 1 : sctx[e] = [phase |-> 0, step |-> 0, left |-> 0] /\ value[e] = Absent
  BY DEF Init
<1>3. [phase |-> 0, step |-> 0, left |-> 0] \in StringContexts
  BY DEF StringContexts
<1>4. StringsOK
  BY <1>2, <1>3 DEF StringsOK, Init
<1>5. Len(Tags) \in Nat /\ N \in Nat
  BY TableAssumption, TypeAssumption
<1>6. \A e \in 0 .. N - 1 : sctx[e].phase \in {0, 3} /\ sctx[e].left \in Nat /\ ~value[e].present
  BY <1>2 DEF Absent
<1>7. input \in Seq(Alphabet) /\ pos \in 0 .. Len(input)
  BY DEF Init
<1>8. TypeOK
  BY <1>1, <1>5, <1>6, <1>7 DEF TypeOK, Init
<1> QED BY <1>1, <1>4, <1>8 DEF TInv, Resumed, ElementAhead, Init

\* Phase 0 consumes what has arrived, and counts tags there are.
LEMMA OwnTags ==
  ASSUME Streaming, ctx.step \in Nat, ctx.step <= Len(Tags), CheckOwnTags
  PROVE  \E r : /\ r.code \in {"ok", "more", "fail"}
                /\ pos' = pos + r.used /\ pos + r.used \in 0 .. Len(input)
                /\ r.step \in Nat /\ r.step <= Len(Tags) /\ r.length \in Int
                /\ IF r.code = "ok"
                     THEN /\ ctx' = [phase |-> 1, step |-> 0, left |-> r.length]
                          /\ pc' = "members" /\ edx' = 0 /\ verdict' = verdict
                     ELSE /\ ctx' = [ctx EXCEPT !.step = r.step]
                          /\ Return(r.code)
                /\ UNCHANGED <<input, sctx, value>>
<1> DEFINE w == From(input, pos + 1)
           r == CheckTags(Tags, 0, 1, ctx.step, TRUE, w)
<1>1. /\ input \in Seq(Alphabet) /\ input \in Seq(Octet) /\ Len(input) \in Nat
      /\ pos \in 0 .. Len(input) /\ pos + 1 \in 1 .. Len(input) + 1 /\ Len(Tags) \in Nat
  BY WindowsAreOctets, TypeAssumption DEF Streaming
<1>2. w \in Seq(Octet) /\ Len(w) = Len(input) - pos
  <2>1. w \in Seq(Octet) /\ Len(w) = Len(input) - (pos + 1) + 1
    BY <1>1, FromProperties
  <2> QED BY <1>1, <2>1
<1> HIDE DEF w
<1>3. AnswerOK(r, w, ctx.step .. ctx.step + Len(Tags) - FirstOf(0, ctx.step))
  <2>1. FirstOf(0, ctx.step) = ctx.step
    BY DEF FirstOf
  <2> QED BY <1>1, <1>2, <2>1, CheckTagsBounds
<1>4. /\ pos' = pos + r.used
      /\ IF r.code = "ok"
           THEN /\ ctx' = [phase |-> 1, step |-> 0, left |-> r.length]
                /\ pc' = "members" /\ edx' = 0 /\ verdict' = verdict
           ELSE /\ ctx' = [ctx EXCEPT !.step = r.step]
                /\ Return(r.code)
      /\ UNCHANGED <<input, sctx, value>>
  BY DEF CheckOwnTags, Advance, w
<1> HIDE DEF r
<1>5. /\ r.code \in {"ok", "more", "fail"} /\ pos + r.used \in 0 .. Len(input)
      /\ r.step \in Nat /\ r.step <= Len(Tags) /\ r.length \in Int
  BY <1>1, <1>2, <1>3, SMTT(20) DEF AnswerOK, FirstOf
<1> QED BY <1>4, <1>5

\* TInv over phase 0, the tags of the SEQUENCE itself.
LEMMA CheckOwnTagsTyped == IInv /\ TInv /\ CheckOwnTags => TInv'
<1> SUFFICES ASSUME IInv, TInv, CheckOwnTags PROVE TInv'
  OBVIOUS
<1>1. /\ Streaming /\ ctx.phase = 0 /\ ctx.step \in Nat /\ ctx.step <= Len(Tags)
      /\ pc = "tags" /\ verdict = "more"
  BY TypedStreams DEF TInv, TypeOK, Contexts, CheckOwnTags, IInv, CursorVouches
<1>2. PICK r : /\ r.code \in {"ok", "more", "fail"}
               /\ pos' = pos + r.used /\ pos + r.used \in 0 .. Len(input)
               /\ r.step \in Nat /\ r.step <= Len(Tags) /\ r.length \in Int
               /\ IF r.code = "ok"
                    THEN /\ ctx' = [phase |-> 1, step |-> 0, left |-> r.length]
                         /\ pc' = "members" /\ edx' = 0 /\ verdict' = verdict
                    ELSE /\ ctx' = [ctx EXCEPT !.step = r.step]
                         /\ Return(r.code)
               /\ UNCHANGED <<input, sctx, value>>
  BY <1>1, OwnTags
<1>3. StringsOK'
  BY <1>2 DEF TInv, StringsOK
<1>4. CASE r.code = "ok"
  <2>1. ctx' \in Contexts /\ ctx'.phase = 1 /\ ctx'.step = 0
    BY <1>2, <1>4 DEF Contexts
  <2>2. TypeOK'
    BY <1>1, <1>2, <1>4, <2>1, TableAssumption DEF TInv, TypeOK
  <2>3. Resumed' /\ ElementAhead'
    BY <2>1 DEF Resumed, ElementAhead
  <2> QED BY <1>3, <2>2, <2>3 DEF TInv
<1>5. CASE r.code # "ok"
  <2>1. ctx \in Contexts /\ ctx' = [ctx EXCEPT !.step = r.step]
    BY <1>2, <1>5 DEF TInv, TypeOK
  <2>2. ctx' \in Contexts /\ ctx'.phase = 0 /\ ctx'.step = r.step
    BY <1>1, <1>2, <2>1 DEF Contexts
  <2>3. TypeOK'
    BY <1>1, <1>2, <1>5, <2>2, TableAssumption DEF TInv, TypeOK, Return
  <2>4. Resumed' /\ ElementAhead'
    BY <1>2, <1>5, <2>2 DEF Resumed, ElementAhead, Return
  <2> QED BY <1>3, <2>3, <2>4 DEF TInv
<1> QED BY <1>4, <1>5

\* The element that a tag was found to stand for can be decoded.
LEMMA FoundIsAhead ==
  ASSUME Streaming, FetchTag(Window).len > 0,
         NEW n \in 0 .. N - 1, El(n).tag = FetchTag(Window).tag
  PROVE  StringAhead(n)
<1>1. /\ Window \in Seq(Alphabet) /\ Len(Window) = Left /\ Left \in Nat /\ pos + Left <= Len(input)
      /\ \A k \in 1 .. Left : Window[k] = input[pos + k]
  BY WindowBounds
<1>2. El(n).kind = "string" => pos < Len(input) /\ ~Constructed(<<input[pos + 1]>>)
  <2> SUFFICES ASSUME El(n).kind = "string" PROVE pos < Len(input) /\ ~Constructed(<<input[pos + 1]>>)
    OBVIOUS
  <2>1. Window # <<>> /\ ~Constructed(<<Window[1]>>)
    BY <1>1, TaggedStringIsPrimitive
  <2> HIDE DEF Window, Left
  <2>2. Left > 0 /\ Window[1] = input[pos + 1]
    BY <1>1, <2>1
  <2> QED BY <1>1, <2>1, <2>2 DEF Streaming
<1> QED BY <1>2, TableAssumption DEF StringAhead

\* TInv over the search for the member of a tag.
LEMMA FindElementTyped == IInv /\ TInv /\ FindElement => TInv'
<1> SUFFICES ASSUME IInv, TInv, FindElement PROVE TInv'
  OBVIOUS
<1>1. PICK n \in Candidates(edx, FetchTag(Window).tag) :
         edx' = n /\ ctx' = [ctx EXCEPT !.step = 2 * n + 1]
  BY DEF FindElement
<1>2. /\ edx \in 0 .. N - 1 /\ pc = "members" /\ ctx.phase = 1 /\ FetchTag(Window).len > 0
      /\ UNCHANGED <<input, pos, pc, sctx, value, verdict>>
  BY TableAssumption DEF FindElement, Searching, Tagged, Synchronizing, IInv, CursorVouches
<1>3. n \in 0 .. N - 1 /\ El(n).tag = FetchTag(Window).tag
  BY <1>1, <1>2, TableAssumption DEF Candidates
<1>4. Streaming /\ ctx \in Contexts
  BY TypedStreams DEF TInv, TypeOK
<1>5. StringAhead(n)
  BY <1>2, <1>3, <1>4, FoundIsAhead
<1>6. 2 * n + 1 \in Nat /\ 2 * n + 1 <= 2 * N /\ (2 * n + 1) \div 2 = n
  BY <1>3, TableAssumption
<1>7. ctx' \in Contexts /\ ctx'.phase = 1 /\ ctx'.step = 2 * n + 1
  BY <1>1, <1>2, <1>4, <1>6 DEF Contexts
<1>8. TypeOK'
  <2>1. ctx'.step <= IF ctx'.phase = 0 THEN Len(Tags) ELSE 2 * N
    BY <1>6, <1>7
  <2>2. edx' \in 0 .. N
    BY <1>1, <1>3, TableAssumption
  <2> QED BY <1>2, <1>7, <2>1, <2>2 DEF TInv, TypeOK
<1>9. StringsOK' /\ Resumed'
  BY <1>1, <1>2, <1>6, <1>7 DEF TInv, StringsOK, Resumed
<1>10. ElementAhead'
  <2>1. ctx'.step \div 2 = n /\ n < N
    BY <1>3, <1>6, <1>7, TableAssumption
  <2>2. StringAhead(n)'
    BY <1>2, <1>5 DEF StringAhead
  <2> QED BY <2>1, <2>2 DEF ElementAhead
<1> QED BY <1>8, <1>9, <1>10 DEF TInv

\* SkipUnknown and SkipLeftover.
LEMMA SkipTyped ==
  ASSUME IInv, TInv, pc \in {"members", "tail"}, FetchTag(Window).len > 0, Skip > 0,
         UNCHANGED <<input, pc, verdict, sctx, value>>,
         edx' \in 0 .. N, pc = "tail" \/ ctx.step % 2 = 0,
         Advance(FetchTag(Window).len + Skip),
         ctx' = [ctx EXCEPT !.left = LeftAfter(FetchTag(Window).len + Skip)]
  PROVE  TInv'
<1> DEFINE n == FetchTag(Window).len + Skip
<1>1. Streaming /\ ctx \in Contexts
  BY TypedStreams DEF TInv, TypeOK
<1>2. n \in 1 .. Left /\ Left \in Nat
  BY <1>1, SkipBounds, WindowBounds
<1>3. pos' = pos + n /\ ctx' = [ctx EXCEPT !.left = LeftAfter(n)]
  BY DEF Advance
<1> HIDE DEF n
<1>4. pos + n \in 0 .. Len(input) /\ LeftAfter(n) \in Int
  BY <1>1, <1>2, AdvanceBounds
<1>5. ctx' \in Contexts /\ ctx'.phase = ctx.phase /\ ctx'.step = ctx.step
  BY <1>1, <1>3, <1>4 DEF Contexts
<1>6. ctx.phase # 0 /\ (pc = "tail" => ctx.phase # 1)
  BY DEF IInv, CursorVouches
<1> QED BY <1>3, <1>4, <1>5, <1>6, MoveTyped

\* A member that is about to be decoded has its context in order.
LEMMA MemberIsReady ==
  ASSUME IInv, TInv, pc = "members", edx < N, ctx.step % 2 = 1
  PROVE  /\ Streaming /\ MemberReady /\ ctx \in Contexts /\ ctx.phase = 1
         /\ ctx.step = 2 * edx + 1
<1>1. /\ edx \in 0 .. N - 1 /\ ctx.phase = 1 /\ verdict = "more" /\ ctx.step \in Nat
      /\ edx = ctx.step \div 2
  BY TableAssumption DEF IInv, CursorVouches, TInv, Resumed
<1>2. StringAhead(edx)
  BY <1>1 DEF TInv, ElementAhead
<1>3. MemberReady
  BY <1>1, <1>2 DEF TInv, TypeOK, StringsOK, StringAhead, MemberReady
<1> QED BY <1>1, <1>3, TypedStreams DEF TInv, TypeOK

\* What a member decoder leaves behind has the types of the code.
LEMMA MemberTyped ==
  ASSUME Streaming, MemberReady, StringsOK,
         \A e \in 0 .. N - 1 : value[e].present => value[e].octets \in Seq(Alphabet),
         DOMAIN value = 0 .. N - 1,
         NEW r, r = MemberDecode,
         IF El(edx).kind = "prim"
           THEN /\ value' = IF r.code = "ok" THEN [value EXCEPT ![edx] = Got(r.octets)] ELSE value
                /\ sctx' = sctx
           ELSE /\ value' = [value EXCEPT ![edx] = Got(r.octets)]
                /\ sctx' = [sctx EXCEPT ![edx] = r.c]
  PROVE  /\ StringsOK'
         /\ \A e \in 0 .. N - 1 : value'[e].present => value'[e].octets \in Seq(Alphabet)
         /\ El(edx).kind # "prim" => sctx'[edx] = r.c /\ StringAnswerOK(r, sctx[edx], Window)
<1>1. /\ El(edx).kind = "prim" /\ r.code = "ok" => r.octets \in Seq(Alphabet)
      /\ El(edx).kind # "prim" => StringAnswerOK(r, sctx[edx], Window)
  BY MemberDecodeBounds
<1>2. edx \in 0 .. N - 1 /\ DOMAIN sctx = 0 .. N - 1
  BY DEF MemberReady, StringsOK
<1>3. ASSUME r.octets \in Seq(Alphabet), value' = [value EXCEPT ![edx] = Got(r.octets)]
      PROVE  \A e \in 0 .. N - 1 : value'[e].present => value'[e].octets \in Seq(Alphabet)
  BY <1>2, <1>3 DEF Got
<1>4. CASE El(edx).kind = "prim"
  BY <1>1, <1>3, <1>4 DEF StringsOK
<1>5. CASE El(edx).kind # "prim"
  <2>1. r.octets \in Seq(Alphabet) /\ r.c \in StringContexts
    BY <1>1, <1>5 DEF StringAnswerOK
  <2>2. sctx' = [sctx EXCEPT ![edx] = r.c] /\ value' = [value EXCEPT ![edx] = Got(r.octets)]
    BY <1>5
  <2>3. StringsOK' /\ sctx'[edx] = r.c
    BY <1>2, <2>1, <2>2 DEF StringsOK
  <2> QED BY <1>1, <1>3, <2>1, <2>2, <2>3
<1> QED BY <1>4, <1>5

\* TInv over the call of a member decoder.
LEMMA InvokeMemberTyped == IInv /\ TInv /\ InvokeMember => TInv'
<1> SUFFICES ASSUME IInv, TInv, InvokeMember PROVE TInv'
  OBVIOUS
<1>1. PICK r \in {MemberDecode} :
     /\ IF El(edx).kind = "prim"
          THEN /\ value' = IF r.code = "ok" THEN [value EXCEPT ![edx] = Got(r.octets)]
                           ELSE value
               /\ sctx' = sctx
          ELSE /\ value' = [value EXCEPT ![edx] = Got(r.octets)]
               /\ sctx' = [sctx EXCEPT ![edx] = r.c]
     /\ CASE r.code = "ok" ->
               /\ Advance(r.used)
               /\ ctx' = [ctx EXCEPT !.left = LeftAfter(r.used), !.step = @ + 1]
               /\ edx' = edx + 1
               /\ UNCHANGED <<pc, verdict>>
          [] r.code = "more" /\ ~SizeViolation ->
               /\ Advance(r.used)
               /\ ctx' = [ctx EXCEPT !.left = LeftAfter(r.used)]
               /\ Return("more")
          [] OTHER -> Return("fail") /\ UNCHANGED <<pos, ctx>>
  BY DEF InvokeMember
<1>2. r = MemberDecode
  BY <1>1
<1>3. pc = "members" /\ edx < N /\ ctx.step % 2 = 1 /\ input' = input
  BY DEF InvokeMember
<1>4. /\ Streaming /\ MemberReady /\ ctx \in Contexts /\ ctx.phase = 1
      /\ ctx.step = 2 * edx + 1 /\ edx \in 0 .. N - 1 /\ verdict = "more"
  BY <1>3, MemberIsReady DEF MemberReady, IInv
<1>5. r.code \in {"ok", "more", "fail"} /\ r.used \in 0 .. Left
  BY <1>2, <1>4, MemberDecodeBounds
<1>6. /\ StringsOK'
      /\ \A e \in 0 .. N - 1 : value'[e].present => value'[e].octets \in Seq(Alphabet)
      /\ El(edx).kind # "prim" => sctx'[edx] = r.c /\ StringAnswerOK(r, sctx[edx], Window)
  <2>1. /\ StringsOK /\ DOMAIN value = 0 .. N - 1
        /\ \A e \in 0 .. N - 1 : value[e].present => value[e].octets \in Seq(Alphabet)
    BY DEF TInv, TypeOK, IInv
  <2> QED BY <1>1, <1>2, <1>4, <2>1, MemberTyped
<1>7. pos + r.used \in 0 .. Len(input) /\ LeftAfter(r.used) \in Int
  BY <1>4, <1>5, AdvanceBounds
<1>8. \A e \in 0 .. N - 1 : sctx'[e].phase \in {0, 3} /\ sctx'[e].left \in Nat
  BY <1>6 DEF StringsOK, StringContexts
<1>9. CASE r.code = "ok"
  <2>1. /\ pos' = pos + r.used /\ edx' = edx + 1 /\ UNCHANGED <<pc, verdict>>
        /\ ctx' = [ctx EXCEPT !.left = LeftAfter(r.used), !.step = @ + 1]
    BY <1>1, <1>9 DEF Advance
  <2>2. ctx' \in Contexts /\ ctx'.phase = 1 /\ ctx'.step = 2 * edx + 2
    <3>1. ctx.step + 1 \in Nat /\ LeftAfter(r.used) \in Int
      BY <1>4, <1>7
    <3>2. ctx' \in Contexts
      BY <1>4, <2>1, <3>1, Zenon DEF Contexts
    <3>3. ctx'.phase = ctx.phase /\ ctx'.step = ctx.step + 1
      BY <1>4, <2>1 DEF Contexts
    <3> QED BY <1>4, <3>2, <3>3
  <2>3. edx + 1 \in 0 .. N /\ 2 * edx + 2 <= 2 * N /\ (2 * edx + 2) % 2 = 0
    BY <1>4, TableAssumption
  <2>4. ctx'.step <= IF ctx'.phase = 0 THEN Len(Tags) ELSE 2 * N
    BY <2>2, <2>3
  <2>5. TypeOK'
    BY <1>3, <1>6, <1>7, <1>8, <2>1, <2>2, <2>3, <2>4 DEF TInv, TypeOK
  <2>6. Resumed' /\ ElementAhead'
    BY <2>2, <2>3 DEF Resumed, ElementAhead
  <2> QED BY <1>6, <2>5, <2>6 DEF TInv
<1>10. CASE r.code = "more" /\ ~SizeViolation
  <2>1. /\ pos' = pos + r.used /\ ctx' = [ctx EXCEPT !.left = LeftAfter(r.used)]
        /\ pc' = "idle" /\ edx' = 0 /\ verdict' = "more"
    BY <1>1, <1>10 DEF Advance, Return
  <2>2. ctx' \in Contexts /\ ctx'.phase = 1 /\ ctx'.step = ctx.step
    BY <1>4, <1>7, <2>1 DEF Contexts
  <2>3. TypeOK'
    BY <1>3, <1>4, <1>6, <1>7, <1>8, <2>1, <2>2, TableAssumption, SMTT(20) DEF TInv, TypeOK
  <2>4. \A e \in 0 .. N - 1 : e = edx => StringAhead(e)'
    <3> SUFFICES ASSUME NEW e \in 0 .. N - 1, e = edx PROVE StringAhead(e)'
      OBVIOUS
    <3>1. e < N
      BY TableAssumption
    <3>2. ASSUME El(e).kind = "string", sctx'[e].phase = 0
          PROVE  pos' < Len(input') /\ ~Constructed(<<input'[pos' + 1]>>)
      <4>1. r.used = 0 /\ sctx[edx].phase = 0
        BY <1>6, <3>2 DEF StringAnswerOK
      <4>2. pos' = pos /\ input' = input
        BY <1>3, <1>4, <2>1, <4>1 DEF Streaming
      <4> QED BY <1>4, <3>2, <4>1, <4>2 DEF MemberReady
    <3> QED BY <3>1, <3>2 DEF StringAhead
  <2>5. ctx'.step \div 2 = edx
    BY <1>4, <2>2
  <2>6. Resumed' /\ ElementAhead'
    <3>1. PICK e \in 0 .. N - 1 : e = edx /\ StringAhead(e)'
      BY <1>4, <2>4
    <3>2. ctx'.step \div 2 = e
      BY <2>5, <3>1
    <3> QED BY <2>1, <3>1, <3>2 DEF Resumed, ElementAhead, StringAhead
  <2> QED BY <1>6, <2>3, <2>6 DEF TInv
<1>11. CASE r.code # "ok" /\ ~(r.code = "more" /\ ~SizeViolation)
  <2>1. UNCHANGED <<pos, ctx>> /\ pc' = "idle" /\ edx' = 0 /\ verdict' = "fail"
    BY <1>1, <1>11 DEF Return
  <2>2. TypeOK'
    BY <1>3, <1>6, <1>8, <2>1, TableAssumption DEF TInv, TypeOK
  <2>3. Resumed' /\ ElementAhead'
    BY <2>1 DEF Resumed, ElementAhead
  <2> QED BY <1>6, <2>2, <2>3 DEF TInv
<1> QED BY <1>9, <1>10, <1>11

\* TInv is kept by every step.
LEMMA StepTyped == IInv /\ TInv /\ [Next]_vars => TInv'
<1> SUFFICES ASSUME IInv, TInv, [Next]_vars PROVE TInv'
  OBVIOUS
<1> USE DEF Synchronizing, Tagged, Leftover, NextTag
<1>0. /\ Streaming /\ ctx \in Contexts /\ edx \in 0 .. N /\ pos \in 0 .. Len(input)
      /\ pc \in {"idle", "tags", "members", "tail"}
      /\ pc = "members" => ctx.phase = 1 /\ verdict = "more"
      /\ pc = "tail" => ctx.phase \notin {0, 1} /\ verdict = "more"
  BY TypedStreams DEF TInv, TypeOK, IInv, CursorVouches
<1>1. ASSUME NEW octet \in Alphabet, Deliver(octet) PROVE TInv'
  <2>1. /\ input' = Append(input, octet) /\ UNCHANGED <<pos, pc, edx, ctx, sctx, value, verdict>>
        /\ input \in Seq(Alphabet) /\ pos \in Nat
    BY <1>0, <1>1 DEF Deliver, Streaming
  <2>2. /\ input' \in Seq(Alphabet) /\ Len(input') = Len(input) + 1
        /\ pos < Len(input) => input'[pos + 1] = input[pos + 1]
    BY <2>1, AppendProperties
  <2>3. TypeOK' /\ StringsOK' /\ Resumed'
    BY <2>1, <2>2 DEF TInv, TypeOK, StringsOK, Resumed
  <2>4. ElementAhead'
    <3>1. \A e : StringAhead(e) => StringAhead(e)'
      BY <2>1, <2>2 DEF StringAhead
    <3> QED BY <2>1, <3>1 DEF TInv, ElementAhead
  <2> QED BY <2>3, <2>4 DEF TInv
<1>2. CASE Call
  <2>1. /\ UNCHANGED <<input, pos, ctx, sctx, value, verdict>> /\ pc' # "idle"
        /\ pc = "idle" /\ verdict = "more"
        /\ pc' \in {"tags", "members", "tail"} /\ (pc' = "members" => ctx.phase = 1)
        /\ edx' = IF ctx.phase = 1 THEN ctx.step \div 2 ELSE 0
    BY <1>2 DEF Call
  <2>2. edx' \in 0 .. N
    BY <2>1, TableAssumption DEF IInv, ContextVouches
  <2>3. TypeOK' /\ StringsOK'
    BY <2>1, <2>2 DEF TInv, TypeOK, StringsOK
  <2>4. Resumed' /\ ElementAhead'
    BY <2>1 DEF TInv, Resumed, ElementAhead, StringAhead
  <2> QED BY <2>3, <2>4 DEF TInv
<1>3. CASE CheckOwnTags
  BY <1>3, CheckOwnTagsTyped
<1>4. ASSUME pc # "idle", Return("ok"), ctx' = [ctx EXCEPT !.phase = 10], ctx.phase # 0,
             UNCHANGED <<input, pos, sctx, value>>
      PROVE  TInv'
  <2>1. ctx' \in Contexts /\ ctx'.phase = 10 /\ ctx'.step = ctx.step
    BY <1>0, <1>4 DEF Contexts
  <2>2. TypeOK' /\ StringsOK'
    BY <1>4, <2>1, TableAssumption DEF TInv, TypeOK, StringsOK, Return
  <2>3. Resumed' /\ ElementAhead'
    BY <1>4, <2>1 DEF Resumed, ElementAhead, Return
  <2> QED BY <2>2, <2>3 DEF TInv
<1>5. CASE EndOfSequence
  BY <1>0, <1>4, <1>5 DEF EndOfSequence
<1>6. CASE Finish
  BY <1>0, <1>4, <1>6 DEF Finish
<1>7. CASE NoTag
  BY <1>7, ReturnTyped DEF NoTag, Starved
<1>8. CASE AwaitTerminator
  BY <1>8, ReturnTyped DEF AwaitTerminator
<1>9. CASE RejectUnknown
  BY <1>9, ReturnTyped DEF RejectUnknown, Unknown, Searching
<1>10. CASE LeftoverNoTag
  BY <1>10, ReturnTyped DEF LeftoverNoTag, Starved
<1>11. CASE LeftoverAwaitTerminator
  BY <1>11, ReturnTyped DEF LeftoverAwaitTerminator
<1>12. CASE RejectLeftover
  BY <1>12, ReturnTyped DEF RejectLeftover
<1>13. ASSUME ctx' = [ctx EXCEPT !.phase = 3], pc = "members", pc' = "tail",
              UNCHANGED <<input, pos, edx, sctx, value, verdict>>
       PROVE  TInv'
  <2>1. ctx' \in Contexts /\ ctx'.phase = 3 /\ ctx'.step = ctx.step
    BY <1>0, <1>13 DEF Contexts
  <2> QED BY <1>0, <1>13, <2>1, MoveTyped
<1>14. CASE ReachTerminator
  BY <1>13, <1>14 DEF ReachTerminator
<1>15. CASE MembersExhausted
  BY <1>13, <1>15 DEF MembersExhausted
<1>16. CASE FindElement
  BY <1>16, FindElementTyped
<1>17. CASE InvokeMember
  BY <1>17, InvokeMemberTyped
<1>18. CASE SkipUnknown
  <2>1. /\ pc = "members" /\ ctx.step % 2 = 0 /\ FetchTag(Window).len > 0
        /\ edx \in 0 .. N - 1 /\ UNCHANGED <<input, sctx, value>>
    BY <1>0, <1>18, TableAssumption DEF SkipUnknown, Unknown, Searching
  <2>2. CASE Skip <= 0
    BY <1>18, <2>1, <2>2, ReturnTyped DEF SkipUnknown, Starved
  <2>3. CASE ~(Skip <= 0)
    <3>1. /\ Advance(FetchTag(Window).len + Skip)
          /\ ctx' = [ctx EXCEPT !.left = LeftAfter(FetchTag(Window).len + Skip)]
          /\ edx' = edx + Optional(edx) /\ UNCHANGED <<pc, verdict>>
      BY <1>18, <2>3 DEF SkipUnknown
    <3>2. edx' \in 0 .. N
      BY <2>1, <3>1, TableAssumption
    <3>3. Skip > 0
      BY <1>0, <2>1, <2>3, SkipBounds
    <3> QED BY <2>1, <3>1, <3>2, <3>3, SkipTyped
  <2> QED BY <2>2, <2>3
<1>19. CASE SkipLeftover
  <2>1. pc = "tail" /\ FetchTag(Window).len > 0 /\ UNCHANGED <<input, sctx, value>>
    BY <1>19 DEF SkipLeftover
  <2>2. CASE Skip <= 0
    BY <1>19, <2>1, <2>2, ReturnTyped DEF SkipLeftover, Starved
  <2>3. CASE ~(Skip <= 0)
    <3>1. /\ Advance(FetchTag(Window).len + Skip)
          /\ ctx' = [ctx EXCEPT !.left = LeftAfter(FetchTag(Window).len + Skip)]
          /\ UNCHANGED <<pc, edx, verdict>>
      BY <1>19, <2>3 DEF SkipLeftover
    <3>2. Skip > 0
      BY <1>0, <2>1, <2>3, SkipBounds
    <3> QED BY <1>0, <2>1, <3>1, <3>2, SkipTyped
  <2> QED BY <2>2, <2>3
<1>20. CASE EatTerminator
  <2>1. /\ pc = "tail" /\ Left >= 2 /\ pos' = pos + 2
        /\ ctx' = [ctx EXCEPT !.left = @ + 1, !.phase = 4]
        /\ UNCHANGED <<input, pc, edx, sctx, value, verdict>>
    BY <1>20 DEF EatTerminator, Terminator, Advance
  <2>2. ctx' \in Contexts /\ ctx'.phase = 4 /\ ctx'.step = ctx.step
    <3>1. ctx.left + 1 \in Int
      BY <1>0 DEF Contexts
    <3>2. ctx' \in Contexts
      BY <1>0, <2>1, <3>1, Zenon DEF Contexts
    <3>3. ctx'.phase = 4 /\ ctx'.step = ctx.step
      BY <1>0, <2>1 DEF Contexts
    <3> QED BY <3>2, <3>3
  <2>3. pos + 2 \in 0 .. Len(input)
    BY <1>0, <2>1, WindowBounds
  <2> QED BY <1>0, <2>1, <2>2, <2>3, MoveTyped
<1>21. CASE UNCHANGED vars
  BY <1>21 DEF vars, TInv, TypeOK, StringsOK, Resumed, ElementAhead, StringAhead
<1> QED
  BY <1>1, <1>2, <1>3, <1>5, <1>6, <1>7, <1>8, <1>9, <1>10, <1>11, <1>12,
     <1>14, <1>15, <1>16, <1>17, <1>18, <1>19, <1>20, <1>21 DEF Next, Decode

\* The variables of the decoder stay within the types of the code, whatever arrives:
\* it consumes only what has arrived, and its steps count tags and then elements.
THEOREM TypeOKHolds == Spec => []TypeOK
<1>1. IInv /\ TInv /\ [Next]_vars => (IInv /\ TInv)'
  BY StepVouches, StepTyped
<1>2. Init => IInv /\ TInv
  BY InitVouches, InitTyped
<1>3. IInv /\ TInv => TypeOK
  BY DEF TInv
<1> QED BY <1>1, <1>2, <1>3, PTL DEF Spec

-----------------------------------------------------------------------------
(***************************************************************************)
(* What a step may do to the frame, and that it gets somewhere.            *)
(***************************************************************************)
FrameStays ==
  IF ctx.left >= 0
    THEN ctx'.left >= 0 /\ pos' + ctx'.left = pos + ctx.left
    ELSE ctx'.left <= 0 /\ (ctx'.left > ctx.left => input[pos'] = 0)

Progress == \/ pc' = "idle"
            \/ LaterPhase
            \/ pc' = pc /\ pos' > pos
            \/ pc' = pc /\ pos' = pos /\ ctx'.step > ctx.step

\* Skipping a TLV consumes something.
LEMMA SkipAhead ==
  ASSUME Streaming, FetchTag(Window).len > 0, ~(Skip <= 0),
         Advance(FetchTag(Window).len + Skip)
  PROVE  pos' > pos
<1>1. FetchTag(Window).len + Skip \in 1 .. Left /\ Left \in Nat
  BY SkipBounds, WindowBounds
<1> QED BY <1>1 DEF Advance, Streaming

\* Skipping an unknown extension consumes something and stays within the frame.
LEMMA SkipMoves ==
  ASSUME Streaming, ctx \in Contexts, FetchTag(Window).len > 0, ~(Skip <= 0),
         Advance(FetchTag(Window).len + Skip),
         ctx' = [ctx EXCEPT !.left = LeftAfter(FetchTag(Window).len + Skip)]
  PROVE  FrameStays /\ pos' > pos
<1> DEFINE n == FetchTag(Window).len + Skip
<1>1. n \in 1 .. Left /\ Left \in Nat
  BY SkipBounds, WindowBounds
<1>2. pos' = pos + n /\ ctx' = [ctx EXCEPT !.left = LeftAfter(n)]
  BY DEF Advance
<1> HIDE DEF n
<1>3. n \in 0 .. Left
  BY <1>1
<1>4. /\ LeftAfter(n) \in Int
      /\ IF ctx.left >= 0 THEN LeftAfter(n) >= 0 /\ pos + n + LeftAfter(n) = pos + ctx.left
         ELSE LeftAfter(n) = ctx.left
  BY <1>3, AdvanceBounds
<1>5. ctx'.left = LeftAfter(n)
  BY <1>2 DEF Contexts
<1> QED BY <1>1, <1>2, <1>4, <1>5 DEF FrameStays, Streaming

\* So does eating the end-of-contents octets.
LEMMA EatTerminatorMoves ==
  ASSUME Streaming, ctx \in Contexts, EatTerminator
  PROVE  FrameStays /\ pos' > pos /\ pc' = pc
<1>1. /\ ctx.left < 0 /\ Left >= 2 /\ Window[2] = 0 /\ pos' = pos + 2 /\ pc' = pc
      /\ ctx' = [ctx EXCEPT !.left = @ + 1, !.phase = 4]
  BY DEF EatTerminator, Terminator, ZeroOctet, Advance, NextTag, Leftover
<1>2. Window[2] = input[pos + 2]
  BY <1>1, WindowBounds
<1>3. ctx'.left = ctx.left + 1
  BY <1>1 DEF Contexts
<1> QED BY <1>1, <1>2, <1>3 DEF FrameStays, Streaming

\* A member is decoded, or waits for more of it; a failure moves nothing.
LEMMA InvokeMemberMoves ==
  ASSUME IInv, TInv, InvokeMember
  PROVE  FrameStays /\ Progress
<1>1. PICK r \in {MemberDecode} :
        CASE r.code = "ok" ->
               /\ Advance(r.used)
               /\ ctx' = [ctx EXCEPT !.left = LeftAfter(r.used), !.step = @ + 1]
               /\ edx' = edx + 1
               /\ UNCHANGED <<pc, verdict>>
          [] r.code = "more" /\ ~SizeViolation ->
               /\ Advance(r.used)
               /\ ctx' = [ctx EXCEPT !.left = LeftAfter(r.used)]
               /\ Return("more")
          [] OTHER -> Return("fail") /\ UNCHANGED <<pos, ctx>>
  BY DEF InvokeMember
<1>2. r = MemberDecode /\ pc = "members" /\ edx < N /\ ctx.step % 2 = 1
  BY <1>1 DEF InvokeMember
<1>3. Streaming /\ MemberReady /\ ctx \in Contexts
  BY <1>2, MemberIsReady
<1>4. r.used \in 0 .. Left /\ Left \in Nat
  BY <1>2, <1>3, MemberDecodeBounds, WindowBounds
<1>5. /\ LeftAfter(r.used) \in Int
      /\ IF ctx.left >= 0
           THEN LeftAfter(r.used) >= 0 /\ pos + r.used + LeftAfter(r.used) = pos + ctx.left
           ELSE LeftAfter(r.used) = ctx.left
  BY <1>3, <1>4, AdvanceBounds
<1>6. CASE r.code = "ok"
  <2>1. pos' = pos + r.used /\ ctx'.left = LeftAfter(r.used) /\ ctx'.step = ctx.step + 1 /\ pc' = pc
    BY <1>1, <1>3, <1>6 DEF Advance, Contexts
  <2> QED BY <1>3, <1>4, <1>5, <2>1 DEF FrameStays, Progress, Streaming, Contexts
<1>7. CASE r.code = "more" /\ ~SizeViolation
  <2>1. pos' = pos + r.used /\ ctx'.left = LeftAfter(r.used) /\ pc' = "idle"
    BY <1>1, <1>3, <1>7 DEF Advance, Contexts, Return
  <2> QED BY <1>3, <1>4, <1>5, <2>1 DEF FrameStays, Progress, Streaming
<1>8. CASE r.code # "ok" /\ ~(r.code = "more" /\ ~SizeViolation)
  <2>1. pos' = pos /\ ctx' = ctx /\ pc' = "idle"
    BY <1>1, <1>8 DEF Return
  <2> QED BY <1>3, <2>1 DEF FrameStays, Progress, Streaming
<1> QED BY <1>6, <1>7, <1>8

\* No step moves the end of the frame that the SEQUENCE is decoded in.
LEMMA StepKeepsFrame == IInv /\ TInv /\ [Next]_vars => [ctx.phase > 0 => FrameStays]_vars
<1> SUFFICES ASSUME IInv, TInv, Next, ctx.phase > 0 PROVE FrameStays
  OBVIOUS
<1>0. Streaming /\ ctx \in Contexts
  BY TypedStreams DEF TInv, TypeOK
<1>1. ASSUME pos' = pos, ctx'.left = ctx.left PROVE FrameStays
  BY <1>0, <1>1 DEF FrameStays, Streaming
<1>2. ASSUME NEW octet \in Alphabet, Deliver(octet) PROVE FrameStays
  BY <1>1, <1>2 DEF Deliver
<1>3. CASE Call
  BY <1>1, <1>3 DEF Call
<1>4. ~CheckOwnTags
  <2>1. CheckOwnTags => ctx.phase = 0
    BY DEF CheckOwnTags, IInv, CursorVouches
  <2> QED BY <2>1
<1>5. CASE \/ EndOfSequence \/ NoTag \/ AwaitTerminator \/ ReachTerminator
           \/ FindElement \/ RejectUnknown \/ MembersExhausted
           \/ Finish \/ LeftoverNoTag \/ LeftoverAwaitTerminator \/ RejectLeftover
  <2>1. pos' = pos /\ ctx'.left = ctx.left
    BY <1>0, <1>5 DEF Contexts, EndOfSequence, NoTag, AwaitTerminator, ReachTerminator,
       FindElement, RejectUnknown, MembersExhausted, Finish, LeftoverNoTag,
       LeftoverAwaitTerminator, RejectLeftover
  <2> QED BY <1>1, <2>1
<1>6. CASE SkipUnknown
  BY <1>0, <1>1, <1>6, SkipMoves DEF SkipUnknown, Unknown, Searching, Tagged
<1>7. CASE InvokeMember
  BY <1>7, InvokeMemberMoves
<1>8. CASE EatTerminator
  BY <1>0, <1>8, EatTerminatorMoves
<1>9. CASE SkipLeftover
  BY <1>0, <1>1, <1>9, SkipMoves DEF SkipLeftover, NextTag
<1> QED BY <1>2, <1>3, <1>4, <1>5, <1>6, <1>7, <1>8, <1>9 DEF Next, Decode

\* A member cannot be looked for twice without a member or a tag in between: the step
\* that names it is beyond the one before.
LEMMA StepProgresses == IInv /\ TInv /\ [Next]_vars => [pc # "idle" => Progress]_vars
<1> SUFFICES ASSUME IInv, TInv, Next, pc # "idle" PROVE Progress
  OBVIOUS
<1>0. Streaming /\ ctx \in Contexts
  BY TypedStreams DEF TInv, TypeOK
<1>1. ~Call /\ ~\E octet \in Alphabet : Deliver(octet)
  BY DEF Call, Deliver
<1>2. CASE CheckOwnTags
  BY <1>2 DEF CheckOwnTags, Progress, LaterPhase, Return
<1>3. CASE \/ EndOfSequence \/ NoTag \/ AwaitTerminator \/ RejectUnknown
           \/ Finish \/ LeftoverNoTag \/ LeftoverAwaitTerminator \/ RejectLeftover
  BY <1>3 DEF Progress, Return, EndOfSequence, NoTag, AwaitTerminator, RejectUnknown,
     Finish, LeftoverNoTag, LeftoverAwaitTerminator, RejectLeftover
<1>4. CASE ReachTerminator \/ MembersExhausted
  BY <1>4 DEF Progress, LaterPhase, ReachTerminator, Tagged, Synchronizing, MembersExhausted
<1>5. CASE FindElement
  <2>1. PICK n \in Candidates(edx, FetchTag(Window).tag) :
           edx' = n /\ ctx' = [ctx EXCEPT !.step = 2 * n + 1]
    BY <1>5 DEF FindElement
  <2>2. /\ edx \in 0 .. N - 1 /\ ctx.step \in Nat /\ ctx.step \div 2 <= edx
        /\ ctx.step % 2 = 0 /\ UNCHANGED <<pos, pc>>
    BY <1>5, TableAssumption
       DEF FindElement, Searching, Tagged, Synchronizing, IInv, CursorVouches
  <2>3. n \in Nat /\ edx <= n
    BY <2>1, <2>2, TableAssumption DEF Candidates
  <2>4. ctx'.step = 2 * n + 1 /\ ctx.step <= 2 * n
    BY <1>0, <2>1, <2>2, <2>3 DEF Contexts
  <2> QED BY <2>2, <2>3, <2>4 DEF Progress
<1>6. CASE SkipUnknown
  <2>1. CASE Skip <= 0
    BY <1>6, <2>1 DEF SkipUnknown, Return, Progress
  <2>2. CASE ~(Skip <= 0)
    BY <1>0, <1>6, <2>2, SkipMoves DEF SkipUnknown, Unknown, Searching, Tagged, Progress
  <2> QED BY <2>1, <2>2
<1>7. CASE InvokeMember
  BY <1>7, InvokeMemberMoves
<1>8. CASE EatTerminator
  BY <1>0, <1>8, EatTerminatorMoves DEF Progress
<1>9. CASE SkipLeftover
  <2>1. CASE Skip <= 0
    BY <1>9, <2>1 DEF SkipLeftover, Return, Progress
  <2>2. CASE ~(Skip <= 0)
    BY <1>0, <1>9, <2>2, SkipMoves DEF SkipLeftover, NextTag, Progress
  <2> QED BY <2>1, <2>2
<1> QED BY <1>1, <1>2, <1>3, <1>4, <1>5, <1>6, <1>7, <1>8, <1>9 DEF Next, Decode

\* A frame of definite length ends where its header says, however the octets of the
\* SEQUENCE arrive, and left is never counted down past zero.
THEOREM FrameNeverMovesHolds == Spec => FrameNeverMoves
<1>1. IInv /\ TInv /\ [Next]_vars => (IInv /\ TInv)'
  BY StepVouches, StepTyped
<1>2. Init => IInv /\ TInv
  BY InitVouches, InitTyped
<1>3. [ctx.phase > 0 => FrameStays]_vars =>
        [ctx.phase > 0 =>
           IF ctx.left >= 0
             THEN ctx'.left >= 0 /\ pos' + ctx'.left = pos + ctx.left
             ELSE ctx'.left <= 0 /\ (ctx'.left > ctx.left => input[pos'] = 0)]_vars
  BY DEF FrameStays
<1> QED BY <1>1, <1>2, <1>3, StepKeepsFrame, PTL DEF Spec, FrameNeverMoves

\* The loops of SEQUENCE_decode_ber end: every step returns, enters a later phase,
\* consumes an octet or settles a later member.
THEOREM CallMakesProgressHolds == Spec => CallMakesProgress
<1>1. IInv /\ TInv /\ [Next]_vars => (IInv /\ TInv)'
  BY StepVouches, StepTyped
<1>2. Init => IInv /\ TInv
  BY InitVouches, InitTyped
<1>3. [pc # "idle" => Progress]_vars =>
        [pc # "idle" => \/ pc' = "idle"
                        \/ LaterPhase
                        \/ pc' = pc /\ pos' > pos
                        \/ pc' = pc /\ pos' = pos /\ ctx'.step > ctx.step]_vars
  BY DEF Progress
<1> QED BY <1>1, <1>2, <1>3, StepProgresses, PTL DEF Spec, CallMakesProgress

-----------------------------------------------------------------------------
\* ber_fetch_length is exact for the octets that the runs give it, as for any others.
THEOREM LengthsExactHolds == Spec => []LengthsExact
<1>1. LengthsExact
  <2> SUFFICES ASSUME NEW n \in 1 .. 4, NEW m \in 0 .. n, NEW have \in [1 .. m -> LengthOctets]
               PROVE  LengthIsExact(n, have)
    BY DEF LengthsExact
  <2>1. m \in Nat /\ n \in 1 .. 126 /\ LengthOctets \subseteq Octet
    BY DEF LengthOctets, Octet
  <2>2. have \in Seq(Octet) /\ Len(have) = m
    <3> HIDE DEF Octet
    <3> QED BY <2>1
  <2>3. Len(have) <= n
    BY <2>2
  <2> QED BY <2>1, <2>2, <2>3, FetchLengthExact
<1> QED BY <1>1, PTL

-----------------------------------------------------------------------------
(***************************************************************************)
(* SET_decode_ber.                                                         *)
(***************************************************************************)
\* The input and the stream as BerSequence has them.
SetTyped ==
  /\ Streaming
  /\ edx \in 0 .. N - 1 /\ verdict \in {"more", "ok", "fail"}
  /\ pc \in {"idle", "tags", "members", "tail"}
  /\ ctx \in [phase : {0, 1, 3, 4, 5, 6}, step : Nat, left : Int]

\* Where the decoder is.  Phase 3 is left before the call ends.
SetCursor ==
  /\ pc # "idle" => verdict = "more"
  /\ verdict = "more" => ctx.phase \in {0, 1, 3, 4}
  /\ pc = "tags" => ctx.phase = 0
  /\ pc = "members" => ctx.phase = 1
  /\ pc = "tail" => ctx.phase \in {3, 4}
  /\ ctx.phase = 3 => pc = "tail" /\ (ctx.left = 0 \/ Terminator)

\* The step counts the tags, and then names an element.
SetStep ==
  IF ctx.phase = 0 THEN ctx.step <= Len(Tags)
  ELSE ctx.step = 0 \/ (ctx.step % 2 = 1 /\ ctx.step \div 2 < N)

\* The members: what the map holds is complete, and a string that is begun and not in
\* the map waits for some octets of it.
SetMembers ==
  /\ DOMAIN value = 0 .. N - 1 /\ StringsOK
  /\ \A e \in 0 .. N - 1 : value[e].present => value[e].octets \in Seq(Alphabet)
  /\ \A e \in 0 .. N - 1 : El(e).kind = "prim" => sctx[e].left = 0
  /\ \A e \in present : e \in 0 .. N - 1 /\ value[e].present /\ sctx[e].left = 0
  /\ \A e \in 0 .. N - 1 : sctx[e].phase = 3 /\ sctx[e].left = 0 => e \in present
  /\ verdict = "ok" => Populated

SInv == SetTyped /\ SetCursor /\ SetStep /\ SetMembers /\ Resumed /\ ElementAhead

-----------------------------------------------------------------------------
\* The inductive invariant gives the two that the run checks.
LEMMA SInvSuffices == SInv => SetTypeOK /\ MandatoryPresent
<1> SUFFICES ASSUME SInv PROVE SetTypeOK /\ MandatoryPresent
  OBVIOUS
<1> USE DEF SInv
<1>1. ctx.phase \in {0, 1, 3, 4, 5, 6} /\ ctx.step \in Nat /\ edx \in 0 .. N - 1
  BY DEF SetTyped
<1>2. ctx.step \in 0 .. IF ctx.phase = 0 THEN Len(Tags) ELSE 2 * N
  <2>1. CASE ctx.phase = 0
    BY <1>1, <2>1, TypeAssumption DEF SetStep
  <2>2. CASE ctx.phase # 0
    <3>1. ctx.step <= 2 * N /\ 2 * N \in Nat
      BY <1>1, <2>2, TableAssumption DEF SetStep
    <3> QED BY <1>1, <2>2, <3>1
  <2> QED BY <2>1, <2>2
<1>3. \A e \in present : value[e].present /\ sctx[e].left = 0
  BY DEF SetMembers
<1>4. pc = "tail" /\ ctx.phase = 3 /\ ctx.left # 0 => Terminator
  BY DEF SetCursor
<1>5. MandatoryPresent
  BY DEF SetMembers, Populated, MandatoryPresent
<1> QED BY <1>1, <1>2, <1>3, <1>4, <1>5 DEF SetTypeOK

\* SInv at the start.
LEMMA SetInitTyped == SetInit => SInv
<1> SUFFICES ASSUME SetInit PROVE SInv
  OBVIOUS
<1> USE DEF SetInit, Init
<1>1. /\ ctx \in [phase : {0, 1, 3, 4, 5, 6}, step : Nat, left : Int]
      /\ ctx.phase = 0 /\ ctx.step = 0 /\ ctx.left \in Int
  OBVIOUS
<1>2. \A e \in 0 .. N - 1 : sctx[e] = [phase |-> 0, step |-> 0, left |-> 0] /\ value[e] = Absent
  OBVIOUS
<1>3. [phase |-> 0, step |-> 0, left |-> 0] \in StringContexts
  BY DEF StringContexts
<1>4. StringsOK
  BY <1>2, <1>3 DEF StringsOK
<1>5. \A e \in 0 .. N - 1 : ~value[e].present /\ sctx[e].left = 0
  BY <1>2 DEF Absent
<1>6. input \in Seq(Alphabet) /\ pos \in 0 .. Len(input) /\ 0 \in 0 .. N - 1
  BY TableAssumption
<1>7. SetTyped
  BY <1>1, <1>6 DEF SetTyped, Streaming
<1>8. SetCursor /\ Resumed /\ ElementAhead
  BY <1>1 DEF SetCursor, Resumed, ElementAhead
<1>9. SetStep
  BY <1>1, TypeAssumption DEF SetStep
<1>10. SetMembers
  BY <1>4, <1>5 DEF SetMembers
<1> QED BY <1>7, <1>8, <1>9, <1>10 DEF SInv

\* A return that moves nothing.
LEMMA SetReturnTyped ==
  ASSUME SInv, pc # "idle", ctx.phase # 3, NEW code \in {"more", "fail"}, Return(code),
         UNCHANGED <<input, pos, ctx, sctx, value, present>>
  PROVE  SInv'
<1> USE DEF SInv, Return
<1>1. SetTyped' /\ SetCursor'
  BY TableAssumption DEF SetTyped, SetCursor, Streaming
<1>2. SetStep' /\ SetMembers' /\ Resumed'
  BY DEF SetStep, SetMembers, StringsOK, Resumed
<1>3. ElementAhead'
  BY DEF SetCursor, ElementAhead, StringAhead
<1> QED BY <1>1, <1>2, <1>3

\* SInv over the skipping of an unknown TLV.
LEMMA SetSkipTyped ==
  ASSUME SInv, pc # "idle", ctx.phase # 3, FetchTag(Window).len > 0, ~(Skip <= 0),
         UNCHANGED <<input, pc, edx, verdict, sctx, value, present>>, ctx.step = 0 \/ ctx.phase # 1,
         Advance(FetchTag(Window).len + Skip),
         ctx' = [ctx EXCEPT !.left = LeftAfter(FetchTag(Window).len + Skip)]
  PROVE  SInv'
<1> DEFINE n == FetchTag(Window).len + Skip
<1> USE DEF SInv
<1>1. Streaming
  BY DEF SetTyped
<1>2. n \in 1 .. Left /\ Left \in Nat
  BY <1>1, SkipBounds, WindowBounds
<1>3. pos' = pos + n /\ ctx' = [ctx EXCEPT !.left = LeftAfter(n)]
  BY DEF Advance
<1> HIDE DEF n
<1>4. pos + n \in 0 .. Len(input) /\ LeftAfter(n) \in Int
  BY <1>1, <1>2, AdvanceBounds
<1>5. /\ ctx' \in [phase : {0, 1, 3, 4, 5, 6}, step : Nat, left : Int]
      /\ ctx'.phase = ctx.phase /\ ctx'.step = ctx.step /\ ctx'.left \in Int
  BY <1>3, <1>4 DEF SetTyped
<1>6. SetTyped' /\ SetCursor'
  BY <1>1, <1>3, <1>4, <1>5 DEF SetTyped, SetCursor, Streaming
<1>7. SetStep' /\ SetMembers' /\ Resumed'
  BY <1>5 DEF SetStep, SetMembers, StringsOK, Resumed, Populated
<1>8. ElementAhead'
  BY <1>5 DEF ElementAhead
<1> QED BY <1>6, <1>7, <1>8

\* Skipping one stays within the frame.
LEMMA SetSkipKeepsFrame ==
  ASSUME SetTyped, FetchTag(Window).len > 0, ~(Skip <= 0),
         Advance(FetchTag(Window).len + Skip),
         ctx' = [ctx EXCEPT !.left = LeftAfter(FetchTag(Window).len + Skip)]
  PROVE  FrameStays
<1> DEFINE n == FetchTag(Window).len + Skip
<1>1. Streaming
  BY DEF SetTyped
<1>2. n \in 0 .. Left
  BY <1>1, SkipBounds, WindowBounds
<1>3. pos' = pos + n /\ ctx' = [ctx EXCEPT !.left = LeftAfter(n)]
  BY DEF Advance
<1> HIDE DEF n
<1>4. /\ LeftAfter(n) \in Int
      /\ IF ctx.left >= 0 THEN LeftAfter(n) >= 0 /\ pos + n + LeftAfter(n) = pos + ctx.left
         ELSE LeftAfter(n) = ctx.left
  BY <1>1, <1>2, AdvanceBounds
<1>5. ctx'.left = LeftAfter(n)
  BY <1>3 DEF SetTyped
<1> QED BY <1>1, <1>3, <1>4, <1>5 DEF FrameStays, Streaming

\* SInv over the lookup of a tag in the sorted map.
LEMMA SetFindTyped == SInv /\ SetFindElement => SInv'
<1> SUFFICES ASSUME SInv, SetFindElement PROVE SInv'
  OBVIOUS
<1> USE DEF SInv
<1>1. PICK n \in Tags2El(FetchTag(Window).tag) :
         edx' = n /\ ctx' = [ctx EXCEPT !.step = 2 * n + 1]
  BY DEF SetFindElement
<1>2. /\ pc = "members" /\ ctx.phase = 1 /\ FetchTag(Window).len > 0
      /\ UNCHANGED <<input, pos, pc, sctx, value, verdict, present>> /\ Streaming
  BY DEF SetFindElement, SetSearching, SetTagged, SetSynchronizing, SetCursor, SetTyped
<1>3. n \in 0 .. N - 1 /\ El(n).tag = FetchTag(Window).tag
  BY <1>1 DEF Tags2El
<1>4. StringAhead(n)
  BY <1>2, <1>3, FoundIsAhead
<1>5. 2 * n + 1 \in Nat /\ (2 * n + 1) % 2 = 1 /\ (2 * n + 1) \div 2 = n /\ n < N
  BY <1>3, TableAssumption
<1>6. /\ ctx' \in [phase : {0, 1, 3, 4, 5, 6}, step : Nat, left : Int]
      /\ ctx'.phase = 1 /\ ctx'.step = 2 * n + 1 /\ ctx'.left = ctx.left /\ ctx'.left \in Int
  BY <1>1, <1>2, <1>5 DEF SetTyped
<1>7. SetTyped' /\ SetCursor'
  BY <1>1, <1>2, <1>3, <1>6 DEF SetTyped, SetCursor, Streaming
<1>8. SetStep' /\ SetMembers' /\ Resumed'
  BY <1>1, <1>2, <1>5, <1>6 DEF SetStep, SetMembers, StringsOK, Resumed, Populated
<1>9. ElementAhead'
  BY <1>2, <1>4, <1>5, <1>6 DEF ElementAhead, StringAhead
<1> QED BY <1>7, <1>8, <1>9

\* A member that is about to be decoded has its context in order.
LEMMA SetMemberReady ==
  ASSUME SInv, pc = "members", ctx.step % 2 = 1
  PROVE  MemberReady /\ edx = ctx.step \div 2
<1>1. edx \in 0 .. N - 1 /\ ctx.phase = 1 /\ verdict = "more" /\ edx = ctx.step \div 2
  BY DEF SInv, SetTyped, SetCursor, Resumed
<1>2. StringAhead(edx)
  BY <1>1 DEF SInv, ElementAhead
<1> QED BY <1>1, <1>2 DEF SInv, SetMembers, StringsOK, StringAhead, MemberReady

\* SInv over the call of a member decoder, which stays within the frame.
LEMMA SetInvokeTyped == SInv /\ SetInvokeMember => SInv' /\ (ctx.phase > 0 => FrameStays)
<1> SUFFICES ASSUME SInv, SetInvokeMember PROVE SInv' /\ FrameStays
  OBVIOUS
<1> USE DEF SInv
<1>1. PICK r \in {MemberDecode} :
     /\ IF El(edx).kind = "prim"
          THEN /\ value' = IF r.code = "ok" THEN [value EXCEPT ![edx] = Got(r.octets)]
                           ELSE value
               /\ sctx' = sctx
          ELSE /\ value' = [value EXCEPT ![edx] = Got(r.octets)]
               /\ sctx' = [sctx EXCEPT ![edx] = r.c]
     /\ present' = PresentAfter(r.code)
     /\ CASE r.code = "ok" ->
               /\ Advance(r.used)
               /\ ctx' = [ctx EXCEPT !.left = LeftAfter(r.used), !.step = 0]
               /\ UNCHANGED <<pc, edx, verdict>>
          [] r.code = "more" /\ ~SizeViolation ->
               /\ Advance(r.used)
               /\ ctx' = [ctx EXCEPT !.left = LeftAfter(r.used)]
               /\ Return("more")
          [] OTHER -> Return("fail") /\ UNCHANGED <<pos, ctx>>
  BY DEF SetInvokeMember
<1>2. r = MemberDecode /\ input' = input
  BY <1>1 DEF SetInvokeMember
<1>3. /\ pc = "members" /\ ctx.step % 2 = 1 /\ edx \notin present
      /\ ctx.phase = 1 /\ verdict = "more" /\ Streaming
      /\ edx \in 0 .. N - 1 /\ 0 \in 0 .. N - 1
      /\ ctx \in [phase : {0, 1, 3, 4, 5, 6}, step : Nat, left : Int]
  BY TableAssumption DEF SetInvokeMember, Duplicate, SetCursor, SetTyped
<1>4. MemberReady /\ edx = ctx.step \div 2
  BY <1>3, SetMemberReady
<1>5. r.code \in {"ok", "more", "fail"} /\ r.used \in 0 .. Left
  BY <1>2, <1>3, <1>4, MemberDecodeBounds
<1>6. /\ StringsOK'
      /\ \A e \in 0 .. N - 1 : value'[e].present => value'[e].octets \in Seq(Alphabet)
      /\ El(edx).kind # "prim" => sctx'[edx] = r.c /\ StringAnswerOK(r, sctx[edx], Window)
  <2>1. /\ StringsOK /\ DOMAIN value = 0 .. N - 1
        /\ \A e \in 0 .. N - 1 : value[e].present => value[e].octets \in Seq(Alphabet)
    BY DEF SetMembers
  <2> QED BY <1>1, <1>2, <1>3, <1>4, <2>1, MemberTyped
<1>7. /\ LeftAfter(r.used) \in Int /\ pos + r.used \in 0 .. Len(input)
      /\ IF ctx.left >= 0
           THEN LeftAfter(r.used) >= 0 /\ pos + r.used + LeftAfter(r.used) = pos + ctx.left
           ELSE LeftAfter(r.used) = ctx.left
  BY <1>3, <1>5, AdvanceBounds
<1>8. /\ DOMAIN value' = 0 .. N - 1
      /\ \A e \in 0 .. N - 1 : e # edx => value'[e] = value[e] /\ sctx'[e] = sctx[e]
      /\ El(edx).kind = "prim" => sctx' = sctx
      /\ r.code = "ok" => value'[edx].present
  <2>1. DOMAIN value = 0 .. N - 1 /\ DOMAIN sctx = 0 .. N - 1 /\ edx \in DOMAIN value
    BY <1>3 DEF SetMembers, StringsOK
  <2>2. /\ sctx' = sctx \/ sctx' = [sctx EXCEPT ![edx] = r.c]
        /\ value' = value \/ value' = [value EXCEPT ![edx] = Got(r.octets)]
        /\ El(edx).kind = "prim" => sctx' = sctx
        /\ r.code = "ok" => value' = [value EXCEPT ![edx] = Got(r.octets)]
    BY <1>1
  <2>3. DOMAIN value' = 0 .. N - 1 /\ \A e \in 0 .. N - 1 : e # edx => value'[e] = value[e]
    BY <2>1, <2>2
  <2>4. \A e \in 0 .. N - 1 : e # edx => sctx'[e] = sctx[e]
    BY <2>1, <2>2
  <2>5. r.code = "ok" => value'[edx] = Got(r.octets)
    BY <2>1, <2>2
  <2> QED BY <2>2, <2>3, <2>4, <2>5 DEF Got
<1>9. present' = IF r.code = "ok" THEN present \cup {edx} ELSE present
  BY <1>1 DEF PresentAfter
<1>10. \A e \in present' : e \in 0 .. N - 1 /\ value'[e].present /\ sctx'[e].left = 0
  <2> SUFFICES ASSUME NEW e \in present'
               PROVE  e \in 0 .. N - 1 /\ value'[e].present /\ sctx'[e].left = 0
    OBVIOUS
  <2>1. CASE e \in present
    BY <1>3, <1>8, <2>1 DEF SetMembers
  <2>2. CASE e \notin present
    <3>1. e = edx /\ r.code = "ok"
      BY <1>9, <2>2
    <3>2. CASE El(edx).kind = "prim"
      BY <1>3, <1>8, <3>1, <3>2 DEF SetMembers
    <3>3. CASE El(edx).kind # "prim"
      BY <1>3, <1>6, <1>8, <3>1, <3>3 DEF StringAnswerOK
    <3> QED BY <3>2, <3>3
  <2> QED BY <2>1, <2>2
<1>11. \A e \in 0 .. N - 1 : El(e).kind = "prim" => sctx'[e].left = 0
  BY <1>8 DEF SetMembers
<1>12. verdict' # "ok"
  BY <1>1, <1>3, <1>5 DEF Return
<1>13. \A e \in 0 .. N - 1 : sctx'[e].phase = 3 /\ sctx'[e].left = 0 => e \in present'
  <2> SUFFICES ASSUME NEW e \in 0 .. N - 1, sctx'[e].phase = 3, sctx'[e].left = 0
               PROVE  e \in present'
    OBVIOUS
  <2>1. CASE e # edx \/ El(edx).kind = "prim"
    <3>1. sctx'[e] = sctx[e]
      BY <1>8, <2>1
    <3> QED BY <1>9, <2>1, <3>1 DEF SetMembers
  <2>2. CASE e = edx /\ El(edx).kind # "prim"
    <3>1. r.code = "ok"
      BY <1>6, <2>2 DEF StringAnswerOK
    <3> QED BY <1>9, <2>2, <3>1
  <2> QED BY <2>1, <2>2
<1>14. SetMembers'
  BY <1>6, <1>8, <1>10, <1>11, <1>12, <1>13 DEF SetMembers
<1>15. CASE r.code = "ok"
  <2>1. /\ pos' = pos + r.used /\ UNCHANGED <<pc, edx, verdict>>
        /\ ctx' = [ctx EXCEPT !.left = LeftAfter(r.used), !.step = 0]
    BY <1>1, <1>15 DEF Advance
  <2>2. /\ ctx' \in [phase : {0, 1, 3, 4, 5, 6}, step : Nat, left : Int]
        /\ ctx'.phase = 1 /\ ctx'.step = 0 /\ ctx'.left = LeftAfter(r.used)
    <3>1. 0 \in Nat
      OBVIOUS
    <3>2. ctx' \in [phase : {0, 1, 3, 4, 5, 6}, step : Nat, left : Int]
      BY <1>3, <1>7, <2>1, <3>1, Zenon
    <3> QED BY <1>3, <2>1, <3>2
  <2>3. SetTyped' /\ SetCursor'
    BY <1>2, <1>3, <1>7, <2>1, <2>2 DEF SetTyped, SetCursor, Streaming
  <2>4. SetStep' /\ Resumed' /\ ElementAhead'
    BY <2>2 DEF SetStep, Resumed, ElementAhead
  <2>5. FrameStays
    BY <1>3, <1>7, <2>1, <2>2 DEF FrameStays, Streaming
  <2> QED BY <1>14, <2>3, <2>4, <2>5
<1>16. CASE r.code = "more" /\ ~SizeViolation
  <2>1. /\ pos' = pos + r.used /\ ctx' = [ctx EXCEPT !.left = LeftAfter(r.used)]
        /\ pc' = "idle" /\ edx' = 0 /\ verdict' = "more"
    BY <1>1, <1>16 DEF Advance, Return
  <2>2. /\ ctx' \in [phase : {0, 1, 3, 4, 5, 6}, step : Nat, left : Int]
        /\ ctx'.phase = 1 /\ ctx'.step = ctx.step /\ ctx'.left = LeftAfter(r.used)
    BY <1>3, <1>7, <2>1
  <2>3. SetTyped' /\ SetCursor'
    BY <1>2, <1>3, <1>7, <2>1, <2>2 DEF SetTyped, SetCursor, Streaming
  <2>4. SetStep' /\ Resumed'
    BY <1>3, <2>1, <2>2 DEF SetStep, Resumed
  <2>5. PICK e \in 0 .. N - 1 : e = edx /\ e = ctx.step \div 2
    BY <1>3, <1>4
  <2>6. El(e).kind = "string" /\ sctx'[e].phase = 0 =>
          pos' < Len(input') /\ ~Constructed(<<input'[pos' + 1]>>)
    <3> SUFFICES ASSUME El(e).kind = "string", sctx'[e].phase = 0
                 PROVE  pos' < Len(input') /\ ~Constructed(<<input'[pos' + 1]>>)
      OBVIOUS
    <3>1. r.used = 0 /\ sctx[edx].phase = 0
      BY <1>6, <2>5 DEF StringAnswerOK
    <3>2. pos' = pos /\ input' = input
      BY <1>2, <1>3, <2>1, <3>1 DEF Streaming
    <3> QED BY <1>4, <2>5, <3>1, <3>2 DEF MemberReady
  <2>7. ElementAhead'
    <3>1. e < N /\ ctx'.step \div 2 = e
      BY <2>2, <2>5, TableAssumption
    <3> QED BY <2>6, <3>1 DEF ElementAhead, StringAhead
  <2>8. FrameStays
    BY <1>3, <1>7, <2>1, <2>2 DEF FrameStays, Streaming
  <2> QED BY <1>14, <2>3, <2>4, <2>7, <2>8
<1>17. CASE r.code # "ok" /\ ~(r.code = "more" /\ ~SizeViolation)
  <2>1. UNCHANGED <<pos, ctx>> /\ pc' = "idle" /\ edx' = 0 /\ verdict' = "fail"
    BY <1>1, <1>17 DEF Return
  <2>2. SetTyped' /\ SetCursor'
    BY <1>2, <1>3, <2>1 DEF SetTyped, SetCursor, Streaming
  <2>3. SetStep' /\ Resumed' /\ ElementAhead'
    BY <2>1 DEF SetStep, Resumed, ElementAhead
  <2>4. FrameStays
    BY <1>3, <2>1 DEF FrameStays, Streaming
  <2> QED BY <1>14, <2>2, <2>3, <2>4
<1> QED BY <1>15, <1>16, <1>17

\* To a later phase, with nothing else in between.
LEMMA SetPhaseTyped ==
  ASSUME SInv, pc # "idle", NEW p \in {3, 5, 6}, ctx' = [ctx EXCEPT !.phase = p], ctx.phase # 0,
         UNCHANGED <<input, pos, sctx, value, present>>,
         \/ /\ p = 3 /\ pc' = "tail" /\ UNCHANGED <<edx, verdict>>
            /\ ctx.left = 0 \/ Terminator
         \/ p = 5 /\ Return("fail")
         \/ p = 6 /\ Return("ok") /\ Populated
  PROVE  SInv' /\ FrameStays
<1> USE DEF SInv
<1>1. /\ ctx' \in [phase : {0, 1, 3, 4, 5, 6}, step : Nat, left : Int]
      /\ ctx'.phase = p /\ ctx'.step = ctx.step /\ ctx'.left = ctx.left /\ ctx.left \in Int
  BY DEF SetTyped
<1>2. SetTyped'
  BY <1>1, TableAssumption, SMTT(20) DEF SetTyped, Streaming, Return
<1>3. Terminator => Terminator'
  BY <1>1 DEF Terminator, ZeroOctet, Window, Left, Size
<1>4. SetCursor'
  BY <1>1, <1>3 DEF SetCursor, Return
<1>5. SetStep' /\ Resumed' /\ ElementAhead'
  BY <1>1 DEF SetStep, Resumed, ElementAhead, Return
<1>6. SetMembers'
  BY DEF SetMembers, StringsOK, Populated, Return, SetCursor
<1>7. FrameStays
  BY <1>1 DEF FrameStays, SetTyped, Streaming
<1> QED BY <1>2, <1>4, <1>5, <1>6, <1>7

\* The tags, and what comes after the members.
LEMMA SetAroundTyped ==
  ASSUME SInv, present' = present, CheckOwnTags \/ AfterMembers
  PROVE  SInv' /\ (ctx.phase > 0 => FrameStays)
<1> USE DEF SInv
<1>0. /\ Streaming /\ ctx \in [phase : {0, 1, 3, 4, 5, 6}, step : Nat, left : Int]
      /\ edx \in 0 .. N - 1 /\ 0 \in 0 .. N - 1 /\ ctx.step \in Nat /\ ctx.left \in Int
  BY TableAssumption DEF SetTyped
<1>1. CASE CheckOwnTags
  <2>1. /\ ctx.phase = 0 /\ ctx.step <= Len(Tags) /\ pc = "tags" /\ verdict = "more"
    BY <1>1 DEF CheckOwnTags, SetCursor, SetStep
  <2>2. PICK r : /\ r.code \in {"ok", "more", "fail"}
                 /\ pos' = pos + r.used /\ pos + r.used \in 0 .. Len(input)
                 /\ r.step \in Nat /\ r.step <= Len(Tags) /\ r.length \in Int
                 /\ IF r.code = "ok"
                      THEN /\ ctx' = [phase |-> 1, step |-> 0, left |-> r.length]
                           /\ pc' = "members" /\ edx' = 0 /\ verdict' = verdict
                      ELSE /\ ctx' = [ctx EXCEPT !.step = r.step]
                           /\ Return(r.code)
                 /\ UNCHANGED <<input, sctx, value>>
    BY <1>0, <1>1, <2>1, OwnTags
  <2>3. /\ ctx' \in [phase : {0, 1, 3, 4, 5, 6}, step : Nat, left : Int] /\ ctx'.left \in Int
        /\ IF r.code = "ok" THEN ctx'.phase = 1 /\ ctx'.step = 0
           ELSE ctx'.phase = 0 /\ ctx'.step = r.step
    BY <1>0, <2>1, <2>2
  <2>4. SetTyped'
    BY <1>0, <2>2, <2>3 DEF SetTyped, Streaming, Return
  <2>5. SetCursor' /\ SetStep' /\ Resumed' /\ ElementAhead'
    BY <2>1, <2>2, <2>3 DEF SetCursor, SetStep, Resumed, ElementAhead, Return
  <2>6. SetMembers'
    BY <2>1, <2>2 DEF SetMembers, StringsOK, Return
  <2> QED BY <2>1, <2>4, <2>5, <2>6
<1>2. ASSUME pc = "tail", ctx.left # 0, FetchTag(Window).len <= 0 \/ ~Terminator PROVE ctx.phase = 4
  <2>1. Terminator => FetchTag(Window).len > 0
    <3> SUFFICES ASSUME Terminator PROVE FetchTag(Window).len > 0
      OBVIOUS
    <3>1. Window \in Seq(Octet) /\ Len(Window) = Left /\ Left \in Nat
      BY <1>0, WindowBounds
    <3>2. Window # <<>> /\ Window[1] % 32 # 31
      BY <3>1 DEF Terminator, ZeroOctet
    <3> QED BY <3>2 DEF FetchTag
  <2>2. FetchTag(Window).len \in Int
    BY <1>0, WindowBounds, FetchTagBounds
  <2> QED BY <1>2, <2>1, <2>2 DEF SetCursor
<1>3. ASSUME pc = "tail", ctx.phase = 4, NEW code \in {"more", "fail"}, Return(code),
             UNCHANGED <<input, pos, ctx, sctx, value>>
      PROVE  SInv' /\ FrameStays
  <2>1. SInv'
    BY <1>3, SetReturnTyped
  <2> QED BY <1>0, <1>3, <2>1 DEF FrameStays, Streaming
<1>4. CASE LeftoverNoTag
  BY <1>2, <1>3, <1>4 DEF LeftoverNoTag, Leftover, Starved
<1>5. CASE LeftoverAwaitTerminator
  <2>1. ~Terminator
    BY <1>0, <1>5, WindowBounds DEF LeftoverAwaitTerminator, HalfTerminator, Terminator
  <2> QED BY <1>2, <1>3, <1>5, <2>1 DEF LeftoverAwaitTerminator, NextTag, Leftover
<1>6. CASE RejectLeftover
  BY <1>2, <1>3, <1>6 DEF RejectLeftover, NextTag, Leftover
<1>7. CASE SkipLeftover
  BY <1>2, <1>7 DEF SkipLeftover, NextTag, Leftover
<1>8. CASE EatTerminator
  <2>1. /\ pc = "tail" /\ ctx.left < 0 /\ Left >= 2 /\ Window[2] = 0 /\ pos' = pos + 2
        /\ ctx' = [ctx EXCEPT !.left = @ + 1, !.phase = 4]
        /\ UNCHANGED <<input, pc, edx, sctx, value, verdict>>
    BY <1>8 DEF EatTerminator, Terminator, ZeroOctet, Advance, NextTag, Leftover
  <2>2. pos + 2 \in 0 .. Len(input) /\ Window[2] = input[pos + 2]
    BY <1>0, <2>1, WindowBounds DEF Streaming
  <2>3. /\ ctx' \in [phase : {0, 1, 3, 4, 5, 6}, step : Nat, left : Int]
        /\ ctx'.phase = 4 /\ ctx'.step = ctx.step /\ ctx'.left = ctx.left + 1
    <3>1. ctx.left + 1 \in Int /\ 4 \in {0, 1, 3, 4, 5, 6}
      BY <1>0
    <3>2. ctx' \in [phase : {0, 1, 3, 4, 5, 6}, step : Nat, left : Int]
      BY <1>0, <2>1, <3>1, Zenon
    <3> QED BY <1>0, <2>1, <3>2
  <2>4. SetTyped' /\ SetCursor'
    BY <1>0, <2>1, <2>2, <2>3 DEF SetTyped, SetCursor, Streaming
  <2>5. SetStep' /\ Resumed' /\ ElementAhead'
    BY <2>1, <2>3 DEF SetStep, SetCursor, Resumed, ElementAhead
  <2>6. SetMembers'
    BY <2>1 DEF SetMembers, StringsOK, Populated
  <2>7. FrameStays
    BY <1>0, <2>1, <2>2, <2>3 DEF FrameStays, Streaming
  <2> QED BY <2>4, <2>5, <2>6, <2>7
<1> QED BY <1>1, <1>4, <1>5, <1>6, <1>7, <1>8 DEF AfterMembers

\* The caller.
LEMMA SetCallerTyped ==
  ASSUME SInv, present' = present, Call \/ \E octet \in Alphabet : Deliver(octet)
  PROVE  SInv' /\ (ctx.phase > 0 => FrameStays)
<1> USE DEF SInv
<1>0. Streaming /\ ctx.left \in Int /\ ctx.step \in Nat /\ 0 \in 0 .. N - 1
  BY TableAssumption DEF SetTyped
<1>1. CASE Call
  <2>1. /\ UNCHANGED <<input, pos, ctx, sctx, value, verdict>>
        /\ pc = "idle" /\ verdict = "more" /\ ctx.phase \in {0, 1, 4}
        /\ pc' = CASE ctx.phase = 0 -> "tags" [] ctx.phase = 1 -> "members" [] OTHER -> "tail"
        /\ edx' = IF ctx.phase = 1 THEN ctx.step \div 2 ELSE 0
    BY <1>1 DEF Call, SetCursor
  <2>2. edx' \in 0 .. N - 1
    BY <1>0, <2>1, TableAssumption DEF SetStep
  <2>3. SetTyped' /\ SetCursor'
    BY <2>1, <2>2 DEF SetTyped, SetCursor, Streaming
  <2>4. SetStep' /\ SetMembers' /\ Resumed'
    BY <2>1 DEF SetStep, SetMembers, StringsOK, Populated, Resumed
  <2>5. ElementAhead'
    BY <2>1 DEF ElementAhead, StringAhead
  <2>6. FrameStays
    BY <1>0, <2>1 DEF FrameStays, Streaming
  <2> QED BY <2>3, <2>4, <2>5, <2>6
<1>2. ASSUME NEW octet \in Alphabet, Deliver(octet) PROVE SInv' /\ FrameStays
  <2>1. /\ input' = Append(input, octet) /\ UNCHANGED <<pos, pc, edx, ctx, sctx, value, verdict>>
        /\ input \in Seq(Alphabet) /\ pos \in 0 .. Len(input) /\ pc = "idle"
    BY <1>0, <1>2 DEF Deliver, Streaming
  <2>2. /\ input' \in Seq(Alphabet) /\ Len(input') = Len(input) + 1
        /\ pos < Len(input) => input'[pos + 1] = input[pos + 1]
    BY <2>1, AppendProperties
  <2>3. SetTyped' /\ SetCursor'
    BY <2>1, <2>2 DEF SetTyped, SetCursor, Streaming
  <2>4. SetStep' /\ SetMembers' /\ Resumed'
    BY <2>1 DEF SetStep, SetMembers, StringsOK, Populated, Resumed
  <2>5. \A e : StringAhead(e) => StringAhead(e)'
    BY <2>1, <2>2 DEF StringAhead
  <2>6. ElementAhead'
    BY <2>1, <2>5 DEF ElementAhead
  <2>7. FrameStays
    BY <1>0, <2>1 DEF FrameStays, Streaming
  <2> QED BY <2>3, <2>4, <2>6, <2>7
<1> QED BY <1>1, <1>2

\* SInv is kept by every step, and so is the end of the frame.
LEMMA SetStepTyped == SInv /\ [SetNext]_setvars => SInv' /\ [ctx.phase > 0 => FrameStays]_vars
<1> SUFFICES ASSUME SInv, [SetNext]_setvars PROVE SInv' /\ [ctx.phase > 0 => FrameStays]_vars
  OBVIOUS
<1>0. /\ Streaming /\ ctx.left \in Int /\ (verdict # "ok" \/ pc = "idle")
      /\ pc = "members" => ctx.phase = 1
      /\ pc = "tail" => ctx.phase \in {3, 4}
  BY DEF SInv, SetTyped, SetCursor
<1>1. ASSUME pc = "members", NEW code \in {"more", "fail"}, Return(code),
             UNCHANGED <<input, pos, ctx, sctx, value, present>>
      PROVE  SInv' /\ FrameStays
  <2>1. SInv'
    BY <1>0, <1>1, SetReturnTyped
  <2> QED BY <1>0, <1>1, <2>1 DEF FrameStays, Streaming, SInv, SetTyped
<1>2. CASE EndOfFrame
  BY <1>0, <1>2, SetPhaseTyped DEF EndOfFrame, SetSynchronizing
<1>3. CASE SetNoTag
  BY <1>1, <1>3 DEF SetNoTag, SetSynchronizing, Starved
<1>4. CASE SetAwaitTerminator
  BY <1>1, <1>4 DEF SetAwaitTerminator, SetTagged, SetSynchronizing
<1>5. CASE SetReachTerminator
  BY <1>0, <1>5, SetPhaseTyped DEF SetReachTerminator, SetTagged, SetSynchronizing
<1>6. CASE SetFindElement
  <2>1. SInv'
    BY <1>6, SetFindTyped
  <2>2. pos' = pos /\ ctx'.left = ctx.left
    BY <1>6 DEF SetFindElement, SInv, SetTyped
  <2> QED BY <1>0, <2>1, <2>2 DEF FrameStays, Streaming, SInv, SetTyped
<1>7. CASE SetRejectUnknown
  BY <1>1, <1>7 DEF SetRejectUnknown, SetUnknown, SetSearching, SetTagged, SetSynchronizing
<1>8. CASE SetSkipUnknown
  <2>1. /\ pc = "members" /\ ctx.step % 2 = 0 /\ FetchTag(Window).len > 0
        /\ UNCHANGED <<input, sctx, value, present>>
    BY <1>8 DEF SetSkipUnknown, SetUnknown, SetSearching, SetTagged, SetSynchronizing
  <2>2. CASE Skip <= 0
    BY <1>1, <1>8, <2>1, <2>2 DEF SetSkipUnknown, Starved
  <2>3. CASE ~(Skip <= 0)
    <3>1. /\ Advance(FetchTag(Window).len + Skip)
          /\ ctx' = [ctx EXCEPT !.left = LeftAfter(FetchTag(Window).len + Skip)]
          /\ UNCHANGED <<pc, edx, verdict>>
      BY <1>8, <2>3 DEF SetSkipUnknown
    <3>2. ctx.step = 0 /\ ctx.phase = 1
      BY <1>0, <2>1 DEF SInv, SetStep
    <3>3. SInv'
      BY <2>1, <2>3, <3>1, <3>2, SetSkipTyped
    <3>4. FrameStays
      BY <2>1, <2>3, <3>1, SetSkipKeepsFrame DEF SInv
    <3> QED BY <3>3, <3>4
  <2> QED BY <2>2, <2>3
<1>9. CASE RejectDuplicate
  BY <1>1, <1>9 DEF RejectDuplicate
<1>10. CASE SetInvokeMember
  BY <1>10, SetInvokeTyped
<1>11. CASE SetFinish
  BY <1>0, <1>11, SetPhaseTyped DEF SetFinish
<1>12. CASE present' = present /\ (CheckOwnTags \/ AfterMembers)
  BY <1>12, SetAroundTyped
<1>13. CASE present' = present /\ (Call \/ \E octet \in Alphabet : Deliver(octet))
  BY <1>13, SetCallerTyped
<1>14. CASE UNCHANGED setvars
  <2>1. SetTyped' /\ SetCursor' /\ SetStep' /\ Resumed'
    BY <1>14 DEF setvars, vars, SInv, SetTyped, SetCursor, SetStep, Resumed, Streaming, Terminator,
       ZeroOctet, Window, Left, Size
  <2>2. SetMembers' /\ ElementAhead'
    BY <1>14 DEF setvars, vars, SInv, SetMembers, StringsOK, Populated, ElementAhead, StringAhead
  <2> QED BY <1>14, <2>1, <2>2 DEF setvars, SInv
<1> QED
  BY <1>2, <1>3, <1>4, <1>5, <1>6, <1>7, <1>8, <1>9, <1>10, <1>11, <1>12, <1>13, <1>14
     DEF SetNext, SetDecode

-----------------------------------------------------------------------------
\* The variables of the decoder of a SET stay within the types of the code; what its
\* map holds is complete, and phase 3 is at the end of a frame or at a terminator.
THEOREM SetTypeOKHolds == SetSpec => []SetTypeOK
<1>1. SInv /\ [SetNext]_setvars => SInv'
  BY SetStepTyped
<1>2. SInv => SetTypeOK
  BY SInvSuffices
<1> QED BY <1>1, <1>2, SetInitTyped, PTL DEF SetSpec

\* A SET handed over as decoded has all its mandatory members: the presence map that
\* _SET_is_populated asks never claims one that is not there.
THEOREM SetMandatoryPresentHolds == SetSpec => []MandatoryPresent
<1>1. SInv /\ [SetNext]_setvars => SInv'
  BY SetStepTyped
<1>2. SInv => MandatoryPresent
  BY SInvSuffices
<1> QED BY <1>1, <1>2, SetInitTyped, PTL DEF SetSpec

\* A frame of definite length ends where its header says, in a SET as well.
THEOREM SetFrameNeverMovesHolds == SetSpec => FrameNeverMoves
<1>1. SInv /\ [SetNext]_setvars => SInv' /\ [ctx.phase > 0 => FrameStays]_vars
  BY SetStepTyped
<1>2. [ctx.phase > 0 => FrameStays]_vars =>
        [ctx.phase > 0 =>
           IF ctx.left >= 0
             THEN ctx'.left >= 0 /\ pos' + ctx'.left = pos + ctx.left
             ELSE ctx'.left <= 0 /\ (ctx'.left > ctx.left => input[pos'] = 0)]_vars
  BY DEF FrameStays
<1> QED BY <1>1, <1>2, SetInitTyped, PTL DEF SetSpec, FrameNeverMoves

\* A member that is complete has consumed something, for what had not begun has a
\* header and what was waited for was not empty: the loop does not turn in place.
LEMMA SetInvokeMoves == SInv /\ SetInvokeMember => Progress
<1> SUFFICES ASSUME SInv, SetInvokeMember PROVE Progress
  OBVIOUS
<1>1. PICK r \in {MemberDecode} :
         CASE r.code = "ok" -> Advance(r.used) /\ UNCHANGED <<pc, edx, verdict>>
           [] r.code = "more" /\ ~SizeViolation -> Return("more")
           [] OTHER -> Return("fail")
  BY DEF SetInvokeMember
<1>2. /\ r = MemberDecode /\ pc = "members" /\ ctx.step % 2 = 1 /\ edx \notin present
      /\ Streaming
  BY <1>1 DEF SetInvokeMember, Duplicate, SInv, SetTyped
<1>3. MemberReady
  BY <1>2, SetMemberReady
<1>4. CASE r.code # "ok"
  BY <1>1, <1>4 DEF Return, Progress
<1>5. CASE r.code = "ok"
  <2>1. pos' = pos + r.used /\ pc' = pc
    BY <1>1, <1>5 DEF Advance
  <2>2. r.used \in 0 .. Left /\ Left \in Nat
    BY <1>2, <1>3, MemberDecodeBounds, WindowBounds
  <2>3. r.used > 0
    <3>1. CASE El(edx).kind = "prim"
      BY <1>2, <1>3, <1>5, <3>1, MemberDecodeBounds
    <3>2. CASE El(edx).kind # "prim"
      <4>1. edx \in 0 .. N - 1 /\ sctx[edx] \in StringContexts
        BY <1>3 DEF MemberReady
      <4>2. sctx[edx].phase = 0 \/ sctx[edx].left > 0
        BY <1>2, <4>1 DEF SInv, SetMembers, StringContexts
      <4> QED BY <1>2, <1>3, <1>5, <3>2, <4>2, MemberDecodeBounds DEF StringAnswerOK
    <3> QED BY <3>1, <3>2
  <2> QED BY <1>2, <2>1, <2>2, <2>3 DEF Progress, Streaming
<1> QED BY <1>4, <1>5

\* The loop over the members of a SET ends as well, though nothing orders them.
LEMMA SetStepProgresses == SInv /\ [SetNext]_setvars => [pc # "idle" => Progress]_vars
<1> SUFFICES ASSUME SInv, SetNext, pc # "idle" PROVE Progress
  BY DEF setvars
<1>0. Streaming /\ ctx.left \in Int /\ ctx.step \in Nat
  BY DEF SInv, SetTyped
<1>1. ~Call /\ ~\E octet \in Alphabet : Deliver(octet)
  BY DEF Call, Deliver
<1>2. CASE CheckOwnTags
  BY <1>2 DEF CheckOwnTags, Progress, LaterPhase, Return
<1>3. CASE \/ SetNoTag \/ SetAwaitTerminator \/ SetRejectUnknown \/ RejectDuplicate \/ SetFinish
           \/ LeftoverNoTag \/ LeftoverAwaitTerminator \/ RejectLeftover
  BY <1>3 DEF Progress, Return, SetNoTag, SetAwaitTerminator, SetRejectUnknown, RejectDuplicate,
     SetFinish, LeftoverNoTag, LeftoverAwaitTerminator, RejectLeftover
<1>4. CASE EndOfFrame \/ SetReachTerminator
  BY <1>4 DEF Progress, LaterPhase, EndOfFrame, SetReachTerminator, SetTagged, SetSynchronizing
<1>5. CASE SetFindElement
  <2>1. PICK n \in 0 .. N - 1 : ctx' = [ctx EXCEPT !.step = 2 * n + 1] /\ UNCHANGED <<pos, pc>>
    BY <1>5 DEF SetFindElement, Tags2El
  <2>2. ctx.step = 0
    BY <1>5 DEF SetFindElement, SetSearching, SetTagged, SetSynchronizing, SInv, SetStep, SetCursor
  <2>3. ctx'.step = 2 * n + 1 /\ n \in Nat
    BY <2>1, TableAssumption DEF SInv, SetTyped
  <2> QED BY <2>1, <2>2, <2>3 DEF Progress
<1>6. CASE SetSkipUnknown
  <2>1. FetchTag(Window).len > 0
    BY <1>6 DEF SetSkipUnknown, SetUnknown, SetSearching, SetTagged
  <2>2. CASE Skip <= 0
    BY <1>6, <2>2 DEF SetSkipUnknown, Return, Progress
  <2>3. CASE ~(Skip <= 0)
    BY <1>0, <1>6, <2>1, <2>3, SkipAhead DEF SetSkipUnknown, Progress
  <2> QED BY <2>2, <2>3
<1>7. CASE SetInvokeMember
  BY <1>7, SetInvokeMoves
<1>8. CASE EatTerminator
  <2>1. pos' = pos + 2 /\ pc' = pc
    BY <1>8 DEF EatTerminator, Advance
  <2> QED BY <1>0, <2>1 DEF Progress, Streaming
<1>9. CASE SkipLeftover
  <2>1. CASE Skip <= 0
    BY <1>9, <2>1 DEF SkipLeftover, Return, Progress
  <2>2. CASE ~(Skip <= 0)
    BY <1>0, <1>9, <2>2, SkipAhead DEF SkipLeftover, NextTag, Progress
  <2> QED BY <2>1, <2>2
<1> QED BY <1>1, <1>2, <1>3, <1>4, <1>5, <1>6, <1>7, <1>8, <1>9 DEF SetNext, SetDecode, AfterMembers

\* Every call of SET_decode_ber returns: each step of it ends the call, enters a later
\* phase, consumes an octet or settles which member comes next.
THEOREM SetCallMakesProgressHolds == SetSpec => CallMakesProgress
<1>1. SInv /\ [SetNext]_setvars => SInv' /\ [pc # "idle" => Progress]_vars
  BY SetStepTyped, SetStepProgresses
<1>2. [pc # "idle" => Progress]_vars =>
        [pc # "idle" => \/ pc' = "idle"
                        \/ LaterPhase
                        \/ pc' = pc /\ pos' > pos
                        \/ pc' = pc /\ pos' = pos /\ ctx'.step > ctx.step]_vars
  BY DEF Progress
<1> QED BY <1>1, <1>2, SetInitTyped, PTL DEF SetSpec, CallMakesProgress

\* A member that is complete is not touched again, in this call or in a later one,
\* by a TLV of the same tag or by anything else.
THEOREM NeverOverwrittenHolds == SetSpec => NeverOverwritten
<1>1. SInv /\ [SetNext]_setvars => SInv'
  BY SetStepTyped
<1>2. SInv /\ [SetNext]_setvars =>
        [\A e \in present : value'[e] = value[e] /\ e \in present']_setvars
  <2> SUFFICES ASSUME SInv, SetNext, NEW e \in present
               PROVE  value'[e] = value[e] /\ e \in present'
    OBVIOUS
  <2>1. CASE SetInvokeMember
    <3>1. e # edx /\ DOMAIN value = 0 .. N - 1 /\ e \in 0 .. N - 1
      BY <2>1 DEF SetInvokeMember, Duplicate, SInv, SetMembers
    <3>2. PICK r : /\ value' = value \/ value' = [value EXCEPT ![edx] = Got(r.octets)]
                   /\ present' = PresentAfter(r.code)
      BY <2>1, Zenon DEF SetInvokeMember
    <3>3. value'[e] = value[e]
      BY <3>1, <3>2
    <3> QED BY <3>2, <3>3 DEF PresentAfter
  <2>2. CASE ~SetInvokeMember
    <3>1. value' = value /\ present' = present
      BY <2>2 DEF SetNext, SetDecode, EndOfFrame, SetNoTag, SetAwaitTerminator,
         SetReachTerminator, SetFindElement, SetRejectUnknown, SetSkipUnknown, RejectDuplicate,
         SetFinish, AfterMembers, CheckOwnTags, LeftoverNoTag, LeftoverAwaitTerminator,
         EatTerminator, RejectLeftover, SkipLeftover, Call, Deliver
    <3> QED BY <3>1
  <2> QED BY <2>1, <2>2
<1> QED BY <1>1, <1>2, SetInitTyped, PTL DEF SetSpec, NeverOverwritten
=============================================================================
