------------------------ MODULE BerOctetStringProofs ------------------------
(***************************************************************************)
(* What is proved of the decoder of strings for every alphabet and number  *)
(* of octets, that is for every stream, however it is cut into calls and   *)
(* however deep its pieces are nested: the types, FramesNest,              *)
(* GotIsConsumed and CallMakesProgress.                                    *)
(***************************************************************************)
EXTENDS BerOctetString, BerTLVProofs

StackFrame == [left : {n \in Int : n >= -1}, got : Nat, bits_chopped : BOOLEAN,
               want_nulls : {0, 1}]

Context == [phase : 0 .. 4, step : Nat, left : -1 .. LengthTooLarge, context : BOOLEAN]

(***************************************************************************)
(* What the frames of a stack got, summed up.                              *)
(***************************************************************************)
\* f[d] is what the d outermost frames got.
Sums(f, s) ==
  /\ f[0] = 0
  /\ \A d \in 0 .. Len(s) : f[d] \in Nat
  /\ \A d \in 1 .. Len(s) : f[d] = f[d - 1] + s[d].got
  /\ GotSum(s) = f[Len(s)]

\* There are such sums.
LEMMA SumsExist ==
  ASSUME NEW s \in Seq(StackFrame)
  PROVE  \E f : Sums(f, s)
<1> DEFINE n == Len(s)
           At(f, d) == IF d = 0 THEN 0 ELSE f[d - 1] + s[d].got
           step == [d \in 1 .. n |-> [x \in Nat |-> x + s[d].got]]
           sum == CHOOSE f : f = [d \in 0 .. n |-> At(f, d)]
<1>1. GotSum(s) = sum[n]
  BY Zenon DEF GotSum
<1>2. n \in Nat /\ 0 \in Nat
  OBVIOUS
<1>3. \A d \in 1 .. n : s[d].got \in Nat
  <2>1. \A d \in 1 .. n : s[d] \in StackFrame
    OBVIOUS
  <2> QED BY <2>1 DEF StackFrame
<1> HIDE DEF n
<1>4. step \in StepsUp(n, Nat)
  BY <1>3 DEF StepsUp
<1>5. \A d \in 1 .. n : \A x \in Nat : step[d][x] = x + s[d].got
  OBVIOUS
<1> HIDE DEF step
<1>6. PICK f : RunUp(f, n, Nat, 0, step)
  BY <1>2, <1>4, RecursionUp
<1>7. \A d \in 0 .. n : f[d] = At(f, d)
  <2>1. f[0] = 0 /\ \A d \in 1 .. n : f[d] = step[d][f[d - 1]] /\ f[d - 1] \in Nat
    BY <1>2, <1>6 DEF RunUp
  <2>2. \A d \in 1 .. n : f[d] = f[d - 1] + s[d].got
    BY <1>5, <2>1
  <2> QED BY <1>2, <2>1, <2>2
<1>8. f = [d \in 0 .. n |-> At(f, d)]
  <2> HIDE DEF At
  <2> QED BY <1>6, <1>7 DEF RunUp
<1>9. sum = [d \in 0 .. n |-> At(sum, d)]
  <2> HIDE DEF At
  <2> QED BY <1>8, Zenon
<1> HIDE DEF sum
<1>10. sum[0] = 0 /\ \A d \in 1 .. n : sum[d] = sum[d - 1] + s[d].got
  BY <1>2, <1>9
<1>11. GoesUp(sum, n, Nat, step)
  BY <1>2, <1>5, <1>10 DEF GoesUp
<1>12. \A d \in 0 .. n : sum[d] \in Nat
  BY <1>2, <1>4, <1>11, RecursionStays
<1>13. Sums(sum, s)
  BY <1>1, <1>10, <1>12 DEF Sums, n
<1> QED BY <1>13

\* Stacks with the same frames up to a depth have the same sums up to it.
LEMMA SumsAgree ==
  ASSUME NEW s \in Seq(StackFrame), NEW t \in Seq(StackFrame),
         NEW m \in Nat, m <= Len(s), m <= Len(t), \A d \in 1 .. m : t[d] = s[d],
         NEW f, Sums(f, s), NEW g, Sums(g, t)
  PROVE  g[m] = f[m]
<1> DEFINE holds == {d \in Nat : g[d] = f[d]}
<1>1. 0 \in holds
  BY DEF Sums
<1>2. ASSUME NEW d \in 0 .. m - 1, d \in holds PROVE d + 1 \in holds
  <2>1. d + 1 \in 1 .. Len(s) /\ d + 1 \in 1 .. Len(t) /\ d + 1 \in 1 .. m /\ (d + 1) - 1 = d
    OBVIOUS
  <2>2. f[d + 1] = f[d] + s[d + 1].got /\ g[d + 1] = g[d] + t[d + 1].got
    BY <2>1 DEF Sums
  <2> QED BY <1>2, <2>1, <2>2
<1> HIDE DEF holds
<1>3. \A d \in 0 .. m : d \in holds
  BY <1>1, <1>2, UpTo
<1> QED BY <1>3 DEF holds

\* One more frame.
LEMMA PushedSum ==
  ASSUME NEW s \in Seq(StackFrame), NEW e \in StackFrame
  PROVE  GotSum(s) \in Nat /\ GotSum(Append(s, e)) = GotSum(s) + e.got
<1> DEFINE t == Append(s, e)
           n == Len(s)
<1>1. /\ t \in Seq(StackFrame) /\ Len(t) = n + 1 /\ n \in Nat
      /\ \A d \in 1 .. n : t[d] = s[d]
      /\ t[n + 1] = e
  OBVIOUS
<1>2. PICK f : Sums(f, s)
  BY SumsExist
<1> HIDE DEF t
<1>3. PICK g : Sums(g, t)
  BY <1>1, SumsExist
<1>4. g[n] = f[n]
  BY <1>1, <1>2, <1>3, SumsAgree
<1>5. g[n + 1] = g[n] + t[n + 1].got
  BY <1>1, <1>3 DEF Sums
<1>6. GotSum(s) = f[n] /\ f[n] \in Nat /\ GotSum(t) = g[n + 1]
  BY <1>1, <1>2, <1>3 DEF Sums
<1> QED BY <1>1, <1>4, <1>5, <1>6 DEF t

\* The frames below depth n, and e on them.
Below(t, s, n, e) ==
  /\ t \in Seq(StackFrame) /\ Len(t) = n
  /\ \A d \in 1 .. n - 1 : t[d] = s[d]
  /\ t[n] = e

\* Another frame in the place of the last one.
LEMMA ReplacedSum ==
  ASSUME NEW s \in Seq(StackFrame), Len(s) > 0, NEW e \in StackFrame,
         NEW t, Below(t, s, Len(s), e)
  PROVE  GotSum(t) = GotSum(s) - s[Len(s)].got + e.got
<1> DEFINE n == Len(s)
<1>1. n \in Nat /\ n - 1 \in Nat /\ n - 1 <= Len(s) /\ n - 1 <= Len(t) /\ n \in 1 .. n
  BY DEF Below
<1>2. t \in Seq(StackFrame) /\ Len(t) = n /\ t[n] = e /\ \A d \in 1 .. n - 1 : t[d] = s[d]
  BY DEF Below
<1>3. PICK f : Sums(f, s)
  BY SumsExist
<1>4. PICK g : Sums(g, t)
  BY <1>2, SumsExist
<1>5. g[n - 1] = f[n - 1]
  BY <1>1, <1>2, <1>3, <1>4, SumsAgree
<1>6. g[n] = g[n - 1] + e.got /\ f[n] = f[n - 1] + s[n].got
  BY <1>1, <1>2, <1>3, <1>4 DEF Sums
<1>7. GotSum(s) = f[n] /\ GotSum(t) = g[n]
  BY <1>2, <1>3, <1>4 DEF Sums
<1>8. f[n - 1] \in Nat /\ s[n].got \in Nat /\ e.got \in Nat
  <2>1. n - 1 \in 0 .. Len(s) /\ s[n] \in StackFrame
    BY <1>1
  <2> QED BY <1>3, <2>1 DEF Sums, StackFrame
<1> HIDE DEF n
<1> QED BY <1>5, <1>6, <1>7, <1>8 DEF n

\* Another frame in the place of the last two.
LEMMA PoppedSum ==
  ASSUME NEW s \in Seq(StackFrame), Len(s) > 1, NEW e \in StackFrame,
         NEW t, Below(t, s, Len(s) - 1, e)
  PROVE  GotSum(t) = GotSum(s) - s[Len(s)].got - s[Len(s) - 1].got + e.got
<1> DEFINE n == Len(s)
<1>1. /\ n \in Nat /\ n \in 1 .. n /\ n - 1 \in 1 .. n /\ n - 1 \in 1 .. n - 1
      /\ n - 2 \in Nat /\ n - 1 - 1 = n - 2
  OBVIOUS
<1>2. PICK m \in Nat : m = n - 2
  BY <1>1
<1>3. /\ t \in Seq(StackFrame) /\ Len(t) = n - 1 /\ t[n - 1] = e
      /\ \A d \in 1 .. m : t[d] = s[d]
  BY <1>1, <1>2 DEF Below
<1>4. PICK f : Sums(f, s)
  BY SumsExist
<1>5. PICK g : Sums(g, t)
  BY <1>3, SumsExist
<1>6. g[m] = f[m]
  <2>1. m <= Len(s) /\ m <= Len(t)
    BY <1>1, <1>2, <1>3
  <2> QED BY <1>3, <1>4, <1>5, <2>1, SumsAgree
<1>7. /\ g[n - 1] = g[m] + e.got
      /\ f[n - 1] = f[m] + s[n - 1].got /\ f[n] = f[n - 1] + s[n].got
  BY <1>1, <1>2, <1>3, <1>4, <1>5 DEF Sums
<1>8. GotSum(s) = f[n] /\ GotSum(t) = g[n - 1]
  BY <1>3, <1>4, <1>5 DEF Sums
<1>9. f[m] \in Nat /\ s[n].got \in Nat /\ s[n - 1].got \in Nat /\ e.got \in Nat
  <2>1. m \in 0 .. Len(s) /\ s[n] \in StackFrame /\ s[n - 1] \in StackFrame
    BY <1>1, <1>2
  <2> QED BY <1>4, <2>1 DEF Sums, StackFrame
<1> HIDE DEF n
<1> QED BY <1>6, <1>7, <1>8, <1>9 DEF n

-----------------------------------------------------------------------------
(***************************************************************************)
(* The inductive invariant.                                                *)
(***************************************************************************)
Stages == {Stage[p] : p \in 0 .. 3}

Typed ==
  /\ input \in Seq(Octet) /\ pos \in 0 .. Len(input)
  /\ stack \in Seq(StackFrame) /\ ctx \in Context
  /\ verdict \in {"more", "ok", "fail"} /\ pc \in {"idle"} \cup Stages

\* Where the decoder is and what the context says of it agree.
Staged ==
  /\ pc # "idle" => pc = Stage[ctx.phase] /\ verdict = "more"
  /\ verdict = "more" => ctx.phase \in 0 .. 3 /\ (ctx.phase = 0 => ctx.step = 0)
  /\ ctx.phase \notin {1, 2} => stack = <<>>
  /\ ctx.phase = 2 => Depth > 0 /\ Sel.left >= 0
  /\ ctx.phase = 3 => ctx.left >= 0

\* GotIsConsumed, and nothing consumed before there are frames.
Summed == ctx.phase \in 0 .. 2 => GotSum(stack) = pos

IInv == Typed /\ Staged /\ Summed /\ FramesNest

\* What a decoder that is in a stage knows of the context.
LEMMA InStage ==
  ASSUME Typed, Staged
  PROVE  /\ pc = "tags" => ctx.phase = 0 /\ verdict = "more"
         /\ pc = "expect" => ctx.phase = 1 /\ verdict = "more"
         /\ pc = "take" => ctx.phase = 2 /\ verdict = "more"
         /\ pc = "primitive" => ctx.phase = 3 /\ verdict = "more"
BY DEF Staged, Stage

\* Before there are frames nothing has been consumed.
LEMMA EmptySum == GotSum(<<>>) = 0
<1>1. <<>> \in Seq(StackFrame) /\ Len(<<>>) = 0
  OBVIOUS
<1>2. PICK f : Sums(f, <<>>)
  BY <1>1, SumsExist
<1> QED BY <1>1, <1>2 DEF Sums

\* The decoder begins with it.
LEMMA InitHolds == Init => IInv
<1> SUFFICES ASSUME Init PROVE IInv
  OBVIOUS
<1>1. <<>> \in Seq(Octet) /\ <<>> \in Seq(StackFrame) /\ Len(<<>>) = 0
  OBVIOUS
<1>2. ctx \in Context
  BY LengthTooLargeType DEF Init, Context
<1>3. Typed
  BY <1>1, <1>2 DEF Init, Typed
<1>4. Staged
  BY DEF Init, Staged, Stage
<1>5. Summed
  BY EmptySum DEF Init, Summed
<1>6. FramesNest
  BY <1>1 DEF Init, FramesNest, Depth
<1> QED BY <1>3, <1>4, <1>5, <1>6 DEF IInv

\* Steps that leave the decoder's state alone, and those that only return.
LEMMA DeliverKeeps ==
  ASSUME IInv, NEW octet \in Alphabet, Deliver(octet)
  PROVE  IInv'
<1>1. octet \in Octet /\ input \in Seq(Octet) /\ pos \in 0 .. Len(input)
  BY InputAssumption DEF IInv, Typed
<1>2. input' \in Seq(Octet) /\ pos' \in 0 .. Len(input')
  BY <1>1 DEF Deliver
<1>3. Typed'
  BY <1>2 DEF IInv, Typed, Deliver
<1>4. Staged'
  BY DEF IInv, Staged, Deliver, Depth, Sel
<1>5. Summed' /\ FramesNest'
  BY DEF IInv, Summed, FramesNest, Deliver, Depth
<1> QED BY <1>3, <1>4, <1>5 DEF IInv

\* IInv over a call, the first one or one that resumes.
LEMMA CallKeeps ==
  ASSUME IInv, Call
  PROVE  IInv'
<1>1. ctx.phase \in 0 .. 3
  BY DEF IInv, Staged, Call
<1>2. Typed'
  BY <1>1 DEF IInv, Typed, Stages, Call
<1>3. Staged'
  BY DEF IInv, Staged, Call, Depth, Sel
<1>4. Summed' /\ FramesNest'
  BY DEF IInv, Summed, FramesNest, Call, Depth
<1> QED BY <1>2, <1>3, <1>4 DEF IInv

\* A call that returns and has not changed the state of the decoder.
LEMMA ReturnKeeps ==
  ASSUME IInv, UNCHANGED <<input, pos, ctx, stack>>, pc' = "idle", verdict' \in {"more", "fail"},
         pc # "idle"
  PROVE  IInv'
<1>1. verdict = "more"
  BY DEF IInv, Staged
<1>2. Typed'
  BY DEF IInv, Typed
<1>3. Staged'
  BY <1>1 DEF IInv, Staged, Depth, Sel
<1>4. Summed' /\ FramesNest'
  BY DEF IInv, Summed, FramesNest, Depth
<1> QED BY <1>2, <1>3, <1>4 DEF IInv

\* There is no octet before those of the input, and some may be left.
LEMMA SizeType ==
  ASSUME IInv
  PROVE  Size \in Nat /\ pos \in Nat /\ Len(input) \in Nat /\ pos + Size = Len(input)
BY DEF IInv, Typed, Size

-----------------------------------------------------------------------------
(***************************************************************************)
(* Phase 0.                                                                *)
(***************************************************************************)
LEMMA CheckOwnTagsKeeps ==
  ASSUME IInv, CheckOwnTags
  PROVE  IInv'
<1> DEFINE w == From(input, pos + 1)
           r == CheckTags(Tags, 0, -1, ctx.step, TRUE, w)
<1>1. ctx.phase = 0 /\ verdict = "more" /\ ctx.step = 0 /\ stack = <<>>
  BY InStage DEF IInv, CheckOwnTags, Staged
<1>2. w \in Seq(Octet) /\ Len(w) = Size
  <2>1. pos + 1 \in 1 .. Len(input) + 1 /\ input \in Seq(Octet)
    BY SizeType DEF IInv, Typed
  <2> QED BY <2>1, SizeType, FromProperties DEF Size
<1> HIDE DEF w
<1>3. /\ r.code \in {"ok", "more", "fail"} /\ r.used \in 0 .. Size /\ r.step \in {0, 1}
      /\ r.code # "ok" => r.used = 0 /\ r.step = 0
      /\ r.code = "ok" =>
           /\ r.constr \in {0, 1} /\ r.length \in -1 .. LengthTooLarge
           /\ r.constr = 0 => r.length >= 0
  BY <1>1, <1>2, OneTag, StringTypeAssumption
<1> HIDE DEF r
<1>4. /\ input' = input /\ stack' = <<>> /\ ctx \in Context
      /\ input \in Seq(Octet) /\ <<>> \in Seq(StackFrame) /\ GotSum(<<>>) = 0 /\ pos = 0
  <2>1. GotSum(<<>>) = pos
    BY <1>1 DEF IInv, Summed
  <2> QED BY <1>1, <2>1, EmptySum DEF CheckOwnTags, IInv, Typed
<1>5. FramesNest'
  <2>1. Len(<<>>) = 0
    OBVIOUS
  <2> QED BY <1>4, <2>1 DEF FramesNest, Depth
<1>6. CASE r.code # "ok"
  <2>1. /\ pos' = pos + r.used /\ ctx' = [ctx EXCEPT !.step = r.step]
        /\ pc' = "idle" /\ verdict' = r.code
    BY <1>6 DEF CheckOwnTags, Advance, Return, r, w
  <2>2. pos' = pos /\ ctx' = ctx
    BY <1>1, <1>3, <1>4, <1>6, <2>1 DEF Context
  <2>3. Typed'
    BY <1>3, <1>4, <2>1, <2>2 DEF IInv, Typed
  <2>4. Staged'
    <3>1. pc' = "idle" /\ stack' = <<>> /\ ctx'.phase = 0 /\ ctx'.step = 0
      BY <1>1, <1>4, <2>1, <2>2
    <3> QED BY <3>1 DEF Staged
  <2>5. Summed'
    BY <1>4, <2>2 DEF Summed
  <2> QED BY <1>5, <2>3, <2>4, <2>5 DEF IInv
<1>7. CASE r.code = "ok" /\ r.constr = 1
  <2>1. /\ ctx' = [ctx EXCEPT !.step = r.step, !.left = r.length, !.phase = 1]
        /\ pc' = "expect" /\ pos' = pos /\ verdict' = verdict
    BY <1>7 DEF CheckOwnTags, r, w
  <2>2. r.step \in Nat /\ r.length \in -1 .. LengthTooLarge /\ 1 \in 0 .. 4
    BY <1>3, <1>7
  <2>3. ctx' \in Context
    BY <1>4, <2>1, <2>2, Zenon DEF Context
  <2>4. ctx'.phase = 1
    BY <1>4, <2>1 DEF Context
  <2>5. Typed'
    BY <1>4, <2>1, <2>3 DEF IInv, Typed, Stages, Stage
  <2>6. Staged' /\ Summed'
    BY <1>1, <1>4, <2>1, <2>4 DEF Staged, Summed, Stage
  <2> QED BY <1>5, <2>5, <2>6 DEF IInv
<1>8. CASE r.code = "ok" /\ r.constr # 1
  <2>1. /\ ctx' = [ctx EXCEPT !.step = r.step, !.left = r.length, !.phase = 3]
        /\ pc' = "primitive" /\ pos' = pos + r.used /\ verdict' = verdict
    BY <1>8 DEF CheckOwnTags, Advance, r, w
  <2>2. r.step \in Nat /\ r.length \in -1 .. LengthTooLarge /\ 3 \in 0 .. 4 /\ r.length >= 0
    BY <1>3, <1>8
  <2>3. ctx' \in Context
    BY <1>4, <2>1, <2>2, Zenon DEF Context
  <2>4. ctx'.phase = 3 /\ ctx'.left = r.length
    BY <1>4, <2>1 DEF Context
  <2>5. pos' \in 0 .. Len(input')
    BY <1>3, <1>4, <2>1, SizeType
  <2>6. Typed'
    BY <1>4, <2>1, <2>3, <2>5 DEF IInv, Typed, Stages, Stage
  <2>7. Staged' /\ Summed'
    BY <1>1, <1>4, <2>1, <2>2, <2>4 DEF Staged, Summed, Stage
  <2> QED BY <1>5, <2>6, <2>7 DEF IInv
<1> QED BY <1>3, <1>6, <1>7, <1>8

-----------------------------------------------------------------------------
(***************************************************************************)
(* Phase 3.                                                                *)
(***************************************************************************)
\* The string is taken, whole or in part: n octets of it.
LEMMA PrimitiveKeeps ==
  ASSUME IInv, pc = "primitive", NEW n \in Nat, n <= Size, n <= ctx.left,
         input' = input, stack' = stack, pos' = pos + n, pc' = "idle",
         NEW phase \in {3, 4}, ctx' = [ctx EXCEPT !.left = ctx.left - n, !.context = TRUE,
                                                 !.phase = phase],
         phase = 3 => verdict' = "more", phase = 4 => verdict' \in {"ok", "fail"}
  PROVE  IInv'
<1>1. ctx.phase = 3 /\ verdict = "more" /\ ctx.left >= 0 /\ stack = <<>> /\ ctx \in Context
  BY InStage DEF IInv, Staged, Typed
<1>2. ctx.left - n \in -1 .. LengthTooLarge /\ ctx.left - n >= 0
  BY <1>1, LengthTooLargeType DEF Context
<1>3. ctx' \in Context
  <2>1. phase \in 0 .. 4 /\ TRUE \in BOOLEAN
    OBVIOUS
  <2> QED BY <1>1, <1>2, <2>1, Zenon DEF Context
<1>4. ctx'.phase = phase /\ ctx'.left = ctx.left - n
  BY <1>1 DEF Context
<1>5. pos' \in 0 .. Len(input')
  BY SizeType
<1>6. Typed'
  BY <1>3, <1>5 DEF IInv, Typed
<1>7. Staged' /\ Summed'
  BY <1>1, <1>2, <1>4 DEF Staged, Summed
<1>8. FramesNest'
  BY DEF IInv, FramesNest, Depth
<1> QED BY <1>6, <1>7, <1>8 DEF IInv

\* IInv over RC_WMORE from an empty window.
LEMMA StarvedKeeps ==
  ASSUME IInv, Starved
  PROVE  IInv'
BY ReturnKeeps DEF Starved, Return

\* IInv over the copying of a part of a primitive value.
LEMMA TakePartKeeps ==
  ASSUME IInv, TakePart
  PROVE  IInv'
<1>1. ctx.phase = 3 /\ ctx \in Context
  BY InStage DEF IInv, Typed, TakePart
<1>2. Size \in Nat /\ Size <= Size /\ Size <= ctx.left
  BY <1>1, SizeType DEF TakePart, Context
<1>3. ctx' = [ctx EXCEPT !.left = ctx.left - Size, !.context = TRUE, !.phase = 3]
  BY <1>1 DEF TakePart, Context
<1>4. /\ pc = "primitive" /\ input' = input /\ stack' = stack /\ pos' = pos + Size
      /\ pc' = "idle" /\ verdict' = "more"
  BY DEF TakePart, Advance, Return
<1>5. 3 \in {3, 4} /\ 3 # 4
  OBVIOUS
<1> HIDE DEF Size
<1> QED BY <1>2, <1>3, <1>4, <1>5, PrimitiveKeeps

\* IInv over the copying of the last of it.
LEMMA TakeRestKeeps ==
  ASSUME IInv, TakeRest
  PROVE  IInv'
<1>1. ctx.phase = 3 /\ ctx.left \in Nat
  BY InStage, LengthTooLargeType DEF IInv, Typed, TakeRest, Staged, Context
<1>2. ctx.left <= Size /\ ctx.left <= ctx.left
  BY <1>1, SizeType DEF TakeRest
<1>3. ctx' = [ctx EXCEPT !.left = ctx.left - ctx.left, !.context = TRUE, !.phase = 4]
  <2>1. ctx.left - ctx.left = 0
    BY <1>1
  <2> QED BY <2>1 DEF TakeRest
<1>4. /\ pc = "primitive" /\ input' = input /\ stack' = stack /\ pos' = pos + ctx.left
      /\ pc' = "idle" /\ verdict' \in {"ok", "fail"}
  BY DEF TakeRest, Advance, Conclude, Return
<1>5. 4 \in {3, 4} /\ 4 # 3
  OBVIOUS
<1> QED BY <1>1, <1>2, <1>3, <1>4, <1>5, PrimitiveKeeps

-----------------------------------------------------------------------------
(***************************************************************************)
(* Phase 1.                                                                *)
(***************************************************************************)
\* What a decoder that looks for a piece knows.
LEMMA Expectant ==
  ASSUME IInv, pc = "expect"
  PROVE  /\ ctx.phase = 1 /\ verdict = "more" /\ GotSum(stack) = pos
         /\ stack \in Seq(StackFrame) /\ Depth = Len(stack) /\ Depth \in Nat
         /\ ctx \in Context /\ input \in Seq(Octet)
BY InStage DEF IInv, Typed, Summed, Depth

\* A frame of the stack.
LEMMA FrameType ==
  ASSUME NEW s \in Seq(StackFrame), NEW d \in 1 .. Len(s)
  PROVE  s[d] \in StackFrame /\ s[d].left \in Int /\ s[d].left >= -1 /\ s[d].got \in Nat
<1>1. s[d] \in StackFrame
  OBVIOUS
<1> QED BY <1>1 DEF StackFrame

\* What is left of the input, and no more than the innermost frame still expects.
LEMMA WindowOK ==
  ASSUME IInv, pc = "expect"
  PROVE  /\ Window \in Seq(Octet) /\ Len(Window) \in 0 .. Size
         /\ Depth > 0 => Sel.left = -1 \/ Len(Window) <= Sel.left
<1>1. /\ pos \in Nat /\ Size \in Nat /\ pos + Size = Len(input) /\ input \in Seq(Octet)
      /\ Depth \in Nat /\ Depth = Len(stack) /\ stack \in Seq(StackFrame)
  BY SizeType, Expectant
<1>2. Depth > 0 => Sel.left \in Int /\ Sel.left >= -1
  <2>1. Depth > 0 => Depth \in 1 .. Len(stack)
    BY <1>1
  <2> QED BY <1>1, <2>1, FrameType DEF Sel
<1> HIDE DEF Size, Depth, Sel
<1>3. Left \in Nat /\ Left <= Size /\ (Depth > 0 => Sel.left = -1 \/ Left <= Sel.left)
  BY <1>1, <1>2 DEF Left
<1>4. Window \in Seq(Octet) /\ Len(Window) = Left
  <2>1. pos + Left <= Len(input)
    BY <1>1, <1>3
  <2> QED BY <1>1, <1>3, <2>1, PartProperties DEF Window
<1> QED BY <1>3, <1>4

\* A tag and a length that have been read lie in the window.
LEMMA HeaderOK ==
  ASSUME IInv, Headed
  PROVE  /\ Header \in 2 .. Len(Window) /\ Tag.len > 0 /\ Length.len > 0
         /\ Length.value \in Nat \cup {-1} /\ (Length.value = -1 => Form_)
<1>1. Window \in Seq(Octet) /\ Len(Window) \in Nat
  BY WindowOK, SizeType DEF Headed, Expecting
<1>2. Tag.len \in -1 .. Len(Window)
  BY <1>1, FetchTagBounds DEF Tag
<1>3. Tag.len > 0
  BY <1>2 DEF Headed, TagAndLength
<1>4. Length.len > 0
  BY <1>2, <1>3 DEF Headed, TagAndLength
<1>5. From(Window, Tag.len + 1) \in Seq(Octet) /\ Len(From(Window, Tag.len + 1)) = Len(Window) - Tag.len
  <2>1. Tag.len + 1 \in 1 .. Len(Window) + 1
    BY <1>1, <1>2, <1>3
  <2> QED BY <1>1, <1>2, <2>1, FromProperties
<1>6. Form_ \in BOOLEAN
  BY DEF Form_, Constructed
<1>7. /\ Length.len \in -1 .. Len(Window) - Tag.len
      /\ Length.value \in Nat \cup {-1} /\ (Length.value = -1 => Form_)
  BY <1>4, <1>5, <1>6, FetchLengthBounds DEF Length
<1> HIDE DEF Tag, Length, Window
<1> QED BY <1>1, <1>2, <1>3, <1>4, <1>7 DEF Header

\* The frames of a stack fit into one another.
Nested(s) ==
  \A d \in 2 .. Len(s) :
    s[d - 1].left # -1 =>
      /\ s[d].left >= 0
      /\ s[d].got + s[d].left <= s[d - 1].left

\* A new last frame that fits into the one below it keeps them so.
LEMMA NestedBelow ==
  ASSUME NEW s \in Seq(StackFrame), Nested(s), NEW n \in 1 .. Len(s) + 1, NEW e, NEW t,
         Below(t, s, n, e),
         n > 1 => (s[n - 1].left # -1 =>
                     /\ e.left >= 0
                     /\ e.got + e.left <= s[n - 1].left)
  PROVE  Nested(t)
<1>1. /\ Len(t) = n /\ t[n] = e /\ n \in Nat /\ n - 1 <= Len(s) /\ Len(s) \in Nat
      /\ \A d \in 1 .. n - 1 : t[d] = s[d]
  BY DEF Below
<1> SUFFICES ASSUME NEW d \in 2 .. n, t[d - 1].left # -1
             PROVE  t[d].left >= 0 /\ t[d].got + t[d].left <= t[d - 1].left
  BY <1>1 DEF Nested
<1>2. d - 1 \in 1 .. n - 1 /\ t[d - 1] = s[d - 1]
  BY <1>1
<1>3. CASE d = n
  BY <1>1, <1>2, <1>3
<1>4. CASE d # n
  <2>1. d \in 2 .. Len(s) /\ t[d] = s[d]
    BY <1>1, <1>4
  <2> QED BY <1>2, <2>1 DEF Nested
<1> QED BY <1>3, <1>4

\* A step that goes on to look for a piece, with another last frame.
LEMMA ExpectAgain ==
  ASSUME IInv, input' = input, pos' \in 0 .. Len(input), stack' \in Seq(StackFrame),
         ctx' \in Context, ctx'.phase = 1, pc' = "expect", verdict' = "more",
         GotSum(stack') = pos', Nested(stack')
  PROVE  IInv'
<1>1. Typed'
  BY DEF IInv, Typed, Stages, Stage
<1>2. Staged'
  BY DEF Staged, Stage
<1>3. Summed' /\ FramesNest'
  BY DEF Summed, FramesNest, Nested, Depth
<1> QED BY <1>1, <1>2, <1>3 DEF IInv

\* The slots of a stack after its last frame is another.
LEMMA ReplacedFrame ==
  ASSUME NEW s \in Seq(StackFrame), Len(s) > 0, NEW e \in StackFrame
  PROVE  Below([s EXCEPT ![Len(s)] = e], s, Len(s), e)
BY DEF Below

\* The slots of a stack after a frame is put on its first ones.
LEMMA PushedFrame ==
  ASSUME NEW s \in Seq(StackFrame), NEW n \in 1 .. Len(s) + 1, NEW e \in StackFrame
  PROVE  Below(Append(SubSeq(s, 1, n - 1), e), s, n, e)
<1> DEFINE u == SubSeq(s, 1, n - 1)
<1>1. u \in Seq(StackFrame) /\ Len(u) = n - 1 /\ \A d \in 1 .. n - 1 : u[d] = s[d]
  <2>1. Len(s) \in Nat /\ \A d \in 1 .. n - 1 : s[d] \in StackFrame
    OBVIOUS
  <2> QED BY <2>1, SubSeqProperties
<1> HIDE DEF u
<1> QED BY <1>1 DEF Below, u

\* The last frame, and the one around it.
LEMMA LastFrames ==
  ASSUME IInv, Depth > 0
  PROVE  /\ stack \in Seq(StackFrame) /\ Depth = Len(stack) /\ Depth \in Nat
         /\ Sel = stack[Depth] /\ Sel \in StackFrame
         /\ Sel.left \in Int /\ Sel.left >= -1 /\ Sel.got \in Nat
         /\ Depth > 1 =>
              /\ Outer = stack[Depth - 1] /\ Outer \in StackFrame
              /\ Outer.left \in Int /\ Outer.left >= -1 /\ Outer.got \in Nat
              /\ Outer.left # -1 => Sel.left >= 0 /\ Sel.got + Sel.left <= Outer.left
<1>1. stack \in Seq(StackFrame) /\ Depth = Len(stack) /\ Depth \in Nat
  BY DEF IInv, Typed, Depth
<1>2. Sel = stack[Depth] /\ Depth \in 1 .. Len(stack)
  BY <1>1 DEF Sel
<1>3. ASSUME Depth > 1
      PROVE  /\ Outer = stack[Depth - 1] /\ Outer \in StackFrame
             /\ Outer.left \in Int /\ Outer.left >= -1 /\ Outer.got \in Nat
             /\ Outer.left # -1 => Sel.left >= 0 /\ Sel.got + Sel.left <= Outer.left
  <2>1. Depth - 1 \in 1 .. Len(stack) /\ Depth \in 2 .. Depth /\ Outer = stack[Depth - 1]
    BY <1>1, <1>3 DEF Outer
  <2>2. Outer.left # -1 => Sel.left >= 0 /\ Sel.got + Sel.left <= Outer.left
    BY <1>2, <2>1 DEF IInv, FramesNest
  <2> QED BY <1>1, <2>1, <2>2, FrameType
<1> QED BY <1>1, <1>2, <1>3, FrameType

\* FramesNest, said of the stack as a sequence.
LEMMA StackNested ==
  ASSUME IInv
  PROVE  Nested(stack)
BY DEF IInv, FramesNest, Nested, Depth

\* IInv over the return from a constructed piece to the one around it.
LEMMA PopKeeps ==
  ASSUME IInv, Pop
  PROVE  IInv'
<1>1. pc = "expect" /\ Depth > 1 /\ Depth > 0
  BY DEF Pop, Settled
<1>2. CASE Outer.left # -1 /\ Outer.left < Sel.got
  <2>1. UNCHANGED <<input, pos, ctx, stack>> /\ pc' = "idle" /\ verdict' = "fail"
    BY <1>2 DEF Pop, Return
  <2> QED BY <1>1, <2>1, ReturnKeeps
<1>3. CASE ~(Outer.left # -1 /\ Outer.left < Sel.got)
  <2> DEFINE e == OuterAfter
             n == Depth - 1
  <2>1. /\ stack \in Seq(StackFrame) /\ Depth = Len(stack) /\ Depth \in Nat
        /\ Sel = stack[Depth] /\ Outer = stack[Depth - 1] /\ Outer \in StackFrame
        /\ Sel.got \in Nat /\ Outer.left \in Int /\ Outer.left >= -1 /\ Outer.got \in Nat
    BY <1>1, LastFrames
  <2>2. /\ stack' = Append(SubSeq(stack, 1, Depth - 2), e)
        /\ UNCHANGED <<input, pos, ctx, pc, verdict>>
    BY <1>3 DEF Pop, Continue
  <2>3. /\ e.left = IF Outer.left = -1 THEN -1 ELSE Outer.left - Sel.got
        /\ e.got = Outer.got + Sel.got
    BY <2>1 DEF OuterAfter, StackFrame
  <2>4. e \in StackFrame
    <3>1. (IF Outer.left = -1 THEN -1 ELSE Outer.left - Sel.got) \in {k \in Int : k >= -1}
      BY <1>3, <2>1
    <3>2. Outer.got + Sel.got \in Nat
      BY <2>1
    <3> QED BY <2>1, <3>1, <3>2, Zenon DEF OuterAfter, StackFrame
  <2> HIDE DEF e
  <2>5. n \in 1 .. Len(stack) + 1 /\ n - 1 = Depth - 2 /\ Len(stack) > 1 /\ n = Len(stack) - 1
    BY <1>1, <2>1
  <2>6. Below(stack', stack, n, e)
    BY <2>1, <2>2, <2>4, <2>5, PushedFrame
  <2>7. GotSum(stack') = GotSum(stack) - Sel.got - Outer.got + e.got
    BY <2>1, <2>4, <2>5, <2>6, PoppedSum
  <2>8. GotSum(stack') = pos' /\ pos' = pos
    BY <1>1, <2>1, <2>2, <2>3, <2>7, Expectant, SizeType, SMTT(20)
  <2>9. ASSUME n > 1, stack[n - 1].left # -1
        PROVE  e.left >= 0 /\ e.got + e.left <= stack[n - 1].left
    <3>1. n \in 2 .. Len(stack) /\ stack[n] = Outer
      BY <2>1, <2>5, <2>9
    <3>2. Outer.left >= 0 /\ Outer.got + Outer.left <= stack[n - 1].left
      BY <2>9, <3>1, StackNested DEF Nested
    <3>3. stack[n - 1].left \in Int
      BY <2>1, <2>5, <2>9, FrameType
    <3> QED BY <1>3, <2>1, <2>3, <3>2, <3>3
  <2>10. Nested(stack')
    BY <2>1, <2>5, <2>6, <2>9, NestedBelow, StackNested
  <2>11. pos' \in 0 .. Len(input) /\ stack' \in Seq(StackFrame)
    BY <2>2, <2>6 DEF Below, IInv, Typed
  <2> QED BY <1>1, <2>2, <2>8, <2>10, <2>11, ExpectAgain, Expectant
<1> QED BY <1>2, <1>3

\* IInv over the end of the outermost piece, which completes the string.
LEMMA PhaseOutKeeps ==
  ASSUME IInv, PhaseOut
  PROVE  IInv'
<1>1. /\ stack' = <<>> /\ ctx' = [ctx EXCEPT !.phase = 4] /\ input' = input /\ pos' = pos
      /\ pc' = "idle" /\ verdict' \in {"ok", "fail"}
  BY DEF PhaseOut, Conclude, Return
<1>2. ctx \in Context /\ 4 \in 0 .. 4
  BY DEF IInv, Typed
<1>3. ctx' \in Context
  BY <1>1, <1>2, Zenon DEF Context
<1>4. ctx'.phase = 4
  BY <1>1, <1>2 DEF Context
<1>5. <<>> \in Seq(StackFrame) /\ Len(<<>>) = 0
  OBVIOUS
<1>6. Typed'
  BY <1>1, <1>3, <1>5 DEF IInv, Typed
<1>7. Staged' /\ Summed' /\ FramesNest'
  BY <1>1, <1>4, <1>5 DEF Staged, Summed, FramesNest, Depth
<1> QED BY <1>6, <1>7 DEF IInv

\* IInv over a header that is not all there, or is malformed.
LEMMA NoHeaderKeeps ==
  ASSUME IInv, NoHeader
  PROVE  IInv'
BY ReturnKeeps DEF NoHeader, Return, Expecting

\* IInv over a piece of another tag.
LEMMA RejectPieceKeeps ==
  ASSUME IInv, RejectPiece
  PROVE  IInv'
BY ReturnKeeps DEF RejectPiece, Return, Headed, Expecting

\* IInv over end-of-contents octets.
LEMMA EatEOCKeeps ==
  ASSUME IInv, EatEOC
  PROVE  IInv'
<1> DEFINE e == Closed
<1>1. pc = "expect" /\ Depth > 0
  BY DEF EatEOC, Headed, Expecting, EndOfContents
<1>2. /\ stack \in Seq(StackFrame) /\ Depth = Len(stack) /\ Depth \in Nat
      /\ Sel = stack[Depth] /\ Sel \in StackFrame
      /\ Sel.left \in Int /\ Sel.left >= -1 /\ Sel.got \in Nat
  BY <1>1, LastFrames
<1>3. /\ stack' = [stack EXCEPT ![Depth] = e] /\ pos' = pos + 2
      /\ UNCHANGED <<input, ctx, pc, verdict>>
  BY DEF EatEOC, Advance, Continue
<1>4. e.left = 0 /\ e.got = Sel.got + 2
  BY <1>2 DEF Closed, StackFrame
<1>5. e \in StackFrame
  <2>1. Sel.got + 2 \in Nat /\ 0 \in {k \in Int : k >= -1} /\ 0 \in {0, 1}
    BY <1>2
  <2> QED BY <1>2, <2>1, Zenon DEF Closed, StackFrame
<1>6. 2 <= Len(Window) /\ Len(Window) \in 0 .. Size /\ (Sel.left = -1 \/ Len(Window) <= Sel.left)
  BY <1>1, WindowOK, HeaderOK, SizeType DEF EatEOC
<1> HIDE DEF e
<1>7. Below(stack', stack, Depth, e)
  BY <1>1, <1>2, <1>3, <1>5, ReplacedFrame
<1>8. GotSum(stack') = GotSum(stack) - Sel.got + e.got
  BY <1>1, <1>2, <1>5, <1>7, ReplacedSum
<1>9. GotSum(stack') = pos' /\ pos' \in 0 .. Len(input) /\ stack' \in Seq(StackFrame)
  BY <1>1, <1>2, <1>3, <1>4, <1>6, <1>7, <1>8, Expectant, SizeType DEF Below
<1>10. ASSUME Depth > 1, stack[Depth - 1].left # -1
       PROVE  e.left >= 0 /\ e.got + e.left <= stack[Depth - 1].left
  <2>1. /\ Outer = stack[Depth - 1] /\ Outer.left \in Int
        /\ Sel.left >= 0 /\ Sel.got + Sel.left <= Outer.left
    BY <1>1, <1>10, LastFrames
  <2>2. Sel.left >= 2
    BY <1>2, <1>6, <2>1, SizeType
  <2> QED BY <1>2, <1>4, <2>1, <2>2
<1>11. Nested(stack')
  <2>1. Depth \in 1 .. Len(stack) + 1
    BY <1>1, <1>2
  <2> QED BY <1>2, <1>7, <1>10, <2>1, NestedBelow, StackNested
<1> QED BY <1>1, <1>3, <1>9, <1>11, ExpectAgain, Expectant

\* The frame of a piece fits into the innermost one.
LEMMA FrameFits ==
  ASSUME IInv, Headed, Acceptable
  PROVE  /\ Frame \in Int /\ Frame >= -1
         /\ ~Form_ => Frame >= 0
         /\ Depth > 0 => (Sel.left # -1 => Frame >= 0 /\ Header + Frame <= Sel.left)
<1>1. /\ Header \in Nat /\ Length.value \in Nat \cup {-1} /\ (Length.value = -1 => Form_)
  BY HeaderOK, WindowOK, SizeType DEF Headed, Expecting
<1>2. Depth \in Nat /\ (Depth > 0 => Sel.left \in Int /\ Sel.left >= -1)
  BY LastFrames DEF IInv, Typed, Depth
<1>3. Depth > 0 => Sel.left = -1 \/ Sel.left >= Header + Value
  BY <1>2 DEF Acceptable, Roomy
<1> HIDE DEF Header, Length, Sel, Depth, Form_
<1> QED BY <1>1, <1>2, <1>3 DEF Frame, Value

\* IInv over the header of a piece, which opens a level of its own.
LEMMA ExpectKeeps ==
  ASSUME IInv, Expect
  PROVE  IInv'
<1> DEFINE e == [left |-> Frame, got |-> Header, bits_chopped |-> FALSE,
                 want_nulls |-> IF Length.value = -1 THEN 1 ELSE 0]
           n == Depth + 1
<1>1. pc = "expect" /\ Headed /\ Acceptable
  BY DEF Expect, Headed, Expecting
<1>2. /\ ctx.phase = 1 /\ verdict = "more" /\ GotSum(stack) = pos
      /\ stack \in Seq(StackFrame) /\ Depth = Len(stack) /\ Depth \in Nat /\ ctx \in Context
  BY <1>1, Expectant
<1>3. /\ stack' = Append(stack, e) /\ pos' = pos + Header /\ input' = input /\ verdict' = verdict
      /\ IF Form_ THEN pc' = pc /\ ctx' = ctx
         ELSE pc' = "take" /\ ctx' = [ctx EXCEPT !.phase = 2]
  BY DEF Expect, Advance
<1>4. Header \in 2 .. Len(Window) /\ Len(Window) \in 0 .. Size
  BY <1>1, HeaderOK, WindowOK
<1>5. e \in StackFrame /\ e.left = Frame /\ e.got = Header
  BY <1>1, <1>4, FrameFits DEF StackFrame
<1>6. ~Form_ => e.left >= 0
  BY <1>1, <1>5, FrameFits
<1>7. n \in 1 .. Len(stack) + 1 /\ n - 1 = Depth
  BY <1>2
<1>8. ASSUME n > 1, stack[n - 1].left # -1
      PROVE  e.left >= 0 /\ e.got + e.left <= stack[n - 1].left
  <2>1. Depth > 0 /\ Sel = stack[n - 1]
    BY <1>2, <1>7, <1>8 DEF Sel
  <2> QED BY <1>1, <1>5, <1>8, <2>1, FrameFits
<1> HIDE DEF e
<1>9. Below(stack', stack, n, e)
  BY <1>2, <1>3, <1>5 DEF Below
<1>10. Nested(stack')
  BY <1>2, <1>7, <1>8, <1>9, NestedBelow, StackNested
<1>11. GotSum(stack') = pos' /\ pos' \in 0 .. Len(input) /\ stack' \in Seq(StackFrame)
  BY <1>2, <1>3, <1>4, <1>5, PushedSum, SizeType
<1>12. CASE Form_
  BY <1>1, <1>2, <1>3, <1>10, <1>11, <1>12, ExpectAgain
<1>13. CASE ~Form_
  <2>1. pc' = "take" /\ ctx' = [ctx EXCEPT !.phase = 2] /\ 2 \in 0 .. 4
    BY <1>3, <1>13
  <2>2. ctx' \in Context
    BY <1>2, <2>1, Zenon DEF Context
  <2>3. ctx'.phase = 2
    BY <1>2, <2>1 DEF Context
  <2>4. Len(stack') > 0 /\ stack'[Len(stack')].left >= 0
    BY <1>2, <1>6, <1>7, <1>9, <1>13 DEF Below
  <2>5. Typed'
    BY <1>2, <1>3, <1>11, <2>1, <2>2 DEF IInv, Typed, Stages, Stage
  <2>6. Staged'
    BY <1>2, <1>3, <2>1, <2>3, <2>4 DEF Staged, Stage, Depth, Sel
  <2>7. Summed' /\ FramesNest'
    BY <1>10, <1>11 DEF Summed, FramesNest, Nested, Depth
  <2> QED BY <2>5, <2>6, <2>7 DEF IInv
<1> QED BY <1>12, <1>13

-----------------------------------------------------------------------------
(***************************************************************************)
(* Phase 2.                                                                *)
(***************************************************************************)
LEMMA TakeKeeps ==
  ASSUME IInv, Take
  PROVE  IInv'
<1> DEFINE len == Arrived
           chopped == Sel.bits_chopped \/ (len > 0 /\ Subvariant = "BIT")
           e == [Sel EXCEPT !.left = Sel.left - len, !.got = Sel.got + len,
                            !.bits_chopped = chopped]
<1>1. /\ ctx.phase = 2 /\ verdict = "more" /\ ctx \in Context /\ Depth > 0 /\ Sel.left >= 0
      /\ GotSum(stack) = pos
  BY InStage DEF Take, IInv, Typed, Staged, Summed
<1>2. /\ stack \in Seq(StackFrame) /\ Depth = Len(stack) /\ Depth \in Nat
      /\ Sel = stack[Depth] /\ Sel \in StackFrame /\ Sel.left \in Int /\ Sel.got \in Nat
  BY <1>1, LastFrames
<1>3. len \in Nat /\ len <= Size /\ len <= Sel.left
  <2>1. len = IF Size <= Sel.left THEN Size ELSE Sel.left
    BY <1>2, SizeType, MinOfTwo DEF Arrived
  <2> QED BY <1>1, <1>2, <2>1, SizeType
<1>4. /\ stack' = [stack EXCEPT ![Depth].left = @ - len, ![Depth].got = @ + len,
                                ![Depth].bits_chopped = @ \/ (len > 0 /\ Subvariant = "BIT")]
      /\ input' = input /\ pos' = pos + len
      /\ IF len < Sel.left
           THEN pc' = "idle" /\ verdict' = "more" /\ ctx' = ctx
           ELSE pc' = "expect" /\ verdict' = verdict /\ ctx' = [ctx EXCEPT !.phase = 1]
  BY DEF Take, Advance, Return
<1>5. stack' = [stack EXCEPT ![Depth] = e]
  BY <1>1, <1>2, <1>4
<1>6. e.left = Sel.left - len /\ e.got = Sel.got + len
  BY <1>2 DEF StackFrame
<1>7. e \in StackFrame
  <2>1. Sel.left - len \in {k \in Int : k >= -1} /\ Sel.got + len \in Nat
    BY <1>1, <1>2, <1>3
  <2>2. chopped \in BOOLEAN
    BY <1>2 DEF StackFrame
  <2> HIDE DEF chopped, len
  <2> QED BY <1>2, <2>1, <2>2, Zenon DEF StackFrame
<1> HIDE DEF e, len
<1>8. Below(stack', stack, Depth, e)
  BY <1>1, <1>2, <1>5, <1>7, ReplacedFrame
<1>9. GotSum(stack') = GotSum(stack) - Sel.got + e.got
  BY <1>1, <1>2, <1>7, <1>8, ReplacedSum
<1>10. GotSum(stack') = pos' /\ pos' \in 0 .. Len(input) /\ stack' \in Seq(StackFrame)
  BY <1>1, <1>2, <1>3, <1>4, <1>6, <1>8, <1>9, SizeType DEF Below
<1>11. ASSUME Depth > 1, stack[Depth - 1].left # -1
       PROVE  e.left >= 0 /\ e.got + e.left <= stack[Depth - 1].left
  <2>1. /\ Outer = stack[Depth - 1] /\ Outer.left \in Int
        /\ Sel.got + Sel.left <= Outer.left
    BY <1>1, <1>11, LastFrames
  <2> QED BY <1>2, <1>3, <1>6, <2>1
<1>12. Nested(stack')
  <2>1. Depth \in 1 .. Len(stack) + 1
    BY <1>1, <1>2
  <2> QED BY <1>2, <1>8, <1>11, <2>1, NestedBelow, StackNested
<1>13. CASE len < Sel.left
  <2>1. pc' = "idle" /\ verdict' = "more" /\ ctx' = ctx
    BY <1>4, <1>13
  <2>2. Len(stack') > 0 /\ stack'[Len(stack')].left >= 0
    BY <1>1, <1>2, <1>3, <1>6, <1>8 DEF Below
  <2>3. Typed'
    BY <1>4, <1>10, <2>1 DEF IInv, Typed
  <2>4. Staged'
    BY <1>1, <2>1, <2>2 DEF Staged, Depth, Sel
  <2>5. Summed' /\ FramesNest'
    BY <1>10, <1>12 DEF Summed, FramesNest, Nested, Depth
  <2> QED BY <2>3, <2>4, <2>5 DEF IInv
<1>14. CASE ~(len < Sel.left)
  <2>1. pc' = "expect" /\ verdict' = "more" /\ ctx' = [ctx EXCEPT !.phase = 1] /\ 1 \in 0 .. 4
    BY <1>1, <1>4, <1>14
  <2>2. ctx' \in Context
    BY <1>1, <2>1, Zenon DEF Context
  <2>3. ctx'.phase = 1
    BY <1>1, <2>1 DEF Context
  <2> QED BY <1>4, <1>10, <1>12, <2>1, <2>2, <2>3, ExpectAgain
<1> QED BY <1>13, <1>14

-----------------------------------------------------------------------------
(***************************************************************************)
(* The theorems.                                                           *)
(***************************************************************************)
\* Every step keeps the invariant.
LEMMA Inductive ==
  ASSUME IInv, [Next]_vars
  PROVE  IInv'
<1>1. CASE UNCHANGED vars
  <2>1. Typed' /\ Staged' /\ Summed' /\ FramesNest'
    BY <1>1 DEF vars, IInv, Typed, Staged, Summed, FramesNest, Depth, Sel
  <2> QED BY <2>1 DEF IInv
<1>2. CASE \E octet \in Alphabet : Deliver(octet)
  BY <1>2, DeliverKeeps
<1>3. CASE Call
  BY <1>3, CallKeeps
<1>4. CASE CheckOwnTags
  BY <1>4, CheckOwnTagsKeeps
<1>5. CASE Pop
  BY <1>5, PopKeeps
<1>6. CASE PhaseOut
  BY <1>6, PhaseOutKeeps
<1>7. CASE NoHeader
  BY <1>7, NoHeaderKeeps
<1>8. CASE EatEOC
  BY <1>8, EatEOCKeeps
<1>9. CASE RejectPiece
  BY <1>9, RejectPieceKeeps
<1>10. CASE Expect
  BY <1>10, ExpectKeeps
<1>11. CASE Take
  BY <1>11, TakeKeeps
<1>12. CASE Starved \/ TakePart \/ TakeRest
  BY <1>12, StarvedKeeps, TakePartKeeps, TakeRestKeeps
<1> QED BY <1>1, <1>2, <1>3, <1>4, <1>5, <1>6, <1>7, <1>8, <1>9, <1>10, <1>11, <1>12
        DEF Next, Decode

\* It holds wherever a run of calls gets.
LEMMA Invariance == Spec => []IInv
<1> QED BY InitHolds, Inductive, PTL DEF Spec

\* The variables of OCTET_STRING_decode_ber keep the types of the code, for every
\* stream and however it is cut: no call reads beyond what has arrived, the stack is
\* there in the phases that use it and only in them, and what is left of a piece
\* being taken is a length.
THEOREM TypeOKHolds == Spec => []TypeOK
<1>1. IInv => TypeOK
  <2> SUFFICES ASSUME IInv PROVE TypeOK
    OBVIOUS
  <2>1. \A d \in 1 .. Depth : /\ stack[d].left >= -1 /\ stack[d].got \in Nat
                             /\ stack[d].want_nulls \in {0, 1}
    <3>1. \A d \in 1 .. Depth : stack[d] \in StackFrame
      BY DEF IInv, Typed, Depth
    <3> QED BY <3>1 DEF StackFrame
  <2>2. ctx.phase \in 0 .. 4 /\ ctx.left \in -1 .. LengthTooLarge
    BY DEF IInv, Typed, Context
  <2>3. ctx.phase \in {0, 3} => stack = <<>>
    BY DEF IInv, Staged
  <2>4. ctx.phase = 2 => Depth > 0 /\ Sel.left >= 0
    BY DEF IInv, Staged
  <2>5. pos \in 0 .. Len(input) /\ verdict \in {"more", "ok", "fail"}
    BY DEF IInv, Typed
  <2> QED BY <2>1, <2>2, <2>3, <2>4, <2>5 DEF TypeOK
<1> QED BY <1>1, Invariance, PTL

\* The frames of OCTET_STRING_decode_ber's stack fit into one another at any depth of
\* nesting, so the subtraction that pops one never turns a length into -1, which
\* would stand for an indefinite one.
THEOREM FramesNestHolds == Spec => []FramesNest
<1>1. IInv => FramesNest
  BY DEF IInv
<1> QED BY <1>1, Invariance, PTL

\* What the frames got is what has been consumed, so a container is charged for
\* every octet of its pieces, their headers and terminators included.
THEOREM GotIsConsumedHolds == Spec => []GotIsConsumed
<1>1. IInv => GotIsConsumed
  <2> SUFFICES ASSUME IInv, Depth > 0 PROVE GotSum(stack) = pos
    BY DEF GotIsConsumed
  <2>1. stack # <<>>
    BY DEF Depth
  <2>2. ctx.phase \in {1, 2}
    BY <2>1 DEF IInv, Staged
  <2> QED BY <2>2 DEF IInv, Summed
<1> QED BY <1>1, Invariance, PTL

\* No call of OCTET_STRING_decode_ber loops: each of its steps returns, consumes
\* octets, gives up a frame or goes on to an earlier stage.
THEOREM CallMakesProgressHolds == Spec => CallMakesProgress
<1> DEFINE Onwards == pc # "idle" => \/ pc' = "idle"
                                     \/ pos' > pos
                                     \/ pc = "tags" /\ pc' # "tags"
                                     \/ pc = "take" /\ pc' = "expect"
                                     \/ pc = "expect" /\ Len(stack') < Depth
<1>1. ASSUME IInv, [Next]_vars PROVE [Onwards]_vars
  <2> SUFFICES ASSUME Next, pc # "idle" PROVE Onwards
    BY <1>1
  <2>1. pos \in Nat /\ Size \in Nat
    BY <1>1, SizeType
  <2>2. CASE CheckOwnTags
    BY <2>2 DEF CheckOwnTags, Return
  <2>3. CASE Pop
    <3>1. pc = "expect" /\ Depth > 1
      BY <2>3 DEF Pop, Settled
    <3>2. stack \in Seq(StackFrame) /\ Depth = Len(stack) /\ Depth \in Nat
      BY <1>1, <3>1, Expectant
    <3>3. CASE Outer.left # -1 /\ Outer.left < Sel.got
      BY <2>3, <3>3 DEF Pop, Return
    <3>4. CASE ~(Outer.left # -1 /\ Outer.left < Sel.got)
      <4>1. stack' = Append(SubSeq(stack, 1, Depth - 2), OuterAfter)
        BY <2>3, <3>4 DEF Pop
      <4>2. Len(SubSeq(stack, 1, Depth - 2)) = Depth - 2 /\ SubSeq(stack, 1, Depth - 2) \in Seq(StackFrame)
        <5>1. \A d \in 1 .. Depth - 2 : stack[d] \in StackFrame
          BY <3>1, <3>2
        <5> QED BY <3>1, <3>2, <5>1, SubSeqProperties
      <4>3. Len(stack') = Depth - 2 + 1
        BY <4>1, <4>2
      <4> QED BY <3>1, <3>2, <4>3
    <3> QED BY <3>3, <3>4
  <2>4. CASE PhaseOut \/ NoHeader \/ RejectPiece \/ Starved \/ TakePart \/ TakeRest
    BY <2>4 DEF PhaseOut, NoHeader, RejectPiece, Starved, TakePart, TakeRest, Conclude, Return
  <2>5. CASE EatEOC
    BY <2>1, <2>5 DEF EatEOC, Advance
  <2>6. CASE Expect
    <3>1. Header >= 2 /\ Header \in Nat
      BY <1>1, <2>6, HeaderOK, WindowOK, SizeType DEF Expect, Headed, Expecting
    <3> QED BY <2>1, <2>6, <3>1 DEF Expect, Advance
  <2>7. CASE Take
    BY <2>7 DEF Take, Return
  <2>8. CASE Call \/ \E octet \in Alphabet : Deliver(octet)
    BY <2>8 DEF Call, Deliver
  <2> QED BY <2>2, <2>3, <2>4, <2>5, <2>6, <2>7, <2>8 DEF Next, Decode
<1>2. Spec => [][Onwards]_vars
  <2> HIDE DEF Onwards
  <2> QED BY <1>1, Invariance, PTL DEF Spec
<1> QED BY <1>2 DEF CallMakesProgress
=============================================================================
