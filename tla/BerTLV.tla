------------------------------- MODULE BerTLV -------------------------------
(***************************************************************************)
(* Reading one <tag, length, value> of BER out of a buffer that may end    *)
(* anywhere: ber_fetch_tag, ber_fetch_length, ber_skip_length and          *)
(* ber_check_tags of skeletons/.  A window w is the sequence of octets a   *)
(* caller passes as (ptr, size).  All four follow the convention of the    *)
(* code: a positive number of octets, 0 for "want more", -1 for "broken".  *)
(*                                                                         *)
(* Left out: ASN__STACK_OVERFLOW_CHECK (the depth of the C stack).         *)
(***************************************************************************)
EXTENDS Integers, SequencesExt

CONSTANT SizeBits   \* width of ssize_t, 64 in the builds asn1c targets

ASSUME SizeBitsAssumption == SizeBits \in Nat /\ SizeBits > 16

Octet == 0 .. 255

From(w, i) == SubSeq(w, i, Len(w))          \* what is left of w from index i

Constructed(w) == (w[1] \div 32) % 2 = 1    \* BER_TLV_CONSTRUCTED

(***************************************************************************)
(* ber_fetch_tag.  A tag is the pair of its number and class; the high     *)
(* form gathers 7 bits an octet and gives up once a continued number no    *)
(* longer leaves 9 spare bits of 32.                                       *)
(***************************************************************************)
TagNumber(octets) ==
  FoldLeft(LAMBDA val, oct : IF val >= 2^23 THEN val ELSE val * 128 + (oct % 128),
           0, octets)

\* The octets 2 .. k of w carry the number, k is the last of them.
HighTag(w, k) ==
  IF \E j \in 2 .. k - 1 : TagNumber(SubSeq(w, 2, j)) >= 2^23 THEN [len |-> -1]
  ELSE IF k > Len(w) THEN [len |-> 0]
  ELSE [len |-> k, tag |-> <<TagNumber(SubSeq(w, 2, k)), w[1] \div 64>>]

FetchTag(w) ==
  IF w = <<>> THEN [len |-> 0]
  ELSE IF w[1] % 32 # 31 THEN [len |-> 1, tag |-> <<w[1] % 32, w[1] \div 64>>]
  ELSE HighTag(w, Min({Len(w) + 1} \cup {k \in 2 .. Len(w) : w[k] < 128}))

(***************************************************************************)
(* ber_fetch_length.  value = -1 is the indefinite length.                 *)
(***************************************************************************)
LengthTooLarge == 2^(SizeBits - 2)          \* RSSIZE_MAX + 1

\* A slip LengthsExact catches: what is shifted out of a length is not missed.
LengthOfWrapped(octets) ==
  FoldLeft(LAMBDA len, oct : (len * 256 + oct) % 2^SizeBits, 0, octets)

\* -1 once one more octet would be shifted into the sign of a ber_tlv_len_t.
LengthOf(octets) ==
  LET len[i \in 0 .. Len(octets)] ==
        IF i = 0 THEN 0
        ELSE IF len[i - 1] = -1 \/ len[i - 1] >= 2^(SizeBits - 9) THEN -1
        ELSE len[i - 1] * 256 + octets[i]
  IN len[Len(octets)]

\* The long form: n octets of length are to come, those in have are there.
LongLength(n, have, len) ==
  IF len = -1 THEN [len |-> -1]
  ELSE IF Len(have) < n THEN [len |-> 0]
  ELSE IF len >= LengthTooLarge THEN [len |-> -1]
  ELSE [len |-> n + 1, value |-> len]

FetchLong(n, have) == LongLength(n, have, LengthOf(have))

FetchLength(constructed, w) ==
  IF w = <<>> THEN [len |-> 0]
  ELSE IF w[1] < 128 THEN [len |-> 1, value |-> w[1]]
  ELSE IF w[1] = 128 /\ constructed THEN [len |-> 1, value |-> -1]
  ELSE IF w[1] = 255 THEN [len |-> -1]
  ELSE FetchLong(w[1] % 128, SubSeq(w, 2, Min({Len(w), 1 + (w[1] % 128)})))

(***************************************************************************)
(* ber_skip_length: octets of the L and the V of a TLV whose L starts w.   *)
(* body[j] is the same for the contents of an indefinite length that start *)
(* at index j, its two closing zero octets included.                       *)
(***************************************************************************)
Plus(n, more) == IF more <= 0 THEN more ELSE n + more

\* l was read at index i of w.
ValueAfter(l, w, i, body) ==
  IF l.len <= 0 THEN l.len
  ELSE IF l.value < 0 THEN Plus(l.len, body[i + l.len])
  ELSE IF l.len + l.value > Len(w) - i + 1 THEN 0
  ELSE l.len + l.value

LengthAndValue(constructed, w, i, body) ==
  ValueAfter(FetchLength(constructed, From(w, i)), w, i, body)

\* A TLV of n octets (or none, n <= 0) was found at index j of w.
AfterItem(n, w, j, body) ==
  IF n <= 0 \/ (w[j] = 0 /\ w[j + 1] = 0) THEN n ELSE Plus(n, body[j + n])

ItemAt(t, w, j, body) ==
  IF t.len <= 0 THEN t.len
  ELSE Plus(t.len, LengthAndValue(Constructed(From(w, j)), w, j + t.len, body))

IndefiniteBody(w) ==
  LET body[j \in 1 .. Len(w) + 1] ==
        AfterItem(ItemAt(FetchTag(From(w, j)), w, j, body), w, j, body)
  IN body

SkipLength(constructed, w) == LengthAndValue(constructed, w, 1, IndefiniteBody(w))

(***************************************************************************)
(* ber_check_tags: the chain <TL<TL<TL...>>> of the tags of a type.        *)
(*   tags, mode - td->tags and tag_mode: 1 explicit, -1 implicit, 0 neither*)
(*   form       - last_tag_form: 0 primitive, 1 constructed, -1 either     *)
(*   start      - opt_ctx->step where there is a context, else 0           *)
(*   saves      - there is a context                                       *)
(* chain holds the locals of the loop.  Of all of them a context keeps the *)
(* step alone.                                                             *)
(***************************************************************************)
Stop(chain, n) == [chain EXCEPT !.code = IF n = 0 THEN "more" ELSE "fail"]

Mismatched(ty, chain, tagno, t, constr) ==
  \/ (ty.mode = 0 \/ chain.step # 0) /\ t.tag # ty.tags[tagno + 1]
  \/ IF tagno < Len(ty.tags) - 1 THEN constr = 0 ELSE ty.form \notin {-1, constr}

Onward(chain, header, value, constr) ==
  [chain EXCEPT !.used = @ + header, !.size = @ - header, !.step = @ + 1,
                !.constr = constr, !.length = value]

Limited(chain, limit) ==
  [chain EXCEPT !.limit = limit, !.size = IF @ > limit THEN limit ELSE @]

\* T and L are there, header octets of them; value is the length they give.
CheckLength(chain, header, value, constr) ==
  IF value = -1
    THEN IF chain.limit # -1 THEN Stop(chain, -1)    \* indefinite within definite
         ELSE [Onward(chain, header, value, constr) EXCEPT !.nulls = @ + 1]
  ELSE IF chain.nulls > 0 \/ chain.limit \notin {-1, value + header} THEN Stop(chain, -1)
  ELSE Limited(Onward(chain, header, value, constr), value)

AfterT(chain, t, constr, l) ==
  IF l.len <= 0 THEN Stop(chain, l.len)
  ELSE CheckLength(chain, t.len + l.len, l.value, constr)

CheckT(ty, chain, tagno, rest, t, constr) ==
  IF t.len <= 0 THEN Stop(chain, t.len)
  ELSE IF Mismatched(ty, chain, tagno, t, constr) THEN Stop(chain, -1)
  ELSE AfterT(chain, t, constr, FetchLength(constr = 1, From(rest, t.len + 1)))

Form(w) == IF w # <<>> /\ Constructed(w) THEN 1 ELSE 0

CheckTag(ty, chain, tagno, rest) ==
  IF chain.code # "ok" THEN chain
  ELSE CheckT(ty, chain, tagno, rest, FetchTag(rest), Form(rest))

\* The untagged ANY type, whose outermost tag is not known in advance.
AnyTag(chain, w, t) ==
  IF t.len <= 0 THEN Stop(chain, t.len)
  ELSE [AfterT(chain, t, Form(w), FetchLength(Form(w) = 1, From(w, t.len + 1)))
          EXCEPT !.nulls = 0, !.step = chain.step]

Chain(ty, first, fresh, w) ==
  LET after[i \in 0 .. Len(ty.tags) - first] ==          \* i tags checked
        IF i = 0 THEN fresh
        ELSE CheckTag(ty, after[i - 1], first + i - 1,
                      SubSeq(w, after[i - 1].used + 1, after[i - 1].used + after[i - 1].size))
  IN after[Len(ty.tags) - first]

Checked(chain, saves) ==
  [code   |-> chain.code,
   used   |-> IF chain.code = "ok" \/ saves THEN chain.used ELSE 0,
   step   |-> chain.step,
   constr |-> chain.constr,
   length |-> IF chain.nulls > 0 THEN -chain.nulls ELSE chain.length]

CheckTags(tags, mode, form, start, saves, w) ==
  LET ty    == [tags |-> tags, mode |-> mode, form |-> form]
      first == start + (IF mode = 1 THEN -1 ELSE 0)
      fresh == [code |-> "ok", used |-> 0, size |-> Len(w), limit |-> -1, nulls |-> 0,
                step |-> start, constr |-> -1, length |-> -1]
  IN Checked(IF mode = 0 /\ first = Len(tags) THEN AnyTag(fresh, w, FetchTag(w))
             ELSE Chain(ty, first, fresh, w), saves)

-----------------------------------------------------------------------------
(***************************************************************************)
(* What a length is, for comparison with what ber_fetch_length makes of it.*)
(***************************************************************************)
Number(octets) ==
  LET num[i \in 0 .. Len(octets)] == IF i = 0 THEN 0 ELSE num[i - 1] * 256 + octets[i]
  IN num[Len(octets)]

\* Prolonged by k octets, the length may have a value that a ssize_t can hold.
Sane(octets, k) ==
  Number(octets) = 0 \/ Number(octets) <= (LengthTooLarge - 1) \div 2^(8 * k)

\* Of a length in n octets, those in have are there.  It is read as it is or is an
\* error: none is wrapped around, and none is an error as long as an octet to come
\* may still make it right.
LengthIsExact(n, have) ==
  LET read == FetchLength(TRUE, <<128 + n>> \o have)
      all  == Len(have) = n
  IN IF all /\ Sane(have, 0) THEN read = [len |-> n + 1, value |-> Number(have)]
     ELSE IF Sane(have, n - Len(have)) THEN read.len = 0
     ELSE read.len = -1 \/ (~all /\ read.len = 0)
=============================================================================
