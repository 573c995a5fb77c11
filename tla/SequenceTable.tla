---------------------------- MODULE SequenceTable ----------------------------
(***************************************************************************)
(* What asn1c emits for a SEQUENCE type and its decoder consults: the      *)
(* element table (asn_TYPE_member_t), the specifics, and the decoders of   *)
(* the member types.                                                       *)
(*                                                                         *)
(* An element is a record                                                  *)
(*   tag      - its outermost tag                                          *)
(*   optional - how many elements that may be missing (OPTIONAL, DEFAULT,  *)
(*              or an extension addition) follow one another from it on      *)
(*   mode     - tag_mode: 1 explicit, -1 implicit, 0 neither               *)
(*   tags     - the tags of its type                                       *)
(*   kind     - "prim": decoded by ber_decode_primitive;                   *)
(*              "string": by OCTET_STRING_decode_ber, which keeps a context*)
(* Elements are numbered from 0, as in the code.                           *)
(***************************************************************************)
EXTENDS BerTLV

CONSTANTS Tags,        \* td->tags: the chain of tags of the SEQUENCE itself
          Elements,    \* td->elements
          FirstExt,    \* specs->first_extension, -1: not extensible
          Alphabet,    \* octets an input is made of
          MaxInput     \* bound: octets delivered

N == Len(Elements)                           \* td->elements_count
El(e) == Elements[e + 1]

Absent == [present |-> FALSE]
Got(octets) == [present |-> TRUE, octets |-> octets]

InExtensionGroup(e) == FirstExt >= 0 /\ FirstExt <= e

Optional(e) == El(e).optional
Mandatory(e) == Optional(e) = 0

\* What the compiler guarantees of a table: optional counts the elements that may
\* be missing; the elements of the extension group may; and those one tag could
\* be tried against have distinct tags.
ASSUME TableAssumption ==
  /\ N \in Nat /\ N > 0
  /\ FirstExt \in -1 .. N
  /\ \A e \in 0 .. N - 1 :
        /\ Optional(e) \in 0 .. N - e
        /\ \A k \in e .. e + Optional(e) - 1 : ~Mandatory(k)
        /\ e + Optional(e) < N => Mandatory(e + Optional(e))
        /\ InExtensionGroup(e) => ~Mandatory(e)

ASSUME DistinctTags ==
  \A e \in 0 .. N - 1 : \A n, m \in e .. e + Optional(e) :
     n < m /\ m < N => El(n).tag # El(m).tag

\* Every type has a tag: ANY, which has none, is not among the elements; and no
\* string is under an explicit tag.
ASSUME TypeAssumption ==
  /\ Tags \in Seq(Nat \X Nat)
  /\ \A e \in 0 .. N - 1 :
       /\ El(e).kind \in {"prim", "string"}
       /\ El(e).mode \in (IF El(e).kind = "prim" THEN {-1, 0, 1} ELSE {-1, 0})
       /\ El(e).tags \in Seq(Nat \X Nat) /\ El(e).tags # <<>>

\* The constructed form of a string is the subject of another module: no octet is
\* the first one of its tag.
ASSUME StringAssumption ==
  /\ Alphabet \subseteq Octet
  /\ \A e \in 0 .. N - 1 : El(e).kind = "string" =>
       \A o \in Alphabet : Constructed(<<o>>) =>
          o \div 64 # El(e).tag[2] \/ o % 32 \notin {31, El(e).tag[1]}

\* A slip MandatoryPresent catches: the extension group begins one element too soon.
EndReachableEarly(e) == e + Optional(e) = N \/ InExtensionGroup(e + 1)

\* Every element from e on may be missing.
EndReachable(e) == e + Optional(e) = N \/ InExtensionGroup(e)

\* The element a tag stands for when e is the next one expected, if any.
Candidates(e, tag) == {n \in e .. e + Optional(e) : n < N /\ El(n).tag = tag}

(***************************************************************************)
(* The member decoders.  ber_decode_primitive is context-free: until the   *)
(* whole TLV is there it consumes nothing.                                 *)
(***************************************************************************)
PrimitiveTake(r, w) ==
  IF r.code # "ok" THEN [code |-> r.code, used |-> 0]
  ELSE IF r.length > Len(w) - r.used THEN [code |-> "more", used |-> 0]
  ELSE [code |-> "ok", used |-> r.used + r.length,
        octets |-> SubSeq(w, r.used + 1, r.used + r.length)]

PrimitiveDecode(el, w) == PrimitiveTake(CheckTags(el.tags, el.mode, 0, 0, FALSE, w), w)

(***************************************************************************)
(* OCTET_STRING_decode_ber of a string in primitive form.  It takes what   *)
(* there is, and c = [phase, step, left] remembers where it stopped.       *)
(***************************************************************************)
StringAppend(c, used, octets, take, w) ==
  [code   |-> IF take < c.left THEN "more" ELSE "ok",
   used   |-> used + take,
   octets |-> octets \o SubSeq(w, used + 1, used + take),
   c      |-> [c EXCEPT !.left = @ - take]]

\* A slip TypeOK catches: taking all there is, beyond the end of the string.
StringTakeAll(c, used, octets, w) == StringAppend(c, used, octets, Len(w) - used, w)

StringTake(c, used, octets, w) ==
  StringAppend(c, used, octets, Min({Len(w) - used, c.left}), w)

StringStart(r, c, octets, w) ==
  IF r.code = "ok"
    THEN StringTake([phase |-> 3, step |-> r.step, left |-> r.length], r.used, octets, w)
  ELSE [code |-> r.code, used |-> r.used, octets |-> octets,
        c |-> [c EXCEPT !.step = r.step]]

\* A slip ChunkIndependence catches: not resuming at the saved phase.
StringDecodeAnew(el, c, octets, w) ==
  StringStart(CheckTags(el.tags, el.mode, -1, c.step, TRUE, w), c, octets, w)

StringDecode(el, c, octets, w) ==
  IF c.phase = 3 THEN StringTake(c, 0, octets, w)
  ELSE StringStart(CheckTags(el.tags, el.mode, -1, c.step, TRUE, w), c, octets, w)
=============================================================================
