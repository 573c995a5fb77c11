---------------------------- MODULE MCBerSequence ----------------------------
(***************************************************************************)
(* BerSequence against one uninterrupted reading, on the table asn1c emits *)
(* for                                                                     *)
(*   [0] EXPLICIT SEQUENCE                                                 *)
(*     { a OCTET STRING OPTIONAL, b INTEGER, ..., c OBJECT IDENTIFIER }    *)
(* and for the same type without extensions.                               *)
(***************************************************************************)
EXTENDS BerSequence, SequenceOneShot

Universal(n) == <<n, 0>>
Context(n)   == <<n, 2>>

Element(tag, optional, kind) ==
  [tag |-> tag, optional |-> optional, kind |-> kind, mode |-> 0, tags |-> <<tag>>]

MCElements == << Element(Universal(4), 1, "string"),
                 Element(Universal(2), 0, "prim"),
                 Element(Universal(6), 1, "prim") >>

\* Without the extension marker: { a OCTET STRING OPTIONAL, b INTEGER }.
MCElementsClosed == SubSeq(MCElements, 1, 2)

MCNotExtensible == -1

MCTags == <<Context(0), Universal(16)>>

\* Zero; the identifiers of INTEGER, OCTET STRING, OBJECT IDENTIFIER, of [0] and of
\* SEQUENCE, which is unknown as a member, all of them lengths too; the indefinite length.
MCAlphabet == {0, 2, 4, 6, 48, 128, 160}

Answer == IF verdict = "ok" THEN [code |-> verdict, used |-> pos, value |-> value]
          ELSE [code |-> verdict]

OneShot == INSTANCE StreamDecoder WITH answer <- Answer, calling <- pc # "idle"

\* However the stream is cut, every call that returns answers what one reading of all
\* that has arrived would, whether that is "ok", "fail" or "more":
\* SEQUENCE_decode_ber restarts from its context without losing anything, accepts
\* what is complete, and neither gives up nor waits too long.
\* (Of streams cut between its two tags that is not true: NoRestartBetweenTags.)
ChunkIndependence == OneShot!Spec

\* doc/docsrc/asn1c-usage.tex:1057: "The ber_decode() function is restartable
\* (stream-oriented)".  An encoding accepted after a restart is one that a single
\* reading accepts, with the same end.
RestartAcceptsTheSame == verdict = "ok" => Reading(input) = Answer

\* Octets of a length on either side of the bounds that ber_fetch_length draws.
LengthOctets == {0, 1, 63, 64, 127, 128, 255}

\* ber_fetch_length gives the exact length or an error, at the width of ssize_t too.
\* (Shown for all lengths of up to four octets, in the first state.)
LengthsExact ==
  input = <<>> =>
    \A n \in 1 .. 4 : \A m \in 0 .. n :
      \A have \in {s \in [1 .. m -> LengthOctets] : m = 4 => s[1] < 128} :
        LengthIsExact(n, have)

\* Bound: an input is not prolonged by more than one octet once one reading of
\* it is decided.  (What follows an encoding in a stream is not its concern, and
\* a decoder sees at most that there is something.)
UndecidedButOne ==
  Len(input) >= 2 => Reading(SubSeq(input, 1, Len(input) - 2)).code = "more"

\* Bound: the outermost length spans an inner header and four octets, or is indefinite.
\* What other lengths are worth, LengthsExact asks.
FewLengths == Len(input) >= 2 => input[2] \in {6, 128}

\* Bound: no call ends between the two tags, where a restart loses the outer length
\* (RestartAcceptsTheSame, which is violated).
NoRestartBetweenTags == pc = "idle" /\ verdict = "more" /\ ctx.phase = 0 => ctx.step = 0
=============================================================================
