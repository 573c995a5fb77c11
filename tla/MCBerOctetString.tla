--------------------------- MODULE MCBerOctetString ---------------------------
(***************************************************************************)
(* BerOctetString for BIT STRING, against a reading of the complete input  *)
(* by the grammar of a string in pieces, which has no stack, no phase and  *)
(* no context.                                                             *)
(***************************************************************************)
EXTENDS BerOctetString

MCTags == <<<<3, 0>>>>

\* Zero; the identifiers of BIT STRING in primitive and in constructed form, which
\* are lengths too; lengths of a piece, of one in a piece, of one in that; the
\* indefinite length.
MCAlphabet == {0, 2, 3, 4, 6, 35, 128}

Undecided == [code |-> "more"]
Broken == [code |-> "fail"]

\* A definite frame ends where a piece would have to begin or to close.  By the grammar
\* that is an error; the decoder waits, and what it waits for cannot come.
Short == [code |-> "short"]

Strings == [octets : Seq(Octet), unused : Octet]

\* The pieces from octet p on of a container that closes with a terminator or at
\* the end of its frame; s has been read.  frame = -1: no definite length around it.
Pieces(w) ==
  LET read[p \in Nat, frame \in Int, open \in BOOLEAN, s \in Strings] ==
        LET arrived == IF frame = -1 \/ frame > Len(w) THEN Len(w) ELSE frame
            Exhausted == IF arrived = frame THEN Short ELSE Undecided
            rest  == SubSeq(w, p, arrived)
            t     == FetchTag(rest)
            l     == FetchLength(Constructed(rest), From(rest, t.len + 1))
            body  == p + t.len + l.len
            end   == body + l.value - 1
            inner == read[body, IF l.value = -1 THEN frame ELSE end, l.value = -1, s]
        IN IF ~open /\ p = frame + 1 THEN [code |-> "ok", at |-> p, s |-> s]
           ELSE IF t.len = -1 \/ (t.len > 0 /\ l.len = -1) THEN Broken
           ELSE IF t.len = 0 \/ l.len = 0 THEN Exhausted
           ELSE IF open /\ rest[1] = 0 /\ rest[2] = 0
             THEN [code |-> "ok", at |-> p + 2, s |-> s]
           ELSE IF t.tag # AllTags[1] \/ (frame # -1 /\ end > frame) THEN Broken
           ELSE IF Constructed(rest)
             THEN IF inner.code = "ok" THEN read[inner.at, frame, open, inner.s] ELSE inner
           ELSE IF end > Len(w) THEN Undecided
           ELSE read[end + 1, frame, open, Chop(s, SubSeq(w, body, end), TRUE)]
  IN read

Whole(s, at) ==
  IF IF s.octets = <<>> THEN s.unused # 0 ELSE s.unused > 7 THEN Broken
  ELSE [code |-> "ok", used |-> at - 1, value |-> IF s.octets = <<>> THEN s ELSE Cleared(s)]

Grammar(w) ==
  LET header == CheckTags(Tags, 0, -1, 0, TRUE, w)
      empty  == [octets |-> <<>>, unused |-> 0]
      end    == header.used + header.length
      pieces == Pieces(w)[header.used + 1, IF header.length < 0 THEN -1 ELSE end,
                          header.length < 0, empty]
  IN IF header.code # "ok" THEN [code |-> header.code]
     ELSE IF header.constr = 1
       THEN IF pieces.code = "ok" THEN Whole(pieces.s, pieces.at) ELSE [code |-> pieces.code]
     ELSE IF end > Len(w) THEN Undecided
     ELSE Whole(Chop(empty, SubSeq(w, header.used + 1, end), TRUE), end + 1)

Reading(w) == IF Grammar(w) = Short THEN Undecided ELSE Grammar(w)

Answer == IF verdict = "ok" THEN [code |-> verdict, used |-> pos, value |-> st]
          ELSE [code |-> verdict]

OneShot == INSTANCE StreamDecoder WITH answer <- Answer, calling <- pc # "idle"

\* However the stream is cut, in the header of a piece, in its contents or within a
\* terminator, and however deep the pieces are nested, every call that returns gives
\* the answer of one reading of all that has arrived, and asks for more only where
\* that is undecided or a frame has come out short: nothing of the stack, the lengths
\* left at its levels and the string appended to is lost between calls.
ChunkIndependence == OneShot!Spec

\* Bounds: once one reading of an input is decided, a zero may follow and nothing
\* else; six is the length of the outermost frame only, and 35 not a length there.
Until(n) == Grammar(SubSeq(input, 1, n)).code

EndsWhenDecided ==
  /\ Len(input) >= 2 => Until(Len(input) - 2) = "more"
  /\ Len(input) >= 1 => Last(input) = 0 \/ Until(Len(input) - 1) = "more"

FewLengths ==
  \A k \in 1 .. Len(input) : /\ k = 2 => input[k] # 35
                             /\ input[k] = 6 => k = 2 /\ input[1] = 35
=============================================================================
