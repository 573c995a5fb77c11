------------------------------ MODULE MCBerSet ------------------------------
(***************************************************************************)
(* BerSet against one uninterrupted reading, on the table asn1c emits for  *)
(*   SET { a OCTET STRING OPTIONAL, b INTEGER, ..., c BOOLEAN }            *)
(* and on that without the extension mark, where c is optional.            *)
(***************************************************************************)
EXTENDS BerSet

Universal(n) == <<n, 0>>

Element(tag, optional, kind) ==
  [tag |-> tag, optional |-> optional, kind |-> kind, mode |-> 0, tags |-> <<tag>>]

MCElements == << Element(Universal(4), 1, "string"),
                 Element(Universal(2), 0, "prim"),
                 Element(Universal(1), 1, "prim") >>

MCTags == <<Universal(17)>>

\* Zero; the identifiers of BOOLEAN, INTEGER, OCTET STRING and of SET, which is
\* unknown as a member, all of them lengths too; the indefinite length.
MCAlphabet == {0, 1, 2, 4, 49, 128}

Broken    == [code |-> "fail"]
Undecided == [code |-> "more"]
TwoZeros(w) == Len(w) >= 2 /\ w[1] = 0 /\ w[2] = 0

Structures ==
  [0 .. N - 1 -> {Absent} \cup [present : BOOLEAN, octets : Seq(Octet)]]

Whole(at, v) ==
  IF \E e \in 0 .. N - 1 : Mandatory(e) /\ ~v[e].present THEN Broken
  ELSE [code |-> "ok", used |-> at, value |-> v]

\* From octet p on, v being what was read before; there is one frame, and one
\* terminator at most.
ReadContents(type, s, header) ==
  LET definite  == header.length >= 0
      end       == header.used + header.length
      whole     == definite /\ end <= Len(s)
      arrived   == IF whole THEN end ELSE Len(s)
      Exhausted == IF whole THEN Broken ELSE Undecided
      read[p \in Nat, v \in Structures] ==
        LET w     == SubSeq(s, p + 1, arrived)
            t     == FetchTag(w)
            found == Tags2El(t.tag)
            e     == Min(found)
            m     == PrimitiveDecode(El(e), w)
            skip  == SkipLength(Constructed(w), From(w, t.len + 1))
        IN IF whole /\ w = <<>> THEN Whole(p, v)
           ELSE IF ~definite /\ TwoZeros(w) THEN Whole(p + 2, v)
           ELSE IF t.len = 0 \/ (~definite /\ w = <<0>>) THEN Exhausted
           ELSE IF t.len = -1 THEN Broken
           ELSE IF found # {}
             THEN IF v[e].present \/ m.code = "fail" THEN Broken
                  ELSE IF m.code = "more" THEN Exhausted
                  ELSE read[p + m.used, [v EXCEPT ![e] = Got(m.octets)]]
           ELSE IF ~type \/ skip = -1 THEN Broken
           ELSE IF skip = 0 THEN Exhausted
           ELSE read[p + t.len + skip, v]
  IN read[header.used, [e \in 0 .. N - 1 |-> Absent]]

ReadingAs(type, s) ==
  LET header == CheckTags(Tags, 0, 1, 0, TRUE, s)
  IN IF header.code # "ok" THEN [code |-> header.code] ELSE ReadContents(type, s, header)

Answer == IF verdict = "ok" THEN [code |-> verdict, used |-> pos, value |-> value]
          ELSE [code |-> verdict]

\* A decoder of a type that is not the one at hand is never called.
AnswerOf(type) == IF extensible = type THEN Answer ELSE Undecided
CallOf(type)   == extensible = type /\ pc # "idle"

ExtensibleReading(s) == ReadingAs(TRUE, s)
ClosedReading(s)     == ReadingAs(FALSE, s)

ExtensibleOneShot == INSTANCE StreamDecoder WITH
                       answer <- AnswerOf(TRUE), calling <- CallOf(TRUE),
                       Reading <- ExtensibleReading
ClosedOneShot     == INSTANCE StreamDecoder WITH
                       answer <- AnswerOf(FALSE), calling <- CallOf(FALSE),
                       Reading <- ClosedReading

\* However the stream is cut, and in whatever order the members come, every call that
\* returns answers what one reading of all that has arrived would, whether that is
\* "ok", "fail" or "more": a complete SET is accepted, a member that waits for the
\* rest of it is not taken for a duplicate when it goes on, one that comes twice is,
\* and running out of octets within the frame is told from having to wait.
ChunkIndependence == ExtensibleOneShot!Spec /\ ClosedOneShot!Spec

\* Bound: an input is not prolonged by more than one octet once one reading of it
\* is decided.
UndecidedButOne ==
  Len(input) >= 2 => ReadingAs(extensible, SubSeq(input, 1, Len(input) - 2)).code = "more"
=============================================================================
