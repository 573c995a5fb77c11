--------------------------- MODULE SequenceOneShot ---------------------------
(***************************************************************************)
(* The reference the restartable decoder of BerSequence is compared with:  *)
(* an encoding read from its first octet to its last in one go.  There is  *)
(* no context, no cursor and no phase: a function of the octets.           *)
(***************************************************************************)
EXTENDS SequenceTable

Header(s) == CheckTags(Tags, 0, 1, 0, TRUE, s)

Broken   == [code |-> "fail"]
Undecided == [code |-> "more"]

TwoZeros(w) == Len(w) >= 2 /\ w[1] = 0 /\ w[2] = 0

\* From octet p on, the terminators of k indefinite lengths and nothing else.
Close(s) ==
  LET close[p \in 0 .. Len(s), k \in Nat] ==
        LET w == From(s, p + 1)
        IN IF k = 0 THEN [code |-> "ok", used |-> p, value |-> [e \in 0 .. N - 1 |-> Absent]]
           ELSE IF TwoZeros(w) THEN close[p + 2, k - 1]
           ELSE IF w = <<0>> \/ FetchTag(w).len = 0 THEN Undecided
           ELSE Broken
  IN close

\* From octet p on, e being the next element that may come.  Where the frame has
\* arrived whole, running out of octets is an error, else a reason to wait.
ReadContents(s, header) ==
  LET definite  == header.length >= 0
      end       == header.used + header.length
      whole     == definite /\ end <= Len(s)
      arrived   == IF whole THEN end ELSE Len(s)
      Exhausted == IF whole THEN Broken ELSE Undecided
      read[p \in 0 .. Len(s), e \in 0 .. N] ==
        LET w     == SubSeq(s, p + 1, arrived)
            ended == IF definite THEN whole /\ w = <<>> ELSE TwoZeros(w)
            t     == FetchTag(w)
            after == IF e = N THEN N ELSE e + Optional(e)
            found == IF e = N THEN {} ELSE Candidates(e, t.tag)
            m     == PrimitiveDecode(El(Min(found)), w)
            rest  == read[p + m.used, Min(found) + 1]
            skip  == SkipLength(Constructed(w), From(w, t.len + 1))
        IN IF ended /\ (e = N \/ EndReachable(e))
             THEN Close(s)[p, IF definite THEN 0 ELSE -header.length]
           ELSE IF t.len = 0 \/ (~definite /\ w = <<0>>) THEN Exhausted
           ELSE IF t.len = -1 THEN Broken
           ELSE IF found # {}
             THEN IF m.code = "ok"
                    THEN IF rest.code = "ok"
                           THEN [rest EXCEPT !.value[Min(found)] = Got(m.octets)]
                           ELSE rest
                    ELSE IF m.code = "more" THEN Exhausted ELSE Broken
           ELSE IF ~InExtensionGroup(after) \/ skip = -1 THEN Broken
           ELSE IF skip = 0 THEN Exhausted
           ELSE read[p + t.len + skip, N]
  IN read[header.used, 0]

Reading(s) ==
  LET header == Header(s)
  IN IF header.code # "ok" THEN [code |-> header.code] ELSE ReadContents(s, header)
=============================================================================
