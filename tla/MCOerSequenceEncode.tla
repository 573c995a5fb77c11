------------------------ MODULE MCOerSequenceEncode ------------------------
(***************************************************************************)
(* OerSequenceEncode on the table of                                       *)
(*   SEQUENCE { a INTEGER, b OCTET STRING OPTIONAL, c INTEGER DEFAULT 0,   *)
(*              ..., d OCTET STRING OPTIONAL, e INTEGER DEFAULT 0 }        *)
(* with a member b that ends exactly where the first buffer does, and an   *)
(* addition d that makes it double more than once and whose open type has  *)
(* a length of two octets.                                                 *)
(***************************************************************************)
EXTENDS OerSequenceEncode

Element(optional, defaulted, octets) ==
  [optional |-> optional, defaulted |-> defaulted, chunks |-> octets]

MCElements == << Element(FALSE, FALSE, <<1, 2>>),
                 Element(TRUE, FALSE, <<1, 11>>),
                 Element(TRUE, TRUE, <<1, 1>>),
                 Element(TRUE, FALSE, <<2, 130>>),
                 Element(TRUE, TRUE, <<1, 1>>) >>

\* A buffer for nothing; one some member does not fit into, but the next does; one
\* that is filled to its end; one for everything.
MCFixedSizes == {0, 10, 16, 200}
=============================================================================
