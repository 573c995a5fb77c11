--------------------------- MODULE MCUperSequence ---------------------------
(***************************************************************************)
(* UperSequence for octets of three bits, so that a unit of fragmentation  *)
(* is 16 octets, and additions on either side of the boundaries: no bits   *)
(* at all, part of an octet, one unit exactly, and more than two.          *)
(***************************************************************************)
EXTENDS UperSequence

Pattern(width, b) == [i \in 1 .. width |-> IF i = width THEN 1 ELSE b]

MCRoot ==
  <<[width |-> 1, optional |-> FALSE, default |-> FALSE, values |-> {<<1>>}],
    [width |-> 2, optional |-> TRUE, default |-> TRUE, values |-> {<<0, 0>>, <<0, 1>>}]>>

MCAdditions ==
  <<[width |-> 0, optional |-> TRUE, default |-> FALSE, values |-> {<<>>}],
    [width |-> 10, optional |-> TRUE, default |-> TRUE, values |-> {Pattern(10, 0)}],
    [width |-> 96, optional |-> TRUE, default |-> FALSE, values |-> {Pattern(96, 1)}]>>
=============================================================================
