---------------------------- MODULE MCBitOutput ----------------------------
(***************************************************************************)
(* BitOutput with a tmpspace of five octets, the least the comment in      *)
(* asn_put_few_bits allows, and payloads of the widths that matter: within *)
(* an octet, whole octets, the 24 bits asn_put_many_bits puts at a time,   *)
(* and the full word, which is put in two goes from the middle of an octet.*)
(***************************************************************************)
EXTENDS BitOutput

\* A word of n bits in which neighbouring groups differ.
Word(n) == [i \in 1 .. n |-> IF i % 3 = 1 THEN 1 ELSE 0]

MCFew  == {Word(n) : n \in {0, 7, 31, 32}}
MCMany == {Word(n) : n \in {41}}
=============================================================================
