---------------------------- MODULE UperSupport ----------------------------
(***************************************************************************)
(* Lengths and open types in unaligned PER: uper_support.c and the put     *)
(* side of uper_opentype.c in skeletons/.  Encodings are sequences of      *)
(* bits, most significant bit first.                                       *)
(*                                                                         *)
(* The code has octets of 8 bits, fragments of up to 4 units, and 6 bits   *)
(* for a small length.  The constants scale them down together with the    *)
(* unit of fragmentation, 2^14 octets in the code.                         *)
(***************************************************************************)
EXTENDS Integers, SequencesExt

CONSTANTS CHAR_BIT,      \* bits of an octet
          MaxFragments,  \* units a fragment has at most
          SmallBits      \* bits of a small length

ASSUME PerAssumption ==
  /\ CHAR_BIT \in Nat /\ CHAR_BIT >= 3
  /\ MaxFragments \in 1 .. 2^(CHAR_BIT - 2) - 1
  /\ SmallBits \in 1 .. 2 * CHAR_BIT - 3

Bit == {0, 1}

Short == 2^(CHAR_BIT - 1)
Unit  == 2^(2 * CHAR_BIT - 2)

BitsOf(n, width) == [i \in 1 .. width |-> (n \div 2^(width - i)) % 2]

ValueOf(bits) ==
  LET value[i \in 0 .. Len(bits)] == IF i = 0 THEN 0 ELSE 2 * value[i - 1] + bits[i]
  IN value[Len(bits)]

From(bits, i) == SubSeq(bits, i, Len(bits))
-----------------------------------------------------------------------------
(***************************************************************************)
(* uper_put_length, with what it returns and sets: how much the caller may *)
(* save, and whether an empty fragment must follow.                        *)
(***************************************************************************)
Units(n) == Min({n \div Unit, MaxFragments})

PutLength(n) ==
  IF n < Short THEN BitsOf(n, CHAR_BIT)
  ELSE IF n < Unit THEN BitsOf(2 * Unit + n, 2 * CHAR_BIT)
  ELSE BitsOf(3 * 2^(CHAR_BIT - 2) + Units(n), CHAR_BIT)

MaySave(n) == IF n < Unit THEN n ELSE Units(n) * Unit

\* A slip Understanding catches: a last fragment of whole units looks like one that
\* is not the last.
NeedEomNever(n) == FALSE

NeedEom(n) == n >= Unit /\ n % Unit = 0 /\ n \div Unit <= MaxFragments

\* The loop of uper_open_type_put over whole octets: what it puts from the kth on.
Fragments(bits) ==
  LET size == Len(bits) \div CHAR_BIT
      put[k \in 1 .. size + 1] ==
        LET n    == size + 1 - k
            save == MaySave(n)
        IN PutLength(n) \o SubSeq(bits, (k - 1) * CHAR_BIT + 1, (k - 1 + save) * CHAR_BIT)
           \o (IF NeedEom(n) THEN PutLength(0) ELSE <<>>)
           \o (IF save = n THEN <<>> ELSE put[k + save])
  IN put

\* A complete encoding is of whole octets, and of one at least.
Padding(bits) == IF bits = <<>> THEN CHAR_BIT ELSE (-Len(bits)) % CHAR_BIT
Complete(bits) == bits \o [i \in 1 .. Padding(bits) |-> 0]

OpenTypePut(bits) == Fragments(Complete(bits))[1]

\* uper_put_nslength.  A length that is not small comes without the bit that would
\* say so.
PutNsLength(n) ==
  IF n <= 2^SmallBits THEN BitsOf(n - 1, SmallBits + 1) ELSE PutLength(n)
-----------------------------------------------------------------------------
(***************************************************************************)
(* uper_get_length of an unconstrained length: n = -1 for an error, else   *)
(* the length, the bits it took, and whether another one follows.          *)
(***************************************************************************)
NoLength == [n |-> -1, used |-> 0, repeat |-> FALSE]

GetLength(rest) ==
  LET value == ValueOf(SubSeq(rest, 1, CHAR_BIT))
      m     == value % 2^(CHAR_BIT - 2)
  IN IF Len(rest) < CHAR_BIT THEN NoLength
     ELSE IF rest[1] = 0 THEN [n |-> value, used |-> CHAR_BIT, repeat |-> FALSE]
     ELSE IF rest[2] = 0
       THEN IF Len(rest) < 2 * CHAR_BIT THEN NoLength
            ELSE [n |-> ValueOf(SubSeq(rest, 3, 2 * CHAR_BIT)), used |-> 2 * CHAR_BIT,
                  repeat |-> FALSE]
     ELSE IF m \in 1 .. MaxFragments
       THEN [n |-> m * Unit, used |-> CHAR_BIT, repeat |-> TRUE]
     ELSE NoLength

\* uper_get_nslength; a fragmented length is not supported.
GetNsLength(rest) ==
  LET long == GetLength(From(rest, 2))
  IN IF rest # <<>> /\ rest[1] = 0
       THEN IF Len(rest) <= SmallBits THEN NoLength
            ELSE [n |-> ValueOf(SubSeq(rest, 2, SmallBits + 1)) + 1,
                  used |-> SmallBits + 1, repeat |-> FALSE]
     ELSE IF long.n = -1 \/ long.repeat THEN NoLength
     ELSE [long EXCEPT !.used = @ + 1]
=============================================================================
