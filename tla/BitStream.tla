----------------------------- MODULE BitStream -----------------------------
(***************************************************************************)
(* What an output of bits promises its two sides.  The encoder asks for    *)
(* bits to be put and they join the stream in the order asked for, or are  *)
(* refused; the consumer behind the output callback receives the stream,   *)
(* in whole octets.  A flush pads the stream with zero bits and delivers   *)
(* all of it.                                                              *)
(***************************************************************************)
EXTENDS Integers, Sequences

CONSTANT Payloads     \* what an encoder may ask for in one call

VARIABLES stream,     \* all bits accepted
          delivered,  \* how many of them the consumer has received
          todo,       \* bits of the running call that are not accepted yet
          encoded     \* Open, or Failed, or the size reported at the end

vars == <<stream, delivered, todo, encoded>>

Open   == -1
Failed == -2

PadLength(n) == (8 - (n % 8)) % 8
Padded == stream \o [i \in 1 .. PadLength(Len(stream)) |-> 0]

Init == stream = <<>> /\ delivered = 0 /\ todo = <<>> /\ encoded = Open

Ask == /\ todo = <<>> /\ todo' \in Payloads
       /\ UNCHANGED <<stream, delivered, encoded>>

Accept == \E n \in 1 .. Len(todo) :
  /\ stream' = stream \o SubSeq(todo, 1, n)
  /\ todo' = SubSeq(todo, n + 1, Len(todo))
  /\ delivered' \in delivered .. Len(stream) /\ delivered' % 8 = 0
  /\ encoded' = encoded

Refuse == /\ todo' = <<>> /\ encoded' \in {encoded, Failed}
          /\ UNCHANGED <<stream, delivered>>

FlushWith(size) == /\ stream' = Padded /\ delivered' = Len(stream')
                   /\ encoded' = size /\ todo' = <<>>

Flush == FlushWith(encoded)
Close == FlushWith(Len(stream))

Next == Ask \/ Accept \/ Refuse \/ Flush \/ Close

Spec == Init /\ [][Next]_vars
=============================================================================
