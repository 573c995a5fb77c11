-------------------------- MODULE VersionedChannel --------------------------
(***************************************************************************)
(* What an extensible type promises two peers that were built from         *)
(* different versions of it: of every value that arrives whole, in the     *)
(* order sent, the receiver gets as much as its own version knows, and it  *)
(* refuses nothing but a value that was cut off.  Understood(m, version)   *)
(* is that much of the message m.                                          *)
(***************************************************************************)
EXTENDS Naturals, Sequences

CONSTANTS Messages, Understood(_, _)

VARIABLES version,   \* of the receiver
          sent,      \* messages, in order
          whole,     \* how many of them arrive whole
          received,  \* values, in order
          refused

vars == <<version, sent, whole, received, refused>>

Init == sent = <<>> /\ whole = 0 /\ received = <<>> /\ refused = FALSE

Send ==
  /\ whole = Len(sent)
  /\ \E m \in Messages : sent' = Append(sent, m)
  /\ whole' \in {whole, whole + 1}
  /\ UNCHANGED <<version, received, refused>>

Receive ==
  /\ Len(received) < whole
  /\ received' = Append(received, Understood(sent[Len(received) + 1], version))
  /\ UNCHANGED <<version, sent, whole, refused>>

Refuse ==
  /\ Len(received) = whole /\ whole < Len(sent)
  /\ refused' = TRUE
  /\ UNCHANGED <<version, sent, whole, received>>

Next == Send \/ Receive \/ Refuse

Spec == Init /\ [][Next]_vars
=============================================================================
