---------------------------- MODULE StreamDecoder ----------------------------
(***************************************************************************)
(* What a restartable decoder promises (doc/docsrc/asn1c-usage.tex, "The   *)
(* ber_decode() function is restartable (stream-oriented)"): in whatever   *)
(* pieces a stream arrives, and whenever the decoder is called, its answer *)
(* is the answer of one uninterrupted reading of all that has arrived.     *)
(* Reading(s) is that answer: a record with a code, and on "ok" the        *)
(* octets used and the value.  What has arrived when a call begins is all  *)
(* that the call sees; when it returns, it returns that answer, and it     *)
(* asks for more only where one reading of all that has arrived would.     *)
(***************************************************************************)
EXTENDS Sequences, Naturals

CONSTANTS Alphabet, MaxInput, Reading(_)

VARIABLES input, calling, answer

Init == input = <<>> /\ calling = FALSE /\ answer = [code |-> "more"]

Deliver(octet) ==
  /\ ~calling /\ answer.code = "more" /\ Len(input) < MaxInput
  /\ input' = Append(input, octet)
  /\ UNCHANGED <<calling, answer>>

Call ==
  /\ ~calling /\ answer.code = "more"
  /\ calling' = TRUE
  /\ UNCHANGED <<input, answer>>

\* A call that asks for more where one reading is decided is not one of these, nor
\* a step that leaves everything alone: it ends the call.
Return ==
  /\ calling
  /\ calling' = FALSE /\ answer' = Reading(input)
  /\ input' = input

Next == (\E octet \in Alphabet : Deliver(octet)) \/ Call \/ Return

Spec == Init /\ [][Next]_<<input, calling, answer>>
=============================================================================
