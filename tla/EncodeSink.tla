----------------------------- MODULE EncodeSink -----------------------------
(***************************************************************************)
(* Where the octets of an encoder go: the three callbacks that asn_encode, *)
(* asn_encode_to_buffer and asn_encode_to_new_buffer of                    *)
(* skeletons/asn_application.c pass down.  An octet is its index in the    *)
(* encoding.                                                               *)
(***************************************************************************)
EXTENDS Integers, FiniteSets

CONSTANTS FirstBuffer,   \* octets allocated at first, 16 in the code
          FixedSizes     \* sizes a caller's buffer may have

ASSUME SinkAssumption == FirstBuffer \in Nat \ {0} /\ FixedSizes \subseteq Nat

VARIABLES
  kind,       \* which of the three entry points was called
  offered,    \* the size of the caller's buffer, where there is one
  capacity,   \* key->buffer_size, 0 also for a buffer that is NULL
  stored,     \* the octets memcpy'd to their place in the buffer
  produced,   \* key->computed_size
  failed      \* key->callback_failed

sink == <<kind, offered, capacity, stored, produced, failed>>

\* The first allocation may fail: the encoding is still counted.
InitSink ==
  /\ kind \in {"callback", "fixed", "dynamic"}
  /\ offered \in IF kind = "fixed" THEN FixedSizes ELSE {0}
  /\ capacity \in CASE kind = "fixed" -> {offered}
                    [] kind = "dynamic" -> {0, FirstBuffer}
                    [] OTHER -> {0}
  /\ stored = {} /\ produced = 0 /\ failed = FALSE

\* A slip TypeOK catches: one octet too many is copied.
PutOneMore(n) == stored \cup (produced .. produced + n)

Put(n) == stored \cup (produced .. produced + n - 1)

\* A slip BufferIsPrefix catches: what is in the buffer already is not counted in.
OverrunAnew(n) ==
  IF n > capacity THEN capacity' = 0 /\ stored' = stored
  ELSE capacity' = capacity /\ stored' = Put(n)

\* overrun_encoder_cb: from the first octets that do not fit on, none is stored.
Overrun(n) ==
  IF produced + n > capacity THEN capacity' = 0 /\ stored' = stored
  ELSE capacity' = capacity /\ stored' = Put(n)

\* dynamic_encoder_cb: the buffer doubles until there is room for n octets and the
\* terminating zero; when it cannot be had, what was stored is freed.
Doublings(n) == CHOOSE k \in 1 .. n + 1 : /\ capacity * 2^k > produced + n
                                          /\ capacity * 2^(k - 1) <= produced + n
Doubled(n) == capacity * 2^Doublings(n)

\* A slip NewBufferIsWhole catches: no room for the terminating zero.
GrowTight(n) ==
  IF capacity = 0 THEN capacity' = 0 /\ stored' = stored
  ELSE IF produced + n <= capacity THEN capacity' = capacity /\ stored' = Put(n)
  ELSE \/ capacity' = Doubled(n) /\ stored' = Put(n)
       \/ capacity' = 0 /\ stored' = {}

Grow(n) ==
  IF capacity = 0 THEN capacity' = 0 /\ stored' = stored
  ELSE IF produced + n < capacity THEN capacity' = capacity /\ stored' = Put(n)
  ELSE \/ capacity' = Doubled(n) /\ stored' = Put(n)
       \/ capacity' = 0 /\ stored' = {}

\* n more octets are handed over.
Accept(n) ==
  /\ produced' = produced + n
  /\ CASE kind = "fixed" -> Overrun(n)
       [] kind = "dynamic" -> Grow(n)
       [] OTHER -> UNCHANGED <<capacity, stored>>
  /\ UNCHANGED <<kind, offered, failed>>

\* callback_failure_catch_cb: the application's callback fails.
Refuse ==
  /\ kind = "callback"
  /\ failed' = TRUE
  /\ UNCHANGED <<kind, offered, capacity, stored, produced>>
=============================================================================
