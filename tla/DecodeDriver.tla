---------------------------- MODULE DecodeDriver ----------------------------
(***************************************************************************)
(* The converter that asn1c leaves beside the generated code,              *)
(* skeletons/converter-example.c: it reads files piece by piece and gives  *)
(* them to a decoder, PDU after PDU, until a file ends or cannot be        *)
(* decoded.  What the decoder leaves over waits in DynamicBuffer, which    *)
(* after PDUs of PER without padding begins within an octet.               *)
(*                                                                         *)
(* A file is as many bits, and a bit is its number in the file; a cell     *)
(* that holds no bit of the file is 0.  The decoder is external: it        *)
(* answers anything its convention allows.                                 *)
(***************************************************************************)
EXTENDS Integers, Sequences

CONSTANTS Syntaxes,   \* "ber", "oer", "xer": restartable; "per": not, padded to
                      \* octets; "nopad": PER with opt_nopad, counted in bits
          BufSizes,   \* suggested_bufsize
          CHAR_BIT,   \* bits in an octet, 8 in the code
          MaxFile,    \* bound: octets in a file
          MaxFiles    \* bound: files on the command line

ASSUME BoundsAssumption ==
  /\ Syntaxes \subseteq {"ber", "oer", "xer", "per", "nopad"}
  /\ CHAR_BIT \in Nat \ {0}
  /\ BufSizes \subseteq Nat \ {0} /\ MaxFile \in Nat /\ MaxFiles \in Nat

VARIABLES
  opt,        \* the command line: isyntax, suggested_bufsize, opt_onepdu
  files,      \* how many files there are still to come
  file,       \* octets in the current one
  arrived,    \* octets of it that fread has delivered
  rd,         \* and the last fread alone
  eof, error, \* feof and ferror of the stream
  first_pdu,  \* on_first_pdu
  db,         \* DynamicBuffer
  old_offset, tolerate_eof,  \* locals of data_decode_from_file
  taken,      \* history: bits of the file that decoders have consumed
  pc, status

fileVars == <<files, file, arrived, rd, eof, error>>
callVars == <<first_pdu, old_offset, tolerate_eof>>
vars == <<opt, fileVars, callVars, db, taken, pc, status>>

Bits(from, upto) == [i \in 1 .. upto - from |-> from + i]

NoBuffer == [data |-> <<>>, offset |-> 0, length |-> 0, unbits |-> 0,
             allocated |-> 0, bytes_shifted |-> 0]

Open(size) ==
  /\ file' = size /\ arrived' = 0 /\ rd' = 0 /\ eof' = FALSE /\ error' = FALSE
  /\ first_pdu' = TRUE /\ taken' = 0 /\ pc' = "call" /\ status' = "open"

Init ==
  /\ opt \in [isyntax : Syntaxes, bufsize : BufSizes, onepdu : BOOLEAN]
  /\ files = MaxFiles /\ file = 0 /\ arrived = 0 /\ rd = 0
  /\ eof = FALSE /\ error = FALSE
  /\ first_pdu = TRUE /\ db = NoBuffer /\ old_offset = 0 /\ tolerate_eof = 0
  /\ taken = 0 /\ pc = "next" /\ status = "open"

(***************************************************************************)
(* buffer_shift_left: the bits from octet at of the contents on move to    *)
(* the left, the first of them into the octet before if there is one.      *)
(***************************************************************************)
Cells(d, from, upto) == SubSeq(d.data, from + 1, upto)
Zeros(n) == [i \in 1 .. n |-> 0]

ShiftedBits(d, at, bits) ==
  LET start == CHAR_BIT * (d.offset + at) - (IF at > 0 THEN bits ELSE 0)
      end   == CHAR_BIT * (d.offset + d.length)
  IN Cells(d, 0, start) \o Cells(d, start + bits, end) \o Zeros(bits)
       \o Cells(d, end, Len(d.data))

\* A slip TypeOK catches: an octet that has become unused stays in the contents.
UnusedKept(d, bits) == [d EXCEPT !.unbits = @ + bits]

Unused(d, bits) ==
  IF d.unbits = 0 \/ d.unbits + bits < CHAR_BIT THEN [d EXCEPT !.unbits = @ + bits]
  ELSE [d EXCEPT !.unbits = @ + bits - CHAR_BIT, !.length = @ - 1, !.bytes_shifted = @ + 1]

BufferShiftLeft(d, at, bits) ==
  IF bits = 0 THEN d
  ELSE Unused([d EXCEPT !.data = ShiftedBits(d, at, bits)], bits)

(***************************************************************************)
(* add_bytes_to_buffer: behind the contents where there is room, else      *)
(* after moving them to the front, else into a larger buffer.              *)
(***************************************************************************)
Contents(d) == Cells(d, CHAR_BIT * d.offset, CHAR_BIT * (d.offset + d.length))

MovedToFront(d) ==
  [d EXCEPT !.data = Contents(d) \o Cells(d, CHAR_BIT * d.length, Len(d.data)),
            !.bytes_shifted = @ + d.offset, !.offset = 0]

Reallocated(d, bytes) ==
  LET newsize == 4 * d.allocated + bytes
  IN [d EXCEPT !.data = Contents(d) \o Zeros(CHAR_BIT * (newsize - d.length)),
               !.offset = 0, !.allocated = newsize]

\* A slip WithinAllocation catches: the room in front is counted in twice.
MakeRoomShort(d, bytes) ==
  IF d.allocated >= d.length + bytes THEN d ELSE Reallocated(d, bytes)

MakeRoom(d, bytes) ==
  IF d.allocated >= d.offset + d.length + bytes THEN d
  ELSE IF bytes <= d.offset THEN MovedToFront(d)
  ELSE Reallocated(d, bytes)

Appended(d, bits) ==
  LET end == CHAR_BIT * (d.offset + d.length)
  IN [d EXCEPT !.length = @ + Len(bits) \div CHAR_BIT,
               !.data = Cells(d, 0, end) \o bits \o Cells(d, end + Len(bits), Len(d.data))]

Joined(d, at, bits) == BufferShiftLeft([d EXCEPT !.unbits = 0], at, bits)

AddBytesToBuffer(d, bits) ==
  IF bits = <<>> THEN d
  ELSE LET bytes == Len(bits) \div CHAR_BIT
           grown == Appended(MakeRoom(d, bytes), bits)
       IN Joined(grown, grown.length - bytes, d.unbits)

(***************************************************************************)
(* The loop over files and PDUs in main.                                   *)
(***************************************************************************)
OpenFile ==
  /\ pc = "next" /\ files > 0
  /\ \E size \in 0 .. MaxFile : Open(size)
  /\ files' = files - 1
  /\ UNCHANGED <<opt, db, old_offset, tolerate_eof>>

\* data_decode_from_file begins.
CallDecode ==
  /\ pc = "call" /\ (first_pdu \/ ~opt.onepdu)
  /\ db' = IF first_pdu THEN NoBuffer ELSE db
  /\ old_offset' = db'.bytes_shifted + db'.offset
  /\ tolerate_eof' = 1 /\ pc' = "read"
  /\ UNCHANGED <<opt, fileVars, first_pdu, taken, status>>

(***************************************************************************)
(* The head of the loop: fread delivers what it is asked for unless the    *)
(* file ends before or cannot be read any further.                         *)
(***************************************************************************)
Fewer(a, b) == IF a < b THEN a ELSE b

Fread(bytes) ==
  /\ rd' = bytes /\ arrived' = arrived + bytes
  /\ IF rd' > 0 \/ ~eof' \/ (tolerate_eof # 0 /\ db.length > 0)
       THEN /\ pc' = "decode"
            /\ db' = IF db.allocated > 0
                       THEN AddBytesToBuffer(db, Bits(CHAR_BIT * arrived, CHAR_BIT * arrived'))
                       ELSE db
       ELSE pc' = "report" /\ db' = db
  /\ UNCHANGED <<opt, files, file, callVars, taken, status>>

Read ==
  /\ pc = "read" /\ ~error
  /\ eof' = (eof \/ file - arrived < opt.bufsize) /\ error' = error
  /\ Fread(Fewer(opt.bufsize, file - arrived))

ReadFails ==
  /\ pc = "read" /\ ~eof
  /\ eof' = eof /\ error' = TRUE
  /\ \E bytes \in 0 .. Fewer(opt.bufsize - 1, file - arrived) :
        (error => bytes = 0) /\ Fread(bytes)

(***************************************************************************)
(* The decoder and what follows it.  It is given size bits.  Only one that *)
(* can be restarted keeps what it consumed when it wants more.  NULL and a *)
(* SEQUENCE of nothing take no octets in OER and, without padding, no bits *)
(* in PER; with padding, and in BER and XER, every PDU takes some.         *)
(***************************************************************************)
Restartable == opt.isyntax \in {"ber", "oer", "xer"}
Unit == IF opt.isyntax = "nopad" THEN 1 ELSE CHAR_BIT

Given == IF db.allocated > 0 THEN CHAR_BIT * db.length - db.unbits ELSE CHAR_BIT * rd

Smallest == IF opt.isyntax \in {"oer", "nopad"} THEN 0 ELSE 1

Answers ==
  [code : {"ok"}, units : Smallest .. Given \div Unit]
    \cup [code : {"more"}, units : IF Restartable THEN 0 .. Given \div Unit ELSE {0}]
    \cup [code : {"fail"}, units : IF Restartable THEN 0 .. Given \div Unit ELSE {0}]

\* Slips ContentIntact and NeverAhead catch: the octets kept start where the chunk
\* does; all that was read is counted as shifted.
RemainderFromStart(consumed, ecbits) ==
  [BufferShiftLeft(AddBytesToBuffer(db, Bits(CHAR_BIT * (arrived - rd), CHAR_BIT * (arrived - consumed))),
                   0, ecbits) EXCEPT !.bytes_shifted = consumed]

RemainderAllShifted(consumed, ecbits) ==
  [BufferShiftLeft(AddBytesToBuffer(db, Bits(CHAR_BIT * (arrived - rd + consumed), CHAR_BIT * arrived)),
                   0, ecbits) EXCEPT !.bytes_shifted = rd]

\* "Flush remainder into the intermediate buffer."
Remainder(consumed, ecbits) ==
  [BufferShiftLeft(AddBytesToBuffer(db, Bits(CHAR_BIT * (arrived - rd + consumed), CHAR_BIT * arrived)),
                   0, ecbits) EXCEPT !.bytes_shifted = consumed]

\* "Adjust position inside the source buffer."
Adjusted(r, consumed, ecbits) ==
  IF db.allocated = 0 /\ r.code # "fail" /\ consumed < rd THEN Remainder(consumed, ecbits)
  ELSE IF db.allocated = 0 THEN [db EXCEPT !.bytes_shifted = @ + consumed]
  ELSE LET d == [db EXCEPT !.offset = @ + consumed, !.length = @ - consumed]
       IN IF r.code = "ok" THEN BufferShiftLeft(d, 0, ecbits) ELSE d

\* A slip Terminates catches: the end of the file is tolerated again and again.
StillTolerated(c) == tolerate_eof

\* Bound: where reading fails it is diminished without end, below 0 without effect.
Tolerance(c) == IF c = "more" /\ rd = 0 /\ tolerate_eof >= 0 THEN tolerate_eof - 1
                ELSE tolerate_eof

Decode ==
  /\ pc = "decode"
  /\ \E r \in Answers :
       /\ taken' = taken + Unit * r.units
       /\ db' = Adjusted(r, (Unit * r.units) \div CHAR_BIT, (Unit * r.units) % CHAR_BIT)
       /\ tolerate_eof' = Tolerance(r.code)
       /\ CASE r.code = "ok" -> /\ pc' = "call" /\ first_pdu' = FALSE
            [] r.code = "more" -> pc' = "read" /\ first_pdu' = first_pdu
            [] r.code = "fail" -> pc' = "report" /\ first_pdu' = first_pdu
  /\ UNCHANGED <<opt, fileVars, old_offset, status>>

(***************************************************************************)
(* After the loop: an end of file after some PDUs, or an error that ends   *)
(* the program.  The offsets are unsigned.                                 *)
(***************************************************************************)
Moved == db.bytes_shifted + db.offset - old_offset

AtEof == ~first_pdu /\ db.length = 0 /\ Moved \in 0 .. (IF opt.isyntax = "xer" THEN 2 ELSE 0)

Report ==
  /\ pc = "report"
  /\ IF AtEof THEN pc' = "next" /\ status' = "eof"
     ELSE pc' = "exit" /\ status' = "error"
  /\ UNCHANGED <<opt, fileVars, callVars, db, taken>>

\* With -1 a file is left after its first PDU.
OnePdu ==
  /\ pc = "call" /\ ~first_pdu /\ opt.onepdu
  /\ pc' = "next"
  /\ UNCHANGED <<opt, fileVars, callVars, db, taken, status>>

Quit ==
  /\ pc = "next" /\ files = 0
  /\ pc' = "exit"
  /\ UNCHANGED <<opt, fileVars, callVars, db, taken, status>>

Program == OpenFile \/ CallDecode \/ Read \/ Decode \/ Report \/ OnePdu \/ Quit

Next == Program \/ ReadFails

Spec == Init /\ [][Next]_vars

\* The program runs on by itself, and fread returns.
FairSpec == Spec /\ WF_vars(Next)
-----------------------------------------------------------------------------
(***************************************************************************)
(* Properties.                                                             *)
(***************************************************************************)
\* The variables have the types of the code; no more is consumed than arrived.
TypeOK ==
  /\ files \in 0 .. MaxFiles /\ file \in 0 .. MaxFile
  /\ arrived \in 0 .. file /\ rd \in 0 .. arrived
  /\ taken \in 0 .. CHAR_BIT * arrived
  /\ db.offset \in Nat /\ db.length \in Nat /\ db.unbits \in 0 .. CHAR_BIT - 1
  /\ db.bytes_shifted \in Nat /\ old_offset \in Nat /\ tolerate_eof \in Int
  /\ pc \in {"next", "call", "read", "decode", "report", "exit"}
  /\ status \in {"open", "eof", "error"}

\* However pieces, leftovers, moves to the front, reallocations and shifts within
\* an octet follow one another, every call of the decoder is given exactly the bits
\* of the file that no call has consumed, in order, up to the last that was read:
\* add_bytes_to_buffer and buffer_shift_left lose, repeat and invent nothing.
Handed == IF db.allocated > 0 THEN Cells(db, CHAR_BIT * db.offset, CHAR_BIT * db.offset + Given)
          ELSE Bits(CHAR_BIT * (arrived - rd), CHAR_BIT * arrived)

ContentIntact == pc = "decode" => Handed = Bits(taken, CHAR_BIT * arrived)

\* No copy of add_bytes_to_buffer and no shift goes beyond what was allocated.
WithinAllocation ==
  /\ Len(db.data) = CHAR_BIT * db.allocated
  /\ db.offset + db.length <= db.allocated
  /\ db.unbits > 0 => db.length > 0

\* The byte that "Decode failed past byte N" names has been consumed: the count of
\* bytes_shifted is never ahead of the decoder.
NeverAhead == pc = "report" => CHAR_BIT * (db.bytes_shifted + db.offset) <= taken

\* The program comes to its end with any files and any decoder, as long as reading
\* does not fail and empty PDUs do not follow one another for ever: each turn of the
\* loop reads something, or a PDU takes some of the file, or the end of the file is
\* tolerated one time less.
EmptyPdu == pc = "decode" /\ pc' = "call" /\ taken' = taken

Terminates == <>(pc = "exit" \/ error) \/ []<><<EmptyPdu>>_vars

\* skeletons/converter-example.c:461: "Process all files in turn."  Each file on the
\* command line has its turn, unless the program ends with an error before.
FilesInTurn == <>(files = 0 \/ pc = "exit" \/ error)

\* skeletons/converter-example.c:960: "Print a message and return failure only if
\* not EOF", :997: "Got EOF after a few successful PDUs".  Without an error a file
\* is left when all of it has been decoded.
EofOnlyAtEnd ==
  status = "eof" /\ ~error =>
    CHAR_BIT * file <= taken
=============================================================================
