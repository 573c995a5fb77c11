---------------------------- MODULE UperSequence ----------------------------
(***************************************************************************)
(* SEQUENCE in unaligned PER, constr_SEQUENCE_uper.c of skeletons/, with   *)
(* the open types of uper_opentype.c and the lengths of UperSupport: a     *)
(* sender and a receiver whose versions of an extensible type differ in    *)
(* the extension additions they know.  Values follow one another without   *)
(* padding, as the elements of a SEQUENCE OF do, and the last one may be   *)
(* cut off.                                                                *)
(*                                                                         *)
(* The type of a member is the number of bits its values have.  Left out:  *)
(* failing allocations, members that are missing though mandatory, and     *)
(* additions that are not held by a pointer.                               *)
(***************************************************************************)
EXTENDS UperSupport

CONSTANTS Root,        \* the members of the root, <<member, ...>>, where member is
                       \* [width, optional, default (whether it has one), values]
          Additions,   \* the extension additions of the latest version, likewise
          MaxMessages, \* bound: values sent
          MaxBeforeCut \* bound: values that arrive whole before one that is cut off

\* A version is the number of extension additions it knows; a type that is not
\* extensible has one version.
Closed == -1
Versions == Closed .. Len(Additions)

\* A member's values have the bits its type says.
IsMember(member) ==
  /\ member.width \in Nat /\ {member.optional, member.default} \subseteq BOOLEAN
  /\ \A value \in member.values : value \in [1 .. member.width -> Bit]

ASSUME SequenceTypeAssumption ==
  /\ \A i \in DOMAIN Root : IsMember(Root[i]) /\ (Root[i].default => Root[i].optional)
  /\ \A i \in DOMAIN Additions : IsMember(Additions[i])
  /\ Root \in Seq(Range(Root)) /\ Additions \in Seq(Range(Additions))
  /\ Len(Additions) <= 2^SmallBits

Elements(version) == IF version = Closed THEN Root ELSE Root \o SubSeq(Additions, 1, version)

Absent == <<-1>>
Default(member) == [i \in 1 .. member.width |-> 0]

\* The structures an application may fill in: what is not mandatory may be missing.
MayHold(version, i) ==
  LET member == Elements(version)[i]
  IN member.values \cup (IF i <= Len(Root) /\ ~member.optional THEN {} ELSE {Absent})

Structures(version) ==
  LET upto[k \in 0 .. Len(Elements(version))] ==
        IF k = 0 THEN {<<>>}
        ELSE {Append(s, x) : s \in upto[k - 1], x \in MayHold(version, k)}
  IN upto[Len(Elements(version))]

VARIABLES
  sender, receiver,  \* the versions
  sent,      \* [version, value] of each message, in order
  wire,      \* the bits that arrived
  ends,      \* where each message that arrived whole ends
  pos,       \* bits taken from the wire
  pc,        \* where SEQUENCE_decode_uper is, "idle" between messages
  edx,       \* the member at hand
  st,        \* the structure being filled in
  extpresent,
  opmd,      \* presence bits of the root that are left
  epmd,      \* presence bits of the additions that are left
  buf,       \* what has been gathered of an open type
  received,  \* structures, in order
  refused

decoding == <<pc, edx, st, extpresent, opmd, epmd, buf>>
vars == <<sender, receiver, sent, wire, ends, pos, decoding, received, refused>>

Init ==
  /\ sender \in Versions /\ receiver \in Versions
  /\ sender = Closed <=> receiver = Closed
  /\ sent = <<>> /\ wire = <<>> /\ ends = <<>> /\ pos = 0
  /\ pc = "idle" /\ edx = 1 /\ st = <<>> /\ extpresent = FALSE
  /\ opmd = <<>> /\ epmd = <<>> /\ buf = <<>>
  /\ received = <<>> /\ refused = FALSE

-----------------------------------------------------------------------------
(***************************************************************************)
(* SEQUENCE_encode_uper.  A member of the root that has its default value  *)
(* is left out; an addition is not.                                        *)
(***************************************************************************)
BitOf(condition) == <<IF condition THEN 1 ELSE 0>>

Written(value, i) ==
  value[i] # Absent /\ ~(Root[i].default /\ value[i] = Default(Root[i]))

PresenceBits(value) ==
  [i \in 1 .. Len(Root) |-> IF Root[i].optional THEN BitOf(Written(value, i)) ELSE <<>>]

RootBits(value) ==
  [i \in 1 .. Len(Root) |-> IF Written(value, i) THEN value[i] ELSE <<>>]

\* SEQUENCE__handle_extensions, in its three uses.
Addition(value, i) == value[Len(Root) + i]

HasExtensions(version, value) ==
  version # Closed /\ \E i \in 1 .. version : Addition(value, i) # Absent

SentBits(version, value) ==
  [i \in 1 .. version |-> IF Addition(value, i) # Absent THEN 1 ELSE 0]

OpenTypes(version, value) ==
  [i \in 1 .. version |-> IF Addition(value, i) # Absent
                            THEN OpenTypePut(Addition(value, i)) ELSE <<>>]

ExtensionBits(version, value) ==
  PutNsLength(version) \o SentBits(version, value) \o FlattenSeq(OpenTypes(version, value))

Encoding(version, value) ==
  (IF version = Closed THEN <<>> ELSE BitOf(HasExtensions(version, value)))
  \o FlattenSeq(PresenceBits(value)) \o FlattenSeq(RootBits(value))
  \o (IF HasExtensions(version, value) THEN ExtensionBits(version, value) ELSE <<>>)

\* All that is sent has been sent when the receiver begins; PER does not restart.
CanSend ==
  /\ pc = "idle" /\ received = <<>> /\ ~refused
  /\ Len(sent) < MaxMessages /\ Len(ends) = Len(sent)

Message(value) == [version |-> sender, value |-> value]

Send ==
  /\ CanSend
  /\ \E value \in Structures(sender) :
       /\ sent' = Append(sent, Message(value))
       /\ wire' = wire \o Encoding(sender, value)
  /\ ends' = Append(ends, Len(wire'))
  /\ UNCHANGED <<sender, receiver, pos, decoding, received, refused>>

SendCutOff ==
  /\ CanSend /\ Len(sent) <= MaxBeforeCut
  /\ \E value \in Structures(sender) : \E bits \in {Encoding(sender, value)} :
       /\ sent' = Append(sent, Message(value))
       /\ \E arrives \in 0 .. Len(bits) - 1 : wire' = wire \o SubSeq(bits, 1, arrives)
  /\ UNCHANGED <<sender, receiver, ends, pos, decoding, received, refused>>

-----------------------------------------------------------------------------
(***************************************************************************)
(* SEQUENCE_decode_uper.  A read beyond the end of the wire ends it, and   *)
(* so does any other error: nothing is taken up again later.               *)
(***************************************************************************)
Rest  == From(wire, pos + 1)
Known == Len(Elements(receiver))

Taken(n) == SubSeq(wire, pos + 1, pos + n)
HasBits(n) == pos + n <= Len(wire)
Take(n) == pos' = pos + n

Refuse ==
  /\ refused' = TRUE /\ pc' = "over"
  /\ UNCHANGED <<pos, edx, st, extpresent, opmd, epmd, buf, received>>

Optionals == Cardinality({i \in DOMAIN Root : Root[i].optional})

Preamble ==
  /\ pc = "idle" /\ Len(received) < Len(sent)
  /\ LET ext == IF receiver = Closed THEN 0 ELSE 1
     IN IF ~HasBits(ext + Optionals) THEN Refuse
        ELSE /\ extpresent' = (ext = 1 /\ Rest[1] = 1)
             /\ opmd' = SubSeq(wire, pos + ext + 1, pos + ext + Optionals)
             /\ Take(ext + Optionals)
             /\ pc' = "root" /\ edx' = 1
             /\ st' = [i \in 1 .. Known |-> Absent]
             /\ UNCHANGED <<epmd, buf, received, refused>>
  /\ UNCHANGED <<sender, receiver, sent, wire, ends>>

AtRoot == pc = "root" /\ edx <= Len(Root)

\* What a member is when it did not come.
Filler(member) == IF member.default THEN Default(member) ELSE Absent

Missing == IF Root[edx].optional THEN opmd[1] = 0 ELSE FALSE

\* A slip TypeOK catches: the presence bit of a member that came is not given up.
OpmdOfMissing == IF Missing THEN Tail(opmd) ELSE opmd

OpmdAfter == IF Root[edx].optional THEN Tail(opmd) ELSE opmd

RootMissing ==
  /\ AtRoot /\ Missing
  /\ st' = [st EXCEPT ![edx] = Filler(Root[edx])]
  /\ opmd' = OpmdAfter /\ edx' = edx + 1
  /\ UNCHANGED <<sender, receiver, sent, wire, ends, pos, pc, extpresent, epmd, buf, received,
                 refused>>

RootMember ==
  /\ AtRoot /\ ~Missing
  /\ IF ~HasBits(Root[edx].width) THEN Refuse
     ELSE /\ st' = [st EXCEPT ![edx] = Taken(Root[edx].width)]
          /\ Take(Root[edx].width)
          /\ opmd' = OpmdAfter /\ edx' = edx + 1
          /\ UNCHANGED <<pc, extpresent, epmd, buf, received, refused>>
  /\ UNCHANGED <<sender, receiver, sent, wire, ends>>

RootDone ==
  /\ pc = "root" /\ edx > Len(Root)
  /\ pc' = IF extpresent THEN "bitmap" ELSE "defaults"
  /\ UNCHANGED <<sender, receiver, sent, wire, ends, pos, edx, st, extpresent, opmd, epmd, buf,
                 received, refused>>

Bitmap ==
  /\ pc = "bitmap"
  /\ \E length \in {GetNsLength(Rest)} :
       IF length.n = -1 \/ ~HasBits(length.used + length.n) THEN Refuse
       ELSE /\ epmd' = SubSeq(Rest, length.used + 1, length.used + length.n)
            /\ Take(length.used + length.n)
            /\ pc' = "extensions"
            /\ UNCHANGED <<edx, st, extpresent, opmd, buf, received, refused>>
  /\ UNCHANGED <<sender, receiver, sent, wire, ends>>

\* A slip AllReceived catches: the bit looked at is not given up.
EpmdKept == epmd

EpmdAfter == Tail(epmd)

\* A slip InStep catches: an addition this version does not know is left unread.
SentAndKnown == epmd[1] = 1 /\ edx <= Known

IsSent == epmd[1] = 1

\* The additions this version knows, and then those beyond: an unknown one is
\* skipped, and edx stays.
NextAddition ==
  /\ pc = "extensions" /\ epmd # <<>>
  /\ epmd' = EpmdAfter
  /\ IF IsSent THEN pc' = "fragments" /\ edx' = edx
     ELSE pc' = pc /\ edx' = IF edx <= Known THEN edx + 1 ELSE edx
  /\ buf' = <<>>
  /\ UNCHANGED <<sender, receiver, sent, wire, ends, pos, st, extpresent, opmd, received, refused>>

NoMoreAdditions ==
  /\ pc = "extensions" /\ epmd = <<>>
  /\ pc' = "defaults"
  /\ UNCHANGED <<sender, receiver, sent, wire, ends, pos, edx, st, extpresent, opmd, epmd, buf,
                 received, refused>>

\* uper_open_type_get_simple: one fragment after the other ...
Fragment ==
  /\ pc = "fragments"
  /\ \E length \in {GetLength(Rest)} :
       LET bits == length.n * CHAR_BIT
       IN IF length.n = -1 \/ ~HasBits(length.used + bits) THEN Refuse
          ELSE /\ buf' = buf \o SubSeq(Rest, length.used + 1, length.used + bits)
               /\ Take(length.used + bits)
               /\ pc' = IF length.repeat THEN pc ELSE "opentype"
               /\ UNCHANGED <<edx, st, extpresent, opmd, epmd, received, refused>>
  /\ UNCHANGED <<sender, receiver, sent, wire, ends>>

\* ... and then the value from what was gathered.  Padding of less than an octet may
\* be anything; a whole octet must be zero and all there is.
Fitting ==
  LET width == Elements(receiver)[edx].width
      padding == Len(buf) - width
  IN /\ padding >= 0
     /\ padding >= CHAR_BIT => /\ width = 0 /\ padding = CHAR_BIT
                               /\ ValueOf(buf) = 0

KnownAddition ==
  /\ pc = "opentype" /\ edx <= Known
  /\ IF ~Fitting THEN Refuse
     ELSE /\ st' = [st EXCEPT ![edx] = SubSeq(buf, 1, Elements(receiver)[edx].width)]
          /\ edx' = edx + 1 /\ pc' = "extensions"
          /\ UNCHANGED <<pos, extpresent, opmd, epmd, buf, received, refused>>
  /\ UNCHANGED <<sender, receiver, sent, wire, ends>>

\* uper_open_type_skip; uper_sot_suck takes every bit.
UnknownAddition ==
  /\ pc = "opentype" /\ edx > Known
  /\ pc' = "extensions"
  /\ UNCHANGED <<sender, receiver, sent, wire, ends, pos, edx, st, extpresent, opmd, epmd, buf,
                 received, refused>>

\* "Fill DEFAULT members in extensions"
Filled ==
  [i \in 1 .. Known |-> IF i > Len(Root) /\ st[i] = Absent
                          THEN Filler(Elements(receiver)[i]) ELSE st[i]]

Defaults ==
  /\ pc = "defaults"
  /\ received' = Append(received, Filled)
  /\ pc' = "idle"
  /\ UNCHANGED <<sender, receiver, sent, wire, ends, pos, edx, st, extpresent, opmd, epmd, buf,
                 refused>>

Decode ==
  \/ Preamble \/ RootMissing \/ RootMember \/ RootDone
  \/ Bitmap \/ NextAddition \/ NoMoreAdditions
  \/ Fragment \/ KnownAddition \/ UnknownAddition \/ Defaults

Next == Send \/ SendCutOff \/ Decode

\* The decoder is a function of one thread: once it is called it runs on.
Spec == Init /\ [][Next]_vars /\ WF_vars(Decode)
-----------------------------------------------------------------------------
(***************************************************************************)
(* Properties.                                                             *)
(***************************************************************************)
\* The variables have the types of the code, and the presence bits that are left
\* are those of the members to come.
TypeOK ==
  /\ pos \in 0 .. Len(wire)
  /\ edx \in 1 .. Known + 1
  /\ pc = "root" => Len(opmd) = Cardinality({i \in edx .. Len(Root) : Root[i].optional})
  /\ pc \in {"root", "bitmap", "extensions", "fragments", "opentype", "defaults"} =>
       DOMAIN st = 1 .. Known
  /\ Len(buf) % CHAR_BIT = 0

\* Whatever the versions, the receiver is at the first bit of a message when it
\* begins with it: additions it does not know are passed over to the bit, however
\* long they are and in however many fragments they came.  (For at most 2^SmallBits
\* additions; see Understanding.)
InStep ==
  pc = "idle" => pos = IF received = <<>> THEN 0 ELSE ends[Len(received)]

\* A receiver of any version gets from a sender of any version what both know, the
\* defaults of what did not come, and nothing for what has none; it refuses what was
\* cut off, at whatever bit, and nothing else.  This is of types with at most
\* 2^SmallBits additions, 64 in the code (SequenceTypeAssumption): the number of more
\* than these is not read back as uper_put_nslength wrote it.
UnderstoodBy(message, version) ==
  [i \in 1 .. Len(Elements(version)) |->
     IF i <= Len(message.value) /\ message.value[i] # Absent THEN message.value[i]
     ELSE Filler(Elements(version)[i])]

Channel == INSTANCE VersionedChannel WITH
             Messages <- UNION {{[version |-> v, value |-> s] : s \in Structures(v)} : v \in Versions},
             Understood <- UnderstoodBy,
             version <- receiver, whole <- Len(ends)

Understanding == Channel!Spec

\* Every value that arrived whole is received in the end.
AllReceived == \A n \in 1 .. MaxMessages : Len(ends) = n ~> Len(received) >= n
=============================================================================
