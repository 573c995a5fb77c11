---------------------- MODULE OerSequenceEncodeProofs ----------------------
(***************************************************************************)
(* What is proved of encoding a SEQUENCE in OER, for every element table,  *)
(* every structure, every size of a caller's buffer and every output that  *)
(* fails: the types, SelfDescribing, EncodedIsProduced, BufferIsPrefix and *)
(* NewBufferIsWhole.                                                       *)
(***************************************************************************)
EXTENDS OerSequenceEncode, Induction, SequenceTheorems

(***************************************************************************)
(* The buffers behind the encoder.                                         *)
(***************************************************************************)
\* A caller's buffer holds the encoding so far, or the first octets of one that is
\* larger than it.
FixedInv ==
  \/ capacity = offered /\ produced <= offered /\ stored = 0 .. produced - 1
  \/ /\ capacity = 0 /\ produced > offered
     /\ \E n \in 0 .. offered : stored = 0 .. n - 1

\* An allocated buffer holds the encoding so far and has room for the zero at its end.
DynamicInv ==
  \/ capacity = 0 /\ stored = {}
  \/ stored = 0 .. produced - 1 /\ produced < capacity

SinkInv ==
  /\ kind \in {"callback", "fixed", "dynamic"}
  /\ offered \in Nat /\ capacity \in Nat /\ produced \in Nat /\ failed \in BOOLEAN
  /\ failed => kind = "callback"
  /\ kind = "callback" => stored = {}
  /\ kind = "fixed" => FixedInv
  /\ kind = "dynamic" => DynamicInv

\* A number is smaller than two to its power.
LEMMA PowerExceeds ==
  ASSUME NEW n \in Nat
  PROVE  2^n \in Nat /\ n < 2^n
<1> DEFINE holds == {i \in Nat : i < 2^i}
<1>1. 2^0 = 1 /\ 0 \in holds
  OBVIOUS
<1>2. ASSUME NEW i \in 0 .. n - 1, i \in holds PROVE i + 1 \in holds
  <2>1. 2^i \in Nat /\ 2^(i + 1) = 2 * 2^i /\ i < 2^i /\ i + 1 \in Nat
    BY <1>2, PowerDoubles
  <2>2. i + 1 < 2^(i + 1)
    BY <2>1
  <2> QED BY <2>1, <2>2
<1> HIDE DEF holds
<1>3. \A i \in 0 .. n : i \in holds
  BY <1>1, <1>2, UpTo
<1> QED BY <1>3, PowerDoubles DEF holds

\* A product is no smaller than the sum of its factors, but one.
LEMMA ProductExceeds ==
  ASSUME NEW a \in Nat, a > 0, NEW n \in Nat
  PROVE  a * n \in Nat /\ (n > 0 => a + n - 1 <= a * n)
<1> DEFINE holds == {i \in Nat : a * i \in Nat /\ (i > 0 => a + i - 1 <= a * i)}
<1>1. 0 \in holds
  OBVIOUS
<1>2. ASSUME NEW i \in 0 .. n - 1, i \in holds PROVE i + 1 \in holds
  <2>1. a * (i + 1) = a * i + a /\ a * i \in Nat /\ (i > 0 => a + i - 1 <= a * i)
    BY <1>2
  <2> QED BY <2>1
<1> HIDE DEF holds
<1>3. \A i \in 0 .. n : i \in holds
  BY <1>1, <1>2, UpTo
<1> QED BY <1>3 DEF holds

\* Doubling a buffer that is too small makes it large enough.
LEMMA DoubledFits ==
  ASSUME NEW n \in Nat, capacity \in Nat, produced \in Nat, produced < capacity,
         capacity <= produced + n
  PROVE  Doubled(n) \in Nat /\ produced + n < Doubled(n)
<1> DEFINE Fit(k) == capacity * 2^k > produced + n
           fits == {k \in 1 .. n + 1 : Fit(k)}
<1>1. \A k \in Nat : 2^k \in Nat /\ k < 2^k /\ capacity * 2^k \in Nat
  BY PowerExceeds, ProductExceeds
<1>2. capacity * 2^0 <= produced + n
  <2>1. 2^0 = 1
    OBVIOUS
  <2> QED BY <2>1
<1>3. n + 1 \in fits
  <2>1. PICK p \in Nat : p = 2^(n + 1) /\ n + 1 < p
    BY PowerExceeds
  <2>2. capacity + p - 1 <= capacity * p /\ capacity * p \in Nat
    BY <2>1, ProductExceeds
  <2>3. capacity * p > produced + n
    BY <2>1, <2>2
  <2> QED BY <2>1, <2>3
<1>4. fits \in SUBSET Nat
  OBVIOUS
<1>5. PICK k \in fits : \A j \in fits : k <= j
  BY <1>3, <1>4, LeastNat
<1>6. k \in 1 .. n + 1 /\ Fit(k) /\ k - 1 \in Nat
  BY <1>5
<1>7. capacity * 2^(k - 1) <= produced + n
  <2>1. CASE k = 1
    BY <1>2, <2>1
  <2>2. CASE k # 1
    <3>1. k - 1 \in 1 .. n + 1 /\ k - 1 \notin fits
      BY <1>5, <1>6, <2>2
    <3>2. ~Fit(k - 1)
      BY <3>1
    <3>3. PICK q \in Nat : q = capacity * 2^(k - 1)
      BY <1>1, <1>6
    <3> QED BY <3>2, <3>3
  <2> QED BY <2>1, <2>2
<1> HIDE DEF fits
<1>8. \E j \in 1 .. n + 1 : capacity * 2^j > produced + n /\ capacity * 2^(j - 1) <= produced + n
  BY <1>6, <1>7
<1>9. /\ Doublings(n) \in 1 .. n + 1
      /\ capacity * 2^Doublings(n) > produced + n
  BY <1>8, Zenon DEF Doublings
<1>10. PICK d \in Nat : d = Doublings(n) /\ capacity * 2^d > produced + n
  BY <1>9
<1>11. PICK q \in Nat : q = capacity * 2^d
  BY <1>1
<1> QED BY <1>10, <1>11 DEF Doubled

\* What n more octets are put after.
LEMMA PutOK ==
  ASSUME NEW n \in Nat, produced \in Nat, stored = 0 .. produced - 1
  PROVE  Put(n) = 0 .. (produced + n) - 1
BY DEF Put

\* Octets handed over join those in the buffer, or end it.
LEMMA AcceptKeeps ==
  ASSUME SinkInv, NEW n \in Nat, Accept(n)
  PROVE  SinkInv' /\ produced' = produced + n /\ failed' = failed /\ kind' = kind
<1>1. /\ produced' = produced + n /\ kind' = kind /\ offered' = offered /\ failed' = failed
      /\ produced' \in Nat
  BY DEF Accept, SinkInv
<1>2. CASE kind = "callback"
  BY <1>1, <1>2 DEF Accept, SinkInv
<1>3. CASE kind = "fixed"
  <2>1. Overrun(n)
    BY <1>3 DEF Accept
  <2>2. CASE produced + n > capacity
    <3>1. capacity' = 0 /\ stored' = stored
      BY <2>1, <2>2 DEF Overrun
    <3>2. FixedInv'
      <4>1. CASE capacity = offered /\ produced <= offered /\ stored = 0 .. produced - 1
        <5>1. produced \in 0 .. offered /\ produced' > offered
          BY <1>1, <2>2, <4>1 DEF SinkInv
        <5> QED BY <1>1, <3>1, <4>1, <5>1 DEF FixedInv
      <4>2. CASE capacity = 0 /\ produced > offered /\ \E m \in 0 .. offered : stored = 0 .. m - 1
        <5>1. produced' > offered
          BY <1>1, <4>2 DEF SinkInv
        <5> QED BY <1>1, <3>1, <4>2, <5>1 DEF FixedInv
      <4> QED BY <1>3, <4>1, <4>2 DEF SinkInv, FixedInv
    <3> QED BY <1>1, <1>3, <3>1, <3>2 DEF SinkInv
  <2>3. CASE ~(produced + n > capacity)
    <3>1. capacity' = capacity /\ stored' = Put(n)
      BY <2>1, <2>3 DEF Overrun
    <3>2. capacity = offered /\ stored = 0 .. produced - 1
      BY <1>3, <2>3 DEF SinkInv, FixedInv
    <3>3. FixedInv'
      BY <1>1, <2>3, <3>1, <3>2, PutOK DEF SinkInv, FixedInv
    <3> QED BY <1>1, <1>3, <3>1, <3>3 DEF SinkInv
  <2> QED BY <2>2, <2>3
<1>4. CASE kind = "dynamic"
  <2>1. Grow(n)
    BY <1>4 DEF Accept
  <2>2. CASE capacity = 0
    <3>1. capacity' = 0 /\ stored' = stored
      BY <2>1, <2>2 DEF Grow
    <3>2. DynamicInv'
      BY <1>4, <2>2, <3>1 DEF SinkInv, DynamicInv
    <3> QED BY <1>1, <1>4, <3>1, <3>2 DEF SinkInv
  <2>3. CASE capacity # 0
    <3>1. stored = 0 .. produced - 1 /\ produced < capacity
      BY <1>4, <2>3 DEF SinkInv, DynamicInv
    <3>2. Put(n) = 0 .. produced' - 1
      BY <1>1, <3>1, PutOK DEF SinkInv
    <3>3. CASE produced + n < capacity
      <4>1. capacity' = capacity /\ stored' = Put(n)
        BY <2>1, <2>3, <3>3 DEF Grow
      <4>2. DynamicInv'
        BY <1>1, <3>2, <3>3, <4>1 DEF DynamicInv
      <4> QED BY <1>1, <1>4, <4>1, <4>2 DEF SinkInv
    <3>4. CASE ~(produced + n < capacity) /\ capacity' = Doubled(n)
      <4>1. stored' = Put(n)
        <5>1. Doubled(n) \in Nat /\ produced + n < Doubled(n)
          BY <3>1, <3>4, DoubledFits DEF SinkInv
        <5>2. CASE capacity' = 0 /\ stored' = {}
          BY <1>1, <3>4, <5>1, <5>2 DEF SinkInv
        <5> QED BY <2>1, <2>3, <3>4, <5>2 DEF Grow
      <4>2. capacity' \in Nat /\ produced' < capacity'
        BY <1>1, <3>1, <3>4, DoubledFits DEF SinkInv
      <4>3. DynamicInv'
        BY <3>2, <4>1, <4>2 DEF DynamicInv
      <4> QED BY <1>1, <1>4, <4>2, <4>3 DEF SinkInv
    <3>5. CASE ~(produced + n < capacity) /\ capacity' # Doubled(n)
      <4>1. capacity' = 0 /\ stored' = {}
        BY <2>1, <2>3, <3>5 DEF Grow
      <4> QED BY <1>1, <1>4, <4>1 DEF SinkInv, DynamicInv
    <3> QED BY <3>3, <3>4, <3>5
  <2> QED BY <2>2, <2>3
<1> QED BY <1>1, <1>2, <1>3, <1>4 DEF SinkInv

\* A callback that fails leaves no trace but its failure.
LEMMA RefuseKeeps ==
  ASSUME SinkInv, Refuse
  PROVE  SinkInv' /\ failed' = TRUE /\ kind = "callback" /\ produced' = produced
BY DEF SinkInv, Refuse

\* The sink is in order while nothing is put into it.
LEMMA SinkStays ==
  ASSUME SinkInv, UNCHANGED sink
  PROVE  SinkInv' /\ failed' = failed /\ produced' = produced
BY DEF SinkInv, FixedInv, DynamicInv, sink

\* The sink at the start.
LEMMA InitSinkHolds == InitSink => SinkInv
<1> SUFFICES ASSUME InitSink PROVE SinkInv
  OBVIOUS
<1>1. /\ kind \in {"callback", "fixed", "dynamic"} /\ stored = {} /\ produced = 0 /\ failed = FALSE
      /\ 0 .. 0 - 1 = {}
  BY DEF InitSink
<1>2. CASE kind = "callback"
  <2>1. offered \in {0} /\ capacity \in {0}
    BY <1>2 DEF InitSink
  <2>2. offered \in Nat /\ capacity \in Nat /\ produced \in Nat
    BY <1>1, <2>1
  <2> QED BY <1>1, <1>2, <2>2 DEF SinkInv
<1>3. CASE kind = "fixed"
  <2>1. offered \in FixedSizes /\ capacity \in {offered}
    BY <1>3 DEF InitSink
  <2>2. offered \in Nat /\ capacity = offered /\ produced <= offered
    BY <1>1, <2>1, SinkAssumption
  <2>3. FixedInv
    BY <1>1, <2>2 DEF FixedInv
  <2> QED BY <1>1, <1>3, <2>2, <2>3 DEF SinkInv
<1>4. CASE kind = "dynamic"
  <2>1. offered \in {0} /\ capacity \in {0, FirstBuffer} /\ FirstBuffer \in Nat \ {0}
    BY <1>4, SinkAssumption DEF InitSink
  <2>2. offered \in Nat /\ capacity \in Nat
    BY <2>1
  <2>3. DynamicInv
    BY <1>1, <2>1 DEF DynamicInv
  <2> QED BY <1>1, <1>4, <2>2, <2>3 DEF SinkInv
<1> QED BY <1>1, <1>2, <1>3, <1>4

-----------------------------------------------------------------------------
(***************************************************************************)
(* What an encoder puts out.                                               *)
(***************************************************************************)
\* The element table.
LEMMA Table ==
  /\ N \in Nat /\ N > 0 /\ RootEnd \in 0 .. N
  /\ Root \subseteq 0 .. N - 1 /\ Additions \subseteq 0 .. N - 1
  /\ 0 .. N - 1 = Root \cup Additions /\ Root \cap Additions = {}
  /\ ~Extensible => Additions = {}
BY TableAssumption DEF RootEnd, Root, Additions, Extensible

\* The bits of the preamble are counted, and there are none without a member that may
\* be missing.
LEMMA Preamble ==
  /\ BitmapBits \in Nat /\ PreambleBits \in Nat
  /\ PreambleBits = 0 => ~Extensible /\ {e \in Root : El(e).optional} = {}
<1> DEFINE bits == {e \in Root : El(e).optional}
<1>1. IsFiniteSet(Root)
  <2>1. 0 \in Int /\ RootEnd - 1 \in Int
    BY Table
  <2> QED BY <2>1, FS_Interval DEF Root
<1>2. IsFiniteSet(bits)
  <2>1. bits \in SUBSET Root
    OBVIOUS
  <2> QED BY <1>1, <2>1, FS_Subset
<1> HIDE DEF bits
<1>3. Cardinality(bits) \in Nat /\ (Cardinality(bits) = 0 <=> bits = {})
  BY <1>2, FS_CardinalityType, FS_EmptySet
<1>4. BitmapBits = Cardinality(bits)
  BY DEF BitmapBits, bits
<1> QED BY <1>3, <1>4 DEF PreambleBits, bits

\* Bits make whole octets.
LEMMA OctetsType == \A bits \in Nat : Octets(bits) \in Nat
BY DEF Octets

\* The octets of a length.
LEMMA LengthOctetsType ==
  ASSUME NEW n \in Nat, \E k \in 1 .. 8 : n < 256^k
  PROVE  LengthOctets(n) \in Nat
<1>1. CASE n <= 127
  BY <1>1 DEF LengthOctets
<1>2. CASE ~(n <= 127)
  <2> DEFINE fits == {k \in 1 .. 8 : n < 256^k}
  <2>1. fits \in SUBSET Nat /\ fits # {}
    OBVIOUS
  <2>2. PICK k \in fits : \A j \in fits : k <= j
    BY <2>1, LeastNat
  <2>3. k \in 1 .. 8 /\ n < 256^k
    OBVIOUS
  <2>4. 256^(k - 1) <= n
    <3>1. CASE k = 1
      <4>1. k - 1 = 0 /\ 256^0 = 1
        BY <3>1
      <4>2. 256^(k - 1) = 1
        BY <4>1
      <4> QED BY <1>2, <4>2
    <3>2. CASE k # 1
      <4>1. PICK j \in 1 .. 7 : j = k - 1
        BY <2>3, <3>2
      <4>2. j \notin fits /\ j \in 1 .. 8
        BY <2>2, <2>3, <4>1
      <4>3. 256^j \in Int
        <5>1. /\ 256^1 \in Int /\ 256^2 \in Int /\ 256^3 \in Int /\ 256^4 \in Int
              /\ 256^5 \in Int /\ 256^6 \in Int /\ 256^7 \in Int
          OBVIOUS
        <5>2. j = 1 \/ j = 2 \/ j = 3 \/ j = 4 \/ j = 5 \/ j = 6 \/ j = 7
          OBVIOUS
        <5> QED BY <5>1, <5>2, ZenonT(30)
      <4>4. ~(n < 256^j)
        BY <4>2
      <4>5. 256^j <= n
        BY <4>3, <4>4
      <4> QED BY <4>1, <4>5
    <3> QED BY <3>1, <3>2
  <2> HIDE DEF fits
  <2>5. \E j \in 1 .. 8 : 256^(j - 1) <= n /\ n < 256^j
    BY <2>3, <2>4
  <2>6. PICK m \in 1 .. 8 : m = CHOOSE j \in 1 .. 8 : 256^(j - 1) <= n /\ n < 256^j
    BY <2>5, Zenon
  <2>7. LengthOctets(n) = 1 + m
    BY <1>2, <2>6, Zenon DEF LengthOctets
  <2> QED BY <2>7
<1> QED BY <1>1, <1>2

\* The octets of all outputs are counted.
LEMMA TotalType ==
  ASSUME NEW outputs \in Seq(Nat)
  PROVE  Total(outputs) \in Nat
<1> DEFINE n == Len(outputs)
           At_(f, i) == IF i = 0 THEN 0 ELSE f[i - 1] + outputs[i]
           step == [i \in 1 .. n |-> [x \in Nat |-> x + outputs[i]]]
           sum == CHOOSE f : f = [i \in 0 .. n |-> At_(f, i)]
<1>1. Total(outputs) = sum[n]
  BY Zenon DEF Total
<1>2. n \in Nat /\ 0 \in Nat /\ n \in 0 .. n
  OBVIOUS
<1>3. \A i \in 1 .. n : outputs[i] \in Nat
  OBVIOUS
<1> HIDE DEF n
<1>4. step \in StepsUp(n, Nat)
  BY <1>3 DEF StepsUp
<1>5. \A i \in 1 .. n : \A x \in Nat : step[i][x] = x + outputs[i]
  OBVIOUS
<1> HIDE DEF step
<1>6. PICK f : RunUp(f, n, Nat, 0, step)
  BY <1>2, <1>4, RecursionUp
<1>7. \A i \in 0 .. n : f[i] = At_(f, i)
  <2>1. f[0] = 0 /\ \A i \in 1 .. n : f[i] = step[i][f[i - 1]] /\ f[i - 1] \in Nat
    BY <1>2, <1>6 DEF RunUp
  <2>2. \A i \in 1 .. n : f[i] = f[i - 1] + outputs[i]
    BY <1>5, <2>1
  <2> QED BY <1>2, <2>1, <2>2
<1>8. f = [i \in 0 .. n |-> At_(f, i)]
  <2> HIDE DEF At_
  <2> QED BY <1>6, <1>7 DEF RunUp
<1>9. sum = [i \in 0 .. n |-> At_(sum, i)]
  <2> HIDE DEF At_
  <2> QED BY <1>8, Zenon
<1> HIDE DEF sum
<1>10. sum[0] = 0 /\ \A i \in 1 .. n : sum[i] = sum[i - 1] + outputs[i]
  BY <1>2, <1>9
<1>11. GoesUp(sum, n, Nat, step)
  BY <1>2, <1>5, <1>10 DEF GoesUp
<1>12. \A i \in 0 .. n : sum[i] \in Nat
  BY <1>2, <1>4, <1>11, RecursionStays
<1> QED BY <1>1, <1>2, <1>12

\* An open type is put out as its length and what it holds.
LEMMA OpenTypeOK ==
  ASSUME NEW e \in Additions
  PROVE  OpenType(e) \in Seq(Nat) /\ OpenType(e) # <<>>
<1>1. El(e).chunks \in Seq(Nat) /\ e \in 0 .. N - 1
  BY Table, TableAssumption
<1>2. Total(El(e).chunks) \in Nat
  BY <1>1, TotalType
<1>3. LengthOctets(Total(El(e).chunks)) \in Nat
  BY <1>2, LengthOctetsType, SizeAssumption
<1>4. <<LengthOctets(Total(El(e).chunks))>> \in Seq(Nat) /\ Len(<<LengthOctets(Total(El(e).chunks))>>) = 1
  BY <1>3
<1> HIDE DEF LengthOctets, Total
<1> QED BY <1>1, <1>4 DEF OpenType

-----------------------------------------------------------------------------
(***************************************************************************)
(* The inductive invariant.                                                *)
(***************************************************************************)
Phases == {"preamble", "preamble flush", "root", "bitmap flush", "additions", "over"}

Typed ==
  /\ has \in [0 .. N - 1 -> {"absent", "coded", "broken", "default"}]
  /\ \A e \in 0 .. N - 1 : has[e] \in Statuses(e)
  /\ pc \in Phases /\ edx \in 0 .. N /\ chunks \in Seq(Nat) /\ computed_size \in Nat
  /\ extended \in BOOLEAN /\ claimed \subseteq 0 .. N - 1 /\ written \subseteq 0 .. N - 1
  /\ encoded \in {Open, Failed, Aborted} \cup Nat

\* Where the encoder is among the members.
Placed ==
  /\ pc # "over" => encoded = Open
  /\ pc \in {"preamble", "preamble flush"} => edx = 0
  /\ pc = "root" => edx \in 0 .. RootEnd
  /\ pc = "bitmap flush" => edx = RootEnd /\ HasExtensions
  /\ pc = "additions" => edx \in RootEnd .. N /\ HasExtensions
  /\ pc # "over" /\ chunks # <<>> =>
       /\ \/ pc = "root" /\ edx < RootEnd
          \/ pc = "additions" /\ edx < N
       /\ has[edx] = "coded"

\* The octets counted are those put out.
CountedInv ==
  ~failed => /\ pc # "over" => computed_size = produced
             /\ encoded >= 0 => encoded = produced

\* The members the encoder has been through are in the output or rightly left out.
Passed ==
  pc # "over" =>
    /\ written = {e \in 0 .. edx - 1 : has[e] = "coded"}
    /\ \A e \in 0 .. edx - 1 : /\ has[e] # "broken"
                               /\ ~There(e) => El(e).optional

Announced(members) == {e \in members : El(e).optional /\ There(e)}

\* The presence bits are those of the structure.
Presence ==
  ~failed =>
    /\ pc \in {"root", "bitmap flush"} =>
         extended = HasExtensions /\ claimed = Announced(Root)
    /\ pc = "additions" => extended = HasExtensions /\ claimed = Announced(0 .. N - 1)

IInv ==
  SinkInv /\ Typed /\ Placed /\ CountedInv /\ Passed /\ Presence /\ SelfDescribing

\* A member whose value is its default one may be missing.
LEMMA DefaultsAreOptional ==
  ASSUME Typed, NEW e \in 0 .. N - 1, has[e] = "default"
  PROVE  El(e).optional
<1>1. has[e] \in Statuses(e)
  BY DEF Typed
<1>2. El(e).defaulted
  BY <1>1 DEF Statuses
<1> QED BY <1>2, TableAssumption

\* The structure is not written to, so nor does presence change.
LEMMA SamePresence ==
  ASSUME has' = has
  PROVE  /\ \A e : There(e)' = There(e)
         /\ HasExtensions' = HasExtensions
         /\ \A members : Announced(members)' = Announced(members)
BY DEF There, HasExtensions, Announced

\* The encoder begins with it.
LEMMA InitHolds == Init => IInv
<1> SUFFICES ASSUME Init PROVE IInv
  OBVIOUS
<1>1. SinkInv /\ failed = FALSE /\ produced = 0
  BY InitSinkHolds DEF Init, InitSink
<1>2. /\ edx = 0 /\ chunks = <<>> /\ computed_size = 0 /\ extended = FALSE /\ claimed = {}
      /\ written = {} /\ encoded = Open
      /\ pc = IF PreambleBits > 0 THEN "preamble" ELSE "root"
  BY DEF Init
<1>3. Typed
  <2>1. <<>> \in Seq(Nat)
    OBVIOUS
  <2>2. /\ has \in [0 .. N - 1 -> {"absent", "coded", "broken", "default"}]
        /\ \A e \in 0 .. N - 1 : has[e] \in Statuses(e)
    BY DEF Init
  <2>3. edx \in 0 .. N /\ computed_size \in Nat
    BY <1>2, Table
  <2>4. pc \in Phases
    BY <1>2 DEF Phases
  <2> QED BY <1>2, <2>1, <2>2, <2>3, <2>4 DEF Typed
<1>4. Placed
  BY <1>2, Table DEF Placed
<1>5. CountedInv /\ SelfDescribing
  BY <1>1, <1>2 DEF CountedInv, SelfDescribing, Open
<1>6. Passed
  <2>1. 0 .. 0 - 1 = {}
    OBVIOUS
  <2> QED BY <1>2, <2>1 DEF Passed
<1>7. Presence
  <2>1. CASE PreambleBits > 0
    BY <1>2, <2>1 DEF Presence
  <2>2. CASE ~(PreambleBits > 0)
    <3>1. PreambleBits = 0
      BY <2>2, Preamble
    <3>2. Additions = {} /\ {e \in Root : El(e).optional} = {}
      BY <3>1, Preamble, Table
    <3>3. ~HasExtensions /\ Announced(Root) = {}
      BY <3>2 DEF HasExtensions, Announced
    <3>4. HasExtensions = FALSE
      BY <3>3 DEF HasExtensions
    <3> QED BY <1>2, <2>2, <3>3, <3>4 DEF Presence
  <2> QED BY <2>1, <2>2
<1> QED BY <1>1, <1>3, <1>4, <1>5, <1>6, <1>7 DEF IInv

\* A call that is over: with an error, or after a failure of the output, nothing is
\* promised of the encoding.
LEMMA OverKeeps ==
  ASSUME IInv, SinkInv', pc' = "over", encoded' \in {Failed, Aborted},
         UNCHANGED <<has, edx, chunks, computed_size, extended, claimed, written>>
  PROVE  IInv'
<1>1. ~(encoded' >= 0)
  BY DEF Failed, Aborted
<1>2. Typed'
  BY DEF IInv, Typed, Phases, Statuses
<1>3. Placed' /\ CountedInv' /\ Passed' /\ Presence' /\ SelfDescribing'
  BY <1>1 DEF Placed, CountedInv, Passed, Presence, SelfDescribing
<1> QED BY <1>2, <1>3 DEF IInv

\* IInv over the start of the preamble.
LEMMA StartPreambleKeeps ==
  ASSUME IInv, StartPreamble
  PROVE  IInv'
<1>1. CASE Accept(0) /\ pc' = "preamble flush" /\
           UNCHANGED <<has, edx, chunks, computed_size, extended, claimed, written, encoded>>
  <2>1. pc = "preamble" /\ encoded = Open
    BY DEF StartPreamble, IInv, Placed
  <2>2. SinkInv' /\ produced' = produced /\ failed' = failed
    <3>1. SinkInv' /\ produced' = produced + 0 /\ failed' = failed
      BY <1>1, AcceptKeeps DEF IInv
    <3> QED BY <3>1 DEF IInv, SinkInv
  <2>3. Typed'
    BY <1>1 DEF IInv, Typed, Phases, Statuses
  <2>4. Placed'
    BY <1>1, <2>1 DEF IInv, Placed
  <2>5. CountedInv' /\ Presence' /\ SelfDescribing'
    BY <1>1, <2>1, <2>2 DEF IInv, CountedInv, Presence, SelfDescribing, Open
  <2>6. Passed'
    BY <1>1, <2>1 DEF IInv, Passed, There
  <2> QED BY <2>2, <2>3, <2>4, <2>5, <2>6 DEF IInv
<1>2. CASE Refuse /\ Over(IF Extensible THEN Aborted ELSE Failed)
  <2>1. SinkInv'
    BY <1>2, RefuseKeeps DEF IInv
  <2> QED BY <1>2, <2>1, OverKeeps DEF Over
<1> QED BY <1>1, <1>2 DEF StartPreamble

\* IInv over the flushing of the preamble.
LEMMA FlushPreambleKeeps ==
  ASSUME IInv, FlushPreamble
  PROVE  IInv'
<1>1. /\ pc = "preamble flush" /\ pc' = "root" /\ encoded = Open /\ edx = 0 /\ chunks = <<>>
      /\ UNCHANGED <<has, edx, chunks, written, encoded>>
  BY DEF FlushPreamble, IInv, Placed
<1>2. Octets(PreambleBits) \in Nat
  BY Preamble, OctetsType
<1>3. /\ SinkInv' /\ computed_size' \in Nat /\ extended' \in BOOLEAN /\ claimed' \subseteq 0 .. N - 1
      /\ ~failed' => computed_size' = produced' /\ extended' = HasExtensions /\ claimed' = Announced(Root)
  <2>1. CASE /\ Accept(Octets(PreambleBits))
             /\ computed_size' = Counted(Octets(PreambleBits))
             /\ extended' = HasExtensions
             /\ claimed' = {e \in Root : El(e).optional /\ There(e)}
    <3>1. SinkInv' /\ produced' = produced + Octets(PreambleBits) /\ failed' = failed
      BY <1>2, <2>1, AcceptKeeps DEF IInv
    <3>2. computed_size \in Nat /\ (~failed => computed_size = produced)
      BY <1>1 DEF IInv, Typed, CountedInv
    <3>3. claimed' = Announced(Root) /\ claimed' \subseteq 0 .. N - 1 /\ extended' \in BOOLEAN
      BY <2>1, Table DEF Announced, HasExtensions
    <3> HIDE DEF Octets
    <3> QED BY <1>2, <2>1, <3>1, <3>2, <3>3 DEF Counted
  <2>2. CASE Refuse /\ UNCHANGED <<computed_size, extended, claimed>>
    BY <2>2, RefuseKeeps DEF IInv, Typed
  <2> QED BY <2>1, <2>2 DEF FlushPreamble
<1>4. Typed'
  BY <1>1, <1>3 DEF IInv, Typed, Phases, Statuses
<1>5. Placed'
  <2>1. 0 \in 0 .. RootEnd
    BY Table
  <2> QED BY <1>1, <2>1 DEF Placed
<1>6. CountedInv' /\ SelfDescribing'
  <2>1. ~(encoded' >= 0)
    <3>1. encoded' = Open
      BY <1>1
    <3> QED BY <3>1 DEF Open
  <2>2. ~failed' => computed_size' = produced'
    BY <1>3
  <2> QED BY <2>1, <2>2 DEF CountedInv, SelfDescribing
<1>7. Passed'
  BY <1>1 DEF IInv, Passed, There
<1>8. Presence'
  BY <1>1, <1>3, SamePresence DEF Presence
<1> QED BY <1>3, <1>4, <1>5, <1>6, <1>7, <1>8 DEF IInv

-----------------------------------------------------------------------------
(***************************************************************************)
(* The members.                                                            *)
(***************************************************************************)
\* One more member has been passed, and what is in the output grows with it.
LEMMA OneMore ==
  ASSUME Typed, Placed, Passed, pc # "over", edx \in 0 .. N - 1,
         has' = has, edx' = edx + 1, has[edx] # "broken", ~There(edx) => El(edx).optional,
         written' = written \cup (IF has[edx] = "coded" THEN {edx} ELSE {})
  PROVE  Passed'
<1>1. edx \in Nat /\ 0 .. (edx + 1) - 1 = (0 .. edx - 1) \cup {edx}
  BY Table
<1>2. /\ written = {e \in 0 .. edx - 1 : has[e] = "coded"}
      /\ \A e \in 0 .. edx - 1 : has[e] # "broken" /\ (~There(e) => El(e).optional)
  BY DEF Passed
<1>3. written' = {e \in 0 .. (edx + 1) - 1 : has[e] = "coded"}
  BY <1>1, <1>2
<1>4. \A e \in 0 .. (edx + 1) - 1 : has[e] # "broken" /\ (~There(e) => El(e).optional)
  BY <1>1, <1>2
<1> HIDE DEF El
<1> QED BY <1>3, <1>4 DEF Passed, There

\* The phase does not change, nor what has been announced.
LEMMA SameAnnounced ==
  ASSUME Presence, UNCHANGED <<has, pc, extended, claimed, failed>>
  PROVE  Presence'
BY SamePresence DEF Presence

\* The two loops over members.
Loop(phase, last) ==
  \/ phase = "root" /\ last = RootEnd - 1
  \/ phase = "additions" /\ last = N - 1

\* The member a loop is at, and the one after it.
LEMMA LoopPlace ==
  ASSUME Typed, Placed, NEW phase, NEW last, Loop(phase, last), pc = phase, edx <= last
  PROVE  /\ pc # "over" /\ encoded = Open /\ pc \in {"root", "additions"} /\ edx \in 0 .. N - 1
         /\ edx + 1 \in 0 .. N
         /\ pc = "root" => edx < RootEnd /\ edx + 1 \in 0 .. RootEnd
         /\ pc = "additions" => HasExtensions /\ edx < N /\ edx + 1 \in RootEnd .. N
<1>1. /\ pc \in {"root", "additions"} /\ edx \in 0 .. N /\ N \in Nat /\ RootEnd \in 0 .. N
      /\ pc = "root" => edx \in 0 .. RootEnd /\ edx <= RootEnd - 1
      /\ pc = "additions" => edx \in RootEnd .. N /\ edx <= N - 1 /\ HasExtensions
  BY Table DEF Typed, Placed, Loop
<1>2. pc # "over" /\ encoded = Open
  BY <1>1 DEF Placed
<1> HIDE DEF N, RootEnd
<1> QED BY <1>1, <1>2

\* IInv over a member that is absent.
LEMMA PassOverKeeps ==
  ASSUME IInv, NEW phase, NEW last,
         Loop(phase, last),
         PassOver(phase, last)
  PROVE  IInv'
<1>1. /\ pc = phase /\ edx <= last /\ chunks = <<>> /\ chunks' = <<>>
      /\ UNCHANGED <<has, pc, computed_size, extended, claimed, written, encoded, sink>>
      /\ edx' = edx + 1
  BY DEF PassOver, At
<1>2. ~There(edx) /\ (has[edx] = "default" \/ El(edx).optional)
  BY DEF PassOver
<1>3. /\ pc # "over" /\ encoded = Open /\ edx \in 0 .. N - 1 /\ edx' \in 0 .. N
      /\ pc = "root" => edx' \in 0 .. RootEnd
      /\ pc = "additions" => edx' \in RootEnd .. N
      /\ pc \in {"root", "additions"}
  BY <1>1, LoopPlace DEF IInv
<1>4. SinkInv' /\ failed' = failed /\ produced' = produced
  BY <1>1, SinkStays DEF IInv
<1>5. Typed'
  BY <1>1, <1>3 DEF IInv, Typed, Statuses
<1>6. Placed'
  <2>1. HasExtensions' = HasExtensions
    BY <1>1, SamePresence
  <2> QED BY <1>1, <1>3, <2>1 DEF IInv, Placed
<1>7. CountedInv' /\ SelfDescribing'
  <2>1. ~(encoded' >= 0)
    BY <1>1, <1>3 DEF Open
  <2> QED BY <1>1, <1>4, <2>1 DEF IInv, CountedInv, SelfDescribing
<1>8. Passed'
  <2>1. has[edx] # "broken" /\ has[edx] # "coded"
    BY <1>2 DEF There
  <2>2. El(edx).optional
    <3>1. CASE has[edx] = "default"
      BY <1>3, <3>1, DefaultsAreOptional DEF IInv
    <3> QED BY <1>2, <3>1
  <2>3. written' = written \cup (IF has[edx] = "coded" THEN {edx} ELSE {})
    BY <1>1, <2>1
  <2> QED BY <1>1, <1>3, <2>1, <2>2, <2>3, OneMore DEF IInv
<1>9. Presence'
  BY <1>1, <1>4, SameAnnounced DEF IInv
<1> QED BY <1>4, <1>5, <1>6, <1>7, <1>8, <1>9 DEF IInv

\* IInv over a mandatory member that is missing.
LEMMA RejectMemberKeeps ==
  ASSUME IInv, NEW phase, NEW last, RejectMember(phase, last)
  PROVE  IInv'
<1>1. SinkInv'
  BY SinkStays DEF RejectMember, IInv
<1> QED BY <1>1, OverKeeps DEF RejectMember, Over

\* IInv over the call of a member encoder.
LEMMA StartMemberKeeps ==
  ASSUME IInv, NEW phase, NEW last,
         Loop(phase, last),
         NEW outputs, edx \in 0 .. N - 1 /\ pc = phase => outputs \in Seq(Nat),
         StartMember(phase, last, outputs)
  PROVE  IInv'
<1>1. /\ pc = phase /\ edx <= last /\ has[edx] = "coded" /\ chunks' = outputs
      /\ UNCHANGED <<has, pc, edx, computed_size, extended, claimed, written, encoded, sink>>
  BY DEF StartMember, At
<1>2. /\ pc # "over" /\ encoded = Open /\ edx \in 0 .. N - 1
      /\ pc = "root" => edx < RootEnd
      /\ pc = "additions" => edx < N
      /\ pc \in {"root", "additions"}
  BY <1>1, LoopPlace DEF IInv
<1>3. SinkInv' /\ failed' = failed /\ produced' = produced
  BY <1>1, SinkStays DEF IInv
<1>4. Typed'
  BY <1>1, <1>2 DEF IInv, Typed, Statuses
<1>5. Placed'
  <2>1. HasExtensions' = HasExtensions
    BY <1>1, SamePresence
  <2>2. has'[edx'] = "coded" /\ edx' = edx /\ pc' = pc /\ encoded' = encoded
    BY <1>1
  <2>3. /\ pc = "root" => edx \in 0 .. RootEnd
        /\ pc = "additions" => edx \in RootEnd .. N /\ HasExtensions
    BY <1>1 DEF IInv, Placed
  <2> QED BY <1>2, <2>1, <2>2, <2>3 DEF Placed
<1>6. CountedInv' /\ SelfDescribing'
  <2>1. ~(encoded' >= 0)
    BY <1>1, <1>2 DEF Open
  <2> QED BY <1>1, <1>3, <2>1 DEF IInv, CountedInv, SelfDescribing
<1>7. Passed'
  BY <1>1 DEF IInv, Passed, There
<1>8. Presence'
  BY <1>1, <1>3, SameAnnounced DEF IInv
<1> QED BY <1>3, <1>4, <1>5, <1>6, <1>7, <1>8 DEF IInv

\* IInv over the call for a member of the root.
LEMMA EncodeMemberKeeps ==
  ASSUME IInv, EncodeMember
  PROVE  IInv'
<1>1. CASE StartMember("root", RootEnd - 1, El(edx).chunks)
  <2>1. edx \in 0 .. N - 1 => El(edx).chunks \in Seq(Nat)
    BY TableAssumption
  <2>2. Loop("root", RootEnd - 1)
    BY DEF Loop
  <2> QED BY <1>1, <2>1, <2>2, StartMemberKeeps
<1>2. CASE StartMember("additions", N - 1, OpenType(edx))
  <2>1. edx \in 0 .. N - 1 /\ pc = "additions" => OpenType(edx) \in Seq(Nat)
    <3>1. edx \in 0 .. N - 1 /\ pc = "additions" => edx \in Additions
      BY Table DEF Additions, IInv, Placed
    <3> QED BY <3>1, OpenTypeOK
  <2>2. Loop("additions", N - 1)
    BY DEF Loop
  <2> QED BY <1>2, <2>1, <2>2, StartMemberKeeps
<1> QED BY <1>1, <1>2 DEF EncodeMember

\* IInv over one call of the output callback by a member encoder.
LEMMA OutputChunkKeeps ==
  ASSUME IInv, OutputChunk
  PROVE  IInv'
<1>1. CASE Refuse /\ Over(Failed)
  <2>1. SinkInv'
    BY <1>1, RefuseKeeps DEF IInv
  <2> QED BY <1>1, <2>1, OverKeeps DEF Over
<1>2. CASE /\ Accept(Head(chunks))
           /\ computed_size' = computed_size + Head(chunks)
           /\ chunks' = Tail(chunks)
           /\ IF Len(chunks) = 1 THEN edx' = edx + 1 /\ written' = written \cup {edx}
              ELSE UNCHANGED <<edx, written>>
           /\ UNCHANGED <<has, pc, extended, claimed, encoded>>
  <2>1. /\ chunks \in Seq(Nat) /\ chunks # <<>> /\ pc \in {"root", "additions"} /\ encoded = Open
        /\ has[edx] = "coded" /\ pc # "over"
    BY DEF OutputChunk, IInv, Typed, Placed
  <2>2. /\ Head(chunks) \in Nat /\ Tail(chunks) \in Seq(Nat)
        /\ Len(chunks) = 1 => Tail(chunks) = <<>>
    <3>1. Head(chunks) \in Nat /\ Tail(chunks) \in Seq(Nat) /\ Len(Tail(chunks)) = Len(chunks) - 1
      BY <2>1, HeadTailProperties
    <3>2. Len(Tail(chunks)) = 0 => Tail(chunks) = <<>>
      BY <3>1, EmptySeq
    <3> QED BY <3>1, <3>2
  <2>3. PICK n \in Nat : n = Head(chunks)
    BY <2>2
  <2>4. SinkInv' /\ produced' = produced + n /\ failed' = failed
    BY <1>2, <2>3, AcceptKeeps DEF IInv
  <2>5. /\ edx \in 0 .. N - 1
        /\ pc = "root" => edx \in 0 .. RootEnd - 1
        /\ pc = "additions" => edx \in RootEnd .. N - 1
    <3>1. /\ pc = "root" => edx \in 0 .. RootEnd /\ edx < RootEnd
          /\ pc = "additions" => edx \in RootEnd .. N /\ edx < N
      BY <2>1 DEF IInv, Placed
    <3>2. N \in Nat /\ RootEnd \in 0 .. N
      BY Table
    <3> HIDE DEF N, RootEnd
    <3> QED BY <2>1, <3>1, <3>2
  <2>6. computed_size' \in Nat /\ (~failed' => computed_size' = produced')
    BY <1>2, <2>1, <2>3, <2>4 DEF IInv, Typed, CountedInv
  <2>7. /\ edx' \in 0 .. N /\ written' \subseteq 0 .. N - 1
        /\ pc = "root" => edx' \in 0 .. RootEnd
        /\ pc = "additions" => edx' \in RootEnd .. N
        /\ chunks' # <<>> => edx' = edx
    <3>1. written \subseteq 0 .. N - 1 /\ N \in Nat /\ RootEnd \in 0 .. N
      BY Table DEF IInv, Typed
    <3> HIDE DEF N, RootEnd
    <3>2. CASE Len(chunks) = 1
      <4>1. edx' = edx + 1 /\ written' = written \cup {edx} /\ chunks' = <<>>
        BY <1>2, <2>2, <3>2
      <4> QED BY <2>1, <2>5, <3>1, <4>1
    <3>3. CASE Len(chunks) # 1
      <4>1. edx' = edx /\ written' = written
        BY <1>2, <3>3
      <4> QED BY <2>1, <2>5, <3>1, <4>1
    <3> QED BY <3>2, <3>3
  <2>8. Typed'
    BY <1>2, <2>2, <2>6, <2>7 DEF IInv, Typed, Statuses
  <2>9. Placed'
    BY <1>2, <2>1, <2>5, <2>7, SamePresence DEF IInv, Placed
  <2>10. CountedInv' /\ SelfDescribing'
    <3>1. ~(encoded' >= 0)
      BY <1>2, <2>1 DEF Open
    <3> QED BY <2>6, <3>1 DEF CountedInv, SelfDescribing
  <2>11. Passed'
    <3>1. CASE Len(chunks) = 1
      <4>1. written' = written \cup (IF has[edx] = "coded" THEN {edx} ELSE {})
        BY <1>2, <2>1, <3>1
      <4>2. has[edx] # "broken" /\ There(edx)
        BY <2>1 DEF There
      <4> QED BY <1>2, <2>1, <2>5, <3>1, <4>1, <4>2, OneMore DEF IInv
    <3>2. CASE Len(chunks) # 1
      BY <1>2, <3>2 DEF IInv, Passed, There
    <3> QED BY <3>1, <3>2
  <2>12. Presence'
    BY <1>2, <2>4, SameAnnounced DEF IInv
  <2> QED BY <2>4, <2>8, <2>9, <2>10, <2>11, <2>12 DEF IInv
<1> QED BY <1>1, <1>2 DEF OutputChunk

-----------------------------------------------------------------------------
(***************************************************************************)
(* The bitmap of the additions, and the end.                               *)
(***************************************************************************)
\* Presence among all members is presence in the root and among the additions.
LEMMA AnnouncedAll ==
  Announced(0 .. N - 1) = Announced(Root) \cup {e \in Additions : There(e)}
<1>1. \A e \in Additions : El(e).optional
  BY Table, TableAssumption
<1>2. 0 .. N - 1 = Root \cup Additions
  BY Table
<1> HIDE DEF Root, Additions, There, N
<1> QED BY <1>1, <1>2 DEF Announced

\* IInv over the start of the extension bitmap.
LEMMA StartBitmapKeeps ==
  ASSUME IInv, StartBitmap
  PROVE  IInv'
<1>1. pc = "root" /\ edx = RootEnd /\ chunks = <<>> /\ HasExtensions /\ encoded = Open
  BY DEF StartBitmap, IInv, Placed
<1>2. CASE Refuse /\ Over(Failed)
  <2>1. SinkInv'
    BY <1>2, RefuseKeeps DEF IInv
  <2> QED BY <1>2, <2>1, OverKeeps DEF Over
<1>3. CASE Accept(0) /\ pc' = "bitmap flush" /\
           UNCHANGED <<has, edx, chunks, computed_size, extended, claimed, written, encoded>>
  <2>1. SinkInv' /\ produced' = produced /\ failed' = failed
    <3>1. SinkInv' /\ produced' = produced + 0 /\ failed' = failed
      BY <1>3, AcceptKeeps DEF IInv
    <3> QED BY <3>1 DEF IInv, SinkInv
  <2>2. Typed'
    BY <1>3 DEF IInv, Typed, Phases, Statuses
  <2>3. Placed'
    <3>1. HasExtensions' = HasExtensions
      BY <1>3, SamePresence
    <3> QED BY <1>1, <1>3, <3>1 DEF Placed
  <2>4. CountedInv' /\ SelfDescribing'
    <3>1. encoded' = Open
      BY <1>1, <1>3
    <3>2. ~(encoded' >= 0)
      BY <3>1 DEF Open
    <3> QED BY <1>1, <1>3, <2>1, <3>2 DEF IInv, CountedInv, SelfDescribing
  <2>5. Passed'
    BY <1>1, <1>3 DEF IInv, Passed, There
  <2>6. Presence'
    BY <1>1, <1>3, <2>1, SamePresence DEF IInv, Presence
  <2> QED BY <2>1, <2>2, <2>3, <2>4, <2>5, <2>6 DEF IInv
<1> QED BY <1>2, <1>3 DEF StartBitmap

\* IInv over its flushing.
LEMMA FlushBitmapKeeps ==
  ASSUME IInv, FlushBitmap
  PROVE  IInv'
<1> DEFINE n == Octets(16 + N - RootEnd)
<1>1. /\ pc = "bitmap flush" /\ pc' = "additions" /\ encoded = Open
      /\ edx = RootEnd /\ HasExtensions /\ chunks = <<>>
      /\ UNCHANGED <<has, edx, chunks, extended, written, encoded>>
  BY DEF FlushBitmap, IInv, Placed
<1>2. n \in Nat
  <2>1. 16 + N - RootEnd \in Nat
    BY Table
  <2> QED BY <2>1, OctetsType
<1>3. /\ SinkInv' /\ computed_size' \in Nat /\ claimed' \subseteq 0 .. N - 1
      /\ ~failed' => /\ computed_size' = produced' /\ extended = HasExtensions
                     /\ claimed' = Announced(0 .. N - 1)
  <2>1. CASE /\ Accept(n)
             /\ computed_size' = Counted(n)
             /\ claimed' = claimed \cup {e \in Additions : There(e)}
    <3> HIDE DEF n
    <3>1. SinkInv' /\ produced' = produced + n /\ failed' = failed
      BY <1>2, <2>1, AcceptKeeps DEF IInv
    <3>2. computed_size \in Nat /\ (~failed => computed_size = produced)
      BY <1>1 DEF IInv, Typed, CountedInv
    <3>3. claimed' \subseteq 0 .. N - 1
      BY <2>1, Table DEF IInv, Typed
    <3>4. ~failed => extended = HasExtensions /\ claimed = Announced(Root)
      BY <1>1 DEF IInv, Presence
    <3>5. ~failed => claimed' = Announced(0 .. N - 1)
      BY <2>1, <3>4, AnnouncedAll
    <3> QED BY <1>2, <2>1, <3>1, <3>2, <3>3, <3>4, <3>5 DEF Counted
  <2>2. CASE Refuse /\ UNCHANGED <<computed_size, claimed>>
    BY <2>2, RefuseKeeps DEF IInv, Typed
  <2> QED BY <2>1, <2>2 DEF FlushBitmap
<1>4. Typed'
  BY <1>1, <1>3 DEF IInv, Typed, Phases, Statuses
<1>5. Placed'
  <2>1. RootEnd \in RootEnd .. N
    BY Table
  <2>2. HasExtensions' = HasExtensions
    BY <1>1, SamePresence
  <2> QED BY <1>1, <2>1, <2>2 DEF Placed
<1>6. CountedInv' /\ SelfDescribing'
  <2>1. encoded' = Open
    BY <1>1
  <2>2. ~(encoded' >= 0)
    BY <2>1 DEF Open
  <2>3. ~failed' => computed_size' = produced'
    BY <1>3
  <2> QED BY <2>2, <2>3 DEF CountedInv, SelfDescribing
<1>7. Passed'
  BY <1>1 DEF IInv, Passed, There
<1>8. Presence'
  BY <1>1, <1>3, SamePresence DEF Presence
<1> QED BY <1>3, <1>4, <1>5, <1>6, <1>7, <1>8 DEF IInv

\* When all members have been passed, the bits describe them.
LEMMA Described ==
  ASSUME IInv, Encoded, ~failed
  PROVE  /\ claimed = {e \in written : El(e).optional}
         /\ extended <=> claimed \cap Additions # {}
         /\ \A e \in Root : ~El(e).optional => e \in written
<1>1. /\ Root \subseteq 0 .. N - 1 /\ Additions \subseteq 0 .. N - 1 /\ Root \cap Additions = {}
      /\ Root = 0 .. RootEnd - 1
  BY Table DEF Root
<1>2. /\ pc \in {"root", "additions"}
      /\ written = {e \in 0 .. edx - 1 : has[e] = "coded"}
      /\ \A e \in 0 .. edx - 1 : has[e] # "broken" /\ (~There(e) => El(e).optional)
      /\ extended = HasExtensions
  BY DEF Encoded, IInv, Passed, Presence
<1>3. \A e \in 0 .. edx - 1 : There(e) <=> has[e] = "coded"
  BY <1>2 DEF There
<1>4. CASE pc = "root"
  <2>1. edx = RootEnd /\ ~HasExtensions /\ claimed = Announced(Root)
    BY <1>4 DEF Encoded, IInv, Presence
  <2>2. claimed = {e \in written : El(e).optional}
    BY <1>1, <1>2, <1>3, <2>1 DEF Announced
  <2>3. claimed \cap Additions = {}
    BY <1>1, <2>1 DEF Announced
  <2> QED BY <1>1, <1>2, <1>3, <2>1, <2>2, <2>3
<1>5. CASE pc = "additions"
  <2>1. edx = N /\ HasExtensions /\ claimed = Announced(0 .. N - 1)
    BY <1>5 DEF Encoded, IInv, Presence, Placed
  <2>2. claimed = {e \in written : El(e).optional}
    BY <1>2, <1>3, <2>1 DEF Announced
  <2>3. claimed \cap Additions # {}
    <3>1. PICK e \in Additions : There(e)
      BY <2>1 DEF HasExtensions
    <3>2. El(e).optional
      BY <1>1, TableAssumption
    <3> QED BY <1>1, <2>1, <3>1, <3>2 DEF Announced
  <2> QED BY <1>1, <1>2, <1>3, <2>1, <2>2, <2>3
<1> QED BY <1>2, <1>4, <1>5

\* IInv over the end of the members.
LEMMA EncodedKeeps ==
  ASSUME IInv, Encoded
  PROVE  IInv'
<1>1. /\ pc' = "over" /\ encoded' = computed_size /\ pc # "over"
      /\ UNCHANGED <<has, edx, chunks, computed_size, extended, claimed, written, sink>>
  BY DEF Encoded, Over
<1>2. SinkInv' /\ failed' = failed /\ produced' = produced
  BY <1>1, SinkStays DEF IInv
<1>3. computed_size \in Nat /\ (~failed => computed_size = produced)
  BY <1>1 DEF IInv, Typed, CountedInv
<1>4. Typed'
  BY <1>1, <1>3 DEF IInv, Typed, Phases, Statuses
<1>5. Placed' /\ Passed' /\ Presence' /\ CountedInv'
  BY <1>1, <1>2, <1>3 DEF Placed, Passed, Presence, CountedInv
<1>6. SelfDescribing'
  <2>1. ~failed => /\ claimed = {e \in written : El(e).optional}
                   /\ extended <=> claimed \cap Additions # {}
                   /\ \A e \in Root : ~El(e).optional => e \in written
    BY Described
  <2> HIDE DEF El, Root, Additions
  <2> QED BY <1>1, <1>2, <2>1 DEF SelfDescribing
<1> QED BY <1>2, <1>4, <1>5, <1>6 DEF IInv

-----------------------------------------------------------------------------
(***************************************************************************)
(* The theorems.                                                           *)
(***************************************************************************)
\* Every step keeps the invariant.
LEMMA Inductive ==
  ASSUME IInv, [Next]_vars
  PROVE  IInv'
<1>1. CASE UNCHANGED vars
  <2>1. /\ UNCHANGED <<has, pc, edx, chunks, computed_size, extended, claimed, written, encoded>>
        /\ UNCHANGED sink
    BY <1>1 DEF vars, encoder
  <2>2. SinkInv' /\ failed' = failed /\ produced' = produced
    BY <2>1, SinkStays DEF IInv
  <2>3. Typed' /\ Placed' /\ CountedInv'
    BY <2>1, <2>2, SamePresence DEF IInv, Typed, Placed, CountedInv, Statuses
  <2>4. Passed' /\ Presence' /\ SelfDescribing'
    BY <2>1, <2>2, SameAnnounced DEF IInv, Passed, SelfDescribing, There
  <2> QED BY <2>2, <2>3, <2>4 DEF IInv
<1>2. CASE StartPreamble \/ FlushPreamble
  BY <1>2, StartPreambleKeeps, FlushPreambleKeeps
<1>3. CASE OmitMember
  <2>1. Loop("root", RootEnd - 1) /\ Loop("additions", N - 1)
    BY DEF Loop
  <2> QED BY <1>3, <2>1, PassOverKeeps DEF OmitMember
<1>4. CASE RefuseMember
  BY <1>4, RejectMemberKeeps DEF RefuseMember
<1>5. CASE EncodeMember \/ OutputChunk
  BY <1>5, EncodeMemberKeeps, OutputChunkKeeps
<1>6. CASE StartBitmap \/ FlushBitmap \/ Encoded
  BY <1>6, StartBitmapKeeps, FlushBitmapKeeps, EncodedKeeps
<1> QED BY <1>1, <1>2, <1>3, <1>4, <1>5, <1>6 DEF Next

\* It holds wherever an encoding gets.
LEMMA Invariance == Spec => []IInv
<1> QED BY InitHolds, Inductive, PTL DEF Spec

\* The variables of SEQUENCE_encode_oer and of the callbacks keep the types of the
\* code, for every table and structure; in particular no octet is stored that has
\* not been put out.
THEOREM TypeOKHolds == Spec => []TypeOK
<1>1. IInv => TypeOK
  <2> SUFFICES ASSUME IInv PROVE TypeOK
    OBVIOUS
  <2>1. capacity \in Nat /\ produced \in Nat /\ failed \in BOOLEAN /\ offered \in Nat
    BY DEF IInv, SinkInv
  <2>2. stored \subseteq 0 .. produced - 1
    <3>1. CASE kind = "callback"
      BY <3>1 DEF IInv, SinkInv
    <3>2. CASE kind = "fixed"
      <4>1. CASE stored = 0 .. produced - 1
        BY <4>1
      <4>2. CASE produced > offered /\ \E n \in 0 .. offered : stored = 0 .. n - 1
        BY <2>1, <4>2
      <4> QED BY <3>2, <4>1, <4>2 DEF IInv, SinkInv, FixedInv
    <3>3. CASE kind = "dynamic"
      BY <3>3 DEF IInv, SinkInv, DynamicInv
    <3> QED BY <3>1, <3>2, <3>3 DEF IInv, SinkInv
  <2> QED BY <2>1, <2>2 DEF TypeOK, IInv, Typed, Phases
<1> QED BY <1>1, Invariance, PTL

\* Whatever members are there, missing or have their default value, the presence
\* bits that SEQUENCE_encode_oer puts out are those of the members it puts out.
THEOREM SelfDescribingHolds == Spec => []SelfDescribing
<1>1. IInv => SelfDescribing
  BY DEF IInv
<1> QED BY <1>1, Invariance, PTL

\* er.encoded is the number of octets the callback was given, as asn_encode_to_buffer
\* asserts.
THEOREM EncodedIsProducedHolds == Spec => []EncodedIsProduced
<1>1. IInv => EncodedIsProduced
  BY DEF IInv, CountedInv, EncodedIsProduced
<1> QED BY <1>1, Invariance, PTL

\* The caller's buffer of asn_encode_to_buffer, of any size, is never written beyond
\* its end, has no hole, and has the whole of an encoding that is no larger than it.
THEOREM BufferIsPrefixHolds == Spec => []BufferIsPrefix
<1>1. IInv => BufferIsPrefix
  <2> SUFFICES ASSUME IInv, kind = "fixed"
               PROVE  /\ \E n \in 0 .. offered : stored = 0 .. n - 1
                      /\ encoded >= 0 /\ encoded <= offered => stored = 0 .. encoded - 1
    BY DEF BufferIsPrefix
  <2>1. FixedInv /\ ~failed /\ produced \in Nat /\ offered \in Nat
    BY DEF IInv, SinkInv
  <2>2. encoded >= 0 => encoded = produced
    BY <2>1 DEF IInv, CountedInv
  <2>3. CASE produced <= offered /\ stored = 0 .. produced - 1
    <3>1. produced \in 0 .. offered
      BY <2>1, <2>3
    <3> QED BY <2>2, <2>3, <3>1
  <2>4. CASE produced > offered /\ \E n \in 0 .. offered : stored = 0 .. n - 1
    BY <2>1, <2>2, <2>4
  <2> QED BY <2>1, <2>3, <2>4 DEF FixedInv
<1> QED BY <1>1, Invariance, PTL

\* The buffer of asn_encode_to_new_buffer, of any first size, has all that was put
\* out and room for the zero at its end, or is given up.
THEOREM NewBufferIsWholeHolds == Spec => []NewBufferIsWhole
<1>1. IInv => NewBufferIsWhole
  BY DEF IInv, SinkInv, DynamicInv, NewBufferIsWhole
<1> QED BY <1>1, Invariance, PTL
=============================================================================
