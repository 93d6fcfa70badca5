--------------------------- MODULE EscapingProofs ----------------------------
(***************************************************************************)
(* The escaped byte stream, for every set of bytes, every capacity of the  *)
(* transport and every length of a connection.                             *)
(***************************************************************************)
EXTENDS Escaping, SequenceTheorems, WellFoundedInduction, TLAPS

\* A core in reset is not offered a byte, and what a core is offered is a byte.
Offer == out_valid => ~reset /\ dnlink_data \in Byte

IInv == TypeOK /\ Offer

LEMMA InitIInv == Init => IInv
  <1> SUFFICES ASSUME Init PROVE IInv
    OBVIOUS
  <1>1. link \in Seq(Byte) /\ taken \in Seq(Byte) /\ sent \in Seq(Byte) /\ Len(link) = 0
    BY DEF Init
  <1>2. Len(link) <= LinkSize
    BY <1>1, EscapingAssumption
  <1>3. Offer
    BY DEF Init, Offer
  <1> QED BY <1>1, <1>2, <1>3 DEF Init, IInv, TypeOK

\* What the host library and the transport do leaves the decoder alone.
LEMMA HostStep ==
  ASSUME IInv, Open \/ SecondReset \/ SendEscaped \/ Close
                 \/ \E b \in Byte : SendPlain(b) \/ SendEscape(b)
  PROVE  IInv' /\ UNCHANGED <<decoderVars, taken>>
  <1>1. CASE Open
    BY <1>1, EscapingAssumption DEF Open, Send, IInv, TypeOK, Offer, decoderVars
  <1>2. CASE SecondReset
    BY <1>2, EscapingAssumption DEF SecondReset, Send, IInv, TypeOK, Offer, decoderVars
  <1>3. CASE SendEscaped
    BY <1>3, EscapingAssumption DEF SendEscaped, Send, IInv, TypeOK, Offer, decoderVars
  <1>4. CASE Close
    <2>1. PICK n \in 0..Len(link) : link' = SubSeq(link, 1, n)
      BY <1>4 DEF Close
    <2>2. link' \in Seq(Byte) /\ Len(link') = n
      BY <2>1, SubSeqProperties DEF IInv, TypeOK
    <2>3. Len(link') <= LinkSize
      BY <2>1, <2>2, EscapingAssumption, LenProperties DEF IInv, TypeOK
    <2> QED BY <1>4, <2>2, <2>3 DEF Close, IInv, TypeOK, Offer, decoderVars
  <1>5. ASSUME NEW b \in Byte, SendPlain(b) PROVE IInv' /\ UNCHANGED <<decoderVars, taken>>
    BY <1>5, EscapingAssumption DEF SendPlain, Send, IInv, TypeOK, Offer, decoderVars
  <1>6. ASSUME NEW b \in Byte, SendEscape(b) PROVE IInv' /\ UNCHANGED <<decoderVars, taken>>
    BY <1>6, EscapingAssumption DEF SendEscape, NeedsEscape, Send, IInv, TypeOK, Offer, decoderVars
  <1> QED BY <1>1, <1>2, <1>3, <1>4, <1>5, <1>6

\* An edge takes at most one byte out of the transport; a byte that the core does
\* not take stays.
LEMMA DecoderStep ==
  ASSUME IInv, NEW ready \in BOOLEAN, NoTransfer(ready) \/ Transfer(ready)
  PROVE  /\ state' \in {"normal_s", "escaping_s"}
         /\ out_valid' \in BOOLEAN /\ dnlink_data' \in Byte \cup {NoByte}
         /\ reset' \in BOOLEAN
         /\ Offer'
         /\ link' \in Seq(Byte) /\ Len(link') <= LinkSize
         /\ out_valid /\ ~ready => out_valid' /\ dnlink_data' = dnlink_data
  <1>1. CASE NoTransfer(ready)
    BY <1>1 DEF NoTransfer, IInv, TypeOK, Offer
  <1>2. CASE Transfer(ready)
    <2>1. link \in Seq(Byte) /\ link # <<>> /\ Len(link) <= LinkSize
      BY <1>2 DEF Transfer, IInv, TypeOK
    <2>2. Head(link) \in Byte /\ link' \in Seq(Byte) /\ Len(link') = Len(link) - 1
      BY <1>2, <2>1, HeadTailProperties DEF Transfer
    <2>3. Len(link') <= LinkSize
      BY <2>1, <2>2, LenProperties, EscapingAssumption
    <2>4. Decode(Head(link), ready) /\ in_ready(ready)
      BY <1>2 DEF Transfer
    <2> HIDE DEF IInv
    <2>5. state \in {"normal_s", "escaping_s"} /\ out_valid \in BOOLEAN /\ Offer
          /\ dnlink_data \in Byte \cup {NoByte}
      BY DEF IInv, TypeOK
    <2>6. state' \in {"normal_s", "escaping_s"} /\ reset' \in BOOLEAN
      BY <2>4 DEF Decode
    <2>7. out_valid' \in BOOLEAN /\ dnlink_data' \in Byte \cup {NoByte}
      BY <2>2, <2>4, <2>5 DEF Decode
    <2>8. Offer'
      BY <2>2, <2>4, <2>5, EscapingAssumption DEF Decode, NeedsEscape, Offer
    <2>9. ~(out_valid /\ ~ready)
      BY <2>4 DEF in_ready
    <2> QED BY <2>2, <2>3, <2>6, <2>7, <2>8, <2>9
  <1> QED BY <1>1, <1>2

LEMMA EdgeStep ==
  ASSUME IInv, ClkEdge
  PROVE  /\ IInv'
         /\ out_valid => \/ out_valid' /\ dnlink_data' = dnlink_data
                         \/ ~reset /\ taken' = Append(taken, dnlink_data)
  <1>1. PICK ready \in BOOLEAN :
          (NoTransfer(ready) \/ Transfer(ready)) /\ Core(ready) /\ UNCHANGED hostVars
    BY DEF ClkEdge
  <1>2. taken \in Seq(Byte) /\ Offer /\ out_valid \in BOOLEAN
    BY DEF IInv, TypeOK
  <1>3. out_valid /\ ready => ~reset /\ taken' = Append(taken, dnlink_data)
    BY <1>1, <1>2 DEF Core, Offer
  <1>4. taken' \in Seq(Byte)
    BY <1>1, <1>2 DEF Core, Offer
  <1>5. IInv'
    BY <1>1, <1>4, DecoderStep DEF IInv, TypeOK, hostVars
  <1> QED BY <1>1, <1>3, <1>5, DecoderStep

LEMMA NextIInv == ASSUME IInv, [Next]_vars PROVE IInv'
  <1>1. CASE UNCHANGED vars
    BY <1>1 DEF vars, decoderVars, hostVars, IInv, TypeOK, Offer
  <1>2. CASE ClkEdge
    BY <1>2, EdgeStep
  <1> QED BY <1>1, <1>2, HostStep DEF Next

LEMMA Invariance == Spec => []IInv
  <1>1. IInv /\ [][Next]_vars => []IInv
    BY NextIInv, PTL
  <1> QED BY <1>1, InitIInv, PTL DEF Spec

\* The registers of the decoder and the state of the library have their types, and
\* the transport never holds more than its capacity.
THEOREM TypeCorrect == Spec => []TypeOK
  BY Invariance, PTL DEF IInv

\* A byte that is offered to the core is held until the core takes it, over every
\* symbol that arrives in between, a reset symbol included.
THEOREM OfferIsHeld == Spec => OfferedByteIsHeld
  <1>1. IInv /\ [Next]_vars =>
          [out_valid => \/ out_valid' /\ dnlink_data' = dnlink_data
                        \/ ~reset /\ taken' = Append(taken, dnlink_data)]_vars
    <2> SUFFICES ASSUME IInv, Next
                 PROVE  out_valid => \/ out_valid' /\ dnlink_data' = dnlink_data
                                     \/ ~reset /\ taken' = Append(taken, dnlink_data)
      OBVIOUS
    <2> QED BY HostStep, EdgeStep DEF Next, decoderVars
  <1> QED BY <1>1, Invariance, PTL DEF Spec, OfferedByteIsHeld

-----------------------------------------------------------------------------
(***************************************************************************)
(* The integrity of a connection.  The readings of the bytes on their way  *)
(* are part of the invariant: there is one, and its end is what the host   *)
(* knows of it.  The definition of Reading picks that one, as there is no  *)
(* other; this takes an induction, by the least number that would differ.  *)
(***************************************************************************)
LEMMA LeastNumber ==
  ASSUME NEW T, T \subseteq Nat, T # {}
  PROVE  \E x \in T : \A y \in T : x <= y
  <1>1. IsWellFoundedOn(OpToRel(<, Nat), Nat)
    BY NatLessThanWellFounded
  <1>2. PICK x \in T : \A y \in T : ~ (<<y, x>> \in OpToRel(<, Nat))
    BY <1>1, WFMin
  <1>3. \A y \in T : ~(y < x)
    BY <1>2 DEF OpToRel
  <1> QED BY <1>3

\* What a reader may be, and the readings of bytes by a reader that starts as m.
Readers == [escaping : BOOLEAN, core : Seq(Byte)]

IsReading(read, m, bytes) ==
  /\ read \in [0..Len(bytes) -> Readers]
  /\ read[0] = m
  /\ \A i \in 1..Len(bytes) : read[i] = Reads(read[i - 1], bytes[i])

LEMMA OneReading ==
  ASSUME NEW read, NEW m, NEW bytes, Len(bytes) \in Nat, IsReading(read, m, bytes)
  PROVE  Reading(m, bytes) = read
  <1> DEFINE Step(r) == [i \in 0..Len(bytes) |-> IF i = 0 THEN m ELSE Reads(r[i - 1], bytes[i])]
             chosen == Reading(m, bytes)
  <1>1. chosen = CHOOSE r : r = Step(r)
    BY DEF Reading
  <1>2. read = Step(read)
    <2>1. \A i \in 0..Len(bytes) : read[i] = IF i = 0 THEN m ELSE Reads(read[i - 1], bytes[i])
      BY DEF IsReading
    <2> QED BY <2>1 DEF IsReading
  <1>3. chosen = Step(chosen)
    BY <1>1, <1>2
  <1> HIDE DEF chosen
  <1> DEFINE T == {i \in 0..Len(bytes) : chosen[i] # read[i]}
  <1>4. T = {}
    <2> SUFFICES ASSUME T # {} PROVE FALSE
      OBVIOUS
    <2>1. T \subseteq Nat
      OBVIOUS
    <2>2. PICK i \in T : \A j \in T : i <= j
      <3> HIDE DEF T
      <3> QED BY <2>1, LeastNumber
    <2>3. i \in 0..Len(bytes) /\ chosen[i] # read[i]
      BY <2>2
    <2>4. i # 0
      BY <2>3, <1>2, <1>3
    <2>5. i - 1 \in 0..Len(bytes) /\ chosen[i - 1] = read[i - 1]
      BY <2>2, <2>3, <2>4
    <2> QED BY <1>2, <1>3, <2>3, <2>4, <2>5
  <1>5. chosen = read
    BY <1>2, <1>3, <1>4
  <1> QED BY <1>5 DEF chosen

LEMMA ReadsType ==
  ASSUME NEW m \in Readers, NEW b \in Byte
  PROVE  Reads(m, b) \in Readers
  BY DEF Reads, Readers

\* One more byte is one more step.
LEMMA ReadingAppended ==
  ASSUME NEW read, NEW m, NEW bytes \in Seq(Byte), NEW b \in Byte,
         IsReading(read, m, bytes),
         NEW more, more = [i \in 0..Len(bytes) + 1 |->
                             IF i <= Len(bytes) THEN read[i] ELSE Reads(read[Len(bytes)], b)]
  PROVE  /\ IsReading(more, m, Append(bytes, b))
         /\ more[Len(Append(bytes, b))] = Reads(read[Len(bytes)], b)
  <1> DEFINE n == Len(bytes)
             longer == Append(bytes, b)
  <1>1. n \in Nat /\ Len(longer) = n + 1 /\ longer[n + 1] = b
        /\ \A i \in 1..n : longer[i] = bytes[i]
    BY AppendProperties, LenProperties
  <1>2. \A i \in 0..n : read[i] \in Readers /\ more[i] = read[i]
    BY <1>1 DEF IsReading
  <1>3. more[n + 1] = Reads(read[n], b)
    BY <1>1
  <1>4. more \in [0..n + 1 -> Readers]
    <2>1. Reads(read[n], b) \in Readers
      BY <1>1, <1>2, ReadsType
    <2> QED BY <1>1, <1>2, <2>1
  <1>5. more[0] = m
    BY <1>1, <1>2 DEF IsReading
  <1>6. ASSUME NEW i \in 1..n + 1 PROVE more[i] = Reads(more[i - 1], longer[i])
    <2>1. CASE i = n + 1
      BY <2>1, <1>1, <1>2, <1>3
    <2>2. CASE i \in 1..n
      <3>1. read[i] = Reads(read[i - 1], bytes[i])
        BY <2>2, <1>1 DEF IsReading
      <3> QED BY <3>1, <2>2, <1>1, <1>2
    <2> QED BY <2>1, <2>2, <1>1
  <1> QED BY <1>1, <1>3, <1>4, <1>5, <1>6 DEF IsReading

\* Without the first byte the reading starts one step later.
LEMMA ReadingTail ==
  ASSUME NEW read, NEW m, NEW bytes \in Seq(Byte), bytes # <<>>, IsReading(read, m, bytes),
         NEW rest, rest = [i \in 0..Len(bytes) - 1 |-> read[i + 1]]
  PROVE  /\ IsReading(rest, Reads(m, Head(bytes)), Tail(bytes))
         /\ rest[Len(Tail(bytes))] = read[Len(bytes)]
  <1> DEFINE n == Len(bytes)
             fewer == Tail(bytes)
  <1>1. n \in Nat /\ n > 0 /\ Len(fewer) = n - 1 /\ Head(bytes) = bytes[1]
        /\ \A i \in 1..n - 1 : fewer[i] = bytes[i + 1]
    BY HeadTailProperties, EmptySeq, LenProperties
  <1>2. \A i \in 0..n - 1 : rest[i] = read[i + 1] /\ rest[i] \in Readers
    BY <1>1 DEF IsReading
  <1>3. \A i \in 1..n : read[i] = Reads(read[i - 1], bytes[i])
    BY <1>1 DEF IsReading
  <1>4. rest[0] = Reads(m, Head(bytes))
    BY <1>1, <1>2, <1>3 DEF IsReading
  <1>5. ASSUME NEW i \in 1..n - 1 PROVE rest[i] = Reads(rest[i - 1], fewer[i])
    <2>1. i + 1 \in 1..n /\ i \in 0..n - 1 /\ i - 1 \in 0..n - 1 /\ (i + 1) - 1 = i /\ (i - 1) + 1 = i
      BY <1>1
    <2> QED BY <2>1, <1>1, <1>2, <1>3
  <1>6. rest \in [0..n - 1 -> Readers]
    BY <1>2
  <1> QED BY <1>1, <1>2, <1>4, <1>5, <1>6 DEF IsReading

\* Fewer bytes are fewer steps.
LEMMA ReadingPrefix ==
  ASSUME NEW read, NEW m, NEW bytes \in Seq(Byte), NEW l \in 0..Len(bytes), IsReading(read, m, bytes)
  PROVE  IsReading([i \in 0..l |-> read[i]], m, SubSeq(bytes, 1, l))
  <1>1. Len(SubSeq(bytes, 1, l)) = l /\ \A i \in 1..l : SubSeq(bytes, 1, l)[i] = bytes[i]
    BY SubSeqProperties, LenProperties
  <1> DEFINE less == [i \in 0..l |-> read[i]]
  <1>2. \A i \in 0..l : less[i] = read[i] /\ read[i] \in Readers
    BY DEF IsReading
  <1>3. \A i \in 1..l : i - 1 \in 0..l /\ read[i] = Reads(read[i - 1], bytes[i])
    BY LenProperties DEF IsReading
  <1>4. less \in [0..l -> Readers] /\ less[0] = m
    BY <1>2 DEF IsReading
  <1> HIDE DEF less
  <1>5. IsReading(less, m, SubSeq(bytes, 1, l))
    BY <1>1, <1>2, <1>3, <1>4 DEF IsReading
  <1> QED BY <1>5 DEF less

-----------------------------------------------------------------------------
\* What the host has sent in this connection is what the core will have when all
\* its bytes are read, and whether the decoder then waits for the second byte of an
\* escaped pair is whether the host is about to send it.
Trace(read) ==
  /\ IsReading(read, Reader, link)
  /\ socket = "reset" => ~read[Len(link)].escaping
  /\ socket = "open" => /\ read[Len(link)].core = sent
                        /\ read[Len(link)].escaping <=> payload # NoByte

Traced == \E read : Trace(read)

BeforeOpen == socket = "reset" => payload = NoByte /\ sent = <<>>

SInv == IInv /\ BeforeOpen /\ Traced

LEMMA ReaderType == ASSUME IInv PROVE Reader \in Readers
  BY ConcatProperties DEF IInv, TypeOK, Offer, Reader, InDecoder, Readers

LEMMA InitSInv == Init => SInv
  <1> SUFFICES ASSUME Init PROVE SInv
    OBVIOUS
  <1>1. IInv /\ link = <<>> /\ socket = "closed"
    BY InitIInv DEF Init
  <1> DEFINE read == [i \in 0..0 |-> Reader]
  <1>2. IsReading(read, Reader, link)
    BY <1>1, ReaderType DEF IsReading
  <1> QED BY <1>1, <1>2 DEF SInv, BeforeOpen, Traced, Trace

\* The host sends a byte: the reading gets one more step.
LEMMA SendTraced ==
  ASSUME IInv, IInv', UNCHANGED decoderVars, UNCHANGED taken,
         NEW b \in Byte, link' = Append(link, b), NEW read, IsReading(read, Reader, link)
  PROVE  \E more : /\ IsReading(more, Reader', link')
                   /\ more[Len(link')] = Reads(read[Len(link)], b)
  <1>1. link \in Seq(Byte) /\ Reader' = Reader
    BY DEF IInv, TypeOK, Reader, InDecoder, decoderVars
  <1> DEFINE more == [i \in 0..Len(link) + 1 |->
                        IF i <= Len(link) THEN read[i] ELSE Reads(read[Len(link)], b)]
  <1>2. IsReading(more, Reader, Append(link, b)) /\ more[Len(Append(link, b))] = Reads(read[Len(link)], b)
    BY <1>1, ReadingAppended
  <1> QED BY <1>1, <1>2

LEMMA HostStepTraced ==
  ASSUME SInv, Open \/ SecondReset \/ SendEscaped \/ Close
                 \/ \E b \in Byte : SendPlain(b) \/ SendEscape(b)
  PROVE  SInv'
  <1>1. IInv /\ IInv' /\ UNCHANGED <<decoderVars, taken>>
    BY HostStep DEF SInv
  <1>2. PICK read : Trace(read)
    BY DEF SInv, Traced
  <1> DEFINE end == read[Len(link)]
  <1>3. end \in Readers /\ link \in Seq(Byte)
    <2>1. link \in Seq(Byte) /\ Len(link) \in Nat
      BY <1>1, LenProperties DEF IInv, TypeOK
    <2>2. read \in [0..Len(link) -> Readers]
      BY <1>2 DEF Trace, IsReading
    <2> QED BY <2>1, <2>2
  <1>4. CASE Open \/ SecondReset
    <2>1. link' = Append(link, RESET_SYMBOL) /\ RESET_SYMBOL \in Byte
      BY <1>4, EscapingAssumption DEF Open, SecondReset, Send
    <2>2. PICK more : IsReading(more, Reader', link') /\ more[Len(link')] = Reads(end, RESET_SYMBOL)
      BY <1>1, <1>2, <2>1, SendTraced DEF Trace
    <2>3. ~more[Len(link')].escaping
      BY <2>2, <1>3, EscapingAssumption DEF Reads, Readers
    <2>4. SecondReset => more[Len(link')].core = <<>> /\ payload' = NoByte /\ sent' = <<>>
      BY <2>2, <1>2, EscapingAssumption DEF Reads, SecondReset, Trace, SInv, BeforeOpen
    <2>5. Trace(more)' /\ BeforeOpen'
      BY <1>4, <2>2, <2>3, <2>4 DEF Trace, BeforeOpen, Open, SecondReset
    <2> QED BY <1>1, <2>5 DEF SInv, Traced
  <1>5. ASSUME NEW b \in Byte, SendPlain(b) PROVE SInv'
    <2>1. link' = Append(link, b) /\ socket = "open" /\ ~end.escaping /\ end.core = sent
      BY <1>5, <1>2 DEF SendPlain, Send, Trace
    <2>2. PICK more : IsReading(more, Reader', link') /\ more[Len(link')] = Reads(end, b)
      BY <1>1, <1>2, <2>1, SendTraced DEF Trace
    <2>3. ~more[Len(link')].escaping /\ more[Len(link')].core = Append(sent, b)
      BY <2>1, <2>2, <1>5 DEF Reads, SendPlain, NeedsEscape
    <2>4. Trace(more)' /\ BeforeOpen'
      BY <1>5, <2>2, <2>3 DEF Trace, BeforeOpen, SendPlain
    <2> QED BY <1>1, <2>4 DEF SInv, Traced
  <1>6. ASSUME NEW b \in Byte, SendEscape(b) PROVE SInv'
    <2>1. link' = Append(link, ESCAPE_SYMBOL) /\ ESCAPE_SYMBOL \in Byte
          /\ socket = "open" /\ ~end.escaping /\ end.core = sent
      BY <1>6, <1>2, EscapingAssumption DEF SendEscape, Send, Trace
    <2>2. PICK more : IsReading(more, Reader', link') /\ more[Len(link')] = Reads(end, ESCAPE_SYMBOL)
      BY <1>1, <1>2, <2>1, SendTraced DEF Trace
    <2>3. more[Len(link')].escaping /\ more[Len(link')].core = sent
      BY <2>1, <2>2 DEF Reads
    <2>4. Trace(more)' /\ BeforeOpen'
      BY <1>6, <2>2, <2>3, EscapingAssumption DEF Trace, BeforeOpen, SendEscape
    <2> QED BY <1>1, <2>4 DEF SInv, Traced
  <1>7. CASE SendEscaped
    <2>1. link' = Append(link, payload) /\ payload \in Byte
          /\ socket = "open" /\ end.escaping /\ end.core = sent
      BY <1>7, <1>1, <1>2, EscapingAssumption DEF SendEscaped, Send, Trace, IInv, TypeOK
    <2>2. PICK more : IsReading(more, Reader', link') /\ more[Len(link')] = Reads(end, payload)
      BY <1>1, <1>2, <2>1, SendTraced DEF Trace
    <2>3. ~more[Len(link')].escaping /\ more[Len(link')].core = Append(sent, payload)
      BY <2>1, <2>2 DEF Reads
    <2>4. Trace(more)' /\ BeforeOpen'
      BY <1>7, <2>2, <2>3 DEF Trace, BeforeOpen, SendEscaped
    <2> QED BY <1>1, <2>4 DEF SInv, Traced
  <1>8. CASE Close
    <2>1. PICK l \in 0..Len(link) : link' = SubSeq(link, 1, l)
      BY <1>8 DEF Close
    <2>2. Reader' = Reader /\ socket' = "closed"
      BY <1>1, <1>8 DEF Reader, InDecoder, decoderVars, Close
    <2>3. IsReading([i \in 0..l |-> read[i]], Reader', link')
      BY <1>2, <1>3, <2>1, <2>2, ReadingPrefix DEF Trace
    <2> QED BY <1>1, <2>2, <2>3 DEF SInv, Traced, Trace, BeforeOpen
  <1> QED BY <1>4, <1>5, <1>6, <1>7, <1>8

LEMMA EmptyAndSingle ==
  /\ <<>> \o <<>> = <<>>
  /\ \A s \in Seq(Byte) : s \o <<>> = s /\ \A b \in Byte : s \o <<b>> = Append(s, b)
  BY ConcatEmptySeq, AppendIsConcat

\* An edge of the clock changes no reading: the byte that moves into the decoder
\* is the first step, and a byte that moves from there to the core is none.
LEMMA EdgeTraced == ASSUME SInv, ClkEdge PROVE SInv'
  <1>1. PICK ready \in BOOLEAN :
          (NoTransfer(ready) \/ Transfer(ready)) /\ Core(ready) /\ UNCHANGED hostVars
    BY DEF ClkEdge
  <1>2. IInv /\ IInv' /\ BeforeOpen'
    BY <1>1, EdgeStep DEF SInv, BeforeOpen, hostVars
  <1>3. PICK read : Trace(read)
    BY DEF SInv, Traced
  <1>4. /\ taken \in Seq(Byte) /\ link \in Seq(Byte) /\ Offer
        /\ state \in {"normal_s", "escaping_s"} /\ out_valid \in BOOLEAN
        /\ taken' \in Seq(Byte) /\ Offer' /\ out_valid' \in BOOLEAN
        /\ ESCAPE_SYMBOL # RESET_SYMBOL
    BY <1>2, EscapingAssumption DEF IInv, TypeOK
  <1>5. /\ out_valid => Reader.core = Append(taken, dnlink_data)
        /\ ~out_valid => Reader.core = (IF reset THEN <<>> ELSE taken)
        /\ out_valid' => Reader'.core = Append(taken', dnlink_data')
        /\ ~out_valid' => Reader'.core = (IF reset' THEN <<>> ELSE taken')
    BY <1>4, EmptyAndSingle DEF Reader, InDecoder, Offer
  <1>6. /\ out_valid /\ ready => taken' = Append(taken, dnlink_data)
        /\ out_valid /\ ~ready => taken' = taken /\ ~reset
        /\ ~out_valid => taken' = (IF reset THEN <<>> ELSE taken)
    BY <1>1, <1>4 DEF Core, Offer
  <1>7. CASE NoTransfer(ready)
    <2>1. Reader'.core = Reader.core
      <3>1. ~reset' /\ dnlink_data' = dnlink_data /\ (out_valid' <=> out_valid /\ ~ready)
        BY <1>7 DEF NoTransfer
      <3>2. CASE out_valid /\ ready
        BY <3>1, <3>2, <1>5, <1>6
      <3>3. CASE out_valid /\ ~ready
        BY <3>1, <3>3, <1>5, <1>6
      <3>4. CASE ~out_valid
        BY <3>1, <3>4, <1>5, <1>6
      <3> QED BY <3>2, <3>3, <3>4
    <2>2. Reader' = Reader
      BY <1>7, <2>1 DEF NoTransfer, Reader
    <2> QED BY <1>1, <1>2, <1>3, <1>7, <2>2 DEF NoTransfer, SInv, Traced, Trace, hostVars
  <1>8. CASE Transfer(ready)
    <2>1. link # <<>> /\ link' = Tail(link) /\ Head(link) \in Byte
          /\ in_ready(ready) /\ Decode(Head(link), ready)
      BY <1>4, <1>8, HeadTailProperties DEF Transfer
    <2>2. Reader.core = taken'
      BY <1>4, <1>5, <1>6, <2>1 DEF in_ready, Offer
    <2>3. Reader'.core = Reads(Reader, Head(link)).core
      <3> DEFINE b == Head(link)
      <3>1. ~out_valid \/ ready
        BY <2>1 DEF in_ready
      <3>2. CASE state = "escaping_s"
        <4>1. out_valid' /\ dnlink_data' = b
          BY <3>2, <2>1 DEF Decode
        <4> QED BY <3>2, <4>1, <1>5, <2>2 DEF Reads, Reader
      <3>3. CASE state = "normal_s" /\ ~NeedsEscape(b)
        <4>1. out_valid' /\ dnlink_data' = b
          BY <3>3, <2>1 DEF Decode
        <4> QED BY <3>3, <4>1, <1>5, <2>2 DEF Reads, Reader, NeedsEscape
      <3>4. CASE state = "normal_s" /\ NeedsEscape(b)
        <4>1. ~out_valid' /\ (reset' <=> b = RESET_SYMBOL)
          BY <3>1, <3>4, <2>1 DEF Decode
        <4> QED BY <3>4, <4>1, <1>4, <1>5, <2>2 DEF Reads, Reader, NeedsEscape
      <3> QED BY <1>4, <3>2, <3>3, <3>4
    <2>4. Reader'.escaping = Reads(Reader, Head(link)).escaping
      BY <1>4, <2>1 DEF Reads, Reader, Decode
    <2>5. Reader' = Reads(Reader, Head(link))
      BY <1>2, <2>1, <2>3, <2>4, ReaderType, ReadsType DEF Readers, Reader
    <2> DEFINE rest == [i \in 0..Len(link) - 1 |-> read[i + 1]]
    <2>6. IsReading(rest, Reader', link') /\ rest[Len(link')] = read[Len(link)]
      BY <1>3, <1>4, <2>1, <2>5, ReaderType, ReadingTail DEF Trace
    <2> HIDE DEF rest
    <2> QED BY <1>1, <1>2, <1>3, <2>6 DEF SInv, Traced, Trace, hostVars
  <1> QED BY <1>1, <1>7, <1>8

LEMMA NextSInv == ASSUME SInv, [Next]_vars PROVE SInv'
  <1>1. CASE UNCHANGED vars
    <2>1. IInv' /\ UNCHANGED <<socket, payload, sent, link, Reader>>
      BY <1>1, NextIInv DEF SInv, vars, decoderVars, hostVars, Reader, InDecoder
    <2> QED BY <2>1 DEF SInv, BeforeOpen, Traced, Trace
  <1> QED BY <1>1, EdgeTraced, HostStepTraced DEF Next

\* Wherever a connection broke off, and however often the core was not ready: when
\* the bytes on their way are read the core has the bytes of the tool in this
\* connection, each once and in order, and none of an earlier one.
THEOREM SessionsAreSeparate == Spec => []SessionIntegrity
  <1>1. SInv => SessionIntegrity
    <2> SUFFICES ASSUME NEW read, Trace(read), SInv, socket = "open"
                 PROVE  Reading(Reader, link)[Len(link)].core = sent
      BY DEF SInv, Traced, SessionIntegrity
    <2>1. Len(link) \in Nat /\ IsReading(read, Reader, link)
      BY LenProperties DEF SInv, IInv, TypeOK, Trace
    <2>2. Reading(Reader, link) = read
      BY <2>1, OneReading
    <2> QED BY <2>2 DEF Trace
  <1>2. SInv /\ [][Next]_vars => []SInv
    BY NextSInv, PTL
  <1> QED BY <1>1, <1>2, InitSInv, PTL DEF Spec
=============================================================================
