---------------------------- MODULE JtagHubProofs ----------------------------
(***************************************************************************)
(* Theorems about JtagHub, for every number of channels, every set of      *)
(* channels with flow control and every length of the synchronizer, in     *)
(* four parts: the output stage of one channel as a queue, the types, the  *)
(* way from the cores to the host, and the way from the host to the cores. *)
(***************************************************************************)
EXTENDS JtagHub, SequenceTheorems, TLAPS

-----------------------------------------------------------------------------
(***************************************************************************)
(* The output stage of one channel as a queue: an edge of clk takes the    *)
(* oldest byte out or not, puts the byte that arrives at the end, and      *)
(* loses nothing while the first two places have room for it.              *)
(***************************************************************************)

\* The bytes in a stage are in its output register and its first two places.
Compact(s) ==
  /\ 0 \in s.occupied => s.valid
  /\ 1 \in s.occupied => 0 \in s.occupied
  /\ 2 \notin s.occupied

-----------------------------------------------------------------------------
LEMMA EmptyStageType == EmptyStage \in Stage
  BY DEF EmptyStage, Stage, Data

LEMMA ShiftedType == ASSUME NEW s \in Stage PROVE Shifted(s) \in Stage
  <1>1. [i \in Slots |-> IF i = 2 THEN NoByte ELSE s.buf[i + 1]] \in [Slots -> Data]
    BY DEF Stage, Slots, Data
  <1>2. {i \in Slots : i + 1 \in s.occupied} \in SUBSET Slots
    OBVIOUS
  <1>3. s.buf[0] \in Data
    BY DEF Stage, Slots
  <1> QED BY <1>1, <1>2, <1>3 DEF Shifted, Stage

LEMMA ShiftedFields ==
  ASSUME NEW s
  PROVE  /\ Shifted(s).valid <=> 0 \in s.occupied
         /\ Shifted(s).local = s.buf[0]
         /\ Shifted(s).occupied = {i \in Slots : i + 1 \in s.occupied}
  BY DEF Shifted

LEMMA PutAtType ==
  ASSUME NEW s \in Stage, NEW i \in Slots, NEW b \in Data PROVE PutAt(s, i, b) \in Stage
  BY DEF PutAt, Stage, Slots

LEMMA StageType ==
  ASSUME NEW s \in Stage, NEW clr \in BOOLEAN, NEW selected \in BOOLEAN, NEW b \in Data,
         NEW ready \in BOOLEAN
  PROVE  NextStage(s, clr, selected, b, ready) \in Stage
  <1>1. EmptyStage \in Stage
    BY EmptyStageType
  <1>2. Advanced(s, ready) \in Stage
    BY ShiftedType DEF Advanced
  <1>3. [Advanced(s, ready) EXCEPT !.local = b, !.valid = TRUE] \in Stage
    BY <1>2 DEF Stage
  <1>4. \A i \in {0, 1, 2} : PutAt(Advanced(s, ready), i, b) \in Stage
    BY <1>2, PutAtType DEF Slots
  <1>5. Written(s, ready, b) \in Stage
    BY <1>2, <1>3, <1>4 DEF Written
  <1> QED BY <1>1, <1>2, <1>5 DEF NextStage

-----------------------------------------------------------------------------
LEMMA FillValue ==
  ASSUME NEW s \in Stage, Compact(s)
  PROVE  /\ Fill(s) = IF 0 \notin s.occupied THEN 0 ELSE IF 1 \notin s.occupied THEN 1 ELSE 2
         /\ Fill(s) \in 0..2 /\ (~s.valid => Fill(s) = 0)
  BY DEF Fill, Bit, Compact

\* The bytes of the stage, one by one.
LEMMA StageSequence ==
  ASSUME NEW s \in Stage, Compact(s)
  PROVE  /\ StageBytes(s) \in Seq(Data)
         /\ ~s.valid => StageBytes(s) = <<>>
         /\ s.valid => /\ Len(StageBytes(s)) = 1 + Fill(s)
                       /\ StageBytes(s)[1] = s.local
                       /\ \A i \in 1..Fill(s) : StageBytes(s)[1 + i] = s.buf[i - 1]
  <1> DEFINE buffer == [i \in 1..Fill(s) |-> s.buf[i - 1]]
  <1>1. Fill(s) \in 0..2 /\ (~s.valid => Fill(s) = 0)
    BY FillValue
  <1>2. s.local \in Data /\ s.buf \in [Slots -> Data]
    BY DEF Stage
  <1>3. buffer \in Seq(Data) /\ Len(buffer) = Fill(s)
    <2>1. \A i \in 1..Fill(s) : s.buf[i - 1] \in Data
      BY <1>1, <1>2 DEF Slots
    <2> QED BY <1>1, <2>1
  <1>4. CASE ~s.valid
    <2>1. buffer = <<>>
      BY <1>1, <1>3, <1>4
    <2>2. StageBytes(s) = <<>> \o <<>>
      BY <1>4, <2>1 DEF StageBytes
    <2>3. StageBytes(s) = <<>> /\ <<>> \in Seq(Data)
      BY <2>2
    <2> QED BY <1>4, <2>3
  <1>5. CASE s.valid
    <2>1. \A i \in 1..Fill(s) : buffer[i] = s.buf[i - 1]
      OBVIOUS
    <2>2. StageBytes(s) = <<s.local>> \o buffer
      BY <1>5 DEF StageBytes
    <2> HIDE DEF buffer
    <2>3. <<s.local>> \in Seq(Data) /\ Len(<<s.local>>) = 1 /\ <<s.local>>[1] = s.local
      BY <1>2
    <2>4. /\ StageBytes(s) \in Seq(Data) /\ Len(StageBytes(s)) = 1 + Fill(s)
          /\ \A i \in 1..(1 + Fill(s)) :
               StageBytes(s)[i] = IF i <= 1 THEN <<s.local>>[i] ELSE buffer[i - 1]
      BY <1>3, <2>2, <2>3, ConcatProperties
    <2>5. StageBytes(s)[1] = s.local
      BY <1>1, <2>3, <2>4
    <2>6. ASSUME NEW i \in 1..Fill(s) PROVE StageBytes(s)[1 + i] = s.buf[i - 1]
      <3>1. 1 + i \in 1..(1 + Fill(s)) /\ ~(1 + i <= 1) /\ (1 + i) - 1 = i
        BY <1>1
      <3> QED BY <2>1, <2>4, <3>1
    <2> QED BY <1>5, <2>4, <2>5, <2>6
  <1> QED BY <1>4, <1>5

\* A byte that is put behind the others.
LEMMA PutBytes ==
  ASSUME NEW s \in Stage, Compact(s), s.valid, NEW i \in {0, 1}, Fill(s) = i, NEW b \in Data
  PROVE  Compact(PutAt(s, i, b)) /\ StageBytes(PutAt(s, i, b)) = Append(StageBytes(s), b)
  <1> DEFINE n == PutAt(s, i, b)
  <1>1. /\ n \in Stage /\ Compact(n) /\ Fill(n) = i + 1 /\ n.valid /\ n.local = s.local
        /\ n.buf[i] = b /\ \A j \in Slots \ {i} : n.buf[j] = s.buf[j]
    <2>1. n \in Stage
      BY PutAtType DEF Slots
    <2>2. /\ n.valid /\ n.local = s.local /\ n.occupied = s.occupied \cup {i}
          /\ n.buf[i] = b /\ \A j \in Slots \ {i} : n.buf[j] = s.buf[j]
      BY DEF PutAt, Stage, Slots
    <2>3. s.occupied = IF i = 0 THEN {} ELSE {0}
      BY FillValue DEF Compact, Stage, Slots
    <2>4. Compact(n)
      BY <2>2, <2>3 DEF Compact
    <2> HIDE DEF n
    <2> QED BY <2>1, <2>2, <2>3, <2>4, FillValue
  <1> HIDE DEF n
  <1>2. /\ StageBytes(s) \in Seq(Data) /\ Len(StageBytes(s)) = 1 + i
        /\ StageBytes(s)[1] = s.local /\ (i = 1 => StageBytes(s)[2] = s.buf[0])
    BY StageSequence
  <1>3. /\ StageBytes(n) \in Seq(Data) /\ Len(StageBytes(n)) = 2 + i
        /\ StageBytes(n)[1] = s.local /\ StageBytes(n)[2 + i] = b
        /\ (i = 1 => StageBytes(n)[2] = s.buf[0])
    <2>1. /\ StageBytes(n) \in Seq(Data) /\ Len(StageBytes(n)) = 2 + i
          /\ StageBytes(n)[1] = s.local
          /\ \A j \in 1..(i + 1) : StageBytes(n)[1 + j] = n.buf[j - 1]
      <3>1. /\ StageBytes(n) \in Seq(Data) /\ Len(StageBytes(n)) = 1 + Fill(n)
            /\ StageBytes(n)[1] = n.local
            /\ \A j \in 1..Fill(n) : StageBytes(n)[1 + j] = n.buf[j - 1]
        BY <1>1, StageSequence
      <3> QED BY <1>1, <3>1
    <2>2. StageBytes(n)[2 + i] = b
      <3>1. i + 1 \in 1..(i + 1) /\ 1 + (i + 1) = 2 + i /\ (i + 1) - 1 = i
        OBVIOUS
      <3>2. StageBytes(n)[1 + (i + 1)] = n.buf[(i + 1) - 1]
        BY <2>1, <3>1
      <3> QED BY <1>1, <3>1, <3>2
    <2>3. i = 1 => StageBytes(n)[2] = s.buf[0]
      BY <1>1, <2>1 DEF Slots
    <2> QED BY <2>1, <2>2, <2>3
  <1>4. StageBytes(n) = Append(StageBytes(s), b)
    <2>1. /\ Append(StageBytes(s), b) \in Seq(Data)
          /\ Len(Append(StageBytes(s), b)) = 2 + i
          /\ \A j \in 1..(1 + i) : Append(StageBytes(s), b)[j] = StageBytes(s)[j]
          /\ Append(StageBytes(s), b)[2 + i] = b
      BY <1>2, AppendProperties
    <2>2. \A j \in 1..(2 + i) : Append(StageBytes(s), b)[j] = StageBytes(n)[j]
      BY <1>2, <1>3, <2>1
    <2> QED BY <1>3, <2>1, <2>2, SeqEqual
  <1> QED BY <1>1, <1>4 DEF n

\* The bytes that stay when the core takes one or not.
Remaining(s, ready) == IF Takes(s, ready) THEN Tail(StageBytes(s)) ELSE StageBytes(s)

LEMMA AdvancedBytes ==
  ASSUME NEW s \in Stage, Compact(s), NEW ready \in BOOLEAN
  PROVE  /\ Compact(Advanced(s, ready)) /\ Advanced(s, ready).occupied \subseteq s.occupied
         /\ StageBytes(Advanced(s, ready)) = Remaining(s, ready)
  <1> DEFINE n == Shifted(s)
  <1>1. CASE ~CanWrite(s, ready)
    BY <1>1 DEF Advanced, Remaining, CanWrite, Takes
  <1>2. CASE CanWrite(s, ready)
    <2>1. n \in Stage /\ Compact(n) /\ n.occupied \subseteq s.occupied
      <3>1. n \in Stage
        BY ShiftedType
      <3>2. n.occupied = {i \in Slots : i + 1 \in s.occupied} /\ (n.valid <=> 0 \in s.occupied)
        BY DEF Shifted
      <3>3. n.occupied = IF 1 \in s.occupied THEN {0} ELSE {}
        BY <3>2 DEF Compact, Stage, Slots
      <3> QED BY <3>1, <3>2, <3>3 DEF Compact
    <2>2. /\ n.valid <=> 0 \in s.occupied
          /\ n.local = s.buf[0] /\ n.buf[0] = s.buf[1]
          /\ Fill(n) = IF 1 \in s.occupied THEN 1 ELSE 0
      <3>1. n.occupied = {i \in Slots : i + 1 \in s.occupied}
        BY DEF Shifted
      <3>2. Fill(n) = IF 0 \notin n.occupied THEN 0 ELSE IF 1 \notin n.occupied THEN 1 ELSE 2
        BY <2>1, FillValue
      <3>3. Fill(n) = IF 1 \in s.occupied THEN 1 ELSE 0
        BY <3>1, <3>2 DEF Compact, Slots
      <3>4. (n.valid <=> 0 \in s.occupied) /\ n.local = s.buf[0]
        BY DEF Shifted
      <3>5. n.buf[0] = s.buf[1]
        BY DEF Shifted, Slots
      <3> QED BY <3>3, <3>4, <3>5
    <2> HIDE DEF n
    <2>3. StageBytes(n) = Remaining(s, ready)
      <3>1. CASE ~s.valid
        <4>1. ~n.valid
          BY <2>2, <3>1 DEF Compact
        <4> QED BY <2>1, <3>1, <4>1, StageSequence DEF Remaining, Takes
      <3>2. CASE s.valid
        <4>1. Remaining(s, ready) = Tail(StageBytes(s))
          BY <1>2, <3>2 DEF Remaining, Takes, CanWrite
        <4>2. /\ StageBytes(s) \in Seq(Data) /\ Len(StageBytes(s)) = 1 + Fill(s)
              /\ \A i \in 1..Fill(s) : StageBytes(s)[1 + i] = s.buf[i - 1]
          BY <3>2, StageSequence
        <4>3. Fill(s) = IF 0 \notin s.occupied THEN 0 ELSE IF 1 \notin s.occupied THEN 1 ELSE 2
          BY FillValue
        <4>4. StageBytes(s) # <<>>
          BY <4>2, <4>3, EmptySeq
        <4>5. /\ Tail(StageBytes(s)) \in Seq(Data) /\ Len(Tail(StageBytes(s))) = Fill(s)
              /\ \A i \in 1..Fill(s) : Tail(StageBytes(s))[i] = s.buf[i - 1]
          <5>1. /\ Tail(StageBytes(s)) \in Seq(Data) /\ Len(Tail(StageBytes(s))) = Fill(s)
                /\ \A i \in 1..Fill(s) : Tail(StageBytes(s))[i] = StageBytes(s)[i + 1]
            BY <4>2, <4>3, <4>4, HeadTailProperties
          <5> QED BY <4>2, <4>3, <5>1
        <4>6. CASE 0 \notin s.occupied
          <5>1. StageBytes(n) = <<>>
            BY <2>1, <2>2, <4>6, StageSequence
          <5>2. Len(Tail(StageBytes(s))) = 0
            BY <4>3, <4>5, <4>6
          <5> QED BY <4>1, <4>5, <5>1, <5>2, EmptySeq
        <4>7. CASE 0 \in s.occupied
          <5>1. /\ StageBytes(n) \in Seq(Data) /\ Len(StageBytes(n)) = Fill(s)
                /\ StageBytes(n)[1] = s.buf[0]
                /\ Fill(s) = 2 => StageBytes(n)[2] = s.buf[1]
            <6>1. /\ StageBytes(n) \in Seq(Data) /\ Len(StageBytes(n)) = 1 + Fill(n)
                  /\ StageBytes(n)[1] = n.local
                  /\ \A i \in 1..Fill(n) : StageBytes(n)[1 + i] = n.buf[i - 1]
              BY <2>1, <2>2, <4>7, StageSequence
            <6>2. Fill(s) = 1 + Fill(n)
              BY <2>2, <4>3, <4>7
            <6> QED BY <2>2, <4>3, <6>1, <6>2
          <5>2. ASSUME NEW i \in 1..Fill(s) PROVE StageBytes(n)[i] = Tail(StageBytes(s))[i]
            <6>1. Fill(s) \in 1..2 /\ (i = 1 \/ (i = 2 /\ Fill(s) = 2))
              BY <4>3, <4>7
            <6>2. Tail(StageBytes(s))[i] = s.buf[i - 1] /\ 1 - 1 = 0 /\ 2 - 1 = 1
              BY <4>5
            <6>3. CASE i = 1
              <7>1. Tail(StageBytes(s))[1] = s.buf[0]
                BY <6>2, <6>3
              <7> QED BY <5>1, <6>3, <7>1
            <6>4. CASE i = 2 /\ Fill(s) = 2
              <7>1. Tail(StageBytes(s))[2] = s.buf[1]
                BY <6>2, <6>4
              <7> QED BY <5>1, <6>4, <7>1
            <6> QED BY <6>1, <6>3, <6>4
          <5> QED BY <4>1, <4>5, <5>1, <5>2, SeqEqual
        <4> QED BY <4>6, <4>7
      <3> QED BY <3>1, <3>2
    <2> QED BY <1>2, <2>1, <2>3 DEF Advanced, n
  <1> QED BY <1>1, <1>2

LEMMA NextStageBytes ==
  ASSUME NEW s \in Stage, Compact(s), NEW selected \in BOOLEAN, NEW b \in Data,
         NEW ready \in BOOLEAN, selected => 1 \notin s.occupied
  PROVE  LET n == NextStage(s, FALSE, selected, b, ready)
         IN  /\ Compact(n)
             /\ selected => StageBytes(n) = Append(Remaining(s, ready), b)
             /\ ~selected => StageBytes(n) = Remaining(s, ready)
             /\ ~selected => n.occupied \subseteq s.occupied
             /\ selected /\ 1 \in n.occupied => 0 \in s.occupied
             /\ s.valid /\ ~ready => n.valid /\ n.local = s.local
  <1> DEFINE n == NextStage(s, FALSE, selected, b, ready)
             a == Advanced(s, ready)
  <1>1. /\ a \in Stage /\ Compact(a) /\ a.occupied \subseteq s.occupied
        /\ StageBytes(a) = Remaining(s, ready)
    BY AdvancedBytes, ShiftedType DEF Advanced
  <1>2. s.valid /\ ~ready => a = s
    BY DEF Advanced, CanWrite
  <1>3. CASE ~selected
    BY <1>1, <1>2, <1>3 DEF NextStage
  <1>4. CASE selected /\ 0 \notin s.occupied /\ CanWrite(s, ready)
    <2>1. n = [a EXCEPT !.local = b, !.valid = TRUE]
      BY <1>4 DEF NextStage, Written
    <2>2. a = Shifted(s) /\ ~a.valid /\ a.occupied = {}
      <3>1. s.occupied = {}
        BY <1>4 DEF Compact, Stage, Slots
      <3> QED BY <1>4, <3>1 DEF Advanced, Shifted
    <2>3. n \in Stage /\ n.valid /\ n.local = b /\ n.occupied = {} /\ Compact(n)
      BY <1>1, <2>1, <2>2 DEF Stage, Compact
    <2> HIDE DEF n, a
    <2>4. Fill(n) = 0 /\ Remaining(s, ready) = <<>>
      BY <1>1, <2>2, <2>3, FillValue, StageSequence
    <2>5. StageBytes(n) \in Seq(Data) /\ Len(StageBytes(n)) = 1 /\ StageBytes(n)[1] = b
      <3>1. /\ StageBytes(n) \in Seq(Data) /\ Len(StageBytes(n)) = 1 + Fill(n)
            /\ StageBytes(n)[1] = n.local
        BY <2>3, StageSequence
      <3> QED BY <2>3, <2>4, <3>1
    <2>6. StageBytes(n) = Append(<<>>, b)
      BY <2>5
    <2>7. ~(s.valid /\ ~ready)
      BY <1>4 DEF CanWrite
    <2> QED BY <1>4, <2>3, <2>4, <2>6, <2>7 DEF n
  <1>5. CASE selected /\ ~(0 \notin s.occupied /\ CanWrite(s, ready))
    <2>1. a.valid /\ Fill(a) \in {0, 1} /\ n = PutAt(a, Fill(a), b)
      <3>1. CASE 0 \notin s.occupied
        <4>1. ~CanWrite(s, ready) /\ a = s /\ s.valid
          BY <1>5, <3>1 DEF Advanced, CanWrite
        <4>2. Fill(a) = 0
          BY <3>1, <4>1, FillValue
        <4>3. n = PutAt(a, 0, b)
          BY <1>5, <3>1, <4>1 DEF NextStage, Written, PlaceFor
        <4> QED BY <4>1, <4>2, <4>3
      <3>2. CASE 0 \in s.occupied /\ CanWrite(s, ready)
        <4>1. a = Shifted(s) /\ 1 \notin s.occupied
          BY <1>5, <3>2 DEF Advanced
        <4>2. a.valid /\ 0 \notin a.occupied
          <5>1. (a.valid <=> 0 \in s.occupied) /\ a.occupied = {i \in Slots : i + 1 \in s.occupied}
            BY <4>1, ShiftedFields
          <5>2. 0 + 1 = 1
            OBVIOUS
          <5> QED BY <3>2, <4>1, <5>1, <5>2
        <4>3. Fill(a) = 0
          BY <1>1, <4>2, FillValue
        <4>4. n = PutAt(a, 0, b)
          BY <1>5, <3>2, <4>1 DEF NextStage, Written, PlaceFor
        <4> QED BY <4>2, <4>3, <4>4
      <3>3. CASE 0 \in s.occupied /\ ~CanWrite(s, ready)
        <4>1. a = s /\ s.valid /\ 1 \notin s.occupied
          BY <1>5, <3>3 DEF Advanced, CanWrite
        <4>2. Fill(a) = 1
          BY <3>3, <4>1, FillValue
        <4>3. n = PutAt(a, 1, b)
          BY <1>5, <3>3, <4>1 DEF NextStage, Written, PlaceFor
        <4> QED BY <4>1, <4>2, <4>3
      <3> QED BY <3>1, <3>2, <3>3
    <2>2. /\ n.valid /\ n.local = a.local /\ n.occupied = a.occupied \cup {Fill(a)}
      BY <1>1, <2>1 DEF PutAt, Stage
    <2>3. 1 \in n.occupied => 0 \in s.occupied
      <3>1. 1 \in n.occupied => Fill(a) = 1
        BY <1>1, <1>5, <2>2
      <3>2. Fill(a) = 1 => 0 \in a.occupied
        BY <1>1, FillValue
      <3> QED BY <1>1, <3>1, <3>2
    <2> HIDE DEF n, a
    <2>4. Compact(n) /\ StageBytes(n) = Append(StageBytes(a), b)
      BY <1>1, <2>1, PutBytes
    <2> QED BY <1>1, <1>2, <1>5, <2>2, <2>3, <2>4 DEF n
  <1> QED BY <1>3, <1>4, <1>5

\* One edge of clk without a reset: the stage is a queue, and the byte in the
\* output register stays until the core takes it.
THEOREM StageIsQueue ==
  ASSUME NEW s \in Stage, Compact(s), NEW b \in Data, NEW ready \in BOOLEAN
  PROVE  /\ LET n == NextStage(s, FALSE, FALSE, b, ready)
            IN  /\ Compact(n) /\ n.occupied \subseteq s.occupied
                /\ StageBytes(n) = Remaining(s, ready)
         /\ 1 \notin s.occupied =>
              LET n == NextStage(s, FALSE, TRUE, b, ready)
              IN  /\ Compact(n) /\ (1 \in n.occupied => 0 \in s.occupied)
                  /\ StageBytes(n) = Append(Remaining(s, ready), b)
  BY NextStageBytes

COROLLARY StageHoldsByte ==
  ASSUME NEW s \in Stage, Compact(s), s.valid, NEW b \in Data
  PROVE  /\ LET n == NextStage(s, FALSE, FALSE, b, FALSE)
            IN  n.valid /\ n.local = s.local
         /\ 1 \notin s.occupied =>
              LET n == NextStage(s, FALSE, TRUE, b, FALSE)
              IN  n.valid /\ n.local = s.local
  BY NextStageBytes

-----------------------------------------------------------------------------
(***************************************************************************)
(* Type correctness.  A message of the hub must not be taken for a byte,   *)
(* nor a byte for a message: what is in the data register depends on where *)
(* the scan is, what is in the word register on its function number.       *)
(***************************************************************************)
ScansWhenSettled == shifting => Settled
HostWordHasByte == ~shifting => dr.data \in Data
HubWordHasMessage ==
  up_transfer.valid =>
    IF up_transfer.fn = HUB
    THEN up_transfer.data \in [reset : BOOLEAN, bits : SUBSET FLOW_CONTROL_ENABLE]
    ELSE up_transfer.data \in Data

\* Without flow control the arbiter has no state for the words of the hub itself.
StateIsVisited == ~DO_FLOW_CONTROL => state # HUB

\* TypeOK by the groups of registers that change together.
TapTypes ==
  /\ shifting \in BOOLEAN /\ dr \in Word
  /\ xoff_sent_x \in BOOLEAN /\ up_transfer_register_valid_sent_x \in BOOLEAN
  /\ ScansWhenSettled /\ HostWordHasByte /\ since \in 0..ScanGap
DwnTypes ==
  /\ dwn_do_update \in BOOLEAN
  /\ dwn_transfer \in [valid : BOOLEAN, fn : Channel \cup {HUB}, data : Data]
  /\ xoff_sent \in BOOLEAN /\ up_transfer_register_valid_sent \in BOOLEAN
  /\ clear \in BOOLEAN /\ common_data_dwn \in Data
  /\ channel_selected \subseteq FLOW_CONTROL_ENABLE
  /\ stage \in [FLOW_CONTROL_ENABLE -> Stage]
  /\ data_dwn_valid \subseteq Channel \ FLOW_CONTROL_ENABLE
XoffTypes ==
  /\ xoff_sel \in Channel \cup {HUB} /\ up_xoff \in BOOLEAN
  /\ xoff_host_set \subseteq Channel /\ xoff_state_host \subseteq FLOW_CONTROL_ENABLE
BufferTypes ==
  /\ data_up_buffer_empty \subseteq Channel
  /\ data_up_buffer \in [Channel -> Data]
ArbiterTypes ==
  /\ state \in Channel \cup {HUB}
  /\ up_transfer \in [valid : BOOLEAN, fn : Channel \cup {HUB}, data : Data \cup HubMessage]
  /\ clear_xoff_bits_valid \in BOOLEAN
  /\ clear_xoff_bits \subseteq FLOW_CONTROL_ENABLE /\ xon_data \subseteq FLOW_CONTROL_ENABLE
  /\ HubWordHasMessage /\ StateIsVisited
HostTypes ==
  /\ host \in {"connect", "answer", "run"}
  /\ dn_xoff \subseteq Channel /\ last_dn_tool \in Channel \cup {HUB}
HistoryTypes ==
  /\ to_core \in [Channel -> Seq(Data)] /\ to_host \in [Channel -> Seq(Data)]

TypeInv ==
  /\ TapTypes /\ DwnTypes /\ XoffTypes /\ BufferTypes /\ ArbiterTypes /\ HostTypes
  /\ HistoryTypes

LEMMA TypeInvType == TypeInv => TypeOK
  BY DEF TypeInv, TypeOK, TapTypes, DwnTypes, XoffTypes, BufferTypes, ArbiterTypes, HostTypes,
     HistoryTypes

LEMMA Constants ==
  /\ NUM_FUNCTIONS \in Nat \ {0} /\ MFF_LENGTH \in Nat /\ ScanGap \in Nat
  /\ SyncEdges \in Nat /\ SyncEdges < ScanGap
  /\ HUB \notin Channel /\ 0 \in Channel /\ 0 \in 0..ScanGap
  /\ FLOW_CONTROL_ENABLE \subseteq Channel
  BY HubAssumption DEF HUB, Channel, SyncEdges

LEMMA HostWords ==
  /\ EmptyWord \in Word /\ EmptyWord.data \in Data
  /\ ResetWord \in Word /\ ResetWord.data \in Data
  /\ \A c \in Channel, b \in Byte : DataWord(c, b) \in Word /\ DataWord(c, b).data \in Data
  BY Constants DEF EmptyWord, ResetWord, DataWord, Word, Data

LEMMA InitTypeInv == Init => TypeInv
  <1> SUFFICES ASSUME Init PROVE TypeInv
    OBVIOUS
  <1>1. TapTypes
    <2>1. shifting = FALSE /\ dr = EmptyWord /\ since = ScanGap
      BY DEF Init
    <2>2. dr \in Word /\ HostWordHasByte /\ ScansWhenSettled
      BY <2>1, HostWords DEF HostWordHasByte, ScansWhenSettled
    <2>3. since \in 0..ScanGap
      BY <2>1, Constants
    <2> QED BY <2>1, <2>2, <2>3 DEF Init, TapTypes
  <1>2. DwnTypes
    BY Constants, EmptyStageType DEF Init, DwnTypes, Data
  <1>3. XoffTypes /\ HostTypes
    BY Constants DEF Init, XoffTypes, HostTypes
  <1>4. BufferTypes
    BY DEF Init, BufferTypes, Data
  <1>5. ArbiterTypes
    BY Constants DEF Init, ArbiterTypes, HubWordHasMessage, StateIsVisited, Data
  <1>6. HistoryTypes
    <2>1. <<>> \in Seq(Data) /\ <<NoByte>> \in Seq(Data)
      BY DEF Data
    <2> QED BY <2>1 DEF Init, HistoryTypes
  <1> QED
    BY <1>1, <1>2, <1>3, <1>4, <1>5, <1>6 DEF TypeInv

-----------------------------------------------------------------------------
(***************************************************************************)
(* The steps of the TAP and of the host.                                   *)
(***************************************************************************)
LEMMA RegistersOfClkType ==
  ASSUME TypeInv, UNCHANGED <<dwnVars, xoffVars, upVars>>
  PROVE  DwnTypes' /\ XoffTypes' /\ BufferTypes' /\ ArbiterTypes'
  <1>1. DwnTypes'
    BY DEF TypeInv, DwnTypes, dwnVars
  <1>2. XoffTypes'
    BY DEF TypeInv, XoffTypes, xoffVars
  <1>3. BufferTypes' /\ ArbiterTypes'
    BY DEF TypeInv, BufferTypes, ArbiterTypes, HubWordHasMessage, StateIsVisited, upVars
  <1> QED BY <1>1, <1>2, <1>3

LEMMA FullScanType ==
  ASSUME TypeInv, NEW word \in Word, word.data \in Data, FullScan(word)
  PROVE  TapTypes' /\ DwnTypes' /\ XoffTypes' /\ BufferTypes' /\ ArbiterTypes'
  <1>1. dr.xoff \in BOOLEAN /\ dr.valid \in BOOLEAN
    BY DEF TypeInv, TapTypes, Word
  <1>2. shifting' \in BOOLEAN /\ dr' \in Word /\ since' \in 0..ScanGap
    BY Constants DEF FullScan
  <1>3. xoff_sent_x' \in BOOLEAN /\ up_transfer_register_valid_sent_x' \in BOOLEAN
    BY <1>1 DEF FullScan
  <1>4. ScansWhenSettled' /\ HostWordHasByte'
    BY DEF FullScan, ScansWhenSettled, HostWordHasByte
  <1>5. TapTypes'
    BY <1>2, <1>3, <1>4 DEF TapTypes
  <1> QED BY <1>5, RegistersOfClkType DEF FullScan

LEMMA ReceiveWordType == ASSUME TypeInv, ReceiveWord PROVE to_host' \in [Channel -> Seq(Data)]
  <1>1. \A q \in Seq(Data) : q # <<>> => Tail(q) \in Seq(Data)
    OBVIOUS
  <1> QED BY <1>1 DEF ReceiveWord, TypeInv, HistoryTypes

LEMMA CheckForXoffType ==
  ASSUME TypeInv, NEW tool \in Channel \cup {HUB}, CheckForXoff(tool)
  PROVE  dn_xoff' \subseteq Channel /\ last_dn_tool' \in Channel \cup {HUB}
  <1>1. DistributedXoff \subseteq Channel
    BY DEF DistributedXoff, TypeInv, HostTypes
  <1> QED BY <1>1 DEF CheckForXoff, TypeInv, HostTypes

LEMMA SendByteType ==
  ASSUME TypeInv, NEW c \in HostTools, NEW b \in Byte, SendByte(c, b) PROVE TypeInv'
  <1>1. c \in Channel
    BY HubAssumption
  <1>2. to_core' \in [Channel -> Seq(Data)]
    <2>1. \A q \in Seq(Data) : Append(q, b) \in Seq(Data)
      BY DEF Data
    <2> QED BY <1>1, <2>1 DEF SendByte, TypeInv, HistoryTypes
  <1>3. HistoryTypes'
    BY <1>2, ReceiveWordType DEF SendByte, HistoryTypes
  <1>4. HostTypes'
    BY <1>1, CheckForXoffType DEF SendByte, TypeInv, HostTypes
  <1> QED BY <1>1, <1>3, <1>4, HostWords, FullScanType DEF SendByte, TypeInv

LEMMA PollType == ASSUME TypeInv, Poll PROVE TypeInv'
  <1>1. HistoryTypes'
    BY ReceiveWordType DEF Poll, TypeInv, HistoryTypes
  <1>2. HostTypes'
    BY CheckForXoffType DEF Poll, HostTypes
  <1> QED BY <1>1, <1>2, HostWords, FullScanType DEF Poll, TypeInv

LEMMA ResetHubType == ASSUME TypeInv, ResetHub PROVE TypeInv'
  <1>1. HistoryTypes'
    BY ReceiveWordType DEF ResetHub, TypeInv, HistoryTypes
  <1>2. HostTypes'
    BY DEF ResetHub, HostTypes
  <1> QED BY <1>1, <1>2, HostWords, FullScanType DEF ResetHub, TypeInv

LEMMA AbortScanType == ASSUME TypeInv, AbortScan PROVE TypeInv'
  <1>1. TapTypes'
    BY HostWords, Constants
    DEF AbortScan, TypeInv, TapTypes, ScansWhenSettled, HostWordHasByte
  <1>2. HostTypes' /\ HistoryTypes'
    BY DEF AbortScan, TypeInv, HostTypes, HistoryTypes, hostVars
  <1> QED BY <1>1, <1>2, RegistersOfClkType DEF AbortScan, TypeInv

LEMMA CaptureDRType == ASSUME TypeInv, CaptureDR PROVE TypeInv'
  <1>1. TapTypes'
    <2>1. dr' \in Word
      BY DEF CaptureDR, TypeInv, XoffTypes, ArbiterTypes, Word
    <2> QED
      BY <2>1 DEF CaptureDR, TypeInv, TapTypes, ScansWhenSettled, HostWordHasByte, Settled
  <1>2. HostTypes' /\ HistoryTypes'
    BY DEF CaptureDR, TypeInv, HostTypes, HistoryTypes, hostVars
  <1> QED BY <1>1, <1>2, RegistersOfClkType DEF CaptureDR, TypeInv

-----------------------------------------------------------------------------
(***************************************************************************)
(* One edge of clk, process by process.                                    *)
(***************************************************************************)
LEMMA SynchronizerType ==
  ASSUME TypeInv, Synchronizer, UNCHANGED tapVars
  PROVE  /\ TapTypes' /\ dwn_do_update' \in BOOLEAN
         /\ dwn_transfer' \in [valid : BOOLEAN, fn : Channel \cup {HUB}, data : Data]
         /\ xoff_sent' \in BOOLEAN /\ up_transfer_register_valid_sent' \in BOOLEAN
  <1>1. since + 1 = SyncEdges => ~shifting /\ dr.data \in Data
    BY Constants DEF TypeInv, TapTypes, ScansWhenSettled, HostWordHasByte, Settled
  <1>2. TapTypes'
    BY Constants
    DEF Synchronizer, TypeInv, TapTypes, tapVars, ScansWhenSettled, HostWordHasByte, Settled
  <1>3. dwn_transfer' \in [valid : BOOLEAN, fn : Channel \cup {HUB}, data : Data]
    BY <1>1 DEF Synchronizer, TypeInv, TapTypes, DwnTypes, Word
  <1>4. xoff_sent' \in BOOLEAN /\ up_transfer_register_valid_sent' \in BOOLEAN
    BY DEF Synchronizer, TypeInv, TapTypes, DwnTypes
  <1>5. dwn_do_update' \in BOOLEAN
    BY DEF Synchronizer
  <1> QED BY <1>2, <1>3, <1>4, <1>5

LEMMA DwnType ==
  ASSUME TypeInv, NEW ready, Synchronizer, UNCHANGED tapVars, InternalOutput, OutputStages(ready)
  PROVE  DwnTypes'
  <1>1. clear' \in BOOLEAN /\ common_data_dwn' \in Data
    BY DEF InternalOutput, UpdateFor, TypeInv, DwnTypes
  <1>2. stage' \in [FLOW_CONTROL_ENABLE -> Stage]
    <2>1. ASSUME NEW c \in FLOW_CONTROL_ENABLE
          PROVE  NextStage(stage[c], clear, c \in channel_selected, common_data_dwn, c \in ready)
                   \in Stage
      <3>1. stage[c] \in Stage /\ clear \in BOOLEAN /\ common_data_dwn \in Data
        BY DEF TypeInv, DwnTypes
      <3>2. (c \in channel_selected) \in BOOLEAN /\ (c \in ready) \in BOOLEAN
        OBVIOUS
      <3> QED BY <3>1, <3>2, StageType
    <2> QED BY <2>1 DEF OutputStages
  <1>3. /\ channel_selected' \subseteq FLOW_CONTROL_ENABLE
        /\ data_dwn_valid' \subseteq Channel \ FLOW_CONTROL_ENABLE
    BY DEF OutputStages
  <1> QED BY <1>1, <1>2, <1>3, SynchronizerType DEF DwnTypes

LEMMA XoffType == ASSUME TypeInv, XoffMux, XoffHostSet, XoffStateHost PROVE XoffTypes'
  <1>1. xoff_sel' \in Channel \cup {HUB} /\ up_xoff' \in BOOLEAN
    BY DEF XoffMux, TypeInv, XoffTypes, DwnTypes
  <1>2. xoff_host_set' \subseteq Channel /\ xoff_state_host' \subseteq FLOW_CONTROL_ENABLE
    BY DEF XoffHostSet, XoffStateHost, TypeInv, XoffTypes
  <1> QED BY <1>1, <1>2 DEF XoffTypes

LEMMA InputBufferingType ==
  ASSUME TypeInv, NEW offer \in Offers, InputBuffering(offer) PROVE BufferTypes'
  <1>1. offer \in [Channel -> Data]
    BY DEF Offers
  <1>2. NoByte \in Data
    BY DEF Data
  <1> QED BY <1>1, <1>2 DEF InputBuffering, Accepted, TypeInv, BufferTypes

LEMMA ArbiterClearType == ASSUME ArbiterClear PROVE ArbiterTypes'
  BY Constants DEF ArbiterClear, ArbiterTypes, HubWordHasMessage, StateIsVisited, ResetAnswer,
     HubMessage

LEMMA ArbiterWaitType == ASSUME TypeInv, up_transfer.valid, ArbiterWait PROVE ArbiterTypes'
  <1>1. up_transfer' \in [valid : BOOLEAN, fn : Channel \cup {HUB}, data : Data \cup HubMessage]
    BY DEF ArbiterWait, TypeInv, ArbiterTypes
  <1>2. HubWordHasMessage' /\ StateIsVisited'
    BY DEF ArbiterWait, TypeInv, ArbiterTypes, HubWordHasMessage, StateIsVisited
  <1>3. /\ clear_xoff_bits_valid' \in BOOLEAN /\ clear_xoff_bits' \subseteq FLOW_CONTROL_ENABLE
        /\ xon_data' \subseteq FLOW_CONTROL_ENABLE /\ state' \in Channel \cup {HUB}
    BY DEF ArbiterWait, TypeInv, ArbiterTypes, HubWordHasMessage
  <1> QED BY <1>1, <1>2, <1>3 DEF ArbiterTypes

LEMMA ArbiterLookType == ASSUME TypeInv, ArbiterLook PROVE ArbiterTypes'
  <1>1. state' \in Channel \cup {HUB} /\ StateIsVisited'
    BY Constants
    DEF ArbiterLook, LastState, TypeInv, ArbiterTypes, StateIsVisited, Channel, HUB
  <1>2. /\ state = HUB => Xon(xon_data) \in [reset : BOOLEAN, bits : SUBSET FLOW_CONTROL_ENABLE]
        /\ state # HUB => data_up_buffer[state] \in Data
    BY DEF Xon, TypeInv, ArbiterTypes, BufferTypes
  <1>3. [reset : BOOLEAN, bits : SUBSET FLOW_CONTROL_ENABLE] \subseteq HubMessage
    BY Constants DEF HubMessage
  <1>4. up_transfer' \in [valid : BOOLEAN, fn : Channel \cup {HUB}, data : Data \cup HubMessage]
    BY <1>2, <1>3 DEF ArbiterLook, TypeInv, ArbiterTypes
  <1>5. HubWordHasMessage'
    BY <1>2 DEF ArbiterLook, HubWordHasMessage
  <1>6. /\ clear_xoff_bits_valid' \in BOOLEAN /\ clear_xoff_bits' \subseteq FLOW_CONTROL_ENABLE
        /\ xon_data' \subseteq FLOW_CONTROL_ENABLE
    BY DEF ArbiterLook, Reopened, TypeInv, ArbiterTypes
  <1> QED BY <1>1, <1>4, <1>5, <1>6 DEF ArbiterTypes

LEMMA HistoryType ==
  ASSUME TypeInv, NEW ready, NEW offer \in Offers, History(ready, offer) PROVE HistoryTypes'
  <1>1. /\ <<>> \in Seq(Data)
        /\ \A q \in Seq(Data) : q # <<>> => Tail(q) \in Seq(Data)
        /\ \A q \in Seq(Data), b \in Data : Append(q, b) \in Seq(Data)
    OBVIOUS
  <1>2. \A c \in Channel : offer[c] \in Data
    BY DEF Offers
  <1>3. to_core' \in [Channel -> Seq(Data)]
    BY <1>1 DEF History, TypeInv, HistoryTypes
  <1>4. to_host' \in [Channel -> Seq(Data)]
    BY <1>1, <1>2 DEF History, TypeInv, HistoryTypes
  <1> QED BY <1>3, <1>4 DEF HistoryTypes

LEMMA ClkType == ASSUME TypeInv, NEW ready, NEW offer \in Offers, Clk(ready, offer) PROVE TypeInv'
  <1>1. TapTypes'
    BY SynchronizerType DEF Clk
  <1>2. DwnTypes'
    BY DwnType DEF Clk
  <1>3. XoffTypes' /\ BufferTypes' /\ HistoryTypes'
    BY XoffType, InputBufferingType, HistoryType DEF Clk
  <1>4. ArbiterTypes'
    BY ArbiterClearType, ArbiterWaitType, ArbiterLookType DEF Clk, Arbiter
  <1>5. HostTypes'
    BY DEF Clk, TypeInv, HostTypes, hostVars
  <1> QED BY <1>1, <1>2, <1>3, <1>4, <1>5 DEF TypeInv

-----------------------------------------------------------------------------
LEMMA NextTypeInv == TypeInv /\ [Next]_vars => TypeInv'
  <1> SUFFICES ASSUME TypeInv, [Next]_vars PROVE TypeInv'
    OBVIOUS
  <1>1. CASE ClkEdge
    BY <1>1, ClkType DEF ClkEdge
  <1>2. CASE CaptureDR
    BY <1>2, CaptureDRType
  <1>3. ASSUME NEW c \in HostTools, NEW b \in Byte, SendByte(c, b) PROVE TypeInv'
    BY <1>3, SendByteType
  <1>4. CASE Poll
    BY <1>4, PollType
  <1>5. CASE ResetHub
    BY <1>5, ResetHubType
  <1>6. CASE AbortScan
    BY <1>6, AbortScanType
  <1>7. CASE UNCHANGED vars
    <2>1. TapTypes'
      BY <1>7 DEF vars, tapVars, TypeInv, TapTypes, ScansWhenSettled, HostWordHasByte, Settled
    <2>2. HostTypes' /\ HistoryTypes'
      BY <1>7 DEF vars, hostVars, TypeInv, HostTypes, HistoryTypes
    <2> QED BY <1>7, <2>1, <2>2, RegistersOfClkType DEF vars, TypeInv
  <1> QED BY <1>1, <1>2, <1>3, <1>4, <1>5, <1>6, <1>7 DEF Next

\* Every register holds a value of its type: no message of the hub is ever taken
\* for a byte of a core, the word the arbiter waits for is well-formed, and the
\* arbiter leaves no channel number out of range.
THEOREM HubTypeCorrect == Spec => []TypeOK
  <1>1. TypeInv /\ [][Next]_vars => []TypeInv
    BY NextTypeInv, PTL
  <1> QED BY <1>1, InitTypeInv, TypeInvType, PTL DEF Spec

-----------------------------------------------------------------------------
(***************************************************************************)
(* The way from the cores to the host.  The word of the hub does not       *)
(* change between the Capture-DR that copies it and the cycle that         *)
(* processes its receipt, so the receipt can only be about the word that   *)
(* is in the register.                                                     *)
(***************************************************************************)
\* An update has one cycle, a reset of the hub the cycle after it.
Timing ==
  /\ dwn_do_update => since = SyncEdges
  /\ clear => since = SyncEdges + 1

\* A word with a byte is a copy of the occupied buffer of its channel.
WordIsBuffer ==
  up_transfer.valid /\ up_transfer.fn # HUB =>
    /\ up_transfer.fn \notin data_up_buffer_empty
    /\ up_transfer.data = data_up_buffer[up_transfer.fn]

\* The scan that is going on carries the word in the register.
ScanCarriesWord ==
  shifting /\ dr.valid =>
    up_transfer.valid /\ dr.fn = up_transfer.fn /\ dr.data = up_transfer.data

\* A receipt on its way through the hub is about the word in the register.
ReceiptOfWord == ReceiptOnTheWay => up_transfer.valid

UpInv == TypeInv /\ Timing /\ WordIsBuffer /\ ScanCarriesWord /\ ReceiptOfWord /\ UpIntegrity

\* The answer to a reset, from the data register of the host's word to the word
\* of the hub.
ResetOnTheWay ==
  \/ WaitsInDR /\ dr.valid /\ dr.fn = HUB
  \/ UpdateFor(HUB)
  \/ clear
AnswerReady ==
  /\ up_transfer = [valid |-> TRUE, fn |-> HUB, data |-> ResetAnswer]
  /\ ~ReceiptOnTheWay
  /\ shifting => dr.valid /\ dr.fn = HUB /\ dr.data = ResetAnswer

AnswerInv == UpInv /\ (host = "answer" => ResetOnTheWay \/ AnswerReady)

-----------------------------------------------------------------------------
LEMMA EdgesOfAnUpdate ==
  /\ SyncEdges \in Nat /\ SyncEdges > 0 /\ ScanGap \in Nat /\ SyncEdges + 3 <= ScanGap
  /\ SyncEdges' = SyncEdges
  BY HubAssumption DEF SyncEdges

\* When the last update has settled, nothing of it is left in the hub.
LEMMA Quiet ==
  ASSUME TypeInv, Timing, Settled \/ shifting
  PROVE  since = ScanGap /\ ~dwn_do_update /\ ~clear /\ ~WaitsInDR /\ ~ReceiptOnTheWay
  <1>1. since = ScanGap
    BY DEF TypeInv, TapTypes, ScansWhenSettled, Settled
  <1>2. ~dwn_do_update /\ ~clear /\ ~WaitsInDR
    BY <1>1, EdgesOfAnUpdate DEF Timing, WaitsInDR
  <1> QED BY <1>1, <1>2 DEF ReceiptOnTheWay, UpWordSent

LEMMA OneByte ==
  ASSUME NEW b \in Data
  PROVE  Tail(<<b>>) = <<>> /\ <<b>> # <<>> /\ Append(<<>>, b) = <<b>>
  OBVIOUS

LEMMA InitUpInv == Init => UpInv
  <1> SUFFICES ASSUME Init PROVE UpInv
    OBVIOUS
  <1>1. TypeInv
    BY InitTypeInv
  <1>2. Timing /\ WordIsBuffer /\ ScanCarriesWord
    BY DEF Init, Timing, WordIsBuffer, ScanCarriesWord
  <1>3. ~ReceiptOnTheWay
    BY <1>1, <1>2, Quiet DEF Init, Settled
  <1>4. UpIntegrity
    BY <1>3 DEF Init, UpIntegrity, UpBytes, One
  <1> QED BY <1>1, <1>2, <1>3, <1>4 DEF UpInv, ReceiptOfWord

-----------------------------------------------------------------------------
(***************************************************************************)
(* The steps of the TAP and of the host.                                   *)
(***************************************************************************)
LEMMA FullScanUp ==
  ASSUME UpInv, TypeInv', NEW word, FullScan(word), ReceiveWord
  PROVE  UpInv'
  <1>1. /\ shifting /\ since = ScanGap /\ ~dwn_do_update /\ ~clear
        /\ ~WaitsInDR /\ ~ReceiptOnTheWay
    BY Quiet DEF UpInv, FullScan
  <1>2. UNCHANGED <<dwn_do_update, clear, up_transfer, data_up_buffer, data_up_buffer_empty>>
    BY DEF FullScan, dwnVars, upVars
  <1>3. Timing' /\ WordIsBuffer' /\ ScanCarriesWord'
    BY <1>1, <1>2 DEF UpInv, Timing, WordIsBuffer, ScanCarriesWord, FullScan
  <1>4. ReceiptOnTheWay' <=> dr.valid
    <2>1. ~UpWordSent'
      BY <1>1, <1>2 DEF UpWordSent
    <2>2. WaitsInDR'
      BY EdgesOfAnUpdate DEF WaitsInDR, FullScan
    <2> QED BY <2>1, <2>2 DEF ReceiptOnTheWay, FullScan
  <1>5. ReceiptOfWord'
    BY <1>1, <1>2, <1>4 DEF UpInv, ReceiptOfWord, ScanCarriesWord
  <1>6. ASSUME NEW c \in Channel PROVE to_host'[c] = UpBytes(c)'
    <2>1. CASE dr.valid /\ dr.fn = c
      <3>1. up_transfer.valid /\ up_transfer.fn = c /\ to_host[c] = <<dr.data>>
        BY <1>1, <2>1 DEF UpInv, ScanCarriesWord, UpIntegrity
      <3>2. to_host'[c] = <<>>
        <4>1. c # HUB
          BY Constants
        <4>2. dr.data \in Data
          BY <1>1, <2>1, <3>1, <4>1
          DEF UpInv, ScanCarriesWord, TypeInv, ArbiterTypes, HubWordHasMessage
        <4> QED BY <2>1, <3>1, <4>2, OneByte DEF ReceiveWord
      <3>3. UpBytes(c)' = <<>>
        BY <1>2, <1>4, <2>1, <3>1 DEF UpBytes, One
      <3> QED BY <3>2, <3>3
    <2>2. CASE ~(dr.valid /\ dr.fn = c)
      <3>1. to_host'[c] = to_host[c]
        BY <2>2 DEF ReceiveWord
      <3>2. ~(ReceiptOnTheWay' /\ up_transfer.valid /\ up_transfer.fn = c)
        BY <1>1, <1>4, <2>2 DEF UpInv, ScanCarriesWord
      <3>3. UpBytes(c)' = UpBytes(c)
        BY <1>1, <1>2, <3>2 DEF UpBytes
      <3> QED BY <3>1, <3>3 DEF UpInv, UpIntegrity
    <2> QED BY <2>1, <2>2
  <1>7. UpIntegrity'
    BY <1>6 DEF UpIntegrity, FullScan
  <1> QED BY <1>3, <1>5, <1>7 DEF UpInv

LEMMA CaptureDRUp == ASSUME UpInv, TypeInv', CaptureDR PROVE UpInv'
  <1>1. since = ScanGap /\ ~dwn_do_update /\ ~clear /\ ~WaitsInDR /\ ~ReceiptOnTheWay
    BY Quiet DEF UpInv, CaptureDR
  <1>2. UNCHANGED <<since, dwn_do_update, clear, up_transfer, data_up_buffer,
                    data_up_buffer_empty, up_transfer_register_valid_sent, to_host>>
    BY DEF CaptureDR, dwnVars, upVars
  <1>3. dr'.valid = up_transfer.valid /\ dr'.fn = up_transfer.fn /\ dr'.data = up_transfer.data
    BY DEF CaptureDR
  <1>4. Timing' /\ WordIsBuffer' /\ ScanCarriesWord'
    BY <1>2, <1>3 DEF UpInv, Timing, WordIsBuffer, ScanCarriesWord, SyncEdges
  <1>5. ~ReceiptOnTheWay'
    BY <1>1, <1>2 DEF ReceiptOnTheWay, UpWordSent, WaitsInDR, CaptureDR
  <1>6. ASSUME NEW c \in Channel
        PROVE  /\ to_host'[c] = UpBytes(c)'
               /\ dr'.valid /\ dr'.fn = c => to_host'[c] = <<dr'.data>>
    <2>1. UpBytes(c)' = UpBytes(c) /\ UpBytes(c) = One(c \notin data_up_buffer_empty, data_up_buffer[c])
      BY <1>1, <1>2, <1>5 DEF UpBytes
    <2>2. to_host'[c] = UpBytes(c)
      BY <1>2 DEF UpInv, UpIntegrity
    <2>3. c # HUB
      BY Constants
    <2> QED BY <1>3, <2>1, <2>2, <2>3 DEF UpInv, WordIsBuffer, One
  <1>7. UpIntegrity'
    BY <1>6 DEF UpIntegrity
  <1> QED BY <1>4, <1>5, <1>7 DEF UpInv, ReceiptOfWord

-----------------------------------------------------------------------------
(***************************************************************************)
(* One edge of clk.                                                        *)
(***************************************************************************)
\* A word that is valid stays as it is until its receipt is processed.
LEMMA WordStays ==
  ASSUME TypeInv, Arbiter, ~clear, up_transfer.valid
  PROVE  /\ up_transfer'.fn = up_transfer.fn /\ up_transfer'.data = up_transfer.data
         /\ up_transfer'.valid <=> ~UpWordSent
  BY DEF Arbiter, ArbiterWait, TypeInv, ArbiterTypes

\* The synchronizer counts the edges, and gives one update.
LEMMA SynchronizerCounts ==
  ASSUME TypeInv, Synchronizer
  PROVE  /\ since \in 0..ScanGap /\ (shifting => since = ScanGap)
         /\ since' = IF since < ScanGap THEN since + 1 ELSE since
         /\ dwn_do_update' <=> since + 1 = SyncEdges
         /\ dwn_do_update' => up_transfer_register_valid_sent' = up_transfer_register_valid_sent_x
         /\ dwn_do_update' => since' = SyncEdges
  <1>1. since \in 0..ScanGap /\ (shifting => since = ScanGap)
    BY DEF TypeInv, TapTypes, ScansWhenSettled, Settled
  <1>2. since' = IF since < ScanGap THEN since + 1 ELSE since
    BY DEF Synchronizer
  <1>3. dwn_do_update' <=> since + 1 = SyncEdges
    BY DEF Synchronizer
  <1>4. dwn_do_update' => up_transfer_register_valid_sent' = up_transfer_register_valid_sent_x
    BY <1>3 DEF Synchronizer
  <1>5. dwn_do_update' => since' = SyncEdges
    BY <1>1, <1>2, <1>3, EdgesOfAnUpdate
  <1> QED BY <1>1, <1>2, <1>3, <1>4, <1>5

\* A receipt moves on through the synchronizer, it does not come from nowhere.
LEMMA ReceiptMoves ==
  ASSUME TypeInv, Timing, Synchronizer, UNCHANGED tapVars, ReceiptOnTheWay'
  PROVE  ReceiptOnTheWay /\ ~UpWordSent /\ ~clear
  <1>1. ~shifting /\ since < SyncEdges /\ up_transfer_register_valid_sent_x
    <2>1. CASE WaitsInDR' /\ up_transfer_register_valid_sent_x'
      BY <2>1, SynchronizerCounts, EdgesOfAnUpdate DEF WaitsInDR, tapVars
    <2>2. CASE UpWordSent'
      <3>1. dwn_do_update' /\ up_transfer_register_valid_sent'
        BY <2>2 DEF UpWordSent
      <3>2. since + 1 = SyncEdges /\ up_transfer_register_valid_sent_x
        BY <3>1, SynchronizerCounts
      <3> QED BY <3>2, SynchronizerCounts, EdgesOfAnUpdate
    <2> QED BY <2>1, <2>2 DEF ReceiptOnTheWay
  <1>2. ~dwn_do_update /\ ~clear
    BY <1>1, EdgesOfAnUpdate DEF Timing, TypeInv, TapTypes
  <1> QED BY <1>1, <1>2 DEF ReceiptOnTheWay, WaitsInDR, UpWordSent

\* A receipt that is not processed in this cycle is still on its way.
LEMMA ReceiptArrives ==
  ASSUME TypeInv, Timing, Synchronizer, UNCHANGED tapVars, ReceiptOnTheWay, ~UpWordSent
  PROVE  ReceiptOnTheWay'
  <1>1. ~shifting /\ since < SyncEdges /\ up_transfer_register_valid_sent_x /\ since \in 0..ScanGap
    BY DEF ReceiptOnTheWay, WaitsInDR, TypeInv, TapTypes
  <1>2. since' = since + 1
    BY <1>1, EdgesOfAnUpdate DEF Synchronizer
  <1>3. CASE since + 1 = SyncEdges
    BY <1>1, <1>3 DEF Synchronizer, ReceiptOnTheWay, UpWordSent
  <1>4. CASE since + 1 < SyncEdges
    BY <1>1, <1>2, <1>4 DEF ReceiptOnTheWay, WaitsInDR, tapVars
  <1> QED BY <1>1, <1>3, <1>4, EdgesOfAnUpdate

LEMMA ClkTiming == ASSUME TypeInv, Timing, Synchronizer, InternalOutput PROVE Timing'
  <1>1. dwn_do_update' => since' = SyncEdges
    BY SynchronizerCounts
  <1>2. clear' => since' = SyncEdges + 1
    <2>1. clear' => dwn_do_update
      BY DEF InternalOutput, UpdateFor
    <2> QED BY <2>1, SynchronizerCounts, EdgesOfAnUpdate DEF Timing
  <1> QED BY <1>1, <1>2, EdgesOfAnUpdate DEF Timing

LEMMA ClkClearUp ==
  ASSUME UpInv, TypeInv', NEW ready, NEW offer \in Offers, Clk(ready, offer), clear
  PROVE  UpInv'
  <1>1. ~shifting /\ ~shifting'
    BY Quiet DEF UpInv, Clk, tapVars
  <1>2. Timing'
    BY ClkTiming DEF UpInv, Clk
  <1>3. ~ReceiptOnTheWay'
    BY ReceiptMoves DEF UpInv, Clk
  <1>4. up_transfer'.fn = HUB
    BY DEF Clk, Arbiter, ArbiterClear
  <1>5. data_up_buffer_empty' = Channel /\ to_host' = [c \in Channel |-> <<>>]
    BY DEF Clk, InputBuffering, History
  <1>6. UpIntegrity'
    BY <1>1, <1>5 DEF UpIntegrity, UpBytes, One
  <1> QED
    BY <1>1, <1>2, <1>3, <1>4, <1>6 DEF UpInv, WordIsBuffer, ScanCarriesWord, ReceiptOfWord

LEMMA ClkRunUp ==
  ASSUME UpInv, TypeInv', NEW ready, NEW offer \in Offers, Clk(ready, offer), ~clear
  PROVE  UpInv'
  <1>1. UNCHANGED <<shifting, dr>>
    BY DEF Clk, tapVars
  <1>2. Timing'
    BY ClkTiming DEF UpInv, Clk
  <1>3. /\ data_up_buffer_empty' = (data_up_buffer_empty \ Accepted(offer))
                                     \cup (IF UpWordSent THEN {up_transfer.fn} \cap Channel ELSE {})
        /\ data_up_buffer' =
             [c \in Channel |-> IF c \in Accepted(offer) THEN offer[c] ELSE data_up_buffer[c]]
        /\ to_host' = [c \in Channel |-> IF c \in Accepted(offer) THEN Append(to_host[c], offer[c])
                                         ELSE to_host[c]]
    BY DEF Clk, InputBuffering, History
  <1>4. Accepted(offer) \subseteq data_up_buffer_empty
    BY DEF Accepted
  <1>5. UpWordSent => up_transfer.valid
    BY DEF UpInv, ReceiptOfWord, ReceiptOnTheWay
  \* The word after the edge.
  <1>6. CASE up_transfer.valid
    <2>1. /\ up_transfer'.fn = up_transfer.fn /\ up_transfer'.data = up_transfer.data
          /\ up_transfer'.valid <=> ~UpWordSent
      BY <1>6, WordStays DEF UpInv, Clk
    <2>2. WordIsBuffer'
      <3> SUFFICES ASSUME up_transfer'.valid, up_transfer'.fn # HUB
                   PROVE  /\ up_transfer'.fn \notin data_up_buffer_empty'
                          /\ up_transfer'.data = data_up_buffer'[up_transfer'.fn]
        BY DEF WordIsBuffer
      <3>1. up_transfer.fn \in Channel
        BY <2>1 DEF UpInv, TypeInv, ArbiterTypes
      <3>2. up_transfer.fn \notin data_up_buffer_empty
            /\ up_transfer.data = data_up_buffer[up_transfer.fn]
        BY <1>6, <2>1 DEF UpInv, WordIsBuffer
      <3> QED BY <1>3, <1>4, <2>1, <3>1, <3>2
    <2>3. ScanCarriesWord'
      <3> SUFFICES ASSUME shifting, dr.valid PROVE ScanCarriesWord'
        BY <1>1 DEF ScanCarriesWord
      <3>1. ~UpWordSent
        BY Quiet DEF UpInv, UpWordSent
      <3> QED BY <1>1, <2>1, <3>1 DEF UpInv, ScanCarriesWord
    <2>4. ReceiptOfWord'
      <3> SUFFICES ASSUME ReceiptOnTheWay' PROVE up_transfer'.valid
        BY DEF ReceiptOfWord
      <3> QED BY <2>1, ReceiptMoves DEF UpInv, Clk
    <2>5. ASSUME NEW c \in Channel PROVE to_host'[c] = UpBytes(c)'
      <3> DEFINE mine == up_transfer.fn = c
      <3>1. mine => c \notin data_up_buffer_empty
        BY <1>6, Constants DEF UpInv, WordIsBuffer
      <3>2. to_host[c] = UpBytes(c)
        BY DEF UpInv, UpIntegrity
      <3>3. CASE c \in Accepted(offer)
        <4>1. ~mine /\ c \notin data_up_buffer_empty' /\ data_up_buffer'[c] = offer[c]
          BY <1>3, <1>4, <3>1, <3>3
        <4>2. to_host[c] = <<>>
          BY <1>4, <3>2, <3>3 DEF UpBytes, One
        <4>3. offer[c] \in Data
          BY DEF Offers
        <4> QED BY <1>3, <2>1, <3>3, <4>1, <4>2, <4>3, OneByte DEF UpBytes, One
      <3>4. CASE c \notin Accepted(offer) /\ mine /\ ReceiptOnTheWay
        <4>1. to_host[c] = <<>> /\ to_host'[c] = <<>>
          BY <1>3, <1>6, <3>2, <3>4 DEF UpBytes, One
        <4>2. CASE UpWordSent
          <5>1. c \in data_up_buffer_empty'
            BY <1>3, <3>4, <4>2
          <5> QED BY <4>1, <5>1 DEF UpBytes, One
        <4>3. CASE ~UpWordSent
          <5>1. ReceiptOnTheWay'
            BY <3>4, <4>3, ReceiptArrives DEF UpInv, Clk
          <5> QED BY <2>1, <3>4, <4>1, <4>3, <5>1 DEF UpBytes, One
        <4> QED BY <4>2, <4>3
      <3>5. CASE c \notin Accepted(offer) /\ ~(mine /\ ReceiptOnTheWay)
        <4>1. ~(mine /\ ReceiptOnTheWay') /\ ~(mine /\ UpWordSent)
          BY <3>5, ReceiptMoves DEF UpInv, Clk, ReceiptOnTheWay
        <4>2. /\ c \in data_up_buffer_empty' <=> c \in data_up_buffer_empty
              /\ data_up_buffer'[c] = data_up_buffer[c] /\ to_host'[c] = to_host[c]
          BY <1>3, <3>5, <4>1
        <4> QED BY <2>1, <3>2, <3>5, <4>1, <4>2 DEF UpBytes
      <3> QED BY <3>3, <3>4, <3>5
    <2>6. UpIntegrity'
      <3>1. ASSUME NEW c \in Channel, shifting, dr.valid, dr.fn = c PROVE to_host'[c] = <<dr.data>>
        <4>1. c \notin data_up_buffer_empty
          BY <3>1, Constants DEF UpInv, ScanCarriesWord, WordIsBuffer
        <4> QED BY <1>3, <1>4, <3>1, <4>1 DEF UpInv, UpIntegrity
      <3> QED BY <1>1, <2>5, <3>1 DEF UpIntegrity
    <2> QED BY <1>2, <2>2, <2>3, <2>4, <2>6 DEF UpInv
  <1>7. CASE ~up_transfer.valid
    <2>1. ~UpWordSent /\ ~ReceiptOnTheWay /\ ~ReceiptOnTheWay' /\ ~(shifting /\ dr.valid)
      BY <1>5, <1>7, ReceiptMoves DEF UpInv, ReceiptOfWord, ScanCarriesWord, Clk
    <2>2. data_up_buffer_empty' = data_up_buffer_empty \ Accepted(offer)
      BY <1>3, <2>1
    <2>3. WordIsBuffer'
      <3> SUFFICES ASSUME up_transfer'.valid, up_transfer'.fn # HUB
                   PROVE  /\ up_transfer'.fn \notin data_up_buffer_empty'
                          /\ up_transfer'.data = data_up_buffer'[up_transfer'.fn]
        BY DEF WordIsBuffer
      <3>1. ArbiterLook
        BY <1>7 DEF Clk, Arbiter
      <3>2. state # HUB /\ up_transfer'.fn = state /\ state \notin data_up_buffer_empty
            /\ up_transfer'.data = data_up_buffer[state]
        BY <3>1 DEF ArbiterLook
      <3>3. state \in Channel
        BY <3>2 DEF UpInv, TypeInv, ArbiterTypes
      <3> QED BY <1>3, <1>4, <2>2, <3>2, <3>3
    <2>4. ASSUME NEW c \in Channel PROVE to_host'[c] = UpBytes(c)'
      <3>1. to_host[c] = One(c \notin data_up_buffer_empty, data_up_buffer[c])
        BY <1>7 DEF UpInv, UpIntegrity, UpBytes
      <3>2. UpBytes(c)' = One(c \notin data_up_buffer_empty', data_up_buffer'[c])
        BY <2>1 DEF UpBytes
      <3>3. CASE c \in Accepted(offer)
        <4>1. offer[c] \in Data
          BY DEF Offers
        <4> QED BY <1>3, <1>4, <2>2, <3>1, <3>2, <3>3, <4>1, OneByte DEF One
      <3>4. CASE c \notin Accepted(offer)
        BY <1>3, <2>2, <3>1, <3>2, <3>4
      <3> QED BY <3>3, <3>4
    <2>5. UpIntegrity' /\ ScanCarriesWord' /\ ReceiptOfWord'
      BY <1>1, <2>1, <2>4 DEF UpIntegrity, ScanCarriesWord, ReceiptOfWord
    <2> QED BY <1>2, <2>3, <2>5 DEF UpInv
  <1> QED BY <1>6, <1>7

-----------------------------------------------------------------------------
LEMMA StutterUp == ASSUME UpInv, TypeInv', UNCHANGED vars PROVE UpInv'
  <1>1. UNCHANGED <<tapVars, since, dwnVars, upVars, to_host>>
    BY DEF vars
  <1>2. (ReceiptOnTheWay' <=> ReceiptOnTheWay) /\ Timing'
    BY <1>1, EdgesOfAnUpdate
    DEF UpInv, Timing, ReceiptOnTheWay, WaitsInDR, UpWordSent, tapVars, dwnVars
  <1>3. WordIsBuffer' /\ ScanCarriesWord' /\ ReceiptOfWord'
    BY <1>1, <1>2
    DEF UpInv, WordIsBuffer, ScanCarriesWord, ReceiptOfWord, tapVars, upVars
  <1>4. \A c \in Channel : UpBytes(c)' = UpBytes(c)
    BY <1>1, <1>2 DEF UpBytes, upVars
  <1>5. UpIntegrity'
    BY <1>1, <1>4 DEF UpInv, UpIntegrity, tapVars
  <1> QED BY <1>2, <1>3, <1>5 DEF UpInv

LEMMA NextUpInv == ASSUME ~AbortedScans, UpInv, [Next]_vars PROVE UpInv'
  <1>1. TypeInv'
    BY NextTypeInv DEF UpInv
  <1>2. CASE ClkEdge
    BY <1>1, <1>2, ClkClearUp, ClkRunUp DEF ClkEdge
  <1>3. CASE CaptureDR
    BY <1>1, <1>3, CaptureDRUp
  <1>4. ASSUME NEW c \in HostTools, NEW b \in Byte, SendByte(c, b) PROVE UpInv'
    BY <1>1, <1>4, FullScanUp DEF SendByte
  <1>5. CASE Poll
    BY <1>1, <1>5, FullScanUp DEF Poll
  <1>6. CASE ResetHub
    BY <1>1, <1>6, FullScanUp DEF ResetHub
  <1>7. CASE UNCHANGED vars
    BY <1>1, <1>7, StutterUp
  <1>8. ~AbortScan
    BY DEF AbortScan
  <1> QED BY <1>2, <1>3, <1>4, <1>5, <1>6, <1>7, <1>8 DEF Next

\* While no scan is cut short, a byte the hub has taken from a core is in its
\* buffer until the host has it: the receipt releases the right buffer, and the
\* arbiter sends no byte twice (processes input_buffering and arbiter).
THEOREM UplinkCorrect == ASSUME ~AbortedScans PROVE Spec => []UpIntegrity
  <1>1. UpInv /\ [][Next]_vars => []UpInv
    BY NextUpInv, PTL
  <1>2. UpInv => UpIntegrity
    BY DEF UpInv
  <1> QED BY <1>1, <1>2, InitUpInv, PTL DEF Spec

-----------------------------------------------------------------------------
(***************************************************************************)
(* The answer to a reset of the hub.                                       *)
(***************************************************************************)
LEMMA ClkAnswer ==
  ASSUME AnswerInv, UpInv', NEW ready, NEW offer \in Offers, Clk(ready, offer), host = "answer"
  PROVE  ResetOnTheWay' \/ AnswerReady'
  <1>1. UNCHANGED <<shifting, dr>> /\ TypeInv /\ Timing
    BY DEF Clk, tapVars, AnswerInv, UpInv
  <1>2. CASE WaitsInDR /\ dr.valid /\ dr.fn = HUB
    <2>1. ~shifting /\ since < SyncEdges /\ since \in 0..ScanGap
      BY <1>1, <1>2 DEF WaitsInDR, TypeInv, TapTypes
    <2>2. since' = since + 1
      BY <1>1, <2>1, SynchronizerCounts, EdgesOfAnUpdate DEF Clk
    <2>3. CASE since + 1 < SyncEdges
      BY <1>1, <1>2, <2>1, <2>2, <2>3, EdgesOfAnUpdate DEF ResetOnTheWay, WaitsInDR, HUB
    <2>4. CASE since + 1 = SyncEdges
      <3>1. dwn_do_update' /\ dwn_transfer' = [valid |-> dr.valid, fn |-> dr.fn, data |-> dr.data]
        BY <2>4 DEF Clk, Synchronizer
      <3> QED BY <1>2, <3>1 DEF ResetOnTheWay, UpdateFor, HUB
    <2> QED BY <2>1, <2>3, <2>4, EdgesOfAnUpdate
  <1>3. CASE UpdateFor(HUB)
    BY <1>3 DEF Clk, InternalOutput, ResetOnTheWay
  <1>4. CASE clear
    <2>1. up_transfer' = [valid |-> TRUE, fn |-> HUB, data |-> ResetAnswer]
      BY <1>4 DEF Clk, Arbiter, ArbiterClear
    <2>2. ~ReceiptOnTheWay'
      BY <1>1, <1>4, ReceiptMoves DEF Clk
    <2>3. ~shifting'
      BY <1>1, <1>4, Quiet
    <2> QED BY <2>1, <2>2, <2>3 DEF AnswerReady, HUB, ResetAnswer
  <1>5. CASE AnswerReady /\ ~clear
    <2>1. ~UpWordSent /\ ~ReceiptOnTheWay'
      BY <1>1, <1>5, ReceiptMoves DEF AnswerReady, Clk, ReceiptOnTheWay
    <2>2. up_transfer' = [up_transfer EXCEPT !.valid = ~UpWordSent]
      BY <1>5 DEF AnswerReady, Clk, Arbiter, ArbiterWait
    <2>3. up_transfer' = [valid |-> TRUE, fn |-> HUB, data |-> ResetAnswer]
      BY <1>5, <2>1, <2>2 DEF AnswerReady
    <2> QED BY <1>1, <1>5, <2>1, <2>3 DEF AnswerReady, HUB, ResetAnswer
  <1> QED BY <1>2, <1>3, <1>4, <1>5 DEF AnswerInv, ResetOnTheWay

LEMMA NextAnswerInv == ASSUME ~AbortedScans, AnswerInv, [Next]_vars PROVE AnswerInv'
  <1>1. UpInv'
    BY NextUpInv DEF AnswerInv
  <1> SUFFICES ASSUME host' = "answer" PROVE ResetOnTheWay' \/ AnswerReady'
    BY <1>1 DEF AnswerInv
  <1>2. CASE ClkEdge
    <2>1. host = "answer"
      BY <1>2 DEF ClkEdge, Clk, hostVars
    <2> QED BY <1>1, <1>2, <2>1, ClkAnswer DEF ClkEdge
  <1>3. CASE CaptureDR
    <2>1. Settled /\ host = "answer" /\ TypeInv /\ Timing
      BY <1>3 DEF CaptureDR, hostVars, AnswerInv, UpInv
    <2>2. ~dwn_do_update /\ ~clear /\ ~WaitsInDR
      BY <2>1, Quiet
    <2>3. AnswerReady
      BY <2>1, <2>2 DEF AnswerInv, ResetOnTheWay, UpdateFor
    <2>4. up_transfer' = up_transfer /\ ~ReceiptOnTheWay'
      BY <1>3, <2>2
      DEF CaptureDR, upVars, dwnVars, ReceiptOnTheWay, WaitsInDR, UpWordSent
    <2> QED BY <1>3, <2>3, <2>4 DEF CaptureDR, AnswerReady, HUB, ResetAnswer
  <1>4. ASSUME NEW c \in HostTools, NEW b \in Byte, SendByte(c, b) PROVE FALSE
    BY <1>4 DEF SendByte
  <1>5. ~Poll
    BY DEF Poll
  <1>6. CASE ResetHub
    BY <1>6, EdgesOfAnUpdate
    DEF ResetHub, FullScan, ResetOnTheWay, WaitsInDR, ResetWord, EmptyWord, HUB
  <1>7. CASE UNCHANGED vars
    <2>1. host = "answer" /\ UNCHANGED <<tapVars, since, dwnVars, upVars>>
      BY <1>7 DEF vars, hostVars
    <2>2. (WaitsInDR' <=> WaitsInDR) /\ (ReceiptOnTheWay' <=> ReceiptOnTheWay)
      BY <2>1, EdgesOfAnUpdate DEF ReceiptOnTheWay, WaitsInDR, UpWordSent, tapVars, dwnVars
    <2> QED
      BY <2>1, <2>2
      DEF AnswerInv, ResetOnTheWay, AnswerReady, UpdateFor, HUB, ResetAnswer, tapVars, dwnVars,
          upVars
  <1>8. ~AbortScan
    BY DEF AbortScan
  <1> QED BY <1>2, <1>3, <1>4, <1>5, <1>6, <1>7, <1>8 DEF Next

\* While no scan is cut short, the first scan after the reset word carries the
\* answer of the hub: whatever the arbiter was about to send, the reset comes
\* first, and no receipt of an older word takes the answer away.
THEOREM ResetIsAnswered == ASSUME ~AbortedScans PROVE Spec => []ResetAnswered
  <1>1. Init => AnswerInv
    BY InitUpInv DEF AnswerInv, Init
  <1>2. AnswerInv /\ [][Next]_vars => []AnswerInv
    BY NextAnswerInv, PTL
  <1>3. AnswerInv => ResetAnswered
    <2> SUFFICES ASSUME AnswerInv, host = "answer", shifting
                 PROVE  dr.valid /\ dr.fn = HUB /\ dr.data = ResetAnswer
      BY DEF ResetAnswered
    <2>1. ~dwn_do_update /\ ~clear /\ ~WaitsInDR
      BY Quiet DEF AnswerInv, UpInv
    <2> QED BY <2>1 DEF AnswerInv, ResetOnTheWay, AnswerReady, UpdateFor
  <1> QED BY <1>1, <1>2, <1>3, PTL DEF Spec

-----------------------------------------------------------------------------
(***************************************************************************)
(* The way from the host to the cores and the flow control.  The argument: *)
(* an open channel has at most one byte behind its output register, and    *)
(* only while the next xoff bit is about that channel; so the byte a host  *)
(* sends before it sees the xoff has a place.  A channel is opened again   *)
(* when its buffer is empty and nothing is on the way to it, which the hub *)
(* knows because a channel that is stopped for it is stopped for the host. *)
(*                                                                         *)
(* A scan that is cut short repeats the xoff of the scan before it, for    *)
(* the channel the mux has turned to since.  That is harmless if no other  *)
(* channel has flow control: the channel is the same, and still stopped.   *)
(***************************************************************************)
OneChannelIfAborted == AbortedScans => \A c, d \in FLOW_CONTROL_ENABLE : c = d

\* What holds of the scans, cut short or not.
LinkInv == TypeInv /\ Timing /\ ScanCarriesWord /\ (~AbortedScans => UpInv)

\* A byte of the host for channel c that is not yet in the output stage.
InFlight(c) ==
  \/ WaitsInDR /\ dr.valid /\ dr.fn = c
  \/ UpdateFor(c)
  \/ c \in channel_selected

\* What an update sets lasts one cycle.
UpdateTiming ==
  /\ channel_selected # {} \/ data_dwn_valid # {} => since = SyncEdges + 1
  /\ xoff_host_set # {} \/ clear_xoff_bits_valid => since = SyncEdges + 1
  /\ clear => channel_selected = {}

RoomForByte ==
  \A c \in FLOW_CONTROL_ENABLE :
    Compact(stage[c]) /\ (InFlight(c) => 1 \notin stage[c].occupied)

\* The word on its way is the one the host remembers, and with it the mux of the
\* xoff bit turns to its channel.
HostWordIsLast ==
  /\ WaitsInDR /\ dr.valid => dr.fn = last_dn_tool
  /\ dwn_do_update /\ dwn_transfer.valid => dwn_transfer.fn = last_dn_tool
MuxFollowsHost ==
  last_dn_tool # HUB =>
    xoff_sel = last_dn_tool \/ (WaitsInDR /\ dr.valid) \/ (dwn_do_update /\ dwn_transfer.valid)

ResetForgets == ResetOnTheWay => dn_xoff = {} /\ last_dn_tool = HUB /\ host = "answer"

\* A xon is for the channels in xon_data, which is empty when the host has it.
XonHasData ==
  /\ up_transfer.valid /\ up_transfer.fn = HUB /\ ~up_transfer.data.reset =>
       up_transfer.data.bits = xon_data
  /\ clear_xoff_bits_valid => xon_data = {}

\* An update that has settled shows in the xoff bit.
XoffIsShown ==
  /\ since >= SyncEdges + 3 /\ xoff_sel \in near_full => up_xoff
  /\ since >= SyncEdges + 3 /\ up_xoff => xoff_sel \in FLOW_CONTROL_ENABLE
  /\ shifting /\ (up_xoff \/ xoff_sel \in near_full) => dr.xoff
  /\ shifting /\ dr.xoff => xoff_sel \in FLOW_CONTROL_ENABLE

\* A receipt of the xon for channel c, which the hub has not processed.  While no
\* scan is cut short the host has that xon.
Closing(c) ==
  \/ ReceiptOnTheWay /\ up_transfer.valid /\ up_transfer.fn = HUB /\ ~up_transfer.data.reset
       /\ c \in up_transfer.data.bits
  \/ clear_xoff_bits_valid /\ c \in clear_xoff_bits

\* An xoff for channel c is on its way back, which the hub has not processed.
XoffPending(c) ==
  \/ xoff_sel = c /\ ((WaitsInDR /\ xoff_sent_x) \/ (dwn_do_update /\ xoff_sent))
  \/ c \in xoff_host_set

\* What is stopped for the hub is stopped for the host, and the other way round
\* unless a receipt was wrong.
Agreement(c) ==
  /\ (c \in xoff_state_host /\ ~Closing(c)) \/ XoffPending(c) => c \in dn_xoff
  /\ ~AbortedScans /\ c \in dn_xoff => (c \in xoff_state_host /\ ~Closing(c)) \/ XoffPending(c)
  /\ ~AbortedScans => ~(Closing(c) /\ XoffPending(c))

\* The xoff a scan that is cut short would repeat is of a channel that is stopped.
StaleXoffIsTrue(c) ==
  AbortedScans /\ xoff_sent_x =>
    /\ xoff_sel = c => c \in dn_xoff
    /\ (WaitsInDR /\ dr.valid /\ dr.fn = c) \/ UpdateFor(c) => xoff_sel = c

OpenHasRoom(c) ==
  /\ c \notin dn_xoff /\ last_dn_tool # c => 0 \notin stage[c].occupied /\ ~InFlight(c)
  /\ c \notin dn_xoff /\ last_dn_tool = c =>
       1 \notin stage[c].occupied /\ (InFlight(c) => 0 \notin stage[c].occupied)

StoppedIsQuiet(c) == c \in xoff_state_host /\ ~Closing(c) => ~InFlight(c)

XonIsSafe(c) ==
  c \in xon_data =>
    /\ 0 \notin stage[c].occupied
    /\ ~InFlight(c)
    /\ Closing(c) \/ c \in dn_xoff
    /\ ~(xoff_sel = c /\ up_xoff)

XoffIsMeant(c) ==
  xoff_sel = c =>
    /\ up_xoff /\ last_dn_tool # c => c \in dn_xoff
    /\ shifting /\ dr.xoff /\ last_dn_tool # c => c \in dn_xoff
    /\ shifting /\ dr.xoff => ~(dr.valid /\ dr.fn = HUB /\ ~dr.data.reset /\ c \in dr.data.bits)

ChannelControl(c) ==
  /\ Agreement(c) /\ StaleXoffIsTrue(c) /\ OpenHasRoom(c) /\ StoppedIsQuiet(c)
  /\ XonIsSafe(c) /\ XoffIsMeant(c)

FlowControl == ~ResetOnTheWay => \A c \in FLOW_CONTROL_ENABLE : ChannelControl(c)

FlowInv ==
  /\ LinkInv /\ UpdateTiming /\ RoomForByte /\ HostWordIsLast /\ MuxFollowsHost /\ ResetForgets
  /\ XonHasData /\ XoffIsShown /\ FlowControl

DownInv == FlowInv /\ DownIntegrity

-----------------------------------------------------------------------------
LEMMA InitLink == Init => LinkInv
  BY InitUpInv DEF UpInv, LinkInv

LEMMA NextLink == ASSUME LinkInv, [Next]_vars PROVE LinkInv'
  <1>1. TypeInv /\ TypeInv' /\ Timing
    BY NextTypeInv DEF LinkInv
  <1>2. (~AbortedScans => UpInv)'
    BY NextUpInv DEF LinkInv
  <1>3. CASE ClkEdge
    <2>1. PICK ready \in SUBSET (FLOW_CONTROL_ENABLE \cap HostTools), offer \in Offers :
            Clk(ready, offer)
      BY <1>3 DEF ClkEdge
    <2>2. Timing'
      BY <1>1, <2>1, ClkTiming DEF Clk
    <2>3. ScanCarriesWord'
      <3> SUFFICES ASSUME shifting', dr'.valid
                   PROVE  /\ up_transfer'.valid /\ dr'.fn = up_transfer'.fn
                          /\ dr'.data = up_transfer'.data
        BY DEF ScanCarriesWord
      <3>1. UNCHANGED <<shifting, dr>>
        BY <2>1 DEF Clk, tapVars
      <3>2. ~clear /\ ~UpWordSent
        BY <1>1, <3>1, Quiet DEF UpWordSent
      <3>3. up_transfer.valid /\ dr.fn = up_transfer.fn /\ dr.data = up_transfer.data
        BY <3>1 DEF LinkInv, ScanCarriesWord
      <3> QED BY <1>1, <2>1, <3>1, <3>2, <3>3, WordStays DEF Clk
    <2> QED BY <1>1, <1>2, <2>2, <2>3 DEF LinkInv
  <1>4. CASE CaptureDR
    <2>1. Timing'
      BY <1>1, <1>4, EdgesOfAnUpdate DEF CaptureDR, dwnVars, Timing
    <2>2. ScanCarriesWord'
      BY <1>4 DEF CaptureDR, upVars, ScanCarriesWord
    <2> QED BY <1>1, <1>2, <2>1, <2>2 DEF LinkInv
  <1>5. ASSUME shifting, ~shifting', UNCHANGED dwnVars PROVE LinkInv'
    <2>1. ~dwn_do_update' /\ ~clear'
      BY <1>1, <1>5, Quiet DEF dwnVars
    <2> QED BY <1>1, <1>2, <1>5, <2>1 DEF LinkInv, Timing, ScanCarriesWord
  <1>6. ASSUME NEW c \in HostTools, NEW b \in Byte, SendByte(c, b) PROVE LinkInv'
    BY <1>5, <1>6 DEF SendByte, FullScan
  <1>7. CASE Poll
    BY <1>5, <1>7 DEF Poll, FullScan
  <1>8. CASE ResetHub
    BY <1>5, <1>8 DEF ResetHub, FullScan
  <1>9. CASE AbortScan
    BY <1>5, <1>9 DEF AbortScan
  <1>10. CASE UNCHANGED vars
    <2>1. Timing' /\ ScanCarriesWord'
      BY <1>10, EdgesOfAnUpdate
      DEF LinkInv, vars, tapVars, dwnVars, upVars, Timing, ScanCarriesWord
    <2> QED BY <1>1, <1>2, <2>1 DEF LinkInv
  <1> QED BY <1>3, <1>4, <1>6, <1>7, <1>8, <1>9, <1>10 DEF Next

\* When the last update has settled, flow control is at rest as well.
LEMMA Calm ==
  ASSUME FlowInv, Settled \/ shifting
  PROVE  /\ since = ScanGap /\ ~dwn_do_update /\ ~clear /\ ~WaitsInDR /\ ~ReceiptOnTheWay
         /\ channel_selected = {} /\ data_dwn_valid = {} /\ xoff_host_set = {}
         /\ ~clear_xoff_bits_valid /\ ~ResetOnTheWay
         /\ last_dn_tool # HUB => xoff_sel = last_dn_tool
         /\ \A c \in Channel : ~InFlight(c) /\ ~Closing(c) /\ ~XoffPending(c)
         /\ \A c \in FLOW_CONTROL_ENABLE : ChannelControl(c)
  <1>1. since = ScanGap /\ ~dwn_do_update /\ ~clear /\ ~WaitsInDR /\ ~ReceiptOnTheWay
    BY Quiet DEF FlowInv, LinkInv
  <1>2. /\ channel_selected = {} /\ data_dwn_valid = {} /\ xoff_host_set = {}
        /\ ~clear_xoff_bits_valid
    BY <1>1, EdgesOfAnUpdate DEF FlowInv, UpdateTiming
  <1>3. ~ResetOnTheWay
    BY <1>1 DEF ResetOnTheWay, UpdateFor
  <1>4. last_dn_tool # HUB => xoff_sel = last_dn_tool
    BY <1>1 DEF FlowInv, MuxFollowsHost
  <1>5. \A c \in Channel : ~InFlight(c) /\ ~Closing(c) /\ ~XoffPending(c)
    BY <1>1, <1>2 DEF InFlight, UpdateFor, Closing, XoffPending
  <1>6. \A c \in FLOW_CONTROL_ENABLE : ChannelControl(c)
    BY <1>3 DEF FlowInv, FlowControl
  <1> QED BY <1>1, <1>2, <1>3, <1>4, <1>5, <1>6

LEMMA InitFlowInv == Init => FlowInv
  <1> SUFFICES ASSUME Init PROVE FlowInv
    OBVIOUS
  <1>1. LinkInv
    BY InitLink
  <1>2. since = ScanGap /\ ~dwn_do_update /\ ~clear /\ ~WaitsInDR /\ ~ReceiptOnTheWay /\ ~shifting
    BY <1>1, Quiet DEF Init, Settled, LinkInv
  <1>3. UpdateTiming
    BY DEF Init, UpdateTiming
  <1>4. \A c \in Channel : ~InFlight(c) /\ ~Closing(c) /\ ~XoffPending(c)
    BY <1>2 DEF Init, InFlight, UpdateFor, Closing, XoffPending
  <1>5. \A c \in FLOW_CONTROL_ENABLE : stage[c].occupied = {}
    BY DEF Init, EmptyStage
  <1>6. RoomForByte
    BY <1>5 DEF RoomForByte, Compact
  <1>7. HostWordIsLast /\ MuxFollowsHost /\ ResetForgets
    BY <1>2 DEF Init, HostWordIsLast, MuxFollowsHost, ResetForgets, ResetOnTheWay, UpdateFor
  <1>8. XonHasData /\ XoffIsShown
    BY <1>2, <1>5 DEF Init, XonHasData, XoffIsShown, near_full, NearFull
  <1>9. ASSUME NEW c \in FLOW_CONTROL_ENABLE PROVE ChannelControl(c)
    <2>1. Agreement(c) /\ StaleXoffIsTrue(c) /\ StoppedIsQuiet(c) /\ XonIsSafe(c)
      BY <1>4, Constants DEF Init, Agreement, StaleXoffIsTrue, StoppedIsQuiet, XonIsSafe
    <2>2. OpenHasRoom(c) /\ XoffIsMeant(c)
      BY <1>2, <1>4, <1>5, Constants DEF Init, OpenHasRoom, XoffIsMeant
    <2> QED BY <2>1, <2>2 DEF ChannelControl
  <1> QED BY <1>1, <1>3, <1>6, <1>7, <1>8, <1>9 DEF FlowInv, FlowControl

-----------------------------------------------------------------------------
(***************************************************************************)
(* The steps of the TAP and of the host.                                   *)
(***************************************************************************)
\* What a full scan puts on its way.
LEMMA ScanSends ==
  ASSUME FlowInv, NEW word, FullScan(word)
  PROVE  /\ WaitsInDR' /\ ~dwn_do_update' /\ ~clear'
         /\ \A f : ~UpdateFor(f)'
         /\ ReceiptOnTheWay' <=> dr.valid
         /\ \A c \in Channel : InFlight(c)' <=> word.valid /\ word.fn = c
         /\ \A c \in Channel : XoffPending(c)' <=> xoff_sel = c /\ dr.xoff
         /\ \A c \in Channel :
              Closing(c)' <=> dr.valid /\ dr.fn = HUB /\ ~dr.data.reset /\ c \in dr.data.bits
  <1>1. /\ ~dwn_do_update /\ ~clear /\ channel_selected = {} /\ xoff_host_set = {}
        /\ ~clear_xoff_bits_valid /\ shifting
    BY Calm DEF FullScan
  <1>2. UNCHANGED <<dwn_do_update, clear, channel_selected, xoff_host_set, xoff_sel,
                    clear_xoff_bits_valid, up_transfer>>
    BY DEF FullScan, dwnVars, xoffVars, upVars
  <1>3. WaitsInDR' /\ dr' = word /\ xoff_sent_x' = dr.xoff
    BY EdgesOfAnUpdate DEF FullScan, WaitsInDR
  <1>4. ~dwn_do_update' /\ ~clear'
    BY <1>1, <1>2
  <1>5. \A f : ~UpdateFor(f)'
    BY <1>4 DEF UpdateFor
  <1>6. ReceiptOnTheWay' <=> dr.valid
    BY <1>3, <1>4 DEF FullScan, ReceiptOnTheWay, UpWordSent
  <1>7. \A c \in Channel : InFlight(c)' <=> word.valid /\ word.fn = c
    BY <1>1, <1>2, <1>3, <1>5 DEF InFlight
  <1>8. \A c \in Channel : XoffPending(c)' <=> xoff_sel = c /\ dr.xoff
    BY <1>1, <1>2, <1>3, <1>4 DEF XoffPending
  <1>9. dr.valid => up_transfer.valid /\ dr.fn = up_transfer.fn /\ dr.data = up_transfer.data
    BY <1>1 DEF FlowInv, LinkInv, ScanCarriesWord
  <1>10. \A c \in Channel :
           Closing(c)' <=> dr.valid /\ dr.fn = HUB /\ ~dr.data.reset /\ c \in dr.data.bits
    BY <1>1, <1>2, <1>6, <1>9 DEF Closing, HUB
  <1> QED BY <1>3, <1>4, <1>5, <1>6, <1>7, <1>8, <1>10

\* A full scan leaves the registers of clk alone.
LEMMA ScanKeeps ==
  ASSUME FlowInv, NEW word, FullScan(word)
  PROVE  UpdateTiming' /\ XonHasData' /\ XoffIsShown'
  <1>1. shifting /\ since' = 0 /\ ~shifting' /\ UNCHANGED <<dwnVars, xoffVars, upVars>>
    BY DEF FullScan
  <1>2. /\ channel_selected = {} /\ data_dwn_valid = {} /\ xoff_host_set = {}
        /\ ~clear_xoff_bits_valid
    BY <1>1, Calm
  <1>3. UpdateTiming'
    BY <1>1, <1>2 DEF UpdateTiming, dwnVars, xoffVars, upVars
  <1>4. XonHasData'
    BY <1>1 DEF FlowInv, XonHasData, upVars, HUB
  <1>5. XoffIsShown'
    BY <1>1, EdgesOfAnUpdate DEF XoffIsShown
  <1> QED BY <1>3, <1>4, <1>5

\* A scan of a connected host.
LEMMA ScanFlow ==
  ASSUME OneChannelIfAborted, FlowInv, LinkInv', NEW word, NEW tool \in Channel \cup {HUB},
         FullScan(word), CheckForXoff(tool),
         word.valid => word.fn = tool /\ tool \in Channel /\ tool \notin dn_xoff,
         ~word.valid => tool = HUB
  PROVE  FlowInv'
  <1>1. shifting /\ dr' = word /\ UNCHANGED <<xoff_sel, up_xoff, stage, xoff_state_host, xon_data>>
    BY DEF FullScan, dwnVars, xoffVars, upVars
  <1>2. HUB \notin Channel /\ FLOW_CONTROL_ENABLE \subseteq Channel /\ HUB' = HUB
    BY Constants DEF HUB
  <1>3. /\ last_dn_tool' = tool
        /\ \A c \in Channel :
             c \in dn_xoff' <=> (c \in dn_xoff /\ ~Closing(c)') \/ (dr.xoff /\ last_dn_tool = c)
    BY <1>2, ScanSends DEF CheckForXoff, DistributedXoff
  <1>4. ~ResetOnTheWay'
    BY <1>1, <1>2, ScanSends DEF ResetOnTheWay
  <1>5. HostWordIsLast' /\ MuxFollowsHost' /\ ResetForgets'
    BY <1>1, <1>2, <1>3, <1>4, ScanSends DEF HostWordIsLast, MuxFollowsHost, ResetForgets
  \* Behind an open channel's output register there is room.
  <1>6. ASSUME NEW c \in FLOW_CONTROL_ENABLE, c \notin dn_xoff' PROVE 0 \notin stage[c].occupied
    <2>1. c \in Channel /\ ChannelControl(c)
      BY <1>1, <1>2, Calm
    <2>2. CASE c \notin dn_xoff /\ last_dn_tool # c
      BY <2>1, <2>2 DEF ChannelControl, OpenHasRoom
    <2>3. CASE c \notin dn_xoff /\ last_dn_tool = c
      <3>1. xoff_sel = c /\ ~dr.xoff
        BY <1>1, <1>2, <1>3, <1>6, <2>1, <2>3, Calm
      <3> QED BY <1>1, <3>1 DEF FlowInv, XoffIsShown, near_full, NearFull
    <2>4. CASE c \in dn_xoff
      <3>1. dr.valid /\ dr.fn = HUB /\ ~dr.data.reset /\ c \in dr.data.bits
        BY <1>3, <1>6, <2>1, <2>4, ScanSends
      <3>2. c \in xon_data
        BY <1>1, <3>1 DEF FlowInv, LinkInv, ScanCarriesWord, XonHasData
      <3> QED BY <2>1, <3>2 DEF ChannelControl, XonIsSafe
    <2> QED BY <2>2, <2>3, <2>4
  <1>7. RoomForByte'
    <2> SUFFICES ASSUME NEW c \in FLOW_CONTROL_ENABLE
                 PROVE  Compact(stage[c]) /\ (InFlight(c)' => 1 \notin stage[c].occupied)
      BY <1>1 DEF RoomForByte
    <2>1. Compact(stage[c])
      BY DEF FlowInv, RoomForByte
    <2>2. ASSUME InFlight(c)' PROVE 1 \notin stage[c].occupied
      <3>1. c \notin dn_xoff /\ c \in Channel
        BY <1>2, <2>2, ScanSends
      <3>2. OpenHasRoom(c)
        BY <1>1, Calm DEF ChannelControl
      <3> QED BY <2>1, <3>1, <3>2 DEF OpenHasRoom, Compact
    <2> QED BY <2>1, <2>2
  <1>8. ASSUME NEW c \in FLOW_CONTROL_ENABLE PROVE ChannelControl(c)'
    <2>1. c \in Channel /\ ChannelControl(c) /\ ~Closing(c) /\ ~XoffPending(c) /\ ~InFlight(c)
      BY <1>1, <1>2, Calm
    <2>2. last_dn_tool \in Channel => xoff_sel = last_dn_tool
      BY <1>1, <1>2, Calm
    <2>3. InFlight(c)' => tool = c /\ c \notin dn_xoff
      BY <2>1, ScanSends
    <2>4. XoffPending(c)' <=> xoff_sel = c /\ dr.xoff
      BY <2>1, ScanSends
    <2>5. ~(Closing(c)' /\ XoffPending(c)')
      BY <1>1, <2>1, <2>4, ScanSends DEF ChannelControl, XoffIsMeant
    <2>6. Agreement(c)'
      <3>1. /\ c \in xoff_state_host => c \in dn_xoff
            /\ ~AbortedScans /\ c \in dn_xoff => c \in xoff_state_host
        BY <2>1 DEF ChannelControl, Agreement
      <3>2. dr.xoff /\ last_dn_tool = c => XoffPending(c)'
        BY <2>1, <2>2, <2>4
      <3>3. XoffPending(c)' => c \in dn_xoff'
        <4>1. xoff_sel = c /\ dr.xoff /\ last_dn_tool # c => c \in dn_xoff
          BY <1>1, <2>1 DEF ChannelControl, XoffIsMeant
        <4> QED BY <1>3, <2>1, <2>4, <2>5, <4>1
      <3> QED BY <1>1, <1>3, <2>1, <2>5, <3>1, <3>2, <3>3 DEF Agreement
    <2>7. OpenHasRoom(c)'
      <3>1. Compact(stage[c])
        BY DEF FlowInv, RoomForByte
      <3> QED BY <1>1, <1>3, <1>6, <2>3, <3>1 DEF OpenHasRoom, Compact
    <2>8. StoppedIsQuiet(c)'
      BY <1>1, <2>1, <2>3 DEF StoppedIsQuiet, ChannelControl, Agreement
    <2>9. XonIsSafe(c)'
      BY <1>1, <1>3, <2>1, <2>3 DEF XonIsSafe, ChannelControl
    <2>10. XoffIsMeant(c)'
      <3> SUFFICES ASSUME xoff_sel = c, up_xoff, tool # c PROVE c \in dn_xoff'
        BY <1>1, <1>3 DEF XoffIsMeant, FullScan
      <3>1. dr.xoff
        BY <1>1 DEF FlowInv, XoffIsShown
      <3>2. XoffPending(c)'
        BY <2>4, <3>1
      <3> QED BY <2>6, <3>2 DEF Agreement
    <2>11. StaleXoffIsTrue(c)'
      <3> SUFFICES ASSUME AbortedScans, dr.xoff
                   PROVE  (xoff_sel = c => c \in dn_xoff') /\ (InFlight(c)' => xoff_sel = c)
        BY <1>1 DEF StaleXoffIsTrue, FullScan, InFlight
      <3>1. xoff_sel = c => c \in dn_xoff'
        BY <2>4, <2>6 DEF Agreement
      <3>2. xoff_sel = c
        BY <1>1 DEF OneChannelIfAborted, FlowInv, XoffIsShown
      <3> QED BY <3>1, <3>2
    <2> QED BY <2>6, <2>7, <2>8, <2>9, <2>10, <2>11 DEF ChannelControl
  <1> QED BY <1>5, <1>7, <1>8, ScanKeeps DEF FlowInv, FlowControl

\* A scan that is cut short sends no word, and repeats the flags of the one before.
LEMMA AbortSends ==
  ASSUME FlowInv, AbortScan
  PROVE  /\ WaitsInDR' /\ ~dr'.valid /\ ~dwn_do_update' /\ ~clear'
         /\ \A f : ~UpdateFor(f)'
         /\ \A c \in Channel : ~InFlight(c)'
         /\ \A c \in Channel : XoffPending(c)' <=> xoff_sel = c /\ xoff_sent_x
  <1>1. /\ ~dwn_do_update /\ ~clear /\ channel_selected = {} /\ xoff_host_set = {}
        /\ shifting
    BY Calm DEF AbortScan
  <1>2. UNCHANGED <<dwn_do_update, clear, channel_selected, xoff_host_set, xoff_sel, xoff_sent_x>>
    BY DEF AbortScan, dwnVars, xoffVars
  <1>3. WaitsInDR' /\ ~dr'.valid
    BY EdgesOfAnUpdate DEF AbortScan, WaitsInDR, EmptyWord
  <1>4. \A f : ~UpdateFor(f)'
    BY <1>1, <1>2 DEF UpdateFor
  <1>5. \A c \in Channel : ~InFlight(c)'
    BY <1>1, <1>2, <1>3, <1>4 DEF InFlight
  <1>6. \A c \in Channel : XoffPending(c)' <=> xoff_sel = c /\ xoff_sent_x
    BY <1>1, <1>2, <1>3 DEF XoffPending
  <1> QED BY <1>1, <1>2, <1>3, <1>4, <1>5, <1>6

\* Nothing is sent, and the xoff that is repeated is of a channel that is stopped.
LEMMA AbortScanFlow == ASSUME FlowInv, LinkInv', AbortScan PROVE FlowInv'
  <1>1. /\ AbortedScans /\ shifting /\ ~shifting' /\ since' = 0 /\ HUB' = HUB
        /\ UNCHANGED <<dwnVars, xoffVars, upVars, hostVars, xoff_sent_x>>
    BY DEF AbortScan, HUB
  <1>2. UNCHANGED <<stage, xoff_sel, up_xoff, xoff_state_host, xon_data, dn_xoff, last_dn_tool>>
    BY <1>1 DEF dwnVars, xoffVars, upVars, hostVars
  <1>3. FLOW_CONTROL_ENABLE \subseteq Channel
    BY Constants
  <1>4. UpdateTiming' /\ XonHasData' /\ XoffIsShown'
    <2>1. /\ channel_selected = {} /\ data_dwn_valid = {} /\ xoff_host_set = {}
          /\ ~clear_xoff_bits_valid
      BY <1>1, Calm
    <2>2. UpdateTiming'
      BY <1>1, <2>1 DEF UpdateTiming, dwnVars, xoffVars, upVars
    <2>3. XonHasData'
      BY <1>1 DEF FlowInv, XonHasData, upVars
    <2>4. XoffIsShown'
      BY <1>1, EdgesOfAnUpdate DEF XoffIsShown
    <2> QED BY <2>2, <2>3, <2>4
  <1>5. ~ResetOnTheWay'
    BY AbortSends DEF ResetOnTheWay
  <1>6. HostWordIsLast' /\ MuxFollowsHost' /\ ResetForgets'
    <2>1. last_dn_tool # HUB => xoff_sel = last_dn_tool
      BY <1>1, Calm
    <2> QED BY <1>1, <1>2, <1>5, <2>1, AbortSends DEF HostWordIsLast, MuxFollowsHost, ResetForgets
  <1>7. RoomForByte'
    BY <1>2, <1>3, AbortSends DEF FlowInv, RoomForByte
  <1>8. ASSUME NEW c \in FLOW_CONTROL_ENABLE PROVE ChannelControl(c)'
    <2>1. c \in Channel /\ ChannelControl(c) /\ ~Closing(c) /\ ~XoffPending(c)
      BY <1>1, <1>3, Calm
    <2>2. ~InFlight(c)' /\ (\A f : ~UpdateFor(f)') /\ ~dr'.valid
      BY <2>1, AbortSends
    <2>3. Agreement(c)'
      <3>1. XoffPending(c)' => c \in dn_xoff
        BY <1>1, <2>1, AbortSends DEF ChannelControl, StaleXoffIsTrue
      <3>2. c \in xoff_state_host => c \in dn_xoff
        BY <2>1 DEF ChannelControl, Agreement
      <3> QED BY <1>1, <1>2, <3>1, <3>2 DEF Agreement
    <2>4. StaleXoffIsTrue(c)'
      BY <1>1, <1>2, <2>1, <2>2 DEF ChannelControl, StaleXoffIsTrue
    <2>5. OpenHasRoom(c)' /\ StoppedIsQuiet(c)'
      BY <1>2, <2>1, <2>2 DEF ChannelControl, OpenHasRoom, StoppedIsQuiet
    <2>6. XonIsSafe(c)'
      BY <1>2, <2>1, <2>2 DEF ChannelControl, XonIsSafe
    <2>7. XoffIsMeant(c)'
      BY <1>1, <1>2, <2>1 DEF ChannelControl, XoffIsMeant
    <2> QED BY <2>3, <2>4, <2>5, <2>6, <2>7 DEF ChannelControl
  <1> QED BY <1>4, <1>6, <1>7, <1>8 DEF FlowInv, FlowControl

LEMMA ResetHubFlow == ASSUME FlowInv, LinkInv', ResetHub PROVE FlowInv'
  <1>1. /\ FullScan(ResetWord) /\ dr' = ResetWord /\ shifting /\ UNCHANGED stage
        /\ dn_xoff' = {} /\ last_dn_tool' = HUB /\ host' = "answer"
    BY DEF ResetHub, FullScan, dwnVars
  <1>2. ResetWord.valid /\ ResetWord.fn = HUB /\ HUB' = HUB
    BY DEF ResetWord, EmptyWord, HUB
  <1>3. WaitsInDR' /\ ~dwn_do_update'
    BY <1>1, ScanSends
  <1>4. ResetOnTheWay'
    BY <1>1, <1>2, <1>3 DEF ResetOnTheWay
  <1>5. HostWordIsLast' /\ MuxFollowsHost' /\ ResetForgets'
    BY <1>1, <1>2, <1>3 DEF HostWordIsLast, MuxFollowsHost, ResetForgets
  <1>6. RoomForByte'
    <2>1. \A c \in FLOW_CONTROL_ENABLE : ~InFlight(c)'
      BY <1>1, <1>2, Constants, ScanSends
    <2> QED BY <1>1, <2>1 DEF FlowInv, RoomForByte
  <1> QED BY <1>1, <1>4, <1>5, <1>6, ScanKeeps DEF FlowInv, FlowControl

LEMMA CaptureDRFlow == ASSUME FlowInv, LinkInv', CaptureDR PROVE FlowInv'
  <1>1. /\ Settled /\ ~shifting /\ shifting'
        /\ UNCHANGED <<since, dwnVars, xoffVars, upVars, hostVars, xoff_sent_x>>
        /\ dr'.valid = up_transfer.valid /\ dr'.xoff = up_xoff /\ dr'.fn = up_transfer.fn
        /\ dr'.data = up_transfer.data
    BY DEF CaptureDR
  <1>2. /\ since = ScanGap /\ ~dwn_do_update /\ ~clear /\ ~ResetOnTheWay
        /\ channel_selected = {} /\ xoff_host_set = {} /\ ~clear_xoff_bits_valid
        /\ last_dn_tool # HUB => xoff_sel = last_dn_tool
        /\ \A c \in Channel : ~InFlight(c) /\ ~Closing(c) /\ ~XoffPending(c)
        /\ \A c \in FLOW_CONTROL_ENABLE : ChannelControl(c)
    BY <1>1, Calm
  <1>3. ~WaitsInDR' /\ ~dwn_do_update' /\ ~clear' /\ HUB' = HUB
    BY <1>1, <1>2 DEF WaitsInDR, dwnVars, HUB
  <1>4. ~ReceiptOnTheWay' /\ (\A f : ~UpdateFor(f)') /\ ~ResetOnTheWay'
    BY <1>3 DEF ReceiptOnTheWay, UpWordSent, UpdateFor, ResetOnTheWay
  <1>5. \A c \in Channel : ~InFlight(c)' /\ ~Closing(c)' /\ ~XoffPending(c)'
    BY <1>1, <1>2, <1>3, <1>4 DEF InFlight, Closing, XoffPending, dwnVars, xoffVars, upVars
  <1>6. UpdateTiming' /\ XonHasData'
    BY <1>1, <1>3, EdgesOfAnUpdate
    DEF FlowInv, UpdateTiming, XonHasData, dwnVars, xoffVars, upVars
  <1>7. UNCHANGED <<stage, xoff_sel, up_xoff, xoff_state_host, xon_data, dn_xoff, last_dn_tool>>
    BY <1>1 DEF dwnVars, xoffVars, upVars, hostVars
  <1>8. RoomForByte'
    BY <1>5, <1>7, Constants DEF FlowInv, RoomForByte
  <1>9. HostWordIsLast' /\ MuxFollowsHost' /\ ResetForgets'
    BY <1>2, <1>3, <1>4, <1>7 DEF HostWordIsLast, MuxFollowsHost, ResetForgets
  <1>10. XoffIsShown'
    <2>1. near_full' = near_full
      BY <1>7 DEF near_full
    <2>2. (xoff_sel \in near_full => up_xoff) /\ (up_xoff => xoff_sel \in FLOW_CONTROL_ENABLE)
      BY <1>2, EdgesOfAnUpdate DEF FlowInv, XoffIsShown
    <2> QED BY <1>1, <1>7, <2>1, <2>2 DEF XoffIsShown
  <1>11. ASSUME NEW c \in FLOW_CONTROL_ENABLE PROVE ChannelControl(c)'
    <2>1. c \in Channel /\ ChannelControl(c)
      BY <1>2, Constants
    <2>2. Agreement(c)' /\ OpenHasRoom(c)' /\ StoppedIsQuiet(c)'
      BY <1>2, <1>5, <1>7, <2>1
      DEF ChannelControl, Agreement, OpenHasRoom, StoppedIsQuiet
    <2>3. XonIsSafe(c)'
      BY <1>2, <1>5, <1>7, <2>1 DEF ChannelControl, XonIsSafe
    <2>4. XoffIsMeant(c)'
      BY <1>1, <1>2, <1>3, <1>7, <2>1
      DEF ChannelControl, XoffIsMeant, XonIsSafe, FlowInv, XonHasData
    <2>5. StaleXoffIsTrue(c)'
      BY <1>1, <1>3, <1>4, <1>7, <2>1 DEF ChannelControl, StaleXoffIsTrue
    <2> QED BY <2>2, <2>3, <2>4, <2>5 DEF ChannelControl
  <1> QED BY <1>6, <1>8, <1>9, <1>10, <1>11 DEF FlowInv, FlowControl

-----------------------------------------------------------------------------
(***************************************************************************)
(* One edge of clk.                                                        *)
(***************************************************************************)
\* The word and the flags of a scan enter the domain of clk in one update.
LEMMA WordMoves ==
  ASSUME TypeInv, Timing, Synchronizer, UNCHANGED tapVars
  PROVE  /\ (WaitsInDR' \/ dwn_do_update') <=> WaitsInDR
         /\ ~(WaitsInDR' /\ dwn_do_update')
         /\ dwn_do_update' =>
              /\ dwn_transfer'.valid = dr.valid /\ dwn_transfer'.fn = dr.fn
              /\ dwn_transfer'.data = dr.data /\ xoff_sent' = xoff_sent_x
         /\ WaitsInDR => since < SyncEdges /\ ~dwn_do_update /\ ~clear
         /\ dwn_do_update => since = SyncEdges /\ ~clear
         /\ since' = IF since < ScanGap THEN since + 1 ELSE since
         /\ since \in 0..ScanGap
  <1>1. /\ since \in 0..ScanGap /\ (shifting => since = ScanGap)
        /\ since' = IF since < ScanGap THEN since + 1 ELSE since
        /\ dwn_do_update' <=> since + 1 = SyncEdges
    BY SynchronizerCounts
  <1>2. WaitsInDR' <=> ~shifting /\ since' < SyncEdges
    BY EdgesOfAnUpdate DEF WaitsInDR, tapVars
  <1>3. (WaitsInDR' \/ dwn_do_update') <=> WaitsInDR
    BY <1>1, <1>2, EdgesOfAnUpdate DEF WaitsInDR
  <1>4. ~(WaitsInDR' /\ dwn_do_update')
    BY <1>1, <1>2, EdgesOfAnUpdate
  <1>5. dwn_do_update' =>
          /\ dwn_transfer'.valid = dr.valid /\ dwn_transfer'.fn = dr.fn
          /\ dwn_transfer'.data = dr.data /\ xoff_sent' = xoff_sent_x
    BY <1>1 DEF Synchronizer
  <1>6. WaitsInDR => since < SyncEdges /\ ~dwn_do_update /\ ~clear
    BY <1>1, EdgesOfAnUpdate DEF WaitsInDR, Timing
  <1>7. dwn_do_update => since = SyncEdges /\ ~clear
    BY EdgesOfAnUpdate DEF Timing
  <1> QED BY <1>1, <1>3, <1>4, <1>5, <1>6, <1>7

LEMMA ClkUpdateTiming ==
  ASSUME FlowInv, NEW ready, NEW offer, Clk(ready, offer)
  PROVE  UpdateTiming'
  <1>1. dwn_do_update => since' = SyncEdges + 1
    BY WordMoves, EdgesOfAnUpdate DEF FlowInv, LinkInv, Clk
  <1>2. channel_selected' # {} \/ data_dwn_valid' # {} => dwn_do_update
    BY DEF Clk, OutputStages, UpdateFor
  <1>3. xoff_host_set' # {} => dwn_do_update
    BY DEF Clk, XoffHostSet
  <1>4. clear_xoff_bits_valid' => dwn_do_update
    BY DEF Clk, Arbiter, ArbiterClear, ArbiterWait, ArbiterLook, UpWordSent
  <1>5. clear' => channel_selected' = {}
    BY Constants DEF Clk, InternalOutput, OutputStages, UpdateFor
  <1> QED BY <1>1, <1>2, <1>3, <1>4, <1>5, EdgesOfAnUpdate DEF UpdateTiming

LEMMA ClkClearFlow ==
  ASSUME FlowInv, LinkInv', NEW ready, NEW offer, Clk(ready, offer), clear
  PROVE  FlowInv'
  <1>1. /\ TypeInv /\ Timing /\ Synchronizer /\ UNCHANGED <<tapVars, hostVars>>
        /\ HUB' = HUB /\ HUB \notin Channel /\ FLOW_CONTROL_ENABLE \subseteq Channel
    BY Constants DEF FlowInv, LinkInv, Clk, HUB
  <1>2. since = SyncEdges + 1 /\ ~dwn_do_update /\ ~WaitsInDR /\ ~shifting /\ ~ReceiptOnTheWay
    <2>1. since = SyncEdges + 1 /\ ~dwn_do_update /\ ~WaitsInDR
      BY <1>1, WordMoves, EdgesOfAnUpdate DEF Timing
    <2> QED BY <1>1, <2>1, Quiet DEF ReceiptOnTheWay, UpWordSent
  <1>3. ~WaitsInDR' /\ ~dwn_do_update' /\ ~clear'
    BY <1>1, <1>2, WordMoves DEF Clk, InternalOutput, UpdateFor
  <1>4. (\A f : ~UpdateFor(f)') /\ ~ReceiptOnTheWay' /\ ~ResetOnTheWay'
    BY <1>3 DEF UpdateFor, ReceiptOnTheWay, UpWordSent, ResetOnTheWay
  <1>5. /\ channel_selected' = {} /\ xoff_sel' = HUB /\ xoff_host_set' = {}
        /\ xoff_state_host' = {} /\ clear_xoff_bits_valid' = FALSE /\ xon_data' = {}
        /\ \A c \in FLOW_CONTROL_ENABLE : stage'[c] = EmptyStage
    BY <1>2
    DEF Clk, OutputStages, NextStage, XoffMux, XoffHostSet, XoffStateHost, Arbiter, ArbiterClear
  <1>6. dn_xoff' = {} /\ last_dn_tool' = HUB
    BY <1>1 DEF FlowInv, ResetForgets, ResetOnTheWay, hostVars
  <1>7. \A c \in Channel : ~InFlight(c)' /\ ~Closing(c)' /\ ~XoffPending(c)'
    BY <1>1, <1>3, <1>4, <1>5 DEF InFlight, Closing, XoffPending
  <1>8. RoomForByte'
    <2>1. EmptyStage.occupied = {}
      BY DEF EmptyStage
    <2> QED BY <1>1, <1>5, <1>7, <2>1 DEF RoomForByte, Compact
  <1>9. HostWordIsLast' /\ MuxFollowsHost' /\ ResetForgets'
    BY <1>1, <1>3, <1>4, <1>6 DEF HostWordIsLast, MuxFollowsHost, ResetForgets
  <1>10. XonHasData'
    <2>1. up_transfer' = [valid |-> TRUE, fn |-> HUB, data |-> ResetAnswer]
      BY DEF Clk, Arbiter, ArbiterClear
    <2>2. up_transfer'.data.reset = TRUE
      BY <2>1 DEF ResetAnswer
    <2> QED BY <1>5, <2>2 DEF XonHasData
  <1>11. XoffIsShown'
    <2>1. since' = SyncEdges + 2 /\ ~shifting'
      BY <1>1, <1>2, WordMoves, EdgesOfAnUpdate DEF tapVars
    <2> QED BY <2>1, EdgesOfAnUpdate DEF XoffIsShown
  <1>12. ASSUME NEW c \in FLOW_CONTROL_ENABLE PROVE ChannelControl(c)'
    <2>1. c \in Channel /\ c # HUB /\ stage'[c].occupied = {}
      BY <1>1, <1>5 DEF EmptyStage
    <2>2. Agreement(c)' /\ OpenHasRoom(c)' /\ StoppedIsQuiet(c)' /\ XonIsSafe(c)'
      BY <1>5, <1>6, <1>7, <2>1 DEF Agreement, OpenHasRoom, StoppedIsQuiet, XonIsSafe
    <2>3. XoffIsMeant(c)' /\ StaleXoffIsTrue(c)'
      BY <1>3, <1>4, <1>5, <2>1 DEF XoffIsMeant, StaleXoffIsTrue
    <2> QED BY <2>2, <2>3 DEF ChannelControl
  <1> QED
    BY <1>8, <1>9, <1>10, <1>11, <1>12, ClkUpdateTiming DEF FlowInv, FlowControl

\* The stage of channel c, with room for the byte that arrives.
LEMMA ClkStage ==
  ASSUME FlowInv, NEW ready, OutputStages(ready), ~clear, NEW c \in FLOW_CONTROL_ENABLE
  PROVE  /\ Compact(stage'[c])
         /\ StageBytes(stage'[c]) = IF c \in channel_selected
                                    THEN Append(Remaining(stage[c], c \in ready), common_data_dwn)
                                    ELSE Remaining(stage[c], c \in ready)
         /\ c \notin channel_selected => stage'[c].occupied \subseteq stage[c].occupied
         /\ c \in channel_selected /\ 1 \in stage'[c].occupied => 0 \in stage[c].occupied
         /\ stage[c].valid /\ c \notin ready => stage'[c].valid /\ stage'[c].local = stage[c].local
  <1>1. stage[c] \in Stage /\ common_data_dwn \in Data
    BY DEF FlowInv, LinkInv, TypeInv, DwnTypes
  <1>2. Compact(stage[c]) /\ (c \in channel_selected => 1 \notin stage[c].occupied)
    BY DEF FlowInv, RoomForByte, InFlight
  <1>3. stage'[c] =
          NextStage(stage[c], FALSE, c \in channel_selected, common_data_dwn, c \in ready)
    <2>1. stage'[c] =
            NextStage(stage[c], clear, c \in channel_selected, common_data_dwn, c \in ready)
      BY DEF OutputStages
    <2> QED BY <2>1 DEF NextStage
  <1>4. (c \in channel_selected) \in BOOLEAN /\ (c \in ready) \in BOOLEAN
    OBVIOUS
  <1>5. ASSUME NEW s \in Stage, s = stage[c], NEW n, n = stage'[c], NEW b \in Data,
               b = common_data_dwn, NEW rdy \in BOOLEAN, rdy <=> c \in ready
        PROVE  /\ Compact(n)
               /\ c \in channel_selected => StageBytes(n) = Append(Remaining(s, rdy), b)
               /\ c \notin channel_selected => StageBytes(n) = Remaining(s, rdy)
               /\ c \notin channel_selected => n.occupied \subseteq s.occupied
               /\ c \in channel_selected /\ 1 \in n.occupied => 0 \in s.occupied
               /\ s.valid /\ c \notin ready => n.valid /\ n.local = s.local
    <2>1. Compact(s) /\ (c \in channel_selected => 1 \notin s.occupied)
      BY <1>2, <1>5
    <2>2. rdy = (c \in ready)
      BY <1>4, <1>5
    <2>3. CASE c \in channel_selected
      <3>1. n = NextStage(s, FALSE, TRUE, b, rdy)
        BY <1>3, <1>5, <2>2, <2>3
      <3>2. /\ Compact(n) /\ (1 \in n.occupied => 0 \in s.occupied)
            /\ StageBytes(n) = Append(Remaining(s, rdy), b)
        BY <2>1, <2>3, <3>1, StageIsQueue
      <3>3. ASSUME s.valid, c \notin ready PROVE n.valid /\ n.local = s.local
        <4>1. n = NextStage(s, FALSE, TRUE, b, FALSE)
          BY <1>3, <1>5, <2>3, <3>3
        <4> QED BY <2>1, <2>3, <3>3, <4>1, StageHoldsByte
      <3> QED BY <2>3, <3>2, <3>3
    <2>4. CASE c \notin channel_selected
      <3>0. (c \in channel_selected) = FALSE
        BY <2>4
      <3>1. n = NextStage(s, FALSE, FALSE, b, rdy)
        BY <1>3, <1>5, <2>2, <3>0
      <3>2. /\ Compact(n) /\ n.occupied \subseteq s.occupied
            /\ StageBytes(n) = Remaining(s, rdy)
        BY <2>1, <3>1, StageIsQueue
      <3>3. ASSUME s.valid, c \notin ready PROVE n.valid /\ n.local = s.local
        <4>0. (c \in ready) = FALSE
          BY <3>3
        <4>1. n = NextStage(s, FALSE, FALSE, b, FALSE)
          BY <1>3, <1>5, <3>0, <4>0
        <4> QED BY <2>1, <3>3, <4>1, StageHoldsByte
      <3> QED BY <2>4, <3>2, <3>3
    <2> QED BY <2>3, <2>4
  <1> QED BY <1>1, <1>4, <1>5

\* A byte that is on its way goes on until it is in the stage.
LEMMA ClkInFlight ==
  ASSUME FlowInv, NEW ready, NEW offer, Clk(ready, offer), ~clear, NEW c \in FLOW_CONTROL_ENABLE
  PROVE  InFlight(c)' <=> InFlight(c) /\ c \notin channel_selected
  <1>1. TypeInv /\ Timing /\ Synchronizer /\ UNCHANGED <<tapVars, hostVars>>
    BY DEF FlowInv, LinkInv, Clk
  <1>2. c \in channel_selected => ~WaitsInDR /\ ~dwn_do_update
    BY <1>1, WordMoves, EdgesOfAnUpdate DEF FlowInv, UpdateTiming
  <1>3. c \in channel_selected' <=> UpdateFor(c)
    BY DEF Clk, OutputStages
  <1>4. UpdateFor(c)' <=> dwn_do_update' /\ dr.valid /\ dr.fn = c
    BY <1>1, WordMoves DEF UpdateFor
  <1>5. (WaitsInDR /\ dr.valid /\ dr.fn = c)' <=> WaitsInDR' /\ dr.valid /\ dr.fn = c
    BY <1>1 DEF tapVars
  <1> QED BY <1>1, <1>2, <1>3, <1>4, <1>5, WordMoves DEF InFlight, UpdateFor

\* A receipt moves on; one that comes out of nothing is one the host has not given.
LEMMA ClkClosing ==
  ASSUME FlowInv, NEW ready, NEW offer, Clk(ready, offer), ~clear, NEW c
  PROVE  /\ Closing(c) /\ ~clear_xoff_bits_valid => Closing(c)'
         /\ ~AbortedScans => (Closing(c)' => Closing(c) /\ ~clear_xoff_bits_valid)
  <1>1. TypeInv /\ Timing /\ Synchronizer /\ UNCHANGED tapVars /\ HUB' = HUB
    BY DEF FlowInv, LinkInv, Clk, HUB
  <1>2. clear_xoff_bits_valid => ~ReceiptOnTheWay
    BY <1>1, WordMoves, EdgesOfAnUpdate
    DEF FlowInv, UpdateTiming, ReceiptOnTheWay, UpWordSent
  <1>3. ~AbortedScans /\ ReceiptOnTheWay => up_transfer.valid
    BY DEF FlowInv, LinkInv, UpInv, ReceiptOfWord
  <1>4. UpWordSent => ReceiptOnTheWay
    BY DEF ReceiptOnTheWay
  <1>5. CASE ~ReceiptOnTheWay
    <2>1. ~ReceiptOnTheWay'
      BY <1>1, <1>5, ReceiptMoves
    <2>2. ~clear_xoff_bits_valid'
      BY <1>4, <1>5 DEF Clk, Arbiter, ArbiterWait, ArbiterLook
    <2> QED BY <1>5, <2>1, <2>2 DEF Closing
  <1>6. CASE ReceiptOnTheWay /\ ~up_transfer.valid
    <2>1. ~Closing(c) /\ AbortedScans
      BY <1>2, <1>3, <1>6 DEF Closing
    <2> QED BY <2>1
  <1>7. CASE ReceiptOnTheWay /\ up_transfer.valid /\ ~UpWordSent
    <2>1. ReceiptOnTheWay'
      BY <1>1, <1>7, ReceiptArrives
    <2>2. ~clear_xoff_bits_valid'
      BY <1>7 DEF Clk, Arbiter, ArbiterWait, ArbiterLook
    <2>3. /\ up_transfer'.fn = up_transfer.fn /\ up_transfer'.data = up_transfer.data
          /\ up_transfer'.valid
      BY <1>1, <1>7, WordStays DEF Clk
    <2> QED BY <1>1, <1>2, <1>7, <2>1, <2>2, <2>3 DEF Closing
  <1>8. CASE UpWordSent /\ up_transfer.valid
    <2>1. ~ReceiptOnTheWay'
      BY <1>1, <1>8, ReceiptMoves
    <2>2. /\ clear_xoff_bits_valid' <=> up_transfer.fn = HUB /\ ~up_transfer.data.reset
          /\ up_transfer.fn = HUB => clear_xoff_bits' = up_transfer.data.bits
      BY <1>8 DEF Clk, Arbiter, ArbiterWait
    <2> QED BY <1>2, <1>4, <1>8, <2>1, <2>2 DEF Closing
  <1> QED BY <1>4, <1>5, <1>6, <1>7, <1>8

LEMMA ClkXoffPending ==
  ASSUME FlowInv, NEW ready, NEW offer, Clk(ready, offer), ~clear, NEW c \in Channel
  PROVE  XoffPending(c)' <=> XoffPending(c) /\ c \notin xoff_host_set
  <1>1. TypeInv /\ Timing /\ Synchronizer /\ UNCHANGED tapVars /\ c # HUB
    BY Constants DEF FlowInv, LinkInv, Clk
  <1>2. xoff_host_set # {} => ~WaitsInDR /\ ~dwn_do_update
    BY <1>1, WordMoves, EdgesOfAnUpdate DEF FlowInv, UpdateTiming
  <1>3. xoff_host_set' = IF dwn_do_update /\ xoff_sent THEN {xoff_sel} \ {HUB} ELSE {}
    BY DEF Clk, XoffHostSet
  <1>4. ~dwn_do_update => xoff_sel' = xoff_sel
    BY DEF Clk, XoffMux
  <1>5. xoff_sent_x' = xoff_sent_x
    BY <1>1 DEF tapVars
  <1>6. CASE WaitsInDR
    BY <1>1, <1>2, <1>3, <1>4, <1>5, <1>6, WordMoves DEF XoffPending
  <1>7. CASE dwn_do_update
    BY <1>1, <1>2, <1>3, <1>7, WordMoves DEF XoffPending
  <1>8. CASE ~WaitsInDR /\ ~dwn_do_update
    BY <1>1, <1>3, <1>8, WordMoves DEF XoffPending
  <1> QED BY <1>6, <1>7, <1>8

\* The mux turns to the channel of the byte that is on its way.
LEMMA ClkMux ==
  ASSUME FlowInv, NEW ready, NEW offer, Clk(ready, offer), ~clear
  PROVE  /\ xoff_sel' # xoff_sel => UpdateFor(xoff_sel') /\ xoff_sel' = last_dn_tool
         /\ UNCHANGED <<dn_xoff, last_dn_tool>>
         /\ up_xoff' <=> xoff_sel \in near_full
         /\ near_full \subseteq FLOW_CONTROL_ENABLE
         /\ shifting \/ since >= SyncEdges + 2 =>
              xoff_sel' = xoff_sel /\ near_full' \subseteq near_full
  <1>1. TypeInv /\ Timing /\ Synchronizer /\ UNCHANGED tapVars
    BY DEF FlowInv, LinkInv, Clk
  <1>2. xoff_sel' # xoff_sel => UpdateFor(xoff_sel') /\ xoff_sel' = last_dn_tool
    BY DEF Clk, XoffMux, UpdateFor, FlowInv, HostWordIsLast
  <1>3. UNCHANGED <<dn_xoff, last_dn_tool>>
    BY DEF Clk, hostVars
  <1>4. up_xoff' <=> xoff_sel \in near_full
    BY DEF Clk, XoffMux
  <1>5. ASSUME shifting \/ since >= SyncEdges + 2
        PROVE  xoff_sel' = xoff_sel /\ near_full' \subseteq near_full
    <2>1. since >= SyncEdges + 2
      BY <1>1, <1>5, Quiet, EdgesOfAnUpdate
    <2>2. ~dwn_do_update /\ channel_selected = {}
      BY <1>1, <2>1, WordMoves, EdgesOfAnUpdate DEF FlowInv, UpdateTiming
    <2>3. xoff_sel' = xoff_sel
      BY <1>2, <2>2 DEF UpdateFor
    <2>4. \A c \in FLOW_CONTROL_ENABLE : stage'[c].occupied \subseteq stage[c].occupied
      BY <2>2, ClkStage DEF Clk
    <2> QED BY <2>3, <2>4 DEF near_full, NearFull
  <1>6. near_full \subseteq FLOW_CONTROL_ENABLE
    BY DEF near_full
  <1> QED BY <1>2, <1>3, <1>4, <1>5, <1>6

LEMMA ClkRunFlow ==
  ASSUME FlowInv, LinkInv', NEW ready, NEW offer, Clk(ready, offer), ~clear
  PROVE  FlowInv'
  <1>1. /\ TypeInv /\ Timing /\ Synchronizer /\ UNCHANGED <<tapVars, hostVars>> /\ HUB' = HUB
        /\ HUB \notin Channel /\ FLOW_CONTROL_ENABLE \subseteq Channel
    BY Constants DEF FlowInv, LinkInv, Clk, HUB
  <1>2. UNCHANGED <<shifting, dr, xoff_sent_x, host, dn_xoff, last_dn_tool>>
    BY <1>1 DEF tapVars, hostVars
  <1>3. ResetOnTheWay' <=> ResetOnTheWay
    <2>1. clear' <=> UpdateFor(HUB)
      BY DEF Clk, InternalOutput
    <2>2. UpdateFor(HUB)' <=> dwn_do_update' /\ dr.valid /\ dr.fn = HUB
      BY <1>1, WordMoves DEF UpdateFor
    <2> QED BY <1>1, <1>2, <2>1, <2>2, WordMoves DEF ResetOnTheWay, UpdateFor
  <1>4. ResetForgets'
    BY <1>2, <1>3, <1>1 DEF FlowInv, ResetForgets
  <1>5. HostWordIsLast'
    BY <1>1, <1>2, WordMoves DEF FlowInv, HostWordIsLast
  <1>6. MuxFollowsHost'
    <2> SUFFICES ASSUME last_dn_tool # HUB
                 PROVE  \/ xoff_sel' = last_dn_tool
                        \/ WaitsInDR' /\ dr.valid
                        \/ dwn_do_update' /\ dwn_transfer'.valid
      BY <1>1, <1>2 DEF MuxFollowsHost
    <2>1. CASE xoff_sel = last_dn_tool
      BY <2>1, ClkMux
    <2>2. CASE WaitsInDR /\ dr.valid
      BY <1>1, <2>2, WordMoves
    <2>3. CASE dwn_do_update /\ dwn_transfer.valid
      BY <2>3 DEF Clk, XoffMux, FlowInv, HostWordIsLast
    <2> QED BY <2>1, <2>2, <2>3 DEF FlowInv, MuxFollowsHost
  <1>7. RoomForByte'
    BY ClkStage, ClkInFlight DEF RoomForByte, FlowInv, Clk
  <1>8. XonHasData'
    <2>1. CASE up_transfer.valid
      <3>1. ArbiterWait
        BY <2>1 DEF Clk, Arbiter
      <3>2. /\ up_transfer'.fn = up_transfer.fn /\ up_transfer'.data = up_transfer.data
            /\ up_transfer'.valid <=> ~UpWordSent
        BY <1>1, <2>1, WordStays DEF Clk
      <3> QED BY <1>1, <2>1, <3>1, <3>2 DEF XonHasData, FlowInv, ArbiterWait
    <2>2. CASE ~up_transfer.valid
      <3>1. ArbiterLook
        BY <2>2 DEF Clk, Arbiter
      <3>2. clear_xoff_bits_valid' = FALSE
        BY <3>1 DEF ArbiterLook
      <3>3. ASSUME up_transfer'.valid, up_transfer'.fn = HUB
            PROVE  up_transfer'.data.bits = xon_data'
        <4>1. state = HUB
          BY <3>1, <3>3 DEF ArbiterLook
        <4>2. up_transfer'.data = Xon(xon_data) /\ xon_data' = xon_data
          BY <3>1, <3>3, <4>1 DEF ArbiterLook
        <4> QED BY <4>2 DEF Xon
      <3> QED BY <1>1, <3>2, <3>3 DEF XonHasData
    <2> QED BY <2>1, <2>2
  <1>9. XoffIsShown'
    <2>1. since' >= SyncEdges + 3 => since >= SyncEdges + 2
      BY <1>1, WordMoves, EdgesOfAnUpdate
    <2>2. (since >= SyncEdges + 3)' <=> since' >= SyncEdges + 3
      BY EdgesOfAnUpdate
    <2>3. /\ shifting /\ xoff_sel \in near_full => dr.xoff
          /\ shifting /\ dr.xoff => xoff_sel \in FLOW_CONTROL_ENABLE
      BY DEF FlowInv, XoffIsShown
    <2> QED BY <1>2, <2>1, <2>2, <2>3, ClkMux DEF XoffIsShown
  <1>10. ASSUME NEW c \in FLOW_CONTROL_ENABLE, ~ResetOnTheWay PROVE ChannelControl(c)'
    <2>1. c \in Channel /\ c # HUB /\ ChannelControl(c)
      BY <1>1, <1>10 DEF FlowInv, FlowControl
    <2>2. /\ Closing(c) /\ ~clear_xoff_bits_valid => Closing(c)'
          /\ ~AbortedScans => (Closing(c)' => Closing(c) /\ ~clear_xoff_bits_valid)
          /\ XoffPending(c)' <=> XoffPending(c) /\ c \notin xoff_host_set
          /\ InFlight(c)' <=> InFlight(c) /\ c \notin channel_selected
      BY <2>1, ClkClosing, ClkXoffPending, ClkInFlight
    <2>3. /\ c \in xoff_state_host' <=>
               (c \in xoff_state_host /\ ~(clear_xoff_bits_valid /\ c \in clear_xoff_bits))
                 \/ c \in xoff_host_set
      BY DEF Clk, XoffStateHost
    <2>4. clear_xoff_bits_valid => (Closing(c) <=> c \in clear_xoff_bits)
      <3>1. clear_xoff_bits_valid => ~ReceiptOnTheWay
        BY <1>1, WordMoves, EdgesOfAnUpdate
        DEF FlowInv, UpdateTiming, ReceiptOnTheWay, UpWordSent
      <3> QED BY <3>1 DEF Closing
    <2>5. c \in xoff_host_set => XoffPending(c)
      BY DEF XoffPending
    <2>6. Agreement(c)'
      BY <1>2, <2>1, <2>2, <2>3, <2>4, <2>5 DEF ChannelControl, Agreement
    <2>7. /\ c \notin channel_selected => stage'[c].occupied \subseteq stage[c].occupied
          /\ c \in channel_selected /\ 1 \in stage'[c].occupied => 0 \in stage[c].occupied
          /\ c \in channel_selected => InFlight(c)
      BY ClkStage DEF Clk, InFlight
    <2>8. OpenHasRoom(c)'
      BY <1>2, <2>1, <2>2, <2>7 DEF ChannelControl, OpenHasRoom
    <2>9. StoppedIsQuiet(c)'
      <3> SUFFICES ASSUME InFlight(c)', c \in xoff_state_host', ~Closing(c)' PROVE FALSE
        BY DEF StoppedIsQuiet
      <3>1. WaitsInDR \/ dwn_do_update
        BY <2>2 DEF InFlight, UpdateFor
      <3>2. xoff_host_set = {} /\ ~clear_xoff_bits_valid
        BY <1>1, <3>1, WordMoves, EdgesOfAnUpdate DEF FlowInv, UpdateTiming
      <3> QED BY <2>1, <2>2, <2>3, <3>2 DEF ChannelControl, StoppedIsQuiet
    <2>10. XonIsSafe(c)'
      <3> SUFFICES ASSUME c \in xon_data'
                   PROVE  /\ 0 \notin stage'[c].occupied /\ ~InFlight(c)'
                          /\ Closing(c)' \/ c \in dn_xoff
                          /\ ~(xoff_sel' = c /\ up_xoff')
        BY <1>2 DEF XonIsSafe
      <3>1. 0 \notin stage[c].occupied /\ ~InFlight(c) /\ (Closing(c)' \/ c \in dn_xoff)
        <4>1. CASE c \in xon_data
          <5>1. 0 \notin stage[c].occupied /\ ~InFlight(c) /\ (Closing(c) \/ c \in dn_xoff)
            BY <2>1, <4>1 DEF ChannelControl, XonIsSafe
          <5>2. ~clear_xoff_bits_valid
            BY <4>1 DEF FlowInv, XonHasData
          <5> QED BY <2>2, <5>1, <5>2
        <4>2. CASE c \notin xon_data
          <5>1. ArbiterLook /\ ~up_transfer.valid
            BY <4>2 DEF Clk, Arbiter, ArbiterWait
          <5>2. c \in Reopened
            BY <4>2, <5>1 DEF ArbiterLook
          <5>3. ~clear_xoff_bits_valid /\ c \in xoff_state_host /\ c \notin near_full
            BY <5>2 DEF Reopened
          <5>4. ~Closing(c)
            BY <5>1, <5>3 DEF Closing
          <5> QED
            BY <2>1, <5>3, <5>4
            DEF ChannelControl, Agreement, StoppedIsQuiet, near_full, NearFull
        <4> QED BY <4>1, <4>2
      <3>2. 0 \notin stage'[c].occupied /\ ~InFlight(c)'
        BY <2>2, <2>7, <3>1
      <3>3. ~(xoff_sel' = c /\ up_xoff')
        <4>1. ~UpdateFor(c) /\ c \notin near_full
          BY <3>1 DEF InFlight, near_full, NearFull
        <4> QED BY <4>1, ClkMux
      <3> QED BY <3>1, <3>2, <3>3
    <2>11. XoffIsMeant(c)'
      <3> SUFFICES ASSUME xoff_sel' = c
                   PROVE  /\ up_xoff' /\ last_dn_tool # c => c \in dn_xoff
                          /\ shifting /\ dr.xoff /\ last_dn_tool # c => c \in dn_xoff
                          /\ shifting /\ dr.xoff =>
                               ~(dr.valid /\ dr.fn = HUB /\ ~dr.data.reset /\ c \in dr.data.bits)
        BY <1>1, <1>2 DEF XoffIsMeant
      <3>1. ASSUME up_xoff', last_dn_tool # c PROVE c \in dn_xoff
        <4>1. xoff_sel = c /\ c \in near_full
          BY <3>1, ClkMux
        <4> QED BY <2>1, <3>1, <4>1 DEF ChannelControl, OpenHasRoom, near_full, NearFull
      <3>2. shifting => xoff_sel = c
        BY ClkMux
      <3> QED BY <2>1, <3>1, <3>2 DEF ChannelControl, XoffIsMeant
    <2>12. StaleXoffIsTrue(c)'
      <3> SUFFICES ASSUME AbortedScans, xoff_sent_x
                   PROVE  /\ xoff_sel' = c => c \in dn_xoff
                          /\ (WaitsInDR /\ dr.valid /\ dr.fn = c)' \/ UpdateFor(c)' =>
                               xoff_sel' = c
        BY <1>2 DEF StaleXoffIsTrue
      <3>1. xoff_sel' = c => xoff_sel = c
        BY <2>1, ClkMux DEF ChannelControl, StaleXoffIsTrue
      <3>2. (WaitsInDR /\ dr.valid /\ dr.fn = c)' \/ UpdateFor(c)' =>
              WaitsInDR /\ dr.valid /\ dr.fn = c
        BY <1>1, <1>2, WordMoves DEF UpdateFor
      <3>3. WaitsInDR => xoff_sel' = xoff_sel
        BY <1>1, WordMoves, ClkMux DEF UpdateFor
      <3> QED BY <2>1, <3>1, <3>2, <3>3 DEF ChannelControl, StaleXoffIsTrue
    <2> QED BY <2>6, <2>8, <2>9, <2>10, <2>11, <2>12 DEF ChannelControl
  <1>11. FlowControl'
    BY <1>3, <1>10 DEF FlowControl
  <1> QED BY <1>4, <1>5, <1>6, <1>7, <1>8, <1>9, <1>11, ClkUpdateTiming DEF FlowInv

LEMMA StutterFlow == ASSUME FlowInv, LinkInv', UNCHANGED vars PROVE FlowInv'
  <1>1. UNCHANGED <<tapVars, since, dwnVars, xoffVars, upVars, hostVars>> /\ HUB' = HUB
    BY DEF vars, HUB
  <1>2. /\ (ReceiptOnTheWay' <=> ReceiptOnTheWay) /\ (ResetOnTheWay' <=> ResetOnTheWay)
        /\ \A f : UpdateFor(f)' <=> UpdateFor(f)
        /\ WaitsInDR' <=> WaitsInDR
    BY <1>1, EdgesOfAnUpdate
    DEF ReceiptOnTheWay, ResetOnTheWay, UpdateFor, WaitsInDR, UpWordSent, tapVars, dwnVars
  <1>3. \A c : /\ InFlight(c)' <=> InFlight(c)
               /\ Closing(c)' <=> Closing(c)
               /\ XoffPending(c)' <=> XoffPending(c)
    BY <1>1, <1>2 DEF InFlight, Closing, XoffPending, tapVars, dwnVars, xoffVars, upVars
  <1>4. UpdateTiming' /\ RoomForByte'
    BY <1>1, <1>3, EdgesOfAnUpdate
    DEF FlowInv, UpdateTiming, RoomForByte, dwnVars, xoffVars, upVars
  <1>5. HostWordIsLast' /\ MuxFollowsHost' /\ ResetForgets' /\ XonHasData'
    BY <1>1, <1>2
    DEF FlowInv, HostWordIsLast, MuxFollowsHost, ResetForgets, XonHasData, tapVars, dwnVars,
        xoffVars, upVars, hostVars
  <1>6. XoffIsShown'
    BY <1>1, EdgesOfAnUpdate DEF FlowInv, XoffIsShown, near_full, tapVars, dwnVars, xoffVars
  <1>7. ASSUME NEW c \in FLOW_CONTROL_ENABLE, ChannelControl(c) PROVE ChannelControl(c)'
    <2>1. UNCHANGED <<shifting, dr, xoff_sent_x, stage, xoff_sel, up_xoff, xoff_state_host,
                      xon_data, dn_xoff, last_dn_tool>>
      BY <1>1 DEF tapVars, dwnVars, xoffVars, upVars, hostVars
    <2>2. Agreement(c)' /\ StaleXoffIsTrue(c)'
      BY <1>2, <1>3, <1>7, <2>1 DEF ChannelControl, Agreement, StaleXoffIsTrue
    <2>3. OpenHasRoom(c)' /\ StoppedIsQuiet(c)' /\ XonIsSafe(c)' /\ XoffIsMeant(c)'
      BY <1>1, <1>3, <1>7, <2>1
      DEF ChannelControl, OpenHasRoom, StoppedIsQuiet, XonIsSafe, XoffIsMeant
    <2> QED BY <2>2, <2>3 DEF ChannelControl
  <1>8. FlowControl'
    BY <1>2, <1>7 DEF FlowInv, FlowControl
  <1> QED BY <1>4, <1>5, <1>6, <1>8 DEF FlowInv

LEMMA NextFlowInv == ASSUME OneChannelIfAborted, FlowInv, [Next]_vars PROVE FlowInv'
  <1>1. LinkInv'
    BY NextLink DEF FlowInv
  <1>2. CASE ClkEdge
    BY <1>1, <1>2, ClkClearFlow, ClkRunFlow DEF ClkEdge
  <1>3. CASE CaptureDR
    BY <1>1, <1>3, CaptureDRFlow
  <1>4. ASSUME NEW c \in HostTools, NEW b \in Byte, SendByte(c, b) PROVE FlowInv'
    <2>1. FullScan(DataWord(c, b)) /\ CheckForXoff(c) /\ c \notin dn_xoff
      BY <1>4 DEF SendByte
    <2>2. DataWord(c, b).valid /\ DataWord(c, b).fn = c
      BY DEF DataWord, EmptyWord
    <2>3. c \in Channel
      BY HubAssumption
    <2> QED BY <1>1, <2>1, <2>2, <2>3, ScanFlow
  <1>5. CASE Poll
    <2>1. FullScan(EmptyWord) /\ CheckForXoff(HUB) /\ ~EmptyWord.valid
      BY <1>5 DEF Poll, EmptyWord
    <2> QED BY <1>1, <2>1, ScanFlow
  <1>6. CASE ResetHub
    BY <1>1, <1>6, ResetHubFlow
  <1>7. CASE UNCHANGED vars
    BY <1>1, <1>7, StutterFlow
  <1>8. CASE AbortScan
    BY <1>1, <1>8, AbortScanFlow
  <1> QED BY <1>2, <1>3, <1>4, <1>5, <1>6, <1>7, <1>8 DEF Next

\* The inductive invariant of the flow control.
THEOREM FlowInvariance == ASSUME OneChannelIfAborted PROVE Spec => []FlowInv
  <1>1. FlowInv /\ [][Next]_vars => []FlowInv
    BY NextFlowInv, PTL
  <1> QED BY <1>1, InitFlowInv, PTL DEF Spec

\* Between two scans hub and host agree on the stopped channels: no xon or xoff
\* is lost or applied twice on the way through the data register
\* (xoff_state_host of the hub against check_for_xoff and distribute of the host).
THEOREM FlowAgreement == ASSUME ~AbortedScans PROVE Spec => []XoffAgreement
  <1>1. OneChannelIfAborted
    BY DEF OneChannelIfAborted
  <1>2. FlowInv => XoffAgreement
    <2> SUFFICES ASSUME FlowInv, Settled PROVE xoff_state_host = dn_xoff \cap FLOW_CONTROL_ENABLE
      BY DEF XoffAgreement
    <2>1. ASSUME NEW c \in FLOW_CONTROL_ENABLE PROVE c \in xoff_state_host <=> c \in dn_xoff
      <3>1. Agreement(c) /\ ~Closing(c) /\ ~XoffPending(c)
        BY Calm, Constants DEF ChannelControl
      <3> QED BY <3>1 DEF Agreement
    <2>2. xoff_state_host \subseteq FLOW_CONTROL_ENABLE
      BY DEF FlowInv, LinkInv, TypeInv, XoffTypes
    <2> QED BY <2>1, <2>2
  <1> QED BY <1>1, <1>2, FlowInvariance, PTL

\* Between two scans the hub owes an xon only to channels the host holds back: half
\* of the agreement, which scans that are cut short do not break while only one
\* channel has flow control (xon_data is filled from xoff_state_host).
OwedXonIsNeeded == Settled /\ ~shifting => xoff_state_host \subseteq dn_xoff

\* No xon opens a channel that is not stopped, whatever the scans repeat: the run
\* hub_overrun loses its byte to such an xon, with two channels.
THEOREM NoNeedlessXon == ASSUME OneChannelIfAborted PROVE Spec => []OwedXonIsNeeded
  <1>1. FlowInv => OwedXonIsNeeded
    <2> SUFFICES ASSUME FlowInv, Settled, NEW c \in xoff_state_host PROVE c \in dn_xoff
      BY DEF OwedXonIsNeeded
    <2>1. c \in FLOW_CONTROL_ENABLE
      BY DEF FlowInv, LinkInv, TypeInv, XoffTypes
    <2>2. Agreement(c) /\ ~Closing(c)
      BY <2>1, Calm, Constants DEF ChannelControl
    <2> QED BY <2>2 DEF Agreement
  <1> QED BY <1>1, FlowInvariance, PTL

\* Between two scans an open channel has room for what the host may send before
\* it sees the next xoff: at most one byte is behind the output register.  Scans
\* may be cut short if only one channel has flow control.
THEOREM OpenHasPlace == ASSUME OneChannelIfAborted PROVE Spec => []OpenChannelHasRoom
  <1>1. FlowInv => OpenChannelHasRoom
    <2> SUFFICES ASSUME FlowInv, Settled, NEW c \in FLOW_CONTROL_ENABLE \ dn_xoff
                 PROVE  Fill(stage[c]) <= (IF last_dn_tool = c THEN 1 ELSE 0)
      BY DEF OpenChannelHasRoom
    <2>1. OpenHasRoom(c)
      BY Calm DEF ChannelControl
    <2>2. stage[c] \in Stage /\ Compact(stage[c])
      BY DEF FlowInv, LinkInv, TypeInv, DwnTypes, RoomForByte
    <2> QED BY <2>1, <2>2, FillValue DEF OpenHasRoom
  <1> QED BY <1>1, FlowInvariance, PTL

-----------------------------------------------------------------------------
(***************************************************************************)
(* The bytes from the host to the cores.  At most one is on its way to the *)
(* stages; the others are in the output stage of their channel, or, for a  *)
(* channel without flow control, on its output for one cycle.              *)
(***************************************************************************)
Output(c) == IF c \in FLOW_CONTROL_ENABLE THEN StageBytes(stage[c])
             ELSE One(c \in data_dwn_valid, common_data_dwn)
FlyingByte(c) == IF c \in channel_selected THEN common_data_dwn
                 ELSE IF UpdateFor(c) THEN dwn_transfer.data ELSE dr.data
BytesInHub(c) == IF InFlight(c) THEN Append(Output(c), FlyingByte(c)) ELSE Output(c)

LEMMA OneOfThree ==
  ASSUME NEW s \in Seq(Data), NEW b \in Data
  PROVE  /\ s \o <<>> = s /\ s \o <<b>> = Append(s, b)
         /\ Append(s, b) \in Seq(Data) /\ Append(s, b) \o <<>> = Append(s, b)
  BY ConcatEmptySeq, AppendIsConcat, AppendProperties

LEMMA OutputType == FlowInv => \A c \in Channel : Output(c) \in Seq(Data)
  <1> SUFFICES ASSUME FlowInv, NEW c \in Channel PROVE Output(c) \in Seq(Data)
    OBVIOUS
  <1>1. common_data_dwn \in Data /\ (c \in FLOW_CONTROL_ENABLE => stage[c] \in Stage)
    BY DEF FlowInv, LinkInv, TypeInv, DwnTypes
  <1>2. CASE c \in FLOW_CONTROL_ENABLE
    BY <1>1, <1>2, StageSequence DEF Output, FlowInv, RoomForByte
  <1>3. CASE c \notin FLOW_CONTROL_ENABLE
    <2>1. One(c \in data_dwn_valid, common_data_dwn) \in Seq(Data)
      BY <1>1 DEF One
    <2> QED BY <1>3, <2>1 DEF Output
  <1> QED BY <1>2, <1>3

OnlyOneOnTheWay == \A c \in Channel : DownBytes(c) = BytesInHub(c)

LEMMA DownBytesValue == FlowInv => OnlyOneOnTheWay
  <1> SUFFICES ASSUME FlowInv, NEW c \in Channel PROVE DownBytes(c) = BytesInHub(c)
    BY DEF OnlyOneOnTheWay
  <1> DEFINE waits == WaitsInDR /\ dr.valid /\ dr.fn = c
  <1>1. Output(c) \in Seq(Data)
    BY OutputType
  <1>2. common_data_dwn \in Data /\ dwn_transfer.data \in Data /\ (WaitsInDR => dr.data \in Data)
    BY DEF FlowInv, LinkInv, TypeInv, DwnTypes, TapTypes, HostWordHasByte, WaitsInDR
  <1>3. /\ c \in channel_selected => ~dwn_do_update /\ ~WaitsInDR
        /\ dwn_do_update => ~WaitsInDR
    BY EdgesOfAnUpdate DEF FlowInv, LinkInv, Timing, UpdateTiming, WaitsInDR, TypeInv, TapTypes
  <1>4. DownBytes(c) = ((Output(c) \o One(c \in channel_selected, common_data_dwn))
                         \o One(UpdateFor(c), dwn_transfer.data)) \o One(waits, dr.data)
    BY DEF DownBytes, Output
  <1>5. CASE c \in channel_selected
    <2>1. ~UpdateFor(c) /\ ~waits
      BY <1>3, <1>5 DEF UpdateFor
    <2>2. DownBytes(c) = ((Output(c) \o <<common_data_dwn>>) \o <<>>) \o <<>>
      BY <1>4, <1>5, <2>1 DEF One
    <2> QED BY <1>1, <1>2, <1>5, <2>2, OneOfThree DEF BytesInHub, InFlight, FlyingByte
  <1>6. CASE UpdateFor(c)
    <2>1. c \notin channel_selected /\ ~waits
      BY <1>3, <1>6 DEF UpdateFor
    <2>2. DownBytes(c) = ((Output(c) \o <<>>) \o <<dwn_transfer.data>>) \o <<>>
      BY <1>4, <1>6, <2>1 DEF One
    <2> QED BY <1>1, <1>2, <1>6, <2>1, <2>2, OneOfThree DEF BytesInHub, InFlight, FlyingByte
  <1>7. CASE waits
    <2>1. c \notin channel_selected /\ ~UpdateFor(c)
      BY <1>3, <1>7 DEF UpdateFor
    <2>2. DownBytes(c) = ((Output(c) \o <<>>) \o <<>>) \o <<dr.data>>
      BY <1>4, <1>7, <2>1 DEF One
    <2> QED BY <1>1, <1>2, <1>7, <2>1, <2>2, OneOfThree DEF BytesInHub, InFlight, FlyingByte
  <1>8. CASE c \notin channel_selected /\ ~UpdateFor(c) /\ ~waits
    <2>1. DownBytes(c) = ((Output(c) \o <<>>) \o <<>>) \o <<>>
      BY <1>4, <1>8 DEF One
    <2> QED BY <1>1, <1>8, <2>1, ConcatEmptySeq DEF BytesInHub, InFlight
  <1> QED BY <1>5, <1>6, <1>7, <1>8

\* The same after a step.
LEMMA DownBytesAfter == FlowInv' => OnlyOneOnTheWay'
  BY DownBytesValue, PTL

\* It is enough to follow the output of a channel and the byte on its way.
LEMMA DownIntegrityAfter ==
  ASSUME FlowInv', \A c \in Channel : to_core'[c] = BytesInHub(c)'
  PROVE  DownIntegrity'
  BY DownBytesAfter DEF OnlyOneOnTheWay, DownIntegrity, Channel

-----------------------------------------------------------------------------
LEMMA FullScanDown ==
  ASSUME FlowInv, FlowInv', DownIntegrity, NEW word, FullScan(word),
         \A c \in Channel : to_core'[c] = IF word.valid /\ word.fn = c
                                          THEN Append(to_core[c], word.data) ELSE to_core[c]
  PROVE  DownIntegrity'
  <1>1. UNCHANGED <<stage, data_dwn_valid, common_data_dwn, channel_selected>> /\ dr' = word
    BY DEF FullScan, dwnVars
  <1>2. ASSUME NEW c \in Channel PROVE to_core'[c] = BytesInHub(c)'
    <2>1. to_core[c] = BytesInHub(c)
      BY DownBytesValue DEF OnlyOneOnTheWay, DownIntegrity
    <2>2. ~InFlight(c) /\ channel_selected = {}
      BY Calm DEF FullScan
    <2>3. Output(c)' = Output(c)
      BY <1>1 DEF Output
    <2>4. InFlight(c)' <=> word.valid /\ word.fn = c
      BY ScanSends
    <2>5. FlyingByte(c)' = word.data
      BY <1>1, <2>2, ScanSends DEF FlyingByte
    <2> QED BY <2>1, <2>2, <2>3, <2>4, <2>5 DEF BytesInHub
  <1> QED BY <1>2, DownIntegrityAfter

LEMMA AbortScanDown ==
  ASSUME FlowInv, FlowInv', DownIntegrity, AbortScan
  PROVE  DownIntegrity'
  <1>1. UNCHANGED <<stage, data_dwn_valid, common_data_dwn, to_core>>
    BY DEF AbortScan, dwnVars
  <1>2. ASSUME NEW c \in Channel PROVE to_core'[c] = BytesInHub(c)'
    <2>1. to_core[c] = BytesInHub(c)
      BY DownBytesValue DEF OnlyOneOnTheWay, DownIntegrity
    <2>2. ~InFlight(c) /\ ~InFlight(c)'
      BY Calm, AbortSends DEF AbortScan
    <2>3. Output(c)' = Output(c)
      BY <1>1 DEF Output
    <2> QED BY <1>1, <2>1, <2>2, <2>3 DEF BytesInHub
  <1> QED BY <1>2, DownIntegrityAfter

LEMMA UnchangedDown ==
  ASSUME FlowInv, DownIntegrity, UNCHANGED <<to_core, dwnVars>>,
         (WaitsInDR' <=> WaitsInDR), WaitsInDR => dr' = dr
  PROVE  DownIntegrity'
  <1>1. UNCHANGED <<stage, data_dwn_valid, common_data_dwn, channel_selected, dwn_do_update,
                    dwn_transfer>>
    BY DEF dwnVars
  <1>2. ASSUME NEW c \in Channel PROVE DownBytes(c)' = DownBytes(c)
    <2>1. UpdateFor(c)' <=> UpdateFor(c)
      BY <1>1 DEF UpdateFor
    <2>2. One(WaitsInDR /\ dr.valid /\ dr.fn = c, dr.data)' = One(WaitsInDR /\ dr.valid /\ dr.fn = c, dr.data)
      BY DEF One
    <2>3. One(UpdateFor(c), dwn_transfer.data)' = One(UpdateFor(c), dwn_transfer.data)
      BY <1>1, <2>1 DEF One
    <2> QED BY <1>1, <2>2, <2>3 DEF DownBytes
  <1> QED BY <1>1, <1>2 DEF DownIntegrity, Channel

LEMMA ClkClearDown ==
  ASSUME FlowInv, FlowInv', NEW ready, NEW offer, Clk(ready, offer), clear
  PROVE  DownIntegrity'
  <1>1. ~dwn_do_update /\ ~WaitsInDR /\ HUB \notin Channel
    BY WordMoves, Constants, EdgesOfAnUpdate DEF FlowInv, LinkInv, Clk, Timing, UpdateTiming
  <1>2. ASSUME NEW c \in Channel PROVE to_core'[c] = BytesInHub(c)'
    <2>1. to_core'[c] = <<>>
      BY DEF Clk, History
    <2>2. ~dwn_do_update' /\ ~WaitsInDR'
      BY <1>1, WordMoves DEF FlowInv, LinkInv, Clk
    <2>3. c \notin channel_selected' /\ c \notin data_dwn_valid'
      BY <1>1 DEF Clk, OutputStages, UpdateFor
    <2>4. ~InFlight(c)'
      BY <2>2, <2>3 DEF InFlight, UpdateFor
    <2>5. CASE c \in FLOW_CONTROL_ENABLE
      <3>1. stage'[c] = EmptyStage
        BY <2>5 DEF Clk, OutputStages, NextStage
      <3>2. ~EmptyStage.valid /\ Compact(EmptyStage) /\ EmptyStage \in Stage
        BY EmptyStageType DEF EmptyStage, Compact
      <3>3. StageBytes(EmptyStage) = <<>>
        BY <3>2, StageSequence
      <3> QED BY <2>1, <2>4, <2>5, <3>1, <3>3 DEF BytesInHub, Output
    <2>6. CASE c \notin FLOW_CONTROL_ENABLE
      BY <2>1, <2>3, <2>4, <2>6 DEF BytesInHub, Output, One
    <2> QED BY <2>5, <2>6
  <1> QED BY <1>2, DownIntegrityAfter

\* The byte on its way moves on.
LEMMA ClkFlyingByte ==
  ASSUME FlowInv, NEW ready, NEW offer, Clk(ready, offer), ~clear, NEW c \in Channel
  PROVE  /\ UpdateFor(c) => common_data_dwn' = dwn_transfer.data
         /\ InFlight(c) /\ ~UpdateFor(c) /\ c \notin channel_selected =>
              InFlight(c)' /\ FlyingByte(c)' = FlyingByte(c)
  <1>1. TypeInv /\ Timing /\ Synchronizer /\ UNCHANGED tapVars
    BY DEF FlowInv, LinkInv, Clk
  <1>2. common_data_dwn' = dwn_transfer.data
    BY DEF Clk, InternalOutput
  <1>3. ASSUME InFlight(c), ~UpdateFor(c), c \notin channel_selected
        PROVE  InFlight(c)' /\ FlyingByte(c)' = FlyingByte(c)
    <2>1. WaitsInDR /\ dr.valid /\ dr.fn = c /\ FlyingByte(c) = dr.data
      BY <1>3 DEF InFlight, FlyingByte
    <2>2. c \notin channel_selected'
      BY <1>3 DEF Clk, OutputStages
    <2>3. dr' = dr
      BY <1>1 DEF tapVars
    <2>4. CASE WaitsInDR'
      <3>1. ~UpdateFor(c)'
        BY <1>1, <2>4, WordMoves DEF UpdateFor
      <3> QED BY <2>1, <2>2, <2>3, <2>4, <3>1 DEF InFlight, FlyingByte
    <2>5. CASE dwn_do_update'
      <3>1. UpdateFor(c)' /\ dwn_transfer'.data = dr.data
        BY <1>1, <2>1, <2>5, WordMoves DEF UpdateFor
      <3> QED BY <2>1, <2>2, <3>1 DEF InFlight, FlyingByte
    <2> QED BY <1>1, <2>1, <2>4, <2>5, WordMoves
  <1> QED BY <1>2, <1>3

\* A channel with flow control.
LEMMA ClkStageDown ==
  ASSUME FlowInv, DownIntegrity, NEW ready, NEW offer, Clk(ready, offer), ~clear,
         NEW c \in FLOW_CONTROL_ENABLE
  PROVE  to_core'[c] = BytesInHub(c)'
  <1>1. c \in Channel /\ to_core[c] = BytesInHub(c) /\ OutputStages(ready)
    BY DownBytesValue, Constants DEF OnlyOneOnTheWay, DownIntegrity, Clk
  <1>2. Output(c) = StageBytes(stage[c]) /\ Output(c)' = StageBytes(stage'[c])
    BY DEF Output
  <1>3. stage[c] \in Stage /\ common_data_dwn \in Data /\ Compact(stage[c])
    BY DEF FlowInv, LinkInv, TypeInv, DwnTypes, RoomForByte
  <1>4. /\ Output(c) \in Seq(Data)
        /\ stage[c].valid => Output(c) # <<>>
    <2>1. stage[c].valid => StageBytes(stage[c]) \in Seq(Data) /\ Len(StageBytes(stage[c])) = 1 + Fill(stage[c])
      BY <1>3, StageSequence
    <2>2. Fill(stage[c]) \in 0..2
      BY <1>3, FillValue
    <2>3. stage[c].valid => StageBytes(stage[c]) # <<>>
      BY <2>1, <2>2, EmptySeq
    <2> QED BY <1>1, <1>2, <2>3, OutputType
  <1>5. to_core'[c] = IF Takes(stage[c], c \in ready) /\ to_core[c] # <<>>
                      THEN Tail(to_core[c]) ELSE to_core[c]
    <2>1. c \in Taking(ready) <=> Takes(stage[c], c \in ready)
      <3>1. c \notin data_dwn_valid
        BY DEF FlowInv, LinkInv, TypeInv, DwnTypes
      <3> QED BY <3>1 DEF Taking
    <2> QED BY <1>1, <2>1 DEF Clk, History
  <1>6. Remaining(stage[c], c \in ready) = IF Takes(stage[c], c \in ready) THEN Tail(Output(c)) ELSE Output(c)
    BY <1>2 DEF Remaining
  <1>7. CASE c \in channel_selected
    <2>1. InFlight(c) /\ ~InFlight(c)' /\ FlyingByte(c) = common_data_dwn
      BY <1>7, ClkInFlight DEF InFlight, FlyingByte
    <2>2. to_core[c] = Append(Output(c), common_data_dwn)
      BY <1>1, <2>1 DEF BytesInHub
    <2>3. BytesInHub(c)' = Append(Remaining(stage[c], c \in ready), common_data_dwn)
      BY <1>1, <1>2, <1>7, <2>1, ClkStage DEF BytesInHub
    <2>4. CASE Takes(stage[c], c \in ready)
      <3>1. stage[c].valid
        BY <2>4 DEF Takes
      <3>2. Tail(to_core[c]) = Append(Tail(Output(c)), common_data_dwn) /\ to_core[c] # <<>>
        BY <1>3, <1>4, <2>2, <3>1, HeadTailAppend, AppendProperties
      <3> QED BY <1>5, <1>6, <2>3, <2>4, <3>2
    <2>5. CASE ~Takes(stage[c], c \in ready)
      BY <1>5, <1>6, <2>2, <2>3, <2>5
    <2> QED BY <2>4, <2>5
  <1>8. CASE c \notin channel_selected /\ InFlight(c)
    <2>1. InFlight(c)' /\ FlyingByte(c)' = FlyingByte(c)
      <3>1. InFlight(c)'
        BY <1>8, ClkInFlight
      <3>2. CASE UpdateFor(c)
        <4>1. c \in channel_selected' /\ common_data_dwn' = dwn_transfer.data
          BY <1>1, <3>2, ClkFlyingByte DEF OutputStages
        <4> QED BY <1>8, <3>1, <3>2, <4>1 DEF FlyingByte
      <3>3. CASE ~UpdateFor(c)
        BY <1>1, <1>8, <3>3, ClkFlyingByte
      <3> QED BY <3>2, <3>3
    <2>2. FlyingByte(c) \in Data
      BY <1>8 DEF InFlight, FlyingByte, WaitsInDR, FlowInv, LinkInv, TypeInv, DwnTypes, TapTypes,
                  HostWordHasByte
    <2>3. to_core[c] = Append(Output(c), FlyingByte(c))
      BY <1>1, <1>8 DEF BytesInHub
    <2>4. BytesInHub(c)' = Append(Remaining(stage[c], c \in ready), FlyingByte(c))
      BY <1>1, <1>2, <1>8, <2>1, ClkStage DEF BytesInHub
    <2>5. CASE Takes(stage[c], c \in ready)
      <3>1. stage[c].valid
        BY <2>5 DEF Takes
      <3>2. Tail(to_core[c]) = Append(Tail(Output(c)), FlyingByte(c)) /\ to_core[c] # <<>>
        BY <1>4, <2>2, <2>3, <3>1, HeadTailAppend, AppendProperties
      <3> QED BY <1>5, <1>6, <2>4, <2>5, <3>2
    <2>6. CASE ~Takes(stage[c], c \in ready)
      BY <1>5, <1>6, <2>3, <2>4, <2>6
    <2> QED BY <2>5, <2>6
  <1>9. CASE ~InFlight(c)
    <2>1. ~InFlight(c)' /\ c \notin channel_selected
      BY <1>9, ClkInFlight DEF InFlight
    <2>2. to_core[c] = Output(c)
      BY <1>1, <1>9 DEF BytesInHub
    <2>3. BytesInHub(c)' = Remaining(stage[c], c \in ready)
      BY <1>1, <1>2, <2>1, ClkStage DEF BytesInHub
    <2>4. Takes(stage[c], c \in ready) => to_core[c] # <<>>
      BY <1>4, <2>2 DEF Takes
    <2> QED BY <1>5, <1>6, <2>2, <2>3, <2>4
  <1> QED BY <1>7, <1>8, <1>9

\* A channel without: its core must take a byte in the cycle it is on the output.
LEMMA ClkOutputDown ==
  ASSUME FlowInv, DownIntegrity, NEW ready, NEW offer, Clk(ready, offer), ~clear,
         NEW c \in Channel, c \notin FLOW_CONTROL_ENABLE
  PROVE  to_core'[c] = BytesInHub(c)'
  <1>1. TypeInv /\ Timing /\ Synchronizer /\ UNCHANGED tapVars /\ OutputStages(ready)
    BY DEF FlowInv, LinkInv, Clk
  <1>2. to_core[c] = BytesInHub(c)
    BY DownBytesValue DEF OnlyOneOnTheWay, DownIntegrity
  <1>3. c \notin channel_selected /\ c \notin channel_selected'
    BY <1>1 DEF TypeInv, DwnTypes, OutputStages
  <1>4. /\ Output(c) = One(c \in data_dwn_valid, common_data_dwn)
        /\ Output(c)' = One(UpdateFor(c), common_data_dwn')
    BY <1>1 DEF Output, OutputStages, One
  <1>5. to_core'[c] = IF c \in data_dwn_valid /\ to_core[c] # <<>> THEN Tail(to_core[c]) ELSE to_core[c]
    BY DEF Clk, History, Taking
  <1>6. c \in data_dwn_valid => ~dwn_do_update /\ ~WaitsInDR
    BY <1>1, WordMoves, EdgesOfAnUpdate DEF FlowInv, UpdateTiming
  <1>7. common_data_dwn \in Data /\ (UpdateFor(c) => common_data_dwn' = dwn_transfer.data)
    BY <1>1, ClkFlyingByte DEF TypeInv, DwnTypes
  <1>8. CASE c \in data_dwn_valid
    <2>1. ~InFlight(c) /\ ~UpdateFor(c)
      BY <1>3, <1>6, <1>8 DEF InFlight, UpdateFor
    <2>2. ~InFlight(c)'
      <3>1. ~dwn_do_update' /\ ~WaitsInDR'
        BY <1>1, <1>6, <1>8, WordMoves
      <3> QED BY <1>3, <3>1 DEF InFlight, UpdateFor
    <2>3. to_core[c] = <<common_data_dwn>>
      BY <1>2, <1>4, <1>8, <2>1 DEF BytesInHub, One
    <2>4. to_core'[c] = <<>>
      BY <1>5, <1>7, <1>8, <2>3, OneByte
    <2> QED BY <1>4, <2>1, <2>2, <2>4 DEF BytesInHub, One
  <1>9. CASE c \notin data_dwn_valid /\ UpdateFor(c)
    <2>1. ~InFlight(c)'
      <3>1. ~dwn_do_update' /\ ~WaitsInDR'
        BY <1>1, <1>9, WordMoves DEF UpdateFor
      <3> QED BY <1>3, <3>1 DEF InFlight, UpdateFor
    <2>2. dwn_transfer.data \in Data
      BY <1>1 DEF TypeInv, DwnTypes
    <2>3. to_core[c] = Append(<<>>, dwn_transfer.data)
      BY <1>2, <1>3, <1>4, <1>9 DEF BytesInHub, InFlight, FlyingByte, One
    <2>4. to_core'[c] = <<dwn_transfer.data>>
      BY <1>5, <1>9, <2>2, <2>3, OneByte
    <2> QED BY <1>4, <1>7, <1>9, <2>1, <2>4 DEF BytesInHub, One
  <1>10. CASE c \notin data_dwn_valid /\ ~UpdateFor(c)
    <2>1. Output(c)' = Output(c) /\ to_core'[c] = to_core[c]
      BY <1>4, <1>5, <1>10 DEF One
    <2>2. CASE InFlight(c)
      BY <1>2, <1>3, <1>10, <2>1, <2>2, ClkFlyingByte DEF BytesInHub
    <2>3. CASE ~InFlight(c)
      <3>1. ~InFlight(c)'
        <4>1. ~(WaitsInDR /\ dr.valid /\ dr.fn = c) /\ dr' = dr
          BY <1>1, <2>3 DEF InFlight, tapVars
        <4> QED BY <1>1, <1>3, <4>1, WordMoves DEF InFlight, UpdateFor
      <3> QED BY <1>2, <2>1, <2>3, <3>1 DEF BytesInHub
    <2> QED BY <2>2, <2>3
  <1> QED BY <1>8, <1>9, <1>10

LEMMA ClkDown ==
  ASSUME FlowInv, FlowInv', DownIntegrity, NEW ready, NEW offer, Clk(ready, offer)
  PROVE  DownIntegrity'
  <1>1. CASE clear
    BY <1>1, ClkClearDown
  <1>2. CASE ~clear
    <2>1. \A c \in Channel : to_core'[c] = BytesInHub(c)'
      BY <1>2, ClkStageDown, ClkOutputDown
    <2> QED BY <2>1, DownIntegrityAfter
  <1> QED BY <1>1, <1>2

LEMMA NextDown == ASSUME OneChannelIfAborted, DownInv, [Next]_vars PROVE DownInv'
  <1>1. FlowInv /\ FlowInv' /\ DownIntegrity
    BY NextFlowInv DEF DownInv
  <1>2. CASE ClkEdge
    BY <1>1, <1>2, ClkDown DEF ClkEdge, DownInv
  <1>3. CASE CaptureDR
    <2>1. ~WaitsInDR
      BY <1>1, <1>3, Calm DEF CaptureDR
    <2>2. ~WaitsInDR' /\ UNCHANGED <<to_core, dwnVars>>
      BY <1>3 DEF CaptureDR, WaitsInDR
    <2> QED BY <1>1, <2>1, <2>2, UnchangedDown DEF DownInv
  <1>4. ASSUME NEW c \in HostTools, NEW b \in Byte, SendByte(c, b) PROVE DownInv'
    <2>1. /\ FullScan(DataWord(c, b)) /\ c \in Channel
          /\ to_core' = [to_core EXCEPT ![c] = Append(@, b)]
      BY <1>4, HubAssumption DEF SendByte
    <2>2. DataWord(c, b).valid /\ DataWord(c, b).fn = c /\ DataWord(c, b).data = b
      BY DEF DataWord, EmptyWord
    <2>3. to_core \in [Channel -> Seq(Data)]
      BY <1>1 DEF FlowInv, LinkInv, TypeInv, HistoryTypes
    <2>4. \A d \in Channel : to_core'[d] = IF DataWord(c, b).valid /\ DataWord(c, b).fn = d
                                            THEN Append(to_core[d], DataWord(c, b).data)
                                            ELSE to_core[d]
      BY <2>1, <2>2, <2>3
    <2> QED BY <1>1, <2>1, <2>4, FullScanDown DEF DownInv
  <1>5. CASE Poll
    <2>1. FullScan(EmptyWord) /\ to_core' = to_core /\ ~EmptyWord.valid
      BY <1>5 DEF Poll, EmptyWord
    <2> QED BY <1>1, <2>1, FullScanDown DEF DownInv
  <1>6. CASE ResetHub
    <2>1. FullScan(ResetWord) /\ to_core' = to_core /\ ResetWord.fn \notin Channel
      BY <1>6, Constants DEF ResetHub, ResetWord, EmptyWord
    <2> QED BY <1>1, <2>1, FullScanDown DEF DownInv
  <1>7. CASE UNCHANGED vars
    <2>1. UNCHANGED <<to_core, dwnVars, dr, shifting, since>>
      BY <1>7 DEF vars, tapVars
    <2>2. WaitsInDR' <=> WaitsInDR
      BY <2>1, EdgesOfAnUpdate DEF WaitsInDR
    <2> QED BY <1>1, <2>1, <2>2, UnchangedDown DEF DownInv
  <1>8. CASE AbortScan
    BY <1>1, <1>8, AbortScanDown DEF DownInv
  <1> QED BY <1>2, <1>3, <1>4, <1>5, <1>6, <1>7, <1>8 DEF Next

LEMMA InitDown == Init => DownInv
  <1> SUFFICES ASSUME Init PROVE DownInv
    OBVIOUS
  <1>1. FlowInv
    BY InitFlowInv
  <1>2. ASSUME NEW c \in Channel PROVE to_core[c] = DownBytes(c)
    <2>1. DownBytes(c) = BytesInHub(c) /\ ~InFlight(c)
      BY <1>1, DownBytesValue, Calm DEF OnlyOneOnTheWay, Init, Settled
    <2>2. StageBytes(EmptyStage) = <<>>
      <3>1. ~EmptyStage.valid /\ Compact(EmptyStage) /\ EmptyStage \in Stage
        BY EmptyStageType DEF EmptyStage, Compact
      <3> QED BY <3>1, StageSequence
    <2>3. Output(c) = <<>>
      BY <2>2 DEF Init, Output, One
    <2> QED BY <2>1, <2>3 DEF Init, BytesInHub
  <1> QED BY <1>1, <1>2 DEF DownInv, DownIntegrity

\* While no scan is cut short, or only one channel has flow control, what the host
\* has sent to a channel and its core has not taken is in the hub, in order and
\* unchanged: the stage of a channel always has a place for the byte the host sends
\* before it sees the xoff (generate w_fc, registers xoff_sent and xoff_state_host),
\* for every number of channels and every delay of the cores.
THEOREM DownlinkCorrect == ASSUME OneChannelIfAborted PROVE Spec => []DownIntegrity
  <1>1. DownInv /\ [][Next]_vars => []DownInv
    BY NextDown, PTL
  <1>2. DownInv => DownIntegrity
    BY DEF DownInv
  <1> QED BY <1>1, <1>2, InitDown, PTL DEF Spec

\* A byte on the output of a channel with flow control does not change until its
\* core takes it, and it is the oldest one the host has sent.
Held(c) ==
  stage[c].valid /\ ~clear =>
    \/ stage'[c].valid /\ stage'[c].local = stage[c].local
    \/ to_core[c] # <<>> /\ to_core'[c] = Tail(to_core[c])

LEMMA StepHeld ==
  ASSUME DownInv, [Next]_vars, NEW c \in FLOW_CONTROL_ENABLE PROVE Held(c)
  <1> SUFFICES ASSUME stage[c].valid, ~clear
               PROVE  \/ stage'[c].valid /\ stage'[c].local = stage[c].local
                      \/ to_core[c] # <<>> /\ to_core'[c] = Tail(to_core[c])
    BY DEF Held
  <1>1. ASSUME NEW ready, NEW offer, Clk(ready, offer)
        PROVE  \/ stage'[c].valid /\ stage'[c].local = stage[c].local
               \/ to_core[c] # <<>> /\ to_core'[c] = Tail(to_core[c])
    <2>1. FlowInv /\ DownIntegrity /\ c \in Channel /\ OutputStages(ready)
      BY <1>1, Constants DEF DownInv, Clk
    <2>2. CASE c \notin ready
      BY <2>1, <2>2, ClkStage
    <2>3. CASE c \in ready
      <3>1. c \in Taking(ready)
        BY <2>3 DEF Taking, Takes
      <3>2. to_core[c] = BytesInHub(c)
        BY <2>1, DownBytesValue DEF OnlyOneOnTheWay, DownIntegrity
      <3>3. stage[c] \in Stage /\ Compact(stage[c])
        BY <2>1 DEF FlowInv, LinkInv, TypeInv, DwnTypes, RoomForByte
      <3>4. Output(c) \in Seq(Data) /\ Output(c) # <<>>
        <4>1. /\ StageBytes(stage[c]) \in Seq(Data)
              /\ Len(StageBytes(stage[c])) = 1 + Fill(stage[c])
          BY <3>3, StageSequence
        <4>2. Fill(stage[c]) \in 0..2
          BY <3>3, FillValue
        <4>3. StageBytes(stage[c]) # <<>>
          BY <4>1, <4>2, EmptySeq
        <4> QED BY <4>1, <4>3 DEF Output
      <3>5. FlyingByte(c) \in Data \/ ~InFlight(c)
        BY <2>1
        DEF InFlight, FlyingByte, WaitsInDR, FlowInv, LinkInv, TypeInv, DwnTypes, TapTypes,
            HostWordHasByte
      <3>6. to_core[c] # <<>>
        BY <3>2, <3>4, <3>5, AppendProperties DEF BytesInHub
      <3>7. to_core'[c] = Tail(to_core[c])
        BY <1>1, <2>1, <3>1, <3>6 DEF Clk, History
      <3> QED BY <3>6, <3>7
    <2> QED BY <2>2, <2>3
  <1>2. ASSUME ~ClkEdge PROVE stage' = stage
    BY <1>2
    DEF Next, CaptureDR, SendByte, Poll, ResetHub, AbortScan, FullScan, vars, dwnVars
  <1> QED BY <1>1, <1>2 DEF ClkEdge

\* The output of a channel with flow control keeps its byte until the core takes
\* it: no write, xoff or scan of the host changes a byte that is offered, and none
\* that is cut short if only one channel has flow control.
THEOREM OfferIsHeld == ASSUME OneChannelIfAborted PROVE Spec => HeldUntilTaken
  <1>1. DownInv /\ [Next]_vars =>
          [\A c \in FLOW_CONTROL_ENABLE :
             stage[c].valid /\ ~clear =>
               \/ stage'[c].valid /\ stage'[c].local = stage[c].local
               \/ to_core[c] # <<>> /\ to_core'[c] = Tail(to_core[c])]_vars
    BY StepHeld DEF Held
  <1>2. DownInv /\ [][Next]_vars => []DownInv
    BY NextDown, PTL
  <1> QED BY <1>1, <1>2, InitDown, PTL DEF Spec, HeldUntilTaken
=============================================================================
