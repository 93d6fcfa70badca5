------------------------- MODULE LogicAnalyserProofs -------------------------
(***************************************************************************)
(* A capture of the logic analyser is right, for memories of every size.   *)
(* The numbers in the ring follow the sample in front of it (Numbered,     *)
(* Back), the counter of the memory counts those that belong to the        *)
(* capture (Fills, Empties), and memory and controller agree about the     *)
(* sample that is handed over (Handshakes, Sends).                         *)
(***************************************************************************)
EXTENDS LogicAnalyser, FiniteSetTheorems, TLAPS

Sample == 0..(2 * Size - 1)
Data == Sample \cup {None}
Records == {"armed", "wait_trigger", "fill_up"}
Drains == {"drain", "drain_handshake"}

ControllerState ==
  [st : {"init", "busy", "data_output"},
   out : {"init", "Zwischenspeicher", "shift", "get_next_data"},
   armed : BOOLEAN, fire : BOOLEAN, request : BOOLEAN, temp : Data,
   ende : BOOLEAN, theend : BOOLEAN]

MemoryState ==
  [st : Records \cup Drains \cup {"idle", "wait_ack_finish"}, counter : 0..Size,
   near_max : BOOLEAN, near_delay : BOOLEAN, delay : Addr, ready : 0..3, raddr : Addr,
   full : BOOLEAN, finish : BOOLEAN, valid : BOOLEAN, data : Data]

WriteState == [en : BOOLEAN, addr : Addr, data : Data]

CaptureState == [delay : Addr, seen : Nat, hit : Data, sent : Seq(Data)]

Types ==
  /\ now \in Sample /\ trg \in BOOLEAN /\ delay \in Delays
  /\ c \in ControllerState
  /\ m \in MemoryState
  /\ w \in WriteState /\ wDly \in WriteState
  /\ ram \in [Addr -> Data]
  /\ rPipe \in [addr : Addr, next : Data, data : Data]
  /\ cap \in CaptureState

\* The address follows the number of the sample, once around in half of its range.
Numbered == w.addr = now % Size

\* What the RAM holds when the writes on their way have arrived.
Ring ==
  [a \in Addr |-> IF w.en /\ w.addr = a THEN w.data
                  ELSE IF wDly.en /\ wDly.addr = a THEN wDly.data ELSE ram[a]]

\* The sample k before the present one is in its place.
Back(k) == Ring[(now - k + 1) % Size] = (now - k) % (2 * Size)

\* The sample that is number i of the capture.
Due(i) == (cap.hit - cap.delay + i) % (2 * Size)

\* What the flags of the memory and those of the controller say of each other.
Handshakes ==
  /\ m.st \in Records => ~m.full /\ ~m.finish /\ c.armed /\ c.st # "data_output"
  /\ m.st \in Drains => m.full /\ c.armed /\ ~m.finish
  /\ m.st = "wait_ack_finish" =>
       m.full /\ m.finish /\ c.st = "data_output" /\ ~c.theend /\ (c.ende <=> ~c.armed)
  /\ m.st = "idle" /\ m.full => ~c.armed /\ c.st = "data_output"
  /\ m.valid <=> m.st = "drain_handshake"
  /\ m.ready # 0 => m.st = "drain"
  /\ c.st # "data_output" => c.out = "init" /\ (~c.armed => m.st = "idle")
  /\ c.st = "data_output" =>
       /\ m.st \in Drains => ~c.ende /\ ~c.theend
       /\ m.st = "idle" => ~c.armed
       /\ ~c.armed => c.ende
       /\ c.theend => c.out = "get_next_data" /\ c.ende

\* Armed, but the memory has not seen it yet.
Fresh ==
  m.st = "idle" /\ c.armed =>
    cap = [delay |-> delay, seen |-> 0, hit |-> None, sent |-> <<>>]

\* While it records: the last m.counter samples are those of the capture, first
\* the ones before the trigger, and the trigger is the one that ended the waiting.
Fills ==
  m.st \in Records =>
    /\ m.delay = cap.delay /\ cap.sent = <<>>
    /\ m.counter < Size /\ (m.near_max <=> m.counter = Size - 1)
    /\ m.st = "armed" => /\ m.counter < m.delay /\ cap.seen = m.counter /\ cap.hit = None
                         /\ m.near_delay <=> m.counter + 1 = m.delay
    /\ m.st # "armed" => cap.seen = m.delay
    /\ m.st = "wait_trigger" => m.counter = m.delay /\ cap.hit = None
    /\ m.st = "fill_up" => /\ m.counter > m.delay
                           /\ cap.hit = (now - (m.counter - m.delay)) % (2 * Size)
    /\ \A k \in 1..m.counter : Back(k)

\* The number of samples the memory has handed over.
Drained == IF m.st \in Drains THEN Size - m.counter ELSE Size

\* Full: all samples of the ring belong to the capture.
Whole ==
  /\ cap.hit = (now - (Size - cap.delay)) % (2 * Size)
  /\ \A k \in 1..Size : Back(k)

\* The last two samples may still be on their way to the RAM.
Arriving ==
  /\ w.en => m.st = "drain" /\ m.counter = Size /\ m.ready = 0
  /\ wDly.en => /\ m.st = "drain" /\ m.counter = Size /\ m.ready < 2
                /\ m.ready = 1 => wDly.addr = now % Size

\* The oldest one not handed over is the one that is read.
Reading ==
  /\ m.st = "drain" =>
       /\ m.counter > 0 /\ m.raddr = (now - m.counter + 1) % Size
       /\ m.ready > 0 => rPipe.addr = m.raddr
       /\ m.ready > 1 => rPipe.next = ram[m.raddr]
       /\ m.ready > 2 => rPipe.data = ram[m.raddr]
  /\ m.st = "drain_handshake" =>
       /\ m.counter < Size /\ m.raddr = (now - m.counter) % Size
       /\ m.data = (now - m.counter - 1) % (2 * Size)

\* Before the host has got anything, one sample at most is waiting.
First ==
  c.out = "init" =>
    /\ cap.sent = <<>>
    /\ m.st = "drain" => m.counter = Size
    /\ m.st = "drain_handshake" => m.counter = Size - 1 /\ c.request

Empties == m.st \in Drains => Whole /\ Arriving /\ Reading /\ First

\* The controller has the sample that is due, or has sent all there were.
Sends ==
  c.st = "data_output" =>
    /\ cap.hit # None
    /\ c.out = "init" => c.request /\ m.st \in Drains
    /\ c.out = "Zwischenspeicher" =>
         /\ c.temp = Due(Len(cap.sent)) /\ Len(cap.sent) + 1 = Drained
         /\ c.request => m.st = "drain_handshake"
    /\ c.out = "shift" => Len(cap.sent) = Drained /\ ~c.request
    /\ c.out = "get_next_data" =>
         Len(cap.sent) + (IF m.st = "drain_handshake" THEN 1 ELSE 0) = Drained /\ c.request

IInv == Types /\ Numbered /\ Handshakes /\ Fresh /\ Fills /\ Empties /\ Sends /\ CaptureIsRight

-----------------------------------------------------------------------------
(* Numbers and places in the ring. *)

LEMMA SizeAtLeastTwo == Size \in Nat /\ Size >= 2
<1> DEFINE Power == SUBSET (1..ADDR_WIDTH)
<1>1. ADDR_WIDTH \in Nat /\ ADDR_WIDTH >= 1
  BY LogicAnalyserAssumption
<1>2. IsFiniteSet(1..ADDR_WIDTH) /\ Cardinality(1..ADDR_WIDTH) = ADDR_WIDTH
  BY <1>1, FS_Interval
<1>3. IsFiniteSet(Power) /\ Cardinality(Power) = Size
  BY <1>2, FS_SUBSET DEF Size
<1>4. Size \in Nat
  BY <1>3, FS_CardinalityType
<1>5. {} \in Power /\ {1} \in Power /\ {} # {1}
  BY <1>1
<1> DEFINE Empty == {{}}
<1>6. IsFiniteSet(Empty) /\ Cardinality(Empty) = 1 /\ {1} \notin Empty
  BY FS_Singleton
<1>7. Empty \cup {{1}} \subseteq Power
  BY <1>5
<1> HIDE DEF Empty
<1>8. Cardinality(Empty \cup {{1}}) = 2
  <2>1. Cardinality(Empty \cup {{1}}) = Cardinality(Empty) + 1
    BY <1>6, FS_AddElement
  <2> QED BY <1>6, <2>1
<1>9. 2 <= Cardinality(Power)
  BY <1>3, <1>7, <1>8, FS_Subset
<1> QED BY <1>3, <1>4, <1>9

LEMMA ModIs ==
  ASSUME NEW N \in Nat \ {0}, NEW n \in (-N)..(2 * N - 1)
  PROVE  /\ n % N \in 0..(N - 1)
         /\ n % N = IF n < 0 THEN n + N ELSE IF n < N THEN n ELSE n - N
<1>1. n % N \in 0..(N - 1) /\ (n \in 0..(N - 1) => n % N = n)
  OBVIOUS
<1>2. n \in N..(2 * N - 1) => n % N = n - N
  BY SMTT(60)
<1>3. n \in (-N)..(-1) => n % N = n + N
  BY SMTT(60)
<1> QED BY <1>1, <1>2, <1>3

LEMMA Slot ==
  ASSUME NEW n \in (-Size)..(2 * Size - 1)
  PROVE  /\ n % Size \in Addr
         /\ n % Size = IF n < 0 THEN n + Size ELSE IF n < Size THEN n ELSE n - Size
<1>1. Size \in Nat \ {0}
  BY SizeAtLeastTwo
<1> QED BY <1>1, ModIs DEF Addr

LEMMA Wrap ==
  ASSUME NEW n \in (-(2 * Size))..(4 * Size - 1)
  PROVE  /\ n % (2 * Size) \in Sample
         /\ n % (2 * Size) = IF n < 0 THEN n + 2 * Size
                             ELSE IF n < 2 * Size THEN n ELSE n - 2 * Size
<1> DEFINE N == 2 * Size
<1>1. N \in Nat \ {0} /\ n \in (-N)..(2 * N - 1)
  BY SizeAtLeastTwo
<1> HIDE DEF N
<1>2. /\ n % N \in 0..(N - 1)
      /\ n % N = IF n < 0 THEN n + N ELSE IF n < N THEN n ELSE n - N
  BY <1>1, ModIs
<1> QED BY <1>2 DEF N, Sample

-----------------------------------------------------------------------------
\* The next sample takes the place after the last one.
LEMMA NextNumber ==
  ASSUME NEW n \in Sample
  PROVE  /\ (n + 1) % (2 * Size) \in Sample
         /\ (n + 1) % (2 * Size) = IF n = 2 * Size - 1 THEN 0 ELSE n + 1
         /\ ((n + 1) % (2 * Size)) % Size = ((n % Size) + 1) % Size
<1> DEFINE p == (n + 1) % (2 * Size)
           s == n % Size
<1>0. Size \in Nat /\ Size >= 2 /\ n \in Int /\ n >= 0 /\ n < 2 * Size
  BY SizeAtLeastTwo DEF Sample
<1>1. n + 1 \in (-(2 * Size))..(4 * Size - 1)
  BY <1>0
<1>2. p \in Sample /\ p = IF n = 2 * Size - 1 THEN 0 ELSE n + 1
  <2> DEFINE q == n + 1
  <2>1. q \in (-(2 * Size))..(4 * Size - 1) /\ q >= 0 /\ q <= 2 * Size /\ p = q % (2 * Size)
    BY <1>0, <1>1
  <2>2. p \in Sample /\ (n = 2 * Size - 1 <=> q = 2 * Size)
    <3> HIDE DEF q
    <3>1. q % (2 * Size) \in Sample
      BY <2>1, Wrap
    <3>2. n = 2 * Size - 1 <=> q = 2 * Size
      BY <1>0 DEF q
    <3> QED BY <2>1, <3>1, <3>2
  <2> HIDE DEF q, p
  <2>3. q % (2 * Size) = IF q < 0 THEN q + 2 * Size
                         ELSE IF q < 2 * Size THEN q ELSE q - 2 * Size
    BY <2>1, Wrap
  <2>4. p = IF n = 2 * Size - 1 THEN 0 ELSE q
    BY <1>0, <2>1, <2>2, <2>3
  <2> QED BY <2>2, <2>4 DEF q
<1>3. s = IF n < Size THEN n ELSE n - Size
  BY <1>0, Slot
<1> HIDE DEF p, s
<1>4. p \in (-Size)..(2 * Size - 1) /\ s + 1 \in (-Size)..(2 * Size - 1)
  BY <1>0, <1>2, <1>3
<1>5. p % Size = IF p < Size THEN p ELSE p - Size
  BY <1>0, <1>2, <1>4, Slot
<1>6. (s + 1) % Size = IF s + 1 < Size THEN s + 1 ELSE s + 1 - Size
  BY <1>0, <1>3, <1>4, Slot
<1>7. p % Size = (s + 1) % Size
  BY <1>0, <1>2, <1>3, <1>5, <1>6
<1> QED BY <1>2, <1>7 DEF p, s

\* The sample before the next one is this one.
LEMMA OneBack ==
  ASSUME NEW n \in Sample
  PROVE  (((n + 1) % (2 * Size)) - 1) % (2 * Size) = n
<1> DEFINE p == (n + 1) % (2 * Size)
           b == p - 1
<1>1. Size \in Nat /\ Size >= 2 /\ n \in 0..(2 * Size - 1)
  BY SizeAtLeastTwo DEF Sample
<1>2. p \in 0..(2 * Size - 1) /\ p = IF n = 2 * Size - 1 THEN 0 ELSE n + 1
  BY NextNumber DEF Sample
<1> HIDE DEF p
<1>3. b \in (-(2 * Size))..(4 * Size - 1) /\ b = IF n = 2 * Size - 1 THEN n - 2 * Size ELSE n
  BY <1>1, <1>2
<1> HIDE DEF b
<1>4. b % (2 * Size) = IF b < 0 THEN b + 2 * Size ELSE IF b < 2 * Size THEN b ELSE b - 2 * Size
  BY <1>3, Wrap
<1>5. b % (2 * Size) = n
  BY <1>1, <1>3, <1>4
<1> QED BY <1>5 DEF b, p

\* Seen from the next sample, a sample is one further back and in the same
\* place, which is not that of the next one.
LEMMA OneFurther ==
  ASSUME NEW n \in Sample, NEW k \in 1..Size, NEW p, p = (n + 1) % (2 * Size)
  PROVE  /\ (p - (k + 1)) % (2 * Size) = (n - k) % (2 * Size)
         /\ (p - (k + 1) + 1) % Size = (n - k + 1) % Size
         /\ k < Size => (n - k + 1) % Size # p % Size
<1>0. Size \in Nat /\ Size >= 2 /\ n \in Int /\ n >= 0 /\ n < 2 * Size /\ k \in Int /\ k >= 1 /\ k <= Size
  BY SizeAtLeastTwo DEF Sample
<1>1. p \in Sample /\ p = IF n = 2 * Size - 1 THEN 0 ELSE n + 1
  BY NextNumber
<1>2. (p - (k + 1)) % (2 * Size) = (n - k) % (2 * Size)
  <2> DEFINE a == p - (k + 1)
             b == n - k
  <2>1. a = IF n = 2 * Size - 1 THEN b - 2 * Size ELSE b
    BY <1>0, <1>1
  <2>2. n = 2 * Size - 1 => b >= 0
    BY <1>0
  <2>3. a \in (-(2 * Size))..(4 * Size - 1) /\ b \in (-(2 * Size))..(4 * Size - 1) /\ b < 2 * Size
    BY <1>0, <1>1
  <2> HIDE DEF a, b
  <2>4. a % (2 * Size) = IF a < 0 THEN a + 2 * Size ELSE IF a < 2 * Size THEN a ELSE a - 2 * Size
    BY <2>3, Wrap
  <2>5. b % (2 * Size) = IF b < 0 THEN b + 2 * Size ELSE b
    BY <2>3, Wrap
  <2>6. a % (2 * Size) = b % (2 * Size)
    BY <1>0, <2>1, <2>2, <2>3, <2>4, <2>5
  <2> QED BY <2>6 DEF a, b
<1> DEFINE r == n - k + 1
           s == p - (k + 1) + 1
<1>3. r \in (-Size)..(2 * Size - 1) /\ s \in (-Size)..(2 * Size - 1) /\ p \in (-Size)..(2 * Size - 1)
  BY <1>0, <1>1
<1>4. s = IF n = 2 * Size - 1 THEN r - 2 * Size ELSE r
  BY <1>0, <1>1
<1>5. (n = 2 * Size - 1 => r >= Size) /\ (k < Size => r <= n /\ r > n + 1 - Size) /\ r <= n
  BY <1>0
<1> HIDE DEF r, s
<1>6. r % Size = IF r < 0 THEN r + Size ELSE IF r < Size THEN r ELSE r - Size
  BY <1>3, Slot
<1>7. s % Size = IF s < 0 THEN s + Size ELSE IF s < Size THEN s ELSE s - Size
  BY <1>3, Slot
<1>8. p % Size = IF p < 0 THEN p + Size ELSE IF p < Size THEN p ELSE p - Size
  BY <1>3, Slot
<1>9. s % Size = r % Size
  BY <1>0, <1>3, <1>4, <1>5, <1>6, <1>7
<1>10. k < Size => r % Size # p % Size
  BY <1>0, <1>1, <1>3, <1>5, <1>6, <1>8
<1> QED BY <1>2, <1>9, <1>10 DEF r, s

\* The place of the next sample to be sent.
LEMMA PlaceNext ==
  ASSUME NEW n \in Sample, NEW k \in 1..Size
  PROVE  /\ (n - k) % Size \in Addr
         /\ (((n - k) % Size) + 1) % Size = (n - k + 1) % Size
         /\ (n - Size + 1) % Size # n % Size
<1> DEFINE a == n - k
           b == a % Size
           d == n - Size + 1
<1>1. Size \in Nat /\ Size >= 2 /\ n \in 0..(2 * Size - 1)
  BY SizeAtLeastTwo DEF Sample
<1>2. a \in (-Size)..(2 * Size - 2) /\ a \in (-Size)..(2 * Size - 1) /\ d \in (-Size)..(2 * Size - 1)
      /\ n \in (-Size)..(2 * Size - 1) /\ a + 1 = n - k + 1
  BY <1>1
<1> HIDE DEF a, d
<1>3. b \in Addr /\ b = IF a < 0 THEN a + Size ELSE IF a < Size THEN a ELSE a - Size
  BY <1>2, Slot
<1>4. n % Size = IF n < 0 THEN n + Size ELSE IF n < Size THEN n ELSE n - Size
  BY <1>2, Slot
<1>5. d % Size = IF d < 0 THEN d + Size ELSE IF d < Size THEN d ELSE d - Size
  BY <1>2, Slot
<1>6. d % Size # n % Size
  BY <1>1, <1>4, <1>5 DEF d
<1> DEFINE b1 == b + 1
           a1 == a + 1
<1> HIDE DEF b
<1>7. b1 \in (-Size)..(2 * Size - 1) /\ a1 \in (-Size)..(2 * Size - 1) /\ b1 = b + 1 /\ a1 = a + 1
  BY <1>1, <1>2, <1>3 DEF Addr
<1> HIDE DEF a1, b1
<1>8. b1 % Size = IF b1 < 0 THEN b1 + Size ELSE IF b1 < Size THEN b1 ELSE b1 - Size
  BY <1>7, Slot
<1>9. a1 % Size = IF a1 < 0 THEN a1 + Size ELSE IF a1 < Size THEN a1 ELSE a1 - Size
  BY <1>7, Slot
<1>10. b1 % Size = a1 % Size
  BY <1>1, <1>2, <1>3, <1>7, <1>8, <1>9
<1> QED BY <1>2, <1>3, <1>6, <1>10 DEF a, a1, b, b1, d

\* The first of the samples that are sent is the oldest one in the ring.
LEMMA DueIs ==
  ASSUME NEW n \in Sample, NEW d \in Addr, NEW i \in 0..(Size - 1), NEW h, h = (n - (Size - d)) % (2 * Size)
  PROVE  (h - d + i) % (2 * Size) = (n - (Size - i)) % (2 * Size)
<1> DEFINE a == n - (Size - d)
           b == h - d + i
           e == n - (Size - i)
<1>1. Size \in Nat /\ Size >= 2 /\ n \in 0..(2 * Size - 1) /\ d \in 0..(Size - 1)
  BY SizeAtLeastTwo DEF Sample, Addr
<1>2. a \in (-(2 * Size))..(4 * Size - 1) /\ e \in (-(2 * Size))..(4 * Size - 1)
      /\ a < 2 * Size /\ e < 2 * Size /\ a - d + i = e
  BY <1>1
<1>3. h = IF a < 0 THEN a + 2 * Size ELSE a
  <2> HIDE DEF a
  <2>1. a % (2 * Size) = IF a < 0 THEN a + 2 * Size ELSE IF a < 2 * Size THEN a ELSE a - 2 * Size
    BY <1>2, Wrap
  <2> QED BY <1>2, <2>1 DEF a
<1>4. b = IF a < 0 THEN e + 2 * Size ELSE e
  BY <1>1, <1>2, <1>3
<1>5. b \in (-(2 * Size))..(4 * Size - 1) /\ (a >= 0 => e >= -Size) /\ (a < 0 => e < Size)
  BY <1>1, <1>2, <1>4
<1> HIDE DEF a, b, e
<1>6. b % (2 * Size) = IF b < 0 THEN b + 2 * Size ELSE IF b < 2 * Size THEN b ELSE b - 2 * Size
  BY <1>5, Wrap
<1>7. e % (2 * Size) = IF e < 0 THEN e + 2 * Size ELSE IF e < 2 * Size THEN e ELSE e - 2 * Size
  BY <1>2, Wrap
<1>8. b % (2 * Size) = e % (2 * Size)
  BY <1>1, <1>2, <1>4, <1>5, <1>6, <1>7
<1> QED BY <1>8 DEF b, e

-----------------------------------------------------------------------------
\* The registers in front of the RAM, behind it, and the RAM itself.
LEMMA DataTypes ==
  ASSUME Types, Numbered, NEW se \in BOOLEAN, NEW e \in BOOLEAN, Sampled(se), Write(se, e), ReadPipe
  PROVE  /\ now' \in Sample /\ trg' \in BOOLEAN
         /\ w' \in WriteState /\ wDly' \in WriteState
         /\ ram' \in [Addr -> Data]
         /\ rPipe' \in [addr : Addr, next : Data, data : Data]
         /\ Numbered'
<1>1. c.armed \in BOOLEAN /\ c.fire \in BOOLEAN /\ m.full \in BOOLEAN /\ m.raddr \in Addr
  BY DEF Types, ControllerState, MemoryState
<1>2. 0 \in Sample /\ 0 \in Addr /\ 0 % Size = 0 /\ None \in Data /\ Sample \subseteq Data
  BY SizeAtLeastTwo, Slot DEF Sample, Addr, Data
<1>3. now \in Sample /\ now % Size = w.addr /\ w.addr \in Addr
  BY DEF Types, WriteState, Numbered
<1>4. /\ (now + 1) % (2 * Size) \in Sample
      /\ ((now + 1) % (2 * Size)) % Size = (w.addr + 1) % Size
  BY <1>3, NextNumber
<1>5. (w.addr + 1) % Size \in Addr
  <2>1. w.addr + 1 \in (-Size)..(2 * Size - 1)
    BY <1>3, SizeAtLeastTwo DEF Addr
  <2> QED BY <2>1, Slot
<1>6. now' \in Sample /\ Counted(w.addr, se, Size) \in Addr /\ now' % Size = Counted(w.addr, se, Size)
  BY <1>1, <1>2, <1>3, <1>4, <1>5 DEF Sampled, Counted
<1>7. w' = [en |-> e, addr |-> Counted(w.addr, se, Size), data |-> IF e THEN now ELSE None]
  BY DEF Write
<1>8. w' \in WriteState /\ Numbered'
  BY <1>2, <1>3, <1>6, <1>7 DEF WriteState, Numbered
<1>9. trg' \in BOOLEAN
  BY <1>1 DEF Sampled, Types
<1>10. wDly' \in WriteState
  BY DEF Write, Types
<1>11. ram' \in [Addr -> Data]
  BY <1>2 DEF Write, Types, WriteState
<1>12. rPipe' \in [addr : Addr, next : Data, data : Data]
  BY <1>1, <1>2 DEF ReadPipe, Types, NoRead
<1> QED BY <1>6, <1>8, <1>9, <1>10, <1>11, <1>12

\* A write on its way is in the ring at once.
LEMMA RingStep ==
  ASSUME Types, NEW se \in BOOLEAN, NEW e \in BOOLEAN, Write(se, e), ~NewCapture
  PROVE  /\ Ring \in [Addr -> Data]
         /\ ~e => Ring' = Ring
         /\ e => \A a \in Addr : Ring'[a] = IF a = w'.addr THEN now ELSE Ring[a]
<1>1. w \in WriteState /\ wDly \in WriteState /\ ram \in [Addr -> Data]
  BY DEF Types
<1>2. w.en \in BOOLEAN /\ w.addr \in Addr /\ w.data \in Data
      /\ wDly.en \in BOOLEAN /\ wDly.addr \in Addr /\ wDly.data \in Data
  BY <1>1 DEF WriteState
<1>3. wDly' = w /\ w'.en = e /\ (e => w'.data = now)
  BY DEF Write
<1>4. \A a \in Addr : ram'[a] = IF wDly.en /\ wDly.addr = a THEN wDly.data ELSE ram[a]
  BY <1>1, <1>2 DEF Write
<1>5. Ring \in [Addr -> Data]
  BY <1>1, <1>2 DEF Ring
<1>6. \A a \in Addr : Ring[a] = IF w.en /\ w.addr = a THEN w.data
                                ELSE IF wDly.en /\ wDly.addr = a THEN wDly.data ELSE ram[a]
  BY DEF Ring
<1>7. Ring' = [a \in Addr |-> IF w'.en /\ w'.addr = a THEN w'.data
                  ELSE IF wDly'.en /\ wDly'.addr = a THEN wDly'.data ELSE ram'[a]]
  BY DEF Ring, Addr
<1>8. \A a \in Addr : Ring'[a] = IF e /\ w'.addr = a THEN w'.data ELSE Ring[a]
  BY <1>3, <1>4, <1>6, <1>7
<1>9. ~e => Ring' = Ring
  BY <1>3, <1>4, <1>7, <1>2, <1>1 DEF Ring
<1> QED BY <1>3, <1>5, <1>8, <1>9

\* A sample that is recorded.
LEMMA Recorded ==
  ASSUME Types, Numbered, Sampled(TRUE), Write(TRUE, TRUE), ReadPipe, c.armed, ~m.full
  PROVE  /\ now' = (now + 1) % (2 * Size)
         /\ w'.en /\ Back(1)'
         /\ \A k \in 1..(Size - 1) : Back(k) => Back(k + 1)'
<1>1. now' = (now + 1) % (2 * Size)
  BY DEF Sampled, Counted
<1>2. now \in Sample /\ now' \in Sample /\ w'.addr = now' % Size
  BY DataTypes DEF Types, Numbered
<1>3. ~NewCapture
  BY DEF NewCapture
<1>4. \A a \in Addr : Ring'[a] = IF a = w'.addr THEN now ELSE Ring[a]
  BY <1>3, RingStep
<1>5. w'.en
  BY DEF Write
<1>6. Back(1)'
  <2>1. (now' - 1) % (2 * Size) = now
    BY <1>1, <1>2, OneBack
  <2>2. now' % Size \in Addr /\ now' - 1 + 1 = now'
    <3> DEFINE p == now'
    <3>1. Size \in Nat /\ p \in 0..(2 * Size - 1)
      BY <1>2, SizeAtLeastTwo DEF Sample
    <3> HIDE DEF p
    <3>2. p \in (-Size)..(2 * Size - 1) /\ p - 1 + 1 = p
      BY <3>1
    <3>3. p % Size \in Addr
      BY <3>2, Slot
    <3> QED BY <3>2, <3>3 DEF p
  <2>3. Ring'[now' % Size] = now
    BY <1>2, <1>4, <2>2
  <2> QED BY <2>1, <2>2, <2>3 DEF Back
<1>7. ASSUME NEW k \in 1..(Size - 1), Back(k)
      PROVE  Back(k + 1)'
  <2>1. k \in 1..Size /\ k < Size
    BY SizeAtLeastTwo
  <2>2. /\ (now' - (k + 1)) % (2 * Size) = (now - k) % (2 * Size)
        /\ (now' - (k + 1) + 1) % Size = (now - k + 1) % Size
        /\ (now - k + 1) % Size # now' % Size
    BY <1>1, <1>2, <2>1, OneFurther
  <2>3. (now - k + 1) % Size \in Addr
    <3>1. now - k + 1 \in (-Size)..(2 * Size - 1)
      BY <1>2, <2>1, SizeAtLeastTwo DEF Sample
    <3> QED BY <3>1, Slot
  <2>4. Ring'[(now - k + 1) % Size] = Ring[(now - k + 1) % Size]
    BY <1>2, <1>4, <2>2, <2>3
  <2> QED BY <1>7, <2>2, <2>4 DEF Back
<1> QED BY <1>1, <1>5, <1>6, <1>7

\* An edge without a sample to record, in a capture.
LEMMA NotRecorded ==
  ASSUME Types, Numbered, NEW se \in BOOLEAN, Sampled(se), Write(se, FALSE), ReadPipe,
         c.armed, ~se \/ m.full
  PROVE  /\ now' = now /\ ~w'.en /\ wDly' = w /\ Ring' = Ring
         /\ \A k \in Int : Back(k)' = Back(k)
<1>1. now' = now
  BY DEF Sampled, Counted
<1>2. ~w'.en /\ wDly' = w
  BY DEF Write
<1>3. Ring' = Ring
  BY RingStep DEF NewCapture
<1> QED BY <1>1, <1>2, <1>3 DEF Back

-----------------------------------------------------------------------------
(* The registers of the state machines. *)

\* What a step of the output does to the registers of the controller.
LEMMA OutputIs ==
  ASSUME c \in ControllerState, m \in MemoryState, c.st = "data_output", Output
  PROVE  /\ c' \in ControllerState
         /\ c'.armed = (c.armed /\ ~m.finish)
         /\ c'.ende = (c.ende \/ m.finish)
         /\ c'.st = IF c.theend THEN "init" ELSE "data_output"
         /\ c'.theend = (c.theend \/ (c.out = "get_next_data" /\ c.ende))
         /\ c'.request = IF c.out = "Zwischenspeicher" THEN FALSE
                         ELSE IF c.out = "shift" THEN c.request \/ ~m.valid ELSE c.request
         /\ c'.temp = IF c.out \in {"init", "get_next_data"} /\ m.valid THEN m.data ELSE c.temp
         /\ c.out \in {"init", "get_next_data"} =>
              c'.out = IF m.valid THEN "Zwischenspeicher" ELSE IF c.theend THEN "init" ELSE c.out
         /\ c.out = "Zwischenspeicher" => c'.out \in {c.out, "shift"}
         /\ c.out = "shift" =>
              c'.out = IF ~m.valid THEN "get_next_data" ELSE IF c.theend THEN "init" ELSE c.out
<1> DEFINE e == Ending
<1>1. /\ c.armed \in BOOLEAN /\ c.fire \in BOOLEAN /\ c.request \in BOOLEAN
      /\ c.ende \in BOOLEAN /\ c.theend \in BOOLEAN /\ c.temp \in Data
      /\ c.out \in {"init", "Zwischenspeicher", "shift", "get_next_data"}
      /\ c = [st |-> c.st, out |-> c.out, armed |-> c.armed, fire |-> c.fire,
              request |-> c.request, temp |-> c.temp, ende |-> c.ende, theend |-> c.theend]
  BY DEF ControllerState
<1>2. m.finish \in BOOLEAN /\ m.valid \in BOOLEAN /\ m.data \in Data
  BY DEF MemoryState
<1>3. /\ e.armed = (c.armed /\ ~m.finish) /\ e.fire = (c.fire /\ ~m.finish)
      /\ e.ende = (c.ende \/ m.finish)
      /\ e.st = IF c.theend THEN "init" ELSE c.st
      /\ e.out = IF c.theend THEN "init" ELSE c.out
      /\ e.request = c.request /\ e.temp = c.temp /\ e.theend = c.theend
  BY <1>1 DEF Ending
<1>4. e \in ControllerState
  BY <1>1, <1>2 DEF Ending, ControllerState
<1> HIDE DEF e
<1>5. CASE c.out = "init" /\ c' = Take(e)
  <2>1. CASE m.valid
    <3>1. c' = [e EXCEPT !.temp = m.data, !.out = "Zwischenspeicher"]
      BY <1>5, <2>1 DEF Take
    <3> QED BY <1>1, <1>2, <1>3, <1>4, <1>5, <2>1, <3>1 DEF ControllerState
  <2>2. CASE ~m.valid
    <3>1. c' = e
      BY <1>5, <2>2 DEF Take
    <3> QED BY <1>1, <1>2, <1>3, <1>4, <1>5, <2>2, <3>1 DEF ControllerState
  <2> QED BY <2>1, <2>2
<1>6. CASE c.out = "Zwischenspeicher" /\ \E out \in {c.out, "shift"} : c' = [e EXCEPT !.request = FALSE, !.out = out]
  BY <1>1, <1>2, <1>3, <1>4, <1>6 DEF ControllerState
<1>7. CASE c.out = "shift" /\ c' = IF m.valid THEN e ELSE [e EXCEPT !.request = TRUE, !.out = "get_next_data"]
  <2>1. CASE m.valid
    BY <1>1, <1>2, <1>3, <1>4, <1>7, <2>1 DEF ControllerState
  <2>2. CASE ~m.valid
    BY <1>1, <1>2, <1>3, <1>4, <1>7, <2>2 DEF ControllerState
  <2> QED BY <2>1, <2>2
<1>8. CASE c.out = "get_next_data" /\ c' = Take([e EXCEPT !.theend = @ \/ c.ende])
  <2>1. CASE m.valid
    <3>1. c' = [e EXCEPT !.theend = @ \/ c.ende, !.temp = m.data, !.out = "Zwischenspeicher"]
      BY <1>8, <2>1 DEF Take
    <3> QED BY <1>1, <1>2, <1>3, <1>4, <1>8, <2>1, <3>1 DEF ControllerState
  <2>2. CASE ~m.valid
    <3>1. c' = [e EXCEPT !.theend = @ \/ c.ende]
      BY <1>8, <2>2 DEF Take
    <3> QED BY <1>1, <1>2, <1>3, <1>4, <1>8, <2>2, <3>1 DEF ControllerState
  <2> QED BY <2>1, <2>2
<1> QED BY <1>5, <1>6, <1>7, <1>8 DEF Output, e

\* What a command does to them.
LEMMA InitStateIs ==
  ASSUME Types, NEW command \in Commands, InitState(command)
  PROVE  /\ c' \in ControllerState /\ delay' \in Delays
         /\ c'.armed = (c.armed \/ command = "arm")
         /\ c'.st = IF command = "other" THEN "busy" ELSE IF m.full THEN "data_output" ELSE "init"
         /\ c'.out = "init" /\ c'.request = (c.request \/ m.full)
         /\ m.full => ~c'.ende /\ ~c'.theend
         /\ command # "other" => delay' = delay
<1>1. /\ c.armed \in BOOLEAN /\ c.fire \in BOOLEAN /\ c.request \in BOOLEAN
      /\ c.ende \in BOOLEAN /\ c.theend \in BOOLEAN /\ c.temp \in Data
      /\ c.out \in {"init", "Zwischenspeicher", "shift", "get_next_data"}
      /\ c = [st |-> c.st, out |-> c.out, armed |-> c.armed, fire |-> c.fire,
              request |-> c.request, temp |-> c.temp, ende |-> c.ende, theend |-> c.theend]
  BY DEF Types, ControllerState
<1>2. m.full \in BOOLEAN /\ None \in Data
  BY DEF Types, MemoryState, Data
<1>3. c' = [st |-> IF command = "other" THEN "busy" ELSE IF m.full THEN "data_output" ELSE "init",
            out |-> "init", armed |-> c.armed \/ command = "arm",
            fire |-> c.fire \/ command = "fire", request |-> c.request \/ m.full,
            temp |-> IF m.full THEN None ELSE c.temp,
            ende |-> c.ende /\ ~m.full, theend |-> c.theend /\ ~m.full]
  BY <1>1 DEF InitState
<1>4. delay' \in Delays /\ (command # "other" => delay' = delay)
  BY DEF InitState, Types
<1>5. c' \in ControllerState
  BY <1>1, <1>2, <1>3 DEF ControllerState
<1> QED BY <1>1, <1>2, <1>3, <1>4, <1>5

\* And the rest of a command.
LEMMA BusyIs ==
  ASSUME Types, c.st = "busy", Busy, UNCHANGED delay
  PROVE  /\ c' \in ControllerState /\ delay' \in Delays
         /\ c'.st \in {"init", "busy"} /\ c'.armed = c.armed /\ c'.out = c.out
         /\ c'.request = c.request /\ c'.ende = c.ende /\ c'.theend = c.theend
BY DEF Busy, Types, ControllerState

\* The memory's registers.
LEMMA MemoryTypes ==
  ASSUME IInv, NEW se \in BOOLEAN, Memory(se)
  PROVE  m' \in MemoryState
<1>1. m \in MemoryState /\ delay \in Addr /\ None \in Data /\ rPipe.data \in Data
      /\ Size \in Nat /\ Size >= 2 /\ 0 \in Addr /\ m.raddr \in Addr /\ w.addr \in Addr
  BY SizeAtLeastTwo, LogicAnalyserAssumption DEF IInv, Types, Data, WriteState, MemoryState, Addr
<1>2. (m.raddr + 1) % Size \in Addr /\ (w.addr + 2) % Size \in Addr
  <2>1. m.raddr + 1 \in (-Size)..(2 * Size - 1) /\ w.addr + 2 \in (-Size)..(2 * Size - 1)
    BY <1>1 DEF Addr
  <2> QED BY <2>1, Slot
<1>3. m.counter \in 0..Size /\ m.ready \in 0..3
      /\ (m.st \in Records => m.counter + 1 \in 0..Size)
      /\ (m.st = "drain" => m.counter - 1 \in 0..Size)
      /\ (m.ready < 3 => m.ready + 1 \in 0..3) /\ 0 \in 0..Size /\ 0 \in 0..3
  <2>1. m.counter \in 0..Size /\ m.ready \in 0..3
    BY <1>1 DEF MemoryState
  <2>2. (m.st \in Records => m.counter < Size) /\ (m.st = "drain" => m.counter > 0)
    BY DEF IInv, Fills, Empties, Reading, Drains
  <2> QED BY <1>1, <2>1, <2>2
<1>4. ASSUME NEW r \in MemoryState, Turn(r)
      PROVE  m' \in MemoryState
  BY <1>4 DEF Turn, MemoryState
<1>5. CASE Idle
  BY <1>1, <1>3, <1>4, <1>5 DEF Idle, MemoryState, Records
<1>6. CASE Armed(se)
  BY <1>1, <1>3, <1>4, <1>6 DEF Armed, MemoryState, Records, NearMax
<1>7. CASE WaitTrigger(se)
  BY <1>1, <1>2, <1>3, <1>4, <1>7 DEF WaitTrigger, Full, MemoryState, Records, Drains, NearMax
<1>8. CASE FillUp(se)
  BY <1>1, <1>2, <1>3, <1>4, <1>8 DEF FillUp, Full, MemoryState, Records, Drains, NearMax
<1>9. CASE Drain
  BY <1>1, <1>3, <1>4, <1>9 DEF Drain, MemoryState, Drains
<1>10. CASE DrainHandshake
  BY <1>1, <1>2, <1>3, <1>4, <1>10 DEF DrainHandshake, MemoryState, Drains
<1>11. CASE WaitAckFinish
  BY <1>1, <1>4, <1>11 DEF WaitAckFinish
<1> QED BY <1>5, <1>6, <1>7, <1>8, <1>9, <1>10, <1>11 DEF Memory

\* Where the memory goes.
LEMMA MemoryGoes ==
  ASSUME IInv, NEW se \in BOOLEAN, Memory(se)
  PROVE  /\ m.st = "idle" =>
              /\ m'.st \in (IF c.armed THEN Records ELSE {"idle"})
              /\ ~m'.full /\ ~m'.finish /\ ~m'.valid /\ m'.ready = 0
         /\ m.st \in Records =>
              /\ \/ m'.st \in Records /\ ~m'.full
                 \/ m'.st = "drain" /\ m'.full
              /\ ~m'.finish /\ ~m'.valid /\ m'.ready = 0
         /\ m.st = "drain" =>
              /\ m'.full /\ ~m'.finish
              /\ \/ m'.st = "drain" /\ ~m'.valid
                 \/ m'.st = "drain_handshake" /\ m'.valid /\ m'.ready = 0 /\ c.request
         /\ m.st = "drain_handshake" =>
              /\ m'.full /\ m'.ready = 0
              /\ \/ c.request /\ m'.st = "drain_handshake" /\ m'.valid /\ ~m'.finish
                 \/ ~c.request /\ m'.st = "drain" /\ ~m'.valid /\ ~m'.finish /\ m.counter # 0
                 \/ ~c.request /\ m'.st = "wait_ack_finish" /\ ~m'.valid /\ m'.finish /\ m.counter = 0
         /\ m.st = "wait_ack_finish" =>
              /\ m'.st = IF c.armed THEN "wait_ack_finish" ELSE "idle"
              /\ m'.full /\ m'.finish /\ ~m'.valid /\ m'.ready = 0
<1>1. m \in MemoryState /\ Handshakes /\ c.armed \in BOOLEAN
  BY DEF IInv, Types, ControllerState
<1>2. CASE Idle
  BY <1>1, <1>2 DEF Idle, Turn, MemoryState, Handshakes, Records, Drains
<1>3. CASE Armed(se)
  BY <1>1, <1>3 DEF Armed, Turn, MemoryState, Handshakes, Records, Drains
<1>4. CASE WaitTrigger(se)
  BY <1>1, <1>4 DEF WaitTrigger, Full, Turn, MemoryState, Handshakes, Records, Drains
<1>5. CASE FillUp(se)
  BY <1>1, <1>5 DEF FillUp, Full, Turn, MemoryState, Handshakes, Records, Drains
<1>6. CASE Drain
  BY <1>1, <1>6 DEF Drain, Turn, MemoryState, Handshakes, Records, Drains
<1>7. CASE DrainHandshake
  BY <1>1, <1>7 DEF DrainHandshake, Turn, MemoryState, Handshakes, Records, Drains
<1>8. CASE WaitAckFinish
  BY <1>1, <1>8 DEF WaitAckFinish, Turn, MemoryState, Handshakes, Records, Drains
<1> QED BY <1>2, <1>3, <1>4, <1>5, <1>6, <1>7, <1>8 DEF Memory

\* Where the controller goes, outside of the output.
LEMMA CommandGoes ==
  ASSUME IInv, Controller, c.st # "data_output"
  PROVE  /\ c'.st = "data_output" => c.st = "init" /\ m.full /\ c'.request
         /\ c.armed => c'.armed
         /\ c'.armed /\ ~c.armed => c.st = "init" /\ c'.st = "init" /\ delay' = delay
         /\ c'.out = "init" /\ (c.request => c'.request)
         /\ c.st = "init" /\ m.full => ~c'.ende /\ ~c'.theend
         /\ c'.st \in {"init", "busy", "data_output"}
<1>1. Types /\ c.out = "init" /\ (c.st # "data_output" /\ ~c.armed => ~m.full)
  BY DEF IInv, Handshakes
<1>2. CASE c.st = "init" /\ \E command \in Commands : InitState(command)
  <2>1. PICK command \in Commands : InitState(command)
    BY <1>2
  <2> QED BY <1>1, <1>2, <2>1, InitStateIs
<1>3. CASE c.st = "busy" /\ Busy /\ UNCHANGED delay
  BY <1>1, <1>3, BusyIs
<1> QED BY <1>2, <1>3 DEF Controller

LEMMA ControllerTypes ==
  ASSUME Types, Controller
  PROVE  c' \in ControllerState /\ delay' \in Delays
<1>1. CASE c.st = "init" /\ \E command \in Commands : InitState(command)
  BY <1>1, InitStateIs
<1>2. CASE c.st = "busy" /\ Busy /\ UNCHANGED delay
  BY <1>2, BusyIs
<1>3. CASE c.st = "data_output" /\ Output /\ UNCHANGED delay
  BY <1>3, OutputIs DEF Types
<1> QED BY <1>1, <1>2, <1>3 DEF Controller

\* The output, by the registers the invariants speak of.
LEMMA OutputGoes ==
  ASSUME IInv, Controller, c.st = "data_output"
  PROVE  Output /\ UNCHANGED delay /\ c \in ControllerState /\ m \in MemoryState
BY DEF Controller, IInv, Types

LEMMA NextHandshakes ==
  ASSUME IInv, NEW se \in BOOLEAN, Memory(se), Controller
  PROVE  Handshakes'
<1>1. Handshakes /\ m \in MemoryState /\ m.st \in Records \cup Drains \cup {"idle", "wait_ack_finish"}
  BY DEF IInv, Types, MemoryState
<1>2. c.armed \in BOOLEAN /\ c.ende \in BOOLEAN /\ c.theend \in BOOLEAN /\ m.finish \in BOOLEAN
      /\ m.full \in BOOLEAN
  BY DEF IInv, Types, MemoryState, ControllerState
<1>3. CASE c.st # "data_output"
  <2>1. m.st # "wait_ack_finish" /\ (m.full => m.st \in Drains) /\ (~c.armed => m.st = "idle")
        /\ (m.st \in Drains => m.full /\ c.armed) /\ (m.st \in Records => c.armed)
    BY <1>1, <1>3 DEF Handshakes
  <2>2. m'.st # "wait_ack_finish"
    <3>1. m.st = "drain_handshake" => c.request
      BY <1>1, <1>3 DEF IInv, Empties, First, Handshakes, Drains
    <3> QED BY <1>1, <2>1, <3>1, MemoryGoes DEF Records, Drains
  <2>3. c' \in ControllerState
    BY ControllerTypes DEF IInv
  <2>4. CASE m.st = "idle"
    BY <1>1, <1>3, <2>1, <2>2, <2>3, <2>4, MemoryGoes, CommandGoes DEF Handshakes, Records, Drains, ControllerState
  <2>5. CASE m.st \in Records
    BY <1>1, <1>3, <2>1, <2>2, <2>3, <2>5, MemoryGoes, CommandGoes DEF Handshakes, Records, Drains, ControllerState
  <2>6. CASE m.st \in Drains
    BY <1>1, <1>3, <2>1, <2>2, <2>3, <2>6, MemoryGoes, CommandGoes DEF Handshakes, Records, Drains, ControllerState
  <2> QED BY <1>1, <2>1, <2>4, <2>5, <2>6
<1>4. CASE c.st = "data_output"
  <2>1. /\ c' \in ControllerState
        /\ c'.armed = (c.armed /\ ~m.finish)
        /\ c'.ende = (c.ende \/ m.finish)
        /\ c'.st = IF c.theend THEN "init" ELSE "data_output"
        /\ c'.theend = (c.theend \/ (c.out = "get_next_data" /\ c.ende))
    BY <1>4, OutputGoes, OutputIs
  <2>2. c'.st = "init" => c'.out = "init"
    <3>1. c.theend => c.out = "get_next_data" /\ ~m.valid
      BY <1>1, <1>4 DEF Handshakes, Drains
    <3> QED BY <1>4, <2>1, <3>1, OutputGoes, OutputIs
  <2>3. c.theend => m.st \notin Drains /\ c.out = "get_next_data" /\ ~m.valid /\ c.ende
    BY <1>1, <1>4 DEF Handshakes, Drains
  <2>4. c'.theend /\ c'.st = "data_output" => c'.out = "get_next_data" /\ c'.ende
    <3>1. c'.theend => c.out = "get_next_data" /\ c.ende
      BY <2>1, <2>3
    <3>2. c.ende => ~m.valid
      BY <1>1, <1>4 DEF Handshakes, Drains
    <3> QED BY <1>2, <1>4, <2>1, <3>1, <3>2, OutputGoes, OutputIs
  <2>5. m.st \notin Records
    BY <1>1, <1>4 DEF Handshakes
  <2>6. CASE m.st = "idle"
    <3>1. ~c.armed /\ c.ende /\ m'.st = "idle" /\ ~m'.full /\ ~m'.finish /\ ~m'.valid /\ m'.ready = 0
      BY <1>1, <1>4, <2>6, MemoryGoes DEF Handshakes
    <3> QED BY <1>2, <1>4, <2>1, <2>2, <2>4, <3>1 DEF Handshakes, Records, Drains
  <2>7. CASE m.st \in Drains
    <3>1. c.armed /\ m.full /\ ~m.finish /\ ~c.ende /\ ~c.theend
      BY <1>1, <1>4, <2>7 DEF Handshakes
    <3>2. /\ m'.full /\ m'.st \in Drains \cup {"wait_ack_finish"} /\ (m'.finish <=> m'.st = "wait_ack_finish")
          /\ (m'.valid <=> m'.st = "drain_handshake") /\ (m'.ready # 0 => m'.st = "drain")
      BY <2>7, MemoryGoes DEF Drains
    <3> QED BY <1>2, <1>4, <2>1, <2>2, <2>4, <3>1, <3>2 DEF Handshakes, Records, Drains
  <2>8. CASE m.st = "wait_ack_finish"
    <3>1. m.full /\ m.finish /\ ~c.theend /\ (c.ende <=> ~c.armed)
      BY <1>1, <2>8 DEF Handshakes
    <3>2. /\ m'.st = IF c.armed THEN "wait_ack_finish" ELSE "idle"
          /\ m'.full /\ m'.finish /\ ~m'.valid /\ m'.ready = 0
      BY <2>8, MemoryGoes
    <3> QED BY <1>2, <1>4, <2>1, <2>2, <2>4, <3>1, <3>2 DEF Handshakes, Records, Drains
  <2> QED BY <1>1, <2>5, <2>6, <2>7, <2>8
<1> QED BY <1>3, <1>4

-----------------------------------------------------------------------------
(* A capture. *)

\* What is seen of a capture that goes on.
LEMMA CaptureStep ==
  ASSUME Types, NEW se \in BOOLEAN, Observed(se), ~NewCapture
  PROVE  /\ SampleSent => cap'.sent = Append(cap.sent, c.temp)
         /\ ~SampleSent => cap'.sent = cap.sent
         /\ cap'.delay = cap.delay /\ cap'.hit \in Data /\ cap'.seen \in Nat
         /\ cap.hit # None => cap'.hit = cap.hit
         /\ ~se \/ m.st = "idle" \/ ~c.armed => cap'.hit = cap.hit /\ cap'.seen = cap.seen
         /\ se /\ m.st # "idle" /\ c.armed =>
              /\ cap'.seen = IF cap.seen < cap.delay THEN cap.seen + 1 ELSE cap.seen
              /\ cap.seen < cap.delay \/ ~trg => cap'.hit = cap.hit
              /\ cap.seen >= cap.delay /\ trg /\ cap.hit = None => cap'.hit = now
         /\ cap' \in CaptureState
<1> DEFINE here == se /\ c.armed /\ m.st # "idle"
           hit == here /\ cap.hit = None /\ cap.seen >= cap.delay /\ trg
<1>1. /\ cap.delay \in Addr /\ cap.seen \in Nat /\ cap.hit \in Data /\ cap.sent \in Seq(Data)
      /\ cap \in CaptureState /\ now \in Data /\ c.temp \in Data /\ cap.delay \in Int
      /\ trg \in BOOLEAN /\ c.armed \in BOOLEAN
  BY SizeAtLeastTwo DEF Types, CaptureState, Data, ControllerState, Addr
<1>2. cap' = [cap EXCEPT !.seen = IF here /\ @ < cap.delay THEN @ + 1 ELSE @,
                         !.hit = IF hit THEN now ELSE @,
                         !.sent = IF SampleSent THEN Append(@, c.temp) ELSE @]
  BY DEF Observed
<1>3. /\ cap'.seen = IF here /\ cap.seen < cap.delay THEN cap.seen + 1 ELSE cap.seen
      /\ cap'.hit = IF hit THEN now ELSE cap.hit
      /\ cap'.sent = IF SampleSent THEN Append(cap.sent, c.temp) ELSE cap.sent
      /\ cap'.delay = cap.delay
  <2> HIDE DEF here, hit
  <2> QED BY <1>1, <1>2 DEF CaptureState
<1>4. cap'.seen \in Nat /\ cap'.hit \in Data /\ cap'.sent \in Seq(Data)
  <2>1. Append(cap.sent, c.temp) \in Seq(Data)
    BY <1>1
  <2> QED BY <1>1, <1>3, <2>1
<1>5. cap' \in CaptureState
  <2> HIDE DEF here, hit
  <2>1. cap' = [delay |-> cap'.delay, seen |-> cap'.seen, hit |-> cap'.hit, sent |-> cap'.sent]
    BY <1>1, <1>2 DEF CaptureState
  <2> QED BY <1>1, <1>3, <1>4, <2>1 DEF CaptureState
<1> QED BY <1>1, <1>3, <1>4, <1>5

\* The registers of the memory while it records.
LEMMA RecordingIs ==
  ASSUME IInv, NEW se \in BOOLEAN, Memory(se), m.st \in Records
  PROVE  /\ ~se \/ (m.st = "wait_trigger" /\ ~trg) => m' = m
         /\ m'.delay = m.delay
         /\ se /\ m.st = "armed" =>
              /\ m'.st = IF m.near_delay THEN "wait_trigger" ELSE "armed"
              /\ m'.counter = m.counter + 1
              /\ (m'.near_max <=> m.counter = Size - 2)
              /\ (m'.near_delay <=> m.counter + 2 = m.delay)
         /\ se /\ (m.st = "fill_up" \/ (m.st = "wait_trigger" /\ trg)) =>
              /\ m'.counter = m.counter + 1
              /\ m.near_max => m'.st = "drain" /\ m'.raddr = (w.addr + 2) % Size
              /\ ~m.near_max => m'.st = "fill_up" /\ (m'.near_max <=> m.counter = Size - 2)
<1>1. m \in MemoryState /\ c.armed /\ m.near_max \in BOOLEAN
  BY DEF IInv, Types, Handshakes, MemoryState
<1>2. CASE Armed(se)
  BY <1>1, <1>2 DEF Armed, Turn, MemoryState, NearMax
<1>3. CASE WaitTrigger(se)
  BY <1>1, <1>3 DEF WaitTrigger, Full, Turn, MemoryState, NearMax
<1>4. CASE FillUp(se)
  BY <1>1, <1>4 DEF FillUp, Full, Turn, MemoryState, NearMax
<1> QED BY <1>2, <1>3, <1>4 DEF Memory, Records, Idle, Drain, DrainHandshake, WaitAckFinish

\* And when it begins.
LEMMA BeginIs ==
  ASSUME IInv, NEW se \in BOOLEAN, Memory(se), m.st = "idle", c.armed
  PROVE  /\ m'.st = IF delay = 0 THEN "wait_trigger" ELSE "armed"
         /\ m'.counter = 0 /\ ~m'.near_max /\ (m'.near_delay <=> delay = 1) /\ m'.delay = delay
<1>1. m \in MemoryState
  BY DEF IInv, Types
<1>2. Idle
  BY DEF Memory, Armed, WaitTrigger, FillUp, Drain, DrainHandshake, WaitAckFinish
<1> QED BY <1>1, <1>2 DEF Idle, Turn, MemoryState

\* The registers of the memory while it is emptied.
LEMMA DrainingIs ==
  ASSUME IInv, NEW se \in BOOLEAN, Memory(se), m.st \in Drains
  PROVE  /\ m'.delay = m.delay
         /\ m.st = "drain" /\ ~c.request => m' = m
         /\ m.st = "drain" /\ c.request /\ m.ready < 3 =>
              /\ m'.st = "drain" /\ m'.ready = m.ready + 1
              /\ m'.counter = m.counter /\ m'.raddr = m.raddr
         /\ m.st = "drain" /\ c.request /\ m.ready = 3 =>
              /\ m'.st = "drain_handshake" /\ m'.data = rPipe.data
              /\ m'.counter = m.counter - 1 /\ m'.raddr = m.raddr
         /\ m.st = "drain_handshake" =>
              /\ m'.counter = m.counter
              /\ c.request => m'.st = m.st /\ m'.raddr = m.raddr /\ m'.data = m.data
              /\ ~c.request => /\ m'.st = IF m.counter = 0 THEN "wait_ack_finish" ELSE "drain"
                               /\ m'.raddr = (m.raddr + 1) % Size /\ m'.ready = 0
<1>1. m \in MemoryState /\ c.armed
  BY DEF IInv, Types, Handshakes
<1>2. CASE Drain
  BY <1>1, <1>2 DEF Drain, Turn, MemoryState
<1>3. CASE DrainHandshake
  BY <1>1, <1>3 DEF DrainHandshake, Turn, MemoryState
<1> QED BY <1>2, <1>3 DEF Memory, Drains, Idle, Armed, WaitTrigger, FillUp, WaitAckFinish

\* The memory works for a capture that goes on.
LEMMA Working ==
  ASSUME IInv, NEW se \in BOOLEAN, Clk(se), m.st # "idle" \/ c.armed
  PROVE  /\ ~NewCapture
         /\ Recording <=> m.st \in Records
         /\ m.st \in Records \/ (m.st = "idle" /\ c.armed) => ~SampleSent
<1>1. c.st = "data_output" => c'.armed = (c.armed /\ ~m.finish)
  BY OutputGoes, OutputIs DEF Clk
<1>2. c.st # "data_output" => c.armed
  BY DEF IInv, Handshakes
<1>3. ~NewCapture
  BY <1>1, <1>2 DEF NewCapture
<1>4. m.st \in Records \/ (m.st = "idle" /\ c.armed) => c.st # "data_output"
  BY DEF IInv, Handshakes
<1> QED BY <1>3, <1>4 DEF Recording, Records, SampleSent

LEMMA NextFresh ==
  ASSUME IInv, NEW se \in BOOLEAN, Clk(se)
  PROVE  Fresh'
<1> SUFFICES ASSUME m'.st = "idle", c'.armed
             PROVE  cap' = [delay |-> delay', seen |-> 0, hit |-> None, sent |-> <<>>]
  BY DEF Fresh
<1>1. m.st \in Records \cup Drains \cup {"idle", "wait_ack_finish"}
  BY DEF IInv, Types, MemoryState
<1>2. m.st = "idle" \/ (m.st = "wait_ack_finish" /\ ~c.armed)
  BY <1>1, MemoryGoes DEF Clk, Records, Drains
<1>3. c.st = "data_output" => ~c'.armed
  <2>1. c.st = "data_output" => ~c.armed
    BY <1>2 DEF IInv, Handshakes
  <2> QED BY <2>1, OutputGoes, OutputIs DEF Clk
<1>4. m.st = "idle" /\ c.st # "data_output" /\ ~c.armed
  BY <1>2, <1>3, MemoryGoes DEF Clk, IInv, Handshakes, Records
<1>5. NewCapture /\ delay' = delay
  BY <1>4, CommandGoes DEF Clk, NewCapture
<1> QED BY <1>5 DEF Clk, Observed, NoCapture

\* A sample that counts: those before it are one further back, and so is the
\* trigger, when it was seen.
LEMMA Counts ==
  ASSUME IInv, Clk(TRUE), m.st \in Records
  PROVE  /\ now' \in Sample /\ w'.en
         /\ \A k \in 1..(m.counter + 1) : Back(k)'
         /\ cap'.sent = <<>> /\ cap'.delay = m.delay
         /\ m.st = "armed" => cap'.seen = m.counter + 1 /\ cap'.hit = None
         /\ m.st # "armed" => cap'.seen = m.delay
         /\ m.st = "wait_trigger" /\ ~trg => cap'.hit = None
         /\ m.st = "fill_up" \/ (m.st = "wait_trigger" /\ trg) =>
              cap'.hit = (now' - (m.counter + 1 - m.delay)) % (2 * Size)
<1>1. Types /\ Numbered /\ Fills /\ c.armed /\ ~m.full
  BY DEF IInv, Handshakes
<1>2. ~NewCapture /\ Recording /\ ~SampleSent
  BY Working DEF Records
<1>3. Sampled(TRUE) /\ Write(TRUE, TRUE) /\ ReadPipe /\ Observed(TRUE)
  BY <1>2 DEF Clk
<1>4. now \in Sample /\ now' = (now + 1) % (2 * Size) /\ now' \in Sample
  BY <1>1, <1>3, Recorded, DataTypes DEF Types
<1>5. m.counter \in 0..(Size - 1) /\ m.delay \in Addr /\ cap.delay = m.delay /\ cap.sent = <<>>
      /\ m.delay \in Int /\ m.counter \in Int
  BY <1>1, SizeAtLeastTwo DEF Types, MemoryState, Fills, Addr
<1>6. ASSUME NEW k \in 1..(m.counter + 1)
      PROVE  Back(k)'
  <2>1. CASE k = 1
    BY <1>1, <1>3, <2>1, Recorded
  <2>2. CASE k # 1
    <3> DEFINE j == k - 1
    <3>1. j \in 1..m.counter /\ j \in 1..(Size - 1) /\ j + 1 = k
      BY <1>5, <2>2, SizeAtLeastTwo
    <3>2. Back(j)
      BY <1>1, <3>1 DEF Fills
    <3> HIDE DEF j
    <3>3. Back(j + 1)'
      BY <1>1, <1>3, <3>1, <3>2, Recorded
    <3> QED BY <3>1, <3>3
  <2> QED BY <2>1, <2>2
<1>7. /\ cap'.sent = <<>> /\ cap'.delay = m.delay
      /\ m.st = "armed" => cap'.seen = m.counter + 1 /\ cap'.hit = None
      /\ m.st # "armed" => cap'.seen = m.delay
      /\ m.st = "wait_trigger" /\ ~trg => cap'.hit = None
      /\ m.st = "wait_trigger" /\ trg => cap'.hit = now
      /\ m.st = "fill_up" => cap'.hit = cap.hit \/ cap.hit = None
  <2>1. /\ cap'.sent = cap.sent /\ cap'.delay = cap.delay
        /\ cap.hit # None => cap'.hit = cap.hit
        /\ cap'.seen = IF cap.seen < cap.delay THEN cap.seen + 1 ELSE cap.seen
        /\ cap.seen < cap.delay \/ ~trg => cap'.hit = cap.hit
        /\ cap.seen >= cap.delay /\ trg /\ cap.hit = None => cap'.hit = now
    BY <1>1, <1>2, <1>3, CaptureStep DEF Records
  <2>2. CASE m.st = "armed"
    BY <1>1, <1>5, <2>1, <2>2 DEF Fills, Records
  <2>3. CASE m.st = "wait_trigger"
    BY <1>1, <1>5, <2>1, <2>3 DEF Fills, Records
  <2>4. CASE m.st = "fill_up"
    BY <1>1, <1>5, <2>1, <2>4 DEF Fills, Records
  <2> QED BY <1>5, <2>1, <2>2, <2>3, <2>4 DEF Records
<1>8. CASE m.st = "wait_trigger" /\ trg
  <2>1. m.counter + 1 - m.delay = 1
    BY <1>1, <1>5, <1>8 DEF Fills, Records
  <2>2. (now' - 1) % (2 * Size) = now
    BY <1>4, OneBack
  <2> QED BY <1>1, <1>3, <1>4, <1>6, <1>7, <1>8, <2>1, <2>2, Recorded DEF Fills
<1>9. CASE m.st = "fill_up"
  <2> DEFINE k == m.counter - m.delay
  <2>1. k \in 1..Size /\ cap.hit = (now - k) % (2 * Size) /\ m.counter + 1 - m.delay = k + 1
    BY <1>1, <1>5, <1>9, SizeAtLeastTwo DEF Fills, Records, Addr
  <2> HIDE DEF k
  <2>2. (now' - (k + 1)) % (2 * Size) = (now - k) % (2 * Size)
    BY <1>4, <2>1, OneFurther
  <2>3. cap.hit # None
    <3>1. now - k \in (-(2 * Size))..(4 * Size - 1)
      BY <1>4, <2>1, SizeAtLeastTwo DEF Sample
    <3>2. cap.hit \in Sample
      BY <2>1, <3>1, Wrap
    <3> QED BY <3>2, SizeAtLeastTwo, LogicAnalyserAssumption DEF Sample
  <2> QED BY <1>1, <1>3, <1>4, <1>6, <1>7, <1>9, <2>1, <2>2, <2>3, Recorded
<1> QED BY <1>1, <1>3, <1>4, <1>6, <1>7, <1>8, <1>9, Recorded

\* An edge that leaves the ring and the numbers as they are.
LEMMA Still ==
  ASSUME IInv, NEW se \in BOOLEAN, Clk(se), c.armed, m.st # "idle", ~se \/ m.full
  PROVE  /\ now' = now /\ ~w'.en /\ wDly' = w /\ w.addr = now % Size /\ Ring' = Ring
         /\ \A k \in Int : Back(k)' = Back(k)
         /\ cap'.delay = cap.delay
         /\ cap.hit # None \/ ~se => cap'.hit = cap.hit
         /\ ~se => cap'.seen = cap.seen
         /\ ~SampleSent => cap'.sent = cap.sent
<1>1. Types /\ Numbered /\ (m.st \in Records => ~m.full)
  BY DEF IInv, Handshakes
<1>2. ~NewCapture /\ ~(se /\ Recording)
  BY <1>1, Working
<1>3. Sampled(se) /\ Write(se, FALSE) /\ ReadPipe /\ Observed(se)
  BY <1>2 DEF Clk
<1> QED BY <1>1, <1>2, <1>3, NotRecorded, CaptureStep DEF Numbered

LEMMA NextFills ==
  ASSUME IInv, NEW se \in BOOLEAN, Clk(se)
  PROVE  Fills'
<1> SUFFICES ASSUME m'.st \in Records PROVE Fills'
  BY DEF Fills
<1>1. Types /\ Handshakes /\ Fills /\ Memory(se) /\ Size \in Nat /\ Size >= 2
  BY SizeAtLeastTwo DEF IInv, Clk
<1>2. m.st \in Records \/ (m.st = "idle" /\ c.armed)
  <2>1. m.st \in Records \cup Drains \cup {"idle", "wait_ack_finish"}
    BY <1>1 DEF Types, MemoryState
  <2> QED BY <1>1, <2>1, MemoryGoes DEF Records, Drains
<1>3. CASE m.st = "idle" /\ c.armed
  <2>1. ~NewCapture /\ ~SampleSent /\ Observed(se)
    BY <1>3, Working DEF Clk
  <2>2. cap'.sent = cap.sent /\ cap'.delay = cap.delay /\ cap'.hit = cap.hit /\ cap'.seen = cap.seen
    BY <1>1, <1>3, <2>1, CaptureStep
  <2>3. cap.sent = <<>> /\ cap.delay = delay /\ cap.hit = None /\ cap.seen = 0
    BY <1>3 DEF IInv, Fresh
  <2>4. /\ m'.st = IF delay = 0 THEN "wait_trigger" ELSE "armed"
        /\ m'.counter = 0 /\ ~m'.near_max /\ (m'.near_delay <=> delay = 1) /\ m'.delay = delay
    BY <1>1, <1>3, BeginIs
  <2>5. delay \in Nat
    BY <1>1, LogicAnalyserAssumption DEF Types, Addr
  <2>6. \A k \in 1..m'.counter : Back(k)'
    BY <2>4
  <2>7. m'.counter < Size /\ (m'.near_max <=> m'.counter = Size - 1)
    BY <1>1, <2>4
  <2>8. m'.st = "armed" => m'.counter < m'.delay /\ (m'.near_delay <=> m'.counter + 1 = m'.delay)
    BY <2>4, <2>5
  <2> QED BY <2>2, <2>3, <2>4, <2>6, <2>7, <2>8 DEF Fills
<1>4. CASE m.st \in Records /\ (~se \/ (m.st = "wait_trigger" /\ ~trg))
  <2>1. m' = m
    BY <1>1, <1>4, RecordingIs
  <2>2. CASE ~se
    <3>1. c.armed /\ m.st # "idle" /\ ~SampleSent
      BY <1>1, <1>4, Working DEF Handshakes, Records
    <3>2. /\ cap'.sent = cap.sent /\ cap'.delay = cap.delay /\ cap'.hit = cap.hit
          /\ cap'.seen = cap.seen /\ now' = now /\ \A k \in Int : Back(k)' = Back(k)
      BY <2>2, <3>1, Still
    <3>3. \A k \in 1..m'.counter : Back(k)'
      BY <1>1, <1>4, <2>1, <3>2 DEF Fills, Types, MemoryState
    <3> QED BY <1>1, <1>4, <2>1, <3>2, <3>3 DEF Fills
  <2>3. CASE se /\ m.st = "wait_trigger" /\ ~trg
    <3>1. Clk(TRUE)
      BY <2>3
    <3>2. /\ \A k \in 1..(m.counter + 1) : Back(k)'
          /\ cap'.sent = <<>> /\ cap'.delay = m.delay /\ cap'.seen = m.delay /\ cap'.hit = None
      BY <1>4, <2>3, <3>1, Counts
    <3>3. m.counter \in Nat
      BY <1>1 DEF Types, MemoryState
    <3>4. \A k \in 1..m'.counter : Back(k)'
      BY <2>1, <3>2, <3>3
    <3> QED BY <1>1, <1>4, <2>1, <2>3, <3>2, <3>4 DEF Fills
  <2> QED BY <1>4, <2>2, <2>3
<1>5. CASE m.st \in Records /\ se /\ ~(m.st = "wait_trigger" /\ ~trg)
  <2>1. Clk(TRUE)
    BY <1>5
  <2>2. /\ \A k \in 1..(m.counter + 1) : Back(k)'
        /\ cap'.sent = <<>> /\ cap'.delay = m.delay
        /\ m.st = "armed" => cap'.seen = m.counter + 1 /\ cap'.hit = None
        /\ m.st # "armed" => cap'.seen = m.delay /\ cap'.hit = (now' - (m.counter + 1 - m.delay)) % (2 * Size)
    BY <1>5, <2>1, Counts DEF Records
  <2>3. m.counter \in Nat /\ m.delay \in Nat /\ m'.delay = m.delay /\ m'.counter = m.counter + 1
        /\ m.delay < Size /\ m.counter < Size
    <3>1. m.counter \in Nat /\ m.delay \in 0..(Size - 1) /\ m.counter < Size
      BY <1>1, <1>5 DEF Types, MemoryState, Addr, Fills
    <3>2. m'.delay = m.delay /\ m'.counter = m.counter + 1
      BY <1>1, <1>5, RecordingIs DEF Records
    <3> QED BY <1>1, <3>1, <3>2
  <2>4. \A k \in 1..m'.counter : Back(k)'
    BY <2>2, <2>3
  <2>5. CASE m.st = "armed"
    <3>1. /\ m'.st = IF m.near_delay THEN "wait_trigger" ELSE "armed"
          /\ (m'.near_max <=> m.counter = Size - 2)
          /\ (m'.near_delay <=> m.counter + 2 = m.delay)
      BY <1>1, <1>5, <2>5, RecordingIs
    <3>2. m.counter < m.delay /\ (m.near_delay <=> m.counter + 1 = m.delay)
      BY <1>1, <2>5 DEF Fills, Records
    <3>3. m'.counter < Size /\ (m'.near_max <=> m'.counter = Size - 1)
      BY <1>1, <2>3, <3>1, <3>2
    <3>4. m'.st = "armed" => m'.counter < m'.delay /\ (m'.near_delay <=> m'.counter + 1 = m'.delay)
      BY <2>3, <3>1, <3>2
    <3>5. m'.st # "armed" => m'.st = "wait_trigger" /\ m'.counter = m'.delay
      BY <2>3, <3>1, <3>2
    <3> QED BY <2>2, <2>3, <2>4, <2>5, <3>3, <3>4, <3>5 DEF Fills
  <2>6. CASE m.st # "armed"
    <3>1. (m.st = "wait_trigger" /\ trg) \/ m.st = "fill_up"
      BY <1>5, <2>6 DEF Records
    <3>2. ~m.near_max /\ m'.st = "fill_up" /\ (m'.near_max <=> m.counter = Size - 2)
      BY <1>1, <1>5, <3>1, RecordingIs DEF Records, Types, MemoryState
    <3>3. m.counter < Size /\ m.counter # Size - 1 /\ m.counter >= m.delay
      BY <1>1, <1>5, <2>3, <3>1, <3>2 DEF Fills
    <3>4. m'.counter < Size /\ (m'.near_max <=> m'.counter = Size - 1) /\ m'.counter > m'.delay
      BY <1>1, <2>3, <3>2, <3>3
    <3> QED BY <2>2, <2>3, <2>4, <2>6, <3>2, <3>4 DEF Fills
  <2> QED BY <2>5, <2>6
<1> QED BY <1>2, <1>3, <1>4, <1>5

\* The memory becomes full.
LEMMA FilledUp ==
  ASSUME IInv, NEW se \in BOOLEAN, Clk(se), m.st \in Records, m'.st \in Drains
  PROVE  Whole' /\ Arriving' /\ Reading' /\ First'
<1>1. Types /\ Handshakes /\ Fills /\ Memory(se) /\ Size \in Nat /\ Size >= 2
  BY SizeAtLeastTwo DEF IInv, Clk
<1>2. m.st # "armed" /\ se /\ (m.st = "wait_trigger" => trg) /\ m.near_max
  BY <1>1, RecordingIs DEF Records, Drains, Types, MemoryState
<1>3. m.counter + 1 = Size /\ m.counter \in Nat
  BY <1>1, <1>2 DEF Fills, Types, MemoryState
<1>4. m'.st = "drain" /\ m'.counter = Size /\ m'.raddr = (w.addr + 2) % Size /\ m'.ready = 0
  BY <1>1, <1>2, <1>3, RecordingIs, MemoryGoes DEF Records
<1>5. Clk(TRUE)
  BY <1>2
<1>6. /\ \A k \in 1..Size : Back(k)'
      /\ cap'.sent = <<>> /\ cap'.delay = m.delay /\ now' \in Sample
      /\ cap'.hit = (now' - (Size - m.delay)) % (2 * Size)
  <2>1. m.st = "fill_up" \/ (m.st = "wait_trigger" /\ trg)
    BY <1>2 DEF Records
  <2>2. /\ \A k \in 1..(m.counter + 1) : Back(k)'
        /\ cap'.sent = <<>> /\ cap'.delay = m.delay /\ now' \in Sample
        /\ cap'.hit = (now' - (m.counter + 1 - m.delay)) % (2 * Size)
    BY <1>5, <2>1, Counts
  <2>3. 1..(m.counter + 1) = 1..Size
    BY <1>3
  <2>4. m.counter + 1 - m.delay = Size - m.delay
    <3>1. m.delay \in Int
      BY <1>1 DEF Types, MemoryState, Addr
    <3> QED BY <1>3, <3>1
  <2> QED BY <2>2, <2>3, <2>4
<1>7. Whole'
  BY <1>6 DEF Whole
<1>8. Arriving'
  BY <1>4 DEF Arriving
<1>9. m'.raddr = (now' - m'.counter + 1) % Size
  <2>1. now \in Sample /\ now' = (now + 1) % (2 * Size) /\ w.addr = now % Size
    <3>1. Sampled(TRUE) /\ c.armed /\ ~m.full
      BY <1>1, <1>5 DEF Clk, Handshakes
    <3> QED BY <1>1, <3>1 DEF Sampled, Counted, Types, IInv, Numbered
  <2> DEFINE a == w.addr
             p == now'
             q == p - Size + 1
  <2>2. a \in 0..(Size - 1) /\ p \in 0..(2 * Size - 1) /\ p % Size = (a + 1) % Size
    <3>1. p \in Sample /\ p % Size = (a + 1) % Size /\ a \in Addr
      BY <1>1, <2>1, NextNumber DEF Types, WriteState
    <3> QED BY <3>1 DEF Sample, Addr
  <2> HIDE DEF a, p
  <2>3. q \in (-Size)..(2 * Size - 1) /\ a + 1 \in (-Size)..(2 * Size - 1)
        /\ a + 2 \in (-Size)..(2 * Size - 1) /\ p \in (-Size)..(2 * Size - 1)
    BY <1>1, <2>2
  <2>4. p % Size = IF p < Size THEN p ELSE p - Size
    BY <2>2, <2>3, Slot
  <2> DEFINE a1 == a + 1
             a2 == a + 2
  <2>9. a1 \in (-Size)..(2 * Size - 1) /\ a2 \in (-Size)..(2 * Size - 1) /\ a1 >= 0 /\ a2 >= 0
    BY <2>2, <2>3
  <2> HIDE DEF a1, a2
  <2>5. a1 % Size = IF a1 < Size THEN a1 ELSE a1 - Size
    BY <2>9, Slot
  <2>6. a2 % Size = IF a2 < Size THEN a2 ELSE a2 - Size
    BY <2>9, Slot
  <2>7. q % Size = IF q < 0 THEN q + Size ELSE IF q < Size THEN q ELSE q - Size
    <3> HIDE DEF q
    <3> QED BY <2>3, Slot
  <2>8. q % Size = (a + 2) % Size
    <3>1. p % Size = a1 % Size
      BY <2>2 DEF a1
    <3>2. q % Size = a2 % Size
      BY <1>1, <2>2, <2>4, <2>5, <2>6, <2>7, <3>1 DEF a1, a2
    <3> QED BY <3>2 DEF a2
  <2> QED BY <1>4, <2>8 DEF a, p
<1>10. Reading'
  BY <1>1, <1>4, <1>9 DEF Reading
<1>11. First'
  BY <1>4, <1>6 DEF First
<1> QED BY <1>7, <1>8, <1>10, <1>11

\* A sample of the memory goes through the RAM to the output.
LEMMA Emptied ==
  ASSUME IInv, NEW se \in BOOLEAN, Clk(se), m.st \in Drains, m'.st \in Drains
  PROVE  Whole' /\ Arriving' /\ Reading' /\ First'
<1>1. Types /\ Handshakes /\ Memory(se) /\ Whole /\ Arriving /\ Reading /\ First
      /\ m.full /\ c.armed /\ m.st # "idle" /\ Size \in Nat /\ Size >= 2
  BY SizeAtLeastTwo DEF IInv, Clk, Empties, Handshakes, Drains
<1>2. now \in Sample /\ cap.delay \in Addr /\ m.counter \in 0..Size /\ m.ready \in 0..3
      /\ c.request \in BOOLEAN /\ m.raddr \in Addr
  BY <1>1 DEF Types, CaptureState, MemoryState, ControllerState
<1>3. cap.hit # None
  <2>1. now - (Size - cap.delay) \in (-(2 * Size))..(4 * Size - 1)
    BY <1>1, <1>2 DEF Sample, Addr
  <2>2. cap.hit \in Sample
    BY <1>1, <2>1, Wrap DEF Whole
  <2> QED BY <1>1, <2>2, LogicAnalyserAssumption DEF Sample
<1>4. /\ now' = now /\ ~w'.en /\ wDly' = w /\ w.addr = now % Size /\ Ring' = Ring
      /\ \A k \in Int : Back(k)' = Back(k)
      /\ cap'.delay = cap.delay /\ cap'.hit = cap.hit
      /\ ~SampleSent => cap'.sent = cap.sent
  BY <1>1, <1>3, Still
<1>5. Whole'
  <2>1. \A k \in 1..Size : Back(k)'
    BY <1>1, <1>4 DEF Whole
  <2> QED BY <1>1, <1>4, <2>1 DEF Whole
<1>6. Arriving'
  <2>1. wDly'.en => m.st = "drain" /\ m.counter = Size /\ m.ready = 0 /\ wDly'.addr = now' % Size
    BY <1>1, <1>4 DEF Arriving
  <2>2. m.st = "drain" /\ m.ready = 0 => m'.st = "drain" /\ m'.counter = m.counter /\ m'.ready < 2
    BY <1>1, <1>2, DrainingIs DEF Drains
  <2> QED BY <1>4, <2>1, <2>2 DEF Arriving
<1>7. rPipe' = [addr |-> m.raddr, next |-> ram[rPipe.addr], data |-> rPipe.next]
  BY <1>1 DEF Clk, ReadPipe
<1>8. m.st = "drain" /\ m.ready > 0 => ram'[m.raddr] = ram[m.raddr]
  <2> SUFFICES ASSUME m.st = "drain", m.ready > 0 PROVE ram'[m.raddr] = ram[m.raddr]
    OBVIOUS
  <2>1. wDly.en => wDly.addr # m.raddr
    <3> SUFFICES ASSUME wDly.en PROVE wDly.addr # m.raddr
      OBVIOUS
    <3>1. m.counter = Size /\ m.ready = 1 /\ wDly.addr = now % Size
      BY <1>1, <1>2 DEF Arriving
    <3>2. m.raddr = (now - Size + 1) % Size
      BY <1>1, <3>1 DEF Reading
    <3>3. 1 \in 1..Size
      BY <1>1
    <3> QED BY <1>2, <3>1, <3>2, <3>3, PlaceNext
  <2>2. ~NewCapture
    BY <1>1, Working
  <2>3. ram' = IF wDly.en THEN [ram EXCEPT ![wDly.addr] = wDly.data] ELSE ram
    BY <2>2 DEF Clk, Write
  <2>4. ram \in [Addr -> Data] /\ m.raddr \in Addr
    BY <1>1, <1>2 DEF Types
  <2> QED BY <2>1, <2>3, <2>4
<1>9. ASSUME m.st = "drain", m'.st = "drain"
      PROVE  Reading'
  <2>1. /\ m'.raddr = m.raddr /\ m'.counter = m.counter
        /\ m'.ready \in {m.ready, m.ready + 1}
    BY <1>1, <1>2, <1>9, DrainingIs DEF Drains
  <2>2. m.counter > 0 /\ m.raddr = (now - m.counter + 1) % Size
    BY <1>1, <1>9 DEF Reading
  <2>3. m'.ready > 1 => rPipe'.next = ram'[m'.raddr]
    <3> SUFFICES ASSUME m'.ready > 1 PROVE rPipe'.next = ram'[m'.raddr]
      OBVIOUS
    <3>1. m.ready > 0
      BY <1>2, <2>1
    <3>2. rPipe.addr = m.raddr
      BY <1>1, <1>9, <3>1 DEF Reading
    <3> QED BY <1>7, <1>8, <1>9, <2>1, <3>1, <3>2
  <2>4. m'.ready > 2 => rPipe'.data = ram'[m'.raddr]
    <3> SUFFICES ASSUME m'.ready > 2 PROVE rPipe'.data = ram'[m'.raddr]
      OBVIOUS
    <3>1. m.ready > 0 /\ m.ready > 1
      BY <1>2, <2>1
    <3>2. rPipe.next = ram[m.raddr]
      BY <1>1, <1>9, <3>1 DEF Reading
    <3> QED BY <1>7, <1>8, <1>9, <2>1, <3>1, <3>2
  <2>5. rPipe'.addr = m'.raddr
    BY <1>7, <2>1
  <2>6. m'.counter > 0 /\ m'.raddr = (now' - m'.counter + 1) % Size
    BY <1>4, <2>1, <2>2
  <2> QED BY <1>9, <2>3, <2>4, <2>5, <2>6 DEF Reading
<1>10. ASSUME m.st = "drain", m'.st = "drain_handshake"
       PROVE  Reading'
  <2>1. /\ m.ready = 3 /\ m'.data = rPipe.data /\ m'.counter = m.counter - 1 /\ m'.raddr = m.raddr
        /\ c.request
    BY <1>1, <1>2, <1>10, DrainingIs DEF Drains
  <2>2. m.counter > 0 /\ m.raddr = (now - m.counter + 1) % Size /\ rPipe.data = ram[m.raddr]
    BY <1>1, <1>10, <2>1 DEF Reading
  <2>3. ~w.en /\ ~wDly.en
    BY <1>1, <2>1 DEF Arriving
  <2>4. Ring[m.raddr] = ram[m.raddr]
    BY <1>2, <2>3 DEF Ring
  <2>5. Back(m.counter)
    BY <1>1, <1>2, <2>2 DEF Whole
  <2>6. m'.data = (now - m.counter) % (2 * Size)
    BY <2>1, <2>2, <2>4, <2>5 DEF Back
  <2>7. now - m.counter = now - m'.counter - 1 /\ now - m.counter + 1 = now - m'.counter /\ m'.counter < Size
    BY <1>1, <1>2, <2>1 DEF Sample
  <2> QED BY <1>4, <1>10, <2>1, <2>2, <2>6, <2>7 DEF Reading
<1>11. ASSUME m.st = "drain_handshake"
       PROVE  Reading'
  <2>1. /\ m.counter < Size /\ m.raddr = (now - m.counter) % Size
        /\ m.data = (now - m.counter - 1) % (2 * Size)
    BY <1>1, <1>11 DEF Reading
  <2>2. m'.counter = m.counter
    BY <1>1, <1>11, DrainingIs
  <2>3. CASE c.request
    <3>1. m'.st = "drain_handshake" /\ m'.raddr = m.raddr /\ m'.data = m.data
      BY <1>1, <1>11, <2>3, DrainingIs
    <3> QED BY <1>4, <2>1, <2>2, <3>1 DEF Reading
  <2>4. CASE ~c.request
    <3>1. m'.st = "drain" /\ m.counter # 0 /\ m'.raddr = (m.raddr + 1) % Size /\ m'.ready = 0
      BY <1>1, <1>11, <2>4, DrainingIs DEF Drains
    <3>2. m.counter \in 1..Size
      BY <1>1, <1>2, <3>1
    <3>3. m'.raddr = (now - m.counter + 1) % Size
      BY <1>2, <2>1, <3>1, <3>2, PlaceNext
    <3> QED BY <1>4, <2>2, <3>1, <3>2, <3>3 DEF Reading
  <2> QED BY <1>2, <2>3, <2>4
<1>12. Reading'
  BY <1>9, <1>10, <1>11 DEF Drains
<1>13. First'
  <2> SUFFICES ASSUME c'.out = "init" PROVE First'
    BY DEF First
  <2>1. c.out = "init" /\ (c.request => c'.request) /\ ~SampleSent
    <3>1. CASE c.st # "data_output"
      BY <1>1, <3>1, CommandGoes DEF Handshakes, SampleSent, Clk
    <3>2. CASE c.st = "data_output"
      <4>1. ~c.theend
        BY <1>1, <3>2 DEF Handshakes
      <4>2. c.out \in {"init", "Zwischenspeicher", "shift", "get_next_data"}
        BY <1>1 DEF Types, ControllerState
      <4> QED BY <3>2, <4>1, <4>2, OutputGoes, OutputIs DEF SampleSent, Clk
    <3> QED BY <3>1, <3>2
  <2>2. cap'.sent = <<>>
    BY <1>1, <1>4, <2>1 DEF First
  <2>3. ASSUME m.st = "drain"
        PROVE  /\ m'.st = "drain" => m'.counter = Size
               /\ m'.st = "drain_handshake" => m'.counter = Size - 1 /\ c'.request
    <3>1. m.counter = Size
      BY <1>1, <2>1, <2>3 DEF First
    <3> QED BY <1>1, <1>2, <2>1, <2>3, <3>1, DrainingIs
  <2>4. ASSUME m.st = "drain_handshake"
        PROVE  m'.st = "drain_handshake" /\ m'.counter = Size - 1 /\ c'.request
    <3>1. m.counter = Size - 1 /\ c.request
      BY <1>1, <2>1, <2>4 DEF First
    <3> QED BY <1>1, <2>1, <2>4, <3>1, DrainingIs
  <2> QED BY <2>2, <2>3, <2>4 DEF First, Drains
<1> QED BY <1>5, <1>6, <1>12, <1>13

LEMMA NextEmpties ==
  ASSUME IInv, NEW se \in BOOLEAN, Clk(se)
  PROVE  Empties'
<1> SUFFICES ASSUME m'.st \in Drains PROVE Empties'
  BY DEF Empties
<1>1. m.st \in Records \cup Drains \cup {"idle", "wait_ack_finish"} /\ Memory(se)
  BY DEF IInv, Types, MemoryState, Clk
<1>2. m.st \in Records \cup Drains
  BY <1>1, MemoryGoes DEF Records, Drains
<1> QED BY <1>2, FilledUp, Emptied DEF Empties

\* Which sample comes next, from the memory and for the host.
LEMMA DueFromMemory ==
  ASSUME IInv, m.st = "drain_handshake", NEW i \in Nat, i = Size - m.counter - 1
  PROVE  m.data = Due(i) /\ i \in 0..(Size - 1)
<1>1. Types /\ Whole /\ Reading /\ Size \in Nat /\ Size >= 2
  BY SizeAtLeastTwo DEF IInv, Empties, Drains
<1>2. now \in Sample /\ cap.delay \in Addr /\ m.counter \in 0..(Size - 1)
  BY <1>1 DEF Types, CaptureState, MemoryState, Reading
<1>3. i \in 0..(Size - 1) /\ now - (Size - i) = now - m.counter - 1
  BY <1>1, <1>2 DEF Sample
<1>4. cap.hit = (now - (Size - cap.delay)) % (2 * Size)
  BY <1>1 DEF Whole
<1>5. Due(i) = (now - (Size - i)) % (2 * Size)
  BY <1>2, <1>3, <1>4, DueIs DEF Due
<1>6. m.data = (now - m.counter - 1) % (2 * Size)
  BY <1>1 DEF Reading
<1> QED BY <1>3, <1>5, <1>6

\* In the output, the number of samples handed over changes with a new one only.
LEMMA DrainedStep ==
  ASSUME IInv, NEW se \in BOOLEAN, Clk(se), c.st = "data_output"
  PROVE  /\ Drained \in 0..Size /\ m'.st \notin Records
         /\ m.st \notin Drains => m'.st \notin Drains /\ Drained' = Drained
         /\ m.st = "drain_handshake" => Drained' = Drained /\ (c.request <=> m'.st = "drain_handshake")
         /\ m.st = "drain" =>
              \/ m'.st = "drain" /\ Drained' = Drained
              \/ m'.st = "drain_handshake" /\ c.request /\ Drained' = Drained + 1
<1>1. Types /\ Handshakes /\ Memory(se) /\ Size \in Nat /\ Size >= 2
  BY SizeAtLeastTwo DEF IInv, Clk
<1>2. m.counter \in 0..Size /\ m.ready \in 0..3 /\ m.st \in Records \cup Drains \cup {"idle", "wait_ack_finish"}
      /\ c.request \in BOOLEAN
  BY <1>1 DEF Types, MemoryState, ControllerState
<1>3. Drained \in 0..Size
  BY <1>1, <1>2 DEF Drained
<1>4. CASE m.st \notin Drains
  <2>1. m.st = "wait_ack_finish" \/ (m.st = "idle" /\ ~c.armed)
    BY <1>1, <1>2, <1>4 DEF Handshakes
  <2>2. m'.st \in {"wait_ack_finish", "idle"}
    BY <1>1, <2>1, MemoryGoes
  <2> QED BY <1>3, <1>4, <2>2 DEF Drained, Drains, Records
<1>5. CASE m.st = "drain_handshake"
  <2>1. m'.counter = m.counter
        /\ (c.request => m'.st = m.st)
        /\ (~c.request => m'.st = IF m.counter = 0 THEN "wait_ack_finish" ELSE "drain")
    BY <1>1, <1>5, DrainingIs DEF Drains
  <2> QED BY <1>1, <1>2, <1>3, <1>5, <2>1 DEF Drained, Drains, Records
<1>6. CASE m.st = "drain"
  <2>1. CASE c.request /\ m.ready = 3
    <3>1. m'.st = "drain_handshake" /\ m'.counter = m.counter - 1
      BY <1>1, <1>6, <2>1, DrainingIs DEF Drains
    <3>2. Drained' = Size - (m.counter - 1) /\ Drained = Size - m.counter
      BY <1>6, <3>1 DEF Drained, Drains
    <3> QED BY <1>1, <1>2, <1>3, <1>6, <2>1, <3>1, <3>2 DEF Drains, Records
  <2>2. CASE ~(c.request /\ m.ready = 3)
    <3>1. m'.st = "drain" /\ m'.counter = m.counter
      BY <1>1, <1>2, <1>6, <2>2, DrainingIs DEF Drains
    <3> QED BY <1>3, <1>6, <3>1 DEF Drained, Drains, Records
  <2> QED BY <2>1, <2>2
<1> QED BY <1>2, <1>3, <1>4, <1>5, <1>6 DEF Drains

\* A capture that is sent is not changed but for the next sample.
LEMMA Kept ==
  ASSUME IInv, NEW se \in BOOLEAN, Clk(se), c.st = "data_output"
  PROVE  /\ cap'.hit = cap.hit /\ cap'.delay = cap.delay /\ cap.hit \in Sample
         /\ SampleSent => cap'.sent = Append(cap.sent, c.temp)
         /\ ~SampleSent => cap'.sent = cap.sent
         /\ \A i \in Int : Due(i)' = Due(i)
<1>1. Types /\ Sends /\ Observed(se)
  BY DEF IInv, Clk
<1>2. ~NewCapture
  BY <1>1, OutputGoes, OutputIs DEF Clk, NewCapture
<1>3. cap.hit # None /\ cap.hit \in Sample
  BY <1>1 DEF Sends, Types, CaptureState, Data
<1>4. cap'.hit = cap.hit /\ cap'.delay = cap.delay
  BY <1>1, <1>2, <1>3, CaptureStep
<1> QED BY <1>1, <1>2, <1>3, <1>4, CaptureStep DEF Due

LEMMA NextSends ==
  ASSUME IInv, NEW se \in BOOLEAN, Clk(se)
  PROVE  Sends'
<1> SUFFICES ASSUME c'.st = "data_output" PROVE Sends'
  BY DEF Sends
<1>1. Types /\ Handshakes /\ Sends /\ Memory(se) /\ Controller /\ Size \in Nat /\ Size >= 2
  BY SizeAtLeastTwo DEF IInv, Clk
<1>2. m.counter \in 0..Size /\ m.st \in Records \cup Drains \cup {"idle", "wait_ack_finish"}
      /\ c.request \in BOOLEAN /\ cap.sent \in Seq(Data) /\ Len(cap.sent) \in Nat /\ c.temp \in Data
  BY <1>1 DEF Types, MemoryState, ControllerState, CaptureState
<1>3. CASE c.st # "data_output"
  <2>1. c.st = "init" /\ m.full /\ c'.request /\ c'.out = "init"
    BY <1>1, <1>3, CommandGoes
  <2>2. m.st \in Drains /\ c.armed /\ m.st # "idle"
    BY <1>1, <1>2, <1>3, <2>1 DEF Handshakes, Drains
  <2>3. c.out = "init" /\ (m.st = "drain_handshake" => c.request)
    BY <1>1, <1>3, <2>2 DEF Handshakes, IInv, Empties, First
  <2>4. m'.st \in Drains
    BY <1>1, <2>2, <2>3, MemoryGoes DEF Drains
  <2>5. Whole'
    BY <2>2, <2>4, Emptied
  <2>6. cap'.hit # None
    <3>1. now' \in Sample /\ cap'.delay \in Addr
      <4>1. now' = now /\ cap'.delay = cap.delay
        BY <2>1, <2>2, Still
      <4> QED BY <1>1, <4>1 DEF Types, CaptureState
    <3> DEFINE a == now' - (Size - cap'.delay)
    <3>2. a \in (-(2 * Size))..(4 * Size - 1) /\ cap'.hit = a % (2 * Size)
      BY <1>1, <2>5, <3>1 DEF Whole, Sample, Addr
    <3> HIDE DEF a
    <3>3. cap'.hit \in Sample
      BY <3>2, Wrap
    <3> QED BY <1>1, <3>3, LogicAnalyserAssumption DEF Sample
  <2> QED BY <2>1, <2>4, <2>6 DEF Sends
<1>4. CASE c.st = "data_output"
  <2>1. ~c.theend
    BY <1>4, OutputGoes, OutputIs, <1>1
  <2>2. cap.hit # None /\ cap'.hit = cap.hit
    BY <1>1, <1>4, Kept DEF Sends
  <2>3. (m.valid <=> m.st = "drain_handshake") /\ m.valid \in BOOLEAN
    BY <1>1 DEF Handshakes, Types, MemoryState
  <2>4. c.out \in {"init", "Zwischenspeicher", "shift", "get_next_data"}
    BY <1>1 DEF Types, ControllerState
  <2>5. CASE c.out = "init"
    <3>1. ~SampleSent /\ c.request /\ c'.request /\ m.st \in Drains
      BY <1>1, <1>4, <2>5, OutputGoes, OutputIs DEF Sends, SampleSent
    <3>2. cap'.sent = <<>> /\ cap.sent = <<>>
      BY <1>1, <1>4, <2>5, <3>1, Kept DEF IInv, Empties, First
    <3>3. CASE m.valid
      <4>1. c'.out = "Zwischenspeicher" /\ c'.temp = m.data
        BY <1>1, <1>4, <2>5, <3>3, OutputGoes, OutputIs
      <4>2. m.counter = Size - 1
        BY <1>1, <2>3, <2>5, <3>1, <3>3 DEF IInv, Empties, First
      <4>3. m.data = Due(0)
        BY <1>1, <2>3, <3>3, <4>2, DueFromMemory
      <4>4. m'.st = "drain_handshake" /\ Drained' = Drained
        BY <1>4, <2>3, <3>1, <3>3, DrainedStep
      <4>5. Drained = 1
        BY <1>1, <2>3, <3>3, <4>2 DEF Drained, Drains
      <4>6. Due(0)' = Due(0)
        BY <1>4, Kept
      <4>7. Len(cap'.sent) = 0
        BY <3>2
      <4> QED BY <2>2, <4>1, <4>3, <4>4, <4>5, <4>6, <4>7 DEF Sends, Due
    <3>4. CASE ~m.valid
      <4>1. c'.out = "init"
        BY <1>1, <1>4, <2>1, <2>5, <3>4, OutputGoes, OutputIs
      <4>2. m'.st \in Drains
        BY <1>4, <2>3, <3>1, <3>4, DrainedStep DEF Drains
      <4> QED BY <2>2, <3>1, <4>1, <4>2 DEF Sends
    <3> QED BY <3>3, <3>4
  <2>6. CASE c.out = "Zwischenspeicher"
    <3>1. c.temp = Due(Len(cap.sent)) /\ Len(cap.sent) + 1 = Drained /\ (c.request => m.st = "drain_handshake")
      BY <1>1, <1>4, <2>6 DEF Sends
    <3>2. ~c'.request /\ c'.temp = c.temp /\ c'.out \in {c.out, "shift"}
      BY <1>1, <1>4, <2>6, OutputGoes, OutputIs
    <3>3. Drained' = Drained
      BY <1>2, <1>4, <3>1, DrainedStep DEF Drains
    <3>4. CASE c'.out = c.out
      <4>1. cap'.sent = cap.sent
        BY <1>4, <2>6, <3>4, Kept DEF SampleSent
      <4>3. cap'.delay = cap.delay
        BY <1>4, Kept
      <4> QED BY <2>2, <2>6, <3>1, <3>2, <3>3, <3>4, <4>1, <4>3 DEF Sends, Due
    <3>5. CASE c'.out = "shift"
      <4>1. cap'.sent = Append(cap.sent, c.temp)
        BY <1>4, <2>6, <3>5, Kept DEF SampleSent
      <4>2. Len(cap'.sent) = Len(cap.sent) + 1
        BY <1>2, <4>1
      <4> QED BY <2>2, <3>1, <3>2, <3>3, <3>5, <4>2 DEF Sends
    <3> QED BY <3>2, <3>4, <3>5
  <2>7. CASE c.out = "shift"
    <3>1. Len(cap.sent) = Drained /\ ~c.request /\ cap'.sent = cap.sent
      BY <1>1, <1>4, <2>7, Kept DEF Sends, SampleSent
    <3>2. Drained' = Drained /\ m'.st # "drain_handshake"
      BY <1>2, <1>4, <3>1, DrainedStep DEF Drains
    <3>3. CASE m.valid
      <4>1. c'.out = "shift" /\ ~c'.request
        BY <1>1, <1>4, <2>1, <2>7, <3>1, <3>3, OutputGoes, OutputIs
      <4> QED BY <2>2, <3>1, <3>2, <4>1 DEF Sends
    <3>4. CASE ~m.valid
      <4>1. c'.out = "get_next_data" /\ c'.request
        BY <1>1, <1>4, <2>7, <3>4, OutputGoes, OutputIs
      <4> QED BY <1>2, <2>2, <3>1, <3>2, <4>1 DEF Sends
    <3> QED BY <2>3, <3>3, <3>4
  <2>8. CASE c.out = "get_next_data"
    <3>1. /\ Len(cap.sent) + (IF m.st = "drain_handshake" THEN 1 ELSE 0) = Drained
          /\ c.request /\ c'.request /\ cap'.sent = cap.sent
      BY <1>1, <1>4, <2>8, Kept, OutputGoes, OutputIs DEF Sends, SampleSent
    <3>2. CASE m.valid
      <4>1. c'.out = "Zwischenspeicher" /\ c'.temp = m.data
        BY <1>1, <1>4, <2>8, <3>2, OutputGoes, OutputIs
      <4>2. Len(cap.sent) + 1 = Drained /\ Drained = Size - m.counter
        BY <2>3, <3>1, <3>2 DEF Drained, Drains
      <4>3. Len(cap.sent) = Size - m.counter - 1
        BY <1>1, <1>2, <4>2
      <4>4. m.data = Due(Len(cap.sent))
        BY <1>2, <2>3, <3>2, <4>3, DueFromMemory
      <4>5. m'.st = "drain_handshake" /\ Drained' = Drained
        BY <1>4, <2>3, <3>1, <3>2, DrainedStep
      <4>6. cap'.delay = cap.delay
        BY <1>4, Kept
      <4> QED BY <2>2, <3>1, <4>1, <4>2, <4>4, <4>5, <4>6 DEF Sends, Due
    <3>3. CASE ~m.valid
      <4>1. c'.out = "get_next_data"
        BY <1>1, <1>4, <2>1, <2>8, <3>3, OutputGoes, OutputIs
      <4>2. Len(cap.sent) = Drained
        <5>1. Drained \in Int
          BY <1>4, DrainedStep
        <5>2. Len(cap.sent) + 0 = Drained
          BY <2>3, <3>1, <3>3
        <5> QED BY <1>2, <5>1, <5>2
      <4>3. \/ m'.st # "drain_handshake" /\ Drained' = Drained
            \/ m'.st = "drain_handshake" /\ Drained' = Drained + 1
        BY <1>2, <1>4, <2>3, <3>3, DrainedStep DEF Drains
      <4> QED BY <1>2, <2>2, <3>1, <4>1, <4>2, <4>3 DEF Sends
    <3> QED BY <2>3, <3>2, <3>3
  <2> QED BY <2>4, <2>5, <2>6, <2>7, <2>8
<1> QED BY <1>3, <1>4

LEMMA NextCaptureIsRight ==
  ASSUME IInv, NEW se \in BOOLEAN, Clk(se)
  PROVE  CaptureIsRight'
<1>1. Types /\ Sends /\ CaptureIsRight /\ Observed(se) /\ Size \in Nat /\ Size >= 2
  BY SizeAtLeastTwo DEF IInv, Clk
<1>2. cap.sent \in Seq(Data) /\ Len(cap.sent) \in Nat /\ c.temp \in Data
  BY <1>1 DEF Types, CaptureState, ControllerState
<1>3. CASE NewCapture
  <2>1. cap'.sent = <<>>
    BY <1>1, <1>3 DEF Observed, NoCapture
  <2> QED BY <1>1, <2>1 DEF CaptureIsRight
<1>4. CASE ~NewCapture /\ ~SampleSent
  <2>1. cap'.sent = cap.sent /\ cap'.delay = cap.delay
        /\ (cap.hit # None => cap'.hit = cap.hit)
    BY <1>1, <1>4, CaptureStep
  <2>2. CASE cap.sent = <<>>
    BY <1>1, <2>1, <2>2 DEF CaptureIsRight
  <2>3. CASE cap.sent # <<>>
    <3>1. cap'.hit = cap.hit /\ cap.hit # None
      BY <1>1, <2>1, <2>3 DEF CaptureIsRight
    <3> QED BY <1>1, <2>1, <3>1 DEF CaptureIsRight
  <2> QED BY <2>2, <2>3
<1>5. CASE ~NewCapture /\ SampleSent
  <2>1. c.st = "data_output" /\ c.out = "Zwischenspeicher"
    BY <1>5 DEF SampleSent
  <2>2. /\ cap'.hit = cap.hit /\ cap'.delay = cap.delay /\ cap.hit # None
        /\ cap'.sent = Append(cap.sent, c.temp)
        /\ c.temp = Due(Len(cap.sent)) /\ Len(cap.sent) + 1 = Drained /\ Drained \in 0..Size
    BY <1>1, <1>5, <2>1, Kept, DrainedStep DEF Sends
  <2>3. Len(cap'.sent) = Len(cap.sent) + 1 /\ DOMAIN cap'.sent = 1..(Len(cap.sent) + 1)
        /\ DOMAIN cap.sent = 1..Len(cap.sent)
    BY <1>2, <2>2
  <2>4. ASSUME NEW i \in DOMAIN cap'.sent
        PROVE  cap'.sent[i] = (cap'.hit - cap'.delay + i - 1) % (2 * Size)
    <3>0. i \in Int /\ cap.hit \in Int /\ cap.delay \in Int
      <4>1. cap.hit \in Sample /\ cap.delay \in Addr
        BY <1>1, <2>1, Kept DEF Types, CaptureState
      <4> QED BY <1>1, <2>3, <2>4, <4>1 DEF Sample, Addr
    <3>1. CASE i \in 1..Len(cap.sent)
      <4>1. cap'.sent[i] = cap.sent[i]
        BY <1>2, <2>2, <3>1
      <4> QED BY <1>1, <2>2, <2>3, <3>1, <4>1 DEF CaptureIsRight
    <3>2. CASE i = Len(cap.sent) + 1
      <4>1. cap'.sent[i] = c.temp
        BY <1>2, <2>2, <3>2
      <4>2. cap.hit - cap.delay + Len(cap.sent) = cap.hit - cap.delay + i - 1
        BY <1>2, <3>0, <3>2
      <4> QED BY <2>2, <4>1, <4>2 DEF Due
    <3> QED BY <1>2, <2>3, <2>4, <3>1, <3>2
  <2>5. Len(cap'.sent) <= Size
    BY <1>1, <2>2, <2>3
  <2> QED BY <2>2, <2>4, <2>5 DEF CaptureIsRight
<1> QED BY <1>3, <1>4, <1>5

LEMMA NextTypes ==
  ASSUME IInv, NEW se \in BOOLEAN, Clk(se)
  PROVE  Types' /\ Numbered'
<1>1. Types /\ Numbered /\ Memory(se) /\ Controller /\ Observed(se)
  BY DEF IInv, Clk
<1>2. /\ now' \in Sample /\ trg' \in BOOLEAN
      /\ w' \in WriteState /\ wDly' \in WriteState
      /\ ram' \in [Addr -> Data]
      /\ rPipe' \in [addr : Addr, next : Data, data : Data]
      /\ Numbered'
  <2>1. (se /\ Recording) \in BOOLEAN
    BY DEF Recording
  <2> QED BY <1>1, <2>1, DataTypes DEF Clk
<1>3. m' \in MemoryState /\ c' \in ControllerState /\ delay' \in Delays
  BY <1>1, MemoryTypes, ControllerTypes
<1>4. cap' \in CaptureState
  <2>1. CASE NewCapture
    <3>1. cap' = [delay |-> delay, seen |-> 0, hit |-> None, sent |-> <<>>]
      BY <1>1, <2>1 DEF Observed, NoCapture
    <3>2. delay \in Addr /\ None \in Data /\ <<>> \in Seq(Data)
      BY <1>1, LogicAnalyserAssumption DEF Types, Data
    <3> QED BY <3>1, <3>2 DEF CaptureState
  <2>2. CASE ~NewCapture
    BY <1>1, <2>2, CaptureStep
  <2> QED BY <2>1, <2>2
<1> QED BY <1>2, <1>3, <1>4 DEF Types

\* What holds after a reset, and at the beginning.
LEMMA Quiet ==
  ASSUME Types, Numbered, c = ControllerReset, m = MemoryReset, cap = NoCapture
  PROVE  IInv
<1>1. m.st = "idle" /\ ~m.full /\ ~m.valid /\ m.ready = 0 /\ c.st = "init" /\ c.out = "init" /\ ~c.armed
      /\ cap.sent = <<>>
  BY DEF ControllerReset, MemoryReset, NoCapture
<1>2. Handshakes /\ Fresh /\ Fills /\ Empties /\ Sends
  BY <1>1 DEF Handshakes, Fresh, Fills, Empties, Sends, Records, Drains
<1>3. CaptureIsRight
  BY <1>1, SizeAtLeastTwo DEF CaptureIsRight
<1> QED BY <1>2, <1>3 DEF IInv

LEMMA ResetTypes ==
  /\ ControllerReset \in ControllerState /\ MemoryReset \in MemoryState /\ NoCapture \in CaptureState
  /\ NoRead \in [addr : Addr, next : Data, data : Data]
<1>1. 0 \in Addr /\ 0 \in 0..Size /\ None \in Data /\ <<>> \in Seq(Data)
  BY SizeAtLeastTwo DEF Addr, Data
<1>2. ControllerReset \in ControllerState
  BY <1>1 DEF ControllerReset, ControllerState
<1>3. MemoryReset \in MemoryState
  BY <1>1 DEF MemoryReset, MemoryState
<1>4. NoCapture \in CaptureState
  BY <1>1 DEF NoCapture, CaptureState
<1> QED BY <1>1, <1>2, <1>3, <1>4 DEF NoRead

LEMMA InitInvariant == Init => IInv
<1> SUFFICES ASSUME Init PROVE IInv
  OBVIOUS
<1>1. 0 \in Sample /\ 0 \in Addr /\ 0 % Size = 0 /\ None \in Data
  BY SizeAtLeastTwo, Slot DEF Sample, Addr, Data
<1>2. w \in WriteState /\ wDly \in WriteState /\ Numbered
  BY <1>1 DEF Init, WriteState, Numbered
<1>3. Types
  BY <1>1, <1>2, ResetTypes DEF Init, Types
<1> QED BY <1>2, <1>3, Quiet DEF Init

LEMMA NextInvariant == IInv /\ [Next]_vars => IInv'
<1> SUFFICES ASSUME IInv, [Next]_vars PROVE IInv'
  OBVIOUS
<1>1. ASSUME NEW se \in BOOLEAN, Clk(se) PROVE IInv'
  <2>1. Handshakes'
    BY <1>1, NextHandshakes DEF Clk
  <2> QED BY <1>1, <2>1, NextTypes, NextFresh, NextFills, NextEmpties, NextSends, NextCaptureIsRight DEF IInv
<1>2. ASSUME NEW se \in BOOLEAN, Reset(se) PROVE IInv'
  <2>1. Types /\ Numbered /\ Sampled(se) /\ Write(se, FALSE) /\ ReadPipe /\ delay' = delay
    BY <1>2 DEF IInv, Reset
  <2>2. /\ now' \in Sample /\ trg' \in BOOLEAN /\ w' \in WriteState /\ wDly' \in WriteState
        /\ ram' \in [Addr -> Data] /\ rPipe' \in [addr : Addr, next : Data, data : Data]
        /\ Numbered'
    BY <2>1, DataTypes
  <2>3. c' = ControllerReset /\ m' = MemoryReset /\ cap' = NoCapture
    BY <1>2 DEF Reset
  <2>4. Types'
    BY <2>1, <2>2, <2>3, ResetTypes DEF Types
  <2>5. m'.st = "idle" /\ ~m'.full /\ ~m'.valid /\ m'.ready = 0 /\ c'.st = "init" /\ c'.out = "init" /\ ~c'.armed
        /\ cap'.sent = <<>>
    BY <2>3 DEF ControllerReset, MemoryReset, NoCapture
  <2>6. Handshakes' /\ Fresh' /\ Fills' /\ Empties' /\ Sends'
    BY <2>5 DEF Handshakes, Fresh, Fills, Empties, Sends, Records, Drains
  <2>7. CaptureIsRight'
    BY <2>5, SizeAtLeastTwo DEF CaptureIsRight
  <2> QED BY <2>2, <2>4, <2>6, <2>7 DEF IInv
<1>3. CASE UNCHANGED vars
  <2>1. Types' /\ Numbered' /\ Handshakes' /\ Fresh'
    BY <1>3 DEF vars, IInv, Types, Numbered, Handshakes, Fresh
  <2>2. Ring' = Ring /\ now' = now
    BY <1>3 DEF vars, Ring
  <2>3. \A k \in Int : Back(k)' = Back(k)
    BY <2>2 DEF Back
  <2>4. Fills'
    <3>1. m' = m /\ cap' = cap
      BY <1>3 DEF vars
    <3>2. Fills /\ m.counter \in Nat
      BY DEF IInv, Types, MemoryState
    <3> QED BY <2>2, <2>3, <3>1, <3>2 DEF Fills
  <2>5. Empties'
    <3>1. UNCHANGED <<m, cap, c, w, wDly, ram, rPipe, now>> /\ Empties
      BY <1>3 DEF vars, IInv
    <3>2. (\A k \in 1..Size : Back(k)) => \A k \in 1..Size : Back(k)'
      BY <2>3, SizeAtLeastTwo
    <3> QED BY <3>1, <3>2 DEF Empties, Whole, Arriving, Reading, First
  <2>6. Sends' /\ CaptureIsRight'
    <3>1. UNCHANGED <<m, cap, c>> /\ Sends /\ CaptureIsRight
      BY <1>3 DEF vars, IInv
    <3> QED BY <3>1 DEF Sends, Due, Drained, CaptureIsRight
  <2> QED BY <2>1, <2>4, <2>5, <2>6 DEF IInv
<1> QED BY <1>1, <1>2, <1>3 DEF Next

\* The host gets the samples in a row, each once, and the one that triggered is
\* number `delay', for memories of every size and every delay below it.
THEOREM CaptureCorrect == Spec => []CaptureIsRight
<1>1. IInv => CaptureIsRight
  BY DEF IInv
<1> QED BY InitInvariant, NextInvariant, <1>1, PTL DEF Spec

\* A ring that is full holds the samples of this capture only, the trigger as many
\* after the oldest as the host has set, however long the analyser waited for it
\* (LogicAnalyserMemory: stop the writes, then read from the oldest sample on).
THEOREM RingIsWhole == Spec => [](m.st \in Drains => Whole)
<1>1. IInv => (m.st \in Drains => Whole)
  BY DEF IInv, Empties
<1> QED BY InitInvariant, NextInvariant, <1>1, PTL DEF Spec

=============================================================================
