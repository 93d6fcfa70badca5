---------------------------- MODULE LogicAnalyser ----------------------------
(***************************************************************************)
(* The logic analyser: LogicAnalyserMemory records samples in a ring until *)
(* it is full and hands them to LogicAnalyserController, which sends them  *)
(* to the host.                                                            *)
(*                                                                         *)
(* One step is one edge of clk with ce = '1'.  A sample is its number in   *)
(* the capture, counted modulo twice the size of the memory, so that a     *)
(* sample of a lap ago is told from one of this lap; one of an earlier     *)
(* capture is None.  Commands arrive from the host in any order; the masks *)
(* of the trigger are not kept: any sample may match.                      *)
(***************************************************************************)
EXTENDS Integers, Sequences

CONSTANTS
  ADDR_WIDTH,
  Delays,     \* those that the host sets
  None

Size == 2^ADDR_WIDTH
Addr == 0..(Size - 1)

ASSUME LogicAnalyserAssumption ==
  ADDR_WIDTH \in Nat \ {0} /\ Delays \subseteq Addr /\ None \notin Nat

VARIABLES
  now,     \* the sample in the register prb, in front of the memory
  trg,     \* the register beside it: the trigger of the sample
  delay,   \* delay_s of the controller
  c,       \* the other registers of the controller
  m,       \* the registers of the memory's state machine
  w, wDly, \* write_enable, write_address, write_data, and one edge later
  ram,     \* the samples
  rPipe,   \* read_address_slv, and the two data registers of the RAM
  cap      \* history of a capture: its delay, samples seen up to it, trigger, samples sent

vars == <<now, trg, delay, c, m, w, wDly, ram, rPipe, cap>>

ControllerReset ==
  [st |-> "init", out |-> "init", armed |-> FALSE, fire |-> FALSE, request |-> FALSE,
   temp |-> None, ende |-> FALSE, theend |-> FALSE]

\* The registers that a reset leaves open ('-') are set before they are used.
MemoryReset ==
  [st |-> "idle", counter |-> 0, near_max |-> FALSE, near_delay |-> FALSE, delay |-> 0,
   ready |-> 0, raddr |-> 0, full |-> FALSE, finish |-> FALSE, valid |-> FALSE, data |-> None]

NoRead == [addr |-> 0, next |-> None, data |-> None]
NoCapture == [delay |-> 0, seen |-> 0, hit |-> None, sent |-> <<>>]

Init ==
  /\ now = 0 /\ trg = FALSE
  /\ delay \in Delays
  /\ c = ControllerReset
  /\ m = MemoryReset
  /\ w = [en |-> FALSE, addr |-> 0, data |-> None] /\ wDly = w
  /\ ram = [a \in Addr |-> None]
  /\ rPipe = NoRead
  /\ cap = NoCapture

-----------------------------------------------------------------------------
(* The way of a sample. *)

\* A match is the trigger logic's or, with USE_EXT_TRIGGER, the input ext_trigger.
\* The samples between two captures need no number and no address: where in the
\* ring a capture begins makes no difference.
Counted(n, se, modulus) ==
  IF ~c.armed THEN 0 ELSE IF se /\ ~m.full THEN (n + 1) % modulus ELSE n

Sampled(se) ==
  /\ now' = Counted(now, se, 2 * Size)
  /\ IF se THEN trg' \in {TRUE, c.fire} ELSE UNCHANGED trg

Recording == m.st \in {"armed", "wait_trigger", "fill_up"}

NewCapture == ~c.armed /\ c'.armed

\* Data that is not written is not kept here.
Write(se, enable) ==
  /\ w' = [en |-> enable, addr |-> Counted(w.addr, se, Size),
           data |-> IF enable THEN now ELSE None]
  /\ wDly' = w
  /\ ram' = IF NewCapture THEN [a \in Addr |-> None]
            ELSE IF wDly.en THEN [ram EXCEPT ![wDly.addr] = wDly.data] ELSE ram

\* What is read before the memory is full is not used.
ReadPipe ==
  rPipe' = IF m.full THEN [addr |-> m.raddr, next |-> ram[rPipe.addr], data |-> rPipe.next]
           ELSE NoRead

-----------------------------------------------------------------------------
(* The state machine of the memory. *)

\* Without trigger_active it is idle again, whatever it does else.
Turn(r) == m' = IF c.armed THEN r ELSE [r EXCEPT !.st = "idle"]

Idle ==
  /\ m.st = "idle"
  /\ Turn([m EXCEPT !.st = IF delay = 0 THEN "wait_trigger" ELSE "armed",
                    !.counter = 0, !.near_max = FALSE, !.near_delay = (delay = 1),
                    !.delay = delay, !.ready = 0, !.full = FALSE, !.finish = FALSE,
                    !.data = None])

\* One below the maximum with the sample of this edge.
NearMax == m.counter = Size - 2

\* The trigger is ignored until there are `delay' samples.
Armed(se) ==
  /\ m.st = "armed"
  /\ Turn(IF se THEN [m EXCEPT !.st = IF m.near_delay THEN "wait_trigger" ELSE @,
                               !.counter = @ + 1, !.near_max = NearMax,
                               !.near_delay = (m.counter + 2 = m.delay)]
          ELSE m)

\* The next sample to be overwritten is the oldest.
Full(r) == [r EXCEPT !.st = "drain", !.full = TRUE, !.raddr = (w.addr + 2) % Size]

WaitTrigger(se) ==
  /\ m.st = "wait_trigger"
  /\ LET r == [m EXCEPT !.st = "fill_up", !.counter = @ + 1, !.near_max = @ \/ NearMax]
     IN Turn(IF ~se \/ ~trg THEN m ELSE IF m.near_max THEN Full(r) ELSE r)

FillUp(se) ==
  /\ m.st = "fill_up"
  /\ LET r == [m EXCEPT !.counter = @ + 1, !.near_max = NearMax]
     IN Turn(IF ~se THEN m ELSE IF m.near_max THEN Full(r) ELSE r)

\* Mutant: the output register of the RAM is forgotten.
DrainEarly ==
  /\ m.st = "drain"
  /\ Turn(IF ~c.request THEN m
          ELSE IF m.ready < 2 THEN [m EXCEPT !.ready = @ + 1]
          ELSE [m EXCEPT !.st = "drain_handshake", !.valid = TRUE, !.data = rPipe.data,
                         !.counter = @ - 1, !.ready = 0])

\* The address takes three edges to the data: read_address_slv, RAM, output register.
Drain ==
  /\ m.st = "drain"
  /\ Turn(IF ~c.request THEN m
          ELSE IF m.ready < 3 THEN [m EXCEPT !.ready = @ + 1]
          ELSE [m EXCEPT !.st = "drain_handshake", !.valid = TRUE, !.data = rPipe.data,
                         !.counter = @ - 1, !.ready = 0])

DrainHandshake ==
  /\ m.st = "drain_handshake"
  /\ LET last == m.counter = 0
     IN Turn(IF c.request THEN [m EXCEPT !.ready = 0]
             ELSE [m EXCEPT !.st = IF last THEN "wait_ack_finish" ELSE "drain",
                            !.finish = @ \/ last, !.valid = FALSE,
                            !.raddr = (@ + 1) % Size, !.ready = 0])

WaitAckFinish == m.st = "wait_ack_finish" /\ Turn(m)

Memory(se) ==
  \/ Idle \/ Armed(se) \/ WaitTrigger(se) \/ FillUp(se)
  \/ Drain \/ DrainHandshake \/ WaitAckFinish

-----------------------------------------------------------------------------
(* The controller.  A command is taken in the state init only. *)

Commands == {"none", "arm", "fire", "other"}

\* All but arm and fire lead to other states: an answer, or more bytes, which may
\* set the delay.
\* One that comes with full is first; the request stays.
InitState(command) ==
  /\ c' = [c EXCEPT !.st = IF command = "other" THEN "busy"
                           ELSE IF m.full THEN "data_output" ELSE "init",
                    !.out = "init",
                    !.request = @ \/ m.full,
                    !.temp = IF m.full THEN None ELSE @,
                    !.ende = @ /\ ~m.full, !.theend = @ /\ ~m.full,
                    !.armed = @ \/ command = "arm",
                    !.fire = @ \/ command = "fire"]
  /\ IF command = "other" THEN delay' \in Delays ELSE UNCHANGED delay

\* Until the host has sent the rest of the command or taken the answer.
Busy == \E done \in BOOLEAN : c' = [c EXCEPT !.st = IF done THEN "init" ELSE @]

\* Finish and the end of the output, which the case below may override.
Ending ==
  [c EXCEPT !.armed = @ /\ ~m.finish, !.fire = @ /\ ~m.finish, !.ende = @ \/ m.finish,
            !.st = IF c.theend THEN "init" ELSE @,
            !.out = IF c.theend THEN "init" ELSE @]

Take(r) == IF m.valid THEN [r EXCEPT !.temp = m.data, !.out = "Zwischenspeicher"] ELSE r

\* Mutant: the request stays until the next sample is wanted.
OutputKeepsRequest ==
  \/ c.out = "init" /\ c' = Take(Ending)
  \/ /\ c.out = "Zwischenspeicher"
     /\ \E out \in {c.out, "shift"} : c' = [Ending EXCEPT !.out = out]
  \/ /\ c.out = "shift"
     /\ c' = IF m.valid THEN Ending
             ELSE [Ending EXCEPT !.request = TRUE, !.out = "get_next_data"]
  \/ c.out = "get_next_data" /\ c' = Take([Ending EXCEPT !.theend = @ \/ c.ende])

\* A sample is sent when its last byte is put into the output register.
Output ==
  \/ c.out = "init" /\ c' = Take(Ending)
  \/ /\ c.out = "Zwischenspeicher"
     /\ \E out \in {c.out, "shift"} : c' = [Ending EXCEPT !.request = FALSE, !.out = out]
  \/ /\ c.out = "shift"
     /\ c' = IF m.valid THEN Ending
             ELSE [Ending EXCEPT !.request = TRUE, !.out = "get_next_data"]
  \/ c.out = "get_next_data" /\ c' = Take([Ending EXCEPT !.theend = @ \/ c.ende])

Controller ==
  \/ c.st = "init" /\ \E command \in Commands : InitState(command)
  \/ c.st = "busy" /\ Busy /\ UNCHANGED delay
  \/ c.st = "data_output" /\ Output /\ UNCHANGED delay

-----------------------------------------------------------------------------
\* What a capture should be, from the samples at the input of the memory.
SampleSent == c.st = "data_output" /\ c.out = "Zwischenspeicher" /\ c'.out = "shift"

Observed(se) ==
  cap' = IF NewCapture THEN [NoCapture EXCEPT !.delay = delay]
         ELSE LET here == se /\ c.armed /\ m.st # "idle"
                  hit == here /\ cap.hit = None /\ cap.seen >= cap.delay /\ trg
              IN [cap EXCEPT !.seen = IF here /\ @ < cap.delay THEN @ + 1 ELSE @,
                             !.hit = IF hit THEN now ELSE @,
                             !.sent = IF SampleSent THEN Append(@, c.temp) ELSE @]

Clk(se) ==
  /\ Memory(se) /\ Controller
  /\ Sampled(se) /\ Write(se, se /\ Recording) /\ ReadPipe
  /\ Observed(se)

\* The reset symbol of the escaping: controller and memory, not the sampling.
Reset(se) ==
  /\ c' = ControllerReset /\ m' = MemoryReset
  /\ Sampled(se) /\ Write(se, FALSE) /\ ReadPipe
  /\ cap' = NoCapture
  /\ UNCHANGED delay

Next == \E se \in BOOLEAN : Clk(se) \/ Reset(se)

\* Samples come again and again; the host takes what is sent to it, completes
\* the commands it begins, and does not always send the next one at once.
Edge == Clk(TRUE) \/ Clk(FALSE)
Fairness ==
  /\ WF_vars(Clk(TRUE))
  /\ WF_vars(c.out = "Zwischenspeicher" /\ Edge /\ SampleSent)
  /\ WF_vars(c.st = "busy" /\ Edge /\ c'.st = "init")
  /\ SF_vars(c.st = "init" /\ Edge /\ c'.st # "busy")

Spec == Init /\ [][Next]_vars
FairSpec == Spec /\ Fairness

-----------------------------------------------------------------------------
\* The host gets the samples in a row, each once, and the one that triggered is
\* number `delay': the first one with the trigger after `delay' samples
\* (rtl/LogicAnalyser/README.md, "Protocol").
CaptureIsRight ==
  /\ Len(cap.sent) <= Size
  /\ cap.sent # <<>> => cap.hit # None
  /\ \A i \in DOMAIN cap.sent :
       cap.sent[i] = (cap.hit - cap.delay + i - 1) % (2 * Size)

\* A capture with the manual trigger becomes full, and one that is full is sent
\* to its last sample, unless there is a reset.
EveryCaptureIsSent ==
  /\ c.armed /\ c.fire ~> m.full \/ ~c.armed
  /\ m.full ~> Len(cap.sent) = Size \/ cap.hit = None

=============================================================================
