---------------------------- MODULE WaveformCore ----------------------------
(***************************************************************************)
(* The waveform generator in the FPGA: the controller takes commands, here *)
(* in any order, WaveformGeneratorMemory writes samples to one of two      *)
(* memories and plays them.                                                *)
(*                                                                         *)
(* A sample is the number of the write command it came with.  The pipeline *)
(* between controller, memory and output is shorter than the time between  *)
(* two bytes from JTAG and has no state here.                              *)
(***************************************************************************)
EXTENDS WaveformController

CONSTANT Generics    \* pairs of DOUBLE_BUFFER and SYNC_MASTER

ASSUME WaveformCoreAssumption == Generics \subseteq BOOLEAN \X BOOLEAN

VARIABLES
  double, master,  \* the generics DOUBLE_BUFFER and SYNC_MASTER
  wr,      \* write side: curr_w_buffer and write_address
  mem,     \* the memories
  next,    \* buffer_next and addr_of_last_sample_next
  strobe,  \* which of start_latched, stop_latched and one_shot_latched are set
  rd,      \* read side: state, read_address, buffer, last address, sync_out_local
  rep      \* history: samples played in this repetition, and their writes

generics == <<double, master>>
coreVars == <<controllerVars, generics, wr, mem, next, strobe, rd, rep>>

NoRep == [n |-> 0, ids |-> {}]

CoreInit ==
  /\ ControllerInit
  /\ \E g \in Generics : double = g[1] /\ master = g[2]
  /\ wr = [buf |-> 0, addr |-> 0]
  /\ mem = [b \in {0, 1} |-> [a \in Addr |-> 0]]
  /\ \E last \in Addr :
       /\ next = [buf |-> 0, last |-> last, id |-> 0]
       /\ rd = [st |-> "idle", addr |-> 0, buf |-> 0, last |-> last, id |-> 0, sync |-> 0]
  /\ strobe = {}
  /\ rep = NoRep

-----------------------------------------------------------------------------
\* Number of samples, memories and playback survive a reset of the escaping.
Reset ==
  /\ ControllerReset
  /\ UNCHANGED <<generics, wr, mem, next, strobe, rd, rep>>

Control(command) ==
  /\ ControllerSignals
  /\ strobe' = strobe \cup {command}
  /\ UNCHANGED <<generics, wr, mem, next, rd, rep>>

SetNumber ==
  /\ NumberCommand \/ \E last \in Addr : Number(last)
  /\ UNCHANGED <<generics, wr, mem, next, strobe, rd, rep>>

\* Mutant: the memory that is written is always the same.
BeginWriteKeepsBuffer ==
  /\ WriteCommand
  /\ wr' = [wr EXCEPT !.addr = 0]
  /\ UNCHANGED <<generics, mem, next, strobe, rd, rep>>

\* Every write command, even if its samples never come, turns to the other memory.
BeginWrite ==
  /\ WriteCommand
  /\ wr' = [buf |-> 1 - wr.buf, addr |-> 0]
  /\ UNCHANGED <<generics, mem, next, strobe, rd, rep>>

\* The memory a buffer number stands for.
Memory(buf) == IF double THEN buf ELSE 0

\* Mutant: the address is not counted modulo the size of the memory.
WriteSampleNoWrap ==
  /\ Sample
  /\ mem' = [mem EXCEPT ![Memory(wr.buf)][wr.addr] = writes]
  /\ wr' = [wr EXCEPT !.addr = @ + 1]
  /\ next' = IF LastSample THEN [buf |-> wr.buf, last |-> wr.addr, id |-> writes] ELSE next
  /\ UNCHANGED <<generics, strobe, rd, rep>>

WriteSample ==
  /\ Sample
  /\ mem' = [mem EXCEPT ![Memory(wr.buf)][wr.addr] = writes]
  /\ wr' = [wr EXCEPT !.addr = Plus1(@)]
  /\ next' = IF LastSample THEN [buf |-> wr.buf, last |-> wr.addr, id |-> writes] ELSE next
  /\ UNCHANGED <<generics, strobe, rd, rep>>

-----------------------------------------------------------------------------
\* A clock with sample_enable.  Strobes that come in a state that does not want
\* them are lost.
Playing == rd.st \in {"running", "oneshot"}

Loaded(st) ==
  [st |-> st, addr |-> 0, buf |-> next.buf, last |-> next.last, id |-> next.id, sync |-> 0]

Enabled == strobe' = {} /\ UNCHANGED <<controllerVars, generics, wr, mem, next>>

\* The input one_shot of the core acts like the command.
ReadIdle ==
  /\ rd.st = "idle"
  /\ \E one_shot \in BOOLEAN :
       rd' = Loaded(IF one_shot \/ "shot" \in strobe THEN "oneshot"
                    ELSE IF "start" \notin strobe THEN "idle"
                    ELSE IF master THEN "running" ELSE "wait_sync")
  /\ rep' = NoRep
  /\ Enabled

\* sync_in is an output of another generator.
ReadWaitSync ==
  /\ rd.st = "wait_sync"
  /\ \E sync_in \in BOOLEAN : rd' = Loaded(IF sync_in THEN "running" ELSE "wait_sync")
  /\ rep' = NoRep
  /\ Enabled

\* The writes this repetition has samples of, with the sample of this step.
Heard == rep.ids \cup {mem[Memory(rd.buf)][rd.addr]}

Played == [n |-> rep.n + 1, ids |-> Heard]

\* Mutant: a new length is used at once.
ReadRunningNewLength ==
  /\ rd.st = "running"
  /\ LET st == IF "stop" \in strobe THEN "idle" ELSE "running"
     IN IF rd.sync = 1
        THEN rd' = Loaded(st) /\ rep' = NoRep
        ELSE /\ rd' = [rd EXCEPT !.st = st, !.addr = Plus1(@), !.last = next.last,
                                 !.sync = IF Plus1(rd.addr) = next.last THEN 1 ELSE 0]
             /\ rep' = Played
  /\ Enabled

\* Mutant: the first repetition goes on for ever.
ReadRunningNoWrap ==
  /\ rd.st = "running"
  /\ LET st == IF "stop" \in strobe THEN "idle" ELSE "running"
     IN IF rd.sync = 1
        THEN rd' = [rd EXCEPT !.st = st, !.addr = 0, !.sync = 0] /\ rep' = NoRep
        ELSE /\ rd' = [rd EXCEPT !.st = st, !.addr = Plus1(@),
                                 !.sync = IF Plus1(rd.addr) = rd.last THEN 1 ELSE 0]
             /\ rep' = Played
  /\ Enabled

\* sync_out_local is set one step before the last sample; with it the address
\* goes back to 0 and the next waveform is taken.
ReadRunning ==
  /\ rd.st = "running"
  /\ LET st == IF "stop" \in strobe THEN "idle" ELSE "running"
     IN IF rd.sync = 1
        THEN rd' = Loaded(st) /\ rep' = NoRep
        ELSE /\ rd' = [rd EXCEPT !.st = st, !.addr = Plus1(@),
                                 !.sync = IF Plus1(rd.addr) = rd.last THEN 1 ELSE 0]
             /\ rep' = Played
  /\ Enabled

ReadOneShot ==
  /\ rd.st = "oneshot"
  /\ rd' = [rd EXCEPT !.st = IF rd.addr = rd.last THEN "idle" ELSE @,
                      !.addr = Plus1(@), !.sync = 0]
  /\ rep' = Played
  /\ Enabled

Read == ReadIdle \/ ReadWaitSync \/ ReadRunning \/ ReadOneShot

CoreNext ==
  \/ Reset
  \/ \E command \in ControlCommands : Control(command)
  \/ SetNumber \/ BeginWrite \/ WriteSample
  \/ Read

\* sample_enable comes again and again.
CoreSpec == CoreInit /\ [][CoreNext]_coreVars /\ WF_coreVars(Read)

-----------------------------------------------------------------------------
Flags == double \in BOOLEAN /\ master \in BOOLEAN

CoreTypeOK ==
  /\ ControllerTypeOK /\ Flags
  /\ wr \in [buf : {0, 1}, addr : Addr]
  /\ mem \in [{0, 1} -> [Addr -> Nat]]
  /\ next \in [buf : {0, 1}, last : Addr, id : Nat]
  /\ strobe \subseteq ControlCommands
  /\ rd \in [st : {"idle", "wait_sync", "running", "oneshot"}, addr : Addr, buf : {0, 1},
             last : Addr, id : Nat, sync : {0, 1}]
  /\ rep \in [n : Nat, ids : SUBSET Nat]

\* A single sample is played by one-shot only: in `running' its end is seen when
\* the address has gone through the whole memory.
Bounded == rd.last > 0 \/ rd.st = "oneshot"

\* No write has begun since the one that is played; with a double buffer one may.
NotOverwritten == writes <= rd.id + (IF double THEN 1 ELSE 0)

\* What is played is one waveform, all its samples from one write, as long as
\* not a second write (without double buffer: a first) begins before the
\* generator has switched: sw/WaveformGenerator/README.md, "Writing while playing".
CleanSwitch == Playing /\ Bounded /\ NotOverwritten => Heard \subseteq {rd.id}

\* A repetition and a one-shot have as many samples as the waveform they began
\* with, whatever is written meanwhile.
RepetitionLength ==
  [][/\ Playing /\ Bounded /\ rd' # rd
     /\ rep' = NoRep \/ (rd.st = "oneshot" /\ rd'.st = "idle")
     => rep.n = rd.last]_coreVars

\* While a waveform is played again and again, the one written last is taken
\* after the repetition at the latest.
NewestIsPlayed ==
  \A w \in 1..MaxWrites : rd.st = "running" /\ next.id = w ~> rd.id >= w \/ rd.st # "running"

=============================================================================
