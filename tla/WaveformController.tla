------------------------- MODULE WaveformController -------------------------
(***************************************************************************)
(* WaveformGeneratorController: what it does with the commands and bytes   *)
(* that come from the host.  WaveformCore adds the memory and the output,  *)
(* WaveformGenerator the library that sends the commands.                  *)
(***************************************************************************)
EXTENDS Naturals

CONSTANTS
  Depth,      \* 2^ADDR_WIDTH
  MaxWrites   \* bound: write commands in a behaviour

ASSUME WaveformControllerAssumption == Depth \in Nat /\ Depth >= 2 /\ MaxWrites \in Nat

VARIABLES
  ctl,     \* state, addr_of_last_sample_s and sample_counter
  writes,  \* history: write commands so far
  stored   \* history: the last of them with all its samples

controllerVars == <<ctl, writes, stored>>

Addr == 0..(Depth - 1)

\* Addresses and counters of ADDR_WIDTH bits wrap.
Plus1(a) == IF a = Depth - 1 THEN 0 ELSE a + 1

ControlCommands == {"start", "stop", "shot"}

ControllerInit ==
  /\ ctl = [st |-> "init", last |-> 0, count |-> 0]
  /\ writes = 0 /\ stored = 0

\* A reset of the escaping ends what the controller does; the number of samples
\* stays.
ControllerReset ==
  /\ ctl' = [ctl EXCEPT !.st = "init"]
  /\ UNCHANGED <<writes, stored>>

\* start, stop or one_shot for the memory, or an answer.
ControllerSignals == ctl.st = "init" /\ UNCHANGED controllerVars

NumberCommand ==
  /\ ctl.st = "init"
  /\ ctl' = [ctl EXCEPT !.st = "number"]
  /\ UNCHANGED <<writes, stored>>

Number(last) ==
  /\ ctl.st = "number"
  /\ ctl' = [ctl EXCEPT !.st = "init", !.last = last]
  /\ UNCHANGED <<writes, stored>>

WriteCommand ==
  /\ ctl.st = "init" /\ writes < MaxWrites
  /\ ctl' = [ctl EXCEPT !.st = "write", !.count = 0]
  /\ writes' = writes + 1
  /\ UNCHANGED stored

LastSample == ctl.count = ctl.last

Sample ==
  /\ ctl.st = "write"
  /\ IF LastSample
     THEN ctl' = [ctl EXCEPT !.st = "init"] /\ stored' = writes
     ELSE ctl' = [ctl EXCEPT !.count = Plus1(@)] /\ UNCHANGED stored
  /\ UNCHANGED writes

ControllerTypeOK ==
  /\ ctl \in [st : {"init", "number", "write"}, last : Addr, count : Addr]
  /\ writes \in Nat /\ stored \in 0..writes

=============================================================================
