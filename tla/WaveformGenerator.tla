------------------------- MODULE WaveformGenerator --------------------------
(***************************************************************************)
(* The WaveformGenerator library (sw/WaveformGenerator/WaveformGenerator.c,*)
(* with the checks of its C++ class), the connection and the controller of *)
(* the core.  One program uses one handle, call after call.                *)
(***************************************************************************)
EXTENDS HostLink, WaveformController

CONSTANT Counts    \* lengths of the waveforms the program writes

ASSUME WaveformGeneratorAssumption == Counts \subseteq 1..Depth

vars == <<linkVars, controllerVars>>

Init == LinkInit /\ ControllerInit

-----------------------------------------------------------------------------
\* What the calls do, step by step.
GetSizes   == <<Send("sizes", 0), Receive(1, "sizes")>>
ReadStatus == <<Send("status", 0), Receive(1, "status")>>

WriteSamples(count) ==
  <<Send("number", 0), Send("field", count - 1), Send("write", 0)>> \o
  [i \in 1..count |-> Send("sample", 0)] \o <<Receive(1, "progress")>>

CallOf(name, steps) ==
  /\ call = "none"
  /\ IF open THEN Begin(name, steps) ELSE Refuse
  /\ UNCHANGED controllerVars

\* The status shows that the core has taken the command.
ControlCall == \E c \in ControlCommands : CallOf(c, <<Send(c, 0)>> \o ReadStatus)

GetStatus == CallOf("status", ReadStatus)

\* The bound of the core: no write after MaxWrites.
Write == writes < MaxWrites /\ \E count \in Counts : CallOf("write", WriteSamples(count))

\* No samples, or more than the memory holds.
WriteRefused == call = "none" /\ Refuse /\ UNCHANGED controllerVars

\* The C++ class refuses them before, and samples that do not fit the width.
WriteThrows ==
  /\ call = "none"
  /\ ret' = "threw" /\ lastError' = ~open
  /\ UNCHANGED <<open, gone, timeout, call, todo, down, up, controllerVars>>

\* getDataWidth(), getAddressWidth(), getMaxSamples().
Getter ==
  /\ call = "none"
  /\ IF open THEN Succeed /\ UNCHANGED timeout ELSE Refuse
  /\ UNCHANGED controllerVars

SetTimeout == call = "none" /\ Succeed /\ timeout' \in BOOLEAN /\ UNCHANGED controllerVars

\* Mutant: a new connection is not reset.
OpenNoReset ==
  /\ call = "none"
  /\ Refuse \/ (~open /\ Connect("open", GetSizes))
  /\ UNCHANGED controllerVars

\* Refused when connected or when no server answers.
Open ==
  /\ call = "none"
  /\ Refuse \/ (~open /\ Connect("open", <<Send("reset", 0)>> \o GetSizes))
  /\ UNCHANGED controllerVars

Close ==
  /\ call = "none"
  /\ IF open THEN Begin("close", ReadStatus) ELSE Succeed /\ UNCHANGED timeout
  /\ UNCHANGED controllerVars

\* delete(), and new() for the next handle.
Delete ==
  /\ call = "none"
  /\ CloseSocket
  /\ timeout' = TRUE /\ ret' = "OK" /\ lastError' = FALSE
  /\ UNCHANGED <<call, todo, controllerVars>>

-----------------------------------------------------------------------------
SendStep == Sends /\ UNCHANGED controllerVars
TimeoutStep == TimesOut /\ UNCHANGED controllerVars
BreakStep == Breaks(call \in {"open", "close"}) /\ UNCHANGED controllerVars

\* Mutant: the first sign of life is taken for the end.
AnswerStepFirst ==
  /\ CanReceive
  /\ Head(todo).as = "status" \/ Head(up).t \in {Head(todo).as, "done"}
  /\ Receives(<<>>)
  /\ UNCHANGED controllerVars

\* Any byte is a status.  write() receives until the core is done; another
\* byte would be an error, but AnswersMatch says that there is none.
AnswerStep ==
  /\ CanReceive
  /\ Head(todo).as = "status" \/ Head(up).t \in {Head(todo).as, "done"}
  /\ Receives(IF Head(todo).as = "progress" /\ Head(up).t = "progress" THEN <<Head(todo)>> ELSE <<>>)
  /\ UNCHANGED controllerVars

ReturnStep ==
  /\ call # "none" /\ todo = <<>>
  /\ Return("OK", FALSE)
  /\ IF call = "close" THEN CloseSocket ELSE UNCHANGED <<open, gone, down, up>>
  /\ UNCHANGED controllerVars

-----------------------------------------------------------------------------
\* The controller takes a token.
Takes(t) ==
  /\ down # <<>> /\ Head(down).t \in t
  /\ down' = Tail(down)
  /\ UNCHANGED <<open, gone, timeout, lastError, call, todo, ret>>

Commands == ControlCommands \cup {"sizes", "status", "number", "write"}
Bytes == Commands \cup {"field", "sample"}

TakeReset == Takes({"reset"}) /\ ControllerReset /\ UNCHANGED up

TakeControl ==
  \E c \in ControlCommands : Takes({c}) /\ ControllerSignals /\ UNCHANGED up

TakeQuestion ==
  \E q \in {"sizes", "status"} :
    /\ Takes({q}) /\ ControllerSignals
    /\ Answers(<<Token(q, 0)>>)

TakeNumberCommand == Takes({"number"}) /\ NumberCommand /\ UNCHANGED up
TakeNumber == Takes(Bytes) /\ Number(Head(down).v) /\ UNCHANGED up
TakeWriteCommand == Takes({"write"}) /\ WriteCommand /\ UNCHANGED up

\* A sign of life every 64 bytes, but not with the last one, is dropped when
\* the host is busy.
TakeSample ==
  /\ Takes(Bytes) /\ Sample
  /\ IF LastSample THEN Answers(<<Token("done", 0)>>)
                   ELSE UNCHANGED up \/ Answers(<<Token("progress", 0)>>)

ServerStep == ServerCloses /\ UNCHANGED controllerVars

-----------------------------------------------------------------------------
Program ==
  \/ ControlCall \/ GetStatus \/ Write \/ WriteRefused \/ WriteThrows \/ Getter \/ SetTimeout
  \/ Open \/ Close \/ Delete

Library == SendStep \/ TimeoutStep \/ BreakStep \/ AnswerStep \/ ReturnStep

Core ==
  \/ TakeReset \/ TakeControl \/ TakeQuestion \/ TakeNumberCommand \/ TakeNumber
  \/ TakeWriteCommand \/ TakeSample

Next == Program \/ Library \/ Core \/ ServerStep

\* The thread in the library is run; server and core may take any time.
Fairness == WF_vars(Library)

Spec == Init /\ [][Next]_vars /\ Fairness

-----------------------------------------------------------------------------
\* Every token that arrives is one the controller is waiting for.
CommandsMatch ==
  down # <<>> => CASE Head(down).t = "field"  -> ctl.st = "number"
                   [] Head(down).t = "sample" -> ctl.st = "write"
                   [] Head(down).t = "reset"  -> TRUE
                   [] OTHER                   -> ctl.st = "init"

\* An answer that arrives is the one the call waits for, or a sign of life; only
\* of a connection that is gone a sign of life can be left over.
AnswersMatch ==
  up # <<>> /\ call # "none" /\ ~(gone /\ Head(up).t = "progress") =>
    /\ todo # <<>>
    /\ Last(todo).as \in {Head(up).t, "progress"}
    /\ Head(up).t \in {"progress", "done"} <=> call = "write"

\* Library and controller keep in step over timeouts, lost servers and new
\* connections: no sample is taken for a command, and no late answer for another.
InStep == CommandsMatch /\ AnswersMatch

\* A call that succeeds has done what it says: all it has sent has arrived, and
\* after write() the whole waveform is stored.
DoneMeansArrived ==
  [][call # "none" /\ call' = "none" /\ ret' = "OK" /\ ~gone =>
       /\ down = <<>> /\ ctl.st = "init"
       /\ call = "write" => stored = writes]_vars

=============================================================================
