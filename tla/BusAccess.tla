----------------------------- MODULE BusAccess ------------------------------
(***************************************************************************)
(* The BusAccess library (sw/BusAccess/BusAccess.c, with the checks of its *)
(* C++ wrapper), the connection, and the core of                           *)
(* rtl/BusAccess/BusAccessStatemachine.vhd with its bus.  One program uses *)
(* one handle, call after call.                                            *)
(*                                                                         *)
(* The escaping is module Escaping; here a token is a command or a whole   *)
(* field, and a byte of read data is never taken for an identification.    *)
(***************************************************************************)
EXTENDS HostLink, Integers, FiniteSetsExt

CONSTANTS
  Cores,     \* widths: [addr, rd, wr, misc, strb]
  Data,      \* words written
  Prot, Size \* arguments of the helpers for the misc signals

ASSUME BusAccessAssumption ==
  /\ Cores \subseteq [addr : Nat, rd : Nat, wr : Nat, misc : Nat, strb : Nat]
  /\ Data \subseteq Nat /\ Prot \subseteq Nat /\ Size \subseteq Nat

VARIABLES
  widths,    \* of the core, constant
  shadow,    \* handle->AddressShadow
  core,      \* the state machine of the core and its registers
  wanted,    \* history: the misc value the program has set last
  req, made, owed, bus, reply      \* history, see RemoteBus

busVars == <<req, made, owed, bus, reply>>
vars == <<linkVars, widths, shadow, core, wanted, busVars>>

Address == IF widths.addr = 0 THEN {0} ELSE {0, 1}
Request(op, a, d, l) == [op |-> op, addr |-> a, data |-> d, lock |-> l]
NoRequest == Request("none", 0, 0, FALSE)
Requests == [op : {"write"}, addr : {0, 1}, data : Data, lock : BOOLEAN] \cup
            [op : {"read"}, addr : {0, 1}, data : {0}, lock : BOOLEAN]

ResetCore == [st |-> "idle", address |-> 0, misc |-> 0, lock |-> FALSE]

Init ==
  /\ LinkInit
  /\ widths \in Cores
  /\ shadow = 0 /\ wanted = 0
  /\ core = ResetCore
  /\ req = NoRequest /\ made = "no" /\ owed = NoRequest /\ bus = NoRequest /\ reply = "none"

-----------------------------------------------------------------------------
\* What the calls do, step by step.
GetSizes == <<Send("Q", 0), Receive(1, "id"), Receive(1, "widths")>>

SendAddress(a) ==
  IF widths.addr = 0 THEN <<>> ELSE <<Send("A", 0), Send("field", a)>>

\* Mutant: the address is sent, but not remembered.
SetAddressForgets(a) == IF a = shadow THEN <<>> ELSE SendAddress(a)

\* The address is remembered once it is sent.
SetAddress(a) ==
  IF a = shadow THEN <<>>
  ELSE SendAddress(a) \o <<[Local("shadow") EXCEPT !.n = a]>>

Write(a, d, locked) ==
  SetAddress(a) \o
  <<Send(IF locked THEN "Wlock" ELSE "W", 0), Send("field", d), Receive(1, "answer")>>

Read(a, locked) ==
  SetAddress(a) \o
  <<Send(IF locked THEN "Rlock" ELSE "R", 0), Receive(2, "answer")>>

\* A call that needs a connection and arguments that fit the core.
CallOf(name, ok, steps) ==
  /\ call = "none"
  /\ IF open /\ ok THEN Begin(name, steps) ELSE Refuse

Asks(r) == req' = r /\ UNCHANGED <<made, owed, bus, reply>>

WriteCtrlLock ==
  \E a \in Address, d \in Data, locked \in BOOLEAN :
    /\ CallOf("write", widths.wr > 0, Write(a, d, locked))
    /\ Asks(IF open /\ widths.wr > 0 THEN Request("write", a, d, locked) ELSE req)
    /\ UNCHANGED <<widths, shadow, core, wanted>>

ReadCtrlLock ==
  \E a \in Address, locked \in BOOLEAN :
    /\ CallOf("read", widths.rd > 0, Read(a, locked))
    /\ Asks(IF open /\ widths.rd > 0 THEN Request("read", a, 0, locked) ELSE req)
    /\ UNCHANGED <<widths, shadow, core, wanted>>

CanModify == widths.rd = widths.wr /\ widths.rd > 0

\* Mutant: the read does not lock.
ReadModifyWriteUnlocked ==
  \E a \in Address :
    /\ CallOf("rmw", CanModify, Read(a, FALSE) \o <<[Local("modify") EXCEPT !.n = a]>>)
    /\ Asks(IF open /\ CanModify THEN Request("read", a, 0, FALSE) ELSE req)
    /\ UNCHANGED <<widths, shadow, core, wanted>>

\* A locked read, the function of the program, an unlocked write.
ReadModifyWrite ==
  \E a \in Address :
    /\ CallOf("rmw", CanModify, Read(a, TRUE) \o <<[Local("modify") EXCEPT !.n = a]>>)
    /\ Asks(IF open /\ CanModify THEN Request("read", a, 0, TRUE) ELSE req)
    /\ UNCHANGED <<widths, shadow, core, wanted>>

-----------------------------------------------------------------------------
\* The misc signals: the bytes that a helper sends, and the value meant by the
\* order of the fields in the table of the masters.
Field(x, n) == x % 2^n
SameData == widths.rd = widths.wr

SetAxprot(ar, aw) ==
  [ok |-> widths.misc = 6 /\ SameData,
   sent |-> Field(aw, 3) * 8 + Field(ar, 3), meant |-> Field(aw, 3) * 8 + Field(ar, 3)]

SetPprot(p) == [ok |-> widths.misc = 3 /\ SameData, sent |-> Field(p, 3), meant |-> Field(p, 3)]

SetDebugAccess(d) ==
  [ok |-> widths.misc = 1 /\ SameData,
   sent |-> IF d = 0 THEN 0 ELSE 1, meant |-> IF d = 0 THEN 0 ELSE 1]

\* Mutant: hprot is not shifted.
SetHprotHsizeUnshifted(prot, size) ==
  [ok |-> widths.misc \in {3, 7, 10} /\ SameData /\ widths.wr >= 8 * 2^Field(size, 3),
   sent |-> Field(size, 3) + Field(prot, IF widths.misc > 3 THEN widths.misc - 3 ELSE 0),
   meant |-> Field(size, 3) + 8 * Field(prot, IF widths.misc > 3 THEN widths.misc - 3 ELSE 0)]

SetHprotHsize(prot, size) ==
  LET hsize == Field(size, 3)
      hprot == Field(prot, IF widths.misc > 3 THEN widths.misc - 3 ELSE 0)
      byte0 == Field(hsize + 8 * hprot, 8)
      byte1 == hprot \div 8
  IN [ok |-> widths.misc \in {3, 7, 10} /\ SameData /\ widths.wr >= 8 * 2^hsize,
      sent |-> IF widths.misc > 8 THEN byte0 + 256 * byte1 ELSE byte0,
      meant |-> hsize + 8 * hprot]

SetResets(reset, hardreset) ==
  [ok |-> widths.misc = 2 /\ SameData,
   sent |-> reset + 2 * hardreset, meant |-> reset + 2 * hardreset]

MiscCalls ==
  {SetAxprot(p, q) : p, q \in Prot} \cup {SetPprot(p) : p \in Prot} \cup
  {SetDebugAccess(p) : p \in Prot} \cup {SetHprotHsize(p, s) : p \in Prot, s \in Size} \cup
  {SetResets(r, h) : r, h \in {0, 1}} \cup
  {[ok |-> widths.misc > 0, sent |-> d, meant |-> Field(d, widths.misc)] : d \in Prot}

SetMiscellaneous ==
  \E m \in MiscCalls :
    /\ CallOf("set", m.ok, <<Send("M", 0), Send("field", m.sent)>>)
    /\ wanted' = IF open /\ m.ok THEN m.meant ELSE wanted
    /\ UNCHANGED <<widths, shadow, core, busVars>>

SetStrobe ==
  /\ CallOf("set", widths.strb > 0, <<Send("S", 0), Send("field", 1)>>)
  /\ UNCHANGED <<widths, shadow, core, wanted, busVars>>

-----------------------------------------------------------------------------
\* getFieldSize(), getCoreType(), getProtocolVersion(): the fields of the handle.
Getter ==
  /\ call = "none"
  /\ IF open THEN Succeed /\ UNCHANGED timeout ELSE Refuse
  /\ UNCHANGED <<widths, shadow, core, wanted, busVars>>

SetTimeout ==
  /\ call = "none" /\ Succeed
  /\ timeout' \in BOOLEAN
  /\ UNCHANGED <<widths, shadow, core, wanted, busVars>>

\* The C++ wrapper refuses a value that is wider than its field, or a type that
\* is narrower than the read data, before any access.
Throw ==
  /\ call = "none"
  /\ ret' = "threw" /\ lastError' = (lastError /\ ~open)
  /\ UNCHANGED <<open, gone, timeout, call, todo, down, up, widths, shadow, core, wanted, busVars>>

\* Mutant: a new connection is not reset.
OpenNoReset ==
  /\ call = "none"
  /\ \/ Refuse /\ UNCHANGED <<shadow, wanted, owed>>
     \/ /\ ~open
        /\ Connect("open", GetSizes \o SendAddress(0))
        /\ shadow' = 0 /\ wanted' = 0 /\ owed' = NoRequest
  /\ UNCHANGED <<widths, core, req, made, bus, reply>>

\* Refused when connected or when no server answers.  The new shadow is 0, and
\* sent, when the sizes are known; a core without fields is refused.
Open ==
  /\ call = "none"
  /\ \/ Refuse /\ UNCHANGED <<shadow, wanted, owed>>
     \/ /\ ~open
        /\ Connect("open", <<Send("reset", 0)>> \o GetSizes \o SendAddress(0))
        /\ shadow' = 0 /\ wanted' = 0 /\ owed' = NoRequest
  /\ UNCHANGED <<widths, core, req, made, bus, reply>>

\* Mutant: nothing is waited for.
CloseAtOnce ==
  /\ call = "none"
  /\ IF open THEN Begin("close", <<>>) ELSE Succeed /\ UNCHANGED timeout
  /\ UNCHANGED <<widths, shadow, core, wanted, busVars>>

\* An answer shows that all commands before have arrived.
Close ==
  /\ call = "none"
  /\ IF open THEN Begin("close", GetSizes) ELSE Succeed /\ UNCHANGED timeout
  /\ UNCHANGED <<widths, shadow, core, wanted, busVars>>

\* delete(), and new() for the next handle.
Delete ==
  /\ call = "none"
  /\ CloseSocket
  /\ timeout' = TRUE /\ ret' = "OK" /\ lastError' = FALSE
  /\ UNCHANGED <<call, todo, widths, shadow, core, wanted, busVars>>

-----------------------------------------------------------------------------
\* The steps of a call.
InFlight ==
  \/ core.st \in {"W", "Wlock"}
  \/ \E i \in DOMAIN down : down[i].t \in {"W", "Wlock", "R", "Rlock"}

\* History: a call that fails takes its request with it.
Failed ==
  /\ req' = NoRequest /\ made' = "no" /\ UNCHANGED bus
  /\ reply' = "none"
  /\ owed' = IF req # NoRequest /\ made = "no" /\ owed = NoRequest /\ InFlight THEN req ELSE owed

SendStep == Sends /\ UNCHANGED <<widths, shadow, core, wanted, busVars>>

TimeoutStep == TimesOut /\ Failed /\ UNCHANGED <<widths, shadow, core, wanted>>

BreakStep == Breaks(call \in {"open", "close"}) /\ Failed /\ UNCHANGED <<widths, shadow, core, wanted>>

SizesStep ==
  /\ CanReceive /\ Head(todo).as \in {"id", "widths"}
  /\ Head(up).t = Head(todo).as
  /\ Receives(<<>>)
  /\ UNCHANGED <<widths, shadow, core, wanted, busVars>>

\* Not a BusAccess core, or the rest of an answer to an earlier connection.
WrongSizesStep ==
  /\ Misreceives
  /\ Head(todo).as \in {"id", "widths"}
  /\ Head(up).t # Head(todo).as
  /\ Return("ERROR", TRUE)
  /\ IF call \in {"open", "close"}
     THEN open' = FALSE /\ gone' = FALSE /\ down' \in Prefixes(down)
     ELSE UNCHANGED <<open, gone, down>>
  /\ Failed
  /\ UNCHANGED <<widths, shadow, core, wanted>>

\* The answer to an access.  Any other byte would be an error; AnswersMatch
\* says that there is none.
AnswerStep ==
  /\ CanReceive /\ Head(todo).as = "answer"
  /\ Head(up).t \in {"ACK", "NAK"}
  /\ reply' = Head(up).t /\ req' = NoRequest /\ made' = "no"
  /\ Receives(<<>>)
  /\ UNCHANGED <<widths, shadow, core, wanted, owed, bus>>

ShadowStep ==
  /\ Next_is("local") /\ Head(todo).as = "shadow"
  /\ shadow' = Head(todo).n
  /\ todo' = Tail(todo)
  /\ UNCHANGED <<open, gone, timeout, lastError, call, ret, down, up, widths, core, wanted, busVars>>

\* Between read and write of read_modify_write(); the write only after an ACK.
ModifyStep ==
  /\ Next_is("local") /\ Head(todo).as = "modify"
  /\ \E d \in Data :
       IF reply = "ACK"
       THEN todo' = Write(Head(todo).n, d, FALSE) /\ Asks(Request("write", Head(todo).n, d, FALSE))
       ELSE todo' = <<>> /\ UNCHANGED busVars
  /\ UNCHANGED <<open, gone, timeout, lastError, call, ret, down, up, widths, shadow, core, wanted>>

\* C++: the function of the program, or the check of what it returns, throws.
ModifyThrows ==
  /\ Next_is("local") /\ Head(todo).as = "modify" /\ reply = "ACK"
  /\ Return("threw", FALSE)
  /\ reply' = "none"
  /\ UNCHANGED <<open, gone, down, up, widths, shadow, core, wanted, req, made, owed, bus>>

ReturnStep ==
  /\ call # "none" /\ todo = <<>>
  /\ IF call \in {"read", "write", "rmw"} THEN Return(reply, reply = "NAK") ELSE Return("OK", FALSE)
  /\ IF call = "close" THEN CloseSocket ELSE UNCHANGED <<open, gone, down, up>>
  /\ reply' = "none"
  /\ UNCHANGED <<widths, shadow, core, wanted, req, made, owed, bus>>

-----------------------------------------------------------------------------
\* The core takes a token.
CoreTakes(t) ==
  /\ down # <<>> /\ Head(down).t \in t
  /\ down' = Tail(down)
  /\ UNCHANGED <<open, gone, timeout, lastError, call, todo, ret, widths, shadow, wanted>>

Commands == {"A", "M", "S", "W", "Wlock"}

CoreReset ==
  /\ CoreTakes({"reset"})
  /\ core' = ResetCore
  /\ bus' = NoRequest
  /\ UNCHANGED <<up, req, made, owed, reply>>

CoreCommand ==
  /\ core.st = "idle" /\ CoreTakes(Commands)
  /\ core' = [core EXCEPT !.st = Head(down).t]
  /\ UNCHANGED <<up, busVars>>

CoreWidths ==
  /\ core.st = "idle" /\ CoreTakes({"Q"})
  /\ Answers(<<Token("id", 0), Token("widths", 0)>>)
  /\ UNCHANGED <<core, busVars>>

CoreField ==
  /\ core.st \in {"A", "M", "S"} /\ CoreTakes(Commands \cup {"Q", "R", "Rlock", "field"})
  /\ core' = [core EXCEPT
       !.st = "idle",
       !.address = IF core.st = "A" THEN Head(down).v ELSE @,
       !.misc = IF core.st = "M" THEN Field(Head(down).v, widths.misc) ELSE @]
  /\ UNCHANGED <<up, busVars>>

\* start_read or start_write, with the lock of the command.
Starts(op, data, locked) ==
  /\ core' = [core EXCEPT !.st = op, !.lock = locked]
  /\ bus' = Request(op, core.address, data, locked)
  /\ IF owed # NoRequest THEN owed' = NoRequest /\ UNCHANGED made
                         ELSE made' = "started" /\ UNCHANGED owed
  /\ UNCHANGED <<up, req, reply>>

CoreReads ==
  /\ core.st = "idle" /\ CoreTakes({"R", "Rlock"})
  /\ Starts("read", 0, Head(down).t = "Rlock")

CoreWrites ==
  /\ core.st \in {"W", "Wlock"} /\ CoreTakes(Commands \cup {"Q", "R", "Rlock", "field"})
  /\ Starts("write", Head(down).v, core.st = "Wlock")

CoreBusy == core.st \in {"read", "write"}

BusAnswers ==
  /\ CoreBusy
  /\ \E a \in {"ACK", "NAK"} :
       /\ Answers(IF core.st = "read" THEN <<Token(a, 0), Token("data", 0)>> ELSE <<Token(a, 0)>>)
       /\ made' = IF made = "started" THEN a ELSE made
  /\ core' = [core EXCEPT !.st = "idle"] /\ bus' = NoRequest
  /\ UNCHANGED <<open, gone, timeout, lastError, call, todo, ret, down, widths, shadow, wanted,
                 req, owed, reply>>

ServerStep == ServerCloses /\ UNCHANGED <<widths, shadow, core, wanted, busVars>>

-----------------------------------------------------------------------------
Program ==
  \/ WriteCtrlLock \/ ReadCtrlLock \/ ReadModifyWrite \/ SetMiscellaneous \/ SetStrobe
  \/ Getter \/ SetTimeout \/ Throw \/ Open \/ Close \/ Delete

Library ==
  \/ SendStep \/ TimeoutStep \/ BreakStep \/ SizesStep \/ WrongSizesStep
  \/ AnswerStep \/ ShadowStep \/ ModifyStep \/ ModifyThrows \/ ReturnStep

Core ==
  \/ CoreReset \/ CoreCommand \/ CoreWidths \/ CoreField \/ CoreReads \/ CoreWrites
  \/ BusAnswers

Next == Program \/ Library \/ Core \/ ServerStep

\* The thread in the library is run; server, core and bus may take any time.
Fairness == WF_vars(Library)

Spec == Init /\ [][Next]_vars /\ Fairness

-----------------------------------------------------------------------------
\* A token that waits is one the core is waiting for.  Bytes that come while an
\* access is under way would be lost or shifted into the write data.
InStep ==
  down # <<>> /\ Head(down).t # "reset" =>
    ~CoreBusy /\ (Head(down).t = "field" <=> core.st \in Commands)

\* An answer that arrives is the one the call waits for, never the late answer
\* to an earlier call or to an earlier connection.
AnswersMatch ==
  up # <<>> /\ call \in {"read", "write", "rmw"} =>
    /\ todo # <<>> /\ Head(todo).as = "answer"
    /\ Head(up).t \in {"ACK", "NAK"} /\ Len(up) = Head(todo).n
    /\ gone \/ Head(up).t = made

\* What a register will hold when the core has taken all tokens.
AfterDown(command, register) ==
  LET sets == {i \in 1..(Len(down) - 1) : down[i].t = command}
  IN IF sets # {} THEN down[Max(sets) + 1].v
     ELSE IF core.st = command /\ down # <<>> THEN Head(down).v ELSE register

Connected == open /\ ~gone /\ call = "none"

\* The misc signals get the fields of the helper, in the order of the table
\* of the masters (rtl/BusAccess/README.md: hprot & hsize).
MiscArrives == Connected => Field(AfterDown("M", core.misc), widths.misc) = wanted

\* Between the two accesses of a read_modify_write the bus stays locked, and the
\* write goes to the address of the read.
LockHeld ==
  call = "rmw" /\ req.op = "write" /\ made = "no" /\ ~gone =>
    core.lock /\ core.address = req.addr

\* A close that succeeds has lost nothing of what was sent before.
CloseDelivers ==
  [][call = "close" /\ call' = "none" /\ ret' = "OK" /\ ~gone => down = <<>> /\ core.st = "idle"]_vars

\* Every access the bus sees is one the program has asked for, once, with its
\* address, data and lock, and every answer is the one to its access.
RB == INSTANCE RemoteBus WITH
        Requests <- Requests, NoRequest <- NoRequest,
        req <- req, made <- made, owed <- owed, bus <- bus, reply <- reply
IsRemoteBus == RB!Spec

\* With a timeout no call waits for ever, whatever server, core and bus do.
CallReturns == call # "none" /\ timeout ~> call = "none"

=============================================================================
