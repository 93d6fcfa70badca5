------------------------------ MODULE HostLink ------------------------------
(***************************************************************************)
(* What the host libraries of BusAccess and WaveformGenerator have in      *)
(* common: a handle with a socket, a timeout and a last error, and calls   *)
(* that send bytes and wait for answers.  WaveformGenerator.c has a copy   *)
(* of these functions of BusAccess.c.                                      *)
(*                                                                         *)
(* A call is the list of the steps it still has to do.  The server at the  *)
(* other end of the socket (OpenOCD, UartBridge, CoSim) passes on what it  *)
(* gets, in order.  `down' and `up' are all that is on its way, a token    *)
(* being a command or a field of any number of bytes.                      *)
(***************************************************************************)
EXTENDS Naturals, Sequences, SequencesExt

CONSTANT NetSize     \* tokens on their way down until send() blocks

ASSUME HostLinkAssumption == NetSize \in Nat \ {0}

VARIABLES
  open,        \* handle->socket is valid
  gone,        \* the server has closed this connection or was lost
  timeout,     \* handle->timeoutMs is not 0
  lastError,   \* handle->lastError is not empty
  call, todo,  \* the call in progress, "none" between calls, and its steps
  ret,         \* what the last call returned, "OK" until it does
  down, up     \* on the way to the core, and from it

linkVars == <<open, gone, timeout, lastError, call, todo, ret, down, up>>

Token(t, v) == [t |-> t, v |-> v]

\* The steps: send a token, receive n tokens, anything else without the socket.
Send(t, v)    == [do |-> "send", tok |-> Token(t, v), n |-> 0, as |-> "nothing"]
Receive(n, a) == [do |-> "receive", tok |-> Token("none", 0), n |-> n, as |-> a]
Local(a)      == [do |-> "local", tok |-> Token("none", 0), n |-> 0, as |-> a]

LinkInit ==
  /\ open = FALSE /\ gone = FALSE /\ timeout = TRUE /\ lastError = FALSE
  /\ call = "none" /\ todo = <<>> /\ ret = "OK"
  /\ down = <<>> /\ up = <<>>

-----------------------------------------------------------------------------
\* begin(), or a check of the arguments, fails.
Refuse ==
  /\ ret' = "ERROR" /\ lastError' = TRUE
  /\ UNCHANGED <<open, gone, timeout, call, todo, down, up>>

\* A call without I/O.
Succeed ==
  /\ ret' = "OK" /\ lastError' = FALSE
  /\ UNCHANGED <<open, gone, call, todo, down, up>>

Begin(name, steps) ==
  /\ lastError' = FALSE
  /\ call' = name /\ todo' = steps /\ ret' = "OK"
  /\ UNCHANGED <<open, gone, timeout, down, up>>

\* getaddrinfo(), connect(): the server takes a new client when it has passed
\* on or dropped what the last one sent; answers without a client are lost.
Connect(name, steps) ==
  /\ down = <<>> /\ up' = <<>>
  /\ open' = TRUE /\ gone' = FALSE
  /\ lastError' = FALSE
  /\ call' = name /\ todo' = steps /\ ret' = "OK"
  /\ UNCHANGED <<timeout, down>>

\* closeSocket(): the server drops what it has not yet passed on, what it still
\* sends is read and thrown away.
CloseSocket ==
  /\ open' = FALSE /\ gone' = FALSE
  /\ down' \in Prefixes(down) /\ up' = <<>>

Return(r, error) ==
  /\ ret' = r /\ lastError' = error
  /\ call' = "none" /\ todo' = <<>>
  /\ UNCHANGED timeout

-----------------------------------------------------------------------------
Next_is(what) == todo # <<>> /\ Head(todo).do = what

Sends ==
  /\ Next_is("send")
  /\ IF gone THEN UNCHANGED down
             ELSE Len(down) < NetSize /\ down' = Append(down, Head(todo).tok)
  /\ todo' = Tail(todo)
  /\ UNCHANGED <<open, gone, timeout, lastError, call, ret, up>>

CanReceive == Next_is("receive") /\ Len(up) >= Head(todo).n
Received   == SubSeq(up, 1, Head(todo).n)

\* The answer is one the step accepts.
Receives(more) ==
  /\ CanReceive
  /\ up' = SubSeq(up, Head(todo).n + 1, Len(up))
  /\ todo' = more \o Tail(todo)
  /\ UNCHANGED <<open, gone, timeout, lastError, call, ret, down>>

\* The answer is none the step accepts.
Misreceives ==
  /\ CanReceive
  /\ up' = SubSeq(up, Head(todo).n + 1, Len(up))

Waits ==
  \/ Next_is("receive") /\ Len(up) < Head(todo).n
  \/ Next_is("send") /\ ~gone /\ Len(down) = NetSize

\* Mutant: the connection stays open after a timeout.
TimesOutOpen ==
  /\ Waits /\ timeout
  /\ Return("ERROR", TRUE)
  /\ UNCHANGED <<open, gone, down, up>>

\* Mutant: the timeout is not set for the socket.
TimesOutNever ==
  /\ FALSE
  /\ UNCHANGED linkVars

\* send() or recv() ends after the timeout: the state of the protocol is
\* unknown, so the connection is closed.
TimesOut ==
  /\ Waits /\ timeout
  /\ Return("ERROR", TRUE)
  /\ CloseSocket

\* recv() returns 0 or an error, or send() an error: only open() and close()
\* close the connection then.
Breaks(closing) ==
  /\ gone
  /\ Next_is("send") \/ (Next_is("receive") /\ Len(up) < Head(todo).n)
  /\ Return("ERROR", TRUE)
  /\ IF closing THEN CloseSocket ELSE UNCHANGED <<open, gone, down, up>>

\* The server closes the connection or is lost.
ServerCloses ==
  /\ open /\ ~gone
  /\ gone' = TRUE
  /\ down' \in Prefixes(down)
  /\ UNCHANGED <<open, timeout, lastError, call, todo, ret, up>>

\* The core sends: nobody gets it when there is no connection.
Answers(tokens) == up' = IF open /\ ~gone THEN up \o tokens ELSE up

=============================================================================
