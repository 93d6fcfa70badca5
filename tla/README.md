# IPDBG in TLA+

Specifications, model-checking runs and proofs for [IPDBG](../src/README.md):
debug cores for FPGAs, the transports that connect them to a host, and the host
libraries. The specifications are translated from the VHDL and C sources; line
references below are to `src/`.

## The system

```
 host tool ── TCP ── OpenOCD ── JTAG ── JtagHub ─┬─ (clock domain crossing) ─ core
 (BusAccess.c, WaveformGenerator.c, IoView)      ├─ core
 host tool ── TCP ── UartBridge ── UART ── IpdbgUart ── core
```

A core is connected by a byte stream in each direction with a valid/ready
handshake. What the bytes mean is between the host tool and the core.

| Component | State | Operations | Interacts with | What makes it correct |
|---|---|---|---|---|
| **JtagHub** `rtl/JtagHub/JtagCdc.vhd` | data register, synchronizer, one output stage (register + 3 places) per channel with flow control, one byte per channel towards the host, one word register, xoff/xon state | Capture-DR, Update-DR, one step per edge of `clk` | host (DR scans), cores (handshake) | no byte lost, doubled, reordered or sent to another channel; host and hub agree on the stopped channels; every stopped channel reopens; no core starves another |
| **IpdbgClockDomainCrossing** `rtl/common` | per direction: transfer register, request, busy / acknowledge, valid, data, two synchronizers | one step per edge of either clock, reset of either side | hub, core | a buffer of one byte; the data is stable when sampled; no deadlock after a reset |
| **Escaping** `rtl/common/IpdbgEscaping.vhd`, `IpdbgBusAccess_sendWithEscaping` | decoder state, one register; library: connection | send a byte, open, close, decode | transport, core | the core sees the bytes of the current connection, after a reset |
| **BusAccess core** `rtl/BusAccess` | command state machine, shift registers, bus master handshake, lock | command bytes, bus acknowledge | decoder, bus | one answer per command, in order; one bus access per command; lock from the start of a locked to the end of the next unlocked access |
| **BusAccess library** `sw/BusAccess/BusAccess.c` | socket, widths, address shadow | open, close, read, write, read_modify_write, set misc/strobe | socket | the answer belongs to the command; the shadow is the core's address; nothing is used after a timeout |
| **LogicAnalyser** `rtl/LogicAnalyser` | capture memory and its counter, controller, run length coder, trigger | sample, arm, trigger, drain, commands | decoder, probe | 2^ADDR_WIDTH samples with the trigger at the requested place; each read out once, in order; the coder is lossless |
| **WaveformGenerator** `rtl/WaveformGenerator`, `sw/WaveformGenerator` | two sample buffers, writer, reader, controller | write samples, start, stop, one shot, status | decoder, output | a period is played from one waveform; a buffer is not written while it is played; the length is the length written |
| **IpdbgUart** `rtl/Uart` | receiver, transmitter, hand-over registers | bit times, byte to / from the core | serial line, core | a byte on the line is a byte to the core |
| **Iurt** `rtl/Iurt/IurtCore.vhd` | 16550 register subset, RBR, THR, interrupts | bus read / write, byte from / to the host | bus, hub | an overrun is reported; the THRE interrupt is not lost |
| **IoProbe** `rtl/IoProbe` | output and input registers | as BusAccess without a bus | BusAccess library | the pins are what was written last |
| **IoView** `sw/IoView` | connection, one-shot poll timer, failure to report, the controls of the panel | timer, postponed call, dialogs and message boxes with event loops of their own, controls | BusAccess library, user | the panel agrees with the core; a connection polls until its failure is reported |
| **UartBridge** `sw/UartBridge/UartBridge.cpp` | one session, two pump threads, `running`, `sessionActive`, `serialFailed` | accept, pump, end of session | socket, serial port | one session at a time; both pumps end; the bytes of one session do not reach the next |
| **CoSim**, TAP files, `dffpc_*`, bindings, packaging | – | – | – | not modelled: simulation aid, vendor primitives, presentation |

What is hard to test here: two or three clocks whose edges interleave freely,
flow control with words in flight in both directions, resets in the middle of a
handshake, connections that break between two bytes, timeouts with the answer
still on its way, two threads of which either may see the end first, event loops
that nest, and buffers with one place too few. `PROJECT.json`, `hazards`, lists each with its line and the properties
that cover it.

## Modules

| Module | Contents |
|---|---|
| `HubOutputStage` | the output stage of a channel with flow control as a record and its next-state functions; no variables |
| `JtagHub` | the hub, its TAP and the host of its test bench; extends `HubOutputStage` |
| `ByteBuffer` | what a link promises that takes one byte at a time (abstract) |
| `ClockDomainCrossing` | one direction of the crossing; implements `ByteBuffer` (`IsBuffer`) |
| `ClockDomainCrossingProofs` | the theorems about it |
| `JtagHubProofs` | the theorems about the hub: the output stage as a queue, both directions, the answer to a reset, the flow control |
| `Escaping`, `EscapingProofs` | host library, transport and decoder of the escaped byte stream; theorems |
| `HostLink` | what the two host libraries share: handle, socket, timeout, calls as lists of steps |
| `BusAccess` | the library on a `HostLink`, the core's command state machine, its bus; implements `RemoteBus` |
| `RemoteBus` | what the library promises to a program (abstract) |
| `BusAccessProofs` | the theorems about `BusAccess`, that it implements `RemoteBus` among them |
| `WaveformController` | the controller of the waveform generator, used by the next two |
| `WaveformGenerator` | its library on a `HostLink`, with the controller |
| `WaveformCore` | controller, the two memories, writer and reader |
| `WaveformProofs` | the theorems about these two |
| `LogicAnalyser`, `LogicAnalyserProofs` | controller, memory and trigger register of the logic analyser; theorems |
| `UartBridge`, `UartBridgeProofs` | the threads of the bridge, its clients and serial port; theorems |
| `IoView`, `IoViewProofs` | the program with its event loops, and the pins of IoProbe; theorems |
| `MC…` | the modules TLC is run on |

`BusAccess` and `WaveformGenerator` compose library, connection and core;
`HostLink` and `WaveformController` are shared by extension. `Escaping` shows what
these two take for granted of the bytes: a new connection starts with a core in
its reset state, and a field arrives as it was sent.

### JtagHub

One step is one rising edge of `clk` (`Clk`), which takes all clocked processes
of `JtagCdc.vhd` at once, or an event of the TAP. Each process is one operator:
it reads the unprimed registers and gives its own primed ones, as the VHDL
signal assignment does, so the conjunction of the processes is the edge. The
last assignment of a process wins; where the code relies on it (the release and
the acceptance of a byte in `input_buffering`, `xoff_host_set` over
`clear_xoff_bits`), the operator has the same priority. A vector with one bit per
channel is the set of channels whose bit is set. The `ce` input is left out: an
edge with `ce = '0'` changes nothing in this clock domain.

A scan is two steps. `CaptureDR` loads the data register. `SendByte`, `Poll` and
`ResetHub` are Update-DR together with what the host does with the word it has
shifted out (`tb_JtagHub.vhd:221-287`, a model of the ipdbg server of OpenOCD):
`distribute`, then `check_for_xoff`. The bits in between are not steps of their
own, since nothing but `dr` and the sent flags moves with them. `AbortScan` is a
scan that leaves Shift-DR after one to ten bits; it is enabled by the constant
`AbortedScans`.

`since` counts the edges of `clk` since Update-DR. The synchronizer takes the
update at the edge `SyncEdges = MFF_LENGTH + 2`. A metastable flip-flop makes it
one edge later; the host is always free to wait, and nothing of the hub but the
registers behind `dwn_do_update` depends on the exact edge. `ScanGap` is the
number of edges of `clk` between Update-DR and the next Capture-DR, at least.
**The hub needs a gap of `MFF_LENGTH + 5` edges**, an assumption of the module
(`HubAssumption`): one edge less, TLC violates `OpenChannelHasRoom` and
`DownIntegrity` (the xoff bit is captured before the byte of the scan before has
reached the output stage); two less, `ResetAnswered` and `UpIntegrity` as well.
No document states that limit. The test bench keeps it: three TCK cycles, each
five periods of `clk`.

`host` is "connect" before a tool has reset the hub, "answer" between the reset
word and the scan that brings the answer, then "run". A host may reset the hub
again at any time. The flip-flops start at '0', the configuration value of the
`dffpc` primitives; before the reset the hub then holds one undefined byte per
channel, which the first scans may return.

`to_core` and `to_host` are histories: what the host has sent to a channel and
its core has not taken, and what the hub has taken from a core and the host has
not received. A reset of the hub empties them.

### ClockDomainCrossing

`SenderEdge` and `ReceiverEdge` are the edges of the two clocks. They interleave
freely, so every ratio and phase of the clocks, stopped clocks included, is a
behaviour. A flip-flop that samples a signal in the moment it changes takes the
old or the new value, as the two orders of the edges do. `ResetSender` and
`ResetReceiver` are one edge with the reset of one side; the synchronizers have
no reset and go on shifting.

### Escaping

The host library sends byte by byte; `payload` holds the byte whose escape
symbol has been sent. `Close` can follow any byte and drops any suffix of what is
on the way, as OpenOCD and the reset of the hub do. `ClkEdge` is an edge of the
decoder's clock with any `dnlink_ready` of the core.

### HostLink, BusAccess, RemoteBus

A call of the library is the list `todo` of what it still has to do: send a
token, receive an answer, or something local. The operations of the library build
the list (`SendAddress`, `ReadSteps`, …), the steps of `HostLink` work it off, so
every send and every receive is a step of its own at which the server may be
lost, the timeout may expire or the core may act. `down` and `up` are all that is
on its way; `NetSize` is what fits until `send()` blocks. A token is a command or
a whole field. `TimesOut` closes the connection, as `BusAccess.c:187-207` does,
and drops any suffix of what is on its way; `Breaks` is an error or an end of
file, after which the handle keeps its socket. `ServerCloses` may happen at any
time. The call after it fails, and `Open` starts again with a reset of the core.

The core is `BusAccessStatemachine.vhd`: one action per command, the fields it
waits for, the access (`Starts`) and the answer of the bus (`BusAnswers`), ACK or
NAK at any time. `shadow` is `AddressShadow`. `wanted` is a history variable, the
value the program has set for the misc signals; `req`, `made`, `owed`, `bus` and
`reply` are those of `RemoteBus`, the abstract specification: a request is one
access, made at most once, with the address, data and lock asked for. A request
that fails may still be made later, but not after a new connection is opened.
`Ask` to `Reply` may interleave with anything; `IsRemoteBus` says that every step
of library, connection, core and bus is such a step or none.

Assumed: the server takes the next client only after it has passed on or dropped
what the last one sent; answers without a client are lost; `setsockopt()` and
`malloc()` do not fail, and no call is interrupted by a signal; the core answers
the width query in one piece (`CoreWidths`), though in the code it sends byte by byte; `MISC_INIT` is 0; a byte of read data is not taken
for an identification. An escape symbol and its byte are two `send()`s
(`BusAccess.c:223`): what is left when only the first is sent is in `Escaping`.

### WaveformController, WaveformGenerator, WaveformCore

`WaveformController` has the controller's states as far as the two other modules
need them: it waits for a command, for the bytes of a number, or for samples. In
`WaveformGenerator` the library drives it: `write()` sends the number, the
samples, and waits through signs of life for the answer to the last sample, which
the core may drop while the hub is not ready for them. In `WaveformCore` commands come
in any order, each sample is the number of the write command it came with, and
`rep` collects the numbers heard in the current repetition. Reading is one step
per `sample_enable`; the registers between controller, memory and output are
passed in less time than a byte takes and are not kept. `Depth` is the size of
the memory; it need not be a power of two in the model. The input `one_shot`, the
command and the start of a slave are the cases of `ReadIdle`. Registers that the
VHDL leaves at '-' get any value.

### LogicAnalyser

One step is one edge of `clk`, with a sample (`se`) or without. `m` is the state
machine of the memory, `c` the controller, `w`, `wDly` and `rPipe` the registers
in front of and behind the RAM, `trg` the trigger register of the top level. A
sample is its number in the capture, modulo twice the size of the memory: so a
sample of this lap differs from one of the lap before, and one of an earlier
capture is `None`. A capture starts at address 0, since the ring looks the same
from everywhere. The masks of the trigger are not kept: any sample may match, which covers
`ext_trigger` as well. What is read out before the memory is full is not used and
not kept. The bytes of a sample and the answers to the commands are single steps
that take any time. The module is about `RUN_LENGTH_COMPRESSION = 0`; the words
of the coder would be the samples otherwise.

### UartBridge

`Main`, `Session`, `Down` and `Up` are the four threads; a step is what a thread
does up to its next access to something it shares. A blocking `recv()` or
`send()` is a step that is enabled when the system lets it return. A connection
is "open" or "left", which is all the bridge can learn of its client. `Backlog`
is the queue of `listen()`. Bytes are "fresh" or, when they arrived before the
session, "stale".

### IoView

There is one thread, and a step is one event handler, up to the point where it
opens a dialog or a message box. These run event loops of their own, so timers
and postponed calls happen while the handler that opened them is still waiting:
`dialog` and `messages` are these loops. `Notify` is the poll timer,
`PostponedFail` the `CallAfter` of `fail()`. `outputs` and `inputs` are the pins of
IoProbe; a read or write of the BusAccess library succeeds or fails. A word is
the set of its bits that are 1. Text that is typed and not yet entered is no
state; calls that are postponed in a nested loop run before the dialog is
answered; the cores have at least one pin each way.

## Runs

| Run | Module, bounds | Shows |
|---|---|---|
| `hub_flow` | `MCJtagHub`: 2 channels, flow control on channel 1, a host for both, cores that send on both, 1 byte value, `MFF_LENGTH` 1, `ScanGap` 6, fair | `TypeOK`; `DownIntegrity`, `UpIntegrity`: each direction carries every byte once, in order; `XoffAgreement`: between two scans host and hub agree on the stopped channels; `OpenChannelHasRoom`: a channel that may be sent to has room for all that can be on its way; `ResetAnswered`; `HeldUntilTaken`; `StoppedChannelReopens`, `UpByteLeaves` |
| `hub_short` | 2 channels, flow control on channel 1, a core that sends on channel 0, 2 byte values, aborted scans | `DownIntegrity` still holds |
| `hub_abort` | as `hub_short` | finding: `ReceivedBeforeReleased` is violated |
| `hub_overrun` | 3 channels, flow control on two of them, all cores send and none takes a byte, aborted scans | finding: `DownIntegrity` is violated |
| `cdc` | `MCClockDomainCrossing`: 3 synchronizer flip-flops (the default of the code), 2 byte values, 2 resets of one side, fair | `StableWhileLoaded`; `IsBuffer`: until a side is reset alone the crossing is a buffer of one byte; `ReadyAgain`: no reset blocks the sender for ever |
| `escaping` | `MCEscaping`: the two symbols and one other byte, 4 bytes in the transport, 3 bytes per connection, any number of connections | `SessionIntegrity`: what the core will have seen is what was sent in this connection; `OfferedByteIsHeld` |
| `busaccess` | `MCBusAccess`: four cores (Avalon with addresses; AXI4-Lite; AHB with 4 bits of hprot; one with a strobe register), 2 addresses, 1 data word, 3 tokens on the way | `InStep`: no byte is taken for something else; `AnswersMatch`: no late answer is taken for the next; `IsRemoteBus`: each access is one the program asked for, once; `LockHeld`, `MiscArrives`, `CloseDelivers`; `CallReturns`: with a timeout every call returns |
| `wfg` | `MCWaveformGenerator`: memory of 4 samples, waveforms of 1 to 4, 3 writes, 3 tokens on the way | `InStep`; `DoneMeansArrived`: a call that succeeds has done what it says |
| `wfg_core` | `MCWaveformCore`: memory of 3 samples, 2 writes, all generics | `CleanSwitch`: a repetition is one waveform; `RepetitionLength`; `NewestIsPlayed` |
| `analyser` | `MCLogicAnalyser`: memory of 4 samples, delays 0, 1 and 3, fair | `CaptureIsRight`: the host gets the samples around the trigger, in order, each once; `EveryCaptureIsSent` |
| `uart_bridge` | `MCUartBridge`: 2 connections that wait, any number in all, fair threads | `PortOwnership`; `NoStaleByte`; `PumpsEnd`: the end of the client, or of the serial port, reaches the other pump |
| `ioview` | `MCIoView`: a core with 1 input and 2 outputs, one with 2 and 1, any number of connections, fair | `PanelShows`, `PollingGoesOn`, `LedsFollow`; `ConnectionLasts`: only the user or its own failure ends a connection |

`hub_flow`, `escaping`, `wfg_core`, `uart_bridge` and `ioview` check the type invariant as
well; it is proved for each of them, and for the crossing.

`busaccess_hprot.cfg` is one more configuration of `MCBusAccess`, to be checked by hand
(`tlc -config busaccess_hprot.cfg MCBusAccess`). It is not one of the project's runs,
none of which has a core with that defect: see the findings.

Why the bounds are enough. The hub treats its channels alike: what differs is
flow control or not, and whose turn it is, so two channels and the hub itself
show every pairing; `hub_overrun` has a third one, since the xon must wait behind the
words of other channels. Channel 0 is the one an empty word names, so the
channel with flow control is number 1 in `hub_flow`. While no scan is cut short, or
one channel alone has flow control, the output stage fills up to its register and
two of the three places behind it, at any gap the assumption allows (proved:
`RoomForByte`). Two byte values show an
exchange of two neighbours: `hub_short` and `hub_abort` have them. `hub_flow` follows
all channels under fairness, where a second value would cost too many states; the
proofs are for every set of bytes. Longer synchronizers only shift the edge
`SyncEdges`; the gap grows with them. The crossing's proofs hold for every
`MFF_LENGTH`. The histories need no bound, since the flow control bounds them; only in
`hub_short`, where the hub releases words the host has not got, `to_host` would grow for
ever. No guard reads it, so the run looks at the states without it (`VIEW`). The
specification of `hub_overrun`, `StalledSpec`, is a choice of behaviours of `Spec`: no
core takes a byte, each sends without pause, `clk` stands during a scan, and the host
sends a byte with every whole scan. The shortest way to the loss has more than a
hundred steps.
The transport of `escaping` holds two resets, an escape symbol and a byte; the
bounds `LinkSize`, `SessionSize` and `MaxResets` are constants and stand in the
guards.

In `busaccess` a call puts at most six tokens on their way; with room for three a
`send()` blocks in the middle of a call, and a connection can break off at every
token. The cores differ in which registers they have and where the fields of the
misc signals end. In `wfg` a waveform is longer than what is on its way, so signs
of life come before its end; three writes are one that fails, one after it and
one more. In `wfg_core` the memory has room for every length that matters: one
sample, fewer than the memory holds, and all; the second write is the one that a
double buffer takes and a single one does not. In `analyser` the delays are the
three ways through the state machine: none, one (`near_delay` is set at once), and
the last (the trigger comes with the last free sample). `uart_bridge` needs a
client that waits while another has the bridge, and `ioview` two cores, each wider
than the other on one side. `MaxWrites`, `NetSize` and `Backlog` stand in the
guards.

Deadlock is checked in every run but `uart_bridge`, where the program may exit,
and `ioview`, whose window may be closed.

### Fairness

`JtagHub!Fairness`: `clk` runs (`WF(ClkEdge)`); the host goes on scanning once a
tool is connected, as OpenOCD polls (`WF` of the capture and of the update); a
core that is offered a byte does not refuse it forever (`WF` of the edges in which
it takes it), which the protocol demands of a core
(`rtl/common/README.md`, "Core interface"). Nothing forces the host to send, to
reset or not to reset.

`ClockDomainCrossing!Fairness`: both clocks run, and the other side takes a byte
that it is offered. `Escaping` has no liveness property.

`BusAccess` and `WaveformGenerator`: the thread that is in the library is run
(`WF(Library)`). Nothing is assumed of the server, the core and the bus, so
`CallReturns` is stated for a handle with a timeout. `WaveformCore`:
`sample_enable` comes again (`WF(Read)`). `LogicAnalyser`: samples come again; the
host takes what is sent to it and completes the commands it begins (a `WF` each),
as both handshakes go through the hub, which does not lose its turn (`UpByteLeaves`);
and the host does not begin a command at every single edge at which the
controller could take one (`SF`): a byte takes many edges of `clk`.

`UartBridge`: each thread is run (`WF` per thread). That a client reads or sends is
*not* assumed, nor that the core answers: a pump may stay in `recv()` or `send()`
for ever, if nothing else wakes it. `IoView`: timers and postponed calls are served
by whichever event loop runs (`WF`). No user input is assumed.

## Findings

`hub_abort`: `rtl/JtagHub/README.md:199-200` promises "A word from the hub counts
as received only if the scan shifted all 13 bits; otherwise the hub sends it
again." The flags `xoff_sent_x` and `up_transfer_register_valid_sent_x` are
flip-flops whose clock enable comes with the last bits of a scan
(`JtagCdc.vhd:131-167`) and which nothing clears. After a full scan that returned a
valid word the flag stays '1'. The hub loads its next word; a scan of one to ten
bits then passes Update-DR, the synchronizer takes the old '1', and the hub
releases a word that no host has seen. If that word is an xon, the channel stays
stopped; if it is the answer to a reset, the host gets none (TLC violates
`ResetAnswered` when scans are cut short).

`hub_overrun`: the stale `xoff_sent_x` can cost a byte. A full scan returns an xoff for
channel 1 and sends a byte to channel 0, to which the mux of the xoff bit then turns.
A short scan repeats the flag, and the hub marks channel 0 as stopped
(`JtagCdc.vhd:462-465`), which the host has not stopped. So the hub owes channel 0 an
xon. While that xon waits behind the words of three cores, the host fills channel
0 and is rightly stopped; then the xon arrives and opens it with two bytes behind
its output register. The next byte takes the third place, and the one sent in the
scan that returns the xoff is dropped. `rtl/JtagHub/README.md:211-213` promises "With
xoff = 1, the host stops sending to that channel. The hub still takes the byte sent
in the scan that returned the xoff." With one channel with flow control this
cannot happen, since the channel the flag is repeated for is the one that is
stopped: `hub_short` shows it, and `DownlinkCorrect` proves it.

Checked by hand, `busaccess_hprot.cfg`, with an AHB master that has seven bits of
hprot, lets TLC violate `MiscArrives` (no run of `PROJECT.json` shows this): `IpdbgAhbAccess_setHprotHsize()` sends `hsize | hprot << 3` in
two bytes, but the upper one is `hprot >> 3` instead of `hprot >> 5`
(`BusAccess.c:823-826`). `rtl/BusAccess/README.md` puts hprot directly above hsize,
and an AHB master may have seven bits of it (`AhbMaster.vhd:31`). Then bits 5 and 6
of hprot do not arrive, and bits 3 and 4 appear a second time in their place. With
four bits, the default, the upper byte is cut off and nothing is wrong; `busaccess`
has that core.

What else the code does that a reader may not expect. The properties leave these
cases out, as said, and no run shows them (`PROJECT.json`, `hazards`, has the lines).
The first four are quoted with the sentence of the documents that they bear on:

* A waveform of one sample is not repeated alone: the end is seen when the address
  has gone through the whole memory (premise `Bounded`).
  `sw/WaveformGenerator/README.md:57`: "A waveform is a sequence of 1 to
  2^`ADDR_WIDTH` samples". The same with the one-shot is right.
* A stop during a one-shot is lost. `sw/WaveformGenerator/README.md:65`: "Ends the
  playback", with no exception. (So is a stop that comes while a slave waits for its
  sync; no sentence says what it means there.)
* A second write before the generator has switched goes into the memory that is
  being played (premise `NotOverwritten`). `sw/WaveformGenerator/README.md:73-81` does
  not mention the case: "A new waveform can be written at any time", and with a
  double buffer "the output changes cleanly from the old to the new waveform".
* In IoView the hex value of the inputs stays empty after a new connection until
  the inputs change, since `oldText` is static. `sw/IoView/README.md:99`: "One LED per
  input, the most significant input on the left, and the value in hex".
* After a `write()` that lost its server, a sign of life may still be in the socket;
  the next call takes it for its answer and fails or returns a wrong status.
* The trigger register of the logic analyser keeps the last manual trigger until
  the next sample: a capture with delay 0 that begins before it is triggered at once.
* `UartBridge` closes the client's socket before it clears `sessionActive`: a client
  that comes at once may still be refused.

## Proofs

### JtagHub

For every number of channels, every set of channels with flow control, every
length of the synchronizer, every gap that `HubAssumption` allows and every
behaviour of the cores:

* the output stage: `StageIsQueue`, `StageHoldsByte` – a step of the output
  stage is a step of a queue, if a byte arrives only while its second place is free;
* `HubTypeCorrect` – `TypeOK`, with and without aborted scans;
* towards the host: `UplinkCorrect` – `UpIntegrity`; `ResetIsAnswered` –
  `ResetAnswered`;
* towards the cores: `FlowAgreement` – `XoffAgreement`; `OpenHasPlace` –
  `OpenChannelHasRoom`; `DownlinkCorrect` – `DownIntegrity`; `OfferIsHeld` –
  `HeldUntilTaken`.

`UplinkCorrect`, `ResetIsAnswered` and `FlowAgreement` are proved under `~AbortedScans`:
`hub_abort` shows that the uplink does not survive a scan that is cut short, and with a
receipt that was wrong a channel stays stopped for the host alone. The other three
are proved under `OneChannelIfAborted`: no scan is cut short, or at most one channel has
flow control. `hub_overrun` shows that they need it. What is left of the agreement
under that premise is `OwedXonIsNeeded` (`NoNeedlessXon`): the hub owes an xon only to
channels that the host holds back.

The invariants build on each other. `TypeInv` adds to `TypeOK` when a register
holds a byte and when a message of the hub: `dr` holds the host's word between
two scans, and the word register a message exactly for the function number `HUB`.
`UpInv` adds the timing of an update (`dwn_do_update` and `clear` are up in one
cycle each, counted by `since`), and that the word of the hub does not change
between the Capture-DR that copies it and the cycle that processes its receipt;
so a receipt is about the word in the register (`ReceiptOfWord`), and the buffer
it releases is the one the host has. `AnswerInv` follows a reset word through the
synchronizer and `clear` to the answer.

`FlowInv` is the flow control, and stands on `LinkInv`, what holds of the scans even if
they are cut short. Hub and host differ in their view of a channel only while
something is on the way: a receipt of an xon (`Closing`), or an xoff
(`XoffPending`). `Agreement` says that what is stopped for the hub, apart from that, is
stopped for the host; and for whole scans that these are the only differences, and
never both. `StaleXoffIsTrue` says that an xoff which a short scan would repeat is of
a channel that is stopped: the mux is at that channel, or turns to it with a word
that was sent while the flag was '0'. Here the proof needs the one channel
(`XoffIsShown`: an xoff that is returned is of a channel with flow control).
An open channel has its places behind the
output register free, but for one byte while the next xoff bit is about it
(`OpenHasRoom`), which holds as the mux of the xoff bit follows the channel of the
host's last byte (`MuxFollowsHost`) and has settled when the next scan captures it
(`XoffIsShown`: here the proof needs the gap of `MFF_LENGTH + 5` edges). A channel in
an xon is empty and has nothing on its way (`XonIsSafe`), and no xoff in the data
register contradicts that xon (`XoffIsMeant`). With `RoomForByte` every byte that
reaches a stage then finds a place, and `StageIsQueue` gives `DownIntegrity`: the bytes of
a channel are those of its stage and at most one on its way (`DownBytesValue`).
Each invariant was checked by TLC on the instances of the runs before its proof.

### ClockDomainCrossing

`ClockDomainCrossingProofs` proves, for every set of bytes, every `MFF_LENGTH`
greater than zero and every bound on the resets:

* `Invariance`: `Spec => []IInv`, the inductive invariant;
* `Stable`: the invariant `StableWhileLoaded` of the run `cdc`;
* `TypeCorrect` (`TypeOK`), `NeverTwice` and `ReadyEmpty`: the types and two more facts of
  the handshake, which no run checks;
* `Implements`: the step simulation of `ByteBuffer` (`IsBuffer`).

The assumptions are those of `CdcAssumption`. The properties of the data are not
inductive: whether the receiver may load depends on what is still in the two
synchronizers. `IInv` adds what the four-phase handshake guarantees while no side
has been reset alone: request and acknowledge change alternately, each only after
the other has passed the whole synchronizer, so a synchronizer holds at most one
edge: its flip-flops are all equal to the input from some place backwards. The
lemmas `ClockedHigh`, `ClockedLow` and `Levels` say this of one shift of a
synchronizer, and each step of the two sides is then a case of where the
handshake is. After a reset of one side only the types remain, and `ReadyAgain`
is left to TLC: it needs fairness.

### Escaping

For every set of bytes, every capacity of the transport and every length of a
connection: `TypeCorrect`; `OfferIsHeld` (`OfferedByteIsHeld`); `SessionsAreSeparate`
(`SessionIntegrity`). For the second the invariant has `Offer`: while the decoder
resets the core it offers no byte, so a byte that is taken is taken by a core that is
not in reset.

`SessionIntegrity` says what the decoder will have made of all symbols on their way:
`Reading`, a recursive function of how many of them it has read. Induction over data is
out of the prover's reach as a theorem with an operator as its parameter, but the
library has the well-foundedness of `<` on the numbers and `WFMin`, for a set: so a
fact about all prefixes is proved by taking the shortest one for which it fails
(lemma `LeastNumber`). That the function exists, that one symbol more behind is
one step more, and that one less in front is the decoder having taken it, are lemmas
of this kind (`ReadingAppended`, `ReadingTail`, `ReadingPrefix`); with them each action
changes the end of `Reading` by at most one step of the decoder.

### BusAccess

For every set of cores, every `NetSize` and all data; `BusAccessAssumption` says that
widths, data and the arguments of the helpers are numbers:

* `CoreInStep` – `InStep`; `AnswersAreTheirs` – `AnswersMatch`; `LockIsHeld` –
  `LockHeld`; `CloseLosesNothing` – `CloseDelivers`;
* `ImplementsRemoteBus` – `IsRemoteBus`, step by step;
* `MiscIsThere` – `MiscArrives`, for cores that have not ten misc signals: with ten it
  is false, as the findings say.

None of these is inductive, since the library sends without waiting: what the core
will do is decided while the tokens that make it do so are still on their way.
`Run` is therefore the core's registers after each of the tokens in `down`, `Final`
after the last of them, and `Lawful` says that each token meets a core that waits for
it. As in `EscapingProofs` the lemmas about them go by the least number
(`TakesAppended`: a token is sent; `TakesFirst`: the core takes one; `Dropped`: the server
drops some at the end). `Final` changes only when something is sent, and a step of the
core leaves it as it is.

The invariant `IInv` then relates four places. The call: `AccessPlan` and `OtherPlan`
give the whole list `todo` as a function of the request and the number of steps left
to the answer (`Ahead`). The way down: `TokensRight`, and `Final` for each value of
`Ahead` (`AccessProgress`, `OtherProgress`); this is where the shadow is the address the
core will have. `Between` is the lock between the two accesses of a
`read_modify_write`. The way up: `AnswersRight`, what can be in `up` for the step the
call is at; `Questions`, that nothing is sent behind a width query before its answer,
which is why a `close()` that gets it has lost nothing. And the history: `AccessRight`,
an access that `Final` shows to begin is the one asked for, or the one an earlier call
owes, and `Connections`. After a lost connection only what does not depend on the
call remains (`Live`). The initial state and each action of program, library, core
and server have a lemma; a call that fails, by whatever cause, is one (`CallFails`).

`MiscRight` is added for the misc signals: `wanted` is `Final` of the register, or the
value still to be sent. `MiscAfter` relates it to the last command `M` on its way. That
a field is not changed by cutting it off twice needs that `2^n` is a positive number,
which the library gives as the size of a power set.

### WaveformGenerator

For every size of the memory, every number of samples and writes and every `NetSize`:
`ControllerInStep` – `InStep`; `SuccessMeansDone` – `DoneMeansArrived`. The plan is that
of the section before (`Run`, `Final`, `Lawful` of the controller); new is that a
write waits while signs of life arrive. `Progress` says for each step that is left of
a call which state the controller will be in when it has taken what is on its way, its
count of samples included (`Ready`, `WillBe`), that no command is behind a sample on
its way (`OnTheirWay`), and that an answer is there only when all has arrived
(`Answered`); the number of samples is quantified, since it is in none of the
variables once the last one is sent. `UpRight` is the way up: signs of
life that may be left over from a connection that was lost, and then the answer.
`DoneMeansArrived` is an action property: it follows for the step that returns, where
`Answered` holds.

### UartBridge

For every `Backlog`: `TypeCorrect`, `Owned` (`PortOwnership`) and `Fresh`
(`NoStaleByte`). `PortOwnership` is not inductive: that a thread is started only
where none is left depends on where the session stands. `Places` says where each
pump can be for each place of the session thread (`Ownership`), and when `main` may
take the next connection (`Taking`). `Freshness` adds that the session drops what
has arrived before it starts the pumps.

### IoView

For every set of cores: `TypeCorrect`, `PanelRight` (`PanelShows`), `Polls`
(`PollingGoesOn`), `Lasts` (`ConnectionLasts`), and a fact on which the code relies but
which no run needs, `ClosedBeforeMessage` (`MessageAfterClose`). `ConnectionLasts` is
an action property: `Control` has what it needs, that the dialog is open without a
connection only, and that a failure that is postponed while there is a connection is
the failure of that one. The invariant is `TypeOK`, `Control` (which of connection, timer,
`failing`, postponed call and message box can be together) and `Panel`, which
strengthens `PanelShows` by the static `oldText`: a text that is shown is the one
that was compared last.

### WaveformCore

For every size of the memory, every number of writes and all generics:
`TypeCorrect` (`CoreTypeOK`), `Clean` (`CleanSwitch`), `WholeRepetitions` (`RepetitionLength`). The
invariant says of the write side what the write that has begun has already
stored, and which buffer it goes to (`WriteSide`); of the waveform that is next,
and of the one that is played, that all its samples up to the last one are of its
write while no write too many has begun (`Sound(next)`, `Sound(rd)`); and of the
reader that its address is inside the waveform and counts the samples played
(`Inside`), which are all of it (`OneWaveform`).

### LogicAnalyser

For every size of the memory and every set of delays (`LogicAnalyserAssumption`):
`CaptureCorrect` (`CaptureIsRight`), and `RingIsWhole`: when a capture is complete, every
place of the memory holds a sample of it.

A sample has a number modulo twice the size of the memory, so the newest ones are told
apart. `Numbered` ties the write address to that number; from there every statement
is about the sample `k` before the present one (`Back`). The memory is seen through
its pipeline: `Ring` is what the RAM will hold when the two writes on their way have
arrived, so a sample is in its place from the edge that takes it, and a write moves
along without changing anything (`RingStep`). While the memory records, `Fills` says
that the last `counter` samples are those of the capture, and which state of the
machine has how many of them. When it is full, `Empties` says that these are all
places (`Whole`); that the last two writes arrive before the first read needs them,
while `ready` counts up (`Arriving`); and that what is read is the oldest sample not
handed over (`Reading`). `Sends` is the controller: what is in its two registers and
what the host has are the samples up to that one. `Handshakes` holds the two state
machines together, and `Fresh` says that a capture begins with nothing sent.

The arithmetic is in lemmas about `%` with a window of two sizes (`NextNumber`,
`OneBack`, `OneFurther`, `PlaceNext`), since the provers know nothing of a modulus that is
not a number. TLC checked the invariant for memories of two and four samples first.

## Only model-checked, and not modelled

Liveness (`StoppedChannelReopens`, `UpByteLeaves`, `ReadyAgain`, `CallReturns`,
`NewestIsPlayed`, `EveryCaptureIsSent`, `PumpsEnd`, `LedsFollow`) is always left to
TLC: it is out of the prover's reach. Every safety property of a passing run is a
theorem, under no other premise than the assumptions on the constants but for the
hub (whole scans, or one channel with flow control) and `MiscArrives` (not ten misc
signals), where the findings show that they need it.

After a reset of one side alone the crossing may lose a byte or pass it twice;
that is how the code is, and no property claims otherwise. With clocks that
interleave adversarially a handshake that has slipped by one phase can stay so,
but the sender always becomes ready again (`ReadyAgain`).

Not modelled:

* of the hub: the bits of a scan, `TDI_HAS_EXT_REGISTER` (another place for the
  same bit), scans that end after 11 or 12 bits, and OpenOCD itself;
* of BusAccess: the handshakes of the six bus masters with their buses. The bus
  answers every access at any time; `RiscvDtm`, whose `operation` does not return
  to `OP_NOOP` after an access (`RiscvDtm.vhd:146`), would not answer the second one;
* of the logic analyser: the masks of the trigger and the run length coder;
* `IpdbgUart`: its subject is the timing of bits, which a model without time would
  have to assume; `Iurt`: not yet; its bus wrappers are wiring and its registers
  generated;
* CoSim, the TAP files, language bindings, packaging and drawing.

## What is left

1. The bus masters, `RiscvDtm` first, behind the state machine of `BusAccess`, with a
   bus that follows its protocol.
2. `IurtCore`: overrun and THRE interrupt. The run length coder in front of
   `LogicAnalyser`.
3. Compositions: hub and crossing (the crossing as the core of a channel with flow
   control); decoder behind the output stage.
4. Proofs: the steps of the crossing after a reset of one side, as far as they still
   keep a byte.
