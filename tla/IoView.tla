------------------------------- MODULE IoView -------------------------------
(***************************************************************************)
(* The IoView program (sw/IoView): the window with its panel, the protocol *)
(* object with its one-shot timer, and the IoProbe core behind the         *)
(* BusAccess library.  There is one thread; a step is an event handler, run *)
(* to the point where it opens a dialog or a message box: these run event  *)
(* loops of their own, in which timers and postponed calls go on.          *)
(*                                                                         *)
(* A word is the set of its bits that are 1.  A bit of a text entry that   *)
(* has no check box is represented by the one with the number nOut.        *)
(***************************************************************************)
EXTENDS Integers

CONSTANTS
  Widths,       \* cores one can connect to: [nIn, nOut]
  None          \* an empty text

ASSUME IoViewAssumption == Widths \subseteq [nIn : Nat \ {0}, nOut : Nat \ {0}]

VARIABLES
  window,       \* "open" or "closed"
  dialog,       \* the dialog that is open: "none", "connect" or "about"
  messages,     \* the number of message boxes open above it
  handle,       \* connected
  ports,        \* the widths the protocol and the panel work with
  timer,        \* the timer runs
  failing,      \* fail() was called, the connection is not yet closed
  pending,      \* the call fail() has postponed
  boxes, outText,         \* the panel: outputs
  leds, inText, oldText,  \* the panel: inputs
  outputs, inputs         \* the pins of the core

panelVars == <<boxes, outText, leds, inText, oldText>>
vars == <<window, dialog, messages, handle, ports, timer, failing, pending, panelVars, outputs, inputs>>

NoPorts == [nIn |-> 0, nOut |-> 0]
Bits(n) == 0..(n - 1)
InBits  == UNION {Bits(w.nIn) : w \in Widths}

Init ==
  /\ window = "open" /\ dialog = "none" /\ messages = 0
  /\ handle = FALSE /\ ports = NoPorts
  /\ timer = FALSE /\ failing = FALSE /\ pending = FALSE
  /\ boxes = {} /\ outText = {} /\ leds = {} /\ inText = None /\ oldText = None
  /\ outputs = {} /\ inputs = {}

\* The main window takes events: no dialog is open.
Main == window = "open" /\ dialog = "none" /\ messages = 0
Top(d) == window = "open" /\ dialog = d /\ messages = 0

-----------------------------------------------------------------------------
\* Mutant: the text control of the last connection is kept.
SetPortWidthsKeepsText(w) ==
  /\ ports' = w
  /\ leds' = {} /\ boxes' = {} /\ outText' = {}
  /\ UNCHANGED <<inText, oldText>>

\* initInputs() and initOutputs(): new controls.  oldText is static.
SetPortWidths(w) ==
  /\ ports' = w
  /\ leds' = {} /\ inText' = None
  /\ boxes' = {} /\ outText' = {}
  /\ UNCHANGED oldText

Close == timer' = FALSE /\ handle' = FALSE /\ SetPortWidths(NoPorts)

FailNow == Close /\ messages' = messages + 1

Fail ==
  /\ failing' = TRUE /\ pending' = TRUE
  /\ timer' = FALSE
  /\ UNCHANGED <<messages, handle, ports>>

\* Mutant: failing is not reset.
PostponedFailKeepsFailing ==
  /\ window = "open" /\ pending
  /\ pending' = FALSE
  /\ FailNow
  /\ UNCHANGED <<window, dialog, failing, outputs, inputs>>

\* The call that fail() has postponed, in whatever event loop runs.
PostponedFail ==
  /\ window = "open" /\ pending
  /\ pending' = FALSE /\ failing' = FALSE
  /\ FailNow
  /\ UNCHANGED <<window, dialog, outputs, inputs>>

-----------------------------------------------------------------------------
\* Mutant: OnConnect does not ask isOpen().
ConnectTwice ==
  /\ Main
  /\ dialog' = "connect"
  /\ UNCHANGED <<window, messages, handle, ports, timer, failing, pending, panelVars, outputs, inputs>>

\* OnConnect: open() up to the dialog.
Connect ==
  /\ Main /\ ~handle
  /\ dialog' = "connect"
  /\ UNCHANGED <<window, messages, handle, ports, timer, failing, pending, panelVars, outputs, inputs>>

DialogCancel ==
  /\ Top("connect")
  /\ dialog' = "none"
  /\ UNCHANGED <<window, messages, handle, ports, timer, failing, pending, panelVars, outputs, inputs>>

\* No connection, no answer, not a BusAccess core, not an IoProbe.  Postponed
\* calls have run in the event loop of the dialog.
ConnectFails ==
  /\ Top("connect") /\ ~pending
  /\ FailNow /\ dialog' = "none"
  /\ outputs' \in {outputs, {}}
  /\ UNCHANGED <<window, failing, pending, inputs>>

\* The library resets the core and asks for its widths.
Connected ==
  /\ Top("connect") /\ ~pending
  /\ dialog' = "none"
  /\ handle' = TRUE
  /\ \E w \in Widths : SetPortWidths(w)
  /\ outputs' = {}
  /\ timer' = TRUE
  /\ UNCHANGED <<window, messages, failing, pending, inputs>>

Disconnect ==
  /\ Main /\ handle
  /\ Close
  /\ UNCHANGED <<window, dialog, messages, failing, pending, outputs, inputs>>

-----------------------------------------------------------------------------
\* IOViewProtocol::setOutput(): an access that fails may have been made.
SetOutput(word) ==
  LET bits == word \cap Bits(ports.nOut) IN
  \/ /\ ~handle \/ failing
     /\ UNCHANGED <<messages, handle, ports, timer, failing, pending, outputs>>
  \/ /\ handle /\ ~failing
     /\ outputs' = bits
     /\ UNCHANGED <<messages, handle, ports, timer, failing, pending>>
  \/ /\ handle /\ ~failing
     /\ outputs' \in {outputs, bits}
     /\ Fail

\* The user switches one box.
CheckBox ==
  /\ Main
  /\ \E i \in Bits(ports.nOut) :
       boxes' = IF i \in boxes THEN boxes \ {i} ELSE boxes \cup {i}
  /\ outText' = boxes'
  /\ SetOutput(boxes')
  /\ UNCHANGED <<window, dialog, leds, inText, oldText, inputs>>

\* Mutant: the surplus bits are not cut off.
TextEnterUncut ==
  /\ Main /\ ports.nOut > 0
  /\ \E word \in SUBSET Bits(ports.nOut + 1) :
       /\ outText' = word
       /\ boxes' = word
       /\ SetOutput(word)
  /\ UNCHANGED <<window, dialog, leds, inText, oldText, inputs>>

\* A word that fits into the bytes of the outputs is taken.
TextEnter ==
  /\ Main /\ ports.nOut > 0
  /\ \E word \in SUBSET Bits(ports.nOut + 1) :
       /\ outText' = word
       /\ boxes' = word \cap Bits(ports.nOut)
       /\ SetOutput(word)
  /\ UNCHANGED <<window, dialog, leds, inText, oldText, inputs>>

\* Anything else is replaced by what the boxes show.
BadText ==
  /\ Main /\ ports.nOut > 0
  /\ outText' = boxes
  /\ UNCHANGED <<window, dialog, messages, handle, ports, timer, failing, pending, boxes, leds, inText, oldText, outputs, inputs>>

-----------------------------------------------------------------------------
\* setLeds(): the text is written only when it has changed.
SetLeds(word) ==
  /\ leds' = word
  /\ IF word = oldText THEN UNCHANGED <<inText, oldText>>
                       ELSE inText' = word /\ oldText' = word

\* Mutant: the timer is restarted only when the inputs have changed.
NotifyReadsRestartsOnce ==
  /\ SetLeds(inputs \cap Bits(ports.nIn))
  /\ timer' = (leds' # leds)
  /\ UNCHANGED <<messages, handle, ports, failing, pending>>

NotifyReads ==
  /\ SetLeds(inputs \cap Bits(ports.nIn))
  /\ timer' = TRUE
  /\ UNCHANGED <<messages, handle, ports, failing, pending>>

NotifyFails == Fail /\ UNCHANGED <<leds, inText, oldText>>

NotifyReturns ==
  /\ timer' = FALSE
  /\ UNCHANGED <<messages, handle, ports, failing, pending, leds, inText, oldText>>

\* The one-shot timer has expired.
Notify ==
  /\ window = "open" /\ timer
  /\ IF handle /\ ~failing THEN NotifyReads \/ NotifyFails ELSE NotifyReturns
  /\ UNCHANGED <<window, dialog, boxes, outText, outputs, inputs>>

-----------------------------------------------------------------------------
About ==
  /\ Main
  /\ dialog' = "about"
  /\ UNCHANGED <<window, messages, handle, ports, timer, failing, pending, panelVars, outputs, inputs>>

Dismiss ==
  /\ window = "open"
  /\ \/ messages > 0 /\ messages' = messages - 1 /\ UNCHANGED dialog
     \/ Top("about") /\ dialog' = "none" /\ UNCHANGED messages
  /\ UNCHANGED <<window, handle, ports, timer, failing, pending, panelVars, outputs, inputs>>

\* OnClose and OnQuit: Destroy(), which deletes the protocol object.
Quit ==
  /\ Main
  /\ window' = "closed"
  /\ timer' = FALSE /\ handle' = FALSE /\ pending' = FALSE
  /\ UNCHANGED <<dialog, messages, ports, failing, panelVars, outputs, inputs>>

InputsChange ==
  /\ window = "open"
  /\ inputs' \in SUBSET InBits
  /\ UNCHANGED <<window, dialog, messages, handle, ports, timer, failing, pending, panelVars, outputs>>

Next ==
  \/ Connect \/ DialogCancel \/ ConnectFails \/ Connected \/ Disconnect
  \/ CheckBox \/ TextEnter \/ BadText
  \/ Notify \/ PostponedFail
  \/ About \/ Dismiss \/ Quit \/ InputsChange

\* Timers and postponed calls are served by every event loop.
Fairness == WF_vars(Notify) /\ WF_vars(PostponedFail)

Spec == Init /\ [][Next]_vars /\ Fairness

-----------------------------------------------------------------------------
Flags == handle \in BOOLEAN /\ timer \in BOOLEAN /\ failing \in BOOLEAN /\ pending \in BOOLEAN

\* The type of the state; no failure is reported by two message boxes, and what
\* the user types never shows in a box that is not there.
TypeOK ==
  /\ Flags
  /\ window \in {"open", "closed"}
  /\ dialog \in {"none", "connect", "about"} /\ messages \in {0, 1}
  /\ ports \in Widths \cup {NoPorts} /\ (handle => ports \in Widths)
  /\ boxes \subseteq Bits(ports.nOut) /\ outText \subseteq Bits(ports.nOut + 1)
  /\ leds \subseteq Bits(ports.nIn)
  /\ inText \in (SUBSET InBits) \cup {None} /\ oldText \in (SUBSET InBits) \cup {None}
  /\ inputs \subseteq InBits

\* Boxes, text and pins agree: a handler that could not write has reported a
\* failure, and a new connection starts with a core that was reset.
OutputsShown ==
  handle /\ ~failing => boxes = outputs /\ outText \cap Bits(ports.nOut) = outputs

\* A connection polls, or its failure is about to be reported: it is never left
\* without a timer by a read, a write or a failure of an earlier connection.
PollingGoesOn == handle => (timer /\ ~failing) \/ (failing /\ pending)

\* While a message box is open, its event loop meets no timer and no connection.
MessageAfterClose ==
  window = "open" /\ messages > 0 => ~handle /\ ~timer

\* The value in hex, where there is one, is the one the LEDs show.
TextNotWrong == inText # None => inText = leds

\* The panel shows what the core drives and what it reads.
PanelShows == OutputsShown /\ TextNotWrong

\* A connection and its controls go together, and only by the user in the main
\* window or with the report of its own failure: neither an open() in the event loop
\* of the dialog nor a failure that an earlier connection has postponed ends it.
ConnectionLasts ==
  [][handle /\ (~handle' \/ ports' # ports) =>
       Disconnect \/ Quit \/ (failing /\ ~handle' /\ messages' > messages)]_vars

\* LEDs of a connection that holds come to show inputs that do not change.
LedsFollow ==
  \A word \in SUBSET InBits :
    <>[](handle /\ ~failing /\ inputs \cap Bits(ports.nIn) = word) => <>[](leds = word)

=============================================================================
