---------------------------- MODULE IoViewProofs ----------------------------
(***************************************************************************)
(* The safety invariants of IoView for cores of any widths.  Control is    *)
(* what the flags say of each other, Panel what the controls show.         *)
(***************************************************************************)
EXTENDS IoView, TLAPS

Control ==
  /\ handle /\ ~failing => timer
  /\ failing => ~timer
  /\ window = "open" => (failing <=> pending)
  /\ window = "closed" => ~handle /\ ~timer
  /\ ~handle => ~timer
  /\ dialog = "connect" \/ messages > 0 => ~handle
  /\ messages > 0 => ~pending

Panel == OutputsShown /\ (inText # None => inText = leds /\ inText = oldText)

IInv == TypeOK /\ Control /\ Panel

LEMMA InitIInv == Init => IInv
<1> SUFFICES ASSUME Init PROVE IInv
  OBVIOUS
<1>1. Flags
  BY DEF Init, Flags
<1>2. TypeOK
  BY <1>1 DEF Init, TypeOK, NoPorts, Bits
<1>3. Control /\ Panel
  BY DEF Init, Control, Panel, OutputsShown
<1> QED BY <1>2, <1>3 DEF IInv

-----------------------------------------------------------------------------
LEMMA NextFlags == Flags /\ [Next]_vars => Flags'
<1> SUFFICES ASSUME Flags, [Next]_vars PROVE Flags'
  OBVIOUS
<1> USE DEF Flags
<1>1. CASE UNCHANGED vars
  BY <1>1 DEF vars
<1>2. CASE Connect \/ DialogCancel \/ ConnectFails \/ Connected \/ Disconnect
  BY <1>2 DEF Connect, DialogCancel, ConnectFails, Connected, Disconnect, FailNow, Close
<1>3. CASE CheckBox \/ TextEnter \/ BadText
  BY <1>3 DEF CheckBox, TextEnter, BadText, SetOutput, Fail
<1>4. CASE Notify
  BY <1>4 DEF Notify, NotifyReads, NotifyFails, NotifyReturns, Fail
<1>5. CASE PostponedFail
  BY <1>5 DEF PostponedFail, FailNow, Close
<1>6. CASE About \/ Dismiss \/ Quit \/ InputsChange
  BY <1>6 DEF About, Dismiss, Quit, InputsChange
<1> QED BY <1>1, <1>2, <1>3, <1>4, <1>5, <1>6 DEF Next

LEMMA NextTypeOK == IInv /\ [Next]_vars => TypeOK'
<1> SUFFICES ASSUME IInv, [Next]_vars PROVE TypeOK'
  OBVIOUS
<1>0. Flags'
  BY NextFlags DEF IInv, TypeOK
<1> USE <1>0, IoViewAssumption DEF TypeOK, IInv, Bits, NoPorts, panelVars
<1>1. CASE UNCHANGED vars
  BY <1>1 DEF vars
<1>2. CASE Connect \/ DialogCancel \/ About \/ Dismiss
  <2>1. dialog' \in {"none", "connect", "about"} /\ messages' \in {0, 1}
    BY <1>2 DEF Connect, DialogCancel, About, Dismiss
  <2>2. UNCHANGED <<window, handle, ports, timer, failing, pending, panelVars, outputs, inputs>>
    BY <1>2 DEF Connect, DialogCancel, About, Dismiss
  <2> QED BY <2>1, <2>2
<1>3. CASE ConnectFails \/ Disconnect
  BY <1>3 DEF ConnectFails, Disconnect, FailNow, Close, SetPortWidths, Top
<1>4. CASE PostponedFail
  BY <1>4 DEF PostponedFail, FailNow, Close, SetPortWidths, Control
<1>5. CASE Connected
  BY <1>5 DEF Connected, SetPortWidths
<1>6. CASE CheckBox
  <2>1. boxes' \subseteq Bits(ports.nOut) /\ outText' \subseteq Bits(ports.nOut + 1)
    BY <1>6 DEF CheckBox
  <2>2. UNCHANGED <<window, dialog, leds, inText, oldText, inputs>> /\ SetOutput(boxes')
    BY <1>6 DEF CheckBox
  <2> QED BY <2>1, <2>2 DEF SetOutput, Fail
<1>7. CASE TextEnter
  <2>1. boxes' \subseteq Bits(ports.nOut) /\ outText' \subseteq Bits(ports.nOut + 1)
    BY <1>7 DEF TextEnter
  <2>2. UNCHANGED <<window, dialog, leds, inText, oldText, inputs, messages, handle, ports>>
    BY <1>7 DEF TextEnter, SetOutput, Fail
  <2> QED BY <2>1, <2>2
<1>8. CASE BadText
  BY <1>8 DEF BadText
<1>9. CASE Notify
  <2>1. UNCHANGED <<window, dialog, messages, handle, ports, boxes, outText, inputs>>
    BY <1>9 DEF Notify, NotifyReads, NotifyFails, NotifyReturns, Fail
  <2>2. leds' \subseteq Bits(ports.nIn)
    BY <1>9 DEF Notify, NotifyReads, NotifyFails, NotifyReturns, SetLeds
  <2>3. inText' \in (SUBSET InBits) \cup {None} /\ oldText' \in (SUBSET InBits) \cup {None}
    BY <1>9 DEF Notify, NotifyReads, NotifyFails, NotifyReturns, SetLeds
  <2> QED BY <2>1, <2>2, <2>3
<1>10. CASE Quit \/ InputsChange
  <2>1. UNCHANGED <<dialog, messages, ports, boxes, outText, leds, inText, oldText>>
    BY <1>10 DEF Quit, InputsChange
  <2>2. window' \in {"open", "closed"} /\ inputs' \subseteq InBits
    BY <1>10 DEF Quit, InputsChange
  <2>3. handle' => handle
    BY <1>10 DEF Quit, InputsChange
  <2> QED BY <2>1, <2>2, <2>3
<1> QED BY <1>1, <1>2, <1>3, <1>4, <1>5, <1>6, <1>7, <1>8, <1>9, <1>10 DEF Next

-----------------------------------------------------------------------------
LEMMA NextControl == TypeOK /\ Control /\ [Next]_vars => Control'
<1> SUFFICES ASSUME TypeOK, Control, [Next]_vars PROVE Control'
  OBVIOUS
<1> USE DEF Control, Main, Top
<1>1. CASE UNCHANGED vars
  BY <1>1 DEF vars
<1>2. CASE Connect \/ DialogCancel \/ About \/ Dismiss
  BY <1>2 DEF Connect, DialogCancel, About, Dismiss, TypeOK
<1>3. CASE ConnectFails \/ Disconnect
  BY <1>3 DEF ConnectFails, Disconnect, FailNow, Close
<1>4. CASE Connected
  BY <1>4 DEF Connected
<1>5. CASE PostponedFail
  BY <1>5 DEF PostponedFail, FailNow, Close
<1>6. CASE CheckBox \/ TextEnter
  <2>1. PICK word : SetOutput(word)
    BY <1>6 DEF CheckBox, TextEnter
  <2>2. window = "open" /\ dialog = "none" /\ messages = 0 /\ UNCHANGED <<window, dialog>>
    BY <1>6 DEF CheckBox, TextEnter
  <2> QED BY <2>1, <2>2 DEF SetOutput, Fail
<1>7. CASE BadText
  BY <1>7 DEF BadText
<1>8. CASE Notify
  BY <1>8 DEF Notify, NotifyReads, NotifyFails, NotifyReturns, Fail
<1>9. CASE Quit \/ InputsChange
  BY <1>9 DEF Quit, InputsChange
<1> QED BY <1>1, <1>2, <1>3, <1>4, <1>5, <1>6, <1>7, <1>8, <1>9 DEF Next

-----------------------------------------------------------------------------
\* A write that is not reported as failed leaves pins, boxes and text the same.
LEMMA OutputsAfterSetOutput ==
  ASSUME NEW word, SetOutput(word), boxes' = word \cap Bits(ports.nOut), outText' = word, OutputsShown
  PROVE  OutputsShown'
<1>1. CASE ~handle \/ failing
  <2>1. handle' = handle /\ failing' = failing
    BY <1>1 DEF SetOutput
  <2>2. ~(handle' /\ ~failing')
    BY <1>1, <2>1
  <2> QED BY <2>2 DEF OutputsShown
<1>2. CASE handle /\ ~failing
  BY <1>2 DEF SetOutput, OutputsShown, Fail
<1> QED BY <1>1, <1>2

LEMMA NextOutputsShown == TypeOK /\ OutputsShown /\ [Next]_vars => OutputsShown'
<1> SUFFICES ASSUME TypeOK, OutputsShown, [Next]_vars PROVE OutputsShown'
  OBVIOUS
<1>1. CASE UNCHANGED vars
  BY <1>1 DEF vars, panelVars, OutputsShown
<1>2. CASE Connect \/ DialogCancel \/ About \/ Dismiss \/ InputsChange
  BY <1>2 DEF Connect, DialogCancel, About, Dismiss, InputsChange, panelVars, OutputsShown
<1>3. CASE ConnectFails \/ Disconnect \/ PostponedFail \/ Quit
  BY <1>3 DEF ConnectFails, Disconnect, PostponedFail, Quit, FailNow, Close, OutputsShown
<1>4. CASE Connected
  BY <1>4 DEF Connected, SetPortWidths, OutputsShown
<1>5. CASE CheckBox
  <2>1. boxes' = boxes' \cap Bits(ports.nOut)
    BY <1>5 DEF CheckBox, TypeOK
  <2> QED BY <1>5, <2>1, OutputsAfterSetOutput DEF CheckBox
<1>6. CASE TextEnter
  BY <1>6, OutputsAfterSetOutput DEF TextEnter
<1>7. CASE BadText
  BY <1>7 DEF BadText, OutputsShown, TypeOK
<1>8. CASE Notify
  BY <1>8 DEF Notify, NotifyReads, NotifyFails, NotifyReturns, Fail, OutputsShown
<1> QED BY <1>1, <1>2, <1>3, <1>4, <1>5, <1>6, <1>7, <1>8 DEF Next

LEMMA NextPanel == TypeOK /\ Panel /\ [Next]_vars => Panel'
<1> SUFFICES ASSUME TypeOK, Panel, [Next]_vars PROVE Panel'
  OBVIOUS
<1>0. OutputsShown'
  BY NextOutputsShown DEF Panel
<1> USE <1>0 DEF Panel, panelVars
<1>1. CASE UNCHANGED vars
  BY <1>1 DEF vars
<1>2. CASE Connect \/ DialogCancel \/ About \/ Dismiss \/ InputsChange \/ Quit
  BY <1>2 DEF Connect, DialogCancel, About, Dismiss, InputsChange, Quit
<1>3. CASE ConnectFails \/ Disconnect \/ PostponedFail \/ Connected
  BY <1>3 DEF ConnectFails, Disconnect, PostponedFail, Connected, FailNow, Close, SetPortWidths
<1>4. CASE CheckBox \/ TextEnter \/ BadText
  BY <1>4 DEF CheckBox, TextEnter, BadText
<1>5. CASE Notify
  BY <1>5 DEF Notify, NotifyReads, NotifyFails, NotifyReturns, SetLeds
<1> QED BY <1>1, <1>2, <1>3, <1>4, <1>5 DEF Next

LEMMA Invariant == Spec => []IInv
<1>1. IInv /\ [Next]_vars => IInv'
  BY NextTypeOK, NextControl, NextPanel DEF IInv
<1> QED BY <1>1, InitIInv, PTL DEF Spec

-----------------------------------------------------------------------------
\* Type correctness; a failure is reported once, a word never exceeds its boxes.
THEOREM TypeCorrect == Spec => []TypeOK
<1>1. IInv => TypeOK
  BY DEF IInv
<1> QED BY <1>1, Invariant, PTL

\* What the panel shows is what the core drives, for ports of any widths.
THEOREM Shown == Spec => []OutputsShown
<1>1. IInv => OutputsShown
  BY DEF IInv, Panel
<1> QED BY <1>1, Invariant, PTL

\* No connection is left without a timer or a pending report.
THEOREM Polls == Spec => []PollingGoesOn
<1>1. IInv => PollingGoesOn
  BY DEF IInv, Control, PollingGoesOn, TypeOK, Flags
<1> QED BY <1>1, Invariant, PTL

\* The event loop of a message box meets neither timer nor connection.
THEOREM ClosedBeforeMessage == Spec => []MessageAfterClose
<1>1. IInv => MessageAfterClose
  BY DEF IInv, Control, MessageAfterClose
<1> QED BY <1>1, Invariant, PTL

\* The value in hex is never one the LEDs do not show.
THEOREM TextRight == Spec => []TextNotWrong
<1>1. IInv => TextNotWrong
  BY DEF IInv, Panel, TextNotWrong
<1> QED BY <1>1, Invariant, PTL

\* The panel is right about the pins, for ports of any widths.
THEOREM PanelRight == Spec => []PanelShows
<1>1. OutputsShown /\ TextNotWrong => PanelShows
  BY DEF PanelShows
<1> QED BY <1>1, Shown, TextRight, PTL

\* A connection ends by the user or with the report of its own failure, and its
\* controls last as long as it does.  The dialog is open without a connection only,
\* and a postponed failure that meets a connection is the failure of that one.
THEOREM Lasts == Spec => ConnectionLasts
<1> DEFINE Ends == handle /\ (~handle' \/ ports' # ports)
           Due  == Disconnect \/ Quit \/ (failing /\ ~handle' /\ messages' > messages)
<1>1. TypeOK /\ Control /\ [Next]_vars => [Ends => Due]_vars
  <2> SUFFICES ASSUME TypeOK, Control, [Next]_vars, Ends PROVE Due
    OBVIOUS
  <2>1. window = "open" /\ dialog # "connect" /\ messages = 0
    BY DEF Control, TypeOK
  <2>2. CASE UNCHANGED vars \/ Connect \/ DialogCancel \/ About \/ Dismiss \/ InputsChange
    BY <2>2 DEF vars, Connect, DialogCancel, About, Dismiss, InputsChange
  <2>3. CASE ConnectFails \/ Connected
    BY <2>1, <2>3 DEF ConnectFails, Connected, Top
  <2>4. CASE CheckBox \/ TextEnter \/ BadText
    BY <2>4 DEF CheckBox, TextEnter, BadText, SetOutput, Fail
  <2>5. CASE Notify
    BY <2>5 DEF Notify, NotifyReads, NotifyFails, NotifyReturns, Fail
  <2>6. CASE PostponedFail
    <3>1. failing /\ ~handle' /\ messages' = messages + 1
      BY <2>1, <2>6 DEF PostponedFail, FailNow, Close, Control
    <3> QED BY <2>1, <3>1
  <2> QED BY <2>2, <2>3, <2>4, <2>5, <2>6 DEF Next
<1>2. IInv => TypeOK /\ Control
  BY DEF IInv
<1> QED BY <1>1, <1>2, Invariant, PTL DEF Spec, ConnectionLasts

=============================================================================
