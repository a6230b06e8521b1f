------------------------------- MODULE Input -------------------------------
(***************************************************************************)
(* From the key to the screen: keyboard_irq decodes a byte and fires an    *)
(* event, and the event bus calls handle_keypress, which terminal_         *)
(* initialize has registered.  Meanwhile a task may be in the middle of    *)
(* registering or unregistering other callbacks: none of the repository    *)
(* does so, but the interface is there for them.                           *)
(***************************************************************************)
EXTENDS Keyboard, EventBus, FiniteSets

CONSTANTS
  MaxBusCalls,  \* bound: calls that register or unregister
  MaxInputs     \* bound: keys pressed and such calls together

VARIABLE busCalls  \* how many there were

inputVars == <<keyboardVars, busVars, busCalls>>

EVENT_KEY_PRESS == "key_press"

ASSUME InputAssumption ==
  /\ First.event_type = EVENT_KEY_PRESS
  /\ MaxBusCalls \in Nat /\ MaxInputs \in Nat

InputInit == KbdInit /\ BusInit /\ busCalls = 0

(* How often fire_event calls handle_keypress. *)
Handlers ==
  LET called == CallsOf(Table, EVENT_KEY_PRESS)
  IN  Cardinality({k \in DOMAIN called : called[k].callback = First.callback})

KeyboardIrq ==
  /\ keyboard_irq(Handlers)
  /\ fire_event(EVENT_KEY_PRESS)
  /\ UNCHANGED busCalls

BusCall ==
  /\ booted /\ busCalls < MaxBusCalls /\ busCalls + presses < MaxInputs
  /\ \E c \in Callbacks, a \in Args :
       \/ \E ty \in EventTypes : register_event_callback(Entry(ty, c, a))
       \/ unregister_event_callback(c, a)
  /\ busCalls' = busCalls + 1
  /\ UNCHANGED keyboardVars

BusStep ==
  /\ CopyType \/ CopyCallback \/ CopyArg \/ CountEntry
  /\ UNCHANGED <<keyboardVars, busCalls>>

UserStep ==
  /\ \E k \in Keys : (busCalls + presses < MaxInputs /\ Press(k)) \/ Release(k)
  /\ UNCHANGED <<busVars, busCalls>>

BootStep == (ioapic_enable \/ pit_prepare_sleep) /\ UNCHANGED <<busVars, busCalls>>

Quiet == panicked \/ (pending = <<>> /\ ~irq1 /\ job = NoJob)

InputNext ==
  \/ ~panicked /\ (KeyboardIrq \/ BusCall \/ BusStep \/ UserStep \/ BootStep)
  \/ Quiet /\ UNCHANGED inputVars

InputSpec == InputInit /\ [][InputNext]_inputVars
=============================================================================
