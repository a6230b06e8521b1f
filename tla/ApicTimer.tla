----------------------------- MODULE ApicTimer -----------------------------
(***************************************************************************)
(* calibrate_apic_timer of apic.c: the period of the APIC timer is         *)
(* measured against channel 2 of the PIT, with interrupts off.             *)
(*                                                                         *)
(* Time goes by in ticks of the PIT, at most MaxDelay of them at each step *)
(* of the code.  The two devices are modelled from how apic.c programs     *)
(* them: control word 10110010b is mode 1, in which a rising edge of the   *)
(* gate starts the count at the next tick, and OUT, bit 5 of port 61h, is  *)
(* low while it counts and high before and after.                          *)
(***************************************************************************)
EXTENDS Naturals

CONSTANTS
  TickCnt,   \* tick_cnt: ticks of the PIT in 10 ms
  Ratio,     \* ticks of the APIC timer in one of the PIT
  MaxDelay,  \* bound: ticks of the PIT that one step of the code may take
  MaxCount   \* the count that the APIC timer starts from, 0xFFFFFFFF

ASSUME ApicTimerAssumption ==
  /\ TickCnt \in Nat \ {0} /\ Ratio \in Nat \ {0} /\ MaxDelay \in Nat \ {0}
  /\ MaxCount \in Nat

VARIABLES
  tpc,             \* where calibrate_apic_timer is
  gate, out, pit,  \* the PIT: its gate, OUT, and what is left to count
  triggered,       \* an edge of the gate that the next tick starts a count for
  counted,         \* what APIC_TMRCURRCNT is below MaxCount
  initcnt,         \* what APIC_TMRINITCNT is set to in the end
  delay            \* ticks since the last step of the code

pitVars == <<gate, out, pit, triggered>>
timerVars == <<tpc, pitVars, counted, initcnt, delay>>

TimerInit ==
  /\ tpc = "prepare"
  /\ gate \in BOOLEAN /\ out \in BOOLEAN /\ pit = 0 /\ triggered = FALSE
  /\ counted = 0 /\ initcnt = 0 /\ delay = 0

CodeStep(from, to) == tpc = from /\ tpc' = to /\ delay' = 0

(* pit_prepare_sleep: gate high, mode 1, count tick_cnt. *)
pit_prepare_sleep ==
  /\ CodeStep("prepare", "start")
  /\ gate' = TRUE /\ out' = TRUE
  /\ UNCHANGED <<pit, triggered, counted, initcnt>>

(* lapic_write(APIC_TMRINITCNT, 0xFFFFFFFF) *)
StartApicTimer ==
  /\ CodeStep("start", "gate_low")
  /\ counted' = 0
  /\ UNCHANGED <<pitVars, initcnt>>

(* pit_perform_sleep *)
GateLow ==
  /\ CodeStep("gate_low", "gate_high")
  /\ gate' = FALSE
  /\ UNCHANGED <<out, pit, triggered, counted, initcnt>>

GateHigh ==
  /\ CodeStep("gate_high", "poll")
  /\ gate' = TRUE /\ triggered' = ~gate
  /\ UNCHANGED <<out, pit, counted, initcnt>>

Poll ==
  /\ CodeStep("poll", IF out THEN "poll" ELSE "stop")
  /\ UNCHANGED <<pitVars, counted, initcnt>>

(* The timer is masked, which does not stop it, and the count read. *)
StopApicTimer ==
  /\ CodeStep("stop", "read")
  /\ UNCHANGED <<pitVars, counted, initcnt>>

ReadCount ==
  /\ CodeStep("read", "done")
  /\ initcnt' = counted \div 10
  /\ UNCHANGED <<pitVars, counted>>

calibrate_apic_timer ==
  \/ pit_prepare_sleep \/ StartApicTimer \/ GateLow \/ GateHigh \/ Poll
  \/ StopApicTimer \/ ReadCount

(* A tick of the PIT.  The APIC timer is periodic and starts over at 0. *)
Tick ==
  /\ tpc # "done" /\ delay < MaxDelay
  /\ delay' = delay + 1
  /\ counted' = IF tpc \in {"prepare", "start"} THEN counted
                ELSE (counted + Ratio) % (MaxCount + 1)
  /\ pit' = IF triggered THEN TickCnt ELSE IF pit > 0 THEN pit - 1 ELSE 0
  /\ out' = IF triggered THEN FALSE ELSE IF pit = 1 THEN TRUE ELSE out
  /\ triggered' = FALSE
  /\ UNCHANGED <<tpc, gate, initcnt>>

TimerSpec == TimerInit /\ [][calibrate_apic_timer \/ Tick]_timerVars

-----------------------------------------------------------------------------
(* Steps between the start of the APIC timer and the reading of it,        *)
(* besides the polling.                                                    *)
Steps == 6

(* "Fire IRQ0 at every millisecond": the period is a tenth of what the     *)
(* APIC timer counts in 10 ms, or more by the time the code itself takes.  *)
EveryMillisecond ==
  tpc = "done" =>
    initcnt \in ((TickCnt * Ratio) \div 10) .. (((TickCnt + Steps * MaxDelay) * Ratio) \div 10)
=============================================================================
