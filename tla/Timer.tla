------------------------------- MODULE Timer -------------------------------
(***************************************************************************)
(* DIV / TIMA / TMA / TAC (crates/gb-core/src/timer.rs) as the scheduler    *)
(* drives it: in every shared T-cycle the timer is ticked once (phase 3)    *)
(* and the CPU then performs at most one write (phase 6).  A CPU M-cycle is *)
(* MCycle T-cycles long and writes in its last one, so two writes are at    *)
(* least MCycle T-cycles apart; `since' counts that distance.               *)
(*                                                                          *)
(* The 16-bit system counter and the 8-bit TIMA are parameters (CounterMod, *)
(* TimaMod).  Bit b of the counter is high iff (counter \div 2^b) is odd,   *)
(* so a TAC selection is given by the half period 2^b of its bit.  While    *)
(* the CPU is stopped the timer is not ticked: that is a stuttering step.   *)
(***************************************************************************)
EXTENDS Integers

CONSTANTS
  CounterMod,   \* 2^16: the system counter wraps here
  TimaMod,      \* 2^8: TIMA wraps here
  Selects,      \* the values of TAC bits 0-1 that software uses
  HalfPeriod,   \* HalfPeriod[s]: 2^bit of the counter bit that s selects
  ApuHalf,      \* ApuHalf[speed]: 2^bit of the DIV-APU bit (12 or 13)
  Corrections   \* counter corrections a boot handoff can apply

ReloadDelay == 4    \* TIMER_RELOAD_DELAY_T_CYCLES
MCycle == 4         \* T-cycles per CPU M-cycle
Speeds == {"Normal", "Double"}

(* selected_timer_bit is 3, 5, 7 or 9. *)
ASSUME HalfPeriodAssumption == HalfPeriod \in [Selects -> {8, 32, 128, 512}]
ASSUME CounterModAssumption ==
  /\ CounterMod \in Nat \ {0}
  /\ \A s \in Selects : CounterMod % (2 * HalfPeriod[s]) = 0
ASSUME TimaModAssumption == TimaMod \in Nat /\ TimaMod > 1
ASSUME ApuHalfAssumption ==
  /\ ApuHalf \in [Speeds -> Nat]
  /\ \A sp \in Speeds : ApuHalf[sp] > 2
ASSUME CorrectionsAssumption == Corrections \subseteq 0..CounterMod - 1

VARIABLES
  phase,            \* "tick": phase 3 is next; "cpu": phase 6 is next
  counter,          \* system_counter
  tima, tma,
  enable, select,   \* TAC bit 2 and bits 0-1
  previous_signal,  \* previous_timer_signal
  overflow,         \* overflow_state: 0 is Idle, k > 0 is Pending{k}
  reloaded,         \* reloaded_this_t_cycle
  apu_fs_offset,
  speed,            \* SpeedController::current_speed
  boot,             \* the boot ROM is still mapped
  since,            \* T-cycles since the last CPU write, at most MCycle
  (* what the T-cycle did, observed by the properties only *)
  irq,              \* this T-cycle queued the Timer interrupt
  apu_edges,        \* DIV-APU edges of this T-cycle
  owed,             \* overflows that have led to no request and no cancel
  dropped           \* some falling edge met a pending overflow and was lost

vars == <<phase, counter, tima, tma, enable, select, previous_signal,
          overflow, reloaded, apu_fs_offset, speed, boot, since,
          irq, apu_edges, owed, dropped>>

Odd(n) == n % 2 = 1

(* wrapping_add on the system counter.                                      *)
wrapping_add(c, n) == (c + n) % CounterMod

(* current_timer_signal; the variant reads the next higher bit.             *)
CurrentSignalBitAbove(e, s, c) == e /\ Odd(c \div (2 * HalfPeriod[s]))
CurrentSignal(e, s, c) == e /\ Odd(c \div HalfPeriod[s])

DivApuSignal(c, off, sp) == Odd(wrapping_add(c, off) \div ApuHalf[sp])

(* increment_tima_on_falling_edge, on a TIMA value and an overflow state    *)
(* that the caller may just have reloaded.                                  *)
IncrementTima(falling, value, ovf, delay, balance) ==
  LET counts    == falling /\ ovf = 0
      overflows == counts /\ value = TimaMod - 1
  IN /\ tima' = IF counts THEN (value + 1) % TimaMod ELSE value
     /\ overflow' = IF overflows THEN delay ELSE ovf
     /\ owed' = IF overflows THEN balance + 1 ELSE balance
     /\ dropped' = (dropped \/ (falling /\ ovf > 0))

(* advance_overflow_pipeline: the ticks left, and what TIMA holds after it. *)
advance_overflow_stuck(ticks_until_reload) == ticks_until_reload
advance_overflow(ticks_until_reload) ==
  IF ticks_until_reload = 0 THEN 0 ELSE ticks_until_reload - 1

reload_tima == IF overflow = 1 THEN tma ELSE tima

(* tick_t_cycle_for_speed: the overflow pipeline first, then the counter.   *)
Tick ==
  /\ phase = "tick"
  /\ phase' = "cpu"
  /\ counter' = wrapping_add(counter, 1)
  /\ LET reload == overflow = 1
         now    == CurrentSignal(enable, select, counter')
     IN /\ reloaded' = reload
        /\ irq' = reload
        /\ IncrementTima(CurrentSignal(enable, select, counter) /\ ~now,
                         reload_tima,
                         advance_overflow(overflow),
                         ReloadDelay,
                         IF reload THEN owed - 1 ELSE owed)
        /\ previous_signal' = now
  /\ apu_edges' = IF DivApuSignal(counter, apu_fs_offset, speed)
                       /\ ~DivApuSignal(counter', apu_fs_offset, speed)
                    THEN 1 ELSE 0
  /\ since' = IF since = MCycle THEN MCycle ELSE since + 1
  /\ UNCHANGED <<tma, enable, select, apu_fs_offset, speed, boot>>

(* The CPU phase passes without a write to the timer's registers.           *)
NoWrite ==
  /\ phase = "cpu"
  /\ phase' = "tick"
  /\ UNCHANGED <<counter, tima, tma, enable, select, previous_signal,
                 overflow, reloaded, apu_fs_offset, speed, boot, since,
                 irq, apu_edges, owed, dropped>>

(* Common part of every CPU write.                                          *)
CpuWrite ==
  /\ phase = "cpu"
  /\ since = MCycle
  /\ phase' = "tick"
  /\ since' = 0
  /\ UNCHANGED <<reloaded, irq>>

(* apply_timer_signal_change: the write may make the selected signal fall.  *)
(* The write comes after the tick of its T-cycle, so a delay of ReloadDelay *)
(* (the late variant) would be one T-cycle late.                            *)
SignalChangeDelayed(delay) ==
  LET now == CurrentSignal(enable', select', counter')
  IN /\ IncrementTima(CurrentSignal(enable, select, counter) /\ ~now,
                      tima, overflow, delay, owed)
     /\ previous_signal' = now
SignalChangeLate == SignalChangeDelayed(ReloadDelay)
SignalChange == SignalChangeDelayed(ReloadDelay - 1)

(* The DIV-APU edge of a divider reset, counted on top of the tick's.       *)
ResetApuEdges(offset) ==
  IF DivApuSignal(counter, apu_fs_offset, speed) /\ ~DivApuSignal(0, offset, speed)
  THEN apu_edges + 1 ELSE apu_edges

(* reset_divider_with_effects_for_speed, for a DIV write (offset 2) or a    *)
(* STOP (offset 0).                                                         *)
ResetDivider(offset) ==
  /\ CpuWrite
  /\ counter' = 0
  /\ apu_fs_offset' = offset
  /\ UNCHANGED <<tma, enable, select, boot>>
  /\ SignalChange
  /\ apu_edges' = ResetApuEdges(offset)

WriteDiv == ResetDivider(2) /\ UNCHANGED speed

(* STOP resets the divider under the current speed; a prepared CGB speed    *)
(* switch toggles the speed afterwards (finalize_cpu_micro_operation).      *)
StopReset ==
  /\ ResetDivider(0)
  /\ \/ UNCHANGED speed
     \/ speed' = CHOOSE sp \in Speeds : sp # speed

(* A TIMA write cancels a pending reload and is ignored in the T-cycle of   *)
(* the reload.                                                              *)
WriteTima(value) ==
  /\ CpuWrite
  /\ ~boot
  /\ tima' = IF reloaded THEN tima ELSE value
  /\ overflow' = IF reloaded THEN overflow ELSE 0
  /\ owed' = IF ~reloaded /\ overflow > 0 THEN owed - 1 ELSE owed
  /\ UNCHANGED <<counter, tma, enable, select, previous_signal,
                 apu_fs_offset, speed, boot, apu_edges, dropped>>

WriteTma(value) ==
  /\ CpuWrite
  /\ ~boot
  /\ tma' = value
  /\ tima' = IF reloaded THEN value ELSE tima
  /\ UNCHANGED <<counter, enable, select, previous_signal, overflow,
                 apu_fs_offset, speed, boot, apu_edges, owed, dropped>>

WriteTac(e, s) ==
  /\ CpuWrite
  /\ ~boot
  /\ enable' = e
  /\ select' = s
  /\ UNCHANGED <<counter, tma, apu_fs_offset, speed, boot, apu_edges>>
  /\ SignalChange

(* The FF50 write that unmaps the boot ROM shifts the counter without       *)
(* looking for an edge (apply_boot_handoff_counter_correction).  The boot   *)
(* ROM, which is not part of the repository, leaves TAC disabled.           *)
BootHandoff(t_cycles) ==
  /\ boot
  /\ CpuWrite
  /\ boot' = FALSE
  /\ counter' = wrapping_add(counter, t_cycles)
  /\ previous_signal' = CurrentSignal(enable, select, counter')
  /\ UNCHANGED <<tima, tma, enable, select, overflow, apu_fs_offset, speed,
                 apu_edges, owed, dropped>>

(* apply_startup_state, under the boot ROM (its power-on counter offset) or *)
(* after a direct boot: the counter depends on the model and the cartridge, *)
(* TIMA and TMA are 0 and TAC is disabled.                                  *)
Init ==
  /\ phase = "tick"
  /\ boot \in BOOLEAN
  /\ counter \in 0..CounterMod - 1
  /\ tima = 0 /\ tma = 0
  /\ enable = FALSE
  /\ select \in Selects
  /\ previous_signal = FALSE
  /\ overflow = 0 /\ reloaded = FALSE
  /\ apu_fs_offset = 0
  /\ speed = "Normal"
  /\ since = MCycle
  /\ irq = FALSE /\ apu_edges = 0 /\ owed = 0 /\ dropped = FALSE

Next ==
  \/ Tick
  \/ NoWrite
  \/ WriteDiv
  \/ StopReset
  \/ \E value \in 0..TimaMod - 1 : WriteTima(value)
  \/ \E value \in 0..TimaMod - 1 : WriteTma(value)
  \/ \E e \in BOOLEAN, s \in Selects : WriteTac(e, s)
  \/ \E t_cycles \in Corrections : BootHandoff(t_cycles)

Spec == Init /\ [][Next]_vars

(* The scheduler runs every phase of every T-cycle.                         *)
FairSpec == Spec /\ WF_vars(Next)

(***************************************************************************)
(* Properties                                                               *)
(***************************************************************************)

(* Every field stays in the range of its Rust type.                         *)
TypeOK ==
  /\ phase \in {"tick", "cpu"}
  /\ counter \in 0..CounterMod - 1
  /\ tima \in 0..TimaMod - 1 /\ tma \in 0..TimaMod - 1
  /\ enable \in BOOLEAN /\ select \in Selects
  /\ previous_signal \in BOOLEAN
  /\ overflow \in 0..ReloadDelay
  /\ reloaded \in BOOLEAN
  /\ apu_fs_offset \in {0, 2}
  /\ speed \in Speeds
  /\ boot \in BOOLEAN
  /\ since \in 0..MCycle
  /\ irq \in BOOLEAN
  /\ apu_edges \in 0..2
  /\ owed \in Int
  /\ dropped \in BOOLEAN

(* Between an overflow and its reload TIMA reads 0, whatever the CPU writes *)
(* to TMA, TAC or DIV meanwhile: the only write that changes TIMA also      *)
(* cancels the reload (write_tima, write_tma, increment_tima).              *)
PendingReadsZero == overflow > 0 => tima = 0

(* In the T-cycle of the reload the CPU finds TIMA equal to TMA and no      *)
(* second overflow under way: no falling edge of the selected bit can share *)
(* a tick with the reload (advance_overflow_pipeline runs before the edge). *)
ReloadShowsTma ==
  phase = "cpu" /\ reloaded => overflow = 0 /\ tima = tma

(* The early return of increment_tima_on_falling_edge never loses a count:  *)
(* no sequence of DIV, TAC and STOP glitches makes the selected signal fall *)
(* while an overflow is pending.                                            *)
NoDroppedEdge == ~dropped

(* Every overflow is settled exactly once, by one interrupt request or by   *)
(* one TIMA write that cancels it; nothing is requested without overflow.   *)
OneRequestPerOverflow == owed = IF overflow > 0 THEN 1 ELSE 0

(* One T-cycle clocks the APU frame sequencer at most once, although both   *)
(* the autonomous tick and a DIV reset in the same T-cycle report edges.    *)
ApuEdgeAtMostOnce == apu_edges <= 1

(* While an overflow is pending no edge can reach TIMA before the reload.   *)
(* Either the overflow came from a write, and then neither the counter nor  *)
(* the next write can produce an edge in time, or it came from a tick, and  *)
(* then every selectable bit has just been low, and a write that selected   *)
(* another bit leaves no time for a second write.                           *)
EdgesAreFar ==
  LET period == 2 * HalfPeriod[select]
  IN overflow > 0 =>
       \/ /\ since + overflow = ReloadDelay - 1
          /\ enable => (counter % period) + overflow < period
       \/ /\ (counter % 16) + overflow < 16
          /\ \/ since + overflow <= ReloadDelay
             \/ (counter % period) + overflow = ReloadDelay

(* Under the boot ROM the timer is off.                                     *)
BootTimerOff == boot => ~enable /\ overflow = 0 /\ ~reloaded

(* After an edge of the autonomous tick the DIV-APU signal is low.          *)
ApuEdgeThenLow ==
  phase = "cpu" =>
    /\ apu_edges <= 1
    /\ apu_edges = 1 => ~DivApuSignal(counter, apu_fs_offset, speed)

(* The inductive invariant of TimerProofs.                                  *)
TimerInv ==
  /\ TypeOK /\ PendingReadsZero /\ ReloadShowsTma /\ NoDroppedEdge
  /\ OneRequestPerOverflow /\ EdgesAreFar /\ BootTimerOff
  /\ ApuEdgeThenLow /\ ApuEdgeAtMostOnce

(* An autonomous TIMA count happens exactly when the counter reaches a      *)
(* multiple of the selected period: the edge detector neither skips nor     *)
(* repeats a period across wrap, reload and earlier glitches.               *)
CountsOncePerPeriod ==
  [][Tick => (CurrentSignal(enable, select, counter)
                /\ ~CurrentSignal(enable, select, counter'))
             <=> (enable /\ counter' % (2 * HalfPeriod[select]) = 0)]_vars

(* The T-cycles until an enabled timer that is left alone requests its      *)
(* interrupt: the rest of this period, a period for every count that is     *)
(* missing, and the reload delay.                                           *)
UntilRequest ==
  LET period == 2 * HalfPeriod[select]
  IN IF overflow > 0 THEN overflow
     ELSE (TimaMod - 1 - tima) * period + (period - (counter % period)) + ReloadDelay

(* The request comes in exactly that T-cycle, from every state that writes  *)
(* to DIV, TIMA, TMA and TAC can leave behind: no glitch, wrap of the       *)
(* counter or reload moves it by a T-cycle (tick_t_cycle_for_speed,         *)
(* advance_overflow_pipeline, increment_tima_on_falling_edge).              *)
RequestComesOnTime ==
  [][Tick /\ enable => IF UntilRequest = 1 THEN irq'
                       ELSE ~irq' /\ UntilRequest' = UntilRequest - 1]_vars

(* If the CPU eventually leaves an enabled timer alone, the timer keeps     *)
(* requesting interrupts.                                                   *)
EnabledTimerKeepsFiring ==
  <>[](enable /\ since = MCycle) => []<>irq
=============================================================================
