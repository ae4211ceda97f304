------------------------------ MODULE Machine ------------------------------
(***************************************************************************)
(* One T-cycle of the emulated machine as machine/step.rs schedules it,     *)
(* restricted to what decides when the CPU runs, sleeps, wakes and takes    *)
(* interrupts: the CPU execution states (cpu/cycle.rs, interrupt_control),  *)
(* IF/IE (Interrupts), the P1 matrix (Joypad), the KEY1 speed switch, the   *)
(* DMA stall and the short PPU windows in which step.rs defers the          *)
(* interrupt check.  The phases run in the scheduler's order; the phases    *)
(* that change none of this state are left out, and the MMIO commit, which  *)
(* directly follows the CPU phase, is part of the CPU's write.              *)
(*                                                                          *)
(* Timer, Serial, PPU and DMA appear by the requests they raise and the     *)
(* stall they impose.  Registers and memory are left out: an opcode is one  *)
(* of the classes the control logic tells apart, a write one of the         *)
(* registers it reaches.                                                    *)
(***************************************************************************)
EXTENDS Interrupts, Joypad

CONSTANTS
  LastT,         \* LAST_MACHINE_CYCLE_T (3 in the code)
  Opcodes,       \* opcode classes the program may contain
  BusTargets,    \* registers the program's writes may reach
  IfValues, IeValues, P1Values,    \* values it may write to IF, IE and P1
  Masks,         \* sets of buttons the host may press
  MaxStall,      \* longest DMA stall, in T-cycles
  PauseT,        \* CGB_SPEED_SWITCH_PAUSE_T_CYCLES
  WindowLen,     \* length of a deferral window (4 dots)
  WindowKinds    \* deferral windows this console's PPU has

AllOpcodes == {"NOP", "EI", "DI", "HALT", "STOP", "RETI", "STORE", "INVALID"}
AllTargets == {"RAM", "IF", "IE", "P1", "KEY1", "HDMA5", "PPU"}
AllWindows == {"vblank_entry", "halt_only"}

ASSUME MachineAssumption ==
  /\ LastT \in Nat \ {0}
  /\ Opcodes \subseteq AllOpcodes
  /\ BusTargets \subseteq AllTargets
  /\ IfValues \subseteq SUBSET Sources
  /\ IeValues \subseteq SUBSET Sources
  /\ P1Values \subseteq SUBSET Rows
  /\ Masks \subseteq SUBSET Buttons
  /\ MaxStall \in Nat /\ PauseT \in Nat \ {0} /\ WindowLen \in Nat \ {0}
  /\ WindowKinds \subseteq AllWindows

ASSUME MatrixAssumption ==
  /\ ButtonRow \in [Buttons -> Rows]
  /\ Buttons \subseteq DOMAIN ButtonLine

VARIABLES
  phase,         \* the scheduler phase about to run
  exec,          \* execution_state, without its payload
  step,          \* machine cycle of Execute and of the two service states
  t,             \* t_cycle within the machine cycle
  source,        \* the source ServiceInterrupt carries
  op,            \* in_flight.opcode
  ime, ei,       \* ImeState: the gate and instructions_remaining
  halt, req,     \* HaltControlState and its HaltRequestContext
  pc,            \* where PC points, as far as dispatch decides it
  queued,        \* CycleContext::interrupt_requests
  ppu_pending,   \* the PPU's pending_interrupt_request_mask
  window, win_left,   \* deferral window and the dots it still lasts
  stall,         \* T-cycles for which dma.cpu_stall_active() still holds
  pause,         \* remaining_t_cycles of SpeedSwitchPause
  armed,         \* KEY1 prepare bit
  ei_shadow      \* history: 1 between EI and the end of the next instruction

cpuVars == <<exec, step, t, source, op, ime, ei, halt, req, pc, pause, ei_shadow>>
irqVars == <<interrupt_flags, interrupt_enable, queued>>
ppuVars == <<ppu_pending, window, win_left>>
devVars == <<joypadVars, irqVars, ppuVars, stall, armed>>
vars == <<phase, cpuVars, devVars>>

Phases == {"ingress", "derived", "peripherals", "cpu", "aggregate", "wake"}
ExecStates == {"FetchOpcode", "Execute", "ServiceInterrupt", "BuggedService",
               "SpeedSwitchPause", "DiagnosticTrap", "Halted",
               "ZombieStopped", "Stopped"}
StopSleep == {"Stopped", "ZombieStopped"}
StopActive == StopSleep \cup {"SpeedSwitchPause"}
NoRequest == [ime_enabled |-> "Disabled", had_pending_ei |-> 0]
LastPush == 4

Init ==
  /\ phase = "ingress"
  /\ exec = "FetchOpcode" /\ step = 0 /\ t = 0 /\ source = NoSource
  /\ op = "None" /\ ime = "Disabled" /\ ei = 0
  /\ halt = "Idle" /\ req = NoRequest /\ pc = "Body"
  /\ interrupt_flags \in {{}, {"VBlank"} \cap Sources}
  /\ interrupt_enable = {} /\ queued = {}
  /\ ppu_pending = {} /\ window = "none" /\ win_left = 0
  /\ stall = 0 /\ pause = 0 /\ armed = 0 /\ ei_shadow = 0
  /\ JoypadInit

Phase(now, next) == phase = now /\ phase' = next

-----------------------------------------------------------------------------
(* Phase 1: host input.  Phase 2: the timer, unless the clock is stopped.   *)

ExternalEventIngress ==
  /\ Phase("ingress", "derived")
  /\ \E mask \in Masks : apply_pressed_mask(mask)
  /\ UNCHANGED <<cpuVars, irqVars, ppuVars, stall, armed>>

DerivedEdgeResolution ==
  /\ Phase("derived", "peripherals")
  /\ \/ queued' = queued
     \/ exec \notin StopActive /\ queued' = queued \cup ({"Timer"} \cap Sources)
  /\ UNCHANGED <<cpuVars, joypadVars, interrupt_flags, interrupt_enable,
                 ppuVars, stall, armed>>

-----------------------------------------------------------------------------
(* Phases 3 and 4: the autonomous peripherals.                              *)

(* A PPU dot: a window runs out (the one before line 144 into VBlank), or   *)
(* one may open; either way the PPU may request its interrupts.             *)
PpuTick ==
  /\ \E raised \in SUBSET ({"VBlank", "LcdStat"} \cap Sources) :
       ppu_pending' = ppu_pending \cup raised
  /\ \/ /\ win_left > 1
        /\ win_left' = win_left - 1 /\ window' = window
     \/ /\ win_left = 1
        /\ win_left' = 0 /\ window' = "none"
        /\ window = "vblank_entry" => {"VBlank"} \cap Sources \subseteq ppu_pending'
     \/ /\ win_left = 0
        /\ UNCHANGED <<window, win_left>>
     \/ /\ win_left = 0
        /\ win_left' = WindowLen /\ window' \in WindowKinds

DmaTickUnderHalt == stall' \in (0..MaxStall) \ {stall}

(* The stall counts down; an HBlank block may start, but not while the CPU  *)
(* is halted.                                                               *)
DmaTick ==
  \/ stall > 0 /\ stall' = stall - 1
  \/ stall = 0 /\ stall' = 0
  \/ /\ stall = 0 /\ exec # "Halted" /\ "HDMA5" \in BusTargets
     /\ stall' \in 1..MaxStall

PeripheralsRunning ==
  /\ Phase("peripherals", "cpu")
  /\ exec \notin StopActive
  /\ PpuTick /\ DmaTick
  /\ queued' \in {queued, queued \cup ({"Serial"} \cap Sources)}
  /\ UNCHANGED <<cpuVars, joypadVars, interrupt_flags, interrupt_enable, armed>>

(* During the speed-switch pause only the LCD keeps scanning.               *)
PeripheralsPaused ==
  /\ Phase("peripherals", "cpu")
  /\ exec = "SpeedSwitchPause"
  /\ PpuTick
  /\ UNCHANGED <<cpuVars, joypadVars, irqVars, stall, armed>>

PeripheralsStopped ==
  /\ Phase("peripherals", "cpu")
  /\ exec \in StopSleep
  /\ UNCHANGED <<cpuVars, devVars>>

-----------------------------------------------------------------------------
(* CPU helpers.                                                             *)

can_accept_interrupt == exec = "FetchOpcode" /\ op = "None"

(* begin_interrupt_service; t counts the tick that follows in phase 6.      *)
begin_interrupt_service(s, ticked) ==
  /\ exec' = "ServiceInterrupt" /\ source' = s /\ step' = 0 /\ t' = ticked
  /\ ime' = "Disabled" /\ ei' = 0 /\ op' = "None"
  /\ UNCHANGED <<pc, pause, ei_shadow>>

enter(state) == exec' = state /\ step' = 0 /\ t' = 0 /\ source' = NoSource

(* finish_instruction and enter_*_state: advance_delayed_ime_enable on the  *)
(* given ImeState.                                                          *)
finish_into(state, gate, remaining, shadow) ==
  /\ enter(state) /\ op' = "None"
  /\ ime' = IF remaining = 1 THEN "Enabled" ELSE gate
  /\ ei' = IF remaining > 0 THEN remaining - 1 ELSE 0
  /\ ei_shadow' = shadow

finish_instruction == finish_into("FetchOpcode", ime, ei, 0)

(* consume_halt_bug_pending, on the opcode read.                            *)
ConsumeHaltBug == halt' = IF halt = "HaltBugPending" THEN "Idle" ELSE halt

request_halt ==
  /\ halt' = "PendingRequest"
  /\ req' = [ime_enabled |-> ime, had_pending_ei |-> IF ei > 0 THEN 1 ELSE 0]

CpuPhase == Phase("cpu", "aggregate") /\ stall = 0

(* The Timer request of this T-cycle is offered to the CPU before it ticks. *)
CurrentCycleAcceptable ==
  /\ "Timer" \in queued /\ ime = "Enabled" /\ can_accept_interrupt
  /\ (interrupt_flags \cup {"Timer"}) \cap interrupt_enable # {}

Ticks(state) == CpuPhase /\ ~CurrentCycleAcceptable /\ exec = state
TicksLast(state) == Ticks(state) /\ t = LastT

(* A bus write by the CPU to one of the registers that matter here.         *)
BusWrite(targets) ==
  \/ /\ "RAM" \in targets
     /\ UNCHANGED devVars
  \/ /\ "IF" \in targets
     /\ interrupt_flags' \in IfValues
     /\ UNCHANGED <<joypadVars, interrupt_enable, queued, ppuVars, stall, armed>>
  \/ /\ "IE" \in targets
     /\ interrupt_enable' \in IeValues
     /\ UNCHANGED <<joypadVars, interrupt_flags, queued, ppuVars, stall, armed>>
  \/ /\ "P1" \in targets
     /\ \E rows \in P1Values : write_p1(rows)
     /\ UNCHANGED <<irqVars, ppuVars, stall, armed>>
  \/ /\ "KEY1" \in targets
     /\ armed' \in {0, 1}
     /\ UNCHANGED <<joypadVars, irqVars, ppuVars, stall>>
  \/ /\ "HDMA5" \in targets       \* a general-purpose transfer starts
     /\ stall' \in 1..MaxStall
     /\ UNCHANGED <<joypadVars, irqVars, ppuVars, armed>>
  \/ /\ "PPU" \in targets         \* STAT or LCDC: may request STAT or end a window
     /\ ppu_pending' \in {ppu_pending, ppu_pending \cup ({"LcdStat"} \cap Sources)}
     /\ \/ UNCHANGED <<window, win_left>>
        \/ window' = "none" /\ win_left' = 0
     /\ UNCHANGED <<joypadVars, irqVars, stall, armed>>

-----------------------------------------------------------------------------
(* Phase 6: the CPU micro-operation.                                        *)

CpuStalled ==
  /\ Phase("cpu", "aggregate") /\ stall > 0
  /\ UNCHANGED <<cpuVars, devVars>>

(* evaluate_current_cycle_interrupt_requests: the chosen source is cleared  *)
(* in IF and taken out of this cycle's requests.                            *)
AcceptCurrentCycleTwice ==
  /\ CpuPhase /\ CurrentCycleAcceptable
  /\ LET mask == (interrupt_flags \cup {"Timer"}) \cap interrupt_enable
         s    == highest_priority_from_mask(mask)
     IN /\ interrupt_flags' = interrupt_flags \ {s}
        /\ begin_interrupt_service(s, 1)
  /\ UNCHANGED <<halt, req, joypadVars, interrupt_enable, queued, ppuVars, stall, armed>>

AcceptCurrentCycle ==
  /\ CpuPhase /\ CurrentCycleAcceptable
  /\ LET mask == (interrupt_flags \cup {"Timer"}) \cap interrupt_enable
         s    == highest_priority_from_mask(mask)
     IN /\ interrupt_flags' = interrupt_flags \ {s}
        /\ queued' = queued \ {s}
        /\ begin_interrupt_service(s, 1)
  /\ UNCHANGED <<halt, req, joypadVars, interrupt_enable, ppuVars, stall, armed>>

TickWithinMachineCycle ==
  /\ CpuPhase /\ ~CurrentCycleAcceptable
  /\ exec \in {"FetchOpcode", "Execute", "ServiceInterrupt", "BuggedService"}
  /\ t < LastT
  /\ t' = t + 1
  /\ UNCHANGED <<exec, step, source, op, ime, ei, halt, req, pc, pause,
                 ei_shadow, devVars>>

SleepTick ==
  /\ CpuPhase /\ ~CurrentCycleAcceptable
  /\ exec \in StopSleep \cup {"Halted", "DiagnosticTrap"}
  /\ UNCHANGED <<cpuVars, devVars>>

SpeedSwitchPauseTick ==
  /\ Ticks("SpeedSwitchPause")
  /\ \/ pause <= 1 /\ enter("FetchOpcode") /\ pause' = 0
     \/ pause > 1 /\ pause' = pause - 1 /\ UNCHANGED <<exec, step, t, source>>
  /\ UNCHANGED <<op, ime, ei, halt, req, pc, ei_shadow, devVars>>

(* complete_fetch_opcode, one action per decoded class.                     *)
Fetch(opcode) ==
  /\ TicksLast("FetchOpcode") /\ opcode \in Opcodes
  /\ ConsumeHaltBug
  /\ pc' = "Body"
  /\ UNCHANGED <<pause, devVars>>

FetchNop == Fetch("NOP") /\ finish_instruction /\ UNCHANGED req

FetchDi ==
  Fetch("DI") /\ finish_into("FetchOpcode", "Disabled", 0, 0) /\ UNCHANGED req

(* schedule_delayed_ime_enable keeps a delay that is already running.       *)
FetchEi ==
  /\ Fetch("EI") /\ UNCHANGED req
  /\ finish_into("FetchOpcode", ime, IF ei > 0 THEN ei ELSE 2,
                 IF ime = "Disabled" /\ ei = 0 THEN 1 ELSE 0)

FetchInvalid ==
  /\ Fetch("INVALID") /\ enter("DiagnosticTrap")
  /\ op' = "INVALID"
  /\ UNCHANGED <<ime, ei, req, ei_shadow>>

(* finish_and_request_halt records the gate before EI's delay advances.     *)
FetchHalt ==
  /\ TicksLast("FetchOpcode") /\ "HALT" \in Opcodes
  /\ request_halt /\ finish_instruction
  /\ pc' = "Body"
  /\ UNCHANGED <<pause, devVars>>

stop_completes_on_fetch_machine_cycle ==
  /\ armed = 0 /\ stop_wake_line_asserted
  /\ ime = "Enabled" \/ pending_mask # {}

FetchStopAsNop ==
  /\ Fetch("STOP") /\ stop_completes_on_fetch_machine_cycle
  /\ finish_instruction /\ UNCHANGED req

FetchMultiCycle ==
  \E o \in {"STOP", "RETI", "STORE"} :
    /\ Fetch(o)
    /\ o = "STOP" => ~stop_completes_on_fetch_machine_cycle
    /\ enter("Execute") /\ op' = o
    /\ UNCHANGED <<ime, ei, req, ei_shadow>>

ExecuteStore ==
  /\ TicksLast("Execute") /\ op = "STORE"
  /\ BusWrite(BusTargets)
  /\ finish_instruction
  /\ UNCHANGED <<halt, req, pc, pause>>

ExecuteReti ==
  /\ TicksLast("Execute") /\ op = "RETI"
  /\ \/ /\ step < 2
        /\ step' = step + 1 /\ t' = 0
        /\ UNCHANGED <<exec, source, op, ime, ei, ei_shadow>>
     \/ /\ step = 2
        /\ finish_into("FetchOpcode", "Enabled", 0, 0)
  /\ UNCHANGED <<halt, req, pc, pause, devVars>>

(* StopPhase::ResolveEntry with KEY1 armed: the speed switch.               *)
ExecuteStopSpeedSwitch ==
  /\ TicksLast("Execute") /\ op = "STOP" /\ armed = 1
  /\ armed' = 0 /\ pause' = PauseT
  /\ finish_into("SpeedSwitchPause", ime, ei, 0)
  /\ UNCHANGED <<halt, req, pc, joypadVars, irqVars, ppuVars, stall>>

(* stop_entry_resolution: what STOP turns into for a wake line and a        *)
(* pending interrupt.                                                       *)
stop_entry_resolution ==
  IF ime = "Enabled"
  THEN IF stop_wake_line_asserted THEN "FetchOpcode" ELSE "Stopped"
  ELSE IF stop_wake_line_asserted
       THEN IF pending_mask = {} THEN "Halt" ELSE "FetchOpcode"
       ELSE IF pending_mask = {} THEN "Stopped" ELSE "ZombieStopped"

ExecuteStop ==
  /\ TicksLast("Execute") /\ op = "STOP" /\ armed = 0
  /\ \/ /\ stop_entry_resolution = "Halt"
        /\ request_halt /\ finish_instruction
     \/ /\ stop_entry_resolution # "Halt"
        /\ finish_into(stop_entry_resolution, ime, ei, 0)
        /\ UNCHANGED <<halt, req>>
  /\ UNCHANGED <<pc, pause, devVars>>

(* complete_interrupt_service_machine_cycle.                                *)
NextServiceStep ==
  /\ step' = step + 1 /\ t' = 0
  /\ UNCHANGED <<exec, op, ime, ei, halt, req, pc, pause, ei_shadow>>

finish_service(target) ==
  /\ enter("FetchOpcode") /\ op' = "None" /\ pc' = target
  /\ UNCHANGED <<ime, ei, halt, req, pause, ei_shadow>>

ServiceInternal ==
  /\ TicksLast("ServiceInterrupt") /\ step < 3
  /\ NextServiceStep
  /\ UNCHANGED <<source, devVars>>

ServicePushHigh ==
  /\ TicksLast("ServiceInterrupt") /\ step = 3
  /\ BusWrite(BusTargets \ {"IE"})
  /\ NextServiceStep
  /\ UNCHANGED source

(* IF after the service moves on to `next'.                                 *)
RetargetedFlags(next) ==
  IF next = source THEN interrupt_flags
  ELSE (interrupt_flags \cup {source}) \ {next}

(* The high byte lands on IE: dispatch continues, is retargeted or is       *)
(* cancelled according to the new mask.                                     *)
ServicePushHighToIe ==
  /\ TicksLast("ServiceInterrupt") /\ step = 3 /\ "IE" \in BusTargets
  /\ interrupt_enable' \in IeValues
  /\ LET candidates == (interrupt_flags \cup {source}) \cap interrupt_enable'
         next       == highest_priority_from_mask(candidates)
     IN \/ /\ candidates = {}
           /\ interrupt_flags' = interrupt_flags \cup {source}
           /\ finish_service("Zero")
        \/ /\ candidates # {}
           /\ source' = next
           /\ interrupt_flags' = RetargetedFlags(next)
           /\ NextServiceStep
  /\ UNCHANGED <<joypadVars, queued, ppuVars, stall, armed>>

ServicePushLow ==
  /\ TicksLast("ServiceInterrupt") /\ step = LastPush
  /\ BusWrite(BusTargets)
  /\ finish_service(source)

BuggedServiceStep ==
  /\ TicksLast("BuggedService") /\ step < LastPush
  /\ IF step = 3 THEN BusWrite(BusTargets) ELSE UNCHANGED devVars
  /\ NextServiceStep
  /\ UNCHANGED source

BuggedServiceLast ==
  /\ TicksLast("BuggedService") /\ step = LastPush
  /\ BusWrite(BusTargets)
  /\ finish_service("Zero")

-----------------------------------------------------------------------------
(* Phase 8: every producer's request reaches IF.                            *)

JoypadRequest ==
  IF "interrupt" \in edge_pending THEN {"Joypad"} \cap Sources ELSE {}

InterruptAggregation ==
  /\ Phase("aggregate", "wake")
  /\ interrupt_flags' = interrupt_flags \cup queued \cup ppu_pending \cup JoypadRequest
  /\ queued' = {} /\ ppu_pending' = {}
  /\ consume_interrupt_request
  /\ UNCHANGED <<cpuVars, selected, pressed, visible, interrupt_enable,
                 window, win_left, stall, armed>>

-----------------------------------------------------------------------------
(* Phase 9: wake and interrupt evaluation.                                  *)

WakeDeferredWhileHalted ==
  stall > 0 \/ (IsHighestPending("LcdStat") /\ exec = "Halted")

(* The early returns of step_cpu_wake_interrupt_evaluation.                 *)
WakeEvaluationDeferred ==
  \/ stall > 0
  \/ /\ IsHighestPending("LcdStat")
     /\ \/ window = "vblank_entry" /\ "VBlank" \in interrupt_enable
        \/ window # "none" /\ exec = "Halted"

WakeDeferred ==
  /\ Phase("wake", "ingress") /\ WakeEvaluationDeferred
  /\ UNCHANGED <<cpuVars, devVars>>

WakePhase == Phase("wake", "ingress") /\ ~WakeEvaluationDeferred

AwakeBase ==
  /\ UNCHANGED <<selected, pressed, visible, interrupt_enable, queued,
                 ppuVars, stall, armed>>

(* A CPU that is not asleep in STOP drops the joypad's wake event.          *)
AwakePhase ==
  /\ WakePhase /\ exec \notin StopSleep
  /\ edge_pending' = edge_pending \ {"stop_wake"}
  /\ AwakeBase

accept_pending_interrupt ==
  \E s \in Sources :
    /\ IsHighestPending(s)
    /\ interrupt_flags' = interrupt_flags \ {s}
    /\ begin_interrupt_service(s, 0)

WakeStopAsleep ==
  /\ WakePhase /\ exec \in StopSleep /\ "stop_wake" \notin edge_pending
  /\ UNCHANGED <<cpuVars, devVars>>

StopBugged == exec = "Stopped" /\ ime = "Enabled" /\ "Joypad" \in pending_mask

WakeStop ==
  /\ WakePhase /\ exec \in StopSleep /\ "stop_wake" \in edge_pending
  /\ edge_pending' = edge_pending \ {"stop_wake"}
  /\ AwakeBase
  /\ \/ /\ StopBugged
        /\ interrupt_flags' = interrupt_flags \ {"Joypad"}
        /\ enter("BuggedService")
        /\ ime' = "Disabled" /\ ei' = 0 /\ op' = "None"
     \/ /\ ~StopBugged
        /\ enter("FetchOpcode")
        /\ UNCHANGED <<interrupt_flags, ime, ei, op>>
  /\ UNCHANGED <<halt, req, pc, pause, ei_shadow>>

WakeTrapped ==
  /\ AwakePhase /\ exec = "DiagnosticTrap"
  /\ UNCHANGED <<cpuVars, interrupt_flags>>

HaltRequested == AwakePhase /\ exec # "DiagnosticTrap" /\ halt = "PendingRequest"

HaltReplays == req.had_pending_ei = 1 /\ ime = "Enabled"

HaltEnter ==
  /\ HaltRequested /\ pending_mask = {}
  /\ halt' = "Idle" /\ req' = NoRequest
  /\ enter("Halted")
  /\ UNCHANGED <<interrupt_flags, op, ime, ei, pc, pause, ei_shadow>>

(* HALT with IME=0 and a pending interrupt: the next opcode is read twice.  *)
HaltBug ==
  /\ HaltRequested /\ pending_mask # {}
  /\ req.ime_enabled = "Disabled" /\ ~HaltReplays
  /\ halt' = "HaltBugPending" /\ req' = NoRequest
  /\ enter("FetchOpcode")
  /\ UNCHANGED <<interrupt_flags, op, ime, ei, pc, pause, ei_shadow>>

(* Otherwise the interrupt is taken; after EI;HALT its return address is    *)
(* the HALT itself.                                                         *)
HaltAccept ==
  /\ HaltRequested /\ pending_mask # {}
  /\ req.ime_enabled = "Enabled" \/ HaltReplays
  /\ halt' = "Idle" /\ req' = NoRequest
  /\ accept_pending_interrupt

AwakeNoRequest ==
  AwakePhase /\ exec # "DiagnosticTrap" /\ halt # "PendingRequest"

HaltedWake ==
  /\ AwakeNoRequest /\ exec = "Halted" /\ pending_mask # {}
  /\ \/ /\ ime = "Enabled"
        /\ accept_pending_interrupt
     \/ /\ ime = "Disabled"
        /\ enter("FetchOpcode")
        /\ UNCHANGED <<interrupt_flags, op, ime, ei, pc, pause, ei_shadow>>
  /\ UNCHANGED <<halt, req>>

AcceptAtBoundary ==
  /\ AwakeNoRequest /\ can_accept_interrupt
  /\ ime = "Enabled" /\ pending_mask # {}
  /\ accept_pending_interrupt
  /\ UNCHANGED <<halt, req>>

WakeNothing ==
  /\ AwakeNoRequest
  /\ pending_mask = {} \/ (exec # "Halted" /\ ~(can_accept_interrupt /\ ime = "Enabled"))
  /\ UNCHANGED <<cpuVars, interrupt_flags>>

-----------------------------------------------------------------------------
EarlyPhases ==
  \/ ExternalEventIngress \/ DerivedEdgeResolution
  \/ PeripheralsRunning \/ PeripheralsPaused \/ PeripheralsStopped

CpuMicroOperation ==
  \/ CpuStalled \/ AcceptCurrentCycle \/ TickWithinMachineCycle \/ SleepTick
  \/ SpeedSwitchPauseTick
  \/ FetchNop \/ FetchDi \/ FetchEi \/ FetchInvalid \/ FetchHalt
  \/ FetchStopAsNop \/ FetchMultiCycle
  \/ ExecuteStore \/ ExecuteReti \/ ExecuteStopSpeedSwitch \/ ExecuteStop
  \/ ServiceInternal \/ ServicePushHigh \/ ServicePushHighToIe \/ ServicePushLow
  \/ BuggedServiceStep \/ BuggedServiceLast

WakeInterruptEvaluation ==
  \/ WakeDeferred \/ WakeStopAsleep \/ WakeStop \/ WakeTrapped
  \/ HaltEnter \/ HaltBug \/ HaltAccept \/ HaltedWake
  \/ AcceptAtBoundary \/ WakeNothing

Next ==
  \/ EarlyPhases
  \/ CpuMicroOperation
  \/ InterruptAggregation
  \/ WakeInterruptEvaluation

Spec == Init /\ [][Next]_vars

(* The host calls the stepper again and again: a T-cycle always completes.  *)
FairSpec == Spec /\ WF_vars(Next)

-----------------------------------------------------------------------------
CpuTypeOK ==
  /\ exec \in ExecStates /\ step \in 0..LastPush /\ t \in 0..LastT
  /\ source \in Sources \cup {NoSource}
  /\ op \in {"None"} \cup AllOpcodes
  /\ ime \in {"Disabled", "Enabled"} /\ ei \in 0..2 /\ ei_shadow \in 0..1
  /\ halt \in {"Idle", "HaltBugPending", "PendingRequest"}
  /\ req \in [ime_enabled : {"Disabled", "Enabled"}, had_pending_ei : 0..1]
  /\ pc \in {"Body", "Zero"} \cup Sources
  /\ pause \in 0..PauseT

DeviceTypeOK ==
  /\ interrupt_flags \subseteq Sources /\ interrupt_enable \subseteq Sources
  /\ queued \subseteq {"Timer", "Serial"} \cap Sources
  /\ ppu_pending \subseteq {"VBlank", "LcdStat"} \cap Sources
  /\ window \in {"none"} \cup WindowKinds /\ win_left \in 0..WindowLen
  /\ stall \in 0..MaxStall /\ armed \in 0..1
  /\ selected \subseteq Rows /\ pressed \subseteq Buttons
  /\ edge_pending \subseteq EdgeConsumers

(* Every variable stays in its type; a service step is one of the five and  *)
(* the stall, pause and window counters stay in their ranges.               *)
TypeOK == phase \in Phases /\ CpuTypeOK /\ DeviceTypeOK

(* update_visible_edge_state compares against a cached nibble; whatever     *)
(* path changed the rows or the buttons, the cache is what P1 reads now, so *)
(* no edge is missed or seen twice.                                         *)
VisibleCacheCoherent == visible = visible_low(selected, pressed)

(* A halted CPU with the interrupt check not deferred has no enabled        *)
(* request waiting at the start of a T-cycle: phase 9 never leaves it       *)
(* asleep, whichever producer, or write, raised the request.                *)
NoMissedHaltWake ==
  phase = "ingress" /\ exec = "Halted" /\ window = "none" => pending_mask = {}

(* The joypad's STOP wake event does not outlive the T-cycle that raised    *)
(* it, except across a DMA stall or a deferred check: a STOP executed later *)
(* cannot be woken by an edge from before it.                               *)
NoStaleStopWake ==
  phase = "ingress" /\ stall = 0 /\ window = "none" => "stop_wake" \notin edge_pending

(* The HALT bug is pending only at the fetch it corrupts, with interrupts   *)
(* off and no EI delay running, so no acceptance can come in between.       *)
HaltBugOnlyBeforeFetch ==
  halt = "HaltBugPending" =>
    exec = "FetchOpcode" /\ op = "None" /\ ime = "Disabled" /\ ei = 0

(* A HALT request is resolved before the next opcode is latched.            *)
HaltResolvedBeforeFetch ==
  halt = "PendingRequest" => exec = "FetchOpcode" /\ op = "None"

(* STOP freezes the machine: once the requests of its own T-cycle are in    *)
(* IF, no clocked producer raises one, and neither a stall nor an           *)
(* unresolved HALT is left behind to hold back the wake.                    *)
StopIsQuiet ==
  exec \in StopSleep =>
    /\ stall = 0 /\ halt # "PendingRequest"
    /\ phase # "aggregate" => queued = {} /\ ppu_pending = {}

(* The execution state and its payload agree: a source is held exactly in   *)
(* service, an opcode only while it executes or trapped the CPU.            *)
PayloadsAgree ==
  /\ source # NoSource <=> exec = "ServiceInterrupt"
  /\ op # "None" => exec \in {"Execute", "DiagnosticTrap"}

(* PC is at a handler only between its dispatch and the first fetch there;  *)
(* from acceptance to that fetch interrupts stay off.                       *)
VectorHeld ==
  /\ pc \in Sources => exec = "FetchOpcode"
  /\ pc \in Sources \/ exec = "ServiceInterrupt" =>
       ime = "Disabled" /\ ei = 0 /\ ei_shadow = 0

(* The EI delay: one instruction at most is outstanding after an            *)
(* instruction, and in EI's shadow the gate is still closed.                *)
EiDelay == ei <= 1 /\ (ei_shadow = 1 => ime = "Disabled" /\ ei = 1)

(* What HALT recorded is what its resolution in phase 9 still finds.        *)
HaltRequestFresh ==
  halt = "PendingRequest" =>
    /\ phase \in {"aggregate", "wake"} /\ stall = 0 /\ ei = 0
    /\ pc \notin Sources
    /\ ime = IF req.had_pending_ei = 1 THEN "Enabled" ELSE req.ime_enabled

(* A halted CPU is never stalled: HBlank DMA does not start under HALT.     *)
HaltedUnstalled == exec = "Halted" => stall = 0

(* The inductive invariant of a PPU without the line-143 service deferral.  *)
MachineInv ==
  /\ TypeOK
  /\ PayloadsAgree
  /\ VectorHeld
  /\ EiDelay
  /\ HaltRequestFresh
  /\ HaltResolvedBeforeFetch
  /\ HaltBugOnlyBeforeFetch
  /\ HaltedUnstalled
  /\ StopIsQuiet
  /\ NoMissedHaltWake
  /\ NoStaleStopWake
  /\ VisibleCacheCoherent

Serving == IF exec = "ServiceInterrupt" THEN source ELSE NoSource
Entered == IF pc \in Sources THEN pc ELSE NoSource
Raised == queued \cup ppu_pending
            \cup (IF "interrupt" \in edge_pending THEN {"Joypad"} \cap Sources ELSE {})

(* Acceptance needs the interrupt gate open now, not when HALT was decoded, *)
(* an instruction after EI to have completed, the source to be enabled and  *)
(* no enabled request of higher priority to be waiting.                     *)
AcceptanceIsLegal ==
  [][exec # "ServiceInterrupt" /\ exec' = "ServiceInterrupt" =>
       /\ ime = "Enabled" /\ ei_shadow = 0
       /\ source' \in interrupt_enable
       /\ \A s \in interrupt_flags \cap interrupt_enable : Rank[source'] <= Rank[s]]_vars

(* Once an opcode is latched phase 9 leaves it alone: it is finished, never *)
(* pre-empted or put to sleep.                                              *)
LatchedOpcodeFinishes ==
  [][phase = "wake" /\ op # "None" => UNCHANGED <<exec, step, op>>]_vars

(* The accepted source ends in its handler or back in IF, and no request is *)
(* lost or consumed twice on the way: the machine implements InterruptLatch.*)
Latch == INSTANCE InterruptLatch WITH
  flags <- interrupt_flags, raised <- Raised, serving <- Serving, entered <- Entered
LatchSpec == Latch!Spec

(* The same for one accepted source: it stays latched until its handler is  *)
(* entered or it is restored in IF.  It fails under the line-143 service    *)
(* deferral, which the runs and the proofs leave out: see the README.       *)
AcceptedSourceHeld ==
  [][exec = "ServiceInterrupt" /\ Serving' # source =>
       pc' = source \/ source \in interrupt_flags']_vars

(* A halted CPU wakes once an enabled request is pending.                   *)
HaltWakes == exec = "Halted" /\ pending_mask # {} ~> exec # "Halted"

(* A button edge seen while asleep in STOP or zombie STOP wakes the CPU.    *)
StopWakes ==
  exec \in StopSleep /\ "stop_wake" \in edge_pending ~> exec \notin StopSleep

=============================================================================
