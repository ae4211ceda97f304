--------------------------- MODULE MachineProofs ---------------------------
(***************************************************************************)
(* The machine's invariants, its interrupt acceptance rules and its         *)
(* refinement of InterruptLatch, for every set of sources, opcodes, buttons *)
(* and written values, every stall and pause length, and every length of    *)
(* the machine cycle.                                                       *)
(***************************************************************************)
EXTENDS Machine, TLAPS

(* The consoles whose PPU never defers interrupt service; with that window  *)
(* the control invariants fail, as the VblankEntry runs show.               *)
NoServiceDeferral == "vblank_entry" \notin WindowKinds

ControlInv ==
  /\ PayloadsAgree
  /\ VectorHeld
  /\ EiDelay
  /\ HaltRequestFresh
  /\ HaltResolvedBeforeFetch
  /\ HaltBugOnlyBeforeFetch
  /\ HaltedUnstalled
  /\ StopIsQuiet
  /\ NoMissedHaltWake
  /\ NoStaleStopWake

(* The fixed priorities are distinct naturals.                              *)
LEMMA RankValues ==
  /\ Rank["VBlank"] = 0 /\ Rank["LcdStat"] = 1 /\ Rank["Timer"] = 2
  /\ Rank["Serial"] = 3 /\ Rank["Joypad"] = 4
BY DEF Rank, AllSources

(* highest_priority_from_mask returns a member that no other outranks.      *)
LEMMA HighestPriority ==
  ASSUME NEW mask, mask \subseteq AllSources, mask # {}
  PROVE  /\ highest_priority_from_mask(mask) \in mask
         /\ \A r \in mask : Rank[highest_priority_from_mask(mask)] <= Rank[r]
<1>1. \E s \in mask : \A r \in mask : Rank[s] <= Rank[r]
  <2>1. CASE "VBlank" \in mask BY <2>1, RankValues DEF AllSources
  <2>2. CASE "VBlank" \notin mask /\ "LcdStat" \in mask
    BY <2>2, RankValues DEF AllSources
  <2>3. CASE {"VBlank", "LcdStat"} \cap mask = {} /\ "Timer" \in mask
    BY <2>3, RankValues DEF AllSources
  <2>4. CASE {"VBlank", "LcdStat", "Timer"} \cap mask = {} /\ "Serial" \in mask
    BY <2>4, RankValues DEF AllSources
  <2>5. CASE {"VBlank", "LcdStat", "Timer", "Serial"} \cap mask = {}
    <3>1. \A r \in mask : r = "Joypad" BY <2>5 DEF AllSources
    <3> QED BY <3>1, RankValues
  <2> QED BY <2>1, <2>2, <2>3, <2>4, <2>5
<1> QED BY <1>1 DEF highest_priority_from_mask

(* The source taken in phase 6 is one of the model's sources.               *)
LEMMA AcceptedIsSource ==
  ASSUME TypeOK, AcceptCurrentCycle
  PROVE  \E s \in Sources :
           /\ s \in interrupt_enable
           /\ s \in interrupt_flags \cup queued
           /\ \A r \in interrupt_flags \cap interrupt_enable : Rank[s] <= Rank[r]
           /\ interrupt_flags' = interrupt_flags \ {s}
           /\ queued' = queued \ {s}
           /\ begin_interrupt_service(s, 1)
<1> DEFINE mask == (interrupt_flags \cup {"Timer"}) \cap interrupt_enable
           s == highest_priority_from_mask(mask)
<1>1. mask \subseteq AllSources /\ mask # {} /\ "Timer" \in queued
  BY SourcesAssumption
  DEF TypeOK, DeviceTypeOK, AcceptCurrentCycle, CurrentCycleAcceptable
<1>2. s \in mask /\ \A r \in mask : Rank[s] <= Rank[r]
  BY <1>1, HighestPriority
<1>3. /\ interrupt_flags' = interrupt_flags \ {s}
      /\ queued' = queued \ {s}
      /\ begin_interrupt_service(s, 1)
  BY DEF AcceptCurrentCycle
<1>4. s \in interrupt_enable /\ s \in interrupt_flags \cup queued /\ s \in Sources
  BY <1>1, <1>2 DEF TypeOK, DeviceTypeOK
<1>5. \A r \in interrupt_flags \cap interrupt_enable : Rank[s] <= Rank[r]
  BY <1>2
<1> HIDE DEF s, mask
<1> QED BY <1>3, <1>4, <1>5

(* After the push into IE the service goes on for a source, the old one or  *)
(* a pending one, or the accepted source is restored.                       *)
LEMMA RetargetIsSource ==
  ASSUME TypeOK, PayloadsAgree, ServicePushHighToIe
  PROVE  \/ /\ finish_service("Zero")
            /\ interrupt_flags' = interrupt_flags \cup {source}
         \/ /\ source' \in Sources /\ NextServiceStep
            /\ \/ source' = source /\ interrupt_flags' = interrupt_flags
               \/ /\ source' \in interrupt_flags \ {source}
                  /\ interrupt_flags' = (interrupt_flags \cup {source}) \ {source'}
<1> DEFINE candidates == (interrupt_flags \cup {source}) \cap interrupt_enable'
           next == highest_priority_from_mask(candidates)
<1>1. source \in Sources
  BY DEF TypeOK, CpuTypeOK, PayloadsAgree, ServicePushHighToIe, TicksLast, Ticks
<1>2. interrupt_flags \subseteq Sources BY DEF TypeOK, DeviceTypeOK
<1>3. CASE candidates = {}
  BY <1>3 DEF ServicePushHighToIe
<1>4. CASE candidates # {}
  <2>1. candidates \subseteq AllSources BY <1>1, <1>2, SourcesAssumption
  <2>2. next \in candidates BY <1>4, <2>1, HighestPriority
  <2>3. /\ source' = next /\ NextServiceStep
        /\ interrupt_flags' = IF next = source THEN interrupt_flags
                              ELSE (interrupt_flags \cup {source}) \ {next}
    BY <1>4 DEF ServicePushHighToIe, RetargetedFlags
  <2>4. next \in Sources /\ next \in interrupt_flags \cup {source}
    BY <1>1, <1>2, <2>2
  <2> HIDE DEF next, candidates
  <2>5. CASE next = source BY <2>3, <2>4, <2>5
  <2>6. CASE next # source BY <2>3, <2>4, <2>6
  <2> QED BY <2>5, <2>6
<1> QED BY <1>3, <1>4

(* A CPU write leaves every device in its type, whichever register it hits. *)
LEMMA BusWriteTypes ==
  ASSUME DeviceTypeOK, NEW targets, BusWrite(targets)
  PROVE  DeviceTypeOK'
<1> USE MachineAssumption DEF DeviceTypeOK, devVars, joypadVars, irqVars, ppuVars
<1>1. CASE UNCHANGED devVars BY <1>1
<1>2. CASE /\ interrupt_flags' \in IfValues
           /\ UNCHANGED <<joypadVars, interrupt_enable, queued, ppuVars, stall, armed>>
  BY <1>2
<1>3. CASE /\ interrupt_enable' \in IeValues
           /\ UNCHANGED <<joypadVars, interrupt_flags, queued, ppuVars, stall, armed>>
  BY <1>3
<1>4. CASE /\ \E rows \in P1Values : write_p1(rows)
           /\ UNCHANGED <<irqVars, ppuVars, stall, armed>>
  BY <1>4 DEF write_p1, UpdateVisibleEdgeState
<1>5. CASE armed' \in {0, 1} /\ UNCHANGED <<joypadVars, irqVars, ppuVars, stall>>
  BY <1>5
<1>6. CASE stall' \in 1..MaxStall /\ UNCHANGED <<joypadVars, irqVars, ppuVars, armed>>
  BY <1>6
<1>7. CASE /\ ppu_pending' \in {ppu_pending, ppu_pending \cup ({"LcdStat"} \cap Sources)}
           /\ \/ UNCHANGED <<window, win_left>>
              \/ window' = "none" /\ win_left' = 0
           /\ UNCHANGED <<joypadVars, irqVars, stall, armed>>
  BY <1>7
<1> QED BY <1>1, <1>2, <1>3, <1>4, <1>5, <1>6, <1>7 DEF BusWrite

(* A PPU dot leaves the deferral window and its requests in their types.    *)
LEMMA PpuTickTypes ==
  ASSUME DeviceTypeOK, PpuTick
  PROVE  /\ ppu_pending' \subseteq {"VBlank", "LcdStat"} \cap Sources
         /\ window' \in {"none"} \cup WindowKinds /\ win_left' \in 0..WindowLen
<1>1. ppu_pending' \subseteq {"VBlank", "LcdStat"} \cap Sources
  BY DEF PpuTick, DeviceTypeOK
<1>2. window' \in {"none"} \cup WindowKinds /\ win_left' \in 0..WindowLen
  <2>1. CASE win_left > 1
    BY <2>1, MachineAssumption DEF PpuTick, DeviceTypeOK
  <2>2. CASE win_left = 1
    BY <2>2, MachineAssumption DEF PpuTick, DeviceTypeOK
  <2>3. CASE win_left = 0
    BY <2>3, MachineAssumption DEF PpuTick, DeviceTypeOK
  <2> QED BY <2>1, <2>2, <2>3, MachineAssumption DEF DeviceTypeOK
<1> QED BY <1>1, <1>2

(* The control invariants are inductive: every action preserves all of them *)
(* together.                                                                *)
LEMMA ControlStep ==
  ASSUME TypeOK, ControlInv, NoServiceDeferral, [Next]_vars
  PROVE  ControlInv'
<1> USE DEF vars, cpuVars, irqVars, ppuVars, devVars, joypadVars, Phase, enter,
            StopSleep, StopActive, NoRequest, NoSource, LastPush
<1>1. ASSUME EarlyPhases PROVE ControlInv'
  <2>1. CASE ExternalEventIngress
    BY <2>1, MachineAssumption, SourcesAssumption DEF ExternalEventIngress,
       apply_pressed_mask, UpdateVisibleEdgeState, ControlInv,
       PayloadsAgree, VectorHeld, EiDelay, HaltRequestFresh,
       HaltResolvedBeforeFetch, HaltBugOnlyBeforeFetch, HaltedUnstalled,
       StopIsQuiet, NoMissedHaltWake, NoStaleStopWake, TypeOK, CpuTypeOK,
       DeviceTypeOK, NoServiceDeferral, AllSources, AllWindows, pending_mask
  <2>2. CASE DerivedEdgeResolution
    <3>1. CASE queued' = queued
      BY <2>2, <3>1 DEF DerivedEdgeResolution, ControlInv, PayloadsAgree, VectorHeld,
         EiDelay, HaltRequestFresh, HaltResolvedBeforeFetch,
         HaltBugOnlyBeforeFetch, HaltedUnstalled, StopIsQuiet,
         NoMissedHaltWake, NoStaleStopWake
    <3>2. CASE exec \notin StopActive
      BY <2>2, <3>2 DEF DerivedEdgeResolution, ControlInv, PayloadsAgree, VectorHeld,
         EiDelay, HaltRequestFresh, HaltResolvedBeforeFetch,
         HaltBugOnlyBeforeFetch, HaltedUnstalled, StopIsQuiet,
         NoMissedHaltWake, NoStaleStopWake
    <3> QED BY <2>2, <3>1, <3>2 DEF DerivedEdgeResolution
  <2>3. CASE PeripheralsRunning
    BY <2>3, MachineAssumption, SourcesAssumption DEF PeripheralsRunning,
       PpuTick, DmaTick, ControlInv, PayloadsAgree, VectorHeld, EiDelay,
       HaltRequestFresh, HaltResolvedBeforeFetch, HaltBugOnlyBeforeFetch,
       HaltedUnstalled, StopIsQuiet, NoMissedHaltWake, NoStaleStopWake,
       TypeOK, CpuTypeOK, DeviceTypeOK, NoServiceDeferral, AllSources,
       AllWindows, pending_mask
  <2>4. CASE PeripheralsPaused
    BY <2>4, MachineAssumption, SourcesAssumption DEF PeripheralsPaused,
       PpuTick, ControlInv, PayloadsAgree, VectorHeld, EiDelay,
       HaltRequestFresh, HaltResolvedBeforeFetch, HaltBugOnlyBeforeFetch,
       HaltedUnstalled, StopIsQuiet, NoMissedHaltWake, NoStaleStopWake,
       TypeOK, CpuTypeOK, DeviceTypeOK, NoServiceDeferral, AllSources,
       AllWindows, pending_mask
  <2>5. CASE PeripheralsStopped
    BY <2>5, MachineAssumption, SourcesAssumption DEF PeripheralsStopped,
       ControlInv, PayloadsAgree, VectorHeld, EiDelay, HaltRequestFresh,
       HaltResolvedBeforeFetch, HaltBugOnlyBeforeFetch, HaltedUnstalled,
       StopIsQuiet, NoMissedHaltWake, NoStaleStopWake, TypeOK, CpuTypeOK,
       DeviceTypeOK, NoServiceDeferral, AllSources, AllWindows, pending_mask
  <2> QED BY <1>1, <2>1, <2>2, <2>3, <2>4, <2>5 DEF EarlyPhases
<1>2. ASSUME CpuMicroOperation PROVE ControlInv'
  <2>1. CASE CpuStalled
    BY <2>1, MachineAssumption, SourcesAssumption DEF CpuStalled,
       ControlInv, PayloadsAgree, VectorHeld, EiDelay, HaltRequestFresh,
       HaltResolvedBeforeFetch, HaltBugOnlyBeforeFetch, HaltedUnstalled,
       StopIsQuiet, NoMissedHaltWake, NoStaleStopWake, TypeOK, CpuTypeOK,
       DeviceTypeOK, NoServiceDeferral, AllSources, AllWindows, pending_mask
  <2>2. CASE AcceptCurrentCycle
    <3>1. PICK s \in Sources :
             interrupt_flags' = interrupt_flags \ {s} /\ begin_interrupt_service(s, 1)
      BY <2>2, AcceptedIsSource DEF AcceptCurrentCycle
    <3>2. /\ phase' = "aggregate" /\ stall = 0 /\ can_accept_interrupt /\ ime = "Enabled"
          /\ UNCHANGED <<halt, req, joypadVars, interrupt_enable, ppuVars, stall, armed>>
      BY <2>2 DEF AcceptCurrentCycle, CpuPhase, CurrentCycleAcceptable
    <3>3. halt = "Idle" /\ phase = "cpu"
      BY <2>2, <3>2 DEF AcceptCurrentCycle, CpuPhase, ControlInv, HaltRequestFresh,
         HaltBugOnlyBeforeFetch, TypeOK, CpuTypeOK
    <3> QED
      BY <3>1, <3>2, <3>3, SourcesAssumption DEF AllSources, begin_interrupt_service,
         can_accept_interrupt, TypeOK, CpuTypeOK, ControlInv, PayloadsAgree, VectorHeld, EiDelay,
         HaltRequestFresh, HaltResolvedBeforeFetch, HaltBugOnlyBeforeFetch,
         HaltedUnstalled, StopIsQuiet, NoMissedHaltWake, NoStaleStopWake
  <2>3. CASE TickWithinMachineCycle
    BY <2>3, MachineAssumption, SourcesAssumption DEF
       TickWithinMachineCycle, CpuPhase, ControlInv, PayloadsAgree,
       VectorHeld, EiDelay, HaltRequestFresh, HaltResolvedBeforeFetch,
       HaltBugOnlyBeforeFetch, HaltedUnstalled, StopIsQuiet,
       NoMissedHaltWake, NoStaleStopWake, TypeOK, CpuTypeOK, DeviceTypeOK,
       NoServiceDeferral, AllSources, AllWindows, pending_mask
  <2>4. CASE SleepTick
    BY <2>4, MachineAssumption, SourcesAssumption DEF SleepTick, CpuPhase,
       ControlInv, PayloadsAgree, VectorHeld, EiDelay, HaltRequestFresh,
       HaltResolvedBeforeFetch, HaltBugOnlyBeforeFetch, HaltedUnstalled,
       StopIsQuiet, NoMissedHaltWake, NoStaleStopWake, TypeOK, CpuTypeOK,
       DeviceTypeOK, NoServiceDeferral, AllSources, AllWindows, pending_mask
  <2>5. CASE SpeedSwitchPauseTick
    BY <2>5, MachineAssumption, SourcesAssumption DEF SpeedSwitchPauseTick,
       Ticks, CpuPhase, ControlInv, PayloadsAgree, VectorHeld, EiDelay,
       HaltRequestFresh, HaltResolvedBeforeFetch, HaltBugOnlyBeforeFetch,
       HaltedUnstalled, StopIsQuiet, NoMissedHaltWake, NoStaleStopWake,
       TypeOK, CpuTypeOK, DeviceTypeOK, NoServiceDeferral, AllSources,
       AllWindows, pending_mask
  <2>6. CASE FetchNop
    BY <2>6, MachineAssumption, SourcesAssumption DEF FetchNop, Fetch,
       TicksLast, Ticks, CpuPhase, ConsumeHaltBug, finish_instruction,
       finish_into, CurrentCycleAcceptable, can_accept_interrupt,
       stop_completes_on_fetch_machine_cycle, ControlInv, PayloadsAgree,
       VectorHeld, EiDelay, HaltRequestFresh, HaltResolvedBeforeFetch,
       HaltBugOnlyBeforeFetch, HaltedUnstalled, StopIsQuiet,
       NoMissedHaltWake, NoStaleStopWake, TypeOK, CpuTypeOK, DeviceTypeOK,
       NoServiceDeferral, AllSources, AllWindows, pending_mask
  <2>7. CASE FetchDi
    BY <2>7, MachineAssumption, SourcesAssumption DEF FetchDi, Fetch,
       TicksLast, Ticks, CpuPhase, ConsumeHaltBug, finish_instruction,
       finish_into, CurrentCycleAcceptable, can_accept_interrupt,
       stop_completes_on_fetch_machine_cycle, ControlInv, PayloadsAgree,
       VectorHeld, EiDelay, HaltRequestFresh, HaltResolvedBeforeFetch,
       HaltBugOnlyBeforeFetch, HaltedUnstalled, StopIsQuiet,
       NoMissedHaltWake, NoStaleStopWake, TypeOK, CpuTypeOK, DeviceTypeOK,
       NoServiceDeferral, AllSources, AllWindows, pending_mask
  <2>8. CASE FetchEi
    BY <2>8, MachineAssumption, SourcesAssumption DEF FetchEi, Fetch,
       TicksLast, Ticks, CpuPhase, ConsumeHaltBug, finish_instruction,
       finish_into, CurrentCycleAcceptable, can_accept_interrupt,
       stop_completes_on_fetch_machine_cycle, ControlInv, PayloadsAgree,
       VectorHeld, EiDelay, HaltRequestFresh, HaltResolvedBeforeFetch,
       HaltBugOnlyBeforeFetch, HaltedUnstalled, StopIsQuiet,
       NoMissedHaltWake, NoStaleStopWake, TypeOK, CpuTypeOK, DeviceTypeOK,
       NoServiceDeferral, AllSources, AllWindows, pending_mask
  <2>9. CASE FetchInvalid
    BY <2>9, MachineAssumption, SourcesAssumption DEF FetchInvalid, Fetch,
       TicksLast, Ticks, CpuPhase, ConsumeHaltBug, finish_instruction,
       finish_into, CurrentCycleAcceptable, can_accept_interrupt,
       stop_completes_on_fetch_machine_cycle, ControlInv, PayloadsAgree,
       VectorHeld, EiDelay, HaltRequestFresh, HaltResolvedBeforeFetch,
       HaltBugOnlyBeforeFetch, HaltedUnstalled, StopIsQuiet,
       NoMissedHaltWake, NoStaleStopWake, TypeOK, CpuTypeOK, DeviceTypeOK,
       NoServiceDeferral, AllSources, AllWindows, pending_mask
  <2>10. CASE FetchHalt
    BY <2>10, MachineAssumption, SourcesAssumption DEF FetchHalt, Fetch,
       TicksLast, Ticks, CpuPhase, ConsumeHaltBug, finish_instruction,
       finish_into, CurrentCycleAcceptable, can_accept_interrupt,
       stop_completes_on_fetch_machine_cycle, request_halt, ControlInv,
       PayloadsAgree, VectorHeld, EiDelay, HaltRequestFresh,
       HaltResolvedBeforeFetch, HaltBugOnlyBeforeFetch, HaltedUnstalled,
       StopIsQuiet, NoMissedHaltWake, NoStaleStopWake, TypeOK, CpuTypeOK,
       DeviceTypeOK, NoServiceDeferral, AllSources, AllWindows, pending_mask
  <2>11. CASE FetchStopAsNop
    BY <2>11, MachineAssumption, SourcesAssumption DEF FetchStopAsNop,
       Fetch, TicksLast, Ticks, CpuPhase, ConsumeHaltBug,
       finish_instruction, finish_into, CurrentCycleAcceptable,
       can_accept_interrupt, stop_completes_on_fetch_machine_cycle,
       ControlInv, PayloadsAgree, VectorHeld, EiDelay, HaltRequestFresh,
       HaltResolvedBeforeFetch, HaltBugOnlyBeforeFetch, HaltedUnstalled,
       StopIsQuiet, NoMissedHaltWake, NoStaleStopWake, TypeOK, CpuTypeOK,
       DeviceTypeOK, NoServiceDeferral, AllSources, AllWindows, pending_mask
  <2>12. CASE FetchMultiCycle
    BY <2>12, MachineAssumption, SourcesAssumption DEF FetchMultiCycle,
       Fetch, TicksLast, Ticks, CpuPhase, ConsumeHaltBug,
       finish_instruction, finish_into, CurrentCycleAcceptable,
       can_accept_interrupt, stop_completes_on_fetch_machine_cycle,
       ControlInv, PayloadsAgree, VectorHeld, EiDelay, HaltRequestFresh,
       HaltResolvedBeforeFetch, HaltBugOnlyBeforeFetch, HaltedUnstalled,
       StopIsQuiet, NoMissedHaltWake, NoStaleStopWake, TypeOK, CpuTypeOK,
       DeviceTypeOK, NoServiceDeferral, AllSources, AllWindows, pending_mask
  <2>13. CASE ExecuteStore
    BY <2>13, MachineAssumption, SourcesAssumption DEF ExecuteStore,
       TicksLast, Ticks, CpuPhase, finish_instruction, finish_into,
       ControlInv, PayloadsAgree, VectorHeld, EiDelay, HaltRequestFresh,
       HaltResolvedBeforeFetch, HaltBugOnlyBeforeFetch, HaltedUnstalled,
       StopIsQuiet, NoMissedHaltWake, NoStaleStopWake, TypeOK, CpuTypeOK,
       DeviceTypeOK, NoServiceDeferral, AllSources, AllWindows, pending_mask
  <2>14. CASE ExecuteReti
    BY <2>14, MachineAssumption, SourcesAssumption DEF ExecuteReti,
       TicksLast, Ticks, CpuPhase, finish_instruction, finish_into,
       ControlInv, PayloadsAgree, VectorHeld, EiDelay, HaltRequestFresh,
       HaltResolvedBeforeFetch, HaltBugOnlyBeforeFetch, HaltedUnstalled,
       StopIsQuiet, NoMissedHaltWake, NoStaleStopWake, TypeOK, CpuTypeOK,
       DeviceTypeOK, NoServiceDeferral, AllSources, AllWindows, pending_mask
  <2>15. CASE ExecuteStopSpeedSwitch
    BY <2>15, MachineAssumption, SourcesAssumption DEF
       ExecuteStopSpeedSwitch, TicksLast, Ticks, CpuPhase,
       finish_instruction, finish_into, ControlInv, PayloadsAgree,
       VectorHeld, EiDelay, HaltRequestFresh, HaltResolvedBeforeFetch,
       HaltBugOnlyBeforeFetch, HaltedUnstalled, StopIsQuiet,
       NoMissedHaltWake, NoStaleStopWake, TypeOK, CpuTypeOK, DeviceTypeOK,
       NoServiceDeferral, AllSources, AllWindows, pending_mask
  <2>16. CASE ExecuteStop
    BY <2>16, MachineAssumption, SourcesAssumption DEF ExecuteStop,
       TicksLast, Ticks, CpuPhase, finish_instruction, finish_into,
       request_halt, stop_entry_resolution, ControlInv, PayloadsAgree,
       VectorHeld, EiDelay, HaltRequestFresh, HaltResolvedBeforeFetch,
       HaltBugOnlyBeforeFetch, HaltedUnstalled, StopIsQuiet,
       NoMissedHaltWake, NoStaleStopWake, TypeOK, CpuTypeOK, DeviceTypeOK,
       NoServiceDeferral, AllSources, AllWindows, pending_mask
  <2>17. CASE ServiceInternal
    BY <2>17, MachineAssumption, SourcesAssumption DEF ServiceInternal,
       TicksLast, Ticks, CpuPhase, NextServiceStep, finish_service,
       ControlInv, PayloadsAgree, VectorHeld, EiDelay, HaltRequestFresh,
       HaltResolvedBeforeFetch, HaltBugOnlyBeforeFetch, HaltedUnstalled,
       StopIsQuiet, NoMissedHaltWake, NoStaleStopWake, TypeOK, CpuTypeOK,
       DeviceTypeOK, NoServiceDeferral, AllSources, AllWindows, pending_mask
  <2>18. CASE ServicePushHigh
    BY <2>18, MachineAssumption, SourcesAssumption DEF ServicePushHigh,
       TicksLast, Ticks, CpuPhase, NextServiceStep, finish_service,
       ControlInv, PayloadsAgree, VectorHeld, EiDelay, HaltRequestFresh,
       HaltResolvedBeforeFetch, HaltBugOnlyBeforeFetch, HaltedUnstalled,
       StopIsQuiet, NoMissedHaltWake, NoStaleStopWake, TypeOK, CpuTypeOK,
       DeviceTypeOK, NoServiceDeferral, AllSources, AllWindows, pending_mask
  <2>19. CASE ServicePushHighToIe
    <3>1. \/ finish_service("Zero")
          \/ source' \in Sources /\ NextServiceStep
      BY <2>19, RetargetIsSource DEF ControlInv
    <3> QED
      BY <2>19, <3>1, SourcesAssumption DEF AllSources, ServicePushHighToIe, TicksLast, Ticks,
         CpuPhase, NextServiceStep, finish_service, ControlInv, PayloadsAgree, VectorHeld,
         EiDelay, HaltRequestFresh, HaltResolvedBeforeFetch,
         HaltBugOnlyBeforeFetch, HaltedUnstalled, StopIsQuiet,
         NoMissedHaltWake, NoStaleStopWake
  <2>20. CASE ServicePushLow
    BY <2>20, MachineAssumption, SourcesAssumption DEF ServicePushLow,
       TicksLast, Ticks, CpuPhase, NextServiceStep, finish_service,
       ControlInv, PayloadsAgree, VectorHeld, EiDelay, HaltRequestFresh,
       HaltResolvedBeforeFetch, HaltBugOnlyBeforeFetch, HaltedUnstalled,
       StopIsQuiet, NoMissedHaltWake, NoStaleStopWake, TypeOK, CpuTypeOK,
       DeviceTypeOK, NoServiceDeferral, AllSources, AllWindows, pending_mask
  <2>21. CASE BuggedServiceStep
    BY <2>21, MachineAssumption, SourcesAssumption DEF BuggedServiceStep,
       TicksLast, Ticks, CpuPhase, NextServiceStep, finish_service,
       ControlInv, PayloadsAgree, VectorHeld, EiDelay, HaltRequestFresh,
       HaltResolvedBeforeFetch, HaltBugOnlyBeforeFetch, HaltedUnstalled,
       StopIsQuiet, NoMissedHaltWake, NoStaleStopWake, TypeOK, CpuTypeOK,
       DeviceTypeOK, NoServiceDeferral, AllSources, AllWindows, pending_mask
  <2>22. CASE BuggedServiceLast
    BY <2>22, MachineAssumption, SourcesAssumption DEF BuggedServiceLast,
       TicksLast, Ticks, CpuPhase, NextServiceStep, finish_service,
       ControlInv, PayloadsAgree, VectorHeld, EiDelay, HaltRequestFresh,
       HaltResolvedBeforeFetch, HaltBugOnlyBeforeFetch, HaltedUnstalled,
       StopIsQuiet, NoMissedHaltWake, NoStaleStopWake, TypeOK, CpuTypeOK,
       DeviceTypeOK, NoServiceDeferral, AllSources, AllWindows, pending_mask
  <2> QED BY <1>2, <2>1, <2>2, <2>3, <2>4, <2>5, <2>6, <2>7, <2>8, <2>9,
       <2>10, <2>11, <2>12, <2>13, <2>14, <2>15, <2>16, <2>17, <2>18, <2>19,
       <2>20, <2>21, <2>22 DEF CpuMicroOperation
<1>3. ASSUME InterruptAggregation PROVE ControlInv'
  BY <1>3, MachineAssumption, SourcesAssumption DEF InterruptAggregation,
         consume_interrupt_request, JoypadRequest, ControlInv,
         PayloadsAgree, VectorHeld, EiDelay, HaltRequestFresh,
         HaltResolvedBeforeFetch, HaltBugOnlyBeforeFetch, HaltedUnstalled,
         StopIsQuiet, NoMissedHaltWake, NoStaleStopWake, TypeOK, CpuTypeOK,
         DeviceTypeOK, NoServiceDeferral, AllSources, AllWindows,
         pending_mask
<1>4. ASSUME WakeInterruptEvaluation PROVE ControlInv'
  <2>1. CASE WakeDeferred
    BY <2>1, MachineAssumption, SourcesAssumption DEF WakeDeferred,
       WakeEvaluationDeferred, IsHighestPending, pending_mask, ControlInv,
       PayloadsAgree, VectorHeld, EiDelay, HaltRequestFresh,
       HaltResolvedBeforeFetch, HaltBugOnlyBeforeFetch, HaltedUnstalled,
       StopIsQuiet, NoMissedHaltWake, NoStaleStopWake, TypeOK, CpuTypeOK,
       DeviceTypeOK, NoServiceDeferral, AllSources, AllWindows, pending_mask
  <2>2. CASE WakeStopAsleep
    BY <2>2, MachineAssumption, SourcesAssumption DEF WakeStopAsleep,
       AwakePhase, AwakeBase, WakePhase, WakeEvaluationDeferred,
       IsHighestPending, pending_mask, ControlInv, PayloadsAgree,
       VectorHeld, EiDelay, HaltRequestFresh, HaltResolvedBeforeFetch,
       HaltBugOnlyBeforeFetch, HaltedUnstalled, StopIsQuiet,
       NoMissedHaltWake, NoStaleStopWake, TypeOK, CpuTypeOK, DeviceTypeOK,
       NoServiceDeferral, AllSources, AllWindows, pending_mask
  <2>3. CASE WakeStop
    BY <2>3, MachineAssumption, SourcesAssumption DEF WakeStop, AwakePhase,
       AwakeBase, WakePhase, WakeEvaluationDeferred, IsHighestPending,
       pending_mask, StopBugged, ControlInv, PayloadsAgree, VectorHeld,
       EiDelay, HaltRequestFresh, HaltResolvedBeforeFetch,
       HaltBugOnlyBeforeFetch, HaltedUnstalled, StopIsQuiet,
       NoMissedHaltWake, NoStaleStopWake, TypeOK, CpuTypeOK, DeviceTypeOK,
       NoServiceDeferral, AllSources, AllWindows, pending_mask
  <2>4. CASE WakeTrapped
    BY <2>4, MachineAssumption, SourcesAssumption DEF WakeTrapped,
       AwakePhase, AwakeBase, WakePhase, WakeEvaluationDeferred,
       IsHighestPending, pending_mask, ControlInv, PayloadsAgree,
       VectorHeld, EiDelay, HaltRequestFresh, HaltResolvedBeforeFetch,
       HaltBugOnlyBeforeFetch, HaltedUnstalled, StopIsQuiet,
       NoMissedHaltWake, NoStaleStopWake, TypeOK, CpuTypeOK, DeviceTypeOK,
       NoServiceDeferral, AllSources, AllWindows, pending_mask
  <2>5. CASE HaltEnter
    BY <2>5, MachineAssumption, SourcesAssumption DEF HaltEnter, AwakePhase,
       AwakeBase, WakePhase, WakeEvaluationDeferred, IsHighestPending,
       pending_mask, HaltRequested, ControlInv, PayloadsAgree, VectorHeld,
       EiDelay, HaltRequestFresh, HaltResolvedBeforeFetch,
       HaltBugOnlyBeforeFetch, HaltedUnstalled, StopIsQuiet,
       NoMissedHaltWake, NoStaleStopWake, TypeOK, CpuTypeOK, DeviceTypeOK,
       NoServiceDeferral, AllSources, AllWindows, pending_mask
  <2>6. CASE HaltBug
    BY <2>6, MachineAssumption, SourcesAssumption DEF HaltBug, AwakePhase,
       AwakeBase, WakePhase, WakeEvaluationDeferred, IsHighestPending,
       pending_mask, HaltRequested, HaltReplays, ControlInv, PayloadsAgree,
       VectorHeld, EiDelay, HaltRequestFresh, HaltResolvedBeforeFetch,
       HaltBugOnlyBeforeFetch, HaltedUnstalled, StopIsQuiet,
       NoMissedHaltWake, NoStaleStopWake, TypeOK, CpuTypeOK, DeviceTypeOK,
       NoServiceDeferral, AllSources, AllWindows, pending_mask
  <2>7. CASE HaltAccept
    BY <2>7, MachineAssumption, SourcesAssumption DEF HaltAccept,
       AwakePhase, AwakeBase, WakePhase, WakeEvaluationDeferred,
       IsHighestPending, pending_mask, HaltRequested, HaltReplays,
       accept_pending_interrupt, begin_interrupt_service, ControlInv,
       PayloadsAgree, VectorHeld, EiDelay, HaltRequestFresh,
       HaltResolvedBeforeFetch, HaltBugOnlyBeforeFetch, HaltedUnstalled,
       StopIsQuiet, NoMissedHaltWake, NoStaleStopWake, TypeOK, CpuTypeOK,
       DeviceTypeOK, NoServiceDeferral, AllSources, AllWindows, pending_mask
  <2>8. CASE HaltedWake
    BY <2>8, MachineAssumption, SourcesAssumption DEF HaltedWake,
       AwakePhase, AwakeBase, WakePhase, WakeEvaluationDeferred,
       IsHighestPending, pending_mask, AwakeNoRequest,
       accept_pending_interrupt, begin_interrupt_service, ControlInv,
       PayloadsAgree, VectorHeld, EiDelay, HaltRequestFresh,
       HaltResolvedBeforeFetch, HaltBugOnlyBeforeFetch, HaltedUnstalled,
       StopIsQuiet, NoMissedHaltWake, NoStaleStopWake, TypeOK, CpuTypeOK,
       DeviceTypeOK, NoServiceDeferral, AllSources, AllWindows, pending_mask
  <2>9. CASE AcceptAtBoundary
    BY <2>9, MachineAssumption, SourcesAssumption DEF AcceptAtBoundary,
       AwakePhase, AwakeBase, WakePhase, WakeEvaluationDeferred,
       IsHighestPending, pending_mask, AwakeNoRequest,
       accept_pending_interrupt, begin_interrupt_service,
       can_accept_interrupt, ControlInv, PayloadsAgree, VectorHeld, EiDelay,
       HaltRequestFresh, HaltResolvedBeforeFetch, HaltBugOnlyBeforeFetch,
       HaltedUnstalled, StopIsQuiet, NoMissedHaltWake, NoStaleStopWake,
       TypeOK, CpuTypeOK, DeviceTypeOK, NoServiceDeferral, AllSources,
       AllWindows, pending_mask
  <2>10. CASE WakeNothing
    BY <2>10, MachineAssumption, SourcesAssumption DEF WakeNothing,
       AwakePhase, AwakeBase, WakePhase, WakeEvaluationDeferred,
       IsHighestPending, pending_mask, AwakeNoRequest, can_accept_interrupt,
       ControlInv, PayloadsAgree, VectorHeld, EiDelay, HaltRequestFresh,
       HaltResolvedBeforeFetch, HaltBugOnlyBeforeFetch, HaltedUnstalled,
       StopIsQuiet, NoMissedHaltWake, NoStaleStopWake, TypeOK, CpuTypeOK,
       DeviceTypeOK, NoServiceDeferral, AllSources, AllWindows, pending_mask
  <2> QED BY <1>4, <2>1, <2>2, <2>3, <2>4, <2>5, <2>6, <2>7, <2>8, <2>9,
       <2>10 DEF WakeInterruptEvaluation
<1>5. CASE UNCHANGED vars
  BY <1>5, MachineAssumption, SourcesAssumption DEF ControlInv,
         PayloadsAgree, VectorHeld, EiDelay, HaltRequestFresh,
         HaltResolvedBeforeFetch, HaltBugOnlyBeforeFetch, HaltedUnstalled,
         StopIsQuiet, NoMissedHaltWake, NoStaleStopWake, TypeOK, CpuTypeOK,
         DeviceTypeOK, NoServiceDeferral, AllSources, AllWindows,
         pending_mask
<1> QED BY <1>1, <1>2, <1>3, <1>4, <1>5 DEF Next

(* Types are preserved; the source that reaches PC is a source because the  *)
(* payload invariant says when one is held.                                 *)
LEMMA TypeStep ==
  ASSUME TypeOK, ControlInv, [Next]_vars
  PROVE  TypeOK'
<1> USE DEF vars, cpuVars, irqVars, ppuVars, devVars, joypadVars, Phase, enter,
            Phases, ExecStates, StopSleep, StopActive, NoRequest, NoSource,
            LastPush, AllOpcodes, EdgeConsumers
<1>1. ASSUME EarlyPhases PROVE TypeOK'
  <2>1. CASE ExternalEventIngress
    <3>1. PICK mask \in Masks : apply_pressed_mask(mask)
      BY <2>1 DEF ExternalEventIngress
    <3>2. selected' \subseteq Rows /\ pressed' \subseteq Buttons
      BY <3>1, MachineAssumption DEF apply_pressed_mask, TypeOK, DeviceTypeOK
    <3>3. edge_pending' \subseteq EdgeConsumers
      BY <3>1 DEF apply_pressed_mask, UpdateVisibleEdgeState, TypeOK, DeviceTypeOK
    <3> QED BY <2>1, <3>2, <3>3 DEF ExternalEventIngress, TypeOK, CpuTypeOK, DeviceTypeOK
  <2>2. CASE DerivedEdgeResolution
    <3>1. queued' \subseteq {"Timer", "Serial"} \cap Sources
      BY <2>2 DEF DerivedEdgeResolution, TypeOK, DeviceTypeOK
    <3> QED BY <2>2, <3>1 DEF DerivedEdgeResolution, TypeOK, CpuTypeOK, DeviceTypeOK
  <2>3. CASE PeripheralsRunning
    <3>1. /\ ppu_pending' \subseteq {"VBlank", "LcdStat"} \cap Sources
          /\ window' \in {"none"} \cup WindowKinds /\ win_left' \in 0..WindowLen
      BY <2>3, PpuTickTypes DEF PeripheralsRunning, TypeOK
    <3>2. stall' \in 0..MaxStall
      BY <2>3, MachineAssumption DEF PeripheralsRunning, DmaTick, TypeOK, DeviceTypeOK
    <3>3. queued' \subseteq {"Timer", "Serial"} \cap Sources
      BY <2>3 DEF PeripheralsRunning, TypeOK, DeviceTypeOK
    <3> QED
      BY <2>3, <3>1, <3>2, <3>3 DEF PeripheralsRunning, TypeOK, CpuTypeOK, DeviceTypeOK
  <2>4. CASE PeripheralsPaused
    <3>1. /\ ppu_pending' \subseteq {"VBlank", "LcdStat"} \cap Sources
          /\ window' \in {"none"} \cup WindowKinds /\ win_left' \in 0..WindowLen
      BY <2>4, PpuTickTypes DEF PeripheralsPaused, TypeOK
    <3> QED BY <2>4, <3>1 DEF PeripheralsPaused, TypeOK, CpuTypeOK, DeviceTypeOK
  <2>5. CASE PeripheralsStopped
    BY <2>5, MachineAssumption, SourcesAssumption DEF PeripheralsStopped,
       TypeOK, CpuTypeOK, DeviceTypeOK, ControlInv, PayloadsAgree,
       VectorHeld, EiDelay
  <2> QED BY <1>1, <2>1, <2>2, <2>3, <2>4, <2>5 DEF EarlyPhases
<1>2. ASSUME CpuMicroOperation PROVE TypeOK'
  <2>1. CASE CpuStalled
    BY <2>1, MachineAssumption, SourcesAssumption DEF CpuStalled, TypeOK,
       CpuTypeOK, DeviceTypeOK, ControlInv, PayloadsAgree, VectorHeld,
       EiDelay
  <2>2. CASE AcceptCurrentCycle
    <3>1. PICK s \in Sources : /\ interrupt_flags' = interrupt_flags \ {s}
                               /\ queued' = queued \ {s}
                               /\ begin_interrupt_service(s, 1)
      BY <2>2, AcceptedIsSource DEF AcceptCurrentCycle
    <3>2. /\ phase' = "aggregate"
          /\ UNCHANGED <<halt, req, joypadVars, interrupt_enable, ppuVars, stall, armed>>
      BY <2>2 DEF AcceptCurrentCycle, CpuPhase
    <3>3. CpuTypeOK'
      BY <3>1, <3>2, MachineAssumption DEF begin_interrupt_service, TypeOK, CpuTypeOK
    <3>4. DeviceTypeOK' BY <3>1, <3>2 DEF TypeOK, DeviceTypeOK
    <3> QED BY <3>2, <3>3, <3>4 DEF TypeOK
  <2>3. CASE TickWithinMachineCycle
    BY <2>3, MachineAssumption, SourcesAssumption DEF
       TickWithinMachineCycle, CpuPhase, TypeOK, CpuTypeOK, DeviceTypeOK,
       ControlInv, PayloadsAgree, VectorHeld, EiDelay
  <2>4. CASE SleepTick
    BY <2>4, MachineAssumption, SourcesAssumption DEF SleepTick, CpuPhase,
       TypeOK, CpuTypeOK, DeviceTypeOK, ControlInv, PayloadsAgree,
       VectorHeld, EiDelay
  <2>5. CASE SpeedSwitchPauseTick
    BY <2>5, MachineAssumption, SourcesAssumption DEF SpeedSwitchPauseTick,
       Ticks, CpuPhase, TypeOK, CpuTypeOK, DeviceTypeOK, ControlInv,
       PayloadsAgree, VectorHeld, EiDelay
  <2>6. CASE FetchNop
    BY <2>6, MachineAssumption, SourcesAssumption DEF FetchNop, Fetch,
       TicksLast, Ticks, CpuPhase, ConsumeHaltBug, finish_instruction,
       finish_into, CurrentCycleAcceptable, can_accept_interrupt,
       stop_completes_on_fetch_machine_cycle, TypeOK, CpuTypeOK,
       DeviceTypeOK, ControlInv, PayloadsAgree, VectorHeld, EiDelay
  <2>7. CASE FetchDi
    BY <2>7, MachineAssumption, SourcesAssumption DEF FetchDi, Fetch,
       TicksLast, Ticks, CpuPhase, ConsumeHaltBug, finish_instruction,
       finish_into, CurrentCycleAcceptable, can_accept_interrupt,
       stop_completes_on_fetch_machine_cycle, TypeOK, CpuTypeOK,
       DeviceTypeOK, ControlInv, PayloadsAgree, VectorHeld, EiDelay
  <2>8. CASE FetchEi
    BY <2>8, MachineAssumption, SourcesAssumption DEF FetchEi, Fetch,
       TicksLast, Ticks, CpuPhase, ConsumeHaltBug, finish_instruction,
       finish_into, CurrentCycleAcceptable, can_accept_interrupt,
       stop_completes_on_fetch_machine_cycle, TypeOK, CpuTypeOK,
       DeviceTypeOK, ControlInv, PayloadsAgree, VectorHeld, EiDelay
  <2>9. CASE FetchInvalid
    BY <2>9, MachineAssumption, SourcesAssumption DEF FetchInvalid, Fetch,
       TicksLast, Ticks, CpuPhase, ConsumeHaltBug, finish_instruction,
       finish_into, CurrentCycleAcceptable, can_accept_interrupt,
       stop_completes_on_fetch_machine_cycle, TypeOK, CpuTypeOK,
       DeviceTypeOK, ControlInv, PayloadsAgree, VectorHeld, EiDelay
  <2>10. CASE FetchHalt
    BY <2>10, MachineAssumption, SourcesAssumption DEF FetchHalt, Fetch,
       TicksLast, Ticks, CpuPhase, ConsumeHaltBug, finish_instruction,
       finish_into, CurrentCycleAcceptable, can_accept_interrupt,
       stop_completes_on_fetch_machine_cycle, request_halt, TypeOK,
       CpuTypeOK, DeviceTypeOK, ControlInv, PayloadsAgree, VectorHeld,
       EiDelay
  <2>11. CASE FetchStopAsNop
    BY <2>11, MachineAssumption, SourcesAssumption DEF FetchStopAsNop,
       Fetch, TicksLast, Ticks, CpuPhase, ConsumeHaltBug,
       finish_instruction, finish_into, CurrentCycleAcceptable,
       can_accept_interrupt, stop_completes_on_fetch_machine_cycle, TypeOK,
       CpuTypeOK, DeviceTypeOK, ControlInv, PayloadsAgree, VectorHeld,
       EiDelay
  <2>12. CASE FetchMultiCycle
    BY <2>12, MachineAssumption, SourcesAssumption DEF FetchMultiCycle,
       Fetch, TicksLast, Ticks, CpuPhase, ConsumeHaltBug,
       finish_instruction, finish_into, CurrentCycleAcceptable,
       can_accept_interrupt, stop_completes_on_fetch_machine_cycle, TypeOK,
       CpuTypeOK, DeviceTypeOK, ControlInv, PayloadsAgree, VectorHeld,
       EiDelay
  <2>13. CASE ExecuteStore
    <3>1. DeviceTypeOK' BY <2>13, BusWriteTypes DEF ExecuteStore, TypeOK
    <3>2. CpuTypeOK'
      BY <2>13, MachineAssumption, SourcesAssumption DEF ExecuteStore, TicksLast,
         Ticks, finish_instruction, finish_into, TypeOK, CpuTypeOK, ControlInv,
         PayloadsAgree, VectorHeld, EiDelay
    <3> QED BY <2>13, <3>1, <3>2 DEF ExecuteStore, TicksLast, Ticks, CpuPhase, TypeOK
  <2>14. CASE ExecuteReti
    BY <2>14, MachineAssumption, SourcesAssumption DEF ExecuteReti,
       TicksLast, Ticks, CpuPhase, finish_instruction, finish_into, TypeOK,
       CpuTypeOK, DeviceTypeOK, ControlInv, PayloadsAgree, VectorHeld,
       EiDelay
  <2>15. CASE ExecuteStopSpeedSwitch
    BY <2>15, MachineAssumption, SourcesAssumption DEF
       ExecuteStopSpeedSwitch, TicksLast, Ticks, CpuPhase,
       finish_instruction, finish_into, TypeOK, CpuTypeOK, DeviceTypeOK,
       ControlInv, PayloadsAgree, VectorHeld, EiDelay
  <2>16. CASE ExecuteStop
    BY <2>16, MachineAssumption, SourcesAssumption DEF ExecuteStop,
       TicksLast, Ticks, CpuPhase, finish_instruction, finish_into,
       request_halt, stop_entry_resolution, TypeOK, CpuTypeOK, DeviceTypeOK,
       ControlInv, PayloadsAgree, VectorHeld, EiDelay
  <2>17. CASE ServiceInternal
    BY <2>17, MachineAssumption, SourcesAssumption DEF ServiceInternal,
       TicksLast, Ticks, CpuPhase, NextServiceStep, finish_service, TypeOK,
       CpuTypeOK, DeviceTypeOK, ControlInv, PayloadsAgree, VectorHeld,
       EiDelay
  <2>18. CASE ServicePushHigh
    <3>1. DeviceTypeOK' BY <2>18, BusWriteTypes DEF ServicePushHigh, TypeOK
    <3>2. CpuTypeOK'
      BY <2>18, MachineAssumption, SourcesAssumption DEF ServicePushHigh, TicksLast,
         Ticks, NextServiceStep, TypeOK, CpuTypeOK, ControlInv,
         PayloadsAgree, VectorHeld, EiDelay
    <3> QED BY <2>18, <3>1, <3>2 DEF ServicePushHigh, TicksLast, Ticks, CpuPhase, TypeOK
  <2>19. CASE ServicePushHighToIe
    <3>1. source \in Sources
      BY <2>19 DEF ServicePushHighToIe, TicksLast, Ticks, TypeOK, CpuTypeOK,
         ControlInv, PayloadsAgree
    <3>2. \/ finish_service("Zero")
          \/ source' \in Sources /\ NextServiceStep
      BY <2>19, RetargetIsSource DEF ControlInv
    <3>3. interrupt_enable' \subseteq Sources
      BY <2>19, MachineAssumption DEF ServicePushHighToIe
    <3>4. interrupt_flags' \subseteq Sources
      BY <2>19, <3>1 DEF ServicePushHighToIe, RetargetedFlags, TypeOK, DeviceTypeOK
    <3>5. DeviceTypeOK'
      BY <2>19, <3>3, <3>4 DEF ServicePushHighToIe, TypeOK, DeviceTypeOK
    <3>6. CpuTypeOK'
      BY <2>19, <3>2, MachineAssumption DEF ServicePushHighToIe, TicksLast, Ticks,
         NextServiceStep, finish_service, TypeOK, CpuTypeOK
    <3> QED BY <2>19, <3>5, <3>6 DEF ServicePushHighToIe, TicksLast, Ticks, CpuPhase, TypeOK
  <2>20. CASE ServicePushLow
    <3>1. DeviceTypeOK' BY <2>20, BusWriteTypes DEF ServicePushLow, TypeOK
    <3>2. CpuTypeOK'
      BY <2>20, MachineAssumption, SourcesAssumption DEF ServicePushLow, TicksLast,
         Ticks, finish_service, TypeOK, CpuTypeOK, ControlInv,
         PayloadsAgree, VectorHeld, EiDelay
    <3> QED BY <2>20, <3>1, <3>2 DEF ServicePushLow, TicksLast, Ticks, CpuPhase, TypeOK
  <2>21. CASE BuggedServiceStep
    <3>1. DeviceTypeOK'
      <4>1. CASE step = 3
        BY <2>21, <4>1, BusWriteTypes DEF BuggedServiceStep, TypeOK
      <4>2. CASE step # 3
        BY <2>21, <4>2 DEF BuggedServiceStep, TypeOK, DeviceTypeOK
      <4> QED BY <4>1, <4>2
    <3>2. CpuTypeOK'
      BY <2>21, MachineAssumption DEF BuggedServiceStep, TicksLast, Ticks,
         NextServiceStep, TypeOK, CpuTypeOK
    <3> QED BY <2>21, <3>1, <3>2 DEF BuggedServiceStep, TicksLast, Ticks, CpuPhase, TypeOK
  <2>22. CASE BuggedServiceLast
    <3>1. DeviceTypeOK' BY <2>22, BusWriteTypes DEF BuggedServiceLast, TypeOK
    <3>2. CpuTypeOK'
      BY <2>22, MachineAssumption, SourcesAssumption DEF BuggedServiceLast, TicksLast,
         Ticks, finish_service, TypeOK, CpuTypeOK, ControlInv,
         PayloadsAgree, VectorHeld, EiDelay
    <3> QED BY <2>22, <3>1, <3>2 DEF BuggedServiceLast, TicksLast, Ticks, CpuPhase, TypeOK
  <2> QED BY <1>2, <2>1, <2>2, <2>3, <2>4, <2>5, <2>6, <2>7, <2>8, <2>9,
       <2>10, <2>11, <2>12, <2>13, <2>14, <2>15, <2>16, <2>17, <2>18, <2>19,
       <2>20, <2>21, <2>22 DEF CpuMicroOperation
<1>3. ASSUME InterruptAggregation PROVE TypeOK'
  BY <1>3, MachineAssumption, SourcesAssumption, ZenonT(30) DEF InterruptAggregation,
         consume_interrupt_request, JoypadRequest, TypeOK, CpuTypeOK,
         DeviceTypeOK, ControlInv, PayloadsAgree, VectorHeld, EiDelay
<1>4. ASSUME WakeInterruptEvaluation PROVE TypeOK'
  <2>1. CASE WakeDeferred
    BY <2>1, MachineAssumption, SourcesAssumption DEF WakeDeferred,
       WakeEvaluationDeferred, IsHighestPending, pending_mask, TypeOK,
       CpuTypeOK, DeviceTypeOK, ControlInv, PayloadsAgree, VectorHeld,
       EiDelay
  <2>2. CASE WakeStopAsleep
    BY <2>2, MachineAssumption, SourcesAssumption DEF WakeStopAsleep,
       AwakePhase, AwakeBase, WakePhase, WakeEvaluationDeferred,
       IsHighestPending, pending_mask, TypeOK, CpuTypeOK, DeviceTypeOK,
       ControlInv, PayloadsAgree, VectorHeld, EiDelay
  <2>3. CASE WakeStop
    <3>1. DeviceTypeOK'
      BY <2>3 DEF WakeStop, WakePhase, AwakeBase, TypeOK, DeviceTypeOK
    <3>2. CpuTypeOK'
      BY <2>3, MachineAssumption DEF WakeStop, WakePhase, TypeOK, CpuTypeOK
    <3> QED BY <2>3, <3>1, <3>2 DEF WakeStop, WakePhase, TypeOK
  <2>4. CASE WakeTrapped
    BY <2>4, MachineAssumption, SourcesAssumption DEF WakeTrapped,
       AwakePhase, AwakeBase, WakePhase, WakeEvaluationDeferred,
       IsHighestPending, pending_mask, TypeOK, CpuTypeOK, DeviceTypeOK,
       ControlInv, PayloadsAgree, VectorHeld, EiDelay
  <2>5. CASE HaltEnter
    BY <2>5, MachineAssumption, SourcesAssumption DEF HaltEnter, AwakePhase,
       AwakeBase, WakePhase, WakeEvaluationDeferred, IsHighestPending,
       pending_mask, HaltRequested, TypeOK, CpuTypeOK, DeviceTypeOK,
       ControlInv, PayloadsAgree, VectorHeld, EiDelay
  <2>6. CASE HaltBug
    BY <2>6, MachineAssumption, SourcesAssumption DEF HaltBug, AwakePhase,
       AwakeBase, WakePhase, WakeEvaluationDeferred, IsHighestPending,
       pending_mask, HaltRequested, HaltReplays, TypeOK, CpuTypeOK,
       DeviceTypeOK, ControlInv, PayloadsAgree, VectorHeld, EiDelay
  <2>7. CASE HaltAccept
    BY <2>7, MachineAssumption, SourcesAssumption DEF HaltAccept,
       AwakePhase, AwakeBase, WakePhase, WakeEvaluationDeferred,
       IsHighestPending, pending_mask, HaltRequested, HaltReplays,
       accept_pending_interrupt, begin_interrupt_service, TypeOK, CpuTypeOK,
       DeviceTypeOK, ControlInv, PayloadsAgree, VectorHeld, EiDelay
  <2>8. CASE HaltedWake
    <3>1. CASE ime = "Enabled"
      BY <2>8, <3>1, MachineAssumption DEF HaltedWake, AwakeNoRequest, AwakePhase,
         AwakeBase, WakePhase, accept_pending_interrupt, begin_interrupt_service,
         TypeOK, CpuTypeOK, DeviceTypeOK
    <3>2. CASE ime = "Disabled"
      BY <2>8, <3>2, MachineAssumption DEF HaltedWake, AwakeNoRequest, AwakePhase,
         AwakeBase, WakePhase, TypeOK, CpuTypeOK, DeviceTypeOK
    <3> QED BY <2>8, <3>1, <3>2 DEF HaltedWake
  <2>9. CASE AcceptAtBoundary
    BY <2>9, MachineAssumption, SourcesAssumption DEF AcceptAtBoundary,
       AwakePhase, AwakeBase, WakePhase, WakeEvaluationDeferred,
       IsHighestPending, pending_mask, AwakeNoRequest,
       accept_pending_interrupt, begin_interrupt_service,
       can_accept_interrupt, TypeOK, CpuTypeOK, DeviceTypeOK, ControlInv,
       PayloadsAgree, VectorHeld, EiDelay
  <2>10. CASE WakeNothing
    BY <2>10, MachineAssumption, SourcesAssumption DEF WakeNothing,
       AwakePhase, AwakeBase, WakePhase, WakeEvaluationDeferred,
       IsHighestPending, pending_mask, AwakeNoRequest, can_accept_interrupt,
       TypeOK, CpuTypeOK, DeviceTypeOK, ControlInv, PayloadsAgree,
       VectorHeld, EiDelay
  <2> QED BY <1>4, <2>1, <2>2, <2>3, <2>4, <2>5, <2>6, <2>7, <2>8, <2>9,
       <2>10 DEF WakeInterruptEvaluation
<1>5. CASE UNCHANGED vars
  BY <1>5, MachineAssumption, SourcesAssumption DEF TypeOK, CpuTypeOK,
         DeviceTypeOK, ControlInv, PayloadsAgree, VectorHeld, EiDelay
<1> QED BY <1>1, <1>2, <1>3, <1>4, <1>5 DEF Next

(* update_visible_edge_state runs on every path that changes what P1 shows. *)
LEMMA VisibleStep ==
  ASSUME VisibleCacheCoherent, [Next]_vars
  PROVE  VisibleCacheCoherent'
<1> USE DEF VisibleCacheCoherent, joypadVars
<1>1. CASE UNCHANGED <<selected, pressed, visible>>
  BY <1>1 DEF visible_low
<1>2. ASSUME NEW rows, write_p1(rows) PROVE VisibleCacheCoherent'
  BY <1>2 DEF write_p1, UpdateVisibleEdgeState
<1>3. ASSUME NEW mask, apply_pressed_mask(mask) PROVE VisibleCacheCoherent'
  BY <1>1, <1>3 DEF apply_pressed_mask, UpdateVisibleEdgeState
<1>4. ASSUME NEW targets, BusWrite(targets) PROVE VisibleCacheCoherent'
  BY <1>1, <1>2, <1>4 DEF BusWrite, devVars
<1>5. CASE EarlyPhases
  BY <1>1, <1>3, <1>5 DEF EarlyPhases, ExternalEventIngress, devVars,
     DerivedEdgeResolution, PeripheralsRunning, PeripheralsPaused, PeripheralsStopped
<1>6. CASE CpuMicroOperation
  BY <1>1, <1>4, <1>6 DEF CpuMicroOperation, CpuStalled, AcceptCurrentCycle,
     TickWithinMachineCycle, SleepTick, SpeedSwitchPauseTick, Fetch, FetchNop,
     FetchDi, FetchEi, FetchInvalid, FetchHalt, FetchStopAsNop, FetchMultiCycle,
     ExecuteStore, ExecuteReti, ExecuteStopSpeedSwitch, ExecuteStop,
     ServiceInternal, ServicePushHigh, ServicePushHighToIe, ServicePushLow,
     BuggedServiceStep, BuggedServiceLast, devVars
<1>7. CASE InterruptAggregation BY <1>1, <1>7 DEF InterruptAggregation, consume_interrupt_request, JoypadRequest
<1>8. CASE WakeInterruptEvaluation
  BY <1>1, <1>8 DEF WakeInterruptEvaluation, WakeDeferred, WakeStopAsleep,
     WakeStop, WakeTrapped, HaltEnter, HaltBug, HaltAccept, HaltedWake,
     AcceptAtBoundary, WakeNothing, HaltRequested, AwakeNoRequest, AwakePhase,
     AwakeBase, devVars
<1>9. CASE UNCHANGED vars BY <1>1, <1>9 DEF vars, devVars
<1> QED BY <1>5, <1>6, <1>7, <1>8, <1>9 DEF Next

(* MachineInv is inductive, and every reachable state satisfies it: HALT is *)
(* resolved in its own T-cycle, the HALT bug meets its fetch, no halted CPU *)
(* sleeps over a request and no STOP wake event goes stale.                 *)
THEOREM MachineInvariant ==
  ASSUME NoServiceDeferral
  PROVE  Spec => []MachineInv
<1>1. Init => MachineInv
  <2> SUFFICES ASSUME Init PROVE MachineInv OBVIOUS
  <2> USE DEF Init, JoypadInit
  <2>1. TypeOK
    BY MachineAssumption DEF TypeOK, CpuTypeOK, DeviceTypeOK, Phases, ExecStates,
       LastPush, NoSource, NoRequest
  <2>2. VisibleCacheCoherent BY DEF VisibleCacheCoherent, visible_low
  <2>3. ControlInv
    BY DEF ControlInv, PayloadsAgree, VectorHeld, EiDelay, HaltRequestFresh, StopSleep,
       HaltResolvedBeforeFetch, HaltBugOnlyBeforeFetch, HaltedUnstalled,
       StopIsQuiet, NoMissedHaltWake, NoStaleStopWake
  <2> QED BY <2>1, <2>2, <2>3 DEF MachineInv, ControlInv
<1>2. MachineInv /\ [Next]_vars => MachineInv'
  BY ControlStep, TypeStep, VisibleStep DEF MachineInv, ControlInv
<1> QED BY <1>1, <1>2, PTL DEF Spec

(* No halted CPU is left asleep over an enabled request.                    *)
THEOREM MachineNoMissedHaltWake ==
  ASSUME NoServiceDeferral
  PROVE  Spec => []NoMissedHaltWake
<1>1. MachineInv => NoMissedHaltWake BY DEF MachineInv
<1> QED BY <1>1, MachineInvariant, PTL

(* The HALT bug is consumed by the fetch after HALT and by nothing else.    *)
THEOREM MachineHaltBugOnlyBeforeFetch ==
  ASSUME NoServiceDeferral
  PROVE  Spec => []HaltBugOnlyBeforeFetch
<1>1. MachineInv => HaltBugOnlyBeforeFetch BY DEF MachineInv
<1> QED BY <1>1, MachineInvariant, PTL

(* No edge of the button lines outlives its T-cycle as a STOP wake event.   *)
THEOREM MachineNoStaleStopWake ==
  ASSUME NoServiceDeferral
  PROVE  Spec => []NoStaleStopWake
<1>1. MachineInv => NoStaleStopWake BY DEF MachineInv
<1> QED BY <1>1, MachineInvariant, PTL

(* Service begins in four actions only; each begins it legally.             *)
LEMMA AcceptanceStep ==
  ASSUME MachineInv, [Next]_vars,
         exec # "ServiceInterrupt", exec' = "ServiceInterrupt"
  PROVE  /\ ime = "Enabled" /\ ei_shadow = 0
         /\ source' \in interrupt_enable
         /\ \A s \in interrupt_flags \cap interrupt_enable : Rank[source'] <= Rank[s]
<1> USE DEF vars, cpuVars, enter
<1>1. ime = "Enabled" => ei_shadow = 0
  BY DEF MachineInv, EiDelay, TypeOK, CpuTypeOK
<1>2. \/ AcceptCurrentCycle \/ HaltAccept \/ AcceptAtBoundary
      \/ HaltedWake /\ ime = "Enabled"
  <2>1. ~EarlyPhases
    BY DEF EarlyPhases, ExternalEventIngress, DerivedEdgeResolution,
       PeripheralsRunning, PeripheralsPaused, PeripheralsStopped
  <2>2. CASE CpuMicroOperation
    BY <2>2 DEF CpuMicroOperation, CpuStalled, TickWithinMachineCycle, SleepTick,
       SpeedSwitchPauseTick, FetchNop, FetchDi, FetchEi, FetchInvalid, FetchHalt,
       FetchStopAsNop, FetchMultiCycle, ExecuteStore, ExecuteReti,
       ExecuteStopSpeedSwitch, ExecuteStop, ServiceInternal, ServicePushHigh,
       ServicePushHighToIe, ServicePushLow, BuggedServiceStep, BuggedServiceLast,
       finish_instruction, finish_into, finish_service, NextServiceStep,
       stop_entry_resolution, TicksLast, Ticks
  <2>3. ~InterruptAggregation BY DEF InterruptAggregation, consume_interrupt_request, JoypadRequest
  <2>4. CASE WakeInterruptEvaluation
    BY <2>4 DEF WakeInterruptEvaluation, WakeDeferred, WakeStopAsleep, WakeStop,
       WakeTrapped, HaltEnter, HaltBug, HaltedWake, WakeNothing
  <2> QED BY <2>1, <2>2, <2>3, <2>4 DEF Next
<1>3. CASE AcceptCurrentCycle
  <2>1. PICK s \in Sources :
           /\ s \in interrupt_enable
           /\ \A r \in interrupt_flags \cap interrupt_enable : Rank[s] <= Rank[r]
           /\ begin_interrupt_service(s, 1)
    BY <1>3, AcceptedIsSource DEF MachineInv
  <2>2. source' = s BY <2>1 DEF begin_interrupt_service
  <2>3. ime = "Enabled" BY <1>3 DEF AcceptCurrentCycle, CurrentCycleAcceptable
  <2> QED BY <1>1, <2>1, <2>2, <2>3
<1>4. CASE accept_pending_interrupt /\ ime = "Enabled"
  <2>1. PICK s \in Sources : IsHighestPending(s) /\ begin_interrupt_service(s, 0)
    BY <1>4 DEF accept_pending_interrupt
  <2>2. source' = s BY <2>1 DEF begin_interrupt_service
  <2> QED BY <1>1, <1>4, <2>1, <2>2 DEF IsHighestPending, pending_mask
<1>5. HaltAccept => ime = "Enabled"
  BY DEF HaltAccept, HaltRequested, HaltReplays, MachineInv, HaltRequestFresh,
     TypeOK, CpuTypeOK
<1> QED
  BY <1>2, <1>3, <1>4, <1>5 DEF HaltAccept, AcceptAtBoundary, HaltedWake

(* Every acceptance happens with IME set, out of EI's shadow, for the       *)
(* highest enabled request.                                                 *)
THEOREM MachineAcceptanceIsLegal ==
  ASSUME NoServiceDeferral
  PROVE  Spec => AcceptanceIsLegal
<1>1. MachineInv /\ [Next]_vars =>
        [exec # "ServiceInterrupt" /\ exec' = "ServiceInterrupt" =>
           /\ ime = "Enabled" /\ ei_shadow = 0
           /\ source' \in interrupt_enable
           /\ \A s \in interrupt_flags \cap interrupt_enable :
                Rank[source'] <= Rank[s]]_vars
  BY AcceptanceStep
<1> QED BY <1>1, MachineInvariant, PTL DEF Spec, AcceptanceIsLegal

(* Phase 9 never takes the CPU away from an opcode that is already latched. *)
THEOREM MachineLatchedOpcodeFinishes ==
  ASSUME NoServiceDeferral
  PROVE  Spec => LatchedOpcodeFinishes
<1>1. MachineInv /\ [Next]_vars =>
        [phase = "wake" /\ op # "None" => UNCHANGED <<exec, step, op>>]_vars
  <2> SUFFICES ASSUME MachineInv, Next, phase = "wake", op # "None"
               PROVE  UNCHANGED <<exec, step, op>>
    BY DEF vars, cpuVars
  <2>1. exec \in {"Execute", "DiagnosticTrap"} /\ halt # "PendingRequest"
    BY DEF MachineInv, PayloadsAgree, HaltResolvedBeforeFetch
  <2>2. WakeInterruptEvaluation
    BY DEF Next, EarlyPhases, ExternalEventIngress, DerivedEdgeResolution,
       PeripheralsRunning, PeripheralsPaused, PeripheralsStopped,
       InterruptAggregation, CpuMicroOperation, CpuStalled, AcceptCurrentCycle,
       TickWithinMachineCycle, SleepTick, SpeedSwitchPauseTick, Fetch, FetchNop,
       FetchDi, FetchEi, FetchInvalid, FetchHalt, FetchStopAsNop,
       FetchMultiCycle, ExecuteStore, ExecuteReti, ExecuteStopSpeedSwitch,
       ExecuteStop, ServiceInternal, ServicePushHigh, ServicePushHighToIe,
       ServicePushLow, BuggedServiceStep, BuggedServiceLast, TicksLast, Ticks,
       CpuPhase, Phase
  <2> QED
    BY <2>1, <2>2 DEF WakeInterruptEvaluation, WakeDeferred, WakeStopAsleep,
       WakeStop, WakeTrapped, HaltEnter, HaltBug, HaltAccept, HaltRequested,
       HaltedWake, AcceptAtBoundary, can_accept_interrupt, WakeNothing,
       StopSleep, cpuVars
<1> QED BY <1>1, MachineInvariant, PTL DEF Spec, LatchedOpcodeFinishes

-----------------------------------------------------------------------------
(* The refinement.                                                          *)

(* Requests, flags and the handler, as InterruptLatch sees them.            *)
LEMMA LatchTypes ==
  ASSUME MachineInv
  PROVE  /\ interrupt_flags \subseteq Sources /\ Raised \subseteq Sources
         /\ Serving \in Sources \cup {NoSource}
         /\ exec = "ServiceInterrupt" => source \in Sources
BY DEF MachineInv, TypeOK, CpuTypeOK, DeviceTypeOK, PayloadsAgree, Raised, Serving

(* A CPU write is a write to IF, raises requests, or touches neither.       *)
LEMMA BusWriteLatch ==
  ASSUME MachineInv, DeviceTypeOK', NEW targets, BusWrite(targets)
  PROVE  /\ interrupt_flags' \subseteq Sources /\ Raised' \subseteq Sources
         /\ \/ Raised' = Raised
            \/ Raised \subseteq Raised' /\ interrupt_flags' = interrupt_flags
<1> USE DEF Raised, devVars, joypadVars, irqVars, ppuVars
<1>1. interrupt_flags' \subseteq Sources /\ Raised' \subseteq Sources
  BY DEF DeviceTypeOK
<1>2. CASE UNCHANGED <<queued, ppu_pending, edge_pending>> BY <1>1, <1>2
<1>3. ASSUME NEW rows, write_p1(rows), UNCHANGED <<irqVars, ppuVars>>
      PROVE  Raised \subseteq Raised' /\ interrupt_flags' = interrupt_flags
  BY <1>3 DEF write_p1, UpdateVisibleEdgeState, EdgeConsumers
<1>4. CASE /\ ppu_pending' \in {ppu_pending, ppu_pending \cup ({"LcdStat"} \cap Sources)}
           /\ UNCHANGED <<joypadVars, irqVars>>
  BY <1>1, <1>4
<1> QED BY <1>1, <1>2, <1>3, <1>4 DEF BusWrite

(* Every step of the machine is a step of the latch or leaves it alone.     *)
LEMMA LatchStep ==
  ASSUME MachineInv, MachineInv', [Next]_vars
  PROVE  [Latch!Next]_(Latch!latchVars)
<1> DEFINE Same == UNCHANGED <<interrupt_flags, Raised, Serving, Entered>>
<1> USE DEF Latch!latchVars
<1>a. Same => [Latch!Next]_(Latch!latchVars) OBVIOUS
<1>b. /\ interrupt_flags \subseteq Sources /\ Raised \subseteq Sources
      /\ interrupt_flags' \subseteq Sources /\ Raised' \subseteq Sources
  <2>1. interrupt_flags \subseteq Sources /\ Raised \subseteq Sources
    BY LatchTypes
  <2>2. interrupt_flags' \subseteq Sources /\ Raised' \subseteq Sources
    BY DEF MachineInv, TypeOK, DeviceTypeOK, Raised
  <2> QED BY <2>1, <2>2
<1>c. NoSource \notin Sources /\ "Body" \notin Sources /\ "Zero" \notin Sources
  BY SourcesAssumption DEF NoSource, AllSources
<1>d. ASSUME Raised \subseteq Raised', UNCHANGED <<interrupt_flags, Serving, Entered>>
      PROVE  [Latch!Next]_(Latch!latchVars)
  BY <1>b, <1>d DEF Latch!Next, Latch!Raise
<1>e. ASSUME NEW targets, BusWrite(targets), UNCHANGED <<Serving, Entered>>
      PROVE  [Latch!Next]_(Latch!latchVars)
  <2>1. \/ Raised' = Raised
        \/ Raised \subseteq Raised' /\ interrupt_flags' = interrupt_flags
    BY <1>e, BusWriteLatch DEF MachineInv, TypeOK
  <2>2. CASE Raised' = Raised
    BY <1>b, <1>e, <2>2 DEF Latch!Next, Latch!SoftwareWrite
  <2>3. CASE Raised \subseteq Raised' /\ interrupt_flags' = interrupt_flags
    BY <1>d, <1>e, <2>3
  <2> QED BY <2>1, <2>2, <2>3
<1>1. CASE EarlyPhases
  <2>1. UNCHANGED <<interrupt_flags, Serving, Entered>>
    BY <1>1 DEF EarlyPhases, ExternalEventIngress, DerivedEdgeResolution,
       PeripheralsRunning, PeripheralsPaused, PeripheralsStopped, cpuVars,
       irqVars, devVars, Serving, Entered
  <2>2. Raised \subseteq Raised'
    <3>1. CASE ExternalEventIngress
      BY <3>1 DEF ExternalEventIngress, irqVars, ppuVars, Raised, joypadVars,
         apply_pressed_mask, UpdateVisibleEdgeState, EdgeConsumers
    <3>2. CASE DerivedEdgeResolution
      BY <3>2 DEF DerivedEdgeResolution, ppuVars, joypadVars, Raised
    <3>3. CASE PeripheralsRunning
      BY <3>3 DEF PeripheralsRunning, PpuTick, joypadVars, Raised
    <3>4. CASE PeripheralsPaused
      BY <3>4 DEF PeripheralsPaused, PpuTick, joypadVars, irqVars, Raised
    <3>5. CASE PeripheralsStopped
      BY <3>5 DEF PeripheralsStopped, devVars, ppuVars, joypadVars, irqVars, Raised
    <3> QED BY <1>1, <3>1, <3>2, <3>3, <3>4, <3>5 DEF EarlyPhases
  <2> QED BY <1>d, <2>1, <2>2
<1>2. CASE CpuMicroOperation
  <2> USE DEF cpuVars, devVars, joypadVars, irqVars, ppuVars
  <2>1. CASE CpuStalled \/ SleepTick \/ TickWithinMachineCycle \/ ServiceInternal
    <3>1. Same
      BY <2>1 DEF CpuStalled, SleepTick, TickWithinMachineCycle, ServiceInternal,
         NextServiceStep, Raised, Serving, Entered
    <3> QED BY <1>a, <3>1
  <2>2. CASE SpeedSwitchPauseTick
    <3>1. Same
      BY <2>2 DEF SpeedSwitchPauseTick, Ticks, enter, Raised, Serving, Entered
    <3> QED BY <1>a, <3>1
  <2>3. CASE AcceptCurrentCycle
    <3>1. PICK s \in Sources :
             /\ s \in interrupt_flags \cup queued
             /\ interrupt_flags' = interrupt_flags \ {s}
             /\ queued' = queued \ {s}
             /\ begin_interrupt_service(s, 1)
      BY <2>3, AcceptedIsSource DEF MachineInv
    <3>2. Serving = NoSource /\ Serving' = s /\ Entered' = Entered
      BY <2>3, <3>1 DEF AcceptCurrentCycle, CurrentCycleAcceptable,
         can_accept_interrupt, begin_interrupt_service, Serving, Entered
    <3>3. UNCHANGED <<ppu_pending, edge_pending>> BY <2>3 DEF AcceptCurrentCycle
    <3>4. CASE s \in queued
      <4>1. Raised' = Raised \ {s} /\ s \in Raised
        BY <3>1, <3>3, <3>4 DEF Raised, MachineInv, TypeOK, DeviceTypeOK
      <4> QED BY <3>1, <3>2, <4>1 DEF Latch!Next, Latch!Accept
    <3>5. CASE s \notin queued
      <4>1. Raised' = Raised /\ s \in interrupt_flags
        BY <3>1, <3>3, <3>5 DEF Raised
      <4> QED BY <3>1, <3>2, <4>1 DEF Latch!Next, Latch!Accept
    <3> QED BY <3>4, <3>5
  <2>4. CASE \/ FetchNop \/ FetchDi \/ FetchEi \/ FetchInvalid \/ FetchHalt
             \/ FetchStopAsNop \/ FetchMultiCycle
    <3>1. /\ UNCHANGED <<interrupt_flags, Raised>>
          /\ exec = "FetchOpcode" /\ pc' = "Body"
          /\ exec' # "ServiceInterrupt"
      BY <2>4 DEF FetchNop, FetchDi, FetchEi, FetchInvalid, FetchHalt,
         FetchStopAsNop, FetchMultiCycle, Fetch, TicksLast, Ticks, Raised,
         finish_instruction, finish_into, enter
    <3>2. Serving = NoSource /\ Serving' = NoSource /\ Entered' = NoSource
      BY <1>c, <3>1 DEF Serving, Entered
    <3> QED BY <3>1, <3>2 DEF Latch!Next, Latch!LeaveVector
  <2>5. CASE ExecuteReti \/ ExecuteStopSpeedSwitch \/ ExecuteStop
    <3>1. Same
      BY <2>5 DEF ExecuteReti, ExecuteStopSpeedSwitch, ExecuteStop, TicksLast,
         Ticks, finish_instruction, finish_into, enter, stop_entry_resolution,
         Raised, Serving, Entered
    <3> QED BY <1>a, <3>1
  <2>6. CASE ExecuteStore
    <3>1. UNCHANGED <<Serving, Entered>> /\ BusWrite(BusTargets)
      BY <2>6 DEF ExecuteStore, TicksLast, Ticks, finish_instruction, finish_into,
         enter, Serving, Entered
    <3> QED BY <1>e, <3>1
  <2>7. CASE ServicePushHigh
    <3>1. UNCHANGED <<Serving, Entered>> /\ BusWrite(BusTargets \ {"IE"})
      BY <2>7 DEF ServicePushHigh, NextServiceStep, Serving, Entered
    <3> QED BY <1>e, <3>1
  <2>8. CASE ServicePushHighToIe
    <3>1. /\ Serving = source /\ source \in Sources
          /\ Raised' = Raised /\ exec = "ServiceInterrupt"
      BY <2>8, LatchTypes DEF ServicePushHighToIe, TicksLast, Ticks, Serving, Raised
    <3>2. CASE /\ finish_service("Zero")
               /\ interrupt_flags' = interrupt_flags \cup {source}
      <4>1. Serving' = NoSource /\ Entered' = NoSource
        BY <1>c, <3>2 DEF finish_service, enter, Serving, Entered
      <4> QED BY <1>c, <3>1, <3>2, <4>1 DEF Latch!Next, Latch!Cancel
    <3>3. CASE source' = source /\ interrupt_flags' = interrupt_flags /\ NextServiceStep
      <4>1. Same BY <3>1, <3>3 DEF NextServiceStep, Serving, Entered
      <4> QED BY <1>a, <4>1
    <3>4. CASE /\ source' \in interrupt_flags \ {source} /\ NextServiceStep
               /\ interrupt_flags' = (interrupt_flags \cup {source}) \ {source'}
      <4>1. Serving' = source' /\ Entered' = Entered
        BY <3>1, <3>4 DEF NextServiceStep, Serving, Entered
      <4>2. source' \in Sources BY <1>b, <3>4
      <4> QED BY <1>c, <3>1, <3>4, <4>1, <4>2 DEF Latch!Next, Latch!Retarget
    <3> QED BY <2>8, <3>2, <3>3, <3>4, RetargetIsSource DEF MachineInv
  <2>9. CASE ServicePushLow
    <3>1. /\ Serving = source /\ source \in Sources /\ BusWrite(BusTargets)
          /\ finish_service(source)
      BY <2>9, LatchTypes DEF ServicePushLow, TicksLast, Ticks, Serving
    <3>2. Serving' = NoSource /\ Entered' = source
      BY <3>1 DEF finish_service, enter, Serving, Entered
    <3>3. \/ Raised' = Raised
          \/ Raised \subseteq Raised' /\ interrupt_flags' = interrupt_flags
      BY <3>1, BusWriteLatch DEF MachineInv, TypeOK
    <3> QED BY <1>b, <1>c, <3>1, <3>2, <3>3 DEF Latch!Next, Latch!Dispatch
  <2>10. CASE BuggedServiceStep
    <3>1. UNCHANGED <<Serving, Entered>>
      BY <2>10 DEF BuggedServiceStep, NextServiceStep, Serving, Entered
    <3>2. CASE step = 3 BY <1>e, <2>10, <3>1, <3>2 DEF BuggedServiceStep
    <3>3. CASE step # 3
      <4>1. Same BY <2>10, <3>1, <3>3 DEF BuggedServiceStep, Raised
      <4> QED BY <1>a, <4>1
    <3> QED BY <3>2, <3>3
  <2>11. CASE BuggedServiceLast
    <3>1. exec = "BuggedService" /\ pc \notin Sources /\ BusWrite(BusTargets)
      BY <2>11 DEF BuggedServiceLast, TicksLast, Ticks, MachineInv, VectorHeld
    <3>2. UNCHANGED <<Serving, Entered>>
      BY <1>c, <2>11, <3>1 DEF BuggedServiceLast, finish_service, enter, Serving, Entered
    <3> QED BY <1>e, <3>1, <3>2
  <2> QED
    BY <1>2, <2>1, <2>2, <2>3, <2>4, <2>5, <2>6, <2>7, <2>8, <2>9, <2>10, <2>11
    DEF CpuMicroOperation
<1>3. CASE InterruptAggregation
  <2>1. /\ interrupt_flags' = interrupt_flags \cup Raised /\ Raised' = {}
        /\ UNCHANGED <<Serving, Entered>>
    BY <1>3 DEF InterruptAggregation, consume_interrupt_request, JoypadRequest, cpuVars, Raised, Serving, Entered
  <2> QED BY <2>1 DEF Latch!Next, Latch!Publish
<1>4. CASE WakeInterruptEvaluation
  <2> USE DEF cpuVars, devVars, joypadVars, irqVars, ppuVars
  <2>1. CASE WakeDeferred \/ WakeStopAsleep \/ WakeTrapped \/ WakeNothing
    <3>1. Same
      BY <2>1 DEF WakeDeferred, WakeStopAsleep, WakeTrapped, WakeNothing,
         AwakeNoRequest, AwakePhase, AwakeBase, Raised, Serving, Entered
    <3> QED BY <1>a, <3>1
  <2>2. CASE WakeStop
    <3>1. UNCHANGED <<Raised, Serving, Entered>> /\ Serving = NoSource
      BY <2>2 DEF WakeStop, AwakeBase, enter, StopSleep, Raised, Serving, Entered
    <3>2. CASE StopBugged
      <4>1. "Joypad" \in interrupt_flags /\ interrupt_flags' = interrupt_flags \ {"Joypad"}
        BY <2>2, <3>2 DEF WakeStop, StopBugged, pending_mask
      <4> QED BY <1>b, <3>1, <4>1 DEF Latch!Next, Latch!AcceptBugged
    <3>3. CASE ~StopBugged
      <4>1. Same BY <2>2, <3>1, <3>3 DEF WakeStop
      <4> QED BY <1>a, <4>1
    <3> QED BY <3>2, <3>3
  <2>3. CASE HaltEnter \/ HaltBug
    <3>1. exec = "FetchOpcode"
      BY <2>3 DEF HaltEnter, HaltBug, HaltRequested, MachineInv,
         HaltResolvedBeforeFetch
    <3>2. Same
      BY <2>3, <3>1 DEF HaltEnter, HaltBug, HaltRequested, AwakePhase, AwakeBase,
         enter, Raised, Serving, Entered
    <3> QED BY <1>a, <3>2
  <2>4. ASSUME accept_pending_interrupt, exec # "ServiceInterrupt",
               UNCHANGED <<queued, ppu_pending>>,
               edge_pending' = edge_pending \ {"stop_wake"}
        PROVE  [Latch!Next]_(Latch!latchVars)
    <3>1. PICK s \in Sources : /\ s \in interrupt_flags
                               /\ interrupt_flags' = interrupt_flags \ {s}
                               /\ begin_interrupt_service(s, 0)
      BY <2>4 DEF accept_pending_interrupt, IsHighestPending, pending_mask
    <3>2. /\ Serving = NoSource /\ Serving' = s
          /\ UNCHANGED <<Raised, Entered>>
      BY <2>4, <3>1 DEF begin_interrupt_service, Serving, Entered, Raised
    <3> QED BY <3>1, <3>2 DEF Latch!Next, Latch!Accept
  <2>5. CASE HaltAccept
    <3>1. exec = "FetchOpcode"
      BY <2>5 DEF HaltAccept, HaltRequested, MachineInv, HaltResolvedBeforeFetch
    <3> QED
      BY <2>4, <2>5, <3>1 DEF HaltAccept, HaltRequested, AwakePhase, AwakeBase
  <2>6. CASE HaltedWake
    <3>1. CASE ime = "Enabled"
      BY <2>4, <2>6, <3>1 DEF HaltedWake, AwakeNoRequest, AwakePhase, AwakeBase
    <3>2. CASE ime = "Disabled"
      <4>1. Same
        BY <2>6, <3>2 DEF HaltedWake, AwakeNoRequest, AwakePhase, AwakeBase,
           enter, Raised, Serving, Entered
      <4> QED BY <1>a, <4>1
    <3> QED BY <2>6, <3>1, <3>2 DEF HaltedWake
  <2>7. CASE AcceptAtBoundary
    BY <2>4, <2>7 DEF AcceptAtBoundary, AwakeNoRequest, AwakePhase, AwakeBase,
       can_accept_interrupt
  <2> QED
    BY <1>4, <2>1, <2>2, <2>3, <2>5, <2>6, <2>7 DEF WakeInterruptEvaluation
<1>5. CASE UNCHANGED vars
  <2>1. Same
    BY <1>5 DEF vars, cpuVars, devVars, joypadVars, irqVars, ppuVars, Raised,
       Serving, Entered
  <2> QED BY <1>a, <2>1
<1> QED BY <1>1, <1>2, <1>3, <1>4, <1>5 DEF Next

(* The scheduler, the CPU and the interrupt controller together implement   *)
(* the latch: no request is lost or consumed twice, and an accepted source  *)
(* is dispatched or restored.                                               *)
THEOREM MachineRefinesLatch ==
  ASSUME NoServiceDeferral
  PROVE  Spec => LatchSpec
<1>1. Init => Latch!Init
  BY SourcesAssumption DEF Init, JoypadInit, Latch!Init, Raised, Serving, Entered,
     AllSources
<1>2. MachineInv /\ MachineInv' /\ [Next]_vars => [Latch!Next]_(Latch!latchVars)
  BY LatchStep
<1> QED BY <1>1, <1>2, MachineInvariant, PTL DEF Spec, LatchSpec, Latch!Spec
=============================================================================
