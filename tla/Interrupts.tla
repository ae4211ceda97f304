----------------------------- MODULE Interrupts -----------------------------
(* The interrupt controller (crates/gb-core/src/interrupts.rs): IF and IE   *)
(* as sets of sources, and the fixed priority between them.                 *)
EXTENDS Integers

CONSTANT Sources   \* the sources a model uses

AllSources == {"VBlank", "LcdStat", "Timer", "Serial", "Joypad"}
NoSource == "None"

ASSUME SourcesAssumption == Sources \subseteq AllSources

VARIABLES
  interrupt_flags,    \* IF
  interrupt_enable    \* IE

(* Position in the order of InterruptSource::highest_priority_from_mask.    *)
Rank == [s \in AllSources |->
           CASE s = "VBlank" -> 0 [] s = "LcdStat" -> 1 [] s = "Timer" -> 2
             [] s = "Serial" -> 3 [] s = "Joypad" -> 4]

highest_priority_from_mask(mask) ==
  CHOOSE s \in mask : \A r \in mask : Rank[s] <= Rank[r]

pending_mask == interrupt_flags \cap interrupt_enable

(* highest_pending() == Some(s)                                             *)
IsHighestPending(s) ==
  s \in pending_mask /\ \A r \in pending_mask : Rank[s] <= Rank[r]
=============================================================================
