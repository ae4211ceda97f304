-------------------------------- MODULE Apu --------------------------------
(***************************************************************************)
(* The control of the sound unit (crates/gb-core/src/apu): the master      *)
(* switch NR52, the frame sequencer that the divider drives, and one       *)
(* channel behind them.  The four channels share no state, so the module   *)
(* carries one of them: a pulse channel with or without the sweep, the     *)
(* wave channel or the noise channel, on a console of the DMG or of the    *)
(* CGB family.                                                             *)
(*                                                                         *)
(* What a channel plays (duty, wave samples, noise register, mixer) is     *)
(* left out.  What starts it, ends it and sets its loudness is here: DAC,  *)
(* trigger, length, envelope, sweep, and the noise channel's late start.   *)
(*                                                                         *)
(* Tick stands for two T-cycles.  The divider's signal may fall between    *)
(* any two ticks: a write to DIV and STOP reset it at any time, so a       *)
(* falling edge is not tied to a number of ticks.                          *)
(***************************************************************************)
EXTENDS ApuUnits, ApuSweep, TLC

CONSTANTS
    Channels,       \* pairs <<model, kind>>: the machines to explore
    Nrx2Values,     \* Nrx2Values[kind]: the values written to NRx2 (NR30)
    Nr10Values,     \* the values written to NR10
    LengthLoads,    \* LengthLoads[kind]: the counters that a write to NRx1 loads
    LengthBits,     \* LengthBits[kind]: the values written to bit 6 of NRx4
    PeriodLow,      \* number of periods that NR13 spans (256 in the code)
    PeriodLows,     \* the values written to NR13
    MaxWrites,      \* bound: MaxWrites[kind] register writes in one behaviour
    MaxEnvelope     \* bound: envelope clocks counted after a trigger

ASSUME ApuAssumption ==
    /\ Channels \subseteq {"DMG", "CGB"} \X {"pulse", "sweep", "wave", "noise"}
    /\ \A k \in Channels :
          /\ Nrx2Values[k[2]] \subseteq
                [volume : 0..MaxVolume, increase : BOOLEAN, pace : 0..7]
          /\ LengthLoads[k[2]] \subseteq 1..LengthReload
          /\ LengthBits[k[2]] \subseteq BOOLEAN
    /\ Nr10Values \subseteq [pace : 0..PhaseMask, decrease : BOOLEAN, shift : 0..7]
    /\ PeriodLow \in Nat \ {0}
    /\ PeriodLows \subseteq 0..(PeriodLow - 1)
    /\ (PeriodMax + 1) % PeriodLow = 0
    /\ \A k \in Channels : MaxWrites[k[2]] \in Nat
    /\ MaxEnvelope \in Nat

VARIABLES
    model, kind,    \* which console and which channel: fixed
    powered,        \* NR52 bit 7
    div,            \* the divider bit that clocks the frame sequencer
    step,           \* the frame sequencer's next step
    skip,           \* skip_next_frame_sequencer_edge
    half,           \* half of a machine cycle: the CPU writes at its start
    ch,             \* the channel
    writes,         \* register writes so far
    past            \* history: see below

vars == <<model, kind, powered, div, step, skip, half, ch, writes, past>>

(* History, for the properties only: length clocks since the channel's     *)
(* NRx1 or NRx4 was last written; whether it was triggered since power-on  *)
(* or came sounding from the boot; envelope clocks since the trigger and   *)
(* whether the first one was too early to count; whether envelope and      *)
(* sweep ran undisturbed since then.                                       *)
NoPast == [since |-> 0, triggered |-> FALSE, clocks |-> 0, early |-> FALSE,
           calm |-> FALSE, steady |-> FALSE]

-----------------------------------------------------------------------------
(* The channel.                                                            *)

AlignedNoise == [alignment |-> 0, delayed |-> 0, envelope_next |-> FALSE]

(* Registers and units after a power-off, with the counter it keeps.       *)
ClearedChannel(counter) ==
    [ dac |-> FALSE, active |-> FALSE, counter |-> counter, enabled |-> FALSE,
      nrx4 |-> FALSE, nrx2 |-> NoVolume, env |-> ClearedEnvelope,
      nr10 |-> NoSweep, period |-> 0, sweep |-> ClearedSweep,
      noise |-> AlignedNoise ]

LengthOf(c) == [counter |-> c.counter, enabled |-> c.enabled, active |-> c.active]
WithLength(c, u) ==
    [c EXCEPT !.counter = u.counter, !.enabled = u.enabled, !.active = u.active]

SweepOf(c) == WithRegisters(c.sweep, c.period, c.nr10, c.active)
WithSweep(c, s) ==
    [c EXCEPT !.sweep = s.unit, !.period = s.period, !.nr10 = s.nr10,
              !.active = s.active]

set_dac_enabled(c, on) == [c EXCEPT !.dac = on, !.active = @ /\ on]

trigger(c, nextClocksEnvelope) ==
    LET timed == WithLength(c, reload_zero_length(LengthOf(c)))
        loud == [timed EXCEPT
                   !.env = reload(apply_envelope_write(@, timed.nrx2),
                                  nextClocksEnvelope),
                   !.active = @ \/ timed.dac]
    IN  IF kind = "sweep" THEN WithSweep(loud, sweep_trigger(SweepOf(loud), model))
        ELSE loud

(* A noise channel out of phase starts six steps later on an old console.  *)
delayed_dmg_trigger(c) == kind = "noise" /\ model = "DMG" /\ c.noise.alignment # 0

(* The step of the sequencer that a write takes to come next.              *)
effective_frame_sequencer_step == IF skip THEN 1 ELSE step

(* NRx4: period bits, trigger, length enable, and the extra length clock   *)
(* when the sequencer's next step will not clock the counter.              *)
write_nrx4(c, trig, lengthBit, high) ==
    LET next == effective_frame_sequencer_step
        kept == kind = "sweep" /\ PeriodLocked(SweepOf(c))
        written == [c EXCEPT !.nrx4 = lengthBit,
                             !.period = IF kept THEN @ ELSE (@ % PeriodLow) + high * PeriodLow]
        reloaded == trig /\ c.counter = 0
        started ==
            IF ~trig
            THEN IF kind = "sweep"
                 THEN WithSweep(written, rederive_increment(SweepOf(written), model))
                 ELSE written
            ELSE IF delayed_dmg_trigger(c)
            THEN [WithLength(written, reload_zero_length(LengthOf(written))) EXCEPT
                    !.noise.delayed = 6,
                    !.noise.envelope_next = step_clocks_envelope(next)]
            ELSE trigger(written, step_clocks_envelope(next))
        was == IF trig /\ kind # "wave" THEN started.enabled ELSE c.enabled
        enabled == [started EXCEPT !.enabled = lengthBit]
    IN  WithLength(enabled,
            apply_extra_length_clocking(LengthOf(enabled), was,
                step_clocks_length(next), trig, reloaded))

write_nrx2(c, v) ==
    IF kind = "wave"
    THEN set_dac_enabled(c, derived_dac_enabled(v))
    ELSE set_dac_enabled(
            [c EXCEPT !.env = apply_live_write_effect(@, model, c.active, v),
                      !.nrx2 = v],
            derived_dac_enabled(v))

(* A power-off clears the channel; the old consoles keep its counter.      *)
power_off_registers(c) == ClearedChannel(IF model = "DMG" THEN c.counter ELSE 0)

mark_powered_on(c) == [c EXCEPT !.noise = AlignedNoise]

(* tick_fast_timers for two T-cycles: the noise channel's alignment and    *)
(* late start, the sweep's background calculation.                         *)
tick_fast_timers(c) ==
    LET aligned == [c EXCEPT !.noise.alignment = (@ + 1) % 4,
                             !.noise.delayed = IF @ > 0 THEN @ - 1 ELSE 0]
        started == [trigger(aligned, c.noise.envelope_next) EXCEPT
                      !.noise.envelope_next = FALSE]
    IN  CASE kind = "noise" -> IF c.noise.delayed = 1 THEN started ELSE aligned
          [] kind = "sweep" -> WithSweep(c, tick_sweep(SweepOf(c), model, half = 0))
          [] OTHER          -> c

tick_powered_off_timebase(c) ==
    IF kind = "noise" THEN [c EXCEPT !.noise.alignment = (@ + 1) % 4] ELSE c

(* The channel's share of one step of the frame sequencer.                 *)
clock_channel(c) ==
    LET timed == IF step_clocks_length(step)
                 THEN WithLength(c, clock_length_counter(LengthOf(c))) ELSE c
        swept == IF step_clocks_sweep(step) /\ kind = "sweep"
                 THEN WithSweep(timed, clock_sweep(SweepOf(timed), model)) ELSE timed
        ticked == IF ~step_clocks_length(step) /\ model = "CGB"
                  THEN [swept EXCEPT !.env = clock_pending_even_tick(@)] ELSE swept
    IN  IF step_clocks_envelope(step)
        THEN [ticked EXCEPT !.env = clock_envelope(@)] ELSE ticked

-----------------------------------------------------------------------------
(* The master unit.                                                        *)

(* A channel that the boot hands over sounding, its volume already set.    *)
StartedChannel(v, sounding) ==
    [ClearedChannel(LengthReload) EXCEPT
        !.nrx2 = v,
        !.dac = derived_dac_enabled(v),
        !.active = sounding /\ derived_dac_enabled(v),
        !.env = reload(apply_envelope_write(@, v), FALSE),
        !.sweep.phase = phase_from_pace(0)]

Init ==
    /\ \E k \in Channels : model = k[1] /\ kind = k[2]
    /\ div \in BOOLEAN /\ step = 0 /\ skip = FALSE /\ half = 0
    /\ \/ powered = FALSE /\ ch = ClearedChannel(0)
       \/ /\ powered = TRUE
          /\ \E v \in Nrx2Values[kind], b \in BOOLEAN : ch = StartedChannel(v, b)
    /\ writes = 0 /\ past = [NoPast EXCEPT !.triggered = ch.active]

(* Two T-cycles of the generators.  Of the state kept here only the sweep  *)
(* and the noise channel's timebase move.                                  *)
Tick ==
    /\ kind \in {"sweep", "noise"}
    /\ half' = 1 - half
    /\ ch' = IF powered THEN tick_fast_timers(ch) ELSE tick_powered_off_timebase(ch)
    /\ past' = IF ch.noise.delayed = 1 /\ powered
               THEN [past EXCEPT !.clocks = 0, !.early = ch.noise.envelope_next,
                                 !.calm = TRUE]
               ELSE past
    /\ UNCHANGED <<model, kind, powered, div, step, skip, writes>>

(* The sweep has finished every calculation it has under way.              *)
SweepAtRest(c) ==
    /\ c.sweep.delay = 0
    /\ c.sweep.rc.reload = 0 /\ ~c.sweep.rc.instant /\ c.sweep.restart = 0
    /\ c.sweep.rc.countdown = 0 \/ c.nr10.shift = 0

(* The divider's bit stays low for thousands of T-cycles after each fall,   *)
(* so whatever was under way at the fall is over when it rises.            *)
SignalRises ==
    /\ ~div
    /\ ch.noise.delayed = 0 /\ SweepAtRest(ch)
    /\ div' = TRUE
    /\ UNCHANGED <<model, kind, powered, step, skip, half, ch, writes, past>>

PastEdge ==
    [past EXCEPT
        !.since = IF step_clocks_length(step) /\ ch.nrx4 /\ ch.active /\ @ < LengthReload
                  THEN @ + 1 ELSE @,
        !.clocks = IF step_clocks_envelope(step) /\ past.calm /\ ch.env.pace # 0
                   THEN @ + 1 ELSE @,
        !.steady = @ /\ SweepAtRest(ch)]

(* advance_frame_sequencer, on the signal's falling edge.                  *)
FrameSequencerEdge ==
    /\ div
    /\ past.calm => past.clocks < MaxEnvelope
    /\ div' = FALSE
    /\ skip' = FALSE
    /\ step' = IF skip THEN step ELSE (step + 1) % 8
    /\ ch' = IF skip \/ ~powered THEN ch ELSE clock_channel(ch)
    /\ past' = IF skip \/ ~powered THEN past ELSE PastEdge
    /\ UNCHANGED <<model, kind, powered, half, writes>>

CpuWrites ==
    /\ model = "DMG" => half = 0
    /\ writes < MaxWrites[kind]
    /\ writes' = writes + 1
    /\ UNCHANGED <<model, kind, div, half>>

WriteLength ==
    \E n \in LengthLoads[kind] :
        /\ CpuWrites
        /\ powered \/ model = "DMG"
        /\ ch' = [ch EXCEPT !.counter = n]
        /\ past' = [past EXCEPT !.since = 0]
        /\ UNCHANGED <<powered, step, skip>>

WriteVolume ==
    \E v \in Nrx2Values[kind] :
        /\ CpuWrites
        /\ powered
        /\ ch' = write_nrx2(ch, v)
        /\ past' = [past EXCEPT !.calm = FALSE, !.clocks = 0, !.early = FALSE]
        /\ UNCHANGED <<powered, step, skip>>

WriteSweep ==
    \E v \in Nr10Values :
        /\ CpuWrites
        /\ powered /\ kind = "sweep"
        /\ ch' = WithSweep(ch, write_nr10(SweepOf(ch), v, model))
        /\ past' = [past EXCEPT !.steady = FALSE]
        /\ UNCHANGED <<powered, step, skip>>

WritePeriodLow ==
    \E low \in PeriodLows :
        /\ CpuWrites
        /\ powered /\ kind = "sweep"
        /\ ch' = IF PeriodLocked(SweepOf(ch)) THEN ch
                 ELSE [ch EXCEPT !.period = (@ - (@ % PeriodLow)) + low]
        /\ past' = [past EXCEPT !.steady = FALSE]
        /\ UNCHANGED <<powered, step, skip>>

WriteControl ==
    \E trig \in BOOLEAN, lengthBit \in LengthBits[kind] :
    \E high \in 0..(((PeriodMax + 1) \div PeriodLow) - 1) :
        /\ CpuWrites
        /\ powered
        /\ kind = "sweep" \/ high = 0
        /\ ch' = write_nrx4(ch, trig, lengthBit, high)
        /\ LET now == trig /\ ~delayed_dmg_trigger(ch)
           IN  past' = [past EXCEPT
                          !.since = 0,
                          !.triggered = @ \/ trig,
                          !.clocks = IF now THEN 0 ELSE @,
                          !.early = IF now
                                    THEN step_clocks_envelope(effective_frame_sequencer_step)
                                    ELSE @,
                          !.calm = @ \/ now,
                          !.steady = IF trig THEN SweepAtRest(ch) ELSE FALSE]
        /\ UNCHANGED <<powered, step, skip>>

(* NR52: a power-on takes the sequencer's phase from the divider's signal. *)
PowerOn ==
    /\ CpuWrites
    /\ ~powered
    /\ powered' = TRUE
    /\ step' = IF div /\ model = "CGB" THEN 7 ELSE 0
    /\ skip' = (div /\ model = "DMG")
    /\ ch' = mark_powered_on(ch)
    /\ UNCHANGED past

PowerOff ==
    /\ CpuWrites
    /\ powered
    /\ powered' = FALSE
    /\ ch' = power_off_registers(ch)
    /\ past' = NoPast
    /\ UNCHANGED <<step, skip>>

Next ==
    \/ Tick \/ SignalRises \/ FrameSequencerEdge
    \/ WriteLength \/ WriteVolume \/ WriteSweep \/ WritePeriodLow \/ WriteControl
    \/ PowerOn \/ PowerOff

Spec == Init /\ [][Next]_vars

-----------------------------------------------------------------------------
(* Properties.                                                             *)

Envelopes ==
    [ initial : 0..MaxVolume, increase : BOOLEAN, pace : 0..7, auto : BOOLEAN,
      timer : 0..9, volume : 0..MaxVolume, short : BOOLEAN, pending : BOOLEAN ]

(* The state stays in its domain: counters, volumes and periods never      *)
(* leave the width of their fields (apu/common.rs).                        *)
TypeOK ==
    /\ <<model, kind>> \in Channels
    /\ powered \in BOOLEAN /\ div \in BOOLEAN /\ skip \in BOOLEAN
    /\ step \in 0..7 /\ half \in 0..1 /\ writes \in 0..MaxWrites[kind]
    /\ ch.dac \in BOOLEAN /\ ch.active \in BOOLEAN /\ ch.enabled \in BOOLEAN
    /\ ch.nrx4 \in BOOLEAN
    /\ ch.counter \in 0..LengthReload
    /\ ch.env \in Envelopes
    /\ ch.period \in 0..PeriodMax /\ ch.sweep.shadow \in 0..PeriodMax
    /\ ch.sweep.phase \in 0..PhaseMask
    /\ ch.noise.alignment \in 0..3 /\ ch.noise.delayed \in 0..6

(* The channel answers to the length that NRx4 bit 6 asks for.  The late   *)
(* start of an old console's noise channel may drop the unit's own flag    *)
(* behind the register's back (see NoteEndsAsAsked): there, only the flag. *)
LengthAsked == IF kind = "noise" /\ model = "DMG" THEN ch.enabled ELSE ch.nrx4

(* A note whose length is enabled ends: it never sounds through as many    *)
(* length clocks as a full counter holds without a write to NRx1 or NRx4   *)
(* in between, whatever triggers, extra clocks (apply_extra_length_        *)
(* clocking), reloads of an empty counter, power cycles and powered-off    *)
(* length writes came before.                                              *)
NoteEndsInTime == ch.active /\ LengthAsked => past.since < LengthReload

(* The same of the register alone: "NR44 bit 6 acts as immediate length    *)
(* enable".  It fails for a delayed start on the old consoles: see the     *)
(* README.                                                                 *)
NoteEndsAsAsked == ch.active /\ ch.nrx4 => past.since < LengthReload

(* Since a trigger, with NRx2 left alone, the volume is the initial one    *)
(* moved by one for every pace envelope clocks, up to the limit; a trigger *)
(* just before an envelope clock does not count that clock (reload,        *)
(* clock_envelope_unit).                                                   *)
EnvelopeKeepsPace ==
    LET e == ch.env
        counted == past.clocks - (IF past.early /\ past.clocks > 0 THEN 1 ELSE 0)
        moves == IF e.pace = 0 THEN 0 ELSE counted \div e.pace
        limit == IF e.increase THEN MaxVolume - e.initial ELSE e.initial
        moved == IF moves < limit THEN moves ELSE limit
    IN  past.calm /\ powered /\ kind # "wave" =>
            e.volume = IF e.increase THEN e.initial + moved ELSE e.initial - moved

(* A rising sweep never wraps: as long as the CPU leaves NR10, NR13 and    *)
(* NR14 alone after the trigger and the divider's edges leave the unit     *)
(* time to finish, the frame sequencer's step of a sounding channel never  *)
(* lowers the period, because the background check (tick_delayed_          *)
(* calculation, period_sweep_recalculation_done) has silenced the channel  *)
(* before the sum that leaves the range is written back.                   *)
SweepNeverWraps ==
    [][ FrameSequencerEdge /\ past.steady /\ past'.steady /\ ch.active /\ ~ch.nr10.decrease
          => ch'.period >= ch.period ]_vars
=============================================================================
