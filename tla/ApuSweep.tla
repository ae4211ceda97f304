------------------------------ MODULE ApuSweep ------------------------------
(***************************************************************************)
(* The frequency sweep of channel 1 (apu/channels/ch1.rs).                 *)
(*                                                                         *)
(* The unit adds a shifted copy of the period to the period each time its  *)
(* phase counter reaches the boundary.  Whether the NEXT sum would leave   *)
(* the period's range is worked out later, in the background: on a Game    *)
(* Boy Color by a delayed calculation, on the older consoles by a          *)
(* recalculation that shifts one position per machine cycle, behind a      *)
(* short reload window.  A sum that leaves the range silences the channel. *)
(*                                                                         *)
(* An operator here takes and returns a record s with the unit's fields,   *)
(* the period registers NR13/NR14 as s.period, NR10 as s.nr10 and the      *)
(* channel's live bit as s.active.  Times are in steps of two T-cycles.    *)
(***************************************************************************)
EXTENDS Integers

CONSTANTS
    PeriodMax,      \* PULSE_PERIOD_MAX: 2047 in the code
    PhaseMask       \* SWEEP_PHASE_MASK, also the phase of the boundary: 7

ASSUME SweepAssumption ==
    /\ PeriodMax \in Nat \ {0}
    /\ PhaseMask \in Nat \ {0}

NoSweep == [pace |-> 0, decrease |-> FALSE, shift |-> 0]

ClearedRecalculation ==
    [ countdown |-> 0, target |-> 0, counter |-> 0, instant |-> FALSE,
      increment |-> 0, from_trigger |-> FALSE, reload |-> 0, reloaded |-> FALSE ]

ClearedSweep ==
    [ phase |-> 0, enabled |-> FALSE, shadow |-> 0, negated |-> FALSE,
      delay |-> 0, delay_shadow |-> 0, delay_addend |-> 0, delay_decrease |-> FALSE,
      hold |-> 0, restart |-> 0, increment |-> 0, rc |-> ClearedRecalculation ]

(* The unit with the registers it works on.                                *)
WithRegisters(unit, period, nr10, active) ==
    [unit |-> unit, period |-> period, nr10 |-> nr10, active |-> active]

Shifted(p, shift) == p \div (2 ^ shift)
Complement(n) == PeriodMax - n
Addend(delta, decrease) == IF decrease THEN Complement(delta) ELSE delta
phase_from_pace(pace) == PhaseMask - pace
SweepOn(nr10) == nr10.pace # 0 \/ nr10.shift # 0

-----------------------------------------------------------------------------
(* The delayed calculation of the Game Boy Color.                          *)

clear_delayed_calculation(s) ==
    [s EXCEPT !.unit.delay = 0, !.unit.delay_shadow = 0,
              !.unit.delay_addend = 0, !.unit.delay_decrease = FALSE]

ShiftDelay(shift) ==
    IF shift = 0 THEN 2 ELSE IF shift = 1 THEN 4 ELSE 2 * (shift + 1)

schedule_delayed_calculation(s, extra) ==
    LET delta == Shifted(s.unit.shadow, s.nr10.shift)
    IN  [s EXCEPT !.unit.delay = ShiftDelay(s.nr10.shift) + extra,
                  !.unit.delay_shadow = s.unit.shadow,
                  !.unit.delay_addend = Addend(delta, s.nr10.decrease),
                  !.unit.delay_decrease = s.nr10.decrease,
                  !.unit.negated = @ \/ s.nr10.decrease]

tick_delayed_calculation(s) ==
    LET held == [s EXCEPT !.unit.hold = IF @ > 0 THEN @ - 1 ELSE 0]
        overflows == /\ ~s.unit.delay_decrease
                     /\ s.unit.delay_shadow + s.unit.delay_addend > PeriodMax
    IN  IF s.unit.delay = 0 THEN held
        ELSE IF s.unit.delay > 1 THEN [held EXCEPT !.unit.delay = @ - 1]
        ELSE clear_delayed_calculation([held EXCEPT !.active = @ /\ ~overflows])

cgb_fire(s) ==
    LET delta == Shifted(s.unit.shadow, s.nr10.shift)
        sum == s.unit.shadow + Addend(delta, s.nr10.decrease)
               + (IF s.nr10.decrease THEN 1 ELSE 0)
        candidate == sum % (PeriodMax + 1)
        stays == (~s.nr10.decrease /\ sum > PeriodMax) \/ s.nr10.shift = 0
    IN  schedule_delayed_calculation(
            IF stays THEN s
            ELSE [s EXCEPT !.unit.shadow = candidate, !.period = candidate],
            0)

-----------------------------------------------------------------------------
(* The recalculation pipeline of the older consoles.                       *)

period_sweep_recalculation_done(s) ==
    LET signed == Addend(s.unit.increment, s.nr10.decrease)
        carry == IF s.unit.rc.from_trigger THEN 0 ELSE 1
        overflows == ~s.nr10.decrease /\ s.period + signed + carry > PeriodMax
    IN  [s EXCEPT !.unit.shadow = s.period,
                  !.unit.rc.increment = signed,
                  !.active = @ /\ ~overflows,
                  !.unit.negated = @ \/ s.nr10.decrease,
                  !.unit.rc.from_trigger = FALSE]

(* One shift of the recalculation; proceeds says whether this half of the  *)
(* machine cycle is the one that clocks it.                                *)
tick_period_sweep_recalculation(s, proceeds) ==
    IF s.unit.rc.instant
    THEN period_sweep_recalculation_done([s EXCEPT !.unit.rc.instant = FALSE])
    ELSE IF ~proceeds THEN s
    ELSE IF s.unit.rc.counter < s.unit.rc.target
         THEN [s EXCEPT !.unit.rc.counter = @ + 1]
    ELSE IF s.unit.rc.countdown = 0 \/ s.nr10.shift = 0 THEN s
    ELSE LET less == [s EXCEPT !.unit.rc.countdown = @ - 1]
         IN  IF less.unit.rc.countdown = 0
             THEN period_sweep_recalculation_done(less) ELSE less

(* A plausible slip: the reload window closes without starting the next    *)
(* recalculation.                                                          *)
reload_done_without_recalculation(s) ==
    LET raw == Shifted(s.period, s.nr10.shift)
    IN  [s EXCEPT !.unit.increment = raw,
                  !.unit.rc.increment = Addend(raw, s.nr10.decrease),
                  !.unit.rc.reloaded = FALSE]

period_sweep_reload_done(s) ==
    LET raw == Shifted(s.period, s.nr10.shift)
        next == [s EXCEPT !.unit.increment = raw,
                          !.unit.rc.increment = Addend(raw, s.nr10.decrease),
                          !.unit.rc.reloaded = FALSE]
    IN  IF s.unit.restart # 0 THEN next
        ELSE IF s.nr10.shift = 0
             THEN [next EXCEPT !.unit.rc.instant = TRUE, !.unit.rc.countdown = 0]
             ELSE [next EXCEPT !.unit.rc.countdown = s.nr10.shift]

tick_period_sweep_reload(s) ==
    LET less == [s EXCEPT !.unit.restart = IF @ > 0 THEN @ - 1 ELSE 0]
    IN  IF s.unit.rc.reload = 0 THEN less
        ELSE LET shut == [less EXCEPT !.unit.rc.reload = @ - 1]
             IN  IF shut.unit.rc.reload = 0 THEN period_sweep_reload_done(shut) ELSE shut

dmg_fire(s) ==
    LET sum == s.unit.shadow + Addend(s.unit.increment, s.nr10.decrease)
               + (IF s.nr10.decrease THEN 1 ELSE 0)
        candidate == sum % (PeriodMax + 1)
        seen == [s EXCEPT !.unit.negated = @ \/ s.nr10.decrease]
        busy == s.unit.rc.countdown > 0
    IN  IF s.nr10.shift = 0
        THEN [seen EXCEPT !.unit.rc.reload = 2, !.unit.rc.reloaded = FALSE]
        ELSE [seen EXCEPT !.unit.shadow = candidate,
                          !.period = candidate,
                          !.unit.rc.increment = IF busy THEN 0 ELSE @,
                          !.unit.increment = IF busy THEN 0 ELSE @,
                          !.unit.rc.reload = 2,
                          !.unit.rc.reloaded = TRUE]

(* What a trigger makes of the recalculation: a new countdown, and a new   *)
(* target unless the count towards the last one has only begun.            *)
TriggeredRecalculation(rc, shift) ==
    LET early == rc.target > 0 /\ rc.counter < 2
        target == 2 + (IF rc.countdown < 2 THEN 1 ELSE 0)
                    + (IF rc.counter = 2 /\ rc.countdown = shift THEN 1 ELSE 0)
        begun == [rc EXCEPT !.from_trigger = TRUE, !.increment = 0, !.instant = FALSE]
    IN  IF shift = 0 THEN begun
        ELSE [begun EXCEPT !.target = IF early THEN @ ELSE target,
                           !.counter = IF early THEN @ ELSE 0,
                           !.countdown = shift]

dmg_apply_trigger_recalculation(s) ==
    LET rc == s.unit.rc
        rests == rc.target = 0 \/ rc.counter = rc.target
    IN  [s EXCEPT
           !.unit.increment = IF s.nr10.shift = 0 THEN 0
                              ELSE Shifted(s.unit.shadow, s.nr10.shift),
           !.unit.restart = IF rests THEN 5 ELSE @,
           !.unit.rc = TriggeredRecalculation(@, s.nr10.shift)]

-----------------------------------------------------------------------------
(* The operations of the unit.                                             *)

maybe_fire_sweep_boundary(s, model) ==
    IF s.unit.phase # PhaseMask \/ s.nr10.pace = 0 \/ ~s.unit.enabled
    THEN s
    ELSE LET rewound == [s EXCEPT !.unit.phase = phase_from_pace(s.nr10.pace)]
         IN  IF model = "DMG" THEN dmg_fire(rewound)
             ELSE IF s.nr10.shift = 0 /\ s.unit.hold > 0 THEN rewound
             ELSE cgb_fire(rewound)

clock_sweep(s, model) ==
    maybe_fire_sweep_boundary(
        [s EXCEPT !.unit.phase = (@ + 1) % (PhaseMask + 1)], model)

sweep_trigger(s, model) ==
    LET restarted == clear_delayed_calculation(
            [s EXCEPT !.unit.shadow = s.period,
                      !.unit.phase = phase_from_pace(s.nr10.pace),
                      !.unit.enabled = SweepOn(s.nr10),
                      !.unit.negated = FALSE,
                      !.unit.hold = IF model = "CGB" THEN 5 ELSE 0])
    IN  IF model = "DMG"
        THEN [dmg_apply_trigger_recalculation(restarted) EXCEPT !.unit.shadow = 0]
        ELSE IF s.nr10.shift = 0 THEN restarted
        ELSE schedule_delayed_calculation(restarted, 2)

(* What a write to NR10 does to a sounding channel of an older console.    *)
apply_dmg_nr10_glitches(s, old) ==
    LET carry == IF s.unit.rc.from_trigger THEN 0 ELSE 1
        overflows == /\ ~s.nr10.decrease
                     /\ s.unit.shadow + s.unit.rc.increment + carry > PeriodMax
        counting == s.unit.rc.target > 0 /\ s.unit.rc.counter < 2
        recounted ==
            IF s.nr10.shift = 0
            THEN [s EXCEPT !.unit.rc.countdown = 0, !.unit.rc.counter = 0,
                           !.unit.rc.target = 0]
            ELSE [s EXCEPT !.unit.rc.countdown = s.nr10.shift]
        less == [s EXCEPT !.unit.rc.countdown = @ - 1]
        clocked ==
            IF counting THEN recounted
            ELSE IF s.unit.rc.countdown > 0 /\ old.shift = 0 /\ s.nr10.shift # 0
            THEN IF less.unit.rc.countdown = 0
                 THEN period_sweep_recalculation_done(less) ELSE less
            ELSE s
    IN  IF overflows THEN [s EXCEPT !.active = FALSE]
        ELSE maybe_fire_sweep_boundary(clocked, "DMG")

write_nr10(s, v, model) ==
    LET written == [s EXCEPT !.nr10 = v]
        dropped == IF model = "CGB" /\ ~SweepOn(v)
                   THEN clear_delayed_calculation(written) ELSE written
        turned == [dropped EXCEPT !.active = @ /\ ~( /\ s.nr10.decrease
                                                     /\ ~v.decrease
                                                     /\ s.unit.negated )]
        glitched == IF model = "DMG" /\ turned.active
                    THEN apply_dmg_nr10_glitches(
                             [turned EXCEPT !.unit.enabled = SweepOn(v)], s.nr10)
                    ELSE turned
    IN  maybe_fire_sweep_boundary(glitched, model)

(* The period registers are out of reach in the first step of the window.  *)
PeriodLocked(s) == s.unit.rc.reload = 2 /\ s.unit.rc.reloaded

(* A write to NR14 without a trigger inside the window derives the         *)
(* increment again.                                                        *)
rederive_increment(s, model) ==
    IF model = "DMG" /\ s.unit.rc.reload > 0 /\ s.unit.rc.reloaded
    THEN LET raw == IF s.nr10.shift = 0 THEN 0 ELSE Shifted(s.period, s.nr10.shift)
         IN  [s EXCEPT !.unit.rc.increment = Addend(raw, s.nr10.decrease)]
    ELSE s

tick_sweep(s, model, proceeds) ==
    LET d == tick_delayed_calculation(s)
    IN  IF model = "DMG"
        THEN tick_period_sweep_reload(tick_period_sweep_recalculation(d, proceeds))
        ELSE d
=============================================================================
