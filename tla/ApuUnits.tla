------------------------------ MODULE ApuUnits ------------------------------
(***************************************************************************)
(* The two slow units that the sound channels share: the length counter    *)
(* and the volume envelope (apu/common.rs, apu/frame_sequencer.rs), as     *)
(* operators on the fields of a channel.                                   *)
(*                                                                         *)
(* A length unit is a record [counter, enabled, active]: the length        *)
(* counter, the unit's own enable flag and the channel's live bit.  A      *)
(* value of NRx2 is a record [volume, increase, pace].                     *)
(***************************************************************************)
EXTENDS Integers

CONSTANTS
    LengthReload,   \* PULSE_/WAVE_LENGTH_COUNTER_RELOAD: 64 and 256 in the code
    MaxVolume       \* MAX_ENVELOPE_VOLUME: 15 in the code

ASSUME UnitsAssumption == LengthReload \in Nat \ {0, 1} /\ MaxVolume \in Nat \ {0}

-----------------------------------------------------------------------------
(* The frame sequencer's schedule.                                         *)

step_clocks_length(step) == step \in {0, 2, 4, 6}
step_clocks_sweep(step) == step \in {2, 6}
step_clocks_envelope(step) == step = 7

-----------------------------------------------------------------------------
(* Length counter.                                                         *)

(* A plausible slip: a counter that has run out keeps the channel on.      *)
clock_length_leaving_active(u) ==
    IF ~u.enabled \/ u.counter = 0 THEN u ELSE [u EXCEPT !.counter = @ - 1]

clock_length_counter(u) ==
    IF ~u.enabled \/ u.counter = 0
    THEN u
    ELSE [u EXCEPT !.counter = @ - 1, !.active = @ /\ u.counter # 1]

(* A trigger finds the counter at zero: it starts over from its full value *)
(* and the enable flag is dropped until NRx4 is applied.                   *)
reload_zero_length(u) ==
    IF u.counter = 0
    THEN [u EXCEPT !.counter = LengthReload, !.enabled = FALSE]
    ELSE u

should_apply_extra_length_clocking_on_enable(u, was, nextClocks, reloaded) ==
    /\ ~nextClocks
    /\ u.enabled
    /\ u.counter # 0
    /\ ~was \/ reloaded

apply_extra_length_clocking(u, was, nextClocks, trigger, reloaded) ==
    IF ~should_apply_extra_length_clocking_on_enable(u, was, nextClocks, reloaded)
    THEN u
    ELSE IF u.counter > 1
         THEN [u EXCEPT !.counter = @ - 1]
         ELSE IF trigger
              THEN [u EXCEPT !.counter = LengthReload - 1]
              ELSE [u EXCEPT !.counter = 0, !.active = FALSE]

-----------------------------------------------------------------------------
(* Envelope.                                                               *)

NoVolume == [volume |-> 0, increase |-> FALSE, pace |-> 0]

ClearedEnvelope ==
    [ initial |-> 0, increase |-> FALSE, pace |-> 0, auto |-> FALSE,
      timer |-> 0, volume |-> 0, short |-> FALSE, pending |-> FALSE ]

derived_dac_enabled(v) == v.volume # 0 \/ v.increase

(* A pace of zero reloads the timer with the full range of the field.      *)
envelope_timer_reload(pace) == IF pace = 0 THEN 8 ELSE pace

apply_envelope_write(e, v) ==
    [e EXCEPT !.initial = v.volume, !.increase = v.increase, !.pace = v.pace]

(* A plausible slip: the late trigger does not wait for the next clock.    *)
reload_without_delay(e, nextClocks) ==
    [e EXCEPT !.auto = e.pace # 0,
              !.timer = envelope_timer_reload(e.pace),
              !.volume = e.initial, !.short = FALSE, !.pending = FALSE]

reload(e, nextClocks) ==
    [e EXCEPT !.auto = e.pace # 0,
              !.timer = envelope_timer_reload(e.pace) + (IF nextClocks THEN 1 ELSE 0),
              !.volume = e.initial, !.short = FALSE, !.pending = FALSE]

clock_envelope(e) ==
    IF e.pace = 0 \/ ~e.auto
    THEN e
    ELSE LET left == IF e.timer > 0 THEN e.timer - 1 ELSE 0
             again == envelope_timer_reload(e.pace) - (IF e.short THEN 1 ELSE 0)
             atLimit == e.volume = (IF e.increase THEN MaxVolume ELSE 0)
         IN  IF left # 0
             THEN [e EXCEPT !.timer = left]
             ELSE [e EXCEPT !.timer = again, !.short = FALSE,
                            !.auto = ~atLimit,
                            !.volume = IF atLimit THEN @
                                       ELSE IF e.increase THEN @ + 1 ELSE @ - 1]

clock_pending_even_tick(e) ==
    IF e.pending THEN clock_envelope([e EXCEPT !.pending = FALSE]) ELSE e

Wrap(n) == n % (MaxVolume + 1)

(* The volume glitches of a write to NRx2 on a sounding channel of a       *)
(* Game Boy Color.                                                         *)
apply_cgb_zombie_mode_write(e, v, locked) ==
    LET ticks == ~locked /\ ( \/ v.pace # 0 /\ e.pace = 0
                              \/ /\ v.increase /\ v.pace = 0
                                 /\ e.increase /\ e.pace = 0 )
        flips == v.increase # e.increase
        turned == IF ~flips THEN e.volume
                  ELSE IF ~v.increase THEN Wrap(MaxVolume + 1 - e.volume)
                  ELSE IF e.pace = 0 /\ ~locked THEN MaxVolume - e.volume
                  ELSE Wrap(MaxVolume - 1 - e.volume)
    IN  IF ~ticks \/ (flips /\ v.increase) THEN turned
        ELSE IF v.increase THEN Wrap(turned + 1) ELSE Wrap(turned - 1)

cgb_live_write(e, v) ==
    LET locked == e.pace # 0 /\ ~e.auto
        volume == apply_cgb_zombie_mode_write(e, v, locked)
        enables == e.pace = 0 /\ v.pace # 0 /\ ~locked
    IN  [apply_envelope_write(e, v) EXCEPT
            !.volume = volume,
            !.auto = v.pace # 0 /\ ~locked,
            !.timer = IF ~enables THEN @
                      ELSE IF e.increase = v.increase THEN v.pace ELSE 1,
            !.short = enables,
            !.pending = enables]

(* The older consoles do not even decode the new pace until the next       *)
(* trigger.                                                                *)
apply_live_write_effect(e, model, active, v) ==
    IF ~active THEN e
    ELSE IF model = "CGB" THEN cgb_live_write(e, v)
    ELSE IF v.increase /\ v.pace = 0 THEN [e EXCEPT !.volume = Wrap(@ + 1)]
    ELSE e
=============================================================================
