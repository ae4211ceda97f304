----------------------------- MODULE ApuProofs -----------------------------
(***************************************************************************)
(* Proofs about the sound unit, for every length of the counter, width of  *)
(* the volume and of the period, every set of register values and every    *)
(* number of writes.                                                       *)
(***************************************************************************)
EXTENDS Apu, TLAPS

(* The channels whose start may come late (delayed_dmg_trigger).           *)
LateStart == kind = "noise" /\ model = "DMG"

ChannelFields ==
    {"dac", "active", "counter", "enabled", "nrx4", "nrx2", "env", "nr10",
     "period", "sweep", "noise"}
PastFields == {"since", "triggered", "clocks", "early", "calm", "steady"}
NoiseFields == {"alignment", "delayed", "envelope_next"}
EnvelopeFields ==
    {"initial", "increase", "pace", "auto", "timer", "volume", "short", "pending"}
UnitFields ==
    {"phase", "enabled", "shadow", "negated", "delay", "delay_shadow",
     "delay_addend", "delay_decrease", "hold", "restart", "increment", "rc"}
RcFields ==
    {"countdown", "target", "counter", "instant", "increment", "from_trigger",
     "reload", "reloaded"}

Nr10s == [pace : 0..PhaseMask, decrease : BOOLEAN, shift : 0..7]

(* A channel's records keep their fields, and the sweep's registers and    *)
(* sums stay numbers of the right kind.                                    *)
Formed(c) ==
    /\ ChannelFields \subseteq DOMAIN c
    /\ NoiseFields \subseteq DOMAIN c.noise
    /\ EnvelopeFields \subseteq DOMAIN c.env
    /\ UnitFields \subseteq DOMAIN c.sweep
    /\ RcFields \subseteq DOMAIN c.sweep.rc
    /\ c.nr10 \in Nr10s
    /\ c.period \in Nat /\ c.sweep.shadow \in Nat /\ c.sweep.increment \in Nat
    /\ c.sweep.rc.countdown \in Nat /\ c.sweep.rc.reload \in 0..2
    /\ c.sweep.restart \in Nat

(* The machine is one of the explored ones and its records are whole.      *)
Shape ==
    /\ <<model, kind>> \in Channels
    /\ Formed(ch)
    /\ PastFields \subseteq DOMAIN past
    /\ ch.noise.delayed # 0 => LateStart

(* A sounding channel has length left; with its length unit on, what is    *)
(* left and what has passed since the last write fit in a full counter;    *)
(* and the unit's flag is the register's, but for a late start.            *)
NoteInv ==
    /\ ch.counter \in 0..LengthReload
    /\ past.since \in 0..LengthReload
    /\ ch.active => ch.counter # 0
    /\ ch.enabled => ch.counter + past.since <= LengthReload
    /\ ~LateStart => (ch.enabled <=> ch.nrx4)

Volumes == [volume : 0..MaxVolume, increase : BOOLEAN, pace : 0..7]

(* The envelope clocks that count, of those since the trigger.             *)
Counted(clocks, early) == clocks - (IF early /\ clocks > 0 THEN 1 ELSE 0)

Limit(e) == IF e.increase THEN MaxVolume - e.initial ELSE e.initial

(* The volume after so many moves from the initial one.                    *)
VolumeAfter(e, moves) ==
    LET moved == IF moves < Limit(e) THEN moves ELSE Limit(e)
    IN  IF e.increase THEN e.initial + moved ELSE e.initial - moved

(* An undisturbed envelope: the timer holds the rest of the pace, and the  *)
(* unit runs until the first move that the limit swallows.                 *)
Paced(e, clocks, early) ==
    LET counted == Counted(clocks, early)
        moves == counted \div e.pace
    IN  /\ e.initial \in 0..MaxVolume /\ e.pace \in 0..7
        /\ e.increase \in BOOLEAN
        /\ ~e.short /\ ~e.pending
        /\ e.pace = 0 => e.volume = e.initial
        /\ e.pace # 0 =>
              /\ e.volume = VolumeAfter(e, moves)
              /\ e.auto => /\ moves <= Limit(e)
                           /\ e.timer = IF early /\ clocks = 0 THEN e.pace + 1
                                        ELSE e.pace - (counted % e.pace)
              /\ ~e.auto => moves > Limit(e)

PaceInv ==
    /\ ch.nrx2 \in Volumes
    /\ past.clocks \in Nat
    /\ past.calm /\ kind # "wave" => Paced(ch.env, past.clocks, past.early)

(* On an older console, since a trigger of a unit at rest: the reload      *)
(* window only opens on a unit at rest, and once a recalculation is over   *)
(* the next sum is known to fit or the channel is silent.                  *)
SumFits(unit, period) == unit.shadow = period /\ period + unit.increment <= PeriodMax

NextSumFits(unit, period, nr10, active) ==
    /\ ~unit.rc.instant
    /\ unit.rc.reload # 0 =>
          unit.rc.countdown = 0 /\ unit.restart = 0 /\ unit.shadow = period
    /\ unit.rc.reload = 0 /\ unit.rc.countdown = 0 /\ active /\ ~nr10.decrease =>
          SumFits(unit, period)

(* Since such a trigger a Game Boy Color's shadow is the period.           *)
SweepInv ==
    past.steady /\ kind = "sweep" =>
        /\ model = "CGB" => ch.sweep.shadow = ch.period
        /\ model = "DMG" /\ ch.nr10.shift # 0 =>
              NextSumFits(ch.sweep, ch.period, ch.nr10, ch.active)

ApuInv == Shape /\ NoteInv /\ PaceInv /\ SweepInv

-----------------------------------------------------------------------------
(* The sweep unit.  Every operation keeps the shape of the record it works *)
(* on, and none turns a silent channel on.                                 *)

Sound(s) ==
    /\ {"unit", "period", "nr10", "active"} \subseteq DOMAIN s
    /\ UnitFields \subseteq DOMAIN s.unit
    /\ RcFields \subseteq DOMAIN s.unit.rc
    /\ s.nr10 \in Nr10s
    /\ s.period \in Nat /\ s.unit.shadow \in Nat /\ s.unit.increment \in Nat
    /\ s.unit.rc.countdown \in Nat /\ s.unit.rc.reload \in 0..2
    /\ s.unit.restart \in Nat

Follows(s, t) == Sound(t) /\ (t.active => s.active)

LEMMA ShiftedIsNat ==
  ASSUME NEW p \in Nat, NEW n \in 0..7
  PROVE  Shifted(p, n) \in Nat
<1>1. 2^0 = 1 /\ 2^1 = 2 /\ 2^2 = 4 /\ 2^3 = 8 /\ 2^4 = 16 /\ 2^5 = 32 /\ 2^6 = 64 /\ 2^7 = 128
  OBVIOUS
<1>2. \A d \in {1, 2, 4, 8, 16, 32, 64, 128} : p \div d \in Nat
  OBVIOUS
<1>3. n \in {0, 1, 2, 3, 4, 5, 6, 7}
  OBVIOUS
<1>4. CASE n = 0 BY <1>1, <1>2, <1>4 DEF Shifted
<1>5. CASE n = 1 BY <1>1, <1>2, <1>5 DEF Shifted
<1>6. CASE n = 2 BY <1>1, <1>2, <1>6 DEF Shifted
<1>7. CASE n = 3 BY <1>1, <1>2, <1>7 DEF Shifted
<1>8. CASE n = 4 BY <1>1, <1>2, <1>8 DEF Shifted
<1>9. CASE n = 5 BY <1>1, <1>2, <1>9 DEF Shifted
<1>10. CASE n = 6 BY <1>1, <1>2, <1>10 DEF Shifted
<1>11. CASE n = 7 BY <1>1, <1>2, <1>11 DEF Shifted
<1> QED BY <1>3, <1>4, <1>5, <1>6, <1>7, <1>8, <1>9, <1>10, <1>11

LEMMA ClearFollows ==
  ASSUME NEW s, Sound(s)
  PROVE  Follows(s, clear_delayed_calculation(s))
BY DEF Sound, Follows, clear_delayed_calculation, UnitFields, RcFields

LEMMA ScheduleFollows ==
  ASSUME NEW s, NEW extra, Sound(s)
  PROVE  Follows(s, schedule_delayed_calculation(s, extra))
BY DEF Sound, Follows, schedule_delayed_calculation, UnitFields, RcFields

LEMMA TickDelayedFollows ==
  ASSUME NEW s, Sound(s)
  PROVE  Follows(s, tick_delayed_calculation(s))
BY ZenonT(30) DEF Sound, Follows, tick_delayed_calculation, clear_delayed_calculation, UnitFields, RcFields

LEMMA CandidateIsNat ==
  ASSUME NEW n \in Int
  PROVE  n % (PeriodMax + 1) \in Nat
BY SweepAssumption

LEMMA CgbFireFollows ==
  ASSUME NEW s, Sound(s)
  PROVE  Follows(s, cgb_fire(s))
<1> DEFINE delta == Shifted(s.unit.shadow, s.nr10.shift)
           sum == s.unit.shadow + Addend(delta, s.nr10.decrease)
                  + (IF s.nr10.decrease THEN 1 ELSE 0)
           candidate == sum % (PeriodMax + 1)
           moved == [s EXCEPT !.unit.shadow = candidate, !.period = candidate]
<1>1. delta \in Nat
  BY ShiftedIsNat DEF Sound, Nr10s
<1> HIDE DEF delta
<1>2. sum \in Int
  BY <1>1, SweepAssumption DEF Sound, Addend, Complement
<1> HIDE DEF sum
<1>3. candidate \in Nat
  BY <1>2, CandidateIsNat
<1> HIDE DEF candidate
<1>4. Sound(moved) /\ moved.active = s.active
  BY <1>3 DEF Sound, UnitFields, RcFields
<1> HIDE DEF moved
<1>5. \E stays \in BOOLEAN : cgb_fire(s) = schedule_delayed_calculation(IF stays THEN s ELSE moved, 0)
  <2> DEFINE stays == (~s.nr10.decrease /\ sum > PeriodMax) \/ s.nr10.shift = 0
  <2>1. cgb_fire(s) = schedule_delayed_calculation(IF stays THEN s ELSE moved, 0)
    BY DEF cgb_fire, moved, candidate, sum, delta
  <2>2. stays \in BOOLEAN
    OBVIOUS
  <2> HIDE DEF stays
  <2> QED BY <2>1, <2>2, Zenon
<1>6. PICK stays \in BOOLEAN : cgb_fire(s) = schedule_delayed_calculation(IF stays THEN s ELSE moved, 0)
  BY <1>5
<1>7. Follows(moved, schedule_delayed_calculation(moved, 0))
  BY <1>4, ScheduleFollows
<1>8. Follows(s, schedule_delayed_calculation(s, 0))
  BY ScheduleFollows
<1> QED BY <1>4, <1>6, <1>7, <1>8 DEF Follows

LEMMA RecalculationDoneFollows ==
  ASSUME NEW s, Sound(s)
  PROVE  Follows(s, period_sweep_recalculation_done(s))
BY DEF Sound, Follows, period_sweep_recalculation_done, UnitFields, RcFields

LEMMA TickRecalculationFollows ==
  ASSUME NEW s, NEW proceeds, Sound(s)
  PROVE  Follows(s, tick_period_sweep_recalculation(s, proceeds))
<1> DEFINE calm == [s EXCEPT !.unit.rc.instant = FALSE]
           less == [s EXCEPT !.unit.rc.countdown = @ - 1]
           count == [s EXCEPT !.unit.rc.counter = @ + 1]
<1>1. Sound(calm) /\ calm.active = s.active
  BY DEF Sound, UnitFields, RcFields
<1>2. Sound(count) /\ count.active = s.active
  BY DEF Sound, UnitFields, RcFields
<1>3. s.unit.rc.countdown # 0 => Sound(less) /\ less.active = s.active
  BY DEF Sound, UnitFields, RcFields
<1> DEFINE calmed == period_sweep_recalculation_done(calm)
           done == period_sweep_recalculation_done(less)
<1> HIDE DEF calm, less, count
<1>4. Follows(s, calmed)
  BY <1>1, RecalculationDoneFollows DEF Follows
<1>5. s.unit.rc.countdown # 0 => Follows(s, done) /\ Follows(s, less)
  BY <1>3, RecalculationDoneFollows DEF Follows
<1>6. Follows(s, s) /\ Follows(s, count)
  BY <1>2 DEF Follows
<1> DEFINE r == tick_period_sweep_recalculation(s, proceeds)
<1>7. r \in {calmed, s, count} \/ (s.unit.rc.countdown # 0 /\ r \in {done, less})
  BY DEF tick_period_sweep_recalculation, calm, less, count
<1> HIDE DEF r, calmed, done
<1>8. Follows(s, r)
  BY <1>4, <1>5, <1>6, <1>7
<1> QED BY <1>8 DEF r

LEMMA ReloadDoneFollows ==
  ASSUME NEW s, Sound(s)
  PROVE  Follows(s, period_sweep_reload_done(s))
<1> DEFINE raw == Shifted(s.period, s.nr10.shift)
<1>1. raw \in Nat
  BY ShiftedIsNat DEF Sound, Nr10s
<1>2. s.nr10.shift \in Nat
  BY DEF Sound, Nr10s
<1> DEFINE next == [s EXCEPT !.unit.increment = raw,
                             !.unit.rc.increment = Addend(raw, s.nr10.decrease),
                             !.unit.rc.reloaded = FALSE]
<1> HIDE DEF raw
<1>3. Sound(next) /\ next.active = s.active
  BY <1>1 DEF Sound, UnitFields, RcFields
<1> DEFINE now == [next EXCEPT !.unit.rc.instant = TRUE, !.unit.rc.countdown = 0]
           later == [next EXCEPT !.unit.rc.countdown = s.nr10.shift]
<1>4. period_sweep_reload_done(s) =
        IF s.unit.restart # 0 THEN next ELSE IF s.nr10.shift = 0 THEN now ELSE later
  BY DEF period_sweep_reload_done, raw
<1> HIDE DEF next
<1>5. Sound(now) /\ now.active = s.active /\ Sound(later) /\ later.active = s.active
  BY <1>2, <1>3 DEF Sound, UnitFields, RcFields
<1> HIDE DEF now, later
<1> QED BY <1>3, <1>4, <1>5 DEF Follows

LEMMA TickReloadFollows ==
  ASSUME NEW s, Sound(s)
  PROVE  Follows(s, tick_period_sweep_reload(s))
<1> DEFINE less == [s EXCEPT !.unit.restart = IF @ > 0 THEN @ - 1 ELSE 0]
<1>1. Sound(less) /\ less.active = s.active /\ less.unit.rc = s.unit.rc
  BY DEF Sound, UnitFields, RcFields
<1> DEFINE shut == [less EXCEPT !.unit.rc.reload = @ - 1]
<1>2. tick_period_sweep_reload(s) =
        IF s.unit.rc.reload = 0 THEN less
        ELSE IF shut.unit.rc.reload = 0 THEN period_sweep_reload_done(shut) ELSE shut
  BY DEF tick_period_sweep_reload
<1> HIDE DEF less
<1>3. s.unit.rc.reload # 0 => Sound(shut) /\ shut.active = s.active
  BY <1>1 DEF Sound, UnitFields, RcFields
<1> HIDE DEF shut
<1>4. s.unit.rc.reload # 0 => Follows(shut, period_sweep_reload_done(shut))
  BY <1>3, ReloadDoneFollows
<1> QED BY <1>1, <1>2, <1>3, <1>4 DEF Follows

LEMMA DmgFireFollows ==
  ASSUME NEW s, Sound(s)
  PROVE  Follows(s, dmg_fire(s))
<1> DEFINE sum == s.unit.shadow + Addend(s.unit.increment, s.nr10.decrease)
                  + (IF s.nr10.decrease THEN 1 ELSE 0)
           candidate == sum % (PeriodMax + 1)
           seen == [s EXCEPT !.unit.negated = @ \/ s.nr10.decrease]
<1>1. sum \in Int
  BY SweepAssumption DEF Sound, Addend, Complement
<1> HIDE DEF sum
<1>2. candidate \in Nat
  BY <1>1, CandidateIsNat
<1> HIDE DEF candidate
<1>3. Sound(seen) /\ seen.active = s.active
  BY DEF Sound, UnitFields, RcFields
<1> DEFINE busy == s.unit.rc.countdown > 0
           opened == [seen EXCEPT !.unit.rc.reload = 2, !.unit.rc.reloaded = FALSE]
           fired == [seen EXCEPT !.unit.shadow = candidate,
                          !.period = candidate,
                          !.unit.rc.increment = IF busy THEN 0 ELSE @,
                          !.unit.increment = IF busy THEN 0 ELSE @,
                          !.unit.rc.reload = 2,
                          !.unit.rc.reloaded = TRUE]
<1>4. dmg_fire(s) = IF s.nr10.shift = 0 THEN opened ELSE fired
  BY DEF dmg_fire, candidate, sum
<1> HIDE DEF seen, busy
<1>5. opened.active = s.active /\ fired.active = s.active
  BY <1>3 DEF Sound
<1>6. Sound(opened)
  <2>1. DOMAIN opened = DOMAIN seen /\ opened.nr10 = seen.nr10 /\ opened.period = seen.period
    OBVIOUS
  <2>2. DOMAIN opened.unit = DOMAIN seen.unit /\ opened.unit.shadow = seen.unit.shadow
        /\ opened.unit.increment = seen.unit.increment /\ opened.unit.restart = seen.unit.restart
    BY <1>3 DEF Sound, UnitFields
  <2>3. DOMAIN opened.unit.rc = DOMAIN seen.unit.rc
        /\ opened.unit.rc.countdown = seen.unit.rc.countdown /\ opened.unit.rc.reload = 2
    BY <1>3 DEF Sound, UnitFields, RcFields
  <2> HIDE DEF opened
  <2> QED BY <1>3, <2>1, <2>2, <2>3 DEF Sound
<1>7. Sound(fired)
  <2>1. DOMAIN fired = DOMAIN seen /\ fired.nr10 = seen.nr10 /\ fired.period = candidate
    BY <1>3 DEF Sound
  <2>2. DOMAIN fired.unit = DOMAIN seen.unit /\ fired.unit.restart = seen.unit.restart
    BY <1>3, ZenonT(30) DEF Sound, UnitFields
  <2>3. fired.unit.shadow = candidate
        /\ fired.unit.increment = IF busy THEN 0 ELSE seen.unit.increment
    BY <1>3 DEF Sound, UnitFields
  <2>4. DOMAIN fired.unit.rc = DOMAIN seen.unit.rc
        /\ fired.unit.rc.countdown = seen.unit.rc.countdown /\ fired.unit.rc.reload = 2
    BY <1>3, ZenonT(30) DEF Sound, UnitFields, RcFields
  <2> HIDE DEF fired
  <2> QED BY <1>2, <1>3, <2>1, <2>2, <2>3, <2>4 DEF Sound
<1> HIDE DEF opened, fired
<1> QED BY <1>4, <1>5, <1>6, <1>7 DEF Follows

LEMMA TriggeredRecalculationFacts ==
  ASSUME NEW rc, NEW shift \in Nat, RcFields \subseteq DOMAIN rc
  PROVE  LET r == TriggeredRecalculation(rc, shift)
         IN  /\ DOMAIN r = DOMAIN rc
             /\ r.reload = rc.reload /\ ~r.instant
             /\ r.countdown = IF shift = 0 THEN rc.countdown ELSE shift
BY DEF TriggeredRecalculation, RcFields

LEMMA TriggerRecalculationFollows ==
  ASSUME NEW s, Sound(s)
  PROVE  Follows(s, dmg_apply_trigger_recalculation(s))
<1> DEFINE sum == Shifted(s.unit.shadow, s.nr10.shift)
           rc == TriggeredRecalculation(s.unit.rc, s.nr10.shift)
           t == dmg_apply_trigger_recalculation(s)
<1>1. s.nr10.shift \in Nat /\ s.nr10.shift \in 0..7 /\ s.unit.shadow \in Nat
  BY DEF Sound, Nr10s
<1>2. sum \in Nat
  BY <1>1, ShiftedIsNat
<1>3. RcFields \subseteq DOMAIN rc /\ rc.countdown \in Nat /\ rc.reload \in 0..2
  BY <1>1, TriggeredRecalculationFacts DEF Sound
<1>4. t.active = s.active /\ DOMAIN t = DOMAIN s /\ t.nr10 = s.nr10 /\ t.period = s.period
  BY DEF dmg_apply_trigger_recalculation, Sound
<1>5. DOMAIN t.unit = DOMAIN s.unit /\ t.unit.shadow = s.unit.shadow /\ t.unit.rc = rc
  BY DEF dmg_apply_trigger_recalculation, Sound, UnitFields
<1>6. t.unit.increment \in {0, sum} /\ t.unit.restart \in {5, s.unit.restart}
  BY DEF dmg_apply_trigger_recalculation, Sound, UnitFields
<1> HIDE DEF t, sum, rc
<1>7. Follows(s, t)
  BY <1>1, <1>2, <1>3, <1>4, <1>5, <1>6 DEF Sound, Follows
<1> QED BY <1>7 DEF t

LEMMA FireFollows ==
  ASSUME NEW s, NEW m, Sound(s)
  PROVE  Follows(s, maybe_fire_sweep_boundary(s, m))
<1> DEFINE rewound == [s EXCEPT !.unit.phase = phase_from_pace(s.nr10.pace)]
<1>1. Sound(rewound) /\ rewound.active = s.active
  BY DEF Sound, UnitFields, RcFields
<1> HIDE DEF rewound
<1>2. maybe_fire_sweep_boundary(s, m) \in {s, rewound, dmg_fire(rewound), cgb_fire(rewound)}
  BY DEF maybe_fire_sweep_boundary, rewound
<1>3. Follows(s, dmg_fire(rewound)) /\ Follows(s, cgb_fire(rewound))
  BY <1>1, DmgFireFollows, CgbFireFollows DEF Follows
<1> QED BY <1>1, <1>2, <1>3 DEF Follows

LEMMA ClockSweepFollows ==
  ASSUME NEW s, NEW m, Sound(s)
  PROVE  Follows(s, clock_sweep(s, m))
<1> DEFINE next == [s EXCEPT !.unit.phase = (@ + 1) % (PhaseMask + 1)]
<1>1. Sound(next) /\ next.active = s.active
  BY DEF Sound, UnitFields, RcFields
<1> HIDE DEF next
<1>2. Follows(next, maybe_fire_sweep_boundary(next, m))
  BY <1>1, FireFollows
<1> QED BY <1>1, <1>2 DEF clock_sweep, Follows, next

LEMMA SweepTriggerFollows ==
  ASSUME NEW s, NEW m, Sound(s)
  PROVE  Follows(s, sweep_trigger(s, m))
<1> DEFINE begun == [s EXCEPT !.unit.shadow = s.period,
                      !.unit.phase = phase_from_pace(s.nr10.pace),
                      !.unit.enabled = SweepOn(s.nr10),
                      !.unit.negated = FALSE,
                      !.unit.hold = IF m = "CGB" THEN 5 ELSE 0]
           restarted == clear_delayed_calculation(begun)
           recalc == dmg_apply_trigger_recalculation(restarted)
           reset == [recalc EXCEPT !.unit.shadow = 0]
<1>1. sweep_trigger(s, m) = IF m = "DMG" THEN reset
                            ELSE IF s.nr10.shift = 0 THEN restarted
                            ELSE schedule_delayed_calculation(restarted, 2)
  BY DEF sweep_trigger
<1>2. Sound(begun) /\ begun.active = s.active
  BY DEF Sound, UnitFields, RcFields
<1> HIDE DEF begun
<1>3. Follows(s, restarted)
  BY <1>2, ClearFollows DEF Follows
<1> HIDE DEF restarted
<1>4. Follows(s, recalc)
  BY <1>3, TriggerRecalculationFollows DEF Follows
<1> HIDE DEF recalc
<1>5. Follows(s, reset)
  BY <1>4 DEF Follows, Sound, UnitFields, RcFields
<1> HIDE DEF reset
<1>6. Follows(s, schedule_delayed_calculation(restarted, 2))
  BY <1>3, ScheduleFollows DEF Follows
<1> QED BY <1>1, <1>3, <1>5, <1>6

LEMMA GlitchesFollow ==
  ASSUME NEW s, NEW old, Sound(s)
  PROVE  Follows(s, apply_dmg_nr10_glitches(s, old))
<1> DEFINE less == [s EXCEPT !.unit.rc.countdown = @ - 1]
           zeroed == [s EXCEPT !.unit.rc.countdown = 0, !.unit.rc.counter = 0,
                               !.unit.rc.target = 0]
           recounted == [s EXCEPT !.unit.rc.countdown = s.nr10.shift]
           silent == [s EXCEPT !.active = FALSE]
           done == period_sweep_recalculation_done(less)
<1>1. s.nr10.shift \in Nat
  BY DEF Sound, Nr10s
<1>2. s.unit.rc.countdown > 0 => Sound(less) /\ less.active = s.active
  BY DEF Sound, UnitFields, RcFields
<1>3. Follows(s, zeroed) /\ Follows(s, recounted) /\ Follows(s, silent)
  BY <1>1 DEF Follows, Sound, UnitFields, RcFields
<1> HIDE DEF less
<1>4. s.unit.rc.countdown > 0 => Follows(s, less) /\ Follows(s, done)
  BY <1>2, RecalculationDoneFollows DEF Follows
<1>5. \E clocked \in {zeroed, recounted, s} \cup (IF s.unit.rc.countdown > 0 THEN {less, done} ELSE {}) :
         apply_dmg_nr10_glitches(s, old) \in {silent, maybe_fire_sweep_boundary(clocked, "DMG")}
  BY DEF apply_dmg_nr10_glitches, less, done, zeroed, recounted, silent
<1> HIDE DEF zeroed, recounted, silent, done
<1>6. PICK clocked \in {zeroed, recounted, s} \cup (IF s.unit.rc.countdown > 0 THEN {less, done} ELSE {}) :
         apply_dmg_nr10_glitches(s, old) \in {silent, maybe_fire_sweep_boundary(clocked, "DMG")}
  BY <1>5
<1>7. Follows(s, clocked)
  BY <1>3, <1>4 DEF Follows
<1>8. Follows(s, maybe_fire_sweep_boundary(clocked, "DMG"))
  BY <1>7, FireFollows DEF Follows
<1> QED BY <1>3, <1>6, <1>8

LEMMA WriteNr10Follows ==
  ASSUME NEW s, NEW v \in Nr10s, NEW m, Sound(s)
  PROVE  Follows(s, write_nr10(s, v, m))
<1> DEFINE written == [s EXCEPT !.nr10 = v]
           dropped == IF m = "CGB" /\ ~SweepOn(v)
                      THEN clear_delayed_calculation(written) ELSE written
           turned == [dropped EXCEPT !.active = @ /\ ~( /\ s.nr10.decrease
                                                        /\ ~v.decrease
                                                        /\ s.unit.negated )]
           on == [turned EXCEPT !.unit.enabled = SweepOn(v)]
           glitched == IF m = "DMG" /\ turned.active
                       THEN apply_dmg_nr10_glitches(on, s.nr10) ELSE turned
<1>1. Follows(s, written)
  BY DEF Follows, Sound, UnitFields, RcFields
<1>2. write_nr10(s, v, m) = maybe_fire_sweep_boundary(glitched, m)
  BY DEF write_nr10
<1> HIDE DEF written
<1>3. Follows(s, dropped)
  BY <1>1, ClearFollows DEF Follows
<1> HIDE DEF dropped
<1>4. Follows(s, turned)
  BY <1>3 DEF Follows, Sound, UnitFields, RcFields
<1> HIDE DEF turned
<1>5. Follows(s, on)
  BY <1>4 DEF Follows, Sound, UnitFields, RcFields
<1> HIDE DEF on
<1>6. Follows(s, glitched)
  BY <1>4, <1>5, GlitchesFollow DEF Follows
<1> HIDE DEF glitched
<1> QED BY <1>2, <1>6, FireFollows DEF Follows

LEMMA RederiveFollows ==
  ASSUME NEW s, NEW m, Sound(s)
  PROVE  Follows(s, rederive_increment(s, m))
BY DEF Sound, Follows, rederive_increment, UnitFields, RcFields

LEMMA TickSweepFollows ==
  ASSUME NEW s, NEW m, NEW proceeds, Sound(s)
  PROVE  Follows(s, tick_sweep(s, m, proceeds))
<1> DEFINE d == tick_delayed_calculation(s)
           r == tick_period_sweep_recalculation(d, proceeds)
<1>1. tick_sweep(s, m, proceeds) = IF m = "DMG" THEN tick_period_sweep_reload(r) ELSE d
  BY DEF tick_sweep
<1>2. Follows(s, d)
  BY TickDelayedFollows
<1> HIDE DEF d
<1>3. Follows(s, r)
  BY <1>2, TickRecalculationFollows DEF Follows
<1> HIDE DEF r
<1>4. Follows(s, tick_period_sweep_reload(r))
  BY <1>3, TickReloadFollows DEF Follows
<1> QED BY <1>1, <1>2, <1>4

-----------------------------------------------------------------------------
(* The channel.                                                            *)

LEMMA SweepOfSound ==
  ASSUME NEW c, Formed(c)
  PROVE  /\ Sound(SweepOf(c))
         /\ SweepOf(c).unit = c.sweep /\ SweepOf(c).period = c.period
         /\ SweepOf(c).nr10 = c.nr10 /\ SweepOf(c).active = c.active
BY DEF Formed, Sound, SweepOf, WithRegisters

SameButSweep(c, d) ==
    /\ d.dac = c.dac /\ d.counter = c.counter /\ d.enabled = c.enabled
    /\ d.nrx4 = c.nrx4 /\ d.nrx2 = c.nrx2 /\ d.env = c.env /\ d.noise = c.noise

LEMMA WithSweepFacts ==
  ASSUME NEW c, NEW s, Formed(c), Follows(SweepOf(c), s)
  PROVE  LET d == WithSweep(c, s)
         IN  /\ Formed(d) /\ SameButSweep(c, d)
             /\ d.sweep = s.unit /\ d.period = s.period /\ d.nr10 = s.nr10
             /\ d.active = s.active /\ (d.active => c.active)
<1> DEFINE d == WithSweep(c, s)
<1>1. DOMAIN d = DOMAIN c /\ SameButSweep(c, d)
  BY DEF WithSweep, SameButSweep
<1>2. /\ d.sweep = s.unit /\ d.period = s.period /\ d.nr10 = s.nr10
      /\ d.active = s.active
  BY DEF WithSweep, Formed, ChannelFields
<1> HIDE DEF d
<1>3. Formed(d)
  BY <1>1, <1>2 DEF Formed, SameButSweep, Follows, Sound
<1>4. d.active => c.active
  BY <1>2, SweepOfSound DEF Follows
<1> QED BY <1>1, <1>2, <1>3, <1>4 DEF d

SameButLength(c, d) ==
    /\ d.dac = c.dac /\ d.nrx4 = c.nrx4 /\ d.nrx2 = c.nrx2 /\ d.env = c.env
    /\ d.noise = c.noise /\ d.sweep = c.sweep /\ d.period = c.period
    /\ d.nr10 = c.nr10

LEMMA WithLengthFacts ==
  ASSUME NEW c, NEW u, Formed(c)
  PROVE  LET d == WithLength(c, u)
         IN  /\ Formed(d) /\ SameButLength(c, d)
             /\ d.counter = u.counter /\ d.enabled = u.enabled /\ d.active = u.active
<1> DEFINE d == WithLength(c, u)
<1>1. DOMAIN d = DOMAIN c /\ SameButLength(c, d)
  BY DEF WithLength, SameButLength
<1>2. d.counter = u.counter /\ d.enabled = u.enabled /\ d.active = u.active
  BY DEF WithLength, Formed, ChannelFields
<1> HIDE DEF d
<1>3. Formed(d)
  BY <1>1, <1>2 DEF Formed, SameButLength
<1> QED BY <1>1, <1>2, <1>3 DEF d

LEMMA ReloadZeroFacts ==
  ASSUME NEW c, Formed(c)
  PROVE  LET d == WithLength(c, reload_zero_length(LengthOf(c)))
         IN  /\ Formed(d) /\ SameButLength(c, d) /\ d.active = c.active
             /\ d.counter = (IF c.counter = 0 THEN LengthReload ELSE c.counter)
             /\ d.enabled = (IF c.counter = 0 THEN FALSE ELSE c.enabled)
<1> DEFINE u == reload_zero_length(LengthOf(c))
<1>1. /\ u.active = c.active
      /\ u.counter = (IF c.counter = 0 THEN LengthReload ELSE c.counter)
      /\ u.enabled = (IF c.counter = 0 THEN FALSE ELSE c.enabled)
  BY DEF reload_zero_length, LengthOf
<1> HIDE DEF u
<1>2. QED BY <1>1, WithLengthFacts DEF u

LEMMA SweepTriggerFacts ==
  ASSUME NEW s, NEW m, Sound(s)
  PROVE  LET t == sweep_trigger(s, m)
         IN  /\ t.period = s.period /\ t.nr10 = s.nr10
             /\ m = "CGB" => t.unit.shadow = s.period
             /\ m = "DMG" => /\ ~t.unit.rc.instant
                             /\ t.unit.rc.reload = s.unit.rc.reload
                             /\ s.nr10.shift # 0 => t.unit.rc.countdown = s.nr10.shift
<1> DEFINE begun == [s EXCEPT !.unit.shadow = s.period,
                      !.unit.phase = phase_from_pace(s.nr10.pace),
                      !.unit.enabled = SweepOn(s.nr10),
                      !.unit.negated = FALSE,
                      !.unit.hold = IF m = "CGB" THEN 5 ELSE 0]
           restarted == clear_delayed_calculation(begun)
           recalc == dmg_apply_trigger_recalculation(restarted)
           reset == [recalc EXCEPT !.unit.shadow = 0]
           late == schedule_delayed_calculation(restarted, 2)
<1>1. sweep_trigger(s, m) = IF m = "DMG" THEN reset
                            ELSE IF s.nr10.shift = 0 THEN restarted ELSE late
  BY DEF sweep_trigger
<1>2. Sound(begun) /\ begun.period = s.period /\ begun.nr10 = s.nr10
  BY DEF Sound, UnitFields, RcFields
<1>3. begun.unit.shadow = s.period /\ begun.unit.rc = s.unit.rc
  BY DEF Sound, UnitFields
<1> HIDE DEF begun
<1>4. Sound(restarted)
  BY <1>2, ClearFollows DEF Follows
<1>5. restarted.period = s.period /\ restarted.nr10 = s.nr10
  BY <1>2 DEF clear_delayed_calculation
<1>6. restarted.unit.shadow = s.period /\ restarted.unit.rc = s.unit.rc
  BY <1>2, <1>3 DEF clear_delayed_calculation, Sound, UnitFields
<1> HIDE DEF restarted
<1>7. late.period = s.period /\ late.nr10 = s.nr10
  BY <1>5 DEF schedule_delayed_calculation
<1>8. late.unit.shadow = s.period
  BY <1>4, <1>6 DEF schedule_delayed_calculation, Sound, UnitFields
<1> HIDE DEF late
<1>9. Sound(recalc)
  BY <1>4, TriggerRecalculationFollows DEF Follows
<1>10. recalc.period = s.period /\ recalc.nr10 = s.nr10
  BY <1>5 DEF dmg_apply_trigger_recalculation
<1>11. recalc.unit.rc = TriggeredRecalculation(s.unit.rc, s.nr10.shift)
  BY <1>4, <1>5, <1>6 DEF dmg_apply_trigger_recalculation, Sound, UnitFields
<1> HIDE DEF recalc
<1>12. reset.period = s.period /\ reset.nr10 = s.nr10 /\ reset.unit.rc = recalc.unit.rc
  BY <1>9, <1>10 DEF Sound, UnitFields
<1> HIDE DEF reset
<1>13. s.nr10.shift \in Nat /\ RcFields \subseteq DOMAIN s.unit.rc
  BY DEF Sound, Nr10s
<1>14. /\ ~reset.unit.rc.instant /\ reset.unit.rc.reload = s.unit.rc.reload
       /\ s.nr10.shift # 0 => reset.unit.rc.countdown = s.nr10.shift
  BY <1>11, <1>12, <1>13, TriggeredRecalculationFacts
<1> QED BY <1>1, <1>5, <1>6, <1>7, <1>8, <1>12, <1>14

LEMMA EnvelopeWriteFields ==
  ASSUME NEW e, NEW v, NEW n, EnvelopeFields \subseteq DOMAIN e
  PROVE  EnvelopeFields \subseteq DOMAIN reload(apply_envelope_write(e, v), n)
BY DEF reload, apply_envelope_write

(* What a trigger does: an empty counter starts over with its unit off,    *)
(* the envelope and the sweep start from the registers.                    *)
Triggered(c, d, nextClocks) ==
    /\ Formed(d)
    /\ d.dac = c.dac /\ d.nrx4 = c.nrx4 /\ d.nrx2 = c.nrx2 /\ d.noise = c.noise
    /\ d.counter = (IF c.counter = 0 THEN LengthReload ELSE c.counter)
    /\ d.enabled = (IF c.counter = 0 THEN FALSE ELSE c.enabled)
    /\ d.env = reload(apply_envelope_write(c.env, c.nrx2), nextClocks)
    /\ d.period = c.period /\ d.nr10 = c.nr10
    /\ kind = "sweep" /\ model = "CGB" => d.sweep.shadow = c.period
    /\ kind = "sweep" /\ model = "DMG" =>
          /\ ~d.sweep.rc.instant /\ d.sweep.rc.reload = c.sweep.rc.reload
          /\ c.nr10.shift # 0 => d.sweep.rc.countdown = c.nr10.shift

LEMMA TriggerFacts ==
  ASSUME NEW c, NEW nextClocks, Formed(c)
  PROVE  Triggered(c, trigger(c, nextClocks), nextClocks)
<1> DEFINE timed == WithLength(c, reload_zero_length(LengthOf(c)))
           env == reload(apply_envelope_write(timed.env, timed.nrx2), nextClocks)
           loud == [timed EXCEPT
                      !.env = reload(apply_envelope_write(@, timed.nrx2), nextClocks),
                      !.active = @ \/ timed.dac]
           swept == WithSweep(loud, sweep_trigger(SweepOf(loud), model))
<1>1. trigger(c, nextClocks) = IF kind = "sweep" THEN swept ELSE loud
  BY DEF trigger
<1>2. /\ Formed(timed) /\ SameButLength(c, timed) /\ timed.active = c.active
      /\ timed.counter = (IF c.counter = 0 THEN LengthReload ELSE c.counter)
      /\ timed.enabled = (IF c.counter = 0 THEN FALSE ELSE c.enabled)
  BY ReloadZeroFacts
<1> HIDE DEF timed
<1>3. EnvelopeFields \subseteq DOMAIN env
  BY <1>2, EnvelopeWriteFields DEF Formed
<1>4. loud.env = env /\ DOMAIN loud = DOMAIN timed
  BY <1>2 DEF Formed, ChannelFields
<1>5. /\ loud.counter = timed.counter /\ loud.enabled = timed.enabled
      /\ loud.dac = timed.dac /\ loud.nrx4 = timed.nrx4 /\ loud.nrx2 = timed.nrx2
      /\ loud.noise = timed.noise /\ loud.sweep = timed.sweep
      /\ loud.period = timed.period /\ loud.nr10 = timed.nr10
  OBVIOUS
<1>6. env = reload(apply_envelope_write(c.env, c.nrx2), nextClocks)
  BY <1>2 DEF SameButLength
<1> HIDE DEF env, loud
<1>7. Formed(loud)
  BY <1>2, <1>3, <1>4, <1>5 DEF Formed
<1>8. CASE kind # "sweep"
  BY <1>1, <1>2, <1>4, <1>5, <1>6, <1>7, <1>8 DEF Triggered, SameButLength
<1>9. CASE kind = "sweep"
  <2> DEFINE s == SweepOf(loud)
             t == sweep_trigger(s, model)
  <2>1. /\ Sound(s) /\ s.unit = loud.sweep /\ s.period = loud.period
        /\ s.nr10 = loud.nr10 /\ s.active = loud.active
    BY <1>7, SweepOfSound
  <2>2. Follows(SweepOf(loud), t)
    BY <2>1, SweepTriggerFollows
  <2>3. /\ t.period = s.period /\ t.nr10 = s.nr10
        /\ model = "CGB" => t.unit.shadow = s.period
        /\ model = "DMG" => /\ ~t.unit.rc.instant
                            /\ t.unit.rc.reload = s.unit.rc.reload
                            /\ s.nr10.shift # 0 => t.unit.rc.countdown = s.nr10.shift
    BY <2>1, SweepTriggerFacts
  <2>4. swept = WithSweep(loud, t)
    OBVIOUS
  <2> HIDE DEF s, t, swept
  <2>5. /\ Formed(swept) /\ SameButSweep(loud, swept)
        /\ swept.sweep = t.unit /\ swept.period = t.period /\ swept.nr10 = t.nr10
    BY <1>7, <2>2, <2>4, WithSweepFacts
  <2> QED BY <1>1, <1>2, <1>4, <1>5, <1>6, <1>9, <2>1, <2>3, <2>5, ZenonT(30)
          DEF Triggered, SameButLength, SameButSweep
<1> QED BY <1>8, <1>9

(* The extra clock of a write to NRx4 leaves no sounding channel without   *)
(* length, and the counter in its range.                                   *)
LEMMA ExtraClockFacts ==
  ASSUME NEW c, NEW was, NEW nextClocks, NEW trig, NEW reloaded, Formed(c),
         c.counter \in 0..LengthReload, c.active => c.counter # 0
  PROVE  LET u == apply_extra_length_clocking(LengthOf(c), was, nextClocks, trig, reloaded)
         IN  /\ u.counter \in 0..LengthReload /\ u.enabled = c.enabled
             /\ u.active => c.active /\ u.counter # 0
BY UnitsAssumption DEF apply_extra_length_clocking, LengthOf

LEMMA NewPeriodIsNat ==
  ASSUME NEW p \in Nat, NEW high \in Nat
  PROVE  (p % PeriodLow) + high * PeriodLow \in Nat
<1>1. PeriodLow \in Nat /\ PeriodLow > 0
  BY ApuAssumption
<1>2. p % PeriodLow \in Nat
  BY <1>1
<1>3. high * PeriodLow \in Nat
  BY <1>1
<1> QED BY <1>2, <1>3

(* What a write to NRx4 does.                                              *)
Controlled(c, d, trig, bit) ==
    LET now == trig /\ ~delayed_dmg_trigger(c)
        nextClocks == step_clocks_envelope(effective_frame_sequencer_step)
    IN  /\ Formed(d)
        /\ d.nrx4 = bit /\ d.enabled = bit /\ d.nrx2 = c.nrx2 /\ d.nr10 = c.nr10
        /\ d.counter \in 0..LengthReload /\ (d.active => d.counter # 0)
        /\ d.noise.delayed # c.noise.delayed => LateStart
        /\ d.env = IF now THEN reload(apply_envelope_write(c.env, c.nrx2), nextClocks)
                   ELSE c.env
        /\ trig /\ kind = "sweep" =>
              /\ model = "CGB" => d.sweep.shadow = d.period
              /\ model = "DMG" =>
                    /\ ~d.sweep.rc.instant /\ d.sweep.rc.reload = c.sweep.rc.reload
                    /\ d.nr10.shift # 0 => d.sweep.rc.countdown = d.nr10.shift

(* The channel that a write to NRx4 starts, before the length is applied.  *)
Begun(c, d, trig) ==
    LET now == trig /\ ~delayed_dmg_trigger(c)
        nextClocks == step_clocks_envelope(effective_frame_sequencer_step)
    IN  /\ Formed(d)
        /\ d.nrx2 = c.nrx2 /\ d.nr10 = c.nr10 /\ d.nrx4 = c.nrx4
        /\ d.counter \in 0..LengthReload /\ (d.active => d.counter # 0)
        /\ d.noise.delayed # c.noise.delayed => LateStart
        /\ d.env = IF now THEN reload(apply_envelope_write(c.env, c.nrx2), nextClocks)
                   ELSE c.env
        /\ trig /\ kind = "sweep" =>
              /\ model = "CGB" => d.sweep.shadow = d.period
              /\ model = "DMG" =>
                    /\ ~d.sweep.rc.instant /\ d.sweep.rc.reload = c.sweep.rc.reload
                    /\ d.nr10.shift # 0 => d.sweep.rc.countdown = d.nr10.shift

LEMMA UntriggeredBegins ==
  ASSUME NEW c, Formed(c), c.counter \in 0..LengthReload, c.active => c.counter # 0
  PROVE  /\ Begun(c, c, FALSE)
         /\ Begun(c, WithSweep(c, rederive_increment(SweepOf(c), model)), FALSE)
<1> DEFINE s == rederive_increment(SweepOf(c), model)
           d == WithSweep(c, s)
<1>1. Follows(SweepOf(c), s) /\ s.nr10 = c.nr10
  <2>1. Follows(SweepOf(c), s)
    BY SweepOfSound, RederiveFollows
  <2>2. s.nr10 = SweepOf(c).nr10
    BY DEF rederive_increment
  <2> QED BY <2>1, <2>2, SweepOfSound
<1> HIDE DEF s
<1>2. Formed(d) /\ SameButSweep(c, d) /\ d.nr10 = s.nr10 /\ (d.active => c.active)
  BY <1>1, WithSweepFacts
<1> HIDE DEF d
<1>3. Begun(c, d, FALSE)
  BY <1>1, <1>2 DEF Begun, SameButSweep
<1>4. Begun(c, c, FALSE)
  BY DEF Begun
<1> QED BY <1>3, <1>4 DEF d, s

LEMMA LateBegins ==
  ASSUME NEW c, NEW n, Formed(c), c.counter \in 0..LengthReload, c.active => c.counter # 0,
         delayed_dmg_trigger(c)
  PROVE  Begun(c, [WithLength(c, reload_zero_length(LengthOf(c))) EXCEPT
                      !.noise.delayed = 6, !.noise.envelope_next = n], TRUE)
<1> DEFINE timed == WithLength(c, reload_zero_length(LengthOf(c)))
           d == [timed EXCEPT !.noise.delayed = 6, !.noise.envelope_next = n]
<1>1. /\ Formed(timed) /\ SameButLength(c, timed) /\ timed.active = c.active
      /\ timed.counter = (IF c.counter = 0 THEN LengthReload ELSE c.counter)
  BY ReloadZeroFacts
<1> HIDE DEF timed
<1>2. /\ DOMAIN d = DOMAIN timed /\ d.nrx2 = timed.nrx2 /\ d.nr10 = timed.nr10
      /\ d.nrx4 = timed.nrx4 /\ d.counter = timed.counter /\ d.active = timed.active
      /\ d.env = timed.env /\ d.sweep = timed.sweep /\ d.period = timed.period
  OBVIOUS
<1>3. DOMAIN d.noise = DOMAIN timed.noise
  BY <1>1 DEF Formed, ChannelFields
<1> HIDE DEF d
<1>4. Formed(d)
  BY <1>1, <1>2, <1>3 DEF Formed
<1>5. LateStart /\ kind # "sweep"
  BY DEF delayed_dmg_trigger, LateStart
<1>6. d.counter \in 0..LengthReload /\ d.counter # 0
  BY <1>1, <1>2, UnitsAssumption
<1> QED BY <1>1, <1>2, <1>4, <1>5, <1>6 DEF Begun, SameButLength, d, timed

LEMMA TriggerBegins ==
  ASSUME NEW c, Formed(c), c.counter \in 0..LengthReload, ~delayed_dmg_trigger(c)
  PROVE  Begun(c, trigger(c, step_clocks_envelope(effective_frame_sequencer_step)), TRUE)
<1> DEFINE n == step_clocks_envelope(effective_frame_sequencer_step)
           d == trigger(c, n)
<1>1. Triggered(c, d, n)
  BY TriggerFacts
<1> HIDE DEF d
<1>2. d.counter \in 0..LengthReload /\ d.counter # 0
  BY <1>1, UnitsAssumption DEF Triggered
<1> QED BY <1>1, <1>2 DEF Begun, Triggered, d

LEMMA WriteControlFacts ==
  ASSUME NEW c, NEW trig \in BOOLEAN, NEW bit \in BOOLEAN, NEW high \in Nat,
         Formed(c), c.counter \in 0..LengthReload, c.active => c.counter # 0
  PROVE  Controlled(c, write_nrx4(c, trig, bit, high), trig, bit)
<1> DEFINE next == effective_frame_sequencer_step
           kept == kind = "sweep" /\ PeriodLocked(SweepOf(c))
           period == IF kept THEN c.period ELSE (c.period % PeriodLow) + high * PeriodLow
           written == [c EXCEPT !.nrx4 = bit,
                          !.period = IF kept THEN @ ELSE (@ % PeriodLow) + high * PeriodLow]
           reloaded == trig /\ c.counter = 0
           rederived == WithSweep(written, rederive_increment(SweepOf(written), model))
           late == [WithLength(written, reload_zero_length(LengthOf(written))) EXCEPT
                      !.noise.delayed = 6,
                      !.noise.envelope_next = step_clocks_envelope(next)]
           begun == trigger(written, step_clocks_envelope(next))
           started ==
             IF ~trig THEN IF kind = "sweep" THEN rederived ELSE written
             ELSE IF delayed_dmg_trigger(c) THEN late ELSE begun
           was == IF trig /\ kind # "wave" THEN started.enabled ELSE c.enabled
           enabled == [started EXCEPT !.enabled = bit]
           clocked == apply_extra_length_clocking(LengthOf(enabled), was,
                         step_clocks_length(next), trig, reloaded)
<1>1. write_nrx4(c, trig, bit, high) = WithLength(enabled, clocked)
  BY DEF write_nrx4
<1>2. period \in Nat
  BY NewPeriodIsNat DEF Formed
<1>3. written.period = period /\ written.nrx4 = bit /\ DOMAIN written = DOMAIN c
  BY DEF Formed, ChannelFields
<1>4. /\ written.dac = c.dac /\ written.counter = c.counter /\ written.enabled = c.enabled
      /\ written.active = c.active /\ written.nrx2 = c.nrx2 /\ written.env = c.env
      /\ written.noise = c.noise /\ written.sweep = c.sweep /\ written.nr10 = c.nr10
  OBVIOUS
<1> HIDE DEF written, period, next
<1>5. Formed(written)
  BY <1>2, <1>3, <1>4 DEF Formed
<1>6. delayed_dmg_trigger(c) <=> delayed_dmg_trigger(written)
  BY <1>4 DEF delayed_dmg_trigger
<1>7. /\ Begun(written, written, FALSE) /\ Begun(written, rederived, FALSE)
      /\ delayed_dmg_trigger(c) => Begun(written, late, TRUE)
      /\ ~delayed_dmg_trigger(c) => Begun(written, begun, TRUE)
  <2>1. Begun(written, written, FALSE) /\ Begun(written, rederived, FALSE)
    BY <1>4, <1>5, UntriggeredBegins
  <2>2. ASSUME delayed_dmg_trigger(c) PROVE Begun(written, late, TRUE)
    BY <1>4, <1>5, <1>6, <2>2, LateBegins
  <2>3. ASSUME ~delayed_dmg_trigger(c) PROVE Begun(written, begun, TRUE)
    BY <1>4, <1>5, <1>6, <2>3, TriggerBegins DEF next
  <2> QED BY <2>1, <2>2, <2>3
<1> HIDE DEF rederived, late, begun
<1>8. Begun(written, started, trig)
  BY <1>7
<1> HIDE DEF started, was, reloaded
<1>9. /\ DOMAIN enabled = DOMAIN started /\ enabled.counter = started.counter
      /\ enabled.active = started.active /\ enabled.nrx4 = started.nrx4
      /\ enabled.nrx2 = started.nrx2 /\ enabled.env = started.env
      /\ enabled.noise = started.noise /\ enabled.sweep = started.sweep
      /\ enabled.period = started.period /\ enabled.nr10 = started.nr10
  OBVIOUS
<1>10. enabled.enabled = bit
  BY <1>8 DEF Begun, Formed, ChannelFields
<1> HIDE DEF enabled
<1>11. Formed(enabled)
  BY <1>8, <1>9 DEF Begun, Formed
<1>12. /\ clocked.counter \in 0..LengthReload /\ clocked.enabled = bit
       /\ clocked.active => clocked.counter # 0
  BY <1>8, <1>9, <1>10, <1>11, ExtraClockFacts DEF Begun
<1> DEFINE d == WithLength(enabled, clocked)
<1> HIDE DEF clocked
<1>13. /\ Formed(d) /\ SameButLength(enabled, d)
       /\ d.counter = clocked.counter /\ d.enabled = clocked.enabled
       /\ d.active = clocked.active
  BY <1>11, WithLengthFacts
<1> HIDE DEF d
<1>14. Controlled(c, d, trig, bit)
  <2>1. /\ d.nrx4 = bit /\ d.enabled = bit /\ d.nrx2 = c.nrx2 /\ d.nr10 = c.nr10
        /\ d.counter \in 0..LengthReload /\ (d.active => d.counter # 0)
    BY <1>3, <1>4, <1>8, <1>9, <1>12, <1>13 DEF Begun, SameButLength
  <2>2. d.noise.delayed # c.noise.delayed => LateStart
    BY <1>4, <1>8, <1>9, <1>13 DEF Begun, SameButLength
  <2>3. d.env = IF trig /\ ~delayed_dmg_trigger(c)
                THEN reload(apply_envelope_write(c.env, c.nrx2),
                            step_clocks_envelope(effective_frame_sequencer_step))
                ELSE c.env
    BY <1>4, <1>6, <1>8, <1>9, <1>13 DEF Begun, SameButLength
  <2>4. trig /\ kind = "sweep" =>
              /\ model = "CGB" => d.sweep.shadow = d.period
              /\ model = "DMG" =>
                    /\ ~d.sweep.rc.instant /\ d.sweep.rc.reload = c.sweep.rc.reload
                    /\ d.nr10.shift # 0 => d.sweep.rc.countdown = d.nr10.shift
    BY <1>4, <1>8, <1>9, <1>13 DEF Begun, SameButLength
  <2> QED BY <1>13, <2>1, <2>2, <2>3, <2>4 DEF Controlled
<1> QED BY <1>1, <1>14 DEF d

LEMMA ScheduleKeeps ==
  ASSUME NEW s, NEW extra, Sound(s)
  PROVE  LET t == schedule_delayed_calculation(s, extra)
         IN  t.unit.shadow = s.unit.shadow /\ t.period = s.period
BY DEF schedule_delayed_calculation, Sound, UnitFields

(* On a Game Boy Color the shadow stays the period, and a rising sum that  *)
(* would leave the range is not written.                                   *)
LEMMA CgbFireFacts ==
  ASSUME NEW s, Sound(s), s.unit.shadow = s.period
  PROVE  LET t == cgb_fire(s)
         IN  /\ t.unit.shadow = t.period
             /\ ~s.nr10.decrease => t.period >= s.period
<1> DEFINE delta == Shifted(s.unit.shadow, s.nr10.shift)
           sum == s.unit.shadow + Addend(delta, s.nr10.decrease)
                  + (IF s.nr10.decrease THEN 1 ELSE 0)
           candidate == sum % (PeriodMax + 1)
           stays == (~s.nr10.decrease /\ sum > PeriodMax) \/ s.nr10.shift = 0
           moved == [s EXCEPT !.unit.shadow = candidate, !.period = candidate]
           next == IF stays THEN s ELSE moved
           t == schedule_delayed_calculation(next, 0)
<1>1. cgb_fire(s) = t
  BY DEF cgb_fire
<1>2. delta \in Nat
  BY ShiftedIsNat DEF Sound, Nr10s
<1> HIDE DEF delta
<1>3. sum \in Int /\ (~s.nr10.decrease => sum >= s.unit.shadow)
  BY <1>2, SweepAssumption DEF Sound, Addend, Complement
<1> HIDE DEF sum
<1>4. sum \in 0..PeriodMax => candidate = sum
  BY <1>3, SweepAssumption
<1>5. moved.unit.shadow = candidate /\ moved.period = candidate
  BY DEF Sound, UnitFields
<1> HIDE DEF candidate, moved
<1>6. next.unit.shadow = next.period /\ (~s.nr10.decrease => next.period >= s.period)
  BY <1>3, <1>4, <1>5, SweepAssumption DEF Sound
<1>7. Sound(next)
  <2>1. candidate \in Nat
    BY <1>3, CandidateIsNat DEF candidate
  <2>2. Sound(moved)
    BY <2>1 DEF Sound, UnitFields, RcFields, moved
  <2> QED BY <2>2
<1> HIDE DEF next
<1>8. t.unit.shadow = next.unit.shadow /\ t.period = next.period
  BY <1>7, ScheduleKeeps
<1> QED BY <1>1, <1>6, <1>8

(* On an older console: the sum that is written is the one that was found  *)
(* to fit.                                                                 *)
LEMMA DmgFireFacts ==
  ASSUME NEW s, Sound(s), s.unit.rc.countdown = 0, s.unit.restart = 0,
         s.unit.rc.reload = 0, s.nr10.shift # 0,
         NextSumFits(s.unit, s.period, s.nr10, s.active)
  PROVE  LET t == dmg_fire(s)
         IN  /\ NextSumFits(t.unit, t.period, t.nr10, t.active)
             /\ SumFits(s.unit, s.period) /\ ~s.nr10.decrease => t.period >= s.period
<1> DEFINE sum == s.unit.shadow + Addend(s.unit.increment, s.nr10.decrease)
                  + (IF s.nr10.decrease THEN 1 ELSE 0)
           candidate == sum % (PeriodMax + 1)
           seen == [s EXCEPT !.unit.negated = @ \/ s.nr10.decrease]
           busy == s.unit.rc.countdown > 0
           t == [seen EXCEPT !.unit.shadow = candidate,
                             !.period = candidate,
                             !.unit.rc.increment = IF busy THEN 0 ELSE @,
                             !.unit.increment = IF busy THEN 0 ELSE @,
                             !.unit.rc.reload = 2,
                             !.unit.rc.reloaded = TRUE]
<1>5. dmg_fire(s) = t
  BY DEF dmg_fire
<1>6. /\ Sound(seen) /\ seen.nr10 = s.nr10 /\ seen.active = s.active
      /\ seen.unit.restart = s.unit.restart /\ seen.unit.rc = s.unit.rc
  BY DEF Sound, UnitFields, RcFields
<1> HIDE DEF seen, busy, candidate
<1>1. t.period = candidate /\ t.nr10 = s.nr10 /\ t.active = s.active
  BY <1>6 DEF Sound
<1>2. t.unit.shadow = candidate /\ t.unit.restart = s.unit.restart
  BY <1>6, ZenonT(30) DEF Sound, UnitFields
<1>3. /\ t.unit.rc.countdown = s.unit.rc.countdown /\ t.unit.rc.reload = 2
      /\ t.unit.rc.instant = s.unit.rc.instant
  BY <1>6, ZenonT(30) DEF Sound, UnitFields, RcFields
<1> HIDE DEF t
<1> USE DEF candidate
<1>4. ASSUME SumFits(s.unit, s.period), ~s.nr10.decrease PROVE candidate >= s.period
  BY <1>4, SweepAssumption DEF SumFits, Sound, Addend
<1> HIDE DEF candidate
<1> QED BY <1>1, <1>2, <1>3, <1>4, <1>5 DEF NextSumFits

(* The sweep's share of a step of the frame sequencer.                     *)
LEMMA ClockSweepFacts ==
  ASSUME NEW s, NEW m, Sound(s)
  PROVE  LET t == clock_sweep(s, m)
         IN  /\ t.nr10 = s.nr10
             /\ m # "DMG" /\ s.unit.shadow = s.period =>
                   /\ t.unit.shadow = t.period
                   /\ ~s.nr10.decrease => t.period >= s.period
             /\ m = "DMG" /\ s.nr10.shift = 0 => t.period = s.period
             /\ /\ m = "DMG" /\ s.nr10.shift # 0
                /\ s.unit.rc.countdown = 0 /\ s.unit.restart = 0 /\ s.unit.rc.reload = 0
                /\ NextSumFits(s.unit, s.period, s.nr10, s.active)
                => /\ NextSumFits(t.unit, t.period, t.nr10, t.active)
                   /\ SumFits(s.unit, s.period) /\ ~s.nr10.decrease => t.period >= s.period
<1> DEFINE next == [s EXCEPT !.unit.phase = (@ + 1) % (PhaseMask + 1)]
           rewound == [next EXCEPT !.unit.phase = phase_from_pace(next.nr10.pace)]
           t == clock_sweep(s, m)
<1>1. t = next \/ (m = "DMG" /\ t = dmg_fire(rewound))
               \/ (m # "DMG" /\ t \in {rewound, cgb_fire(rewound)})
  BY DEF clock_sweep, maybe_fire_sweep_boundary
<1>2. /\ Sound(next) /\ next.active = s.active /\ next.nr10 = s.nr10
      /\ next.period = s.period
  BY DEF Sound, UnitFields, RcFields
<1>3. /\ next.unit.shadow = s.unit.shadow /\ next.unit.increment = s.unit.increment
      /\ next.unit.restart = s.unit.restart /\ next.unit.rc = s.unit.rc
  BY DEF Sound, UnitFields
<1>4. NextSumFits(s.unit, s.period, s.nr10, s.active)
        => NextSumFits(next.unit, next.period, next.nr10, next.active)
  BY <1>2, <1>3 DEF NextSumFits, SumFits
<1> HIDE DEF next
<1>5. /\ Sound(rewound) /\ rewound.active = s.active /\ rewound.nr10 = s.nr10
      /\ rewound.period = s.period
  BY <1>2 DEF Sound, UnitFields, RcFields
<1>6. /\ rewound.unit.shadow = s.unit.shadow /\ rewound.unit.increment = s.unit.increment
      /\ rewound.unit.restart = s.unit.restart /\ rewound.unit.rc = s.unit.rc
  BY <1>2, <1>3 DEF Sound, UnitFields
<1>7. NextSumFits(s.unit, s.period, s.nr10, s.active)
        => NextSumFits(rewound.unit, rewound.period, rewound.nr10, rewound.active)
  BY <1>5, <1>6 DEF NextSumFits, SumFits
<1> HIDE DEF rewound, t
<1>8. t.nr10 = s.nr10
  <2>1. dmg_fire(rewound).nr10 = rewound.nr10
    BY DEF dmg_fire
  <2>2. cgb_fire(rewound).nr10 = rewound.nr10
    BY DEF cgb_fire, schedule_delayed_calculation
  <2> QED BY <1>1, <1>2, <1>5, <2>1, <2>2
<1>9. ASSUME m # "DMG", s.unit.shadow = s.period
      PROVE  t.unit.shadow = t.period /\ (~s.nr10.decrease => t.period >= s.period)
  <2>1. s.period >= s.period
    BY DEF Sound
  <2> QED BY <1>1, <1>2, <1>3, <1>5, <1>6, <1>9, <2>1, CgbFireFacts
<1>10. ASSUME m = "DMG", s.nr10.shift = 0 PROVE t.period = s.period
  <2>1. dmg_fire(rewound).period = rewound.period
    BY <1>5, <1>10 DEF dmg_fire
  <2> QED BY <1>1, <1>2, <1>5, <1>10, <2>1
<1>11. ASSUME m = "DMG", s.nr10.shift # 0,
              s.unit.rc.countdown = 0, s.unit.restart = 0, s.unit.rc.reload = 0,
              NextSumFits(s.unit, s.period, s.nr10, s.active)
       PROVE  /\ NextSumFits(t.unit, t.period, t.nr10, t.active)
              /\ SumFits(s.unit, s.period) /\ ~s.nr10.decrease => t.period >= s.period
  <2>1. CASE t = next
    <3>1. s.period >= s.period
      BY DEF Sound
    <3> QED BY <1>2, <1>4, <1>11, <2>1, <3>1
  <2>2. CASE t = dmg_fire(rewound)
    <3>1. SumFits(s.unit, s.period) => SumFits(rewound.unit, rewound.period)
      BY <1>5, <1>6 DEF SumFits
    <3> QED BY <1>5, <1>6, <1>7, <1>11, <2>2, <3>1, DmgFireFacts
  <2> QED BY <1>1, <1>11, <2>1, <2>2
<1> QED BY <1>8, <1>9, <1>10, <1>11 DEF t

Fits(s) == NextSumFits(s.unit, s.period, s.nr10, s.active)

LEMMA TickDelayedFacts ==
  ASSUME NEW s, Sound(s)
  PROVE  LET t == tick_delayed_calculation(s)
         IN  /\ t.period = s.period /\ t.nr10 = s.nr10
             /\ t.unit.shadow = s.unit.shadow /\ t.unit.increment = s.unit.increment
             /\ t.unit.restart = s.unit.restart /\ t.unit.rc = s.unit.rc
             /\ t.active => s.active
<1> DEFINE t == tick_delayed_calculation(s)
<1>1. t.period = s.period /\ t.nr10 = s.nr10
  BY DEF tick_delayed_calculation, clear_delayed_calculation
<1>2. /\ t.unit.shadow = s.unit.shadow /\ t.unit.increment = s.unit.increment
      /\ t.unit.restart = s.unit.restart /\ t.unit.rc = s.unit.rc
  BY DEF tick_delayed_calculation, clear_delayed_calculation, Sound, UnitFields
<1>3. t.active => s.active
  BY TickDelayedFollows DEF Follows
<1> QED BY <1>1, <1>2, <1>3

(* The end of a recalculation silences the channel or finds that the next  *)
(* sum fits.                                                               *)
LEMMA RecalculationDoneFits ==
  ASSUME NEW s, Sound(s), s.unit.rc.reload = 0, ~s.unit.rc.instant
  PROVE  Fits(period_sweep_recalculation_done(s))
<1> DEFINE t == period_sweep_recalculation_done(s)
<1>1. t.period = s.period /\ t.nr10 = s.nr10
  BY DEF period_sweep_recalculation_done
<1>2. t.unit.shadow = s.period /\ t.unit.increment = s.unit.increment
  BY DEF period_sweep_recalculation_done, Sound, UnitFields
<1>3. t.unit.rc.reload = s.unit.rc.reload /\ t.unit.rc.instant = s.unit.rc.instant
  BY DEF period_sweep_recalculation_done, Sound, UnitFields, RcFields
<1>4. t.active /\ ~s.nr10.decrease => s.period + s.unit.increment <= PeriodMax
  <2> DEFINE carry == IF s.unit.rc.from_trigger THEN 0 ELSE 1
  <2>1. t.active => ~(~s.nr10.decrease
                      /\ s.period + Addend(s.unit.increment, s.nr10.decrease) + carry > PeriodMax)
    BY DEF period_sweep_recalculation_done, Sound
  <2>2. carry \in Nat
    OBVIOUS
  <2> HIDE DEF carry, t
  <2> QED BY <2>1, <2>2, SweepAssumption DEF Addend, Sound
<1> HIDE DEF t
<1>5. Fits(t)
  BY <1>1, <1>2, <1>3, <1>4 DEF Fits, NextSumFits, SumFits
<1> QED BY <1>5 DEF t

LEMMA TickRecalculationFits ==
  ASSUME NEW s, NEW proceeds, Sound(s), s.nr10.shift # 0, Fits(s)
  PROVE  LET t == tick_period_sweep_recalculation(s, proceeds)
         IN  Fits(t) /\ t.nr10 = s.nr10
<1> DEFINE less == [s EXCEPT !.unit.rc.countdown = @ - 1]
           count == [s EXCEPT !.unit.rc.counter = @ + 1]
           done == period_sweep_recalculation_done(less)
           t == tick_period_sweep_recalculation(s, proceeds)
<1>1. ~s.unit.rc.instant
  BY DEF Fits, NextSumFits, SumFits
<1>2. \/ t \in {s, count}
      \/ s.unit.rc.countdown # 0 /\ less.unit.rc.countdown = 0 /\ t = done
      \/ s.unit.rc.countdown # 0 /\ less.unit.rc.countdown # 0 /\ t = less
  BY <1>1 DEF tick_period_sweep_recalculation
<1>3. /\ count.period = s.period /\ count.nr10 = s.nr10 /\ count.active = s.active
      /\ count.unit.shadow = s.unit.shadow /\ count.unit.increment = s.unit.increment
      /\ count.unit.restart = s.unit.restart
      /\ count.unit.rc.countdown = s.unit.rc.countdown
      /\ count.unit.rc.reload = s.unit.rc.reload
      /\ count.unit.rc.instant = s.unit.rc.instant
  BY DEF Sound, UnitFields, RcFields
<1>4. /\ less.nr10 = s.nr10
      /\ less.unit.rc.countdown = s.unit.rc.countdown - 1
      /\ less.unit.rc.reload = s.unit.rc.reload
      /\ less.unit.rc.instant = s.unit.rc.instant
  BY DEF Sound, UnitFields, RcFields
<1>5. s.unit.rc.countdown # 0 => Sound(less) /\ s.unit.rc.reload = 0
  BY DEF Sound, UnitFields, RcFields, Fits, NextSumFits, SumFits
<1> HIDE DEF less, count, t
<1>6. Fits(count)
  BY <1>3 DEF Fits, NextSumFits, SumFits
<1>7. ASSUME s.unit.rc.countdown # 0, less.unit.rc.countdown # 0 PROVE Fits(less)
  BY <1>1, <1>4, <1>5, <1>7 DEF Fits, NextSumFits, SumFits
<1>8. ASSUME s.unit.rc.countdown # 0 PROVE Fits(done) /\ done.nr10 = less.nr10
  <2>1. done.nr10 = less.nr10
    BY DEF period_sweep_recalculation_done
  <2>2. Fits(done)
    BY <1>1, <1>4, <1>5, <1>8, RecalculationDoneFits
  <2> QED BY <2>1, <2>2
<1> HIDE DEF done
<1> QED BY <1>2, <1>3, <1>4, <1>6, <1>7, <1>8 DEF t

LEMMA TickReloadFits ==
  ASSUME NEW s, Sound(s), s.nr10.shift # 0, Fits(s)
  PROVE  LET t == tick_period_sweep_reload(s)
         IN  Fits(t) /\ t.nr10 = s.nr10
<1> DEFINE less == [s EXCEPT !.unit.restart = IF @ > 0 THEN @ - 1 ELSE 0]
           shut == [less EXCEPT !.unit.rc.reload = @ - 1]
           done == period_sweep_reload_done(shut)
<1>1. tick_period_sweep_reload(s) =
        IF s.unit.rc.reload = 0 THEN less ELSE IF shut.unit.rc.reload = 0 THEN done ELSE shut
  BY DEF tick_period_sweep_reload
<1>2. /\ Sound(less) /\ less.active = s.active /\ less.period = s.period /\ less.nr10 = s.nr10
      /\ less.unit.shadow = s.unit.shadow /\ less.unit.increment = s.unit.increment
      /\ less.unit.rc = s.unit.rc /\ (s.unit.restart = 0 => less.unit.restart = 0)
  BY DEF Sound, UnitFields, RcFields
<1> HIDE DEF less
<1>3. Fits(less)
  BY <1>2 DEF Fits, NextSumFits, SumFits
<1>4. /\ shut.active = less.active /\ shut.period = less.period /\ shut.nr10 = less.nr10
      /\ shut.unit.shadow = less.unit.shadow /\ shut.unit.restart = less.unit.restart
      /\ shut.unit.rc.countdown = less.unit.rc.countdown
      /\ shut.unit.rc.instant = less.unit.rc.instant
      /\ shut.unit.rc.reload = less.unit.rc.reload - 1
  BY <1>2 DEF Sound, UnitFields, RcFields
<1>5. s.unit.rc.reload # 0 => Sound(shut)
  BY <1>2 DEF Sound, UnitFields, RcFields
<1> HIDE DEF shut
<1>6. ASSUME s.unit.rc.reload # 0, shut.unit.rc.reload # 0 PROVE Fits(shut)
  BY <1>2, <1>3, <1>4, <1>6 DEF Fits, NextSumFits, SumFits
<1>7. ASSUME s.unit.rc.reload # 0, shut.unit.rc.reload = 0
      PROVE  Fits(done) /\ done.nr10 = shut.nr10
  <2>1. shut.unit.restart = 0 /\ ~shut.unit.rc.instant /\ shut.nr10.shift # 0
    BY <1>2, <1>3, <1>4, <1>7 DEF Fits, NextSumFits, SumFits
  <2>2. done.nr10 = shut.nr10
    BY DEF period_sweep_reload_done
  <2>3. /\ done.unit.rc.reload = 0 /\ done.unit.rc.instant = shut.unit.rc.instant
        /\ done.unit.rc.countdown = shut.nr10.shift
    BY <1>5, <1>7, <2>1 DEF period_sweep_reload_done, Sound, UnitFields, RcFields
  <2> HIDE DEF done
  <2> QED BY <2>1, <2>2, <2>3 DEF Fits, NextSumFits, SumFits
<1> HIDE DEF done
<1> QED BY <1>1, <1>2, <1>3, <1>4, <1>6, <1>7

LEMMA TickSweepFacts ==
  ASSUME NEW s, NEW m, NEW proceeds, Sound(s)
  PROVE  LET t == tick_sweep(s, m, proceeds)
         IN  /\ m # "DMG" => t.unit.shadow = s.unit.shadow /\ t.period = s.period
             /\ m = "DMG" /\ t.nr10.shift # 0 /\ Fits(s) /\ s.nr10.shift # 0 => Fits(t)
<1> DEFINE d == tick_delayed_calculation(s)
           r == tick_period_sweep_recalculation(d, proceeds)
           t == tick_period_sweep_reload(r)
<1>1. tick_sweep(s, m, proceeds) = IF m = "DMG" THEN t ELSE d
  BY DEF tick_sweep
<1>2. /\ d.period = s.period /\ d.nr10 = s.nr10
      /\ d.unit.shadow = s.unit.shadow /\ d.unit.increment = s.unit.increment
      /\ d.unit.restart = s.unit.restart /\ d.unit.rc = s.unit.rc
      /\ d.active => s.active
  BY TickDelayedFacts
<1>3. Sound(d)
  BY TickDelayedFollows DEF Follows
<1> HIDE DEF d
<1>4. Fits(s) => Fits(d)
  BY <1>2 DEF Fits, NextSumFits, SumFits
<1>5. Sound(r)
  BY <1>3, TickRecalculationFollows DEF Follows
<1>6. ASSUME Fits(s), s.nr10.shift # 0 PROVE Fits(t)
  <2>1. Fits(r) /\ r.nr10.shift # 0
    BY <1>2, <1>3, <1>4, <1>6, TickRecalculationFits
  <2> HIDE DEF r
  <2> QED BY <1>5, <2>1, TickReloadFits
<1> HIDE DEF t
<1> QED BY <1>1, <1>2, <1>6

LEMMA TickSweepKeepsNr10 ==
  ASSUME NEW s, NEW m, NEW proceeds
  PROVE  tick_sweep(s, m, proceeds).nr10 = s.nr10
<1> DEFINE d == tick_delayed_calculation(s)
           r == tick_period_sweep_recalculation(d, proceeds)
<1>1. d.nr10 = s.nr10
  BY DEF tick_delayed_calculation, clear_delayed_calculation
<1> HIDE DEF d
<1>2. r.nr10 = d.nr10
  <2> DEFINE calm == [d EXCEPT !.unit.rc.instant = FALSE]
             less == [d EXCEPT !.unit.rc.countdown = @ - 1]
             count == [d EXCEPT !.unit.rc.counter = @ + 1]
             calmed == period_sweep_recalculation_done(calm)
             done == period_sweep_recalculation_done(less)
  <2>1. r \in {calmed, d, count, done, less}
    BY DEF tick_period_sweep_recalculation
  <2>2. calm.nr10 = d.nr10 /\ less.nr10 = d.nr10 /\ count.nr10 = d.nr10
    OBVIOUS
  <2> HIDE DEF calm, less, count, r
  <2>3. calmed.nr10 = calm.nr10 /\ done.nr10 = less.nr10
    BY DEF period_sweep_recalculation_done
  <2> HIDE DEF calmed, done
  <2> QED BY <2>1, <2>2, <2>3
<1> HIDE DEF r
<1>3. tick_period_sweep_reload(r).nr10 = r.nr10
  <2> DEFINE less == [r EXCEPT !.unit.restart = IF @ > 0 THEN @ - 1 ELSE 0]
             shut == [less EXCEPT !.unit.rc.reload = @ - 1]
             done == period_sweep_reload_done(shut)
             t == tick_period_sweep_reload(r)
  <2>1. t \in {less, done, shut}
    BY DEF tick_period_sweep_reload
  <2>2. less.nr10 = r.nr10 /\ shut.nr10 = r.nr10
    OBVIOUS
  <2> HIDE DEF less, shut, t
  <2>3. done.nr10 = shut.nr10
    BY DEF period_sweep_reload_done
  <2> HIDE DEF done
  <2> QED BY <2>1, <2>2, <2>3 DEF t
<1> QED BY <1>1, <1>2, <1>3 DEF tick_sweep, r, d

-----------------------------------------------------------------------------
(* The operations of the channel that the frame sequencer, the generators  *)
(* and the other registers call.                                           *)

LEMMA WriteVolumeFacts ==
  ASSUME NEW c, NEW v, Formed(c)
  PROVE  LET d == write_nrx2(c, v)
         IN  /\ Formed(d) /\ (d.active => c.active)
             /\ d.counter = c.counter /\ d.enabled = c.enabled /\ d.nrx4 = c.nrx4
             /\ d.noise = c.noise /\ d.nr10 = c.nr10 /\ d.period = c.period
             /\ d.sweep = c.sweep /\ d.nrx2 \in {v, c.nrx2}
<1> DEFINE env == apply_live_write_effect(c.env, model, c.active, v)
           w == [c EXCEPT !.env = apply_live_write_effect(@, model, c.active, v), !.nrx2 = v]
           on == derived_dac_enabled(v)
<1>1. DOMAIN env = DOMAIN c.env
  BY DEF apply_live_write_effect, cgb_live_write, apply_envelope_write
<1>2. w.env = env /\ w.nrx2 = v /\ DOMAIN w = DOMAIN c
  BY DEF Formed, ChannelFields
<1>3. /\ w.counter = c.counter /\ w.enabled = c.enabled /\ w.nrx4 = c.nrx4
      /\ w.noise = c.noise /\ w.nr10 = c.nr10 /\ w.period = c.period
      /\ w.sweep = c.sweep /\ w.active = c.active
  OBVIOUS
<1>4. write_nrx2(c, v) = set_dac_enabled(IF kind = "wave" THEN c ELSE w, on)
  BY DEF write_nrx2
<1> HIDE DEF env, w, on
<1>5. Formed(w)
  BY <1>1, <1>2, <1>3 DEF Formed
<1>6. \A x : Formed(x) =>
        LET d == set_dac_enabled(x, on)
        IN  /\ Formed(d) /\ (d.active => x.active)
            /\ d.counter = x.counter /\ d.enabled = x.enabled /\ d.nrx4 = x.nrx4
            /\ d.noise = x.noise /\ d.nr10 = x.nr10 /\ d.period = x.period
            /\ d.sweep = x.sweep /\ d.nrx2 = x.nrx2
  <2> SUFFICES ASSUME NEW x, Formed(x)
               PROVE  LET d == set_dac_enabled(x, on)
                      IN  /\ Formed(d) /\ (d.active => x.active)
                          /\ d.counter = x.counter /\ d.enabled = x.enabled /\ d.nrx4 = x.nrx4
                          /\ d.noise = x.noise /\ d.nr10 = x.nr10 /\ d.period = x.period
                          /\ d.sweep = x.sweep /\ d.nrx2 = x.nrx2
    OBVIOUS
  <2> DEFINE d == set_dac_enabled(x, on)
  <2>1. /\ d.counter = x.counter /\ d.enabled = x.enabled /\ d.nrx4 = x.nrx4
        /\ d.noise = x.noise /\ d.nr10 = x.nr10 /\ d.period = x.period
        /\ d.sweep = x.sweep /\ d.nrx2 = x.nrx2 /\ d.env = x.env
        /\ DOMAIN d = DOMAIN x
    BY DEF set_dac_enabled
  <2>2. d.active => x.active
    BY DEF set_dac_enabled, Formed, ChannelFields
  <2> HIDE DEF d
  <2>3. Formed(d)
    BY <2>1 DEF Formed
  <2> QED BY <2>1, <2>2, <2>3 DEF d
<1>7. CASE kind = "wave"
  BY <1>4, <1>6, <1>7
<1>8. CASE kind # "wave"
  BY <1>2, <1>3, <1>4, <1>5, <1>6, <1>8
<1> QED BY <1>7, <1>8

(* Two T-cycles of the generators: a late start triggers the channel, any  *)
(* other tick leaves everything but the noise timebase and the sweep.      *)
LEMMA TickFacts ==
  ASSUME NEW c, Formed(c), c.noise.delayed # 0 => LateStart, model \in {"DMG", "CGB"}
  PROVE  LET d == tick_fast_timers(c)
         IN  /\ Formed(d) /\ (d.noise.delayed # 0 => LateStart)
             /\ d.nrx4 = c.nrx4 /\ d.nrx2 = c.nrx2 /\ d.nr10 = c.nr10
             /\ c.noise.delayed = 1 =>
                   /\ d.counter = (IF c.counter = 0 THEN LengthReload ELSE c.counter)
                   /\ d.enabled = (IF c.counter = 0 THEN FALSE ELSE c.enabled)
                   /\ d.env = reload(apply_envelope_write(c.env, c.nrx2), c.noise.envelope_next)
             /\ c.noise.delayed # 1 =>
                   /\ d.counter = c.counter /\ d.enabled = c.enabled
                   /\ (d.active => c.active) /\ d.env = c.env
             /\ kind = "sweep" /\ model = "CGB" /\ c.sweep.shadow = c.period =>
                   d.sweep.shadow = d.period
             /\ /\ kind = "sweep" /\ model = "DMG" /\ c.nr10.shift # 0
                /\ NextSumFits(c.sweep, c.period, c.nr10, c.active)
                => NextSumFits(d.sweep, d.period, d.nr10, d.active)
<1> DEFINE d == tick_fast_timers(c)
<1>1. CASE kind = "noise"
  <2> DEFINE left == IF c.noise.delayed > 0 THEN c.noise.delayed - 1 ELSE 0
             a == [c EXCEPT !.noise.alignment = (@ + 1) % 4,
                            !.noise.delayed = IF @ > 0 THEN @ - 1 ELSE 0]
             b == trigger(a, c.noise.envelope_next)
             s == [b EXCEPT !.noise.envelope_next = FALSE]
  <2>1. d = IF c.noise.delayed = 1 THEN s ELSE a
    BY <1>1 DEF tick_fast_timers
  <2>2. DOMAIN a.noise = DOMAIN c.noise /\ a.noise.delayed = left
    BY DEF Formed, ChannelFields, NoiseFields
  <2>3. /\ DOMAIN a = DOMAIN c /\ a.counter = c.counter /\ a.enabled = c.enabled
        /\ a.active = c.active /\ a.nrx4 = c.nrx4 /\ a.nrx2 = c.nrx2 /\ a.env = c.env
        /\ a.sweep = c.sweep /\ a.period = c.period /\ a.nr10 = c.nr10
    OBVIOUS
  <2> HIDE DEF a
  <2>4. Formed(a)
    BY <2>2, <2>3 DEF Formed
  <2>5. left # 0 => c.noise.delayed # 0
    OBVIOUS
  <2>6. Triggered(a, b, c.noise.envelope_next)
    BY <2>4, TriggerFacts
  <2> HIDE DEF b, left
  <2>7. /\ DOMAIN s = DOMAIN b /\ s.counter = b.counter /\ s.enabled = b.enabled
        /\ s.active = b.active /\ s.nrx4 = b.nrx4 /\ s.nrx2 = b.nrx2 /\ s.env = b.env
        /\ s.sweep = b.sweep /\ s.period = b.period /\ s.nr10 = b.nr10
    OBVIOUS
  <2>8. DOMAIN s.noise = DOMAIN b.noise /\ s.noise.delayed = b.noise.delayed
    BY <2>6 DEF Triggered, Formed, ChannelFields, NoiseFields
  <2> HIDE DEF s, d
  <2>9. Formed(s)
    BY <2>6, <2>7, <2>8 DEF Triggered, Formed
  <2>10. CASE c.noise.delayed = 1
    BY <1>1, <2>1, <2>2, <2>3, <2>5, <2>6, <2>7, <2>8, <2>9, <2>10 DEF Triggered, d
  <2>11. CASE c.noise.delayed # 1
    BY <1>1, <2>1, <2>2, <2>3, <2>4, <2>5, <2>11 DEF d
  <2> QED BY <2>10, <2>11
<1>2. CASE kind = "sweep"
  <2> DEFINE s == SweepOf(c)
             t == tick_sweep(s, model, half = 0)
  <2>1. d = WithSweep(c, t)
    BY <1>2 DEF tick_fast_timers
  <2>2. /\ Sound(s) /\ s.unit = c.sweep /\ s.period = c.period
        /\ s.nr10 = c.nr10 /\ s.active = c.active
    BY SweepOfSound
  <2>3. Follows(SweepOf(c), t)
    BY <2>2, TickSweepFollows
  <2>4. t.nr10 = s.nr10
    BY TickSweepKeepsNr10
  <2>5. /\ model # "DMG" => t.unit.shadow = s.unit.shadow /\ t.period = s.period
        /\ model = "DMG" /\ Fits(s) /\ s.nr10.shift # 0 => Fits(t)
    BY <2>2, <2>4, TickSweepFacts
  <2> HIDE DEF s, t, d
  <2>6. /\ Formed(d) /\ SameButSweep(c, d)
        /\ d.sweep = t.unit /\ d.period = t.period /\ d.nr10 = t.nr10
        /\ d.active = t.active /\ (d.active => c.active)
    BY <2>1, <2>3, WithSweepFacts
  <2>7. c.noise.delayed # 1
    BY <1>2 DEF LateStart
  <2> QED BY <1>2, <2>2, <2>4, <2>5, <2>6, <2>7 DEF SameButSweep, Fits, d
<1>3. CASE kind \notin {"noise", "sweep"}
  <2>1. d = c /\ c.noise.delayed # 1
    BY <1>3 DEF tick_fast_timers, LateStart
  <2> HIDE DEF d
  <2> QED BY <1>3, <2>1 DEF d
<1> QED BY <1>1, <1>2, <1>3

LEMMA ClockLengthFacts ==
  ASSUME NEW c, Formed(c), c.counter \in 0..LengthReload, c.active => c.counter # 0
  PROVE  LET u == clock_length_counter(LengthOf(c))
         IN  /\ u.enabled = c.enabled /\ (u.active => c.active /\ u.counter # 0)
             /\ u.counter = IF c.enabled /\ c.counter # 0 THEN c.counter - 1 ELSE c.counter
<1>1. CASE ~c.enabled \/ c.counter = 0
  BY <1>1 DEF clock_length_counter, LengthOf
<1>2. CASE c.enabled /\ c.counter # 0
  <2> DEFINE u == clock_length_counter(LengthOf(c))
  <2>1. u.counter = c.counter - 1 /\ u.enabled = c.enabled
    BY <1>2 DEF clock_length_counter, LengthOf
  <2>2. u.active => c.active /\ c.counter # 1
    BY <1>2 DEF clock_length_counter, LengthOf
  <2> HIDE DEF u
  <2>3. c.counter # 1 => c.counter - 1 # 0
    OBVIOUS
  <2> QED BY <1>2, <2>1, <2>2, <2>3 DEF u
<1> QED BY <1>1, <1>2

LEMMA ClockEnvelopeFields ==
  ASSUME NEW e
  PROVE  DOMAIN clock_envelope(e) = DOMAIN e /\ DOMAIN clock_pending_even_tick(e) = DOMAIN e
<1>1. \A x : DOMAIN clock_envelope(x) = DOMAIN x
  BY DEF clock_envelope
<1>2. DOMAIN [e EXCEPT !.pending = FALSE] = DOMAIN e
  OBVIOUS
<1> QED BY <1>1, <1>2 DEF clock_pending_even_tick

ClockedEnvelope(e) ==
    LET ticked == IF ~step_clocks_length(step) /\ model = "CGB"
                  THEN clock_pending_even_tick(e) ELSE e
    IN  IF step_clocks_envelope(step) THEN clock_envelope(ticked) ELSE ticked

(* The channel's share of a step of the frame sequencer.                   *)
LEMMA ClockChannelFacts ==
  ASSUME NEW c, Formed(c), c.counter \in 0..LengthReload, c.active => c.counter # 0,
         model \in {"DMG", "CGB"}
  PROVE  LET d == clock_channel(c)
         IN  /\ Formed(d) /\ d.nrx4 = c.nrx4 /\ d.nrx2 = c.nrx2 /\ d.nr10 = c.nr10
             /\ d.noise = c.noise /\ d.enabled = c.enabled
             /\ d.active => c.active /\ d.counter # 0
             /\ d.counter = IF step_clocks_length(step) /\ c.enabled /\ c.counter # 0
                            THEN c.counter - 1 ELSE c.counter
             /\ d.env = ClockedEnvelope(c.env)
             /\ kind # "sweep" => d.period = c.period
             /\ kind = "sweep" /\ model = "CGB" /\ c.sweep.shadow = c.period =>
                   /\ d.sweep.shadow = d.period
                   /\ ~c.nr10.decrease => d.period >= c.period
             /\ kind = "sweep" /\ model = "DMG" /\ c.nr10.shift = 0 => d.period = c.period
             /\ /\ kind = "sweep" /\ model = "DMG" /\ c.nr10.shift # 0
                /\ c.sweep.rc.countdown = 0 /\ c.sweep.restart = 0 /\ c.sweep.rc.reload = 0
                /\ NextSumFits(c.sweep, c.period, c.nr10, c.active)
                => /\ NextSumFits(d.sweep, d.period, d.nr10, d.active)
                   /\ c.active /\ ~c.nr10.decrease => d.period >= c.period
<1> DEFINE u == clock_length_counter(LengthOf(c))
           timed == IF step_clocks_length(step) THEN WithLength(c, u) ELSE c
           t == clock_sweep(SweepOf(timed), model)
           swept == IF step_clocks_sweep(step) /\ kind = "sweep"
                    THEN WithSweep(timed, t) ELSE timed
           ticked == IF ~step_clocks_length(step) /\ model = "CGB"
                     THEN [swept EXCEPT !.env = clock_pending_even_tick(@)] ELSE swept
           d == IF step_clocks_envelope(step)
                THEN [ticked EXCEPT !.env = clock_envelope(@)] ELSE ticked
<1>1. clock_channel(c) = d
  BY DEF clock_channel
<1>2. /\ u.enabled = c.enabled /\ (u.active => c.active /\ u.counter # 0)
      /\ u.counter = IF c.enabled /\ c.counter # 0 THEN c.counter - 1 ELSE c.counter
  BY ClockLengthFacts
<1> HIDE DEF u
<1>3. /\ Formed(timed) /\ SameButLength(c, timed) /\ timed.enabled = c.enabled
      /\ timed.active => c.active /\ timed.counter # 0
      /\ timed.counter = IF step_clocks_length(step) /\ c.enabled /\ c.counter # 0
                         THEN c.counter - 1 ELSE c.counter
  <2>1. CASE step_clocks_length(step)
    BY <1>2, <2>1, WithLengthFacts
  <2>2. CASE ~step_clocks_length(step)
    BY <2>2 DEF SameButLength
  <2> QED BY <2>1, <2>2
<1> HIDE DEF timed
<1> DEFINE s == SweepOf(timed)
<1>4. /\ Sound(s) /\ s.unit = timed.sweep /\ s.period = timed.period
      /\ s.nr10 = timed.nr10 /\ s.active = timed.active
  BY <1>3, SweepOfSound
<1>5. Follows(SweepOf(timed), t)
  BY <1>4, ClockSweepFollows
<1>6. /\ t.nr10 = s.nr10
      /\ model # "DMG" /\ s.unit.shadow = s.period =>
            t.unit.shadow = t.period /\ (~s.nr10.decrease => t.period >= s.period)
      /\ model = "DMG" /\ s.nr10.shift = 0 => t.period = s.period
      /\ /\ model = "DMG" /\ s.nr10.shift # 0
         /\ s.unit.rc.countdown = 0 /\ s.unit.restart = 0 /\ s.unit.rc.reload = 0
         /\ NextSumFits(s.unit, s.period, s.nr10, s.active)
         => /\ NextSumFits(t.unit, t.period, t.nr10, t.active)
            /\ SumFits(s.unit, s.period) /\ ~s.nr10.decrease => t.period >= s.period
  BY <1>4, ClockSweepFacts
<1> HIDE DEF s, t
<1>7. /\ Formed(swept) /\ SameButSweep(timed, swept) /\ swept.nr10 = timed.nr10
      /\ swept.active => timed.active
  <2>1. CASE step_clocks_sweep(step) /\ kind = "sweep"
    BY <1>3, <1>4, <1>5, <1>6, <2>1, WithSweepFacts
  <2>2. CASE ~(step_clocks_sweep(step) /\ kind = "sweep")
    BY <1>3, <2>2 DEF SameButSweep
  <2> QED BY <2>1, <2>2
<1>8. /\ kind # "sweep" => swept.period = timed.period
      /\ kind = "sweep" /\ model = "CGB" /\ timed.sweep.shadow = timed.period =>
            /\ swept.sweep.shadow = swept.period
            /\ ~timed.nr10.decrease => swept.period >= timed.period
      /\ kind = "sweep" /\ model = "DMG" /\ timed.nr10.shift = 0 =>
            swept.period = timed.period
      /\ /\ kind = "sweep" /\ model = "DMG" /\ timed.nr10.shift # 0
         /\ timed.sweep.rc.countdown = 0 /\ timed.sweep.restart = 0
         /\ timed.sweep.rc.reload = 0
         /\ NextSumFits(timed.sweep, timed.period, timed.nr10, timed.active)
         => /\ NextSumFits(swept.sweep, swept.period, swept.nr10, swept.active)
            /\ SumFits(timed.sweep, timed.period) /\ ~timed.nr10.decrease =>
                  swept.period >= timed.period
  <2>1. CASE step_clocks_sweep(step) /\ kind = "sweep"
    <3>1. /\ swept.sweep = t.unit /\ swept.period = t.period /\ swept.nr10 = t.nr10
          /\ swept.active = t.active
      BY <1>3, <1>5, <2>1, WithSweepFacts
    <3> HIDE DEF swept
    <3> QED BY <1>4, <1>6, <2>1, <3>1
  <2>2. CASE ~(step_clocks_sweep(step) /\ kind = "sweep")
    <3>1. swept = timed
      BY <2>2
    <3>2. timed.period >= timed.period
      BY <1>3 DEF Formed
    <3> HIDE DEF swept
    <3> QED BY <3>1, <3>2
  <2> QED BY <2>1, <2>2
<1> HIDE DEF swept
<1> DEFINE early == IF ~step_clocks_length(step) /\ model = "CGB"
                    THEN clock_pending_even_tick(swept.env) ELSE swept.env
<1>9. /\ DOMAIN ticked = DOMAIN swept /\ ticked.env = early
      /\ ticked.counter = swept.counter /\ ticked.enabled = swept.enabled
      /\ ticked.active = swept.active /\ ticked.nrx4 = swept.nrx4 /\ ticked.nrx2 = swept.nrx2
      /\ ticked.noise = swept.noise /\ ticked.sweep = swept.sweep
      /\ ticked.period = swept.period /\ ticked.nr10 = swept.nr10
  BY <1>7 DEF Formed, ChannelFields
<1>10. DOMAIN early = DOMAIN swept.env
  BY ClockEnvelopeFields
<1> HIDE DEF ticked
<1> DEFINE last == IF step_clocks_envelope(step) THEN clock_envelope(early) ELSE early
<1>11. last = ClockedEnvelope(swept.env)
  BY DEF ClockedEnvelope
<1> HIDE DEF early
<1>12. DOMAIN last = DOMAIN early
  BY ClockEnvelopeFields
<1>13. /\ DOMAIN d = DOMAIN ticked /\ d.env = last
       /\ d.counter = ticked.counter /\ d.enabled = ticked.enabled
       /\ d.active = ticked.active /\ d.nrx4 = ticked.nrx4 /\ d.nrx2 = ticked.nrx2
       /\ d.noise = ticked.noise /\ d.sweep = ticked.sweep
       /\ d.period = ticked.period /\ d.nr10 = ticked.nr10
  BY <1>7, <1>9 DEF Formed, ChannelFields
<1> HIDE DEF d, last
<1>14. Formed(d)
  BY <1>7, <1>9, <1>10, <1>12, <1>13 DEF Formed
<1>15. /\ d.nrx4 = c.nrx4 /\ d.nrx2 = c.nrx2 /\ d.nr10 = c.nr10
       /\ d.noise = c.noise /\ d.enabled = c.enabled
       /\ d.active => c.active /\ d.counter # 0
       /\ d.counter = timed.counter
       /\ d.env = ClockedEnvelope(c.env)
  BY <1>3, <1>7, <1>9, <1>11, <1>13 DEF SameButLength, SameButSweep
<1>16. /\ d.period = swept.period /\ d.sweep = swept.sweep /\ d.nr10 = swept.nr10
       /\ d.active = swept.active
  BY <1>9, <1>13
<1>17. /\ timed.period = c.period /\ timed.sweep = c.sweep /\ timed.nr10 = c.nr10
       /\ timed.active => c.active
  BY <1>3 DEF SameButLength
<1>18. NextSumFits(c.sweep, c.period, c.nr10, c.active)
         => /\ NextSumFits(timed.sweep, timed.period, timed.nr10, timed.active)
            /\ c.sweep.rc.reload = 0 /\ c.sweep.rc.countdown = 0
                 /\ c.active /\ ~c.nr10.decrease => SumFits(timed.sweep, timed.period)
  BY <1>17 DEF NextSumFits, SumFits
<1>19. /\ kind = "sweep" /\ model = "DMG" /\ c.nr10.shift # 0
       /\ c.sweep.rc.countdown = 0 /\ c.sweep.restart = 0 /\ c.sweep.rc.reload = 0
       /\ NextSumFits(c.sweep, c.period, c.nr10, c.active)
       => /\ NextSumFits(d.sweep, d.period, d.nr10, d.active)
          /\ c.active /\ ~c.nr10.decrease => d.period >= c.period
  BY <1>7, <1>8, <1>16, <1>17, <1>18
<1>20. /\ kind # "sweep" => d.period = c.period
       /\ kind = "sweep" /\ model = "CGB" /\ c.sweep.shadow = c.period =>
             /\ d.sweep.shadow = d.period
             /\ ~c.nr10.decrease => d.period >= c.period
       /\ kind = "sweep" /\ model = "DMG" /\ c.nr10.shift = 0 => d.period = c.period
  BY <1>8, <1>16, <1>17
<1> QED BY <1>1, <1>3, <1>14, <1>15, <1>19, <1>20

-----------------------------------------------------------------------------
(* The envelope.                                                           *)

LEMMA DivisionSteps ==
  ASSUME NEW n \in Nat, NEW p \in 1..7
  PROVE  /\ n % p \in 0..(p - 1) /\ n \div p \in Nat
         /\ n % p = p - 1 => (n + 1) % p = 0 /\ (n + 1) \div p = n \div p + 1
         /\ n % p # p - 1 => (n + 1) % p = (n % p) + 1 /\ (n + 1) \div p = n \div p
         /\ (n + 1) \div p >= n \div p
         /\ 0 % p = 0 /\ 0 \div p = 0
<1>1. CASE p = 1 BY <1>1
<1>2. CASE p = 2 BY <1>2
<1>3. CASE p = 3 BY <1>3
<1>4. CASE p = 4 BY <1>4
<1>5. CASE p = 5 BY <1>5
<1>6. CASE p = 6 BY <1>6
<1>7. CASE p = 7 BY <1>7
<1> QED BY <1>1, <1>2, <1>3, <1>4, <1>5, <1>6, <1>7

(* A trigger starts the count.                                             *)
LEMMA ReloadPaced ==
  ASSUME NEW e, NEW v \in Volumes, NEW n, EnvelopeFields \subseteq DOMAIN e
  PROVE  Paced(reload(apply_envelope_write(e, v), n), 0, n)
<1> DEFINE w == apply_envelope_write(e, v)
           r == reload(w, n)
<1>1. /\ w.initial = v.volume /\ w.increase = v.increase /\ w.pace = v.pace
      /\ EnvelopeFields \subseteq DOMAIN w
  BY DEF apply_envelope_write, EnvelopeFields
<1> HIDE DEF w
<1>2. /\ r.initial = w.initial /\ r.increase = w.increase /\ r.pace = w.pace
      /\ r.volume = w.initial /\ ~r.short /\ ~r.pending
      /\ r.auto <=> w.pace # 0
      /\ r.timer = envelope_timer_reload(w.pace) + (IF n THEN 1 ELSE 0)
  BY <1>1 DEF reload, EnvelopeFields
<1> HIDE DEF r
<1>3. /\ r.initial \in 0..MaxVolume /\ r.pace \in 0..7 /\ r.increase \in BOOLEAN
      /\ Limit(r) \in Nat
  BY <1>1, <1>2, UnitsAssumption DEF Volumes, Limit
<1>4. Counted(0, n) = 0
  BY DEF Counted
<1>5. r.pace # 0 => /\ 0 \div r.pace = 0 /\ 0 % r.pace = 0
                    /\ r.timer = r.pace + (IF n THEN 1 ELSE 0)
  <2> SUFFICES ASSUME r.pace # 0
               PROVE  /\ 0 \div r.pace = 0 /\ 0 % r.pace = 0
                      /\ r.timer = r.pace + (IF n THEN 1 ELSE 0)
    OBVIOUS
  <2>1. r.pace \in 1..7
    BY <1>3
  <2>2. 0 \div r.pace = 0 /\ 0 % r.pace = 0
    BY <2>1, DivisionSteps
  <2> QED BY <1>2, <2>2 DEF envelope_timer_reload
<1>6. VolumeAfter(r, 0) = r.initial
  BY <1>3 DEF VolumeAfter
<1>7. Paced(r, 0, n)
  BY <1>2, <1>3, <1>4, <1>5, <1>6 DEF Paced
<1> QED BY <1>7 DEF r, w

(* An envelope clock keeps it.                                             *)
LEMMA ClockPaced ==
  ASSUME NEW e, NEW k \in Nat, NEW early, EnvelopeFields \subseteq DOMAIN e,
         Paced(e, k, early)
  PROVE  Paced(clock_envelope(e), IF e.pace # 0 THEN k + 1 ELSE k, early)
<1> DEFINE f == clock_envelope(e)
           c == Counted(k, early)
           c1 == Counted(k + 1, early)
           p == e.pace
           lim == Limit(e)
<1>1. /\ e.initial \in 0..MaxVolume /\ p \in 0..7 /\ e.increase \in BOOLEAN
      /\ ~e.short /\ ~e.pending
  BY DEF Paced
<1>2. CASE p = 0
  <2>1. f = e
    BY <1>2 DEF clock_envelope
  <2> QED BY <1>2, <2>1
<1>3. CASE p # 0
  <2>1. p \in 1..7 /\ lim \in Nat
    BY <1>1, <1>3, UnitsAssumption DEF Limit
  <2>2. c \in Nat /\ c1 = IF early /\ k = 0 THEN c ELSE c + 1
    BY DEF Counted
  <2>3. /\ e.volume = VolumeAfter(e, c \div p)
        /\ e.auto => /\ c \div p <= lim
                     /\ e.timer = IF early /\ k = 0 THEN p + 1 ELSE p - (c % p)
        /\ ~e.auto => c \div p > lim
    BY <1>3 DEF Paced
  <2> HIDE DEF c, c1
  <2>4. /\ c % p \in 0..(p - 1) /\ c \div p \in Nat
        /\ c % p = p - 1 => (c + 1) % p = 0 /\ (c + 1) \div p = c \div p + 1
        /\ c % p # p - 1 => (c + 1) % p = (c % p) + 1 /\ (c + 1) \div p = c \div p
        /\ (c + 1) \div p >= c \div p
    BY <2>1, <2>2, DivisionSteps
  <2>5. SUFFICES /\ f.initial = e.initial /\ f.pace = p /\ f.increase = e.increase
                 /\ ~f.short /\ ~f.pending
                 /\ f.volume = VolumeAfter(e, c1 \div p)
                 /\ f.auto => /\ c1 \div p <= lim
                              /\ f.timer = p - (c1 % p)
                 /\ ~f.auto => c1 \div p > lim
    <3> HIDE DEF f
    <3> SUFFICES ASSUME
                 /\ f.initial = e.initial /\ f.pace = p /\ f.increase = e.increase
                 /\ ~f.short /\ ~f.pending
                 /\ f.volume = VolumeAfter(e, c1 \div p)
                 /\ f.auto => /\ c1 \div p <= lim
                              /\ f.timer = p - (c1 % p)
                 /\ ~f.auto => c1 \div p > lim
                 PROVE Paced(f, IF e.pace # 0 THEN k + 1 ELSE k, early)
      BY DEF f
    <3>1. Limit(f) = lim /\ VolumeAfter(f, c1 \div p) = VolumeAfter(e, c1 \div p)
      BY DEF Limit, VolumeAfter
    <3>2. k + 1 # 0
      OBVIOUS
    <3> QED BY <1>1, <1>3, <3>1, <3>2 DEF Paced, c1
  <2>6. CASE ~e.auto
    <3>1. f = e
      BY <2>6 DEF clock_envelope
    <3>2. c1 \div p > lim /\ c \div p > lim
      BY <2>1, <2>2, <2>3, <2>4, <2>6
    <3>3. c1 \div p \in Nat
      <4>1. c1 \in Nat
        BY <2>2
      <4> QED BY <2>1, <4>1, DivisionSteps
    <3>4. VolumeAfter(e, c1 \div p) = VolumeAfter(e, c \div p)
      BY <2>1, <2>4, <3>2, <3>3 DEF VolumeAfter
    <3> QED BY <1>1, <2>3, <2>6, <3>1, <3>2, <3>4
  <2>7. CASE e.auto
    <3> DEFINE left == IF e.timer > 0 THEN e.timer - 1 ELSE 0
               atLimit == e.volume = (IF e.increase THEN MaxVolume ELSE 0)
    <3>1. e.timer \in 1..8
      BY <2>1, <2>3, <2>4, <2>7
    <3>2. CASE left # 0
      <4>1. f = [e EXCEPT !.timer = left]
        BY <1>3, <2>7, <3>2 DEF clock_envelope
      <4>2. /\ f.initial = e.initial /\ f.pace = p /\ f.increase = e.increase
            /\ ~f.short /\ ~f.pending /\ f.volume = e.volume /\ f.auto
            /\ f.timer = left
        BY <1>1, <2>7, <4>1 DEF EnvelopeFields
      <4> HIDE DEF f
      <4>3. c1 \div p = c \div p /\ left = p - (c1 % p)
        <5>1. CASE early /\ k = 0
          <6>1. c = 0 /\ c1 = 0
            BY <2>2, <5>1 DEF Counted, c
          <6>2. 0 % p = 0
            BY <2>1, DivisionSteps
          <6> QED BY <2>1, <2>3, <2>7, <3>1, <5>1, <6>1, <6>2
        <5>2. CASE ~(early /\ k = 0)
          BY <2>1, <2>2, <2>3, <2>4, <2>7, <3>1, <3>2, <5>2
        <5> QED BY <5>1, <5>2
      <4> QED BY <2>3, <2>7, <4>2, <4>3
    <3>3. CASE left = 0
      <4> DEFINE vol == IF atLimit THEN e.volume
                        ELSE IF e.increase THEN e.volume + 1 ELSE e.volume - 1
      <4>1. f = [e EXCEPT !.timer = envelope_timer_reload(e.pace) - (IF e.short THEN 1 ELSE 0),
                          !.short = FALSE, !.auto = ~atLimit,
                          !.volume = IF atLimit THEN @
                                     ELSE IF e.increase THEN @ + 1 ELSE @ - 1]
        BY <1>3, <2>7, <3>3 DEF clock_envelope
      <4>2. /\ f.initial = e.initial /\ f.pace = p /\ f.increase = e.increase
            /\ ~f.short /\ ~f.pending /\ f.volume = vol
        BY <1>1, <4>1 DEF EnvelopeFields
      <4>3. f.timer = p /\ (f.auto <=> ~atLimit)
        <5> DEFINE again == envelope_timer_reload(e.pace) - (IF e.short THEN 1 ELSE 0)
        <5>1. again = p
          BY <1>1, <1>3 DEF envelope_timer_reload
        <5> HIDE DEF again
        <5>2. f.timer = again
          BY <4>1 DEF EnvelopeFields, again
        <5> HIDE DEF atLimit
        <5>3. f.auto = ~atLimit
          BY <4>1 DEF EnvelopeFields
        <5> QED BY <5>1, <5>2, <5>3
      <4> HIDE DEF f
      <4>4. /\ ~(early /\ k = 0) /\ c1 = c + 1 /\ c1 \div p = c \div p + 1 /\ c1 % p = 0
        BY <2>1, <2>2, <2>3, <2>4, <2>7, <3>1, <3>3
      <4>5. c \div p <= lim
        BY <2>3, <2>7
      <4> DEFINE q == c \div p
      <4>6. q \in Nat /\ e.volume = VolumeAfter(e, q)
        BY <2>3, <2>4
      <4> HIDE DEF q
      <4>7. atLimit <=> q = lim
        BY <1>1, <4>5, <4>6, UnitsAssumption DEF VolumeAfter, Limit, q
      <4>8. vol = VolumeAfter(e, q + 1)
        BY <1>1, <4>5, <4>6, <4>7, UnitsAssumption DEF VolumeAfter, Limit, q
      <4>9. p - 0 = p /\ (atLimit => q + 1 > lim) /\ (~atLimit => q + 1 <= lim)
        BY <2>1, <4>5, <4>6, <4>7 DEF q
      <4> HIDE DEF vol, atLimit
      <4> QED BY <4>2, <4>3, <4>4, <4>8, <4>9 DEF q
    <3> QED BY <3>2, <3>3
  <2> QED BY <2>6, <2>7
<1> QED BY <1>2, <1>3

-----------------------------------------------------------------------------
(* The invariant.                                                          *)

LEMMA InputFacts ==
  ASSUME <<model, kind>> \in Channels
  PROVE  /\ model \in {"DMG", "CGB"}
         /\ Nrx2Values[kind] \subseteq Volumes
         /\ LengthLoads[kind] \subseteq 1..LengthReload
         /\ LengthBits[kind] \subseteq BOOLEAN
         /\ Nr10Values \subseteq Nr10s
<1> DEFINE k == <<model, kind>>
<1>1. k \in Channels /\ k[1] = model /\ k[2] = kind
  OBVIOUS
<1> HIDE DEF k
<1>2. k \in {"DMG", "CGB"} \X {"pulse", "sweep", "wave", "noise"}
  BY <1>1, ApuAssumption
<1>3. model \in {"DMG", "CGB"}
  BY <1>1, <1>2
<1> QED BY <1>1, <1>3, ApuAssumption DEF Volumes, Nr10s

LEMMA ClearedFormed ==
  ASSUME NEW n
  PROVE  LET c == ClearedChannel(n)
         IN  /\ Formed(c) /\ c.counter = n /\ ~c.active /\ ~c.enabled /\ ~c.nrx4
             /\ c.noise.delayed = 0 /\ c.nrx2 \in Volumes
             /\ c.nrx2 = NoVolume
<1> DEFINE c == ClearedChannel(n)
<1>1. /\ DOMAIN c = ChannelFields
      /\ c.noise = AlignedNoise /\ c.env = ClearedEnvelope /\ c.sweep = ClearedSweep
      /\ c.nr10 = NoSweep /\ c.period = 0 /\ c.nrx2 = NoVolume
      /\ c.counter = n /\ ~c.active /\ ~c.enabled /\ ~c.nrx4
  BY DEF ClearedChannel, ChannelFields
<1>2. DOMAIN AlignedNoise = NoiseFields /\ AlignedNoise.delayed = 0
  BY DEF AlignedNoise, NoiseFields
<1>3. DOMAIN ClearedEnvelope = EnvelopeFields
  BY DEF ClearedEnvelope, EnvelopeFields
<1>4. /\ DOMAIN ClearedSweep = UnitFields /\ ClearedSweep.rc = ClearedRecalculation
      /\ ClearedSweep.shadow = 0 /\ ClearedSweep.increment = 0 /\ ClearedSweep.restart = 0
  BY DEF ClearedSweep, UnitFields
<1>5. /\ DOMAIN ClearedRecalculation = RcFields
      /\ ClearedRecalculation.countdown = 0 /\ ClearedRecalculation.reload = 0
  BY DEF ClearedRecalculation, RcFields
<1>6. NoSweep \in Nr10s
  BY SweepAssumption DEF NoSweep, Nr10s
<1>7. NoVolume \in Volumes
  BY UnitsAssumption DEF NoVolume, Volumes
<1> HIDE DEF c
<1> QED BY <1>1, <1>2, <1>3, <1>4, <1>5, <1>6, <1>7 DEF Formed, c

LEMMA StartedFormed ==
  ASSUME NEW v \in Volumes, NEW b \in BOOLEAN
  PROVE  LET c == StartedChannel(v, b)
         IN  /\ Formed(c) /\ c.counter = LengthReload /\ ~c.enabled /\ ~c.nrx4
             /\ c.noise.delayed = 0 /\ c.nrx2 = v
<1> DEFINE k == ClearedChannel(LengthReload)
           env == reload(apply_envelope_write(k.env, v), FALSE)
           c == [k EXCEPT
                   !.nrx2 = v,
                   !.dac = derived_dac_enabled(v),
                   !.active = b /\ derived_dac_enabled(v),
                   !.env = reload(apply_envelope_write(@, v), FALSE),
                   !.sweep.phase = phase_from_pace(0)]
<1>1. StartedChannel(v, b) = c
  BY DEF StartedChannel
<1>2. /\ Formed(k) /\ k.counter = LengthReload /\ ~k.enabled /\ ~k.nrx4
      /\ k.noise.delayed = 0
  BY ClearedFormed
<1> HIDE DEF k
<1>3. /\ DOMAIN c = DOMAIN k /\ c.counter = k.counter /\ c.enabled = k.enabled
      /\ c.nrx4 = k.nrx4 /\ c.noise = k.noise /\ c.nr10 = k.nr10 /\ c.period = k.period
  OBVIOUS
<1>4. c.nrx2 = v /\ c.env = env
  BY <1>2 DEF Formed, ChannelFields
<1>5. EnvelopeFields \subseteq DOMAIN env
  BY <1>2, EnvelopeWriteFields DEF Formed
<1>6. /\ DOMAIN c.sweep = DOMAIN k.sweep /\ c.sweep.rc = k.sweep.rc
      /\ c.sweep.shadow = k.sweep.shadow /\ c.sweep.increment = k.sweep.increment
      /\ c.sweep.restart = k.sweep.restart
  BY <1>2 DEF Formed, ChannelFields, UnitFields
<1> HIDE DEF env, c
<1>7. Formed(c)
  BY <1>2, <1>3, <1>4, <1>5, <1>6 DEF Formed
<1> QED BY <1>1, <1>2, <1>3, <1>4, <1>7

LEMMA InitApu == Init => ApuInv
<1> SUFFICES ASSUME Init PROVE ApuInv
  OBVIOUS
<1>1. <<model, kind>> \in Channels
  <2>1. PICK k \in Channels : model = k[1] /\ kind = k[2]
    BY DEF Init
  <2>2. k = <<k[1], k[2]>>
    BY ApuAssumption
  <2> QED BY <2>1, <2>2
<1>2. /\ Formed(ch) /\ ch.counter \in 0..LengthReload /\ ~ch.enabled /\ ~ch.nrx4
      /\ ch.noise.delayed = 0 /\ ch.nrx2 \in Volumes /\ (ch.active => ch.counter # 0)
  <2>1. CASE ch = ClearedChannel(0)
    BY <2>1, ClearedFormed, UnitsAssumption
  <2>2. CASE \E v \in Nrx2Values[kind], b \in BOOLEAN : ch = StartedChannel(v, b)
    <3>1. PICK v \in Nrx2Values[kind], b \in BOOLEAN : ch = StartedChannel(v, b)
      BY <2>2
    <3>2. v \in Volumes
      BY <1>1, InputFacts
    <3> QED BY <3>1, <3>2, StartedFormed, UnitsAssumption
  <2> QED BY <2>1, <2>2 DEF Init
<1>3. /\ PastFields \subseteq DOMAIN past /\ past.since = 0 /\ past.clocks = 0
      /\ ~past.calm /\ ~past.steady
  BY DEF Init, NoPast, PastFields
<1>4. ch.counter + 0 <= LengthReload /\ 0 \in 0..LengthReload
  BY <1>2, UnitsAssumption
<1> QED BY <1>1, <1>2, <1>3, <1>4 DEF ApuInv, Shape, NoteInv, PaceInv, SweepInv

LEMMA TickKeeps == ASSUME ApuInv, Tick PROVE ApuInv'
<1> DEFINE d == tick_fast_timers(ch)
           late == ch.noise.delayed = 1 /\ powered
<1>1. /\ <<model, kind>> \in Channels /\ Formed(ch) /\ PastFields \subseteq DOMAIN past
      /\ (ch.noise.delayed # 0 => LateStart)
      /\ model' = model /\ kind' = kind /\ (LateStart' <=> LateStart)
  BY DEF ApuInv, Shape, Tick, LateStart
<1>2. model \in {"DMG", "CGB"}
  BY <1>1, InputFacts
<1>3. CASE powered
  <2>1. ch' = d
    BY <1>3 DEF Tick
  <2>2. /\ Formed(d) /\ (d.noise.delayed # 0 => LateStart)
        /\ d.nrx4 = ch.nrx4 /\ d.nrx2 = ch.nrx2 /\ d.nr10 = ch.nr10
        /\ ch.noise.delayed = 1 =>
              /\ d.counter = (IF ch.counter = 0 THEN LengthReload ELSE ch.counter)
              /\ d.enabled = (IF ch.counter = 0 THEN FALSE ELSE ch.enabled)
              /\ d.env = reload(apply_envelope_write(ch.env, ch.nrx2), ch.noise.envelope_next)
        /\ ch.noise.delayed # 1 =>
              /\ d.counter = ch.counter /\ d.enabled = ch.enabled
              /\ (d.active => ch.active) /\ d.env = ch.env
        /\ kind = "sweep" /\ model = "CGB" /\ ch.sweep.shadow = ch.period =>
              d.sweep.shadow = d.period
        /\ /\ kind = "sweep" /\ model = "DMG" /\ ch.nr10.shift # 0
           /\ NextSumFits(ch.sweep, ch.period, ch.nr10, ch.active)
           => NextSumFits(d.sweep, d.period, d.nr10, d.active)
    BY <1>1, <1>2, TickFacts
  <2> HIDE DEF d
  <2>3. /\ PastFields \subseteq DOMAIN past' /\ past'.since = past.since
        /\ past'.steady = past.steady
    BY <1>1 DEF Tick, PastFields
  <2>4. Shape'
    BY <1>1, <2>1, <2>2, <2>3 DEF Shape
  <2>5. SweepInv'
    BY <1>1, <2>1, <2>2, <2>3 DEF ApuInv, SweepInv
  <2>6. CASE ch.noise.delayed = 1
    <3>1. /\ past'.clocks = 0 /\ past'.early = ch.noise.envelope_next
      BY <1>1, <1>3, <2>6 DEF Tick, PastFields
    <3>2. NoteInv'
      <4>1. /\ ch.counter \in 0..LengthReload /\ past.since \in 0..LengthReload
            /\ ch.enabled => ch.counter + past.since <= LengthReload
        BY DEF ApuInv, NoteInv
      <4>2. d.counter \in 0..LengthReload /\ d.counter # 0
        BY <2>2, <2>6, <4>1, UnitsAssumption
      <4>3. d.enabled => d.counter + past.since <= LengthReload
        BY <2>2, <2>6, <4>1
      <4>4. LateStart
        BY <1>1, <2>6
      <4> QED BY <1>1, <2>1, <2>3, <4>1, <4>2, <4>3, <4>4 DEF NoteInv
    <3>3. Paced(d.env, 0, ch.noise.envelope_next)
      BY <1>1, <2>2, <2>6, ReloadPaced DEF ApuInv, PaceInv, Formed
    <3>4. PaceInv'
      BY <2>1, <2>2, <3>1, <3>3 DEF ApuInv, PaceInv
    <3> QED BY <2>4, <2>5, <3>2, <3>4 DEF ApuInv
  <2>7. CASE ch.noise.delayed # 1
    <3>1. past' = past
      BY <2>7 DEF Tick
    <3>2. NoteInv'
      BY <1>1, <2>1, <2>2, <2>7, <3>1 DEF ApuInv, NoteInv
    <3>3. PaceInv'
      BY <1>1, <2>1, <2>2, <2>7, <3>1 DEF ApuInv, PaceInv
    <3> QED BY <2>4, <2>5, <3>2, <3>3 DEF ApuInv
  <2> QED BY <2>6, <2>7
<1>4. CASE ~powered
  <2> DEFINE e == tick_powered_off_timebase(ch)
  <2>1. ch' = e /\ past' = past
    BY <1>4 DEF Tick
  <2>2. /\ DOMAIN e = DOMAIN ch /\ e.counter = ch.counter /\ e.enabled = ch.enabled
        /\ e.active = ch.active /\ e.nrx4 = ch.nrx4 /\ e.nrx2 = ch.nrx2 /\ e.env = ch.env
        /\ e.sweep = ch.sweep /\ e.period = ch.period /\ e.nr10 = ch.nr10
    BY DEF tick_powered_off_timebase
  <2>3. DOMAIN e.noise = DOMAIN ch.noise /\ e.noise.delayed = ch.noise.delayed
    BY <1>1 DEF tick_powered_off_timebase, Formed, ChannelFields, NoiseFields
  <2> HIDE DEF e
  <2>4. Formed(e)
    BY <1>1, <2>2, <2>3 DEF Formed
  <2>5. Shape'
    BY <1>1, <2>1, <2>3, <2>4 DEF Shape
  <2>6. NoteInv' /\ PaceInv' /\ SweepInv'
    BY <1>1, <2>1, <2>2 DEF ApuInv, NoteInv, PaceInv, SweepInv
  <2> QED BY <2>5, <2>6 DEF ApuInv
<1> QED BY <1>3, <1>4

LEMMA RiseKeeps == ASSUME ApuInv, SignalRises PROVE ApuInv'
BY DEF ApuInv, Shape, NoteInv, PaceInv, SweepInv, LateStart, SignalRises

LEMMA EdgeKeeps == ASSUME ApuInv, FrameSequencerEdge PROVE ApuInv'
<1>1. /\ <<model, kind>> \in Channels /\ Formed(ch) /\ PastFields \subseteq DOMAIN past
      /\ (ch.noise.delayed # 0 => LateStart)
      /\ model' = model /\ kind' = kind /\ (LateStart' <=> LateStart)
  BY DEF ApuInv, Shape, FrameSequencerEdge, LateStart
<1>2. model \in {"DMG", "CGB"}
  BY <1>1, InputFacts
<1>3. CASE skip \/ ~powered
  <2>1. ch' = ch /\ past' = past
    BY <1>3 DEF FrameSequencerEdge
  <2> QED BY <1>1, <2>1 DEF ApuInv, Shape, NoteInv, PaceInv, SweepInv
<1>4. CASE ~(skip \/ ~powered)
  <2> DEFINE d == clock_channel(ch)
             clocks == IF step_clocks_envelope(step) /\ past.calm /\ ch.env.pace # 0
                       THEN past.clocks + 1 ELSE past.clocks
             since == IF step_clocks_length(step) /\ ch.nrx4 /\ ch.active
                         /\ past.since < LengthReload
                      THEN past.since + 1 ELSE past.since
  <2>1. ch' = d /\ past' = PastEdge
    BY <1>4 DEF FrameSequencerEdge
  <2>2. /\ PastFields \subseteq DOMAIN past' /\ past'.since = since /\ past'.clocks = clocks
        /\ past'.early = past.early /\ past'.calm = past.calm
    BY <1>1, <2>1 DEF PastEdge, PastFields
  <2>3. past'.steady => past.steady /\ SweepAtRest(ch)
    BY <1>1, <2>1 DEF PastEdge, PastFields
  <2>4. /\ Formed(d) /\ d.nrx4 = ch.nrx4 /\ d.nrx2 = ch.nrx2 /\ d.nr10 = ch.nr10
        /\ d.noise = ch.noise /\ d.enabled = ch.enabled
        /\ d.active => ch.active /\ d.counter # 0
        /\ d.counter = IF step_clocks_length(step) /\ ch.enabled /\ ch.counter # 0
                       THEN ch.counter - 1 ELSE ch.counter
        /\ d.env = ClockedEnvelope(ch.env)
        /\ kind = "sweep" /\ model = "CGB" /\ ch.sweep.shadow = ch.period =>
              d.sweep.shadow = d.period
        /\ /\ kind = "sweep" /\ model = "DMG" /\ ch.nr10.shift # 0
           /\ ch.sweep.rc.countdown = 0 /\ ch.sweep.restart = 0 /\ ch.sweep.rc.reload = 0
           /\ NextSumFits(ch.sweep, ch.period, ch.nr10, ch.active)
           => NextSumFits(d.sweep, d.period, d.nr10, d.active)
    BY <1>1, <1>2, ClockChannelFacts DEF ApuInv, NoteInv
  <2> HIDE DEF d
  <2>5. Shape'
    BY <1>1, <2>1, <2>2, <2>4 DEF Shape
  <2>6. NoteInv'
    <3>1. /\ ch.counter \in 0..LengthReload /\ past.since \in 0..LengthReload
          /\ ch.active => ch.counter # 0
          /\ ch.enabled => ch.counter + past.since <= LengthReload
          /\ ~LateStart => (ch.enabled <=> ch.nrx4)
      BY DEF ApuInv, NoteInv
    <3>2. since \in 0..LengthReload /\ since \in {past.since, past.since + 1}
      BY <3>1, UnitsAssumption
    <3>3. d.counter \in 0..LengthReload
      BY <2>4, <3>1, UnitsAssumption
    <3>4. d.enabled => d.counter + since <= LengthReload
      BY <2>4, <3>1, <3>2, UnitsAssumption
    <3> HIDE DEF since
    <3> QED BY <1>1, <2>1, <2>2, <2>4, <3>1, <3>2, <3>3, <3>4 DEF NoteInv
  <2>7. PaceInv'
    <3>1. ch.nrx2 \in Volumes /\ past.clocks \in Nat
      BY DEF ApuInv, PaceInv
    <3>2. ASSUME past.calm, kind # "wave" PROVE Paced(d.env, clocks, past.early)
      <4>1. Paced(ch.env, past.clocks, past.early)
        BY <3>2 DEF ApuInv, PaceInv
      <4>2. ~ch.env.pending
        BY <4>1 DEF Paced
      <4>3. ClockedEnvelope(ch.env) = IF step_clocks_envelope(step)
                                      THEN clock_envelope(ch.env) ELSE ch.env
        BY <4>2 DEF ClockedEnvelope, clock_pending_even_tick
      <4>4. Paced(clock_envelope(ch.env),
                  IF ch.env.pace # 0 THEN past.clocks + 1 ELSE past.clocks, past.early)
        BY <1>1, <3>1, <4>1, ClockPaced DEF Formed
      <4>5. CASE step_clocks_envelope(step)
        BY <2>4, <3>2, <4>3, <4>4, <4>5
      <4>6. CASE ~step_clocks_envelope(step)
        BY <2>4, <4>1, <4>3, <4>6
      <4> QED BY <4>5, <4>6
    <3>3. clocks \in Nat
      BY <3>1
    <3> HIDE DEF clocks
    <3> QED BY <1>1, <2>1, <2>2, <2>4, <3>1, <3>2, <3>3 DEF PaceInv
  <2>8. SweepInv'
    <3>1. ASSUME past'.steady, kind = "sweep", model = "DMG", ch.nr10.shift # 0
          PROVE  /\ ch.sweep.rc.countdown = 0 /\ ch.sweep.restart = 0
                 /\ ch.sweep.rc.reload = 0
      BY <2>3, <3>1 DEF SweepAtRest
    <3> QED BY <1>1, <2>1, <2>3, <2>4, <3>1 DEF ApuInv, SweepInv
  <2> QED BY <2>5, <2>6, <2>7, <2>8 DEF ApuInv
<1> QED BY <1>3, <1>4

LEMMA WriteLengthKeeps == ASSUME ApuInv, WriteLength PROVE ApuInv'
<1>1. /\ <<model, kind>> \in Channels /\ Formed(ch) /\ PastFields \subseteq DOMAIN past
      /\ (ch.noise.delayed # 0 => LateStart)
      /\ model' = model /\ kind' = kind /\ (LateStart' <=> LateStart)
  BY DEF ApuInv, Shape, WriteLength, CpuWrites, LateStart
<1>2. PICK n \in LengthLoads[kind] : /\ ch' = [ch EXCEPT !.counter = n]
                                     /\ past' = [past EXCEPT !.since = 0]
  BY DEF WriteLength
<1>3. n \in 1..LengthReload
  BY <1>1, InputFacts
<1>4. /\ DOMAIN ch' = DOMAIN ch /\ ch'.counter = n /\ ch'.enabled = ch.enabled
      /\ ch'.active = ch.active /\ ch'.nrx4 = ch.nrx4 /\ ch'.nrx2 = ch.nrx2
      /\ ch'.env = ch.env /\ ch'.sweep = ch.sweep /\ ch'.period = ch.period
      /\ ch'.nr10 = ch.nr10 /\ ch'.noise = ch.noise
  BY <1>1, <1>2 DEF Formed, ChannelFields
<1>5. /\ PastFields \subseteq DOMAIN past' /\ past'.since = 0 /\ past'.clocks = past.clocks
      /\ past'.early = past.early /\ past'.calm = past.calm /\ past'.steady = past.steady
  BY <1>1, <1>2 DEF PastFields
<1>6. Shape'
  <2>1. Formed(ch')
    BY <1>1, <1>4 DEF Formed
  <2> QED BY <1>1, <1>4, <1>5, <2>1 DEF Shape, Formed
<1>7. NoteInv'
  BY <1>1, <1>3, <1>4, <1>5, UnitsAssumption DEF ApuInv, NoteInv
<1>8. PaceInv' /\ SweepInv'
  BY <1>1, <1>4, <1>5 DEF ApuInv, PaceInv, SweepInv
<1> QED BY <1>6, <1>7, <1>8 DEF ApuInv

LEMMA WriteVolumeKeeps == ASSUME ApuInv, WriteVolume PROVE ApuInv'
<1>1. /\ <<model, kind>> \in Channels /\ Formed(ch) /\ PastFields \subseteq DOMAIN past
      /\ (ch.noise.delayed # 0 => LateStart)
      /\ model' = model /\ kind' = kind /\ (LateStart' <=> LateStart)
  BY DEF ApuInv, Shape, WriteVolume, CpuWrites, LateStart
<1>2. PICK v \in Nrx2Values[kind] :
        /\ ch' = write_nrx2(ch, v)
        /\ past' = [past EXCEPT !.calm = FALSE, !.clocks = 0, !.early = FALSE]
  BY DEF WriteVolume
<1>3. v \in Volumes
  BY <1>1, InputFacts
<1>4. /\ Formed(ch') /\ (ch'.active => ch.active)
      /\ ch'.counter = ch.counter /\ ch'.enabled = ch.enabled /\ ch'.nrx4 = ch.nrx4
      /\ ch'.noise = ch.noise /\ ch'.nr10 = ch.nr10 /\ ch'.period = ch.period
      /\ ch'.sweep = ch.sweep /\ ch'.nrx2 \in {v, ch.nrx2}
  BY <1>1, <1>2, WriteVolumeFacts
<1>5. /\ PastFields \subseteq DOMAIN past' /\ past'.since = past.since /\ past'.clocks = 0
      /\ ~past'.calm /\ past'.steady = past.steady
  BY <1>1, <1>2 DEF PastFields
<1>6. Shape'
  BY <1>1, <1>4, <1>5 DEF Shape
<1>7. NoteInv'
  BY <1>1, <1>4, <1>5 DEF ApuInv, NoteInv
<1>8. PaceInv'
  BY <1>3, <1>4, <1>5 DEF ApuInv, PaceInv
<1>9. SweepInv'
  BY <1>1, <1>4, <1>5 DEF ApuInv, SweepInv, NextSumFits
<1> QED BY <1>6, <1>7, <1>8, <1>9 DEF ApuInv

LEMMA WriteSweepKeeps == ASSUME ApuInv, WriteSweep PROVE ApuInv'
<1>1. /\ <<model, kind>> \in Channels /\ Formed(ch) /\ PastFields \subseteq DOMAIN past
      /\ (ch.noise.delayed # 0 => LateStart)
      /\ model' = model /\ kind' = kind /\ (LateStart' <=> LateStart)
  BY DEF ApuInv, Shape, WriteSweep, CpuWrites, LateStart
<1>2. PICK v \in Nr10Values :
        /\ ch' = WithSweep(ch, write_nr10(SweepOf(ch), v, model))
        /\ past' = [past EXCEPT !.steady = FALSE]
  BY DEF WriteSweep
<1>3. v \in Nr10s
  BY <1>1, InputFacts
<1> DEFINE s == write_nr10(SweepOf(ch), v, model)
<1>4. Follows(SweepOf(ch), s)
  BY <1>1, <1>3, SweepOfSound, WriteNr10Follows
<1> HIDE DEF s
<1>5. Formed(ch') /\ SameButSweep(ch, ch') /\ (ch'.active => ch.active)
  BY <1>1, <1>2, <1>4, WithSweepFacts DEF s
<1>6. /\ PastFields \subseteq DOMAIN past' /\ past'.since = past.since
      /\ past'.clocks = past.clocks /\ past'.early = past.early
      /\ past'.calm = past.calm /\ ~past'.steady
  BY <1>1, <1>2 DEF PastFields
<1>7. Shape'
  BY <1>1, <1>5, <1>6 DEF Shape, SameButSweep
<1>8. NoteInv'
  BY <1>1, <1>5, <1>6 DEF ApuInv, NoteInv, SameButSweep
<1>9. PaceInv' /\ SweepInv'
  BY <1>1, <1>5, <1>6 DEF ApuInv, PaceInv, SweepInv, SameButSweep
<1> QED BY <1>7, <1>8, <1>9 DEF ApuInv

LEMMA WritePeriodKeeps == ASSUME ApuInv, WritePeriodLow PROVE ApuInv'
<1>1. /\ <<model, kind>> \in Channels /\ Formed(ch) /\ PastFields \subseteq DOMAIN past
      /\ (ch.noise.delayed # 0 => LateStart)
      /\ model' = model /\ kind' = kind /\ (LateStart' <=> LateStart)
  BY DEF ApuInv, Shape, WritePeriodLow, CpuWrites, LateStart
<1>2. PICK low \in PeriodLows :
        /\ ch' = IF PeriodLocked(SweepOf(ch)) THEN ch
                 ELSE [ch EXCEPT !.period = (@ - (@ % PeriodLow)) + low]
        /\ past' = [past EXCEPT !.steady = FALSE]
  BY DEF WritePeriodLow
<1> DEFINE p == (ch.period - (ch.period % PeriodLow)) + low
<1>3. p \in Nat
  <2>1. PeriodLow \in Nat /\ PeriodLow > 0 /\ low \in Nat /\ ch.period \in Nat
    BY <1>1, ApuAssumption DEF Formed
  <2>2. ch.period % PeriodLow \in Nat /\ ch.period % PeriodLow <= ch.period
    <3> DEFINE q == ch.period \div PeriodLow
               r == ch.period % PeriodLow
    <3>1. q \in Nat /\ r \in Nat /\ ch.period = PeriodLow * q + r
      BY <2>1
    <3>2. PeriodLow * q \in Nat
      BY <2>1, <3>1, SMTT(30)
    <3> HIDE DEF q, r
    <3>3. r \in Nat /\ r <= ch.period
      BY <2>1, <3>1, <3>2
    <3> QED BY <3>3 DEF r
  <2> QED BY <2>1, <2>2
<1>4. /\ DOMAIN ch' = DOMAIN ch /\ SameButSweep(ch, ch') /\ ch'.active = ch.active
      /\ ch'.sweep = ch.sweep /\ ch'.nr10 = ch.nr10
  BY <1>2 DEF SameButSweep
<1>5. ch'.period \in {ch.period, p}
  BY <1>1, <1>2 DEF Formed, ChannelFields
<1> HIDE DEF p
<1>6. Formed(ch')
  BY <1>1, <1>3, <1>4, <1>5 DEF Formed, SameButSweep
<1>7. /\ PastFields \subseteq DOMAIN past' /\ past'.since = past.since
      /\ past'.clocks = past.clocks /\ past'.early = past.early
      /\ past'.calm = past.calm /\ ~past'.steady
  BY <1>1, <1>2 DEF PastFields
<1>8. Shape'
  BY <1>1, <1>4, <1>6, <1>7 DEF Shape, SameButSweep
<1>9. NoteInv'
  BY <1>1, <1>4, <1>7 DEF ApuInv, NoteInv, SameButSweep
<1>10. PaceInv' /\ SweepInv'
  BY <1>1, <1>4, <1>7 DEF ApuInv, PaceInv, SweepInv, SameButSweep
<1> QED BY <1>8, <1>9, <1>10 DEF ApuInv

LEMMA WriteControlKeeps == ASSUME ApuInv, WriteControl PROVE ApuInv'
<1>1. /\ <<model, kind>> \in Channels /\ Formed(ch) /\ PastFields \subseteq DOMAIN past
      /\ (ch.noise.delayed # 0 => LateStart)
      /\ model' = model /\ kind' = kind /\ (LateStart' <=> LateStart)
  BY DEF ApuInv, Shape, WriteControl, CpuWrites, LateStart
<1> DEFINE now(trig) == trig /\ ~delayed_dmg_trigger(ch)
           next == step_clocks_envelope(effective_frame_sequencer_step)
<1>2. PICK trig \in BOOLEAN, bit \in LengthBits[kind],
           high \in 0..(((PeriodMax + 1) \div PeriodLow) - 1) :
        /\ ch' = write_nrx4(ch, trig, bit, high)
        /\ past' = [past EXCEPT
                      !.since = 0,
                      !.triggered = @ \/ trig,
                      !.clocks = IF now(trig) THEN 0 ELSE @,
                      !.early = IF now(trig) THEN next ELSE @,
                      !.calm = @ \/ now(trig),
                      !.steady = IF trig THEN SweepAtRest(ch) ELSE FALSE]
  BY DEF WriteControl
<1>3. bit \in BOOLEAN /\ high \in Nat
  BY <1>1, InputFacts
<1>4. ch.counter \in 0..LengthReload /\ (ch.active => ch.counter # 0)
  BY DEF ApuInv, NoteInv
<1>5. Controlled(ch, ch', trig, bit)
  BY <1>1, <1>2, <1>3, <1>4, WriteControlFacts
<1> DEFINE n == now(trig)
<1> HIDE DEF next, now
<1>6. /\ PastFields \subseteq DOMAIN past' /\ past'.since = 0
      /\ past'.clocks = (IF n THEN 0 ELSE past.clocks)
      /\ past'.early = (IF n THEN next ELSE past.early)
  BY <1>1, <1>2 DEF PastFields
<1>7. past'.calm => past.calm \/ n
  BY <1>1, <1>2 DEF PastFields
<1>8. past'.steady => trig /\ SweepAtRest(ch)
  BY <1>1, <1>2 DEF PastFields
<1>9. n <=> (trig /\ ~delayed_dmg_trigger(ch))
  BY DEF now
<1> HIDE DEF n
<1>10. Shape'
  BY <1>1, <1>5, <1>6 DEF Shape, Controlled
<1>11. NoteInv'
  <2>1. /\ ch'.enabled = bit /\ ch'.nrx4 = bit
        /\ ch'.counter \in 0..LengthReload /\ (ch'.active => ch'.counter # 0)
    BY <1>5 DEF Controlled
  <2>2. ch'.counter + 0 <= LengthReload /\ 0 \in 0..LengthReload
    BY <2>1, UnitsAssumption
  <2> QED BY <1>6, <2>1, <2>2 DEF NoteInv
<1>12. PaceInv'
  <2>1. /\ ch'.nrx2 = ch.nrx2 /\ ch.nrx2 \in Volumes /\ past.clocks \in Nat
        /\ ch'.env = IF n THEN reload(apply_envelope_write(ch.env, ch.nrx2), next) ELSE ch.env
    BY <1>5, <1>9 DEF Controlled, ApuInv, PaceInv, next
  <2>2. CASE n
    <3>1. Paced(ch'.env, 0, next)
      BY <1>1, <2>1, <2>2, ReloadPaced DEF Formed
    <3> QED BY <1>6, <2>1, <2>2, <3>1 DEF PaceInv
  <2>3. CASE ~n
    BY <1>1, <1>6, <1>7, <2>1, <2>3 DEF ApuInv, PaceInv
  <2> QED BY <2>2, <2>3
<1>13. SweepInv'
  <2> SUFFICES ASSUME past'.steady, kind = "sweep"
               PROVE  /\ model = "CGB" => ch'.sweep.shadow = ch'.period
                      /\ model = "DMG" /\ ch'.nr10.shift # 0 =>
                            NextSumFits(ch'.sweep, ch'.period, ch'.nr10, ch'.active)
    BY <1>1 DEF SweepInv
  <2>1. /\ model = "CGB" => ch'.sweep.shadow = ch'.period
        /\ model = "DMG" =>
              /\ ~ch'.sweep.rc.instant /\ ch'.sweep.rc.reload = ch.sweep.rc.reload
              /\ ch'.nr10.shift # 0 => ch'.sweep.rc.countdown = ch'.nr10.shift
    BY <1>5, <1>8 DEF Controlled
  <2>2. ch.sweep.rc.reload = 0
    BY <1>8 DEF SweepAtRest
  <2> QED BY <2>1, <2>2 DEF NextSumFits
<1> QED BY <1>10, <1>11, <1>12, <1>13 DEF ApuInv

LEMMA PowerKeeps == ASSUME ApuInv, PowerOn \/ PowerOff PROVE ApuInv'
<1>1. /\ <<model, kind>> \in Channels /\ Formed(ch) /\ PastFields \subseteq DOMAIN past
      /\ (ch.noise.delayed # 0 => LateStart)
      /\ model' = model /\ kind' = kind /\ (LateStart' <=> LateStart)
  BY DEF ApuInv, Shape, PowerOn, PowerOff, CpuWrites, LateStart
<1>2. CASE PowerOn
  <2>1. ch' = mark_powered_on(ch) /\ past' = past
    BY <1>2 DEF PowerOn
  <2>2. /\ DOMAIN ch' = DOMAIN ch /\ ch'.counter = ch.counter /\ ch'.enabled = ch.enabled
        /\ ch'.active = ch.active /\ ch'.nrx4 = ch.nrx4 /\ ch'.nrx2 = ch.nrx2
        /\ ch'.env = ch.env /\ ch'.sweep = ch.sweep /\ ch'.period = ch.period
        /\ ch'.nr10 = ch.nr10
    BY <2>1 DEF mark_powered_on
  <2>3. NoiseFields \subseteq DOMAIN ch'.noise /\ ch'.noise.delayed = 0
    BY <1>1, <2>1 DEF mark_powered_on, Formed, ChannelFields, NoiseFields, AlignedNoise
  <2>4. Formed(ch')
    BY <1>1, <2>2, <2>3 DEF Formed
  <2>5. Shape'
    BY <1>1, <2>1, <2>3, <2>4 DEF Shape
  <2>6. NoteInv' /\ PaceInv' /\ SweepInv'
    BY <1>1, <2>1, <2>2 DEF ApuInv, NoteInv, PaceInv, SweepInv
  <2> QED BY <2>5, <2>6 DEF ApuInv
<1>3. CASE PowerOff
  <2> DEFINE n == IF model = "DMG" THEN ch.counter ELSE 0
  <2>1. ch' = ClearedChannel(n) /\ past' = NoPast
    BY <1>3 DEF PowerOff, power_off_registers
  <2>2. n \in 0..LengthReload
    BY UnitsAssumption DEF ApuInv, NoteInv
  <2> HIDE DEF n
  <2>3. /\ Formed(ch') /\ ch'.counter = n /\ ~ch'.active /\ ~ch'.enabled /\ ~ch'.nrx4
        /\ ch'.noise.delayed = 0 /\ ch'.nrx2 \in Volumes
    BY <2>1, ClearedFormed
  <2>4. /\ PastFields \subseteq DOMAIN past' /\ past'.since = 0 /\ past'.clocks = 0
        /\ ~past'.calm /\ ~past'.steady
    BY <2>1 DEF NoPast, PastFields
  <2>5. 0 \in 0..LengthReload
    BY UnitsAssumption
  <2> QED BY <1>1, <2>2, <2>3, <2>4, <2>5 DEF ApuInv, Shape, NoteInv, PaceInv, SweepInv
<1> QED BY <1>2, <1>3

-----------------------------------------------------------------------------
(* Theorems.                                                               *)

LEMMA NextApu == ASSUME ApuInv, [Next]_vars PROVE ApuInv'
<1>1. CASE Tick BY <1>1, TickKeeps
<1>2. CASE SignalRises BY <1>2, RiseKeeps
<1>3. CASE FrameSequencerEdge BY <1>3, EdgeKeeps
<1>4. CASE WriteLength BY <1>4, WriteLengthKeeps
<1>5. CASE WriteVolume BY <1>5, WriteVolumeKeeps
<1>6. CASE WriteSweep BY <1>6, WriteSweepKeeps
<1>7. CASE WritePeriodLow BY <1>7, WritePeriodKeeps
<1>8. CASE WriteControl BY <1>8, WriteControlKeeps
<1>9. CASE PowerOn \/ PowerOff BY <1>9, PowerKeeps
<1>10. CASE UNCHANGED vars
  BY <1>10 DEF vars, ApuInv, Shape, NoteInv, PaceInv, SweepInv, LateStart
<1> QED BY <1>1, <1>2, <1>3, <1>4, <1>5, <1>6, <1>7, <1>8, <1>9, <1>10 DEF Next

(* The sound unit keeps its records whole, its length unit in step with    *)
(* NRx4, its envelope on pace and its sweep ahead of every overflow,       *)
(* through any sequence of ticks, divider edges, register writes and power *)
(* cycles (apu/common.rs, apu/channels).                                   *)
THEOREM ApuInvariant == Spec => []ApuInv
<1>1. Init => ApuInv
  BY InitApu
<1>2. ApuInv /\ [Next]_vars => ApuInv'
  BY NextApu
<1> QED BY <1>1, <1>2, PTL DEF Spec

(* A note whose length is enabled ends: the channel never sounds through   *)
(* as many length clocks as a full counter holds without a write to NRx1   *)
(* or NRx4 in between (clock_length_counter, apply_extra_length_clocking,  *)
(* reload_zero_length).                                                    *)
THEOREM NoteAlwaysEndsInTime == Spec => []NoteEndsInTime
<1>1. ApuInv => NoteEndsInTime
  <2> SUFFICES ASSUME ApuInv, ch.active, LengthAsked PROVE past.since < LengthReload
    BY DEF NoteEndsInTime
  <2>1. /\ ch.counter \in 0..LengthReload /\ past.since \in 0..LengthReload
        /\ ch.counter # 0
        /\ ch.enabled => ch.counter + past.since <= LengthReload
        /\ ~LateStart => (ch.enabled <=> ch.nrx4)
    BY DEF ApuInv, NoteInv
  <2>2. ch.enabled
    BY <2>1 DEF LengthAsked, LateStart
  <2> QED BY <2>1, <2>2, UnitsAssumption
<1> QED BY <1>1, ApuInvariant, PTL

(* Since a trigger, with NRx2 left alone, the volume has moved by one for  *)
(* every pace envelope clocks that count, up to the limit (reload,         *)
(* clock_envelope_unit).                                                   *)
THEOREM EnvelopeAlwaysKeepsPace == Spec => []EnvelopeKeepsPace
<1>1. ApuInv => EnvelopeKeepsPace
  <2> SUFFICES ASSUME ApuInv, past.calm, kind # "wave"
               PROVE  LET e == ch.env
                          moves == IF e.pace = 0 THEN 0
                                   ELSE Counted(past.clocks, past.early) \div e.pace
                      IN  e.volume = VolumeAfter(e, moves)
    BY DEF EnvelopeKeepsPace, Counted, VolumeAfter, Limit
  <2> DEFINE e == ch.env
  <2>1. Paced(e, past.clocks, past.early)
    BY DEF ApuInv, PaceInv
  <2> HIDE DEF e
  <2>2. e.pace = 0 => VolumeAfter(e, 0) = e.initial
    BY <2>1, UnitsAssumption DEF Paced, VolumeAfter, Limit
  <2>3. /\ e.pace = 0 => e.volume = e.initial
        /\ e.pace # 0 =>
              e.volume = VolumeAfter(e, Counted(past.clocks, past.early) \div e.pace)
    BY <2>1 DEF Paced
  <2> QED BY <2>2, <2>3 DEF e
<1> QED BY <1>1, ApuInvariant, PTL

(* A rising sweep never wraps: left alone since its trigger, with every    *)
(* divider edge on a unit at rest, no step of the frame sequencer lowers   *)
(* the period of a sounding channel (period_sweep_recalculation_done,      *)
(* tick_delayed_calculation, fire_sweep_boundary).                         *)
THEOREM SweepAlwaysStaysInRange == Spec => SweepNeverWraps
<1> DEFINE A == FrameSequencerEdge /\ past.steady /\ past'.steady /\ ch.active
                  /\ ~ch.nr10.decrease => ch'.period >= ch.period
<1>1. ApuInv /\ [Next]_vars => [A]_vars
  <2> SUFFICES ASSUME ApuInv, FrameSequencerEdge, past.steady, past'.steady, ch.active,
                      ~ch.nr10.decrease
               PROVE  ch'.period >= ch.period
    OBVIOUS
  <2>1. /\ <<model, kind>> \in Channels /\ Formed(ch) /\ PastFields \subseteq DOMAIN past
        /\ ch.period \in Nat
    BY DEF ApuInv, Shape, Formed
  <2>2. model \in {"DMG", "CGB"}
    BY <2>1, InputFacts
  <2>3. CASE skip \/ ~powered
    <3>1. ch' = ch
      BY <2>3 DEF FrameSequencerEdge
    <3> QED BY <2>1, <3>1
  <2>4. CASE ~(skip \/ ~powered)
    <3> DEFINE d == clock_channel(ch)
    <3>1. ch' = d /\ past' = PastEdge
      BY <2>4 DEF FrameSequencerEdge
    <3>2. SweepAtRest(ch)
      BY <2>1, <3>1 DEF PastEdge, PastFields
    <3>3. /\ kind # "sweep" => d.period = ch.period
          /\ kind = "sweep" /\ model = "CGB" /\ ch.sweep.shadow = ch.period =>
                d.period >= ch.period
          /\ kind = "sweep" /\ model = "DMG" /\ ch.nr10.shift = 0 => d.period = ch.period
          /\ /\ kind = "sweep" /\ model = "DMG" /\ ch.nr10.shift # 0
             /\ ch.sweep.rc.countdown = 0 /\ ch.sweep.restart = 0 /\ ch.sweep.rc.reload = 0
             /\ NextSumFits(ch.sweep, ch.period, ch.nr10, ch.active)
             => d.period >= ch.period
      BY <2>1, <2>2, ClockChannelFacts DEF ApuInv, NoteInv
    <3> HIDE DEF d
    <3>4. CASE kind # "sweep"
      <4>1. ch'.period = ch.period
        BY <3>1, <3>3, <3>4
      <4> QED BY <2>1, <4>1
    <3>5. CASE kind = "sweep" /\ model = "CGB"
      BY <3>1, <3>3, <3>5 DEF ApuInv, SweepInv
    <3>6. CASE kind = "sweep" /\ model = "DMG"
      <4>1. ch.nr10.shift # 0 =>
              /\ ch.sweep.rc.countdown = 0 /\ ch.sweep.restart = 0 /\ ch.sweep.rc.reload = 0
              /\ NextSumFits(ch.sweep, ch.period, ch.nr10, ch.active)
        BY <3>2, <3>6 DEF SweepAtRest, ApuInv, SweepInv
      <4>2. CASE ch.nr10.shift = 0
        <5>1. ch'.period = ch.period
          BY <3>1, <3>3, <3>6, <4>2
        <5> QED BY <2>1, <5>1
      <4>3. CASE ch.nr10.shift # 0
        BY <3>1, <3>3, <3>6, <4>1, <4>3
      <4> QED BY <4>2, <4>3
    <3> QED BY <2>2, <3>4, <3>5, <3>6
  <2> QED BY <2>3, <2>4
<1>2. Spec => [][A]_vars
  BY <1>1, ApuInvariant, PTL DEF Spec
<1> QED BY <1>2 DEF SweepNeverWraps
=============================================================================
