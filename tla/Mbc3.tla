------------------------------- MODULE Mbc3 -------------------------------
(* The MBC3 clock (crates/gb-core/src/cartridge/mbc3.rs and persist.rs):     *)
(* live counters, the latched snapshot a game reads, the selector of the     *)
(* $A000 window and the two ways time is added - clock ticks of the running  *)
(* machine and whole seconds in bulk (a save loaded after a while).          *)
(*                                                                           *)
(* Each counter wraps after its unit (60, 60, 24) with a carry into the next *)
(* and after its register width (64, 64, 32) without one: a game may store   *)
(* 60..63.  Units and widths are parameters, index 1 seconds, 2 minutes,     *)
(* 3 hours.                                                                  *)
EXTENDS Integers, Sequences

CONSTANTS
    Unit,            \* <<60, 60, 24>>
    Width,           \* <<64, 64, 32>>
    DayCount,        \* 512
    TicksPerSecond   \* 32768

ASSUME ClockUnits ==
    /\ Unit \in [1 .. 3 -> Nat \ {0, 1}] /\ Width \in [1 .. 3 -> Nat]
    /\ \A i \in 1 .. 3 : Unit[i] <= Width[i]
    /\ DayCount \in Nat \ {0} /\ DayCount % 2 = 0
    /\ TicksPerSecond \in Nat \ {0}

ZeroClock == [time |-> [i \in 1 .. 3 |-> 0], day |-> 0, halt |-> FALSE, carry |-> FALSE]

(* DayHigh is the top half of the day counter with halt and carry. *)
RtcRegisters == {"Seconds", "Minutes", "Hours", "DayLow", "DayHigh"}
FieldOf == [Seconds |-> 1, Minutes |-> 2, Hours |-> 3]

NewMbc3 ==
    [kind |-> "Mbc3", ram_rtc_enabled |-> FALSE, select |-> "Ram", ram |-> 0,
     rtc_live |-> ZeroClock, rtc_latched |-> ZeroClock, rtc_latched_valid |-> FALSE,
     rtc_latch_armed |-> FALSE, rtc_subsecond_ticks |-> 0]

mbc3_rtc_fields_are_canonical(r) == \A i \in 1 .. 3 : r.time[i] < Unit[i]

(* One more day: the ninth bit overflows into the sticky carry. *)
mbc3_rtc_tick_one_day(r) ==
    [r EXCEPT !.day = (@ + 1) % DayCount, !.carry = @ \/ r.day + 1 = DayCount]

(* One more hour, minute or second: at the unit the next counter moves. *)
mbc3_rtc_tick_one_hour(r) ==
    LET next == [r EXCEPT !.time[3] = IF @ = Unit[3] - 1 THEN 0 ELSE (@ + 1) % Width[3]]
    IN  IF r.time[3] = Unit[3] - 1 THEN mbc3_rtc_tick_one_day(next) ELSE next
mbc3_rtc_tick_one_minute(r) ==
    LET next == [r EXCEPT !.time[2] = IF @ = Unit[2] - 1 THEN 0 ELSE (@ + 1) % Width[2]]
    IN  IF r.time[2] = Unit[2] - 1 THEN mbc3_rtc_tick_one_hour(next) ELSE next
mbc3_rtc_tick_one_second(r) ==
    LET next == [r EXCEPT !.time[1] = IF @ = Unit[1] - 1 THEN 0 ELSE (@ + 1) % Width[1]]
    IN  IF r.time[1] = Unit[1] - 1 THEN mbc3_rtc_tick_one_minute(next) ELSE next

(* The clock after each number of single ticks up to n. *)
Ticked(r, n) ==
    LET after[k \in 0 .. n] == IF k = 0 THEN r ELSE mbc3_rtc_tick_one_second(after[k - 1])
    IN  after

(* The closed form for a clock whose counters are all in range. *)
AddSeconds(r, n) ==
    LET perHour == Unit[1] * Unit[2]
        perDay == perHour * Unit[3]
        total == (r.day * perDay) + (r.time[3] * perHour) + (r.time[2] * Unit[1]) + r.time[1] + n
        rest == total % perDay
    IN  [r EXCEPT !.carry = @ \/ total \div perDay > DayCount - 1,
                  !.day = (total \div perDay) % DayCount,
                  !.time = <<rest % Unit[1], (rest % perHour) \div Unit[1], rest \div perHour>>]

\* Variant: jump at once, whatever the counters hold.
advance_by_total_only(r, n) == IF r.halt \/ n = 0 THEN r ELSE AddSeconds(r, n)

(* Bulk time: tick out of any stored out-of-range value, then jump. *)
advance_mbc3_rtc_fields(r, n) ==
    IF r.halt \/ n = 0 THEN r
    ELSE LET after == Ticked(r, n)
             used == CHOOSE k \in 0 .. n :
                        /\ k = n \/ mbc3_rtc_fields_are_canonical(after[k])
                        /\ \A j \in 0 .. (k - 1) : ~mbc3_rtc_fields_are_canonical(after[j])
         IN  IF used = n THEN after[n] ELSE AddSeconds(after[used], n - used)

(* The running machine's clock: whole seconds come out of the tick count. *)
advance_rtc_clock_ticks(c, ticks) ==
    IF c.rtc_live.halt \/ ticks = 0 THEN c
    ELSE LET total == c.rtc_subsecond_ticks + ticks IN
         [c EXCEPT !.rtc_subsecond_ticks = total % TicksPerSecond,
                   !.rtc_live = advance_mbc3_rtc_fields(@, total \div TicksPerSecond)]

mbc3_write_enable(c, enable) == [c EXCEPT !.ram_rtc_enabled = enable]
mbc3_write_select(c, target) == [c EXCEPT !.select = target]

(* $6000-$7FFF: the first latch needs 0 then 1; afterwards any non-zero      *)
(* write latches again.                                                      *)
latch_rtc_if_needed(c, value) ==
    IF value = 0 THEN [c EXCEPT !.rtc_latch_armed = TRUE]
    ELSE LET armed == [c EXCEPT !.rtc_latch_armed = FALSE] IN
         IF (c.rtc_latch_armed /\ value = 1) \/ c.rtc_latched_valid
         THEN [armed EXCEPT !.rtc_latched = c.rtc_live, !.rtc_latched_valid = TRUE]
         ELSE armed

(* A write through the $A000 window: RAM, a reserved selector, or the live   *)
(* register; storing seconds also restarts the second in progress.           *)
mbc3_write_ram(c, v, halt) ==
    CASE ~c.ram_rtc_enabled -> c
      [] c.ram_rtc_enabled /\ c.select = "Ram" -> [c EXCEPT !.ram = v]
      [] c.ram_rtc_enabled /\ c.select \in DOMAIN FieldOf ->
            [c EXCEPT !.rtc_live.time[FieldOf[c.select]] = v % Width[FieldOf[c.select]],
                      !.rtc_subsecond_ticks = IF c.select = "Seconds" THEN 0 ELSE @]
      [] c.ram_rtc_enabled /\ c.select = "DayLow" ->
            [c EXCEPT !.rtc_live.day = (DayCount \div 2) * (@ \div (DayCount \div 2))
                                        + (v % (DayCount \div 2))]
      [] c.ram_rtc_enabled /\ c.select = "DayHigh" ->
            [c EXCEPT !.rtc_live.day = (@ % (DayCount \div 2)) + ((v % 2) * (DayCount \div 2)),
                      !.rtc_live.halt = halt, !.rtc_live.carry = v >= 2]
      [] OTHER -> c

mbc3_persistent_state(c) == [kind |-> "Mbc3RamRtc", ram |-> c.ram, rtc |-> c.rtc_live]

(* A restored clock has no snapshot, no armed latch and no part second. *)
mbc3_restore(c, s) ==
    [c EXCEPT !.ram = s.ram, !.rtc_live = s.rtc, !.rtc_latched = ZeroClock,
              !.rtc_latched_valid = FALSE, !.rtc_latch_armed = FALSE, !.rtc_subsecond_ticks = 0]
=============================================================================
