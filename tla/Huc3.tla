------------------------------- MODULE Huc3 -------------------------------
(* The HuC-3 clock controller (crates/gb-core/src/cartridge/huc3.rs): a      *)
(* mailbox of commands over a nibble memory.  Four triplets of that memory   *)
(* mirror the current time, the current day and the event's time and day;    *)
(* two more are the window through which a game reads and sets the time.     *)
(* A triplet is one cell here, written whole.                                *)
EXTENDS Integers

CONSTANTS
    MinutesPerDay,   \* 1440
    DayModulus,      \* 4096
    MinuteSeconds,   \* 60
    TripletValues    \* 4096, the values of three nibbles

ASSUME Huc3Units ==
    /\ MinutesPerDay \in Nat \ {0} /\ DayModulus \in Nat \ {0} /\ MinuteSeconds \in Nat \ {0}
    /\ TripletValues \in Nat \ {0} /\ DayModulus <= TripletValues

(* The triplets of the nibble memory, in address order. *)
IoMinutes == 0
IoDays == 1
CurMinutes == 2
CurDays == 3
EventMinutes == 4
EventDays == 5
Triplets == 0 .. 5

NewHuc3 ==
    [kind |-> "Huc3", select |-> "Ram", access_address |-> 0, command |-> 0, argument |-> 0,
     response |-> 0, mcu |-> [t \in Triplets |-> 0],
     minutes |-> 0, days |-> 0, seconds |-> 0, eminutes |-> 0, edays |-> 0]

rtc_cycle_minutes == DayModulus * MinutesPerDay
current_total_minutes(c) == (c.days * MinutesPerDay) + c.minutes
event_total_minutes(c) == (c.edays * MinutesPerDay) + c.eminutes
remaining_event_delta_minutes(c) ==
    (event_total_minutes(c) + rtc_cycle_minutes - current_total_minutes(c)) % rtc_cycle_minutes

sync_tracked_rtc_locations(c) ==
    [c EXCEPT !.mcu = [@ EXCEPT ![CurMinutes] = c.minutes, ![CurDays] = c.days,
                                ![EventMinutes] = c.eminutes, ![EventDays] = c.edays]]

set_event_total_minutes(c, total) ==
    [c EXCEPT !.edays = ((total % rtc_cycle_minutes) \div MinutesPerDay) % DayModulus,
              !.eminutes = (total % rtc_cycle_minutes) % MinutesPerDay]

\* Variant: a minute is carried only once a second of the next has begun.
advance_huc3_rtc_late(c, elapsed) ==
    LET total == c.seconds + elapsed
        moved == (current_total_minutes(c) + (IF total > MinuteSeconds THEN 1 ELSE 0))
                   % rtc_cycle_minutes
    IN  sync_tracked_rtc_locations(
            [c EXCEPT !.seconds = total % MinuteSeconds,
                      !.days = moved \div MinutesPerDay, !.minutes = moved % MinutesPerDay])

(* Time passes: seconds roll into minutes, minutes into days, mirrors follow. *)
advance_huc3_rtc(c, elapsed) ==
    LET total == c.seconds + elapsed
        moved == (current_total_minutes(c) + (total \div MinuteSeconds)) % rtc_cycle_minutes
    IN  sync_tracked_rtc_locations(
            [c EXCEPT !.seconds = total % MinuteSeconds,
                      !.days = moved \div MinutesPerDay, !.minutes = moved % MinutesPerDay])

(* A nibble write to a mirrored triplet takes the clock with it. *)
write_mcu(c, t, v) ==
    LET w == [c EXCEPT !.mcu[t] = v] IN
    CASE t \in {CurMinutes, CurDays} ->
            [w EXCEPT !.minutes = w.mcu[CurMinutes] % MinutesPerDay,
                      !.days = w.mcu[CurDays] % DayModulus, !.seconds = 0]
      [] t \in {EventMinutes, EventDays} ->
            [w EXCEPT !.eminutes = w.mcu[EventMinutes] % MinutesPerDay,
                      !.edays = w.mcu[EventDays] % DayModulus]
      [] OTHER -> w

copy_current_time_to_io_window(c) ==
    [c EXCEPT !.mcu[IoMinutes] = c.minutes, !.mcu[IoDays] = c.days]

(* Setting the clock moves the event so that it stays as far away as it was. *)
apply_io_window_current_time_preserving_event_delta(c) ==
    LET set == [c EXCEPT !.minutes = c.mcu[IoMinutes] % MinutesPerDay,
                         !.days = c.mcu[IoDays] % DayModulus, !.seconds = 0]
    IN  sync_tracked_rtc_locations(
            set_event_total_minutes(set,
                (current_total_minutes(set) + remaining_event_delta_minutes(c)) % rtc_cycle_minutes))

(* The command the semaphore write starts: 1 read and 3 write the cell at    *)
(* the access address and move on, 4 and 5 set the address, 6 extends.       *)
execute_mailbox_command(c) ==
    CASE c.command = 1 ->
            [c EXCEPT !.response = c.mcu[c.access_address], !.access_address = (@ + 1) % 6]
      [] c.command = 3 ->
            [write_mcu(c, c.access_address, c.argument) EXCEPT !.access_address = (@ + 1) % 6]
      [] c.command \in {4, 5} -> [c EXCEPT !.access_address = c.argument % 6]
      [] c.command = 6 /\ c.argument = 0 -> copy_current_time_to_io_window(c)
      [] c.command = 6 /\ c.argument = 1 ->
            apply_io_window_current_time_preserving_event_delta(c)
      [] c.command = 6 /\ c.argument = 2 -> [c EXCEPT !.response = 1]
      [] OTHER -> c

(* $0000-$1FFF selects what $A000 is; $A000 in the command and semaphore     *)
(* modes drives the mailbox.                                                 *)
huc3_write_select(c, mode) == [c EXCEPT !.select = mode]
huc3_write_ram(c, command, argument) ==
    CASE c.select = "Command" -> [c EXCEPT !.command = command, !.argument = argument]
      [] c.select = "Semaphore" -> execute_mailbox_command(c)
      [] OTHER -> c

huc3_persistent_state(c) == [kind |-> "Huc3", cart |-> c]
(* Restoring normalises the clock and rewrites the mirrors from it. *)
huc3_restore(c, s) ==
    sync_tracked_rtc_locations(
        [s.cart EXCEPT !.minutes = @ % MinutesPerDay, !.days = @ % DayModulus,
                       !.seconds = @ % MinuteSeconds,
                       !.eminutes = @ % MinutesPerDay, !.edays = @ % DayModulus])
=============================================================================
