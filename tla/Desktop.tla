------------------------------- MODULE Desktop ------------------------------
(***************************************************************************)
(* The desktop frontend around one cartridge with a battery: the save      *)
(* session (save_session.rs), the host clock feeding the cartridge clock   *)
(* (timing.rs), the rewind buffer and the state slot, and the menu actions *)
(* that replace the running machine or its external port (controls.rs,     *)
(* presentation.rs, session.rs, dialogs.rs), over the files of SaveFile.   *)
(*                                                                         *)
(* The frontend is one thread: an action is one pass of its loop, and the  *)
(* wall clock moves by dt in that pass.  A pass that writes the save file  *)
(* can end with the process dead between two file operations, or with an   *)
(* I/O error, which the main loop returns (an import reports it instead).  *)
(* Host time is counted in ticks of the MBC3 clock, TicksPerSecond to a    *)
(* second: the fraction of a tick, and the time within one pass, are left  *)
(* out.  Emulated time is in steps of the rewind buffer.                   *)
(***************************************************************************)
EXTENDS SaveFile, Rewind

CONSTANTS Configs,          \* cartridge kinds and flush policies to consider
          TicksPerSecond,   \* MBC3_RTC_CLOCK_TICKS_PER_SECOND: 32768
          Debounce,         \* DEFAULT_SAVE_FLUSH_DEBOUNCE
          NoDeadline, NoSession,
          FirstWall,        \* the wall time at first use
          MaxWall,          \* bound on the wall time, for each cartridge kind
          MaxStep, MaxWrites, MaxFaults, MaxOps            \* bounds

ASSUME DesktopAssumption ==
  /\ Configs \subseteq [kind   : {"ram", "mbc3", "huc3", "mbc6"},
                         policy : {"Manual", "OnClose", "OnWrite", "Debounced"}]
  /\ TicksPerSecond \in Nat \ {0}
  /\ Debounce \in Nat
  /\ NoDeadline \notin Nat
  /\ FirstWall \in Nat
  /\ MaxWrites \in Nat

VARIABLES cfg,      \* [kind, policy], fixed
          wall,     \* host wall clock
          disk,     \* [ext, int]: the two save paths
          app,      \* "off" or "on"
          linked,   \* the machine is part of a linked session
          m,        \* machine: [t, v, rtc, sub, z, n]; sub, the ticks of
                    \* the MBC3 clock within a second; z and n, history
          sync,     \* HostRtcSync: [pending, huc3], the MBC3 ticks granted but
                    \* not yet released and the HuC-3's part of a second
          ses,      \* save session [last, due, since], or NoSession
          rew,      \* rewind buffer
          slot,     \* the machine-state slot file
          h         \* history: [past, acked, holed, imported, quit, writes, faults, ops]

vars == << cfg, wall, disk, app, linked, m, sync, ses, rew, slot, h >>

Imported == MaxWrites + 1

\* SystemTime as a file stores it.
unix_seconds(now) == now \div TicksPerSecond

\* The clock's ticks within a second are part of no save, but of a snapshot.
Persistent(x) == [v |-> x.v, rtc |-> x.rtc, z |-> x.z, n |-> x.n]
Snapshot(x) == [v |-> x.v, rtc |-> x.rtc, sub |-> x.sub]

Same(a, b) == a.v = b.v /\ a.rtc = b.rtc

BlankMachine(now) == [t |-> 0, v |-> 0, rtc |-> 0, sub |-> 0, z |-> now, n |-> 0]

PowerOn(s) == [t |-> 0, v |-> s.v, rtc |-> s.rtc, sub |-> 0, z |-> s.z, n |-> s.n]

HostRtc == [pending |-> 0, huc3 |-> 0]

(* open_with_file_extension: the file's state, aged by the time since it   *)
(* was stamped, replaces the machine's battery-backed state.               *)
Opened(d, x, now) ==
  IF Stored(d, cfg.kind) = NoFile THEN x
  ELSE LET l == load(d, cfg.kind, unix_seconds(now))
           s == IF HasClock(cfg.kind)
                THEN advance_clock(l.state, Elapsed(l.at, unix_seconds(now))) ELSE l.state
       IN  [x EXCEPT !.v = s.v, !.rtc = s.rtc, !.sub = 0, !.z = s.z, !.n = s.n + 1]

(* The session takes the machine's state as saved.  `since`, the wall time *)
(* of the first frame boundary that saw an unsaved write, is history.      *)
open_with_file_extension(x) ==
  [last |-> Persistent(x), due |-> NoDeadline, since |-> NoDeadline]

reset_baseline_from_machine(x) ==
  IF ses = NoSession THEN NoSession ELSE open_with_file_extension(x)

(***************************************************************************)
(* Writing the save: every way the write of state s can end - with a new   *)
(* file (alive), with an error (failed), or with the process dead.  After  *)
(* an error the frontend ends too, unless the caller goes on.  Leftover    *)
(* temporary and backup files are dropped: no one reads them, and the next *)
(* write starts by replacing them.                                         *)
(***************************************************************************)
WriteOutcomes(d, s, now) ==
  LET p     == save_target(d, cfg.kind, s)
      bytes == [v |-> s.v, rtc |-> s.rtc, z |-> s.z, n |-> s.n,
                at |-> unix_seconds(now)]
      steps == write_save_file_with_safe_replace(d[p], bytes)
      Out(f, alive, failed) ==
        [disk   |-> [d EXCEPT ![p] = [NoFiles EXCEPT !.main = f.main]],
         alive  |-> alive,
         failed |-> failed,
         done   |-> f.main = bytes,
         holed  |-> f.main = NoFile /\ d[p].main # NoFile]
  IN  { Out(steps[Len(steps)], TRUE, FALSE) }
        \cup (IF h.faults < MaxFaults
              THEN { Out(steps[i], FALSE, FALSE) : i \in 1..Len(steps) }
                     \cup { Out(f, FALSE, TRUE) : f \in replace_failures(d[p], bytes) }
              ELSE {})

NoWrite(d) == { [disk |-> d, alive |-> TRUE, failed |-> FALSE,
                 done |-> FALSE, holed |-> FALSE] }

flush_if_changed(d, x, now) ==
  IF ses = NoSession \/ Same(Persistent(x), ses.last) THEN NoWrite(d)
  ELSE WriteOutcomes(d, Persistent(x), now)

close(d, x, now) ==
  IF cfg.policy = "Manual" THEN NoWrite(d) ELSE flush_if_changed(d, x, now)

\* A plausible slip: every frame boundary pushes the deadline back.
debounce_deadline_restarted(now) == now + Debounce

debounce_deadline(now) ==
  IF ses.due = NoDeadline THEN now + Debounce ELSE ses.due

DebounceElapsed(x, now) ==
  ~ Same(Persistent(x), ses.last) /\ now >= debounce_deadline(now)

maybe_flush_at_frame_boundary(d, x, now) ==
  CASE ses = NoSession -> NoWrite(d)
    [] cfg.policy = "OnWrite" -> flush_if_changed(d, x, now)
    [] cfg.policy = "Debounced" ->
         IF DebounceElapsed(x, now) THEN flush_if_changed(d, x, now) ELSE NoWrite(d)
    [] OTHER -> NoWrite(d)

(* The session after a frame boundary whose write (if any) succeeded.      *)
AfterFrameBoundary(o, x, now) ==
  LET since == IF x.v = ses.last.v THEN NoDeadline
               ELSE IF ses.since = NoDeadline THEN now ELSE ses.since
  IN  IF ses = NoSession THEN NoSession
      ELSE IF o.done THEN open_with_file_extension(x)
      ELSE IF Same(Persistent(x), ses.last)
           THEN [ses EXCEPT !.due = NoDeadline, !.since = since]
      ELSE IF cfg.policy = "Debounced"
           THEN [ses EXCEPT !.due = debounce_deadline(now), !.since = since]
      ELSE ses

(* The history after a user operation with write outcome o of state s;     *)
(* `opened`: a session was opened.                                         *)
Timeline(o, s, past, opened) ==
  h' = [h EXCEPT !.acked = IF o.done THEN s ELSE @,
                 !.holed = (@ \/ o.holed) /\ ~ o.done,
                 !.faults = IF o.alive THEN @ ELSE @ + 1,
                 !.imported = @ /\ ~ opened, !.ops = @ + 1,
                 !.past = past]

Off ==
  /\ app' = "off" /\ linked' = FALSE
  /\ m' = BlankMachine(0) /\ sync' = HostRtc
  /\ ses' = NoSession /\ rew' = EmptyRewind

(***************************************************************************)
(* The host clock.                                                         *)
(***************************************************************************)
(* HuC-3: whole seconds of elapsed host time, the rest kept for later.     *)
(* MBC3: pending ticks.  The code counts both whatever the cartridge is;   *)
(* a machine without that clock ignores them, and so they are left out.    *)
Huc3After(dt) == IF cfg.kind = "huc3" THEN sync.huc3 + dt ELSE 0

PendingAfter(dt) == IF cfg.kind = "mbc3" THEN sync.pending + dt ELSE 0

apply_elapsed_to_machine(x, dt) ==
  [x EXCEPT !.rtc = @ + Huc3After(dt) \div TicksPerSecond]

SyncAfter(dt, released) ==
  [pending |-> PendingAfter(dt) - released, huc3 |-> Huc3After(dt) % TicksPerSecond]

\* The cartridge counts the ticks up to a second.
advance_rtc_clock_ticks(x, k) ==
  [x EXCEPT !.rtc = @ + (x.sub + k) \div TicksPerSecond,
            !.sub = (@ + k) % TicksPerSecond]

apply_to_machine(dt) ==
  advance_rtc_clock_ticks(apply_elapsed_to_machine(m, dt), PendingAfter(dt))

(***************************************************************************)
(* Actions.                                                                *)
(***************************************************************************)
Init ==
  /\ cfg \in Configs
  /\ wall = FirstWall
  /\ disk = [ext |-> NoFiles, int |-> NoFiles]
  /\ app = "off" /\ linked = FALSE
  /\ m = BlankMachine(0) /\ sync = HostRtc
  /\ ses = NoSession /\ rew = EmptyRewind
  /\ slot = NoFile
  /\ h = [past |-> <<>>, acked |-> NoFile, holed |-> FALSE, imported |-> FALSE,
          quit |-> FALSE, writes |-> 0, faults |-> 0, ops |-> 0]

(* A user operation on the running frontend; MaxOps bounds their number. *)
Operates == app = "on" /\ h.ops < MaxOps

On(dt) == app = "on" /\ dt \in {0, 1} /\ wall + dt <= MaxWall[cfg.kind]

(* The frontend starts and loads the ROM. *)
Start ==
  /\ app = "off"
  /\ load_readable(disk, cfg.kind, BlankMachine(wall))
  /\ app' = "on"
  /\ m' = Opened(disk, BlankMachine(wall), wall)
  /\ ses' = open_with_file_extension(m')
  /\ h' = [h EXCEPT !.past = <<>>, !.imported = FALSE, !.quit = FALSE]
  /\ UNCHANGED << cfg, wall, disk, linked, sync, rew, slot >>

OffTick ==
  /\ app = "off" /\ wall < MaxWall[cfg.kind]
  /\ wall' = wall + 1
  /\ UNCHANGED << cfg, disk, app, linked, m, sync, ses, rew, slot, h >>

(* The process dies between two passes. *)
Crash ==
  /\ app = "on" /\ h.faults < MaxFaults
  /\ Off
  /\ h' = [h EXCEPT !.faults = @ + 1, !.past = <<>>]
  /\ UNCHANGED << cfg, wall, disk, slot >>

(* One step of emulation: the game may write its battery RAM, k pending    *)
(* clock ticks are released, the rewind buffer records, and a frame        *)
(* boundary may write the save.                                            *)
Frame(w, dt, k) ==
  /\ On(dt) /\ m.t < MaxStep
  /\ w => h.writes < MaxWrites
  /\ k \in 0..PendingAfter(dt)
  /\ LET now == wall + dt
         x1  == advance_rtc_clock_ticks(apply_elapsed_to_machine(m, dt), k)
         x   == [x1 EXCEPT !.t = @ + 1, !.v = IF w THEN h.writes + 1 ELSE @]
         boundary == x.t % FrameSteps = 0
     IN  \E o \in IF boundary THEN maybe_flush_at_frame_boundary(disk, x, now)
                  ELSE NoWrite(disk) :
           /\ wall' = now
           /\ disk' = o.disk
           /\ h' = [h EXCEPT !.acked  = IF o.done THEN Persistent(x) ELSE @,
                             !.holed  = (@ \/ o.holed) /\ ~ o.done,
                             !.faults = IF o.alive THEN @ ELSE @ + 1,
                             !.writes = IF w THEN @ + 1 ELSE @,
                             !.past   = IF o.alive THEN Append(@, x.v) ELSE <<>>]
           /\ \/ /\ ~ o.alive /\ Off
              \/ /\ o.alive
                 /\ m' = x /\ sync' = SyncAfter(dt, k)
                 /\ ses' = IF boundary THEN AfterFrameBoundary(o, x, now) ELSE ses
                 /\ rew' = IF linked THEN rew
                           ELSE IF boundary
                           THEN record_frame_boundary(rew, x.t, Snapshot(x))
                           ELSE record_subframe(rew, x.t, Snapshot(x))
                 /\ UNCHANGED << app, linked >>
  /\ UNCHANGED << cfg, slot >>

(* A pass of the loop with the menu open or emulation paused. *)
Paused(dt) ==
  /\ On(dt) /\ sync.pending + dt > 0
  /\ wall' = wall + dt
  /\ m' = apply_to_machine(dt) /\ sync' = SyncAfter(dt, PendingAfter(dt))
  /\ UNCHANGED << cfg, disk, app, linked, ses, rew, slot, h >>

(* A restored machine: its clock is taken to be right from here on, the    *)
(* save session takes it as saved, the host clock starts afresh.           *)
reset_host_state_after_machine_restore(t, s, now) ==
  /\ m' = [t |-> t, v |-> s.v, rtc |-> s.rtc, sub |-> s.sub,
            z |-> now - (TicksPerSecond * s.rtc + s.sub), n |-> 0]
  /\ ses' = reset_baseline_from_machine(m')
  /\ sync' = HostRtc

rewind_desktop_session_steps(dt) ==
  /\ On(dt) /\ Operates /\ ~ linked /\ rew.entries # <<>>
  /\ LET e == rew.entries[rewind_target(rew, m.t)]
     IN  /\ reset_host_state_after_machine_restore(e.t, e.s, wall + dt)
         /\ h' = [h EXCEPT !.past = SubSeq(@, 1, e.t), !.ops = @ + 1]
  /\ wall' = wall + dt
  /\ rew' = rewind_one(rew, m.t)
  /\ UNCHANGED << cfg, disk, app, linked, slot >>

save_machine_state_slot ==
  /\ Operates /\ ~ linked
  /\ slot' = [t |-> m.t, s |-> Snapshot(m), past |-> h.past]
  /\ h' = [h EXCEPT !.ops = @ + 1]
  /\ UNCHANGED << cfg, wall, disk, app, linked, m, sync, ses, rew >>

reset_frontend_timeline_state(r) == EmptyRewind

load_machine_state_slot ==
  /\ Operates /\ ~ linked /\ slot # NoFile
  /\ reset_host_state_after_machine_restore(slot.t, slot.s, wall)
  /\ h' = [h EXCEPT !.past = slot.past, !.ops = @ + 1]
  /\ rew' = reset_frontend_timeline_state(rew)
  /\ UNCHANGED << cfg, wall, disk, app, linked, slot >>

(* The hotkey and the menu entry write whatever the policy. *)
ManualSave ==
  /\ Operates /\ ses # NoSession
  /\ \E o \in flush_if_changed(disk, m, wall) :
       /\ disk' = o.disk
       /\ Timeline(o, Persistent(m), IF o.alive THEN h.past ELSE <<>>, FALSE)
       /\ \/ ~ o.alive /\ Off
          \/ /\ o.alive /\ ses' = open_with_file_extension(m)
             /\ UNCHANGED << app, linked, m, sync, rew >>
  /\ UNCHANGED << cfg, wall, slot >>

(* A new machine y (or the running one) enters the session: its save is    *)
(* opened from disk d, the timeline starts over, the host clock too.       *)
Enter(y, d, nowLinked) ==
  /\ m' = Opened(d, y, wall)
  /\ ses' = open_with_file_extension(m')
  /\ sync' = HostRtc
  /\ rew' = EmptyRewind
  /\ linked' = nowLinked
  /\ app' = "on"

(* A machine that goes on: what the host clock, or a power-on, drops of    *)
(* its second is lost.                                                     *)
Carried(x) == [x EXCEPT !.n = @ + 1]

(* The old session is closed, then the next machine is opened: reset and   *)
(* rebuild (the battery state is carried over), the infrared accessories   *)
(* and unplugging a link (the machine goes on).                            *)
CloseThenOpen(y, past, nowLinked) ==
  \E o \in close(disk, y, wall) :
    LET opens == o.alive /\ load_readable(o.disk, cfg.kind, y)
    IN  /\ disk' = o.disk
        /\ Timeline(o, Persistent(y), IF opens THEN past ELSE <<>>, opens)
        /\ \/ opens /\ Enter(Carried(y), o.disk, nowLinked)
           \/ ~ opens /\ Off
        /\ UNCHANGED << cfg, wall, slot >>

reset_machine ==
  /\ Operates
  /\ CloseThenOpen(PowerOn(Persistent(apply_to_machine(0))), <<>>, linked)

activate_infrared_accessory ==
  /\ Operates /\ ~ linked
  /\ CloseThenOpen(apply_to_machine(0), h.past, TRUE)

detach_linked_session ==
  /\ Operates /\ linked
  /\ CloseThenOpen(m, h.past, FALSE)

(* The next machine y is opened before the old session is closed: opening  *)
(* a ROM and activating a link.                                            *)
OpenThenClose(y, nowLinked) ==
  LET old == apply_to_machine(0) IN
  /\ load_readable(disk, cfg.kind, y)
  /\ \E o \in close(disk, old, wall) :
       /\ disk' = o.disk
       /\ Timeline(o, Persistent(old), <<>>, o.alive)
       /\ \/ o.alive /\ Enter(y, disk, nowLinked)
          \/ ~ o.alive /\ Off
       /\ UNCHANGED << cfg, wall, slot >>

open_selected_rom ==
  /\ Operates
  /\ OpenThenClose(BlankMachine(wall), FALSE)

activate_game_link ==
  /\ Operates /\ ~ linked
  /\ OpenThenClose(Carried(PowerOn(Persistent(apply_to_machine(0)))), TRUE)

(* Attaching or removing the printer reopens the save of the running       *)
(* machine without closing it first.                                       *)
set_external_port ==
  /\ Operates /\ ~ linked
  /\ load_readable(disk, cfg.kind, m)
  /\ Enter(Carried(m), disk, FALSE)
  /\ h' = [h EXCEPT !.imported = FALSE, !.ops = @ + 1]
  /\ UNCHANGED << cfg, wall, disk, slot >>

(* ... and when the file cannot be read into it, the frontend ends. *)
set_external_port_fails ==
  /\ Operates /\ ~ linked
  /\ ~ load_readable(disk, cfg.kind, m)
  /\ Off
  /\ h' = [h EXCEPT !.past = <<>>]
  /\ UNCHANGED << cfg, wall, disk, slot >>

\* A plausible slip: the running session goes on after the import.
session_after_import_kept == ses

session_after_import == NoSession

(* After a write of the import that did not succeed: an error is shown and *)
(* the frontend goes on with the session put back.                         *)
GoesOnOrDies(o, back) ==
  \/ /\ o.failed
     /\ ses' = back
     /\ UNCHANGED << app, linked, m, sync, rew >>
  \/ ~ o.failed /\ Off

session_after_close == IF cfg.policy = "Manual" THEN ses
                       ELSE reset_baseline_from_machine(m)

(* Importing a save closes the session, writes the imported state and      *)
(* leaves the machine without a session until it is reset or reloaded.     *)
import_external_save_for_current_rom ==
  /\ Operates /\ ~ h.imported /\ cfg.kind # "huc3"
  /\ ~ (cfg.kind = "mbc6" /\ m.v > 1)
  /\ \E o1 \in close(disk, m, wall) :
       \/ /\ ~ o1.alive
          /\ disk' = o1.disk
          /\ Timeline(o1, Persistent(m), IF o1.failed THEN h.past ELSE <<>>, FALSE)
          /\ GoesOnOrDies(o1, ses)
       \/ /\ o1.alive
          /\ LET s == [v |-> IF cfg.kind = "mbc6" THEN 1 ELSE Imported,
                       rtc |-> 0, z |-> wall, n |-> 0] IN
             \E o2 \in WriteOutcomes(o1.disk, s, wall) :
               /\ disk' = o2.disk
               /\ h' = [h EXCEPT !.acked  = IF o2.done THEN s
                                           ELSE IF o1.done THEN Persistent(m) ELSE @,
                                 !.holed  = ((@ /\ ~ o1.done) \/ o2.holed) /\ ~ o2.done,
                                 !.faults = IF o2.alive THEN @ ELSE @ + 1,
                                 !.past   = IF o2.alive \/ o2.failed THEN @ ELSE <<>>,
                                 !.imported = o2.alive,
                                 !.ops    = @ + 1]
               /\ \/ /\ o2.alive
                     /\ ses' = session_after_import
                     /\ UNCHANGED << app, linked, m, sync, rew >>
                  \/ /\ ~ o2.alive
                     /\ GoesOnOrDies(o2, session_after_close)
  /\ UNCHANGED << cfg, wall, slot >>

(* Leaving the frontend closes the session. *)
Quit ==
  /\ Operates
  /\ \E o \in close(disk, m, wall) :
       /\ disk' = o.disk
       /\ h' = [h EXCEPT !.acked = IF o.done THEN Persistent(m) ELSE @,
                         !.holed = (@ \/ o.holed) /\ ~ o.done,
                         !.faults = IF o.alive THEN @ ELSE @ + 1,
                         !.quit = o.alive, !.past = <<>>,
                         !.ops = @ + 1]
  /\ Off
  /\ UNCHANGED << cfg, wall, slot >>

FrameStep == \E w \in BOOLEAN, dt \in {0, 1} : \E k \in 0..PendingAfter(dt) : Frame(w, dt, k)

Next ==
  \/ Start \/ OffTick \/ Crash
  \/ FrameStep
  \/ \E dt \in {0, 1} : Paused(dt) \/ rewind_desktop_session_steps(dt)
  \/ save_machine_state_slot \/ load_machine_state_slot
  \/ ManualSave
  \/ reset_machine \/ activate_infrared_accessory \/ detach_linked_session
  \/ open_selected_rom \/ activate_game_link
  \/ set_external_port \/ set_external_port_fails
  \/ import_external_save_for_current_rom
  \/ Quit

Spec == Init /\ [][Next]_vars

(***************************************************************************)
(* Properties.                                                             *)
(***************************************************************************)

(* What the next session would load is the last state whose write was      *)
(* completed, never a torn or an older file, whichever of the two formats  *)
(* it is in and wherever a write was cut short - except when the process   *)
(* died in the one gap in which the path holds no file (file_io.rs:46-56). *)
LoadReturnsLastSave ==
  h.holed \/ IF h.acked = NoFile THEN Stored(disk, cfg.kind) = NoFile
             ELSE /\ Stored(disk, cfg.kind) \notin {NoFile, Torn}
                  /\ Same(StateOf(Stored(disk, cfg.kind)), h.acked)

(* The same without the exception: docs/roadmap/06-cartridges.md:211 has   *)
(* payloads written atomically or through an equivalent safe strategy.     *)
SaveSurvivesCrash ==
  IF h.acked = NoFile THEN Stored(disk, cfg.kind) = NoFile
  ELSE /\ Stored(disk, cfg.kind) \notin {NoFile, Torn}
       /\ Stored(disk, cfg.kind).v = h.acked.v

(* The time the cartridge clock was given, in ticks: what it reads and     *)
(* what it or the host keeps of a second.                                  *)
Given == TicksPerSecond * m.rtc + m.sub + sync.pending + sync.huc3

(* Through saves, crashes, reloads, rewinds and state slots the cartridge  *)
(* clock follows the wall clock: it is exact while a session goes on (the  *)
(* HuC-3's) or at least never ahead (the MBC3's, whose pending ticks a     *)
(* reset may drop).  A file is stamped with a whole second and carries no  *)
(* part of one, and a resync drops the part the host keeps; so each of the *)
(* m.n times the clock came from a file or was carried over a resync may   *)
(* add less than a second, and cost a HuC-3 clock less than two, but no    *)
(* second is counted twice and no longer stretch is missed.                *)
(* (timing.rs:66-92, 117-146, save_session.rs:67-76, external_save/mbc3.rs)*)
ClockKeepsWallTime ==
  app = "on" /\ HasClock(cfg.kind) =>
    /\ Given <= (wall - m.z) + m.n * (TicksPerSecond - 1)
    /\ cfg.kind = "huc3" =>
         Given >= (wall - m.z) - 2 * m.n * (TicksPerSecond - 1)

(* timing.rs:61: cartridge clocks track real wall time.  It fails by those *)
(* parts of a second: see the README.                                      *)
ClockIsExact ==
  app = "on" /\ HasClock(cfg.kind) =>
    /\ Given <= wall - m.z
    /\ cfg.kind = "huc3" => Given = wall - m.z

(* Every snapshot in the rewind buffer lies on the machine's own past:     *)
(* taken at an instant the running timeline went through, showing what the *)
(* machine was then, in order.  Rewinding and loading a slot abandon a     *)
(* future whose snapshots must not come back.  (rewind.rs, controls.rs)    *)
RewindStaysOnTimeline ==
  \A i \in DOMAIN rew.entries :
    /\ rew.entries[i].t <= m.t
    /\ rew.entries[i].s.v = h.past[rew.entries[i].t]
    /\ i > 1 => rew.entries[i - 1].t < rew.entries[i].t

(* An imported save stays the stored one until a session opens it: the     *)
(* machine that was running when it was imported never writes over it.     *)
(* (dialogs.rs:494-563)                                                    *)
ImportedSaveStands ==
  h.imported /\ app = "on" =>
    Stored(disk, cfg.kind).v = IF cfg.kind = "mbc6" THEN 1 ELSE Imported

(* docs/info/DESKTOP.md:134: pending changes are forced on shutdown.  It   *)
(* fails after a rewind or a state load: see the README.                   *)
PendingChangesAreForced ==
  [][ (~ h.quit /\ h'.quit /\ cfg.policy # "Manual" /\ m.v # 0 /\ ~ h.imported)
        => (Stored(disk', cfg.kind) # NoFile /\ Stored(disk', cfg.kind).v = m.v) ]_vars

(* With the debounced policy no frame boundary leaves a battery write      *)
(* unsaved for longer than the debounce time, however often the game       *)
(* writes and the clock ticks meanwhile.  (save_session.rs:129-153)        *)
FlushWithinDebounce ==
  [][ ( /\ app = "on" /\ app' = "on" /\ cfg.policy = "Debounced"
        /\ m'.t = m.t + 1 /\ m'.t % FrameSteps = 0
        /\ ses # NoSession
        /\ ses.since # NoDeadline /\ wall' >= ses.since + Debounce )
        => m'.v = ses'.last.v ]_vars
=============================================================================
