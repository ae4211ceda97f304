--------------------------- MODULE PocketCamera ---------------------------
(* The Pocket Camera's capture unit                                          *)
(* (crates/gb-core/src/cartridge/pocket_camera.rs).  A capture is processed  *)
(* when it starts and staged; it reaches the photo area of RAM at the first  *)
(* timed access after its exposure has elapsed, and RAM is out of reach until *)
(* then.  Clearing the busy bit pauses the exposure, setting it resumes.     *)
(*                                                                           *)
(* The ready cycle is kept relative to the present: "left" cycles remain.    *)
(* The image pipeline (sensor, filter, dither) is the pair of the frame and  *)
(* the exposure it was taken with.                                           *)
EXTENDS Integers

CONSTANTS Frames, Exposures  \* host frames; exposure register settings, in cycles

IdleCapture == [name |-> "Idle"]
BlankPhoto == <<"blank", 0>>

NewCamera ==
    [kind |-> "Camera", ram_enabled |-> FALSE, registers_selected |-> FALSE,
     exposure |-> CHOOSE e \in Exposures : \A d \in Exposures : e <= d,
     host_frame |-> "blank", capture |-> IdleCapture, photo |-> BlankPhoto]

capture_is_working(c) == c.capture.name = "Working"
capture_duration_t_cycles(c) == c.exposure
build_capture_tiles(c) == <<c.host_frame, c.exposure>>

maybe_complete_capture(c) ==
    IF capture_is_working(c) /\ c.capture.left = 0
    THEN [c EXCEPT !.photo = c.capture.tiles, !.capture = IdleCapture]
    ELSE c

start_new_capture(c) ==
    [c EXCEPT !.capture = [name |-> "Working", left |-> capture_duration_t_cycles(c),
                           tiles |-> build_capture_tiles(c)]]
pause_capture(c) == [c EXCEPT !.capture.name = "Paused"]

\* Variant: resuming starts the exposure over with the present frame.
resume_as_new(c) == [start_new_capture(c) EXCEPT !.capture.left = c.capture.left]

resume_capture(c) == [c EXCEPT !.capture.name = "Working"]

(* Register 0: the busy bit starts, resumes or pauses. *)
write_register_0(c, busy) ==
    CASE busy /\ c.capture.name = "Idle" -> start_new_capture(c)
      [] busy /\ c.capture.name = "Paused" -> resume_capture(c)
      [] ~busy /\ capture_is_working(c) -> pause_capture(c)
      [] OTHER -> c

(* A timed write to $A000: the capture completes first if it is ready.       *)
(* Photo RAM accepts data only when no capture is working.                   *)
camera_write_ram(c, reg, busy, v) ==
    LET r == maybe_complete_capture(c) IN
    CASE r.registers_selected /\ reg = 0 -> write_register_0(r, busy)
      [] r.registers_selected /\ reg # 0 -> [r EXCEPT !.exposure = v]
      [] ~r.registers_selected /\ ~capture_is_working(r) /\ r.ram_enabled ->
            [r EXCEPT !.photo = <<"drawn", v>>]
      [] OTHER -> r

camera_read_ram(c) == maybe_complete_capture(c)
camera_write_enable(c, on) == [c EXCEPT !.ram_enabled = on]
camera_write_select(c, registers) == [c EXCEPT !.registers_selected = registers]
set_pocket_camera_frame(c, f) == [c EXCEPT !.host_frame = f]

(* One cycle of machine time; a paused capture keeps what is left. *)
CameraTime(c) ==
    IF capture_is_working(c) /\ c.capture.left > 0 THEN [c EXCEPT !.capture.left = @ - 1] ELSE c

camera_persistent_state(c) == [kind |-> "PocketCameraRam", photo |-> c.photo]
(* Restoring replaces RAM only: a capture in progress goes on. *)
camera_restore(c, s) == [c EXCEPT !.photo = s.photo]
=============================================================================
