----------------------------- MODULE Cartridge -----------------------------
(* The cartridge slot with one device of each supported family, driven by    *)
(* the accesses a program and its host make in any order                     *)
(* (crates/gb-core/src/cartridge/slot.rs and device.rs dispatch to the       *)
(* modules extended here).  The family is fixed when the ROM is loaded.      *)
EXTENDS Integers, Sequences, Mappers, Mbc3, Mbc6, Mbc7, Huc3, PocketCamera

CONSTANTS
    Kinds,       \* the families inserted
    ClockTicks,  \* tick counts the machine hands to the MBC3 clock at once
    RtcValues,   \* values a game stores into MBC3 clock registers
    RtcOps,      \* bound on register stores and latches together
    BulkSeconds, \* elapsed times for which bulk and single ticks are compared
    McuValues    \* values a game stores into HuC-3 triplets

ASSUME SlotInputs ==
    /\ Kinds \subseteq BankedKinds \cup
                 {"Mbc3", "Mbc6", "Mbc7", "Huc3", "Camera", "M161", "Mmm01"}
    /\ McuValues \subseteq 0 .. (TripletValues - 1)
    /\ ClockTicks \subseteq Nat /\ RtcValues \subseteq Nat /\ BulkSeconds \subseteq Nat

VARIABLES
    cart,   \* the device record; cart.kind is its family
    h       \* history: see each use below

vars == <<cart, h>>

NewDevice(k) ==
    CASE k = "Mbc3" -> NewMbc3
      [] k = "Mbc6" -> NewMbc6
      [] k = "Mbc7" -> NewMbc7
      [] k = "Huc3" -> NewHuc3
      [] k = "Camera" -> NewCamera
      [] k = "M161" -> NewM161
      [] k = "Mmm01" -> NewMmm01
      [] OTHER -> NewBanked(k)

(* History per family: MBC3 counts stores and latches; MBC7 keeps the bits of   *)
(* the frame in progress; the camera what the capture still owes and framed. *)
NoHistory(k) ==
    CASE k = "Mbc3" -> 0
      [] k = "Mbc7" -> <<>>
      [] k = "Camera" -> [due |-> 0, framed |-> BlankPhoto]
      [] OTHER -> 0

(* CartridgeSlot::load builds the device from the validated header. *)
Init == \E k \in Kinds : cart = NewDevice(k) /\ h = NoHistory(k)

Is(k) == cart.kind = k

BankedAccess ==
    /\ cart.kind \in BankedKinds
    /\ \/ \E region \in {"enable", "bank", "secondary", "mode"}, v \in SUBSET Bits(LowBits) :
             cart' = write_rom(cart, region, v)
       \/ \E v \in {0, 1} : cart' = write_ram(cart, v)
    /\ UNCHANGED h

M161Write == Is("M161") /\ (\E v \in SUBSET Bits(LowBits) : cart' = m161_write_rom(cart, v))
             /\ UNCHANGED h

Mmm01Access ==
    /\ Is("Mmm01")
    /\ \/ \E enable, map \in BOOLEAN, mask \in SUBSET Bits(MidBits) :
             cart' = mmm01_write_enable(cart, enable, mask, map)
       \/ \E low \in SUBSET Bits(LowBits), mid \in SUBSET Bits(MidBits) :
             cart' = mmm01_write_rom_bank(cart, low, mid)
       \/ \E low, rh, oh \in SUBSET Bits(MidBits), disable \in BOOLEAN :
             cart' = mmm01_write_ram_bank(cart, low, rh, oh, disable)
       \/ \E mode \in {0, 1}, mask \in SUBSET Bits(LowBits), multiplex \in BOOLEAN :
             cart' = mmm01_write_mode(cart, mode, mask, multiplex)
       \/ cart' = mmm01_write_ram(cart, 1)
    /\ UNCHANGED h

Mbc3Access ==
    /\ Is("Mbc3")
    /\ \/ \E on \in BOOLEAN : cart' = mbc3_write_enable(cart, on)
       \/ \E target \in RtcRegisters \cup {"Ram", "Reserved"} : cart' = mbc3_write_select(cart, target)
       \/ cart' = latch_rtc_if_needed(cart, 0)
    /\ UNCHANGED h
Mbc3Store ==
    /\ Is("Mbc3") /\ h < RtcOps
    /\ \/ \E v \in RtcValues, halt \in BOOLEAN : cart' = mbc3_write_ram(cart, v, halt)
       \/ \E value \in 1 .. 2 : cart' = latch_rtc_if_needed(cart, value)
    /\ h' = h + 1
Mbc3Ticks ==
    /\ Is("Mbc3")
    /\ \E n \in ClockTicks : cart' = advance_rtc_clock_ticks(cart, n)
    /\ UNCHANGED h

Mbc6Access ==
    /\ Is("Mbc6")
    /\ \/ \E on \in BOOLEAN : cart' = write_flash_enable(cart, on)
       \/ \E on \in BOOLEAN : cart' = write_flash_write_enable(cart, on)
       \/ \E b \in 0 .. (Blocks - 1) : cart' = write_flash_bank(cart, b)
       \/ \E i \in BlockCells, v \in DOMAIN FlashCommands : cart' = write_flash_window(cart, i, v)
    /\ UNCHANGED h

(* The frame: the bits clocked in since the start bit, until the command is  *)
(* over or the chip is deselected.                                           *)
Mbc7Pins ==
    /\ Is("Mbc7")
    /\ \E cs, clk, di \in {0, 1} :
          /\ cart' = write_eeprom_pins(cart, cs, clk, di)
          /\ h' = CASE ~cart.enabled -> h
                    [] cart.enabled /\ (cs = 0 \/ cart'.command.name = "Idle") -> <<>>
                    [] cart.enabled /\ cs = 1 /\ clk = 1 /\ cart.pins.clk = 0
                         /\ cart'.command.name \notin {"Idle", "SendingRead"}
                         /\ cart.command.name # "Idle" -> Append(h, di)
                    [] OTHER -> h
Mbc7Access ==
    /\ Is("Mbc7")
    /\ \/ \E on \in BOOLEAN : cart' = mbc7_write_enable(cart, on)
       \/ \E v \in {0, 1} : cart' = set_accelerometer_input(cart, v)
       \/ cart' = write_latch_reset(cart)
       \/ cart' = write_latch_commit(cart)
    /\ UNCHANGED h

Huc3Access ==
    /\ Is("Huc3")
    /\ \/ \E mode \in {"Ram", "Command", "Semaphore"} : cart' = huc3_write_select(cart, mode)
       \/ \E command \in {1, 3, 4, 6}, argument \in McuValues : cart' = huc3_write_ram(cart, command, argument)
    /\ UNCHANGED h
Huc3Time == Is("Huc3") /\ cart' = advance_huc3_rtc(cart, 1) /\ UNCHANGED h

CameraAccess ==
    /\ Is("Camera")
    /\ \/ \E on \in BOOLEAN : cart' = camera_write_enable(cart, on)
       \/ \E on \in BOOLEAN : cart' = camera_write_select(cart, on)
       \/ \E f \in Frames : cart' = set_pocket_camera_frame(cart, f)
       \/ cart' = camera_read_ram(cart)
    /\ UNCHANGED h
(* The history notes the frame and exposure of a capture as it starts. *)
CameraWrite ==
    /\ Is("Camera")
    /\ \E reg \in {0, 1}, busy \in BOOLEAN, v \in Exposures :
          cart' = camera_write_ram(cart, reg, busy, v)
    /\ h' = IF cart'.capture.name = "Working" /\ maybe_complete_capture(cart).capture.name = "Idle"
            THEN [due |-> cart.exposure, framed |-> <<cart.host_frame, cart.exposure>>]
            ELSE h
CameraTick ==
    /\ Is("Camera")
    /\ cart' = CameraTime(cart)
    /\ h' = IF capture_is_working(cart) /\ h.due > 0 THEN [h EXCEPT !.due = @ - 1] ELSE h

(* What a save holds, and a device restored from it.  RAM-less M161 and the  *)
(* banked families keep RAM only.                                            *)
persistent_state(c) ==
    CASE c.kind = "Mbc3" -> mbc3_persistent_state(c)
      [] c.kind = "Mbc6" -> mbc6_persistent_state(c)
      [] c.kind = "Mbc7" -> mbc7_persistent_state(c)
      [] c.kind = "Huc3" -> huc3_persistent_state(c)
      [] c.kind = "Camera" -> camera_persistent_state(c)
      [] c.kind = "M161" -> [kind |-> "None"]
      [] OTHER -> [kind |-> c.kind, ram |-> c.ram]

restore_persistent_state(c, s) ==
    CASE c.kind = "Mbc3" -> mbc3_restore(c, s)
      [] c.kind = "Mbc6" -> mbc6_restore(c, s)
      [] c.kind = "Mbc7" -> mbc7_restore(c, s)
      [] c.kind = "Huc3" -> huc3_restore(c, s)
      [] c.kind = "Camera" -> camera_restore(c, s)
      [] c.kind = "M161" -> c
      [] OTHER -> [c EXCEPT !.ram = s.ram]

(* The machine is switched off and on again with its save. *)
PowerCycle ==
    /\ cart' = restore_persistent_state(NewDevice(cart.kind), persistent_state(cart))
    /\ h' = IF Is("Mbc3") THEN h ELSE NoHistory(cart.kind)

Next ==
    \/ BankedAccess \/ M161Write \/ Mmm01Access
    \/ Mbc3Access \/ Mbc3Store \/ Mbc3Ticks
    \/ Mbc6Access \/ Mbc7Pins \/ Mbc7Access
    \/ Huc3Access \/ Huc3Time
    \/ CameraAccess \/ CameraWrite \/ CameraTick
    \/ PowerCycle

Spec == Init /\ [][Next]_vars

-----------------------------------------------------------------------------
(* The MBC3 clock that skips any number of seconds at once - out-of-range    *)
(* counters, day overflow and carry included - is the clock that ticked      *)
(* through them one by one.  (persist.rs, advance_mbc3_rtc_fields)           *)
BulkTimeIsTicks ==
    Is("Mbc3") => \A n \in BulkSeconds :
        advance_mbc3_rtc_fields(cart.rtc_live, n)
            = IF cart.rtc_live.halt THEN cart.rtc_live ELSE Ticked(cart.rtc_live, n)[n]

(* Once a game is mapped, no write of it moves the ROM view outside the      *)
(* banks its lock masks leave open: the locked bits of both windows' banks   *)
(* keep their value until power off.  (mmm01.rs, write_rom; m161.rs)         *)
LockedBits(c) ==
    LET open == (Bits(LowBits) \ c.rom_bank_mask)
                \cup (IF c.multiplex_enabled THEN Shift(Bits(MidBits) \ c.ram_bank_mask, LowBits)
                      ELSE {})
    IN  Bits(BankBits) \ open
GameStaysInItsWindow ==
    [][/\ Is("Mmm01") /\ cart.mapped /\ cart'.mapped =>
             /\ LockedBits(cart') = LockedBits(cart)
             /\ \A bank \in {mmm01_effective_high_rom_bank(cart'), mmm01_effective_low_rom_bank(cart')} :
                   bank \cap LockedBits(cart)
                     = mmm01_effective_high_rom_bank(cart) \cap LockedBits(cart)
       /\ Is("M161") /\ cart.bank_switch_locked /\ cart'.bank_switch_locked =>
             cart'.selected_bank = cart.selected_bank]_vars

(* Flash cells change only as the chip allows: sector 0 only unprotected and *)
(* write-enabled, programming only clears bits and only inside one block,    *)
(* and a cell is set again only with its whole sector.                       *)
(* (mbc6.rs, erase_chip, erase_sector, commit_program_buffer)                *)
FlashChangesAreLegal ==
    [][Is("Mbc6") =>
        LET changed == {o \in Offsets : cart'.flash[o] # cart.flash[o]}
            set == {o \in changed : cart'.flash[o] = 1}
        IN  /\ 0 \in {SectorOf(o) : o \in changed} =>
                   cart.flash_write_enabled /\ ~cart.sector0_protected
            /\ set = {} => \A o, p \in changed : o \div BlockBytes = p \div BlockBytes
            /\ \A o \in set, p \in Offsets : SectorOf(o) = SectorOf(p) => cart'.flash[p] = 1
            /\ changed # {} => cart.flash_mode.name \in {"EraseAwaitCommand", "Program"}]_vars

(* The EEPROM changes exactly when the last bit of a complete, uninterrupted *)
(* frame is clocked in, and as that frame says.  A frame cut by chip select  *)
(* leaves no trace.  (mbc7.rs, write_eeprom_pins, finish_eeprom_command)     *)
Number(bits) ==
    LET value[i \in 0 .. Len(bits)] == IF i = 0 THEN 0 ELSE (2 * value[i - 1]) + bits[i]
    IN  value[Len(bits)]
FrameEffect(bits, rom) ==
    LET opcode == Number(SubSeq(bits, 1, 2))
        extended == Number(SubSeq(bits, 3, 4))
        address == Number(SubSeq(bits, 4, CommandBits))
        data == Number(SubSeq(bits, CommandBits + 1, Len(bits)))
        long == Len(bits) = CommandBits + DataBits
    IN  CASE Len(bits) = CommandBits /\ opcode = 3 -> [rom EXCEPT ![address] = ErasedWord]
          [] Len(bits) = CommandBits /\ opcode = 0 /\ extended = 2 ->
                [w \in EepromWords |-> ErasedWord]
          [] long /\ opcode = 1 -> [rom EXCEPT ![address] = data]
          [] long /\ opcode = 0 /\ extended = 1 -> [w \in EepromWords |-> data]
          [] OTHER -> rom
EepromFollowsFrames ==
    [][Is("Mbc7") =>
        LET clocked == /\ cart.enabled /\ cart'.pins.cs = 1
                       /\ cart.pins.clk = 0 /\ cart'.pins.clk = 1
                       /\ cart.command.name \in {"ReceivingCommand", "ReceivingData"}
        IN  cart'.eeprom =
                IF clocked /\ cart.write_enabled
                THEN FrameEffect(Append(h, cart'.pins.di), cart.eeprom)
                ELSE cart.eeprom]_vars

(* Each second of a HuC-3 counts, and the event comes exactly one minute     *)
(* closer with the second that completes a minute, and with no other.  It    *)
(* stays as far away in every other step: when the game sets the clock       *)
(* through the window, on any other access and over power off - unless the   *)
(* game stores into a triplet that mirrors the clock or the event.           *)
(* (huc3.rs, advance_rtc_seconds, apply_io_window_current_time...)           *)
StoresTime ==
    /\ cart.select = "Semaphore" /\ cart.command = 3
    /\ cart.access_address \in {CurMinutes, CurDays, EventMinutes, EventDays}
EventKeepsItsDistance ==
    [][Is("Huc3") =>
        LET before == remaining_event_delta_minutes(cart)
            after == remaining_event_delta_minutes(cart')
        IN  /\ Huc3Time =>
                  /\ cart'.seconds = (cart.seconds + 1) % MinuteSeconds
                  /\ after = IF cart'.seconds = 0
                             THEN (before + rtc_cycle_minutes - 1) % rtc_cycle_minutes
                             ELSE before
            /\ ~Huc3Time /\ ~StoresTime => after = before]_vars

(* A photo reaches RAM only after its whole exposure, pauses not counted,    *)
(* and shows the frame and exposure of the moment the capture started.       *)
(* (pocket_camera.rs, maybe_complete_capture, pause_capture, resume_capture) *)
ExposureIsServed ==
    [][Is("Camera") /\ cart.capture.name = "Working" /\ cart'.photo # cart.photo
         /\ cart'.photo[1] # "drawn"
        => h.due = 0 /\ cart'.photo = h.framed]_vars

(* What a save holds is what a fresh device restored from it would save, for *)
(* every family; the HuC-3 mirrors are rewritten from the clock on the way.  *)
(* (slot.rs, persistent_state and restore_persistent_state)                  *)
SaveRoundTrips ==
    LET s == persistent_state(cart)
        back == persistent_state(restore_persistent_state(NewDevice(cart.kind), s))
    IN  IF Is("Huc3") THEN back.cart = sync_tracked_rtc_locations(s.cart) ELSE back = s
=============================================================================
