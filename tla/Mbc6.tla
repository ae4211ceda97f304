------------------------------- MODULE Mbc6 -------------------------------
(* The MBC6 flash chip (crates/gb-core/src/cartridge/mbc6.rs): the command   *)
(* state machine behind the switchable window, sector erase, the two-write   *)
(* block programming protocol, the hidden region and the protection of       *)
(* sector 0.  A cell keeps one bit of its byte (1 erased); a written value   *)
(* is a command byte and that bit of it.                                     *)
EXTENDS Integers

CONSTANTS
    BlockBytes,   \* bytes of a program block (128)
    Blocks,       \* blocks of the flash; SectorBlocks of them make a sector
    SectorBlocks,
    UnlockAA,     \* the flash offset of the first unlock write ($5555)
    Unlock55      \* the flash offset of the second ($2AAA)

ASSUME FlashGeometry ==
    BlockBytes \in Nat \ {0} /\ Blocks \in Nat \ {0} /\ SectorBlocks \in Nat \ {0}

FlashBytes == Blocks * BlockBytes
Offsets == 0 .. (FlashBytes - 1)
HiddenOffsets == 0 .. (BlockBytes - 1)
BlockCells == 0 .. (BlockBytes - 1)
SectorOf(offset) == (offset % FlashBytes) \div (BlockBytes * SectorBlocks)

(* The bytes of the command set and the cell bit (bit 7) each one carries.   *)
FlashCommands ==
    [AA |-> 1, F55 |-> 0, F80 |-> 1, F90 |-> 1, A0 |-> 1, F60 |-> 0, F77 |-> 0,
     F10 |-> 0, F30 |-> 0, F04 |-> 0, E0 |-> 1, F40 |-> 0, F20 |-> 0, F0 |-> 1]

Mode(name) == [name |-> name]
Status == Mode("Status")

NewProgram(name) ==
    [name |-> name, block |-> -1, buffer |-> [i \in BlockCells |-> 1], written |-> {},
     final_byte_seen |-> FALSE]

NewMbc6 ==
    [kind |-> "Mbc6", flash_enabled |-> FALSE, flash_write_enabled |-> FALSE, flash_bank |-> 0,
     sector0_protected |-> FALSE, flash_mode |-> Mode("ReadArray"),
     flash |-> [o \in Offsets |-> 1], hidden |-> [o \in HiddenOffsets |-> 1]]

is_unlock_aa(offset, v) == offset = UnlockAA /\ v = "AA"
is_unlock_55(offset, v) == offset = Unlock55 /\ v = "F55"

restart_or_idle(offset, v) ==
    IF is_unlock_aa(offset, v) THEN Mode("AwaitUnlock2") ELSE Mode("ReadArray")

(* Sector 0 is written only with the write-enable line up and unprotected. *)
Sector0Open(c) == c.flash_write_enabled /\ ~c.sector0_protected

erase(c, sectors) ==
    [c EXCEPT !.flash = [o \in Offsets |-> IF SectorOf(o) \in sectors THEN 1 ELSE @[o]],
              !.flash_mode = Status]
\* Variant: the chip erase forgets the protection of sector 0.
erase_whole_chip(c) == erase(c, {SectorOf(o) : o \in Offsets})
erase_chip(c) ==
    erase(c, {SectorOf(o) : o \in Offsets} \ (IF Sector0Open(c) THEN {} ELSE {0}))
erase_sector(c, offset) ==
    erase(c, IF SectorOf(offset) = 0 /\ ~Sector0Open(c) THEN {} ELSE {SectorOf(offset)})

execute_primary_command(c, offset, v) ==
    [c EXCEPT !.flash_mode =
        CASE v = "F80" -> Mode("EraseAwaitUnlock1")
          [] v = "F90" -> Mode("IdMode")
          [] v = "A0" -> NewProgram("Program")
          [] v = "F60" -> Mode("ExtendedAwaitUnlock1")
          [] v = "F77" -> Mode("HiddenReadAwaitUnlock1")
          [] OTHER -> restart_or_idle(offset, v)]

execute_erase_command(c, offset, v) ==
    CASE v = "F10" /\ offset = UnlockAA -> erase_chip(c)
      [] v = "F30" -> erase_sector(c, offset)
      [] OTHER -> [c EXCEPT !.flash_mode = restart_or_idle(offset, v)]

(* Without the write-enable line the extended commands only report status. *)
execute_extended_command(c, v) ==
    CASE v \in {"F04", "E0", "F40", "F20"} /\ ~c.flash_write_enabled ->
            [c EXCEPT !.flash_mode = Status]
      [] v = "F04" -> [c EXCEPT !.hidden = [o \in HiddenOffsets |-> 1], !.flash_mode = Status]
      [] v = "E0" -> [c EXCEPT !.flash_mode = NewProgram("HiddenProgram")]
      [] v \in {"F40", "F20"} ->
            [c EXCEPT !.sector0_protected = v = "F20", !.flash_mode = Status]
      [] OTHER -> [c EXCEPT !.flash_mode = Mode("ReadArray")]

(* Only the bytes written to the buffer reach the chip, and only as zeros. *)
commit_program_buffer(c, p) ==
    LET Cell(i, old) == IF i \in p.written /\ p.buffer[i] = 0 THEN 0 ELSE old
        base == p.block * BlockBytes
    IN  CASE p.name = "Program" /\ (SectorOf(base) # 0 \/ Sector0Open(c)) ->
                [c EXCEPT !.flash = [o \in Offsets |->
                    IF o \div BlockBytes = p.block THEN Cell(o - base, @[o]) ELSE @[o]]]
          [] p.name = "HiddenProgram" /\ c.flash_write_enabled ->
                [c EXCEPT !.hidden = [o \in HiddenOffsets |-> Cell(o, @[o])]]
          [] OTHER -> c

(* One write of a program sequence: another block restarts the buffer, the   *)
(* second write of the block's last byte commits it.                         *)
program_write(c, offset, bit) ==
    LET hidden == c.flash_mode.name = "HiddenProgram"
        block == IF hidden THEN 0 ELSE offset \div BlockBytes
        Seed(i) == IF hidden THEN c.hidden[i] ELSE c.flash[(block * BlockBytes) + i]
        i == offset % BlockBytes
        begun == IF c.flash_mode.block = block THEN c.flash_mode
                 ELSE [c.flash_mode EXCEPT !.block = block, !.final_byte_seen = FALSE,
                          !.written = {}, !.buffer = [j \in BlockCells |-> Seed(j)]]
        filled == [begun EXCEPT !.buffer[i] = bit, !.written = @ \cup {i},
                                !.final_byte_seen = @ \/ i = BlockBytes - 1]
    IN  IF i = BlockBytes - 1 /\ begun.final_byte_seen
        THEN [commit_program_buffer(c, filled) EXCEPT !.flash_mode = Status]
        ELSE [c EXCEPT !.flash_mode = filled]

(* The unlock chains: which mode the expected write leads to. *)
UnlockAANext ==
    [EraseAwaitUnlock1 |-> "EraseAwaitUnlock2", ExtendedAwaitUnlock1 |-> "ExtendedAwaitUnlock2",
     HiddenReadAwaitUnlock1 |-> "HiddenReadAwaitUnlock2"]
Unlock55Next ==
    [AwaitUnlock2 |-> "AwaitCommand", EraseAwaitUnlock2 |-> "EraseAwaitCommand",
     ExtendedAwaitUnlock2 |-> "ExtendedAwaitCommand",
     HiddenReadAwaitUnlock2 |-> "HiddenReadAwaitCommand"]

(* A write that reaches the flash: $F0 always returns to reading. *)
write_flash(c, offset, v) ==
    LET m == c.flash_mode.name IN
    CASE v = "F0" -> [c EXCEPT !.flash_mode = Mode("ReadArray")]
      [] v # "F0" /\ m = "AwaitCommand" -> execute_primary_command(c, offset, v)
      [] v # "F0" /\ m = "EraseAwaitCommand" -> execute_erase_command(c, offset, v)
      [] v # "F0" /\ m = "ExtendedAwaitCommand" -> execute_extended_command(c, v)
      [] v # "F0" /\ m \in {"Program", "HiddenProgram"} ->
            program_write(c, offset, FlashCommands[v])
      [] v = "F77" /\ m = "HiddenReadAwaitCommand" ->
            [c EXCEPT !.flash_mode = Mode("HiddenReadMode")]
      [] m \in DOMAIN UnlockAANext /\ is_unlock_aa(offset, v) ->
            [c EXCEPT !.flash_mode = Mode(UnlockAANext[m])]
      [] m \in DOMAIN Unlock55Next /\ is_unlock_55(offset, v) ->
            [c EXCEPT !.flash_mode = Mode(Unlock55Next[m])]
      [] OTHER -> [c EXCEPT !.flash_mode = restart_or_idle(offset, v)]

(* A write to the window, whose bank register picks the block of the flash. *)
write_flash_window(c, i, v) ==
    IF c.flash_enabled THEN write_flash(c, (c.flash_bank * BlockBytes) + i, v) ELSE c

(* $0C00: disabling the flash abandons the command in progress. *)
write_flash_enable(c, on) ==
    [c EXCEPT !.flash_enabled = on, !.flash_mode = IF on THEN @ ELSE Mode("ReadArray")]
write_flash_write_enable(c, on) == [c EXCEPT !.flash_write_enabled = on]
write_flash_bank(c, bank) == [c EXCEPT !.flash_bank = bank]

mbc6_persistent_state(c) ==
    [kind |-> "Mbc6", flash |-> c.flash, hidden |-> c.hidden,
     sector0_protected |-> c.sector0_protected]
\* Variant: the protection bit is not part of the restored state.
mbc6_restore_unprotected(c, s) == [c EXCEPT !.flash = s.flash, !.hidden = s.hidden]
mbc6_restore(c, s) ==
    [c EXCEPT !.flash = s.flash, !.hidden = s.hidden, !.sector0_protected = s.sector0_protected]
=============================================================================
