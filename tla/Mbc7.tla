------------------------------- MODULE Mbc7 -------------------------------
(* The MBC7 serial EEPROM and accelerometer latch                            *)
(* (crates/gb-core/src/cartridge/mbc7.rs).  Software drives chip select,     *)
(* clock and data-in pins; a frame is a start bit, two opcode bits, the      *)
(* address field and, for a write, the data bits, most significant first.    *)
EXTENDS Integers, Sequences

CONSTANTS
    AddressBits,  \* width of the address field (8); the word address is the
                  \* field without its top bit, the extended opcode its top two
    DataBits      \* width of a word (16)

ASSUME EepromWidths == AddressBits \in Nat \ {0, 1} /\ DataBits \in Nat \ {0}

CommandBits == 2 + AddressBits
EepromWords == 0 .. ((2 ^ (AddressBits - 1)) - 1)
ErasedWord == (2 ^ DataBits) - 1

Idle == [name |-> "Idle"]

NewMbc7 ==
    [kind |-> "Mbc7", enabled |-> FALSE, pins |-> [cs |-> 0, clk |-> 0, di |-> 0, do |-> 1],
     command |-> Idle, write_enabled |-> FALSE, eeprom |-> [w \in EepromWords |-> ErasedWord],
     input |-> 0, latched |-> -1, latch_armed |-> FALSE]

Done(c) == [c EXCEPT !.command = Idle, !.pins.do = 1]

write_eeprom_word(c, address, value) ==
    IF c.write_enabled THEN [c EXCEPT !.eeprom[address] = value] ELSE c
write_eeprom_all(c, value) ==
    IF c.write_enabled THEN [c EXCEPT !.eeprom = [w \in EepromWords |-> value]] ELSE c

ReceiveData(c, target) ==
    [c EXCEPT !.command = [name |-> "ReceivingData", target |-> target, bits |-> 0, value |-> 0]]

finish_eeprom_extended_command(c, value) ==
    CASE (value \div (2 ^ (AddressBits - 2))) % 4 = 0 -> Done([c EXCEPT !.write_enabled = FALSE])
      [] (value \div (2 ^ (AddressBits - 2))) % 4 = 1 -> ReceiveData(c, -1)
      [] (value \div (2 ^ (AddressBits - 2))) % 4 = 2 -> Done(write_eeprom_all(c, ErasedWord))
      [] OTHER -> Done([c EXCEPT !.write_enabled = TRUE])

(* The command is complete: opcode 2 reads, 1 writes, 3 erases, 0 extends.   *)
(* A read puts a dummy zero on the data-out pin before the word.             *)
finish_eeprom_command(c, value) ==
    LET opcode == (value \div (2 ^ AddressBits)) % 4
        address == value % (2 ^ (AddressBits - 1))
    IN  CASE opcode = 2 ->
                [c EXCEPT !.command = [name |-> "SendingRead", left |-> DataBits,
                                       value |-> c.eeprom[address]],
                          !.pins.do = 0]
          [] opcode = 1 -> ReceiveData(c, address)
          [] opcode = 3 -> Done(write_eeprom_word(c, address, ErasedWord))
          [] OTHER -> finish_eeprom_extended_command(c, value)

commit_eeprom_data(c, target, value) ==
    Done(IF target = -1 THEN write_eeprom_all(c, value) ELSE write_eeprom_word(c, target, value))

(* A rising clock edge with the chip selected. *)
clock_eeprom(c) ==
    LET m == c.command
        shifted == (2 * m.value) + c.pins.di
    IN  CASE m.name = "Idle" ->
                IF c.pins.di = 1
                THEN [c EXCEPT !.command = [name |-> "ReceivingCommand", bits |-> 0, value |-> 0],
                               !.pins.do = 1]
                ELSE c
          [] m.name = "ReceivingCommand" ->
                IF m.bits + 1 = CommandBits THEN finish_eeprom_command(c, shifted)
                ELSE [c EXCEPT !.command.bits = @ + 1, !.command.value = shifted]
          [] m.name = "ReceivingData" ->
                IF m.bits + 1 = DataBits THEN commit_eeprom_data(c, m.target, shifted)
                ELSE [c EXCEPT !.command.bits = @ + 1, !.command.value = shifted]
          [] OTHER -> \* SendingRead
                LET sent == [c EXCEPT !.pins.do = (m.value \div (2 ^ (m.left - 1))) % 2] IN
                IF m.left = 1 THEN [sent EXCEPT !.command = Idle]
                ELSE [sent EXCEPT !.command.left = @ - 1]

\* Variant: deselecting the chip does not abandon the frame.
write_pins_keeping_frame(c, cs, clk, di) ==
    LET set == [c EXCEPT !.pins = [@ EXCEPT !.cs = cs, !.clk = clk, !.di = di]] IN
    IF ~c.enabled THEN c
    ELSE IF cs = 1 /\ c.pins.clk = 0 /\ clk = 1 THEN clock_eeprom(set)
    ELSE set

(* A write to the pin register: deselecting abandons the frame, a rising     *)
(* clock with the chip selected takes one bit.                               *)
write_eeprom_pins(c, cs, clk, di) ==
    LET set == [c EXCEPT !.pins = [@ EXCEPT !.cs = cs, !.clk = clk, !.di = di]] IN
    CASE ~c.enabled -> c
      [] c.enabled /\ cs = 0 -> Done(set)
      [] c.enabled /\ cs = 1 /\ c.pins.clk = 0 /\ clk = 1 -> clock_eeprom(set)
      [] OTHER -> set

(* Both enable registers must hold their key for $A000 to answer. *)
mbc7_write_enable(c, on) == [c EXCEPT !.enabled = on]

(* The accelerometer latch: $55 clears and arms, $AA takes the input once. *)
set_accelerometer_input(c, v) == [c EXCEPT !.input = v]
write_latch_reset(c) == IF c.enabled THEN [c EXCEPT !.latch_armed = TRUE, !.latched = -1] ELSE c
write_latch_commit(c) ==
    IF c.enabled /\ c.latch_armed THEN [c EXCEPT !.latched = c.input, !.latch_armed = FALSE] ELSE c

mbc7_persistent_state(c) == [kind |-> "Mbc7Eeprom", eeprom |-> c.eeprom]
mbc7_restore(c, s) ==
    [c EXCEPT !.eeprom = s.eeprom, !.pins = [cs |-> 0, clk |-> 0, di |-> 0, do |-> 1],
              !.command = Idle, !.write_enabled = FALSE]
=============================================================================
