------------------------------ MODULE Mappers ------------------------------
(* The mappers that only switch banks: NoMBC, MBC1 (three wirings), MBC2,    *)
(* MBC5 (with and without rumble), HuC-1, M161 and MMM01                     *)
(* (crates/gb-core/src/cartridge).  A cartridge is a record; each operator   *)
(* returns the record after one bus access.                                  *)
(*                                                                           *)
(* A bank number is the set of its one bits, so masks, shifts and the wrap   *)
(* to a power-of-two number of banks are set operations.  The address picks  *)
(* one of the register regions and one RAM cell stands for a RAM bank.       *)
EXTENDS Integers

CONSTANTS
    LowBits,     \* width of the low ROM bank register (5 on MBC1 and MMM01)
    MidBits,     \* width of the secondary register (2 on MBC1 and MMM01)
    BankBits,    \* the ROM has 2^BankBits banks
    RamBankBits  \* the RAM has 2^RamBankBits banks

ASSUME MapperWidths ==
    /\ LowBits \in Nat \ {0} /\ MidBits \in Nat \ {0}
    /\ BankBits \in Nat \ {0} /\ RamBankBits \in Nat

Bits(n) == 0 .. (n - 1)
Shift(s, k) == {b + k : b \in s}
Wrap(s) == s \cap Bits(BankBits)
RamWrap(s) == s \cap Bits(RamBankBits)

RamBanks == SUBSET Bits(RamBankBits)
BankedKinds == {"NoMbc", "Mbc1", "Mbc1Large", "Mbc1M", "Mbc2", "Mbc5", "Mbc5Rumble", "Huc1"}

(* Registers after power on.  MBC5 has no zero translation and starts on 1. *)
NewBanked(k) ==
    [kind |-> k, ram_enabled |-> FALSE,
     rom_bank |-> IF k \in {"Mbc5", "Mbc5Rumble"} THEN {0} ELSE {},
     secondary |-> {}, mode |-> 0, ir |-> FALSE, ir_emitter_on |-> FALSE,
     rumble_on |-> FALSE, ram |-> [b \in RamBanks |-> 0]]

(* The register region a write to $0000-$7FFF addresses.  "enable" carries   *)
(* the outcome of the enable comparison, "bank" and "secondary" the value's  *)
(* bits, "mode" its bit 0.                                                   *)
Mbc1Kinds == {"Mbc1", "Mbc1Large", "Mbc1M"}
Mbc5Kinds == {"Mbc5", "Mbc5Rumble"}

mbc1_write_rom(c, region, v) ==
    CASE region = "enable" -> [c EXCEPT !.ram_enabled = v # {}]
      [] region = "bank" -> [c EXCEPT !.rom_bank = v \cap Bits(LowBits)]
      [] region = "secondary" -> [c EXCEPT !.secondary = v \cap Bits(MidBits)]
      [] region = "mode" -> [c EXCEPT !.mode = IF 0 \in v THEN 1 ELSE 0]

mbc2_write_rom(c, region, v) ==
    CASE region = "enable" -> [c EXCEPT !.ram_enabled = v # {}]
      [] region = "bank" -> [c EXCEPT !.rom_bank = v \cap Bits(LowBits)]
      [] OTHER -> c

mbc5_write_rom(c, region, v) ==
    CASE region = "enable" -> [c EXCEPT !.ram_enabled = v # {}]
      [] region = "bank" -> [c EXCEPT !.rom_bank = v \cap Bits(LowBits)]
      [] region = "secondary" ->
            [c EXCEPT !.rumble_on = IF c.kind = "Mbc5Rumble" THEN MidBits \in v ELSE @,
                      !.secondary = v \cap Bits(MidBits)]
      [] OTHER -> c

huc1_write_rom(c, region, v) ==
    CASE region = "enable" -> [c EXCEPT !.ir = v # {}]
      [] region = "bank" -> [c EXCEPT !.rom_bank = v \cap Bits(LowBits)]
      [] region = "secondary" -> [c EXCEPT !.secondary = v \cap Bits(MidBits)]
      [] OTHER -> c

write_rom(c, region, v) ==
    CASE c.kind \in Mbc1Kinds -> mbc1_write_rom(c, region, v)
      [] c.kind = "Mbc2" -> mbc2_write_rom(c, region, v)
      [] c.kind \in Mbc5Kinds -> mbc5_write_rom(c, region, v)
      [] c.kind = "Huc1" -> huc1_write_rom(c, region, v)
      [] c.kind = "NoMbc" -> c

mbc1_effective_ram_bank(c) ==
    IF c.kind = "Mbc1" /\ c.mode = 1 THEN RamWrap(c.secondary) ELSE {}
mbc5_effective_ram_bank(c) == RamWrap(c.secondary)
huc1_effective_ram_bank(c) == RamWrap(c.secondary)

(* RAM is reached through the enable gate, except on NoMBC (no gate) and     *)
(* HuC-1 (RAM unless the infrared port is selected).                         *)
no_mbc_write_ram(c, v) == [c EXCEPT !.ram[{}] = v]
mbc1_write_ram(c, v) ==
    IF c.ram_enabled THEN [c EXCEPT !.ram[mbc1_effective_ram_bank(c)] = v] ELSE c
mbc2_write_ram(c, v) == IF c.ram_enabled THEN [c EXCEPT !.ram[{}] = v] ELSE c
mbc5_write_ram(c, v) ==
    IF c.ram_enabled THEN [c EXCEPT !.ram[mbc5_effective_ram_bank(c)] = v] ELSE c
huc1_write_ram(c, v) ==
    IF c.ir THEN [c EXCEPT !.ir_emitter_on = v = 1]
    ELSE [c EXCEPT !.ram[huc1_effective_ram_bank(c)] = v]

write_ram(c, v) ==
    CASE c.kind \in Mbc1Kinds -> mbc1_write_ram(c, v)
      [] c.kind = "Mbc2" -> mbc2_write_ram(c, v)
      [] c.kind \in Mbc5Kinds -> mbc5_write_ram(c, v)
      [] c.kind = "Huc1" -> huc1_write_ram(c, v)
      [] c.kind = "NoMbc" -> no_mbc_write_ram(c, v)

(* M161: the first write of a session picks the 32 KiB bank for good. *)
NewM161 == [kind |-> "M161", selected_bank |-> {}, bank_switch_locked |-> FALSE]
m161_write_rom(c, v) ==
    IF c.bank_switch_locked THEN c
    ELSE [c EXCEPT !.selected_bank = v \cap Bits(LowBits), !.bank_switch_locked = TRUE]

(* MMM01 starts unmapped on the menu in the last two banks.  The menu sets   *)
(* the base bank and the lock masks, then maps the game for good.            *)
NewMmm01 ==
    [kind |-> "Mmm01", mapped |-> FALSE, ram_enabled |-> FALSE, ram_bank_mask |-> {},
     rom_bank_low |-> {}, rom_bank_mid |-> {}, ram_bank_low |-> {}, ram_bank_high |-> {},
     rom_bank_high |-> {}, mode_write_disable |-> FALSE, banking_mode |-> 0,
     rom_bank_mask |-> {}, multiplex_enabled |-> FALSE, ram |-> [b \in RamBanks |-> 0]]

(* The masked bits keep their value, the others take the written ones. *)
Locked(old, v, mask) == (old \cap mask) \cup (v \ mask)

(* $0000-$1FFF: enable RAM; unmapped, set the RAM bank lock and perhaps map. *)
mmm01_write_enable(c, enable, mask, map) ==
    [c EXCEPT !.ram_enabled = enable,
              !.ram_bank_mask = IF c.mapped THEN @ ELSE mask,
              !.mapped = @ \/ map]

\* Variant: a mapped game may write every bit of its low bank register.
mmm01_write_rom_bank_unlocked(c, low, mid) ==
    [c EXCEPT !.rom_bank_low = low, !.rom_bank_mid = IF c.mapped THEN @ ELSE mid]

(* $2000-$3FFF *)
mmm01_write_rom_bank(c, low, mid) ==
    [c EXCEPT !.rom_bank_low = Locked(@, low, c.rom_bank_mask \ {0}),
              !.rom_bank_mid = IF c.mapped THEN @ ELSE mid]

(* $4000-$5FFF *)
mmm01_write_ram_bank(c, low, ramHigh, romHigh, disable) ==
    LET banked == [c EXCEPT !.ram_bank_low = Locked(@, low, c.ram_bank_mask)] IN
    IF c.mapped THEN banked
    ELSE [banked EXCEPT !.ram_bank_high = ramHigh, !.rom_bank_high = romHigh,
                        !.mode_write_disable = disable]

(* $6000-$7FFF *)
mmm01_write_mode(c, mode, mask, multiplex) ==
    LET moded == [c EXCEPT !.banking_mode = IF c.mode_write_disable THEN @ ELSE mode] IN
    IF c.mapped THEN moded
    ELSE [moded EXCEPT !.rom_bank_mask = mask \ {0}, !.multiplex_enabled = multiplex]

mmm01_unmapped_rom_bank(low) == IF low THEN Bits(BankBits) \ {0} ELSE Bits(BankBits)

mmm01_low_mid(c) ==
    CASE ~c.multiplex_enabled -> c.rom_bank_mid
      [] c.multiplex_enabled /\ c.banking_mode = 0 -> c.ram_bank_low \cap c.ram_bank_mask
      [] OTHER -> c.ram_bank_low

mmm01_effective_low_rom_bank(c) ==
    IF ~c.mapped THEN mmm01_unmapped_rom_bank(TRUE)
    ELSE Wrap((c.rom_bank_low \cap c.rom_bank_mask)
              \cup Shift(mmm01_low_mid(c), LowBits)
              \cup Shift(c.rom_bank_high, LowBits + MidBits))

mmm01_translated_rom_bank_low(c) ==
    IF c.rom_bank_low \ c.rom_bank_mask = {} THEN c.rom_bank_low \cup {0} ELSE c.rom_bank_low

mmm01_effective_high_rom_bank(c) ==
    IF ~c.mapped THEN mmm01_unmapped_rom_bank(FALSE)
    ELSE Wrap(mmm01_translated_rom_bank_low(c)
              \cup Shift(IF c.multiplex_enabled THEN c.ram_bank_low ELSE c.rom_bank_mid, LowBits)
              \cup Shift(c.rom_bank_high, LowBits + MidBits))

mmm01_effective_ram_bank(c) ==
    RamWrap((IF c.multiplex_enabled THEN c.rom_bank_mid
             ELSE IF c.banking_mode = 0 THEN c.ram_bank_low \cap c.ram_bank_mask
             ELSE c.ram_bank_low) \cup Shift(c.ram_bank_high, MidBits))

mmm01_write_ram(c, v) ==
    IF c.mapped /\ c.ram_enabled THEN [c EXCEPT !.ram[mmm01_effective_ram_bank(c)] = v] ELSE c
=============================================================================
