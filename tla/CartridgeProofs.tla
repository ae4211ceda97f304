-------------------------- MODULE CartridgeProofs --------------------------
(* Proofs about the cartridge families: what a save restores, the window of  *)
(* a mapped game, the legal changes of the flash, the HuC-3 event, the       *)
(* camera's exposure, the MBC3 clock's jumps and the MBC7's frames, for every *)
(* register width, geometry, clock unit and number of seconds.               *)
EXTENDS Cartridge, WellFoundedInduction, FiniteSetTheorems, TLAPS

-----------------------------------------------------------------------------
(* A device keeps its family.                                                *)

\* Every family but one takes no step of the others.
LEMMA StepOfKind ==
  ASSUME Next
  PROVE  /\ Is("M161") => M161Write \/ PowerCycle
         /\ Is("Mmm01") => Mmm01Access \/ PowerCycle
         /\ Is("Mbc6") => Mbc6Access \/ PowerCycle
         /\ Is("Huc3") => Huc3Access \/ Huc3Time \/ PowerCycle
         /\ Is("Camera") => CameraAccess \/ CameraWrite \/ CameraTick \/ PowerCycle
  BY DEF Next, Is, BankedAccess, BankedKinds, M161Write, Mmm01Access, Mbc3Access, Mbc3Store,
         Mbc3Ticks, Mbc6Access, Mbc7Pins, Mbc7Access, Huc3Access, Huc3Time, CameraAccess,
         CameraWrite, CameraTick

\* c may become d: a record of the same family.
SameKind(c, d) == "kind" \in DOMAIN d /\ d.kind = c.kind

LEMMA NewKind ==
  ASSUME NEW k \in Kinds
  PROVE  "kind" \in DOMAIN NewDevice(k) /\ NewDevice(k).kind = k
<1>1. k \in BankedKinds \cup {"Mbc3", "Mbc6", "Mbc7", "Huc3", "Camera", "M161", "Mmm01"}
  BY SlotInputs
<1>2. CASE k = "Mbc3"
  BY <1>2 DEF NewDevice, NewMbc3
<1>3. CASE k = "Mbc6"
  BY <1>3 DEF NewDevice, NewMbc6
<1>4. CASE k = "Mbc7"
  BY <1>4 DEF NewDevice, NewMbc7
<1>5. CASE k = "Huc3"
  BY <1>5 DEF NewDevice, NewHuc3
<1>6. CASE k = "Camera"
  BY <1>6 DEF NewDevice, NewCamera
<1>7. CASE k = "M161"
  BY <1>7 DEF NewDevice, NewM161
<1>8. CASE k = "Mmm01"
  BY <1>8 DEF NewDevice, NewMmm01
<1>9. CASE k \in BankedKinds
  <2>1. NewDevice(k) = NewBanked(k)
    BY <1>9 DEF NewDevice, BankedKinds
  <2> QED BY <2>1 DEF NewBanked
<1> QED BY <1>1, <1>2, <1>3, <1>4, <1>5, <1>6, <1>7, <1>8, <1>9

\* A restored device is of the family that was saved.
LEMMA RestoredKind ==
  ASSUME cart.kind \in Kinds, "kind" \in DOMAIN cart, PowerCycle
  PROVE  SameKind(cart, cart')
<1> DEFINE new == NewDevice(cart.kind)
           s == persistent_state(cart)
<1>1. /\ cart' = restore_persistent_state(new, s)
      /\ "kind" \in DOMAIN new /\ new.kind = cart.kind
  BY NewKind DEF PowerCycle
<1>2. CASE cart.kind = "Huc3"
  <2>1. s.cart = cart
    BY <1>2 DEF persistent_state, huc3_persistent_state
  <2> HIDE DEF new, s
  <2>2. cart' = huc3_restore(new, s)
    BY <1>1, <1>2 DEF restore_persistent_state
  <2> QED BY <2>1, <2>2 DEF huc3_restore, sync_tracked_rtc_locations, SameKind
<1> HIDE DEF new, s
<1>3. CASE cart.kind = "Mbc3"
  BY <1>1, <1>3 DEF restore_persistent_state, mbc3_restore, SameKind
<1>4. CASE cart.kind = "Mbc6"
  BY <1>1, <1>4 DEF restore_persistent_state, mbc6_restore, SameKind
<1>5. CASE cart.kind = "Mbc7"
  BY <1>1, <1>5 DEF restore_persistent_state, mbc7_restore, SameKind
<1>6. CASE cart.kind = "Camera"
  BY <1>1, <1>6 DEF restore_persistent_state, camera_restore, SameKind
<1>7. CASE cart.kind = "M161"
  BY <1>1, <1>7 DEF restore_persistent_state, SameKind
<1>8. CASE cart.kind \notin {"Mbc3", "Mbc6", "Mbc7", "Huc3", "Camera", "M161"}
  <2>1. cart' = [new EXCEPT !.ram = s.ram]
    BY <1>1, <1>8 DEF restore_persistent_state
  <2> QED BY <1>1, <2>1 DEF SameKind
<1> QED BY <1>2, <1>3, <1>4, <1>5, <1>6, <1>7, <1>8

LEMMA BankedKind ==
  ASSUME "kind" \in DOMAIN cart, BankedAccess
  PROVE  SameKind(cart, cart')
<1>0. cart.kind \in BankedKinds
  BY DEF BankedAccess
<1>1. ASSUME NEW region \in {"enable", "bank", "secondary", "mode"}, NEW v,
             cart' = write_rom(cart, region, v)
      PROVE  SameKind(cart, cart')
  <2>1. /\ SameKind(cart, mbc1_write_rom(cart, region, v))
        /\ SameKind(cart, mbc2_write_rom(cart, region, v))
    BY DEF mbc1_write_rom, mbc2_write_rom, SameKind
  <2>2. /\ SameKind(cart, mbc5_write_rom(cart, region, v))
        /\ SameKind(cart, huc1_write_rom(cart, region, v))
    BY DEF mbc5_write_rom, huc1_write_rom, SameKind
  <2>3. SameKind(cart, cart)
    BY DEF SameKind
  <2>4. cart' \in {mbc1_write_rom(cart, region, v), mbc2_write_rom(cart, region, v),
                   mbc5_write_rom(cart, region, v), huc1_write_rom(cart, region, v), cart}
    BY <1>0, <1>1 DEF write_rom, BankedKinds, Mbc1Kinds, Mbc5Kinds
  <2> QED BY <2>1, <2>2, <2>3, <2>4
<1>2. CASE \E v \in {0, 1} : cart' = write_ram(cart, v)
  BY <1>2 DEF BankedAccess, BankedKinds, write_ram, no_mbc_write_ram, mbc1_write_ram,
              mbc2_write_ram, mbc5_write_ram, huc1_write_ram, Mbc1Kinds, Mbc5Kinds, SameKind
<1> QED BY <1>1, <1>2 DEF BankedAccess

LEMMA Mbc3Kind ==
  ASSUME "kind" \in DOMAIN cart, Mbc3Access \/ Mbc3Store \/ Mbc3Ticks
  PROVE  SameKind(cart, cart')
<1>1. CASE Mbc3Access
  BY <1>1 DEF Mbc3Access, mbc3_write_enable, mbc3_write_select, latch_rtc_if_needed, SameKind
<1>2. CASE Mbc3Store
  <2>1. ASSUME NEW v, NEW halt PROVE SameKind(cart, mbc3_write_ram(cart, v, halt))
    BY DEF mbc3_write_ram, SameKind
  <2>2. ASSUME NEW value PROVE SameKind(cart, latch_rtc_if_needed(cart, value))
    BY DEF latch_rtc_if_needed, SameKind
  <2> QED BY <1>2, <2>1, <2>2 DEF Mbc3Store
<1>3. CASE Mbc3Ticks
  BY <1>3 DEF Mbc3Ticks, advance_rtc_clock_ticks, SameKind
<1> QED BY <1>1, <1>2, <1>3

LEMMA Mbc7Kind ==
  ASSUME "kind" \in DOMAIN cart, Mbc7Pins \/ Mbc7Access
  PROVE  SameKind(cart, cart')
<1>1. CASE Mbc7Access
  BY <1>1 DEF Mbc7Access, mbc7_write_enable, set_accelerometer_input, write_latch_reset,
              write_latch_commit, SameKind
<1>2. ASSUME NEW c, "kind" \in DOMAIN c
      PROVE  /\ SameKind(c, Done(c))
             /\ \A t : SameKind(c, ReceiveData(c, t))
             /\ \A a, v : SameKind(c, write_eeprom_word(c, a, v))
             /\ \A v : SameKind(c, write_eeprom_all(c, v))
  BY <1>2 DEF Done, ReceiveData, write_eeprom_word, write_eeprom_all, SameKind
<1>3. ASSUME NEW c, "kind" \in DOMAIN c, NEW v
      PROVE  SameKind(c, finish_eeprom_extended_command(c, v))
  <2>1. /\ SameKind(c, [c EXCEPT !.write_enabled = FALSE])
        /\ SameKind(c, [c EXCEPT !.write_enabled = TRUE])
    BY <1>3 DEF SameKind
  <2>2. \/ \E t : finish_eeprom_extended_command(c, v) = ReceiveData(c, t)
        \/ \E d \in {[c EXCEPT !.write_enabled = FALSE], [c EXCEPT !.write_enabled = TRUE],
                     write_eeprom_all(c, ErasedWord)} :
             finish_eeprom_extended_command(c, v) = Done(d)
    BY DEF finish_eeprom_extended_command
  <2> QED BY <1>2, <1>3, <2>1, <2>2 DEF SameKind
<1>4. ASSUME NEW c, "kind" \in DOMAIN c, NEW v
      PROVE  SameKind(c, finish_eeprom_command(c, v))
  <2>2. \A a : SameKind(c, Done(write_eeprom_word(c, a, ErasedWord)))
    <3> SUFFICES ASSUME NEW a PROVE SameKind(c, Done(write_eeprom_word(c, a, ErasedWord)))
      OBVIOUS
    <3> DEFINE d == write_eeprom_word(c, a, ErasedWord)
    <3>1. SameKind(c, d)
      BY <1>2, <1>4
    <3> HIDE DEF d
    <3>2. SameKind(d, Done(d))
      BY <1>2, <3>1 DEF SameKind
    <3> QED BY <3>1, <3>2 DEF SameKind, d
  <2> DEFINE address == v % (2 ^ (AddressBits - 1))
         sending == [c EXCEPT !.command = [name |-> "SendingRead", left |-> DataBits,
                                           value |-> c.eeprom[address]],
                              !.pins.do = 0]
  <2>1. SameKind(c, sending)
    BY <1>4 DEF SameKind
  <2>3. finish_eeprom_command(c, v) \in
          {sending,
           ReceiveData(c, address), Done(write_eeprom_word(c, address, ErasedWord)),
           finish_eeprom_extended_command(c, v)}
    BY DEF finish_eeprom_command
  <2>4. /\ SameKind(c, ReceiveData(c, address))
        /\ SameKind(c, finish_eeprom_extended_command(c, v))
    BY <1>2, <1>3, <1>4
  <2> HIDE DEF address, sending
  <2> QED BY <2>1, <2>2, <2>3, <2>4
<1>5. ASSUME NEW c, "kind" \in DOMAIN c, NEW t, NEW v
      PROVE  SameKind(c, commit_eeprom_data(c, t, v))
  BY <1>2, <1>5 DEF commit_eeprom_data, SameKind
<1>6. ASSUME NEW c, "kind" \in DOMAIN c
      PROVE  SameKind(c, clock_eeprom(c))
  BY <1>4, <1>5, <1>6 DEF clock_eeprom, SameKind
<1>7. CASE Mbc7Pins
  <2>1. PICK cs, clk, di \in {0, 1} : cart' = write_eeprom_pins(cart, cs, clk, di)
    BY <1>7 DEF Mbc7Pins
  <2> DEFINE set == [cart EXCEPT !.pins = [@ EXCEPT !.cs = cs, !.clk = clk, !.di = di]]
  <2>2. SameKind(cart, set)
    BY DEF SameKind
  <2>3. cart' \in {cart, Done(set), clock_eeprom(set), set}
    BY <2>1 DEF write_eeprom_pins
  <2> HIDE DEF set
  <2> QED BY <1>2, <1>6, <2>2, <2>3 DEF SameKind
<1> QED BY <1>1, <1>7

\* The family is fixed when the ROM is loaded.
LEMMA KindStep ==
  ASSUME cart.kind \in Kinds, "kind" \in DOMAIN cart, Next,
         Mbc6Access \/ Huc3Access \/ Huc3Time \/ CameraAccess \/ CameraWrite \/ CameraTick
           => SameKind(cart, cart')
  PROVE  SameKind(cart, cart')
<1>1. CASE M161Write
  BY <1>1 DEF M161Write, m161_write_rom, SameKind
<1>2. CASE Mmm01Access
  BY <1>2 DEF Mmm01Access, mmm01_write_enable, mmm01_write_rom_bank, mmm01_write_ram_bank,
              mmm01_write_mode, mmm01_write_ram, SameKind
<1> QED BY <1>1, <1>2, RestoredKind, BankedKind, Mbc3Kind, Mbc7Kind DEF Next

-----------------------------------------------------------------------------
(* MMM01 and M161: the bank a mapped game sees.                              *)

Mmm01Devices ==
  [kind : {"Mmm01"}, mapped : BOOLEAN, ram_enabled : BOOLEAN, ram_bank_mask : SUBSET Bits(MidBits),
   rom_bank_low : SUBSET Bits(LowBits), rom_bank_mid : SUBSET Bits(MidBits),
   ram_bank_low : SUBSET Bits(MidBits), ram_bank_high : SUBSET Bits(MidBits),
   rom_bank_high : SUBSET Bits(MidBits), mode_write_disable : BOOLEAN, banking_mode : {0, 1},
   rom_bank_mask : SUBSET (Bits(LowBits) \ {0}), multiplex_enabled : BOOLEAN,
   ram : [RamBanks -> {0, 1}]]

\* What no write of a mapped game changes.
Kept(c, d) ==
  /\ d.rom_bank_mask = c.rom_bank_mask /\ d.ram_bank_mask = c.ram_bank_mask
  /\ d.multiplex_enabled = c.multiplex_enabled
  /\ d.rom_bank_mid = c.rom_bank_mid /\ d.rom_bank_high = c.rom_bank_high
  /\ d.rom_bank_low \cap c.rom_bank_mask = c.rom_bank_low \cap c.rom_bank_mask
  /\ d.ram_bank_low \cap c.ram_bank_mask = c.ram_bank_low \cap c.ram_bank_mask

LEMMA LockedSubset ==
  ASSUME NEW S, NEW old \in SUBSET S, NEW v \in SUBSET S, NEW mask
  PROVE  /\ Locked(old, v, mask) \in SUBSET S
         /\ Locked(old, v, mask) \cap mask = old \cap mask
  BY DEF Locked

LEMMA Mmm01Enable ==
  ASSUME NEW c \in Mmm01Devices, NEW enable \in BOOLEAN, NEW map \in BOOLEAN,
         NEW mask \in SUBSET Bits(MidBits)
  PROVE  LET d == mmm01_write_enable(c, enable, mask, map)
         IN  d \in Mmm01Devices /\ (c.mapped => Kept(c, d))
<1> DEFINE d == mmm01_write_enable(c, enable, mask, map)
<1>1. d \in Mmm01Devices
  BY DEF mmm01_write_enable, Mmm01Devices
<1>2. c.mapped => Kept(c, d)
  BY DEF mmm01_write_enable, Mmm01Devices, Kept
<1> QED BY <1>1, <1>2

LEMMA Mmm01RomBank ==
  ASSUME NEW c \in Mmm01Devices, NEW low \in SUBSET Bits(LowBits), NEW mid \in SUBSET Bits(MidBits)
  PROVE  LET d == mmm01_write_rom_bank(c, low, mid)
         IN  d \in Mmm01Devices /\ (c.mapped => Kept(c, d))
<1> DEFINE d == mmm01_write_rom_bank(c, low, mid)
           x == Locked(c.rom_bank_low, low, c.rom_bank_mask \ {0})
<1>0. c.rom_bank_mask \ {0} = c.rom_bank_mask /\ c.rom_bank_low \in SUBSET Bits(LowBits)
  BY DEF Mmm01Devices
<1>1. x \in SUBSET Bits(LowBits) /\ x \cap c.rom_bank_mask = c.rom_bank_low \cap c.rom_bank_mask
  BY <1>0, LockedSubset
<1>2. d = [c EXCEPT !.rom_bank_low = x, !.rom_bank_mid = IF c.mapped THEN @ ELSE mid]
  BY DEF mmm01_write_rom_bank
<1> HIDE DEF x, d
<1>3. d \in Mmm01Devices
  BY <1>1, <1>2 DEF Mmm01Devices
<1>4. c.mapped => Kept(c, d)
  BY <1>1, <1>2 DEF Mmm01Devices, Kept
<1> QED BY <1>3, <1>4 DEF d

LEMMA Mmm01RamBank ==
  ASSUME NEW c \in Mmm01Devices, NEW low \in SUBSET Bits(MidBits), NEW rh \in SUBSET Bits(MidBits),
         NEW oh \in SUBSET Bits(MidBits), NEW disable \in BOOLEAN
  PROVE  LET d == mmm01_write_ram_bank(c, low, rh, oh, disable)
         IN  d \in Mmm01Devices /\ (c.mapped => Kept(c, d))
<1> DEFINE d == mmm01_write_ram_bank(c, low, rh, oh, disable)
           x == Locked(c.ram_bank_low, low, c.ram_bank_mask)
           e == [c EXCEPT !.ram_bank_low = x]
<1>1. x \in SUBSET Bits(MidBits) /\ x \cap c.ram_bank_mask = c.ram_bank_low \cap c.ram_bank_mask
  BY LockedSubset DEF Mmm01Devices
<1>2. d = IF c.mapped THEN e ELSE [e EXCEPT !.ram_bank_high = rh, !.rom_bank_high = oh,
                                            !.mode_write_disable = disable]
  BY DEF mmm01_write_ram_bank
<1> HIDE DEF x, d
<1>3. e \in Mmm01Devices
  BY <1>1 DEF Mmm01Devices
<1>4. c.mapped => Kept(c, d)
  BY <1>1, <1>2 DEF Mmm01Devices, Kept
<1> HIDE DEF e
<1>5. d \in Mmm01Devices
  BY <1>2, <1>3 DEF Mmm01Devices
<1> QED BY <1>4, <1>5 DEF d

LEMMA Mmm01Mode ==
  ASSUME NEW c \in Mmm01Devices, NEW mode \in {0, 1}, NEW mask \in SUBSET Bits(LowBits),
         NEW multiplex \in BOOLEAN
  PROVE  LET d == mmm01_write_mode(c, mode, mask, multiplex)
         IN  d \in Mmm01Devices /\ (c.mapped => Kept(c, d))
<1> DEFINE d == mmm01_write_mode(c, mode, mask, multiplex)
           e == [c EXCEPT !.banking_mode = IF c.mode_write_disable THEN @ ELSE mode]
<1>1. e \in Mmm01Devices
  BY DEF Mmm01Devices
<1>2. d = IF c.mapped THEN e ELSE [e EXCEPT !.rom_bank_mask = mask \ {0},
                                            !.multiplex_enabled = multiplex]
  BY DEF mmm01_write_mode
<1>3. c.mapped => Kept(c, d)
  BY <1>2 DEF Mmm01Devices, Kept
<1>4. mask \ {0} \in SUBSET (Bits(LowBits) \ {0})
  OBVIOUS
<1> HIDE DEF e, d
<1>5. d \in Mmm01Devices
  BY <1>1, <1>2, <1>4 DEF Mmm01Devices
<1> QED BY <1>3, <1>5 DEF d

LEMMA Mmm01Ram ==
  ASSUME NEW c \in Mmm01Devices
  PROVE  LET d == mmm01_write_ram(c, 1)
         IN  d \in Mmm01Devices /\ (c.mapped => Kept(c, d))
<1> DEFINE d == mmm01_write_ram(c, 1)
           b == mmm01_effective_ram_bank(c)
<1>1. b \in RamBanks
  BY DEF mmm01_effective_ram_bank, RamWrap, RamBanks
<1>2. d = c \/ d = [c EXCEPT !.ram[b] = 1]
  BY DEF mmm01_write_ram
<1> HIDE DEF b, d
<1>3. d \in Mmm01Devices
  BY <1>1, <1>2 DEF Mmm01Devices
<1>4. Kept(c, d)
  BY <1>2 DEF Mmm01Devices, Kept
<1> QED BY <1>3, <1>4 DEF d

LEMMA Mmm01Step ==
  ASSUME cart \in Mmm01Devices, Mmm01Access
  PROVE  cart' \in Mmm01Devices /\ (cart.mapped => Kept(cart, cart'))
  BY Mmm01Enable, Mmm01RomBank, Mmm01RamBank, Mmm01Mode, Mmm01Ram DEF Mmm01Access

\* A bit of the bank, as far as the lock masks and the menu's registers
\* decide it.
LockedBit(c, b) ==
  \/ b \in c.rom_bank_low \cap c.rom_bank_mask
  \/ b - LowBits \in (IF c.multiplex_enabled THEN c.ram_bank_low \cap c.ram_bank_mask
                      ELSE c.rom_bank_mid)
  \/ b - (LowBits + MidBits) \in c.rom_bank_high

\* Both windows show that bit wherever it is locked.
LEMMA LockedBanks ==
  ASSUME NEW c \in Mmm01Devices, c.mapped, NEW b \in LockedBits(c)
  PROVE  /\ b \in mmm01_effective_high_rom_bank(c) <=> LockedBit(c, b)
         /\ b \in mmm01_effective_low_rom_bank(c) <=> LockedBit(c, b)
<1>0. LowBits \in Nat \ {0} /\ MidBits \in Nat \ {0} /\ BankBits \in Nat
  BY MapperWidths
<1>1. /\ b \in Nat /\ b \in Bits(BankBits)
      /\ b \in Bits(LowBits) => b \in c.rom_bank_mask
      /\ c.multiplex_enabled => \A m \in Bits(MidBits) : b = m + LowBits => m \in c.ram_bank_mask
  BY <1>0 DEF LockedBits, Bits, Shift
<1>2. /\ c.rom_bank_low \subseteq Bits(LowBits) /\ c.rom_bank_mid \subseteq Bits(MidBits)
      /\ c.ram_bank_low \subseteq Bits(MidBits) /\ c.rom_bank_high \subseteq Bits(MidBits)
      /\ 0 \notin c.rom_bank_mask
  BY DEF Mmm01Devices
<1>3. \A S : S \subseteq Bits(MidBits) =>
        /\ b \in Shift(S, LowBits) <=> b - LowBits \in S
        /\ b \in Shift(S, LowBits + MidBits) <=> b - (LowBits + MidBits) \in S
  BY <1>0, <1>1 DEF Shift, Bits
<1>4. b # 0
  BY <1>0, <1>1, <1>2 DEF Bits
<1>5. b \in mmm01_translated_rom_bank_low(c) <=> b \in c.rom_bank_low \cap c.rom_bank_mask
  BY <1>1, <1>2, <1>4 DEF mmm01_translated_rom_bank_low
<1>6. c.multiplex_enabled => (b - LowBits \in c.ram_bank_low
                                <=> b - LowBits \in c.ram_bank_low \cap c.ram_bank_mask)
  BY <1>0, <1>1, <1>2 DEF Bits
<1>7. b \in mmm01_effective_high_rom_bank(c) <=>
        \/ b \in mmm01_translated_rom_bank_low(c)
        \/ b \in Shift(IF c.multiplex_enabled THEN c.ram_bank_low ELSE c.rom_bank_mid, LowBits)
        \/ b \in Shift(c.rom_bank_high, LowBits + MidBits)
  BY <1>1 DEF mmm01_effective_high_rom_bank, Wrap
<1>8. b \in mmm01_effective_low_rom_bank(c) <=>
        \/ b \in c.rom_bank_low \cap c.rom_bank_mask
        \/ b \in Shift(mmm01_low_mid(c), LowBits)
        \/ b \in Shift(c.rom_bank_high, LowBits + MidBits)
  BY <1>1 DEF mmm01_effective_low_rom_bank, Wrap
<1>9. mmm01_low_mid(c) \in (IF c.multiplex_enabled
                            THEN {c.ram_bank_low \cap c.ram_bank_mask, c.ram_bank_low}
                            ELSE {c.rom_bank_mid})
  BY DEF mmm01_low_mid
<1>10. CASE c.multiplex_enabled
  BY <1>2, <1>3, <1>5, <1>6, <1>7, <1>8, <1>9, <1>10 DEF LockedBit
<1>11. CASE ~c.multiplex_enabled
  BY <1>2, <1>3, <1>5, <1>7, <1>8, <1>9, <1>11 DEF LockedBit
<1> QED BY <1>10, <1>11

LEMMA KeptBanks ==
  ASSUME NEW c \in Mmm01Devices, NEW d \in Mmm01Devices, c.mapped, d.mapped, Kept(c, d)
  PROVE  /\ LockedBits(d) = LockedBits(c)
         /\ \A bank \in {mmm01_effective_high_rom_bank(d), mmm01_effective_low_rom_bank(d)} :
              bank \cap LockedBits(c) = mmm01_effective_high_rom_bank(c) \cap LockedBits(c)
<1>1. LockedBits(d) = LockedBits(c)
  BY DEF LockedBits, Kept
<1>2. \A b : LockedBit(d, b) <=> LockedBit(c, b)
  BY DEF LockedBit, Kept
<1> QED BY <1>1, <1>2, LockedBanks

-----------------------------------------------------------------------------
(* HuC-3: the clock and the distance of its event.                           *)

LEMMA ModSmall ==
  ASSUME NEW n \in Nat \ {0}, NEW x \in Nat
  PROVE  /\ x % n \in 0 .. (n - 1) /\ x \div n \in Nat
         /\ x = (x \div n) * n + (x % n)
         /\ x < n => x % n = x
         /\ n <= x /\ x < n + n => x % n = x - n
<1>1. x % n \in 0 .. (n - 1) /\ x \div n \in Nat /\ x = (x \div n) * n + (x % n)
  OBVIOUS
<1>2. x < n => x \div n = 0
  OBVIOUS
<1>3. n <= x /\ x < n + n => x \div n = 1
  OBVIOUS
<1> QED BY <1>1, <1>2, <1>3

LEMMA WrapOnce ==
  ASSUME NEW n \in Nat \ {0}, NEW x \in Nat, x < n + n
  PROVE  x % n = (IF x < n THEN x ELSE x - n) /\ x % n \in 0 .. (n - 1)
<1>1. /\ x % n \in 0 .. (n - 1)
      /\ x < n => x % n = x
      /\ n <= x /\ x < n + n => x % n = x - n
  BY ModSmall
<1>2. x < n \/ n <= x
  OBVIOUS
<1> QED BY <1>1, <1>2

LEMMA DivBounds ==
  ASSUME NEW n \in Nat \ {0}, NEW x \in Nat
  PROVE  /\ x \div n \in Nat /\ (x \div n) * n \in Nat
         /\ (x \div n) * n <= x /\ x < (x \div n) * n + n
<1> DEFINE q == x \div n
           r == x % n
<1>1. r \in 0 .. (n - 1) /\ q \in Nat /\ x = q * n + r
  BY ModSmall
<1> HIDE DEF q, r
<1>2. q * n \in Nat
  BY <1>1
<1> QED BY <1>1, <1>2 DEF q

\* A day and a minute of it, as one number of minutes and back.
LEMMA SplitTotal ==
  ASSUME NEW total \in 0 .. (rtc_cycle_minutes - 1)
  PROVE  /\ total \div MinutesPerDay \in 0 .. (DayModulus - 1)
         /\ total % MinutesPerDay \in 0 .. (MinutesPerDay - 1)
         /\ (total \div MinutesPerDay) * MinutesPerDay + (total % MinutesPerDay) = total
<1>1. MinutesPerDay \in Nat \ {0} /\ DayModulus \in Nat \ {0}
  BY Huc3Units
<1>2. total \in Nat /\ total < DayModulus * MinutesPerDay
  BY <1>1 DEF rtc_cycle_minutes
<1> DEFINE q == total \div MinutesPerDay
           r == total % MinutesPerDay
<1>3. q \in Nat /\ r \in 0 .. (MinutesPerDay - 1) /\ total = q * MinutesPerDay + r
  BY <1>1, <1>2, ModSmall
<1> HIDE DEF q, r
<1>4. q < DayModulus
  <2> SUFFICES ASSUME q >= DayModulus PROVE FALSE
    BY <1>1, <1>3
  <2>1. q * MinutesPerDay >= DayModulus * MinutesPerDay
    BY <1>1, <1>3
  <2> QED BY <1>1, <1>2, <1>3, <2>1
<1> QED BY <1>1, <1>3, <1>4 DEF q, r

LEMMA JoinTotal ==
  ASSUME NEW day \in 0 .. (DayModulus - 1), NEW minute \in 0 .. (MinutesPerDay - 1)
  PROVE  /\ rtc_cycle_minutes \in Nat \ {0}
         /\ (day * MinutesPerDay) + minute \in 0 .. (rtc_cycle_minutes - 1)
<1>1. MinutesPerDay \in Nat \ {0} /\ DayModulus \in Nat \ {0}
  BY Huc3Units
<1>2. (day + 1) * MinutesPerDay <= DayModulus * MinutesPerDay
  BY <1>1
<1>3. (day + 1) * MinutesPerDay = day * MinutesPerDay + MinutesPerDay
  BY <1>1
<1>4. day * MinutesPerDay \in Nat /\ DayModulus * MinutesPerDay \in Nat
  BY <1>1
<1> QED BY <1>1, <1>2, <1>3, <1>4 DEF rtc_cycle_minutes

Huc3Devices ==
  [kind : {"Huc3"}, select : {"Ram", "Command", "Semaphore"}, access_address : Triplets,
   command : Nat, argument : Nat, response : Nat, mcu : [Triplets -> Nat],
   minutes : 0 .. (MinutesPerDay - 1), days : 0 .. (DayModulus - 1),
   seconds : 0 .. (MinuteSeconds - 1),
   eminutes : 0 .. (MinutesPerDay - 1), edays : 0 .. (DayModulus - 1)]

\* The distance of the event, without the wrap.
LEMMA Delta ==
  ASSUME NEW c \in Huc3Devices
  PROVE  LET cur == current_total_minutes(c)
             ev == event_total_minutes(c)
             cycle == rtc_cycle_minutes
         IN  /\ cycle \in Nat \ {0} /\ cur \in 0 .. (cycle - 1) /\ ev \in 0 .. (cycle - 1)
             /\ remaining_event_delta_minutes(c) = IF cur <= ev THEN ev - cur ELSE ev + cycle - cur
             /\ remaining_event_delta_minutes(c) \in 0 .. (cycle - 1)
<1> DEFINE cur == current_total_minutes(c)
           ev == event_total_minutes(c)
           cycle == rtc_cycle_minutes
<1>1. cycle \in Nat \ {0} /\ cur \in 0 .. (cycle - 1) /\ ev \in 0 .. (cycle - 1)
  <2>1. /\ c.days \in 0 .. (DayModulus - 1) /\ c.minutes \in 0 .. (MinutesPerDay - 1)
        /\ c.edays \in 0 .. (DayModulus - 1) /\ c.eminutes \in 0 .. (MinutesPerDay - 1)
    BY DEF Huc3Devices
  <2> QED BY <2>1, JoinTotal DEF current_total_minutes, event_total_minutes
<1>2. remaining_event_delta_minutes(c) = (ev + cycle - cur) % cycle
  BY DEF remaining_event_delta_minutes
<1> HIDE DEF cur, ev, cycle
<1>3. ev + cycle - cur \in Nat /\ ev + cycle - cur < cycle + cycle
  BY <1>1
<1> DEFINE x == ev + cycle - cur
<1>4. /\ remaining_event_delta_minutes(c) = IF x < cycle THEN x ELSE x - cycle
      /\ remaining_event_delta_minutes(c) \in 0 .. (cycle - 1)
  <2>1. x \in Nat /\ x < cycle + cycle /\ remaining_event_delta_minutes(c) = x % cycle
    BY <1>2, <1>3
  <2> HIDE DEF x
  <2> QED BY <1>1, <2>1, WrapOnce
<1>5. remaining_event_delta_minutes(c) = IF cur <= ev THEN ev - cur ELSE ev + cycle - cur
  BY <1>1, <1>4
<1> QED BY <1>1, <1>4, <1>5 DEF cur, ev, cycle

\* Rewriting the mirrors moves neither clock nor event.
LEMMA Synced ==
  ASSUME NEW c \in Huc3Devices
  PROVE  LET d == sync_tracked_rtc_locations(c)
         IN  /\ d \in Huc3Devices
             /\ d.minutes = c.minutes /\ d.days = c.days /\ d.seconds = c.seconds
             /\ d.eminutes = c.eminutes /\ d.edays = c.edays
<1> DEFINE d == sync_tracked_rtc_locations(c)
           m == [c.mcu EXCEPT ![CurMinutes] = c.minutes, ![CurDays] = c.days,
                              ![EventMinutes] = c.eminutes, ![EventDays] = c.edays]
<1>1. m \in [Triplets -> Nat]
  <2>1. /\ c.mcu \in [Triplets -> Nat] /\ c.minutes \in Nat /\ c.days \in Nat
        /\ c.eminutes \in Nat /\ c.edays \in Nat
    BY Huc3Units DEF Huc3Devices
  <2> QED BY <2>1 DEF Triplets
<1>2. d = [c EXCEPT !.mcu = m]
  BY DEF sync_tracked_rtc_locations
<1> HIDE DEF m, d
<1>3. d \in Huc3Devices
  BY <1>1, <1>2 DEF Huc3Devices
<1>4. /\ d.minutes = c.minutes /\ d.days = c.days /\ d.seconds = c.seconds
      /\ d.eminutes = c.eminutes /\ d.edays = c.edays
  BY <1>2 DEF Huc3Devices
<1> QED BY <1>3, <1>4 DEF d

\* The event is as far away in d as in c: nothing that decides it changed.
SameTimes(c, d) ==
  d.minutes = c.minutes /\ d.days = c.days /\ d.eminutes = c.eminutes /\ d.edays = c.edays

LEMMA SameDelta ==
  ASSUME NEW c, NEW d, SameTimes(c, d)
  PROVE  remaining_event_delta_minutes(d) = remaining_event_delta_minutes(c)
  BY DEF SameTimes, remaining_event_delta_minutes, event_total_minutes, current_total_minutes

\* A minute that passes brings the event one minute closer.
LEMMA TimeStep ==
  ASSUME NEW c \in Huc3Devices
  PROVE  LET d == advance_huc3_rtc(c, 1)
             before == remaining_event_delta_minutes(c)
             after == remaining_event_delta_minutes(d)
         IN  /\ d \in Huc3Devices
             /\ d.seconds = (c.seconds + 1) % MinuteSeconds
             /\ after = IF d.seconds = 0
                        THEN (before + rtc_cycle_minutes - 1) % rtc_cycle_minutes
                        ELSE before
<1> DEFINE total == c.seconds + 1
           cur == current_total_minutes(c)
           ev == event_total_minutes(c)
           cycle == rtc_cycle_minutes
           moved == (cur + (total \div MinuteSeconds)) % cycle
           e == [c EXCEPT !.seconds = total % MinuteSeconds,
                          !.days = moved \div MinutesPerDay, !.minutes = moved % MinutesPerDay]
           d == advance_huc3_rtc(c, 1)
           before == remaining_event_delta_minutes(c)
           after == remaining_event_delta_minutes(d)
<1>1. d = sync_tracked_rtc_locations(e)
  BY DEF advance_huc3_rtc
<1>2. /\ cycle \in Nat \ {0} /\ cur \in 0 .. (cycle - 1) /\ ev \in 0 .. (cycle - 1)
      /\ before = IF cur <= ev THEN ev - cur ELSE ev + cycle - cur
      /\ before \in 0 .. (cycle - 1)
  BY Delta
<1>3. \/ total \div MinuteSeconds = 1 /\ total % MinuteSeconds = 0
      \/ /\ total \div MinuteSeconds = 0
         /\ total % MinuteSeconds \in 1 .. (MinuteSeconds - 1)
  <2>1. c.seconds \in 0 .. (MinuteSeconds - 1) /\ MinuteSeconds \in Nat \ {0}
    BY Huc3Units DEF Huc3Devices
  <2>2. CASE total < MinuteSeconds
    <3>1. total \div MinuteSeconds = 0 /\ total % MinuteSeconds = total
      BY <2>1, <2>2
    <3> QED BY <2>1, <2>2, <3>1
  <2>3. CASE total = MinuteSeconds
    <3>1. total % MinuteSeconds = 0 /\ total \div MinuteSeconds = 1
      BY <2>1, <2>3
    <3> QED BY <2>1, <2>3, <3>1
  <2> QED BY <2>1, <2>2, <2>3
<1>4. moved \in 0 .. (cycle - 1)
  <2> DEFINE x == cur + (total \div MinuteSeconds)
  <2> HIDE DEF cur, cycle
  <2>1. x \in Nat
    BY <1>2, <1>3
  <2> HIDE DEF x
  <2> QED BY <1>2, <2>1, ModSmall DEF x
<1>5. /\ moved \div MinutesPerDay \in 0 .. (DayModulus - 1)
      /\ moved % MinutesPerDay \in 0 .. (MinutesPerDay - 1)
      /\ (moved \div MinutesPerDay) * MinutesPerDay + (moved % MinutesPerDay) = moved
  <2> HIDE DEF moved
  <2> QED BY <1>4, SplitTotal
<1>6. total % MinuteSeconds \in 0 .. (MinuteSeconds - 1)
  BY <1>3, Huc3Units
<1>7. /\ e \in Huc3Devices /\ e.seconds = total % MinuteSeconds
      /\ e.days = moved \div MinutesPerDay /\ e.minutes = moved % MinutesPerDay
      /\ e.eminutes = c.eminutes /\ e.edays = c.edays
  <2> HIDE DEF moved, total
  <2> QED BY <1>5, <1>6 DEF Huc3Devices
<1> HIDE DEF e, d
<1>8. /\ d \in Huc3Devices /\ d.seconds = e.seconds /\ d.minutes = e.minutes /\ d.days = e.days
      /\ d.eminutes = c.eminutes /\ d.edays = c.edays
  BY <1>1, <1>7, Synced
<1>9. current_total_minutes(d) = moved /\ event_total_minutes(d) = ev
  <2> HIDE DEF moved
  <2> QED BY <1>5, <1>7, <1>8 DEF current_total_minutes, event_total_minutes
<1>10. after = IF moved <= ev THEN ev - moved ELSE ev + cycle - moved
  BY <1>8, <1>9, Delta
<1> HIDE DEF after, before, cur, ev, cycle
<1>11. CASE total \div MinuteSeconds = 0 /\ total % MinuteSeconds # 0
  <2>1. moved = cur
    BY <1>2, <1>11, ModSmall
  <2>2. d.seconds = total % MinuteSeconds /\ d.seconds # 0
    BY <1>7, <1>8, <1>11
  <2> HIDE DEF moved
  <2> QED BY <1>2, <1>8, <1>10, <2>1, <2>2 DEF after, before, d, cycle
<1>12. CASE total \div MinuteSeconds = 1 /\ total % MinuteSeconds = 0
  <2>1. moved = IF cur + 1 = cycle THEN 0 ELSE cur + 1
    <3>1. moved = (cur + 1) % cycle
      BY <1>12
    <3> DEFINE x == cur + 1
    <3>2. x \in Nat /\ x < cycle + cycle /\ x <= cycle
      BY <1>2
    <3> HIDE DEF x, moved
    <3>3. moved = IF x < cycle THEN x ELSE x - cycle
      BY <1>2, <3>1, <3>2, WrapOnce DEF x
    <3> QED BY <1>2, <3>2, <3>3 DEF x
  <2>2. (before + cycle - 1) % cycle = IF before = 0 THEN cycle - 1 ELSE before - 1
    <3> DEFINE x == before + cycle - 1
    <3>1. x \in Nat /\ x < cycle + cycle
      BY <1>2
    <3> HIDE DEF x
    <3>2. x % cycle = IF x < cycle THEN x ELSE x - cycle
      BY <1>2, <3>1, WrapOnce
    <3> QED BY <1>2, <3>2 DEF x
  <2>3. after = IF before = 0 THEN cycle - 1 ELSE before - 1
    <3> HIDE DEF moved
    <3> QED BY <1>2, <1>10, <2>1
  <2>4. d.seconds = total % MinuteSeconds /\ d.seconds = 0
    BY <1>7, <1>8, <1>12
  <2> QED BY <1>8, <1>12, <2>2, <2>3, <2>4 DEF after, before, d, cycle
<1> QED BY <1>3, <1>11, <1>12

\* Setting the clock through the window takes the event along.
LEMMA WindowStep ==
  ASSUME NEW c \in Huc3Devices
  PROVE  LET d == apply_io_window_current_time_preserving_event_delta(c)
         IN  d \in Huc3Devices
             /\ remaining_event_delta_minutes(d) = remaining_event_delta_minutes(c)
<1> DEFINE set == [c EXCEPT !.minutes = c.mcu[IoMinutes] % MinutesPerDay,
                            !.days = c.mcu[IoDays] % DayModulus, !.seconds = 0]
           delta == remaining_event_delta_minutes(c)
           cur == current_total_minutes(set)
           cycle == rtc_cycle_minutes
           total == (cur + delta) % cycle
           e == set_event_total_minutes(set, total)
           d == apply_io_window_current_time_preserving_event_delta(c)
<1>0. MinutesPerDay \in Nat \ {0} /\ DayModulus \in Nat \ {0} /\ MinuteSeconds \in Nat \ {0}
  BY Huc3Units
<1>1. d = sync_tracked_rtc_locations(e)
  BY DEF apply_io_window_current_time_preserving_event_delta
<1>2. /\ c.mcu[IoMinutes] % MinutesPerDay \in 0 .. (MinutesPerDay - 1)
      /\ c.mcu[IoDays] % DayModulus \in 0 .. (DayModulus - 1)
  <2>1. c.mcu[IoMinutes] \in Nat /\ c.mcu[IoDays] \in Nat
    BY DEF Huc3Devices, Triplets, IoMinutes, IoDays
  <2> QED BY <1>0, <2>1, ModSmall
<1>3. set \in Huc3Devices
  <2>1. 0 \in 0 .. (MinuteSeconds - 1)
    BY <1>0
  <2> DEFINE m == c.mcu[IoMinutes] % MinutesPerDay
             y == c.mcu[IoDays] % DayModulus
  <2> HIDE DEF m, y
  <2>2. m \in 0 .. (MinutesPerDay - 1) /\ y \in 0 .. (DayModulus - 1)
    BY <1>2 DEF m, y
  <2>3. [c EXCEPT !.minutes = m, !.days = y, !.seconds = 0] \in Huc3Devices
    BY <2>1, <2>2 DEF Huc3Devices
  <2> QED BY <2>3 DEF m, y
<1> HIDE DEF set
<1>4. cycle \in Nat \ {0} /\ cur \in 0 .. (cycle - 1) /\ delta \in 0 .. (cycle - 1)
  BY <1>3, Delta
<1> HIDE DEF cur, delta
<1>5. total = IF cur + delta < cycle THEN cur + delta ELSE cur + delta - cycle
  <2> DEFINE x == cur + delta
  <2> HIDE DEF cycle
  <2>1. x \in Nat /\ x < cycle + cycle
    BY <1>4
  <2> HIDE DEF x
  <2>2. x % cycle = IF x < cycle THEN x ELSE x - cycle
    BY <1>4, <2>1, WrapOnce
  <2>3. total = x % cycle
    BY DEF x
  <2> HIDE DEF total
  <2> QED BY <1>4, <2>1, <2>2, <2>3 DEF x
<1>6. total \in 0 .. (cycle - 1) /\ total % cycle = total
  <2> HIDE DEF cycle
  <2>1. total \in 0 .. (cycle - 1)
    <3> HIDE DEF total
    <3> QED BY <1>4, <1>5
  <2> HIDE DEF total
  <2> QED BY <1>4, <2>1, ModSmall
<1> HIDE DEF total
<1>7. /\ total \div MinutesPerDay \in 0 .. (DayModulus - 1)
      /\ total % MinutesPerDay \in 0 .. (MinutesPerDay - 1)
      /\ (total \div MinutesPerDay) * MinutesPerDay + (total % MinutesPerDay) = total
  BY <1>6, SplitTotal
<1>8. (total \div MinutesPerDay) % DayModulus = total \div MinutesPerDay
  BY <1>0, <1>7, ModSmall
<1>9. e = [set EXCEPT !.edays = total \div MinutesPerDay, !.eminutes = total % MinutesPerDay]
  BY <1>6, <1>8 DEF set_event_total_minutes
<1> HIDE DEF e, d
<1>10. /\ e \in Huc3Devices /\ e.edays = total \div MinutesPerDay
       /\ e.eminutes = total % MinutesPerDay
       /\ e.minutes = set.minutes /\ e.days = set.days
  BY <1>3, <1>7, <1>9 DEF Huc3Devices
<1>11. d \in Huc3Devices /\ SameTimes(e, d)
  BY <1>1, <1>10, Synced DEF SameTimes
<1>12. current_total_minutes(e) = cur /\ event_total_minutes(e) = total
  BY <1>7, <1>10 DEF current_total_minutes, event_total_minutes, cur
<1>13. remaining_event_delta_minutes(e) = IF cur <= total THEN total - cur ELSE total + cycle - cur
  BY <1>10, <1>12, Delta
<1>14. remaining_event_delta_minutes(e) = delta
  <2> HIDE DEF cycle
  <2> QED BY <1>4, <1>5, <1>13
<1> QED BY <1>11, <1>14, SameDelta DEF delta, d

\* A write to a triplet moves the event only if the triplet mirrors a time.
LEMMA McuStep ==
  ASSUME NEW c \in Huc3Devices, NEW t \in Triplets, NEW v \in Nat
  PROVE  LET d == write_mcu(c, t, v)
         IN  /\ d \in Huc3Devices
             /\ SameTimes(c, d) \/ t \in {CurMinutes, CurDays, EventMinutes, EventDays}
<1> DEFINE w == [c EXCEPT !.mcu[t] = v]
           d == write_mcu(c, t, v)
<1>0. MinutesPerDay \in Nat \ {0} /\ DayModulus \in Nat \ {0} /\ 0 \in 0 .. (MinuteSeconds - 1)
  BY Huc3Units
<1>1. w \in Huc3Devices /\ SameTimes(c, w)
  BY DEF Huc3Devices, SameTimes
<1>2. \A i \in Triplets : /\ w.mcu[i] % MinutesPerDay \in 0 .. (MinutesPerDay - 1)
                          /\ w.mcu[i] % DayModulus \in 0 .. (DayModulus - 1)
  <2> HIDE DEF w
  <2>1. \A i \in Triplets : w.mcu[i] \in Nat
    BY <1>1 DEF Huc3Devices
  <2> QED BY <1>0, <2>1, ModSmall
<1> DEFINE m(i) == w.mcu[i] % MinutesPerDay
           y(i) == w.mcu[i] % DayModulus
<1>3. /\ t \in {CurMinutes, CurDays} =>
           d = [w EXCEPT !.minutes = m(CurMinutes), !.days = y(CurDays), !.seconds = 0]
      /\ t \in {EventMinutes, EventDays} =>
           d = [w EXCEPT !.eminutes = m(EventMinutes), !.edays = y(EventDays)]
      /\ t \notin {CurMinutes, CurDays, EventMinutes, EventDays} => d = w
  BY DEF write_mcu, CurMinutes, CurDays, EventMinutes, EventDays
<1>4. /\ m(CurMinutes) \in 0 .. (MinutesPerDay - 1) /\ y(CurDays) \in 0 .. (DayModulus - 1)
      /\ m(EventMinutes) \in 0 .. (MinutesPerDay - 1) /\ y(EventDays) \in 0 .. (DayModulus - 1)
  BY <1>2 DEF Triplets, CurMinutes, CurDays, EventMinutes, EventDays
<1> HIDE DEF w, d, m, y
<1>5. CASE t \in {CurMinutes, CurDays}
  BY <1>0, <1>1, <1>3, <1>4, <1>5, ZenonT(30) DEF Huc3Devices, d
<1>6. CASE t \in {EventMinutes, EventDays}
  BY <1>1, <1>3, <1>4, <1>6, ZenonT(30) DEF Huc3Devices, d
<1>7. CASE t \notin {CurMinutes, CurDays, EventMinutes, EventDays}
  BY <1>1, <1>3, <1>7 DEF d
<1> QED BY <1>5, <1>6, <1>7

LEMMA MailboxStep ==
  ASSUME NEW c \in Huc3Devices
  PROVE  LET d == execute_mailbox_command(c)
         IN  /\ d \in Huc3Devices
             /\ \/ remaining_event_delta_minutes(d) = remaining_event_delta_minutes(c)
                \/ /\ c.command = 3
                   /\ c.access_address \in {CurMinutes, CurDays, EventMinutes, EventDays}
<1> DEFINE d == execute_mailbox_command(c)
<1>0. /\ c.access_address \in Triplets /\ c.argument \in Nat /\ c.mcu \in [Triplets -> Nat]
      /\ (c.access_address + 1) % 6 \in Triplets /\ c.argument % 6 \in Triplets
      /\ c.minutes \in Nat /\ c.days \in Nat
  BY Huc3Units DEF Huc3Devices, Triplets
<1>1. CASE c.command = 1
  <2>1. d = [c EXCEPT !.response = c.mcu[c.access_address],
                      !.access_address = (c.access_address + 1) % 6]
    BY <1>1 DEF execute_mailbox_command
  <2>2. c.mcu[c.access_address] \in Nat
    BY <1>0
  <2> HIDE DEF d
  <2>3. d \in Huc3Devices /\ SameTimes(c, d)
    BY <1>0, <2>1, <2>2 DEF Huc3Devices, SameTimes
  <2> QED BY <2>3, SameDelta DEF d
<1>2. CASE c.command = 3
  <2> DEFINE w == write_mcu(c, c.access_address, c.argument)
             a == (w.access_address + 1) % 6
  <2>1. d = [w EXCEPT !.access_address = a]
    BY <1>2 DEF execute_mailbox_command
  <2>2. /\ w \in Huc3Devices
        /\ \/ SameTimes(c, w)
           \/ c.access_address \in {CurMinutes, CurDays, EventMinutes, EventDays}
    BY <1>0, McuStep
  <2> HIDE DEF w
  <2>3. a \in Triplets
    BY <2>2 DEF Huc3Devices, Triplets
  <2> HIDE DEF d, a
  <2>4. d \in Huc3Devices /\ SameTimes(w, d)
    BY <2>1, <2>2, <2>3 DEF Huc3Devices, SameTimes
  <2>5. SameTimes(c, w) => SameTimes(c, d)
    BY <2>4 DEF SameTimes
  <2> QED BY <1>2, <2>2, <2>4, <2>5, SameDelta DEF d
<1>3. CASE c.command \in {4, 5}
  <2>1. d = [c EXCEPT !.access_address = c.argument % 6]
    BY <1>3 DEF execute_mailbox_command
  <2> HIDE DEF d
  <2>2. d \in Huc3Devices /\ SameTimes(c, d)
    BY <1>0, <2>1 DEF Huc3Devices, SameTimes
  <2> QED BY <2>2, SameDelta DEF d
<1>4. CASE c.command = 6 /\ c.argument = 0
  <2>1. d = [c EXCEPT !.mcu[IoMinutes] = c.minutes, !.mcu[IoDays] = c.days]
    BY <1>4 DEF execute_mailbox_command, copy_current_time_to_io_window
  <2> HIDE DEF d
  <2>2. d \in Huc3Devices /\ SameTimes(c, d)
    BY <1>0, <2>1 DEF Huc3Devices, SameTimes
  <2> QED BY <2>2, SameDelta DEF d
<1>5. CASE c.command = 6 /\ c.argument = 1
  <2>1. d = apply_io_window_current_time_preserving_event_delta(c)
    BY <1>5 DEF execute_mailbox_command
  <2> QED BY <2>1, WindowStep
<1>6. CASE c.command = 6 /\ c.argument = 2
  <2>1. d = [c EXCEPT !.response = 1]
    BY <1>6 DEF execute_mailbox_command
  <2> HIDE DEF d
  <2>2. d \in Huc3Devices /\ SameTimes(c, d)
    BY <1>0, <2>1 DEF Huc3Devices, SameTimes
  <2> QED BY <2>2, SameDelta DEF d
<1>7. CASE c.command \notin {1, 3, 4, 5} /\ ~(c.command = 6 /\ c.argument \in {0, 1, 2})
  <2>1. d = c
    BY <1>7 DEF execute_mailbox_command
  <2> QED BY <2>1
<1> QED BY <1>1, <1>2, <1>3, <1>4, <1>5, <1>6, <1>7

LEMMA Huc3AccessStep ==
  ASSUME cart \in Huc3Devices, Huc3Access
  PROVE  /\ cart' \in Huc3Devices
         /\ \/ remaining_event_delta_minutes(cart') = remaining_event_delta_minutes(cart)
            \/ /\ cart.select = "Semaphore" /\ cart.command = 3
               /\ cart.access_address \in {CurMinutes, CurDays, EventMinutes, EventDays}
<1>1. ASSUME NEW mode \in {"Ram", "Command", "Semaphore"}, cart' = huc3_write_select(cart, mode)
      PROVE  cart' \in Huc3Devices /\ SameTimes(cart, cart')
  BY <1>1 DEF huc3_write_select, Huc3Devices, SameTimes
<1>2. ASSUME NEW command \in {1, 3, 4, 6}, NEW argument \in McuValues,
             cart' = huc3_write_ram(cart, command, argument)
      PROVE  /\ cart' \in Huc3Devices
             /\ \/ SameTimes(cart, cart')
                \/ cart.select = "Semaphore" /\ cart' = execute_mailbox_command(cart)
  <2>1. argument \in Nat
    BY SlotInputs, Huc3Units
  <2>2. CASE cart.select = "Command"
    <3>1. cart' = [cart EXCEPT !.command = command, !.argument = argument]
      BY <1>2, <2>2 DEF huc3_write_ram
    <3>2. command \in Nat
      OBVIOUS
    <3>3. cart' \in Huc3Devices
      BY <2>1, <3>1, <3>2 DEF Huc3Devices
    <3>4. SameTimes(cart, cart')
      BY <3>1 DEF Huc3Devices, SameTimes
    <3> QED BY <3>3, <3>4
  <2>3. CASE cart.select = "Semaphore"
    <3>1. cart' = execute_mailbox_command(cart)
      BY <1>2, <2>3 DEF huc3_write_ram
    <3> QED BY <2>3, <3>1, MailboxStep
  <2>4. CASE cart.select \notin {"Command", "Semaphore"}
    BY <1>2, <2>4 DEF huc3_write_ram, SameTimes
  <2> QED BY <2>2, <2>3, <2>4
<1> QED BY <1>1, <1>2, SameDelta, MailboxStep DEF Huc3Access

\* A clock in its range is restored as it was saved.
LEMMA Huc3Restored ==
  ASSUME NEW c \in Huc3Devices, NEW new
  PROVE  huc3_restore(new, huc3_persistent_state(c)) = sync_tracked_rtc_locations(c)
<1> DEFINE e == [c EXCEPT !.minutes = @ % MinutesPerDay, !.days = @ % DayModulus,
                          !.seconds = @ % MinuteSeconds,
                          !.eminutes = @ % MinutesPerDay, !.edays = @ % DayModulus]
<1>1. /\ c.minutes % MinutesPerDay = c.minutes /\ c.eminutes % MinutesPerDay = c.eminutes
      /\ c.days % DayModulus = c.days /\ c.edays % DayModulus = c.edays
      /\ c.seconds % MinuteSeconds = c.seconds
  <2>1. /\ c.minutes \in 0 .. (MinutesPerDay - 1) /\ c.eminutes \in 0 .. (MinutesPerDay - 1)
        /\ c.days \in 0 .. (DayModulus - 1) /\ c.edays \in 0 .. (DayModulus - 1)
        /\ c.seconds \in 0 .. (MinuteSeconds - 1)
    BY DEF Huc3Devices
  <2>2. \A n \in Nat \ {0} : \A x \in 0 .. (n - 1) : x % n = x
    BY ModSmall
  <2> QED BY <2>1, <2>2, Huc3Units
<1>2. e = c
  BY <1>1 DEF Huc3Devices
<1>3. huc3_persistent_state(c).cart = c
  BY DEF huc3_persistent_state
<1>4. huc3_restore(new, huc3_persistent_state(c)) = sync_tracked_rtc_locations(e)
  BY <1>3 DEF huc3_restore
<1> QED BY <1>2, <1>4

-----------------------------------------------------------------------------
(* The Pocket Camera: what a capture in progress still owes.                 *)

CameraOk(c) ==
  /\ {"kind", "ram_enabled", "registers_selected", "exposure", "host_frame", "capture",
      "photo"} \subseteq DOMAIN c
  /\ c.kind = "Camera"
  /\ "name" \in DOMAIN c.capture
  /\ c.capture.name \in {"Idle", "Working", "Paused"}
  /\ c.capture.name # "Idle" => "left" \in DOMAIN c.capture /\ "tiles" \in DOMAIN c.capture

\* A capture that works or pauses owes what the history says, and shows the
\* moment it started.
Owes(c, hist) ==
  c.capture.name # "Idle" => c.capture.left = hist.due /\ c.capture.tiles = hist.framed

CameraInv(c, hist) == CameraOk(c) /\ DOMAIN hist = {"due", "framed"} /\ Owes(c, hist)

LEMMA Completed ==
  ASSUME NEW c, CameraOk(c)
  PROVE  LET r == maybe_complete_capture(c)
         IN  /\ CameraOk(r) /\ r.exposure = c.exposure /\ r.host_frame = c.host_frame
             /\ \/ r = c
                \/ /\ c.capture.name = "Working" /\ c.capture.left = 0
                   /\ r.capture.name = "Idle" /\ r.photo = c.capture.tiles
<1> DEFINE r == maybe_complete_capture(c)
<1>1. CASE capture_is_working(c) /\ c.capture.left = 0
  <2>1. r = [c EXCEPT !.photo = c.capture.tiles, !.capture = IdleCapture]
    BY <1>1 DEF maybe_complete_capture
  <2>2. "name" \in DOMAIN IdleCapture /\ IdleCapture.name = "Idle"
    BY DEF IdleCapture
  <2> QED BY <1>1, <2>1, <2>2 DEF CameraOk, capture_is_working
<1>2. CASE ~(capture_is_working(c) /\ c.capture.left = 0)
  BY <1>2 DEF maybe_complete_capture
<1> QED BY <1>1, <1>2

\* The steps of the camera, with the obligation they leave.
CameraGoesOn ==
  /\ CameraInv(cart', h')
  /\ cart.capture.name = "Working" /\ cart'.photo # cart.photo /\ cart'.photo[1] # "drawn"
       => h.due = 0 /\ cart'.photo = h.framed

LEMMA CameraTickStep ==
  ASSUME CameraInv(cart, h), CameraTick
  PROVE  CameraGoesOn
<1>1. /\ cart' = CameraTime(cart)
      /\ h' = IF capture_is_working(cart) /\ h.due > 0 THEN [h EXCEPT !.due = @ - 1] ELSE h
  BY DEF CameraTick
<1>2. CASE capture_is_working(cart) /\ h.due > 0
  <2>1. cart' = [cart EXCEPT !.capture.left = @ - 1] /\ h' = [h EXCEPT !.due = @ - 1]
    BY <1>1, <1>2 DEF CameraTime, CameraInv, Owes, capture_is_working
  <2>2. /\ CameraOk(cart') /\ cart'.photo = cart.photo
        /\ cart'.capture.left = cart.capture.left - 1
        /\ cart'.capture.tiles = cart.capture.tiles
    BY <1>2, <2>1 DEF CameraInv, CameraOk, capture_is_working
  <2>3. DOMAIN h' = {"due", "framed"} /\ h'.due = h.due - 1 /\ h'.framed = h.framed
    BY <2>1 DEF CameraInv
  <2> QED BY <1>2, <2>2, <2>3 DEF CameraInv, Owes, CameraGoesOn, capture_is_working
<1>3. CASE ~(capture_is_working(cart) /\ h.due > 0)
  BY <1>1, <1>3 DEF CameraTime, CameraInv, Owes, CameraGoesOn, capture_is_working
<1> QED BY <1>2, <1>3

LEMMA CameraAccessStep ==
  ASSUME CameraInv(cart, h), CameraAccess
  PROVE  CameraGoesOn
<1>1. CASE \/ \E on \in BOOLEAN : cart' = camera_write_enable(cart, on)
           \/ \E on \in BOOLEAN : cart' = camera_write_select(cart, on)
           \/ \E f \in Frames : cart' = set_pocket_camera_frame(cart, f)
  <2>1. CameraOk(cart') /\ cart'.photo = cart.photo /\ cart'.capture = cart.capture
    BY <1>1 DEF camera_write_enable, camera_write_select, set_pocket_camera_frame,
                CameraInv, CameraOk
  <2>2. h' = h
    BY DEF CameraAccess
  <2> QED BY <2>1, <2>2 DEF CameraInv, Owes, CameraGoesOn
<1>2. CASE cart' = camera_read_ram(cart)
  <2>1. h' = h
    BY DEF CameraAccess
  <2>2. /\ CameraOk(cart')
        /\ \/ cart' = cart
           \/ /\ cart.capture.name = "Working" /\ cart.capture.left = 0
              /\ cart'.capture.name = "Idle" /\ cart'.photo = cart.capture.tiles
    BY <1>2, Completed DEF camera_read_ram, CameraInv
  <2> QED BY <2>1, <2>2 DEF CameraInv, Owes, CameraGoesOn
<1> QED BY <1>1, <1>2 DEF CameraAccess

\* What one register write makes of a camera whose ready capture is done.
LEMMA RegisterWrite ==
  ASSUME NEW r, CameraOk(r), NEW busy \in BOOLEAN
  PROVE  LET d == write_register_0(r, busy)
         IN  /\ CameraOk(d) /\ d.photo = r.photo
             /\ \/ /\ r.capture.name = "Idle" /\ d.capture.name = "Working"
                   /\ d.capture.left = r.exposure
                   /\ d.capture.tiles = <<r.host_frame, r.exposure>>
                \/ /\ r.capture.name # "Idle"
                   /\ d.capture.left = r.capture.left /\ d.capture.tiles = r.capture.tiles
                \/ d = r
<1> DEFINE d == write_register_0(r, busy)
<1>1. CASE busy /\ r.capture.name = "Idle"
  <2> DEFINE new == [name |-> "Working", left |-> r.exposure,
                     tiles |-> <<r.host_frame, r.exposure>>]
  <2>1. d = [r EXCEPT !.capture = new]
    BY <1>1 DEF write_register_0, start_new_capture, capture_duration_t_cycles,
                build_capture_tiles, capture_is_working
  <2>2. /\ new.name = "Working" /\ new.left = r.exposure
        /\ new.tiles = <<r.host_frame, r.exposure>>
        /\ DOMAIN new = {"name", "left", "tiles"}
    OBVIOUS
  <2> HIDE DEF d, new
  <2>3. CameraOk(d) /\ d.photo = r.photo /\ d.capture = new
    BY <2>1, <2>2 DEF CameraOk
  <2> QED BY <1>1, <2>2, <2>3 DEF d
<1>2. CASE busy /\ r.capture.name = "Paused"
  <2>1. d = [r EXCEPT !.capture.name = "Working"]
    BY <1>2 DEF write_register_0, resume_capture, capture_is_working
  <2> QED BY <1>2, <2>1 DEF CameraOk
<1>3. CASE ~busy /\ capture_is_working(r)
  <2>1. d = [r EXCEPT !.capture.name = "Paused"]
    BY <1>3 DEF write_register_0, pause_capture
  <2> QED BY <1>3, <2>1 DEF CameraOk, capture_is_working
<1>4. CASE ~(busy /\ r.capture.name \in {"Idle", "Paused"}) /\ ~(~busy /\ capture_is_working(r))
  BY <1>4 DEF write_register_0
<1> QED BY <1>1, <1>2, <1>3, <1>4

LEMMA CameraWriteStep ==
  ASSUME CameraInv(cart, h), CameraWrite
  PROVE  CameraGoesOn
<1> DEFINE r == maybe_complete_capture(cart)
<1>1. PICK reg \in {0, 1}, busy \in BOOLEAN, v \in Exposures :
        cart' = camera_write_ram(cart, reg, busy, v)
  BY DEF CameraWrite
<1>2. h' = IF cart'.capture.name = "Working" /\ r.capture.name = "Idle"
           THEN [due |-> cart.exposure, framed |-> <<cart.host_frame, cart.exposure>>] ELSE h
  BY DEF CameraWrite
<1>3. /\ CameraOk(r) /\ r.exposure = cart.exposure /\ r.host_frame = cart.host_frame
      /\ \/ r = cart
         \/ /\ cart.capture.name = "Working" /\ cart.capture.left = 0
            /\ r.capture.name = "Idle" /\ r.photo = cart.capture.tiles
  BY Completed DEF CameraInv
<1>4. \/ cart' = write_register_0(r, busy)
      \/ cart' = [r EXCEPT !.exposure = v]
      \/ ~capture_is_working(r) /\ cart' = [r EXCEPT !.photo = <<"drawn", v>>]
      \/ cart' = r
  BY <1>1 DEF camera_write_ram
<1> HIDE DEF r
<1>5. Owes(r, h) /\ DOMAIN h = {"due", "framed"}
  BY <1>3 DEF CameraInv, Owes
<1>6. CASE cart' = write_register_0(r, busy)
  <2>1. /\ CameraOk(cart') /\ cart'.photo = r.photo
        /\ \/ /\ r.capture.name = "Idle" /\ cart'.capture.name = "Working"
              /\ cart'.capture.left = r.exposure
              /\ cart'.capture.tiles = <<r.host_frame, r.exposure>>
           \/ /\ r.capture.name # "Idle"
              /\ cart'.capture.left = r.capture.left /\ cart'.capture.tiles = r.capture.tiles
           \/ cart' = r
    BY <1>3, <1>6, RegisterWrite
  <2>2. Owes(cart', h') /\ DOMAIN h' = {"due", "framed"}
    <3>1. CASE cart'.capture.name = "Working" /\ r.capture.name = "Idle"
      <4>1. /\ h'.due = cart.exposure /\ h'.framed = <<cart.host_frame, cart.exposure>>
            /\ DOMAIN h' = {"due", "framed"}
        BY <1>2, <3>1
      <4>2. /\ cart'.capture.left = r.exposure
            /\ cart'.capture.tiles = <<r.host_frame, r.exposure>>
        BY <2>1, <3>1
      <4> QED BY <1>3, <4>1, <4>2 DEF Owes
    <3>2. CASE ~(cart'.capture.name = "Working" /\ r.capture.name = "Idle")
      BY <1>2, <1>5, <2>1, <3>2 DEF Owes
    <3> QED BY <3>1, <3>2
  <2>3. CASE r = cart
    BY <2>1, <2>2, <2>3 DEF CameraGoesOn, CameraInv
  <2>4. CASE r # cart
    BY <1>3, <2>1, <2>2, <2>4 DEF CameraGoesOn, CameraInv, Owes
  <2> QED BY <2>3, <2>4
<1>7. CASE cart' = [r EXCEPT !.exposure = v] \/ cart' = r
  <2>1. CameraOk(cart') /\ cart'.photo = r.photo /\ cart'.capture = r.capture
    BY <1>3, <1>7 DEF CameraOk
  <2>2. h' = h
    BY <1>2, <2>1
  <2> QED BY <1>3, <1>5, <2>1, <2>2 DEF CameraGoesOn, CameraInv, Owes
<1>8. CASE ~capture_is_working(r) /\ cart' = [r EXCEPT !.photo = <<"drawn", v>>]
  <2>1. CameraOk(cart') /\ cart'.photo = <<"drawn", v>> /\ cart'.capture = r.capture
    BY <1>3, <1>8 DEF CameraOk
  <2>2. h' = h
    BY <1>2, <2>1, <1>8 DEF capture_is_working
  <2> QED BY <1>3, <1>5, <2>1, <2>2 DEF CameraGoesOn, CameraInv, Owes
<1> QED BY <1>4, <1>6, <1>7, <1>8

LEMMA CameraNew ==
  /\ CameraInv(NewCamera, NoHistory("Camera"))
  /\ \A s : CameraInv(camera_restore(NewCamera, s), NoHistory("Camera"))
            /\ camera_restore(NewCamera, s).photo = s.photo
<1> DEFINE e == CHOOSE e \in Exposures : \A d \in Exposures : e <= d
<1>1. NewCamera = [kind |-> "Camera", ram_enabled |-> FALSE, registers_selected |-> FALSE,
                   exposure |-> e, host_frame |-> "blank", capture |-> IdleCapture,
                   photo |-> BlankPhoto]
  BY DEF NewCamera
<1> HIDE DEF e
<1>2. CameraOk(NewCamera) /\ NewCamera.capture = IdleCapture
  BY <1>1 DEF CameraOk, IdleCapture
<1>3. \A s : /\ CameraOk(camera_restore(NewCamera, s))
             /\ camera_restore(NewCamera, s).capture = IdleCapture
             /\ camera_restore(NewCamera, s).photo = s.photo
  BY <1>2 DEF CameraOk, camera_restore
<1>4. NoHistory("Camera") = [due |-> 0, framed |-> BlankPhoto]
  BY DEF NoHistory
<1>5. DOMAIN NoHistory("Camera") = {"due", "framed"} /\ IdleCapture.name = "Idle"
  BY <1>4 DEF IdleCapture
<1> QED BY <1>2, <1>3, <1>5 DEF CameraInv, Owes

-----------------------------------------------------------------------------
(* MBC6: the changes of the flash.                                           *)

FlashOk(c) ==
  /\ {"kind", "flash_enabled", "flash_write_enabled", "flash_bank", "sector0_protected",
      "flash_mode", "flash", "hidden"} \subseteq DOMAIN c
  /\ c.kind = "Mbc6" /\ c.flash \in [Offsets -> {0, 1}]
  /\ "name" \in DOMAIN c.flash_mode
  /\ c.flash_mode.name \in {"Program", "HiddenProgram"} =>
       {"block", "buffer", "written", "final_byte_seen"} \subseteq DOMAIN c.flash_mode

\* What a step from c to d may do to the cells.
LegalChange(c, d) ==
  LET changed == {o \in Offsets : d.flash[o] # c.flash[o]}
      set == {o \in changed : d.flash[o] = 1}
  IN  /\ 0 \in {SectorOf(o) : o \in changed} => c.flash_write_enabled /\ ~c.sector0_protected
      /\ set = {} => \A o, p \in changed : o \div BlockBytes = p \div BlockBytes
      /\ \A o \in set, p \in Offsets : SectorOf(o) = SectorOf(p) => d.flash[p] = 1
      /\ changed # {} => c.flash_mode.name \in {"EraseAwaitCommand", "Program"}

LEMMA NoChange ==
  ASSUME NEW c, NEW d, d.flash = c.flash
  PROVE  LegalChange(c, d)
  BY DEF LegalChange

\* The cells of a block are in one sector.
LEMMA BlockSector ==
  ASSUME NEW o \in Offsets
  PROVE  SectorOf((o \div BlockBytes) * BlockBytes) = SectorOf(o)
<1>0. BlockBytes \in Nat \ {0} /\ Blocks \in Nat \ {0} /\ SectorBlocks \in Nat \ {0}
  BY FlashGeometry
<1> DEFINE b == o \div BlockBytes
           base == b * BlockBytes
           S == BlockBytes * SectorBlocks
<1>1. FlashBytes \in Nat \ {0} /\ S \in Nat \ {0} /\ o \in Nat /\ o < FlashBytes
  BY <1>0 DEF FlashBytes, Offsets
<1>2. b \in Nat /\ base <= o /\ o < base + BlockBytes
  BY <1>0, <1>1, DivBounds
<1> HIDE DEF b
<1>3. base \in Nat /\ base < FlashBytes
  BY <1>0, <1>1, <1>2
<1> HIDE DEF base
<1>4. o % FlashBytes = o /\ base % FlashBytes = base
  BY <1>1, <1>3, ModSmall
<1> DEFINE q == base \div S
<1>5. q \in Nat /\ q * S <= base /\ base < q * S + S
  <2> HIDE DEF S
  <2> QED BY <1>1, <1>3, DivBounds
<1> HIDE DEF q
<1>6. o < q * S + S
  <2>1. (q + 1) * S = ((q + 1) * SectorBlocks) * BlockBytes
    BY <1>0, <1>5
  <2>2. (q + 1) * S = q * S + S
    BY <1>0, <1>5
  <2>3. b < (q + 1) * SectorBlocks
    <3> DEFINE e == (q + 1) * SectorBlocks
    <3>1. e \in Nat /\ b * BlockBytes < e * BlockBytes
      BY <1>0, <1>5, <2>1, <2>2 DEF base
    <3> HIDE DEF e
    <3> SUFFICES ASSUME b >= e PROVE FALSE
      BY <1>2, <3>1 DEF e
    <3>2. b * BlockBytes >= e * BlockBytes
      BY <1>0, <1>2, <3>1
    <3> QED BY <1>0, <1>2, <3>1, <3>2
  <2>4. (b + 1) * BlockBytes <= ((q + 1) * SectorBlocks) * BlockBytes
    <3> DEFINE e == (q + 1) * SectorBlocks
    <3>1. e \in Nat /\ b + 1 <= e
      BY <1>0, <1>2, <1>5, <2>3
    <3> HIDE DEF e
    <3>2. (b + 1) * BlockBytes <= e * BlockBytes
      BY <1>0, <1>2, <3>1
    <3> QED BY <3>2 DEF e
  <2>5. (b + 1) * BlockBytes = base + BlockBytes
    BY <1>0, <1>2 DEF base
  <2> HIDE DEF S
  <2> QED BY <1>0, <1>1, <1>2, <1>3, <1>5, <2>1, <2>2, <2>4, <2>5
<1>7. q * S <= o
  <2> HIDE DEF S
  <2> QED BY <1>1, <1>2, <1>3, <1>5
<1>8. o \div S = q
  <2> HIDE DEF S
  <2>1. \A p \in Nat : p * S <= o /\ o < p * S + S => o \div S = p
    BY <1>1
  <2> QED BY <1>5, <1>6, <1>7, <2>1
<1> QED BY <1>4, <1>8 DEF SectorOf, q, base, b

\* Erasing sets whole sectors, sector 0 only if it is open.
LEMMA EraseLegal ==
  ASSUME NEW c, FlashOk(c), NEW sectors, 0 \in sectors => Sector0Open(c),
         c.flash_mode.name = "EraseAwaitCommand"
  PROVE  FlashOk(erase(c, sectors)) /\ LegalChange(c, erase(c, sectors))
<1> DEFINE d == erase(c, sectors)
           f == [o \in Offsets |-> IF SectorOf(o) \in sectors THEN 1 ELSE c.flash[o]]
<1>1. d = [c EXCEPT !.flash = f, !.flash_mode = Status]
  BY DEF erase
<1>2. f \in [Offsets -> {0, 1}] /\ c.flash \in [Offsets -> {0, 1}]
  BY DEF FlashOk
<1>3. \A o \in Offsets : /\ SectorOf(o) \in sectors => f[o] = 1
                         /\ SectorOf(o) \notin sectors => f[o] = c.flash[o]
  OBVIOUS
<1>4. "name" \in DOMAIN Status /\ Status.name = "Status"
  BY DEF Status, Mode
<1> HIDE DEF f, d
<1>5. FlashOk(d) /\ d.flash = f
  BY <1>1, <1>2, <1>4 DEF FlashOk
<1>6. LegalChange(c, d)
  <2> DEFINE changed == {o \in Offsets : d.flash[o] # c.flash[o]}
  <2>1. \A o \in changed : SectorOf(o) \in sectors /\ d.flash[o] = 1
    BY <1>3, <1>5
  <2>2. 0 \in {SectorOf(o) : o \in changed} => c.flash_write_enabled /\ ~c.sector0_protected
    BY <2>1 DEF Sector0Open
  <2>3. \A o \in changed, p \in Offsets : SectorOf(o) = SectorOf(p) => d.flash[p] = 1
    BY <1>3, <1>5, <2>1
  <2> QED BY <2>1, <2>2, <2>3 DEF LegalChange
<1> QED BY <1>5, <1>6 DEF d

\* Programming clears cells of one block, in sector 0 only if it is open.
LEMMA CommitLegal ==
  ASSUME NEW c, FlashOk(c), NEW p, p.name = c.flash_mode.name,
         c.flash_mode.name \in {"Program", "HiddenProgram"}
  PROVE  LET d == commit_program_buffer(c, p)
         IN  FlashOk(d) /\ LegalChange(c, d)
<1> DEFINE d == commit_program_buffer(c, p)
           Cell(i, old) == IF i \in p.written /\ p.buffer[i] = 0 THEN 0 ELSE old
           base == p.block * BlockBytes
           f == [o \in Offsets |-> IF o \div BlockBytes = p.block
                                   THEN Cell(o - base, c.flash[o]) ELSE c.flash[o]]
           g == [o \in HiddenOffsets |-> Cell(o, c.hidden[o])]
<1>1. CASE p.name = "Program" /\ (SectorOf(base) # 0 \/ Sector0Open(c))
  <2>1. d = [c EXCEPT !.flash = f]
    BY <1>1 DEF commit_program_buffer
  <2>2. f \in [Offsets -> {0, 1}] /\ c.flash \in [Offsets -> {0, 1}]
    BY DEF FlashOk
  <2>3. \A o \in Offsets : f[o] # c.flash[o] => o \div BlockBytes = p.block /\ f[o] = 0
    OBVIOUS
  <2> HIDE DEF f, d
  <2>4. FlashOk(d) /\ d.flash = f
    BY <2>1, <2>2 DEF FlashOk
  <2> DEFINE changed == {o \in Offsets : d.flash[o] # c.flash[o]}
  <2>5. \A o \in changed : o \div BlockBytes = p.block /\ d.flash[o] # 1
    BY <2>3, <2>4
  <2>6. \A o \in changed : SectorOf(o) = SectorOf(base)
    BY <2>5, BlockSector
  <2>7. 0 \in {SectorOf(o) : o \in changed} => c.flash_write_enabled /\ ~c.sector0_protected
    <3> HIDE DEF base
    <3> QED BY <1>1, <2>6 DEF Sector0Open
  <2>8. LegalChange(c, d)
    BY <1>1, <2>5, <2>7 DEF LegalChange
  <2> QED BY <2>4, <2>8 DEF d
<1>2. CASE p.name = "HiddenProgram" /\ c.flash_write_enabled
  <2>1. d = [c EXCEPT !.hidden = g]
    BY <1>2 DEF commit_program_buffer
  <2> HIDE DEF g, d
  <2>2. FlashOk(d) /\ d.flash = c.flash
    BY <2>1 DEF FlashOk
  <2> QED BY <2>2, NoChange DEF d
<1>3. CASE ~(p.name = "Program" /\ (SectorOf(base) # 0 \/ Sector0Open(c)))
             /\ ~(p.name = "HiddenProgram" /\ c.flash_write_enabled)
  <2>1. d = c
    BY <1>3 DEF commit_program_buffer
  <2> QED BY <2>1, NoChange
<1> QED BY <1>1, <1>2, <1>3

LEMMA ProgramLegal ==
  ASSUME NEW c, FlashOk(c), NEW offset, NEW bit,
         c.flash_mode.name \in {"Program", "HiddenProgram"}
  PROVE  LET d == program_write(c, offset, bit)
         IN  FlashOk(d) /\ LegalChange(c, d)
<1> DEFINE hidden == c.flash_mode.name = "HiddenProgram"
           block == IF hidden THEN 0 ELSE offset \div BlockBytes
           Seed(i) == IF hidden THEN c.hidden[i] ELSE c.flash[(block * BlockBytes) + i]
           i == offset % BlockBytes
           seeded == [j \in BlockCells |-> Seed(j)]
           begun == IF c.flash_mode.block = block THEN c.flash_mode
                    ELSE [c.flash_mode EXCEPT !.block = block, !.final_byte_seen = FALSE,
                             !.written = {}, !.buffer = seeded]
           filled == [begun EXCEPT !.buffer[i] = bit, !.written = @ \cup {i},
                                   !.final_byte_seen = @ \/ i = BlockBytes - 1]
           d == program_write(c, offset, bit)
           Fields == {"name", "block", "buffer", "written", "final_byte_seen"}
<1>1. \/ d = [commit_program_buffer(c, filled) EXCEPT !.flash_mode = Status]
      \/ d = [c EXCEPT !.flash_mode = filled]
  BY DEF program_write
<1>2. Fields \subseteq DOMAIN c.flash_mode
  BY DEF FlashOk
<1> HIDE DEF block, seeded, i
<1>3. Fields \subseteq DOMAIN begun /\ begun.name = c.flash_mode.name
  BY <1>2
<1> HIDE DEF begun
<1>4. Fields \subseteq DOMAIN filled /\ filled.name = c.flash_mode.name
  BY <1>3
<1> HIDE DEF filled, d
<1>5. CASE d = [c EXCEPT !.flash_mode = filled]
  <2>1. FlashOk(d) /\ d.flash = c.flash
    BY <1>4, <1>5 DEF FlashOk
  <2> QED BY <2>1, NoChange DEF d
<1>6. CASE d = [commit_program_buffer(c, filled) EXCEPT !.flash_mode = Status]
  <2> DEFINE e == commit_program_buffer(c, filled)
  <2>1. FlashOk(e) /\ LegalChange(c, e)
    BY <1>4, CommitLegal
  <2>2. "name" \in DOMAIN Status /\ Status.name = "Status"
    BY DEF Status, Mode
  <2> HIDE DEF e
  <2>3. FlashOk(d) /\ d.flash = e.flash
    BY <1>6, <2>1, <2>2 DEF FlashOk, e
  <2> QED BY <2>1, <2>3 DEF LegalChange, d
<1> QED BY <1>1, <1>5, <1>6

\* A change of mode leaves the cells alone.
LEMMA ModeLegal ==
  ASSUME NEW c, FlashOk(c), NEW m, "name" \in DOMAIN m,
         m.name \in {"Program", "HiddenProgram"} =>
           {"block", "buffer", "written", "final_byte_seen"} \subseteq DOMAIN m
  PROVE  LET d == [c EXCEPT !.flash_mode = m]
         IN  FlashOk(d) /\ LegalChange(c, d)
<1> DEFINE d == [c EXCEPT !.flash_mode = m]
<1>1. FlashOk(d) /\ d.flash = c.flash
  BY DEF FlashOk
<1> QED BY <1>1, NoChange

PlainModes ==
  {"ReadArray", "Status", "IdMode", "HiddenReadMode", "AwaitUnlock2", "AwaitCommand",
   "EraseAwaitUnlock1", "EraseAwaitUnlock2", "EraseAwaitCommand", "ExtendedAwaitUnlock1",
   "ExtendedAwaitUnlock2", "ExtendedAwaitCommand", "HiddenReadAwaitUnlock1",
   "HiddenReadAwaitUnlock2", "HiddenReadAwaitCommand"}

LEMMA PlainLegal ==
  ASSUME NEW c, FlashOk(c), NEW n \in PlainModes
  PROVE  LET d == [c EXCEPT !.flash_mode = Mode(n)]
         IN  FlashOk(d) /\ LegalChange(c, d)
<1>1. "name" \in DOMAIN Mode(n) /\ Mode(n).name \notin {"Program", "HiddenProgram"}
  BY DEF Mode, PlainModes
<1> QED BY <1>1, ModeLegal

LEMMA NewProgramLegal ==
  ASSUME NEW c, FlashOk(c), NEW n \in {"Program", "HiddenProgram"}
  PROVE  LET d == [c EXCEPT !.flash_mode = NewProgram(n)]
         IN  FlashOk(d) /\ LegalChange(c, d)
<1>1. {"name", "block", "buffer", "written", "final_byte_seen"} \subseteq DOMAIN NewProgram(n)
  BY DEF NewProgram
<1> QED BY <1>1, ModeLegal

LEMMA RestartMode ==
  ASSUME NEW offset, NEW v
  PROVE  \E n \in PlainModes : restart_or_idle(offset, v) = Mode(n)
<1>1. "AwaitUnlock2" \in PlainModes /\ "ReadArray" \in PlainModes
  BY DEF PlainModes
<1> QED BY <1>1 DEF restart_or_idle

LEMMA PrimaryLegal ==
  ASSUME NEW c, FlashOk(c), NEW offset, NEW v
  PROVE  LET d == execute_primary_command(c, offset, v)
         IN  FlashOk(d) /\ LegalChange(c, d)
<1> DEFINE d == execute_primary_command(c, offset, v)
<1>1. \/ d = [c EXCEPT !.flash_mode = NewProgram("Program")]
      \/ d = [c EXCEPT !.flash_mode = restart_or_idle(offset, v)]
      \/ \E n \in {"EraseAwaitUnlock1", "IdMode", "ExtendedAwaitUnlock1",
                   "HiddenReadAwaitUnlock1"} : d = [c EXCEPT !.flash_mode = Mode(n)]
  BY DEF execute_primary_command
<1>2. {"EraseAwaitUnlock1", "IdMode", "ExtendedAwaitUnlock1", "HiddenReadAwaitUnlock1"}
        \subseteq PlainModes
  BY DEF PlainModes
<1> HIDE DEF d
<1>3. CASE \E n \in PlainModes : d = [c EXCEPT !.flash_mode = Mode(n)]
  BY <1>3, PlainLegal DEF d
<1>4. CASE d = [c EXCEPT !.flash_mode = NewProgram("Program")]
  BY <1>4, NewProgramLegal DEF d
<1> QED BY <1>1, <1>2, <1>3, <1>4, RestartMode

LEMMA EraseCommandLegal ==
  ASSUME NEW c, FlashOk(c), NEW offset, NEW v, c.flash_mode.name = "EraseAwaitCommand"
  PROVE  LET d == execute_erase_command(c, offset, v)
         IN  FlashOk(d) /\ LegalChange(c, d)
<1> DEFINE all == {SectorOf(o) : o \in Offsets} \ (IF Sector0Open(c) THEN {} ELSE {0})
           one == IF SectorOf(offset) = 0 /\ ~Sector0Open(c) THEN {} ELSE {SectorOf(offset)}
<1>1. \/ execute_erase_command(c, offset, v) = erase(c, all)
      \/ execute_erase_command(c, offset, v) = erase(c, one)
      \/ execute_erase_command(c, offset, v) = [c EXCEPT !.flash_mode = restart_or_idle(offset, v)]
  BY DEF execute_erase_command, erase_chip, erase_sector
<1>2. (0 \in all => Sector0Open(c)) /\ (0 \in one => Sector0Open(c))
  OBVIOUS
<1> HIDE DEF all, one
<1> QED BY <1>1, <1>2, EraseLegal, RestartMode, PlainLegal

LEMMA ExtendedLegal ==
  ASSUME NEW c, FlashOk(c), NEW v
  PROVE  LET d == execute_extended_command(c, v)
         IN  FlashOk(d) /\ LegalChange(c, d)
<1> DEFINE d == execute_extended_command(c, v)
           blank == [o \in HiddenOffsets |-> 1]
<1>0. /\ "Status" \in PlainModes /\ "ReadArray" \in PlainModes /\ Status = Mode("Status")
      /\ "name" \in DOMAIN Status /\ Status.name = "Status"
  BY DEF PlainModes, Status, Mode
<1>1. \/ d = [c EXCEPT !.flash_mode = Status]
      \/ d = [c EXCEPT !.hidden = blank, !.flash_mode = Status]
      \/ d = [c EXCEPT !.flash_mode = NewProgram("HiddenProgram")]
      \/ d = [c EXCEPT !.sector0_protected = v = "F20", !.flash_mode = Status]
      \/ d = [c EXCEPT !.flash_mode = Mode("ReadArray")]
  BY DEF execute_extended_command
<1> HIDE DEF d, blank
<1>2. CASE \/ d = [c EXCEPT !.hidden = blank, !.flash_mode = Status]
           \/ d = [c EXCEPT !.sector0_protected = v = "F20", !.flash_mode = Status]
  <2>1. FlashOk(d) /\ d.flash = c.flash
    BY <1>0, <1>2 DEF FlashOk
  <2> QED BY <2>1, NoChange DEF d
<1>3. CASE d = [c EXCEPT !.flash_mode = Status] \/ d = [c EXCEPT !.flash_mode = Mode("ReadArray")]
  BY <1>0, <1>3, PlainLegal DEF d
<1>4. CASE d = [c EXCEPT !.flash_mode = NewProgram("HiddenProgram")]
  BY <1>4, NewProgramLegal DEF d
<1> QED BY <1>1, <1>2, <1>3, <1>4

LEMMA WriteFlashLegal ==
  ASSUME NEW c, FlashOk(c), NEW offset, NEW v
  PROVE  LET d == write_flash(c, offset, v)
         IN  FlashOk(d) /\ LegalChange(c, d)
<1> DEFINE d == write_flash(c, offset, v)
           m == c.flash_mode.name
<1>1. \/ d = [c EXCEPT !.flash_mode = Mode("ReadArray")]
      \/ d = [c EXCEPT !.flash_mode = Mode("HiddenReadMode")]
      \/ m \in DOMAIN UnlockAANext /\ d = [c EXCEPT !.flash_mode = Mode(UnlockAANext[m])]
      \/ m \in DOMAIN Unlock55Next /\ d = [c EXCEPT !.flash_mode = Mode(Unlock55Next[m])]
      \/ d = execute_primary_command(c, offset, v)
      \/ d = execute_erase_command(c, offset, v) /\ m = "EraseAwaitCommand"
      \/ d = execute_extended_command(c, v)
      \/ d = program_write(c, offset, FlashCommands[v]) /\ m \in {"Program", "HiddenProgram"}
      \/ d = [c EXCEPT !.flash_mode = restart_or_idle(offset, v)]
  BY DEF write_flash
<1>2. /\ "ReadArray" \in PlainModes /\ "HiddenReadMode" \in PlainModes
      /\ \A x \in DOMAIN UnlockAANext : UnlockAANext[x] \in PlainModes
      /\ \A x \in DOMAIN Unlock55Next : Unlock55Next[x] \in PlainModes
  BY DEF PlainModes, UnlockAANext, Unlock55Next
<1> HIDE DEF d
<1>3. CASE \E n \in PlainModes : d = [c EXCEPT !.flash_mode = Mode(n)]
  BY <1>3, PlainLegal DEF d
<1> QED BY <1>1, <1>2, <1>3, PrimaryLegal, EraseCommandLegal, ExtendedLegal, ProgramLegal,
           RestartMode DEF d

LEMMA Mbc6Step ==
  ASSUME FlashOk(cart), Mbc6Access
  PROVE  FlashOk(cart') /\ LegalChange(cart, cart')
<1>1. CASE \/ \E on \in BOOLEAN : cart' = write_flash_write_enable(cart, on)
           \/ \E b \in 0 .. (Blocks - 1) : cart' = write_flash_bank(cart, b)
  <2>1. FlashOk(cart') /\ cart'.flash = cart.flash
    BY <1>1 DEF write_flash_write_enable, write_flash_bank, FlashOk
  <2> QED BY <2>1, NoChange
<1>2. CASE \E on \in BOOLEAN : cart' = write_flash_enable(cart, on)
  <2>1. PICK on \in BOOLEAN : cart' = write_flash_enable(cart, on)
    BY <1>2
  <2>2. "name" \in DOMAIN Mode("ReadArray") /\ Mode("ReadArray").name = "ReadArray"
    BY DEF Mode
  <2>3. FlashOk(cart') /\ cart'.flash = cart.flash
    BY <2>1, <2>2 DEF write_flash_enable, FlashOk
  <2> QED BY <2>3, NoChange
<1>3. CASE \E i \in BlockCells, v \in DOMAIN FlashCommands : cart' = write_flash_window(cart, i, v)
  <2>1. cart' = cart \/ \E offset, v : cart' = write_flash(cart, offset, v)
    BY <1>3 DEF write_flash_window
  <2> QED BY <2>1, NoChange, WriteFlashLegal
<1> QED BY <1>1, <1>2, <1>3 DEF Mbc6Access

LEMMA NewFlash ==
  /\ FlashOk(NewMbc6)
  /\ \A s : s.flash \in [Offsets -> {0, 1}] =>
       FlashOk(mbc6_restore(NewMbc6, s)) /\ mbc6_restore(NewMbc6, s).flash = s.flash
<1>1. FlashOk(NewMbc6)
  BY DEF NewMbc6, FlashOk, Mode
<1>2. ASSUME NEW s, s.flash \in [Offsets -> {0, 1}]
      PROVE  FlashOk(mbc6_restore(NewMbc6, s)) /\ mbc6_restore(NewMbc6, s).flash = s.flash
  BY <1>1, <1>2 DEF mbc6_restore, FlashOk
<1> QED BY <1>1, <1>2

-----------------------------------------------------------------------------
(* The slot.                                                                 *)

\* The device is of one of the families, and in the states of that family.
CartInv ==
  /\ cart.kind \in Kinds /\ "kind" \in DOMAIN cart
  /\ Is("Mmm01") => cart \in Mmm01Devices
  /\ Is("Mbc6") => FlashOk(cart)
  /\ Is("Huc3") => cart \in Huc3Devices
  /\ Is("Camera") => CameraInv(cart, h)

LEMMA Mmm01New ==
  NewMmm01 \in Mmm01Devices /\ ~NewMmm01.mapped
<1>1. /\ {} \in SUBSET Bits(MidBits) /\ {} \in SUBSET Bits(LowBits)
      /\ {} \in SUBSET (Bits(LowBits) \ {0})
      /\ [b \in RamBanks |-> 0] \in [RamBanks -> {0, 1}]
  OBVIOUS
<1> DEFINE f == [b \in RamBanks |-> 0]
<1> HIDE DEF f
<1>2. NewMmm01 = [kind |-> "Mmm01", mapped |-> FALSE, ram_enabled |-> FALSE, ram_bank_mask |-> {},
                  rom_bank_low |-> {}, rom_bank_mid |-> {}, ram_bank_low |-> {},
                  ram_bank_high |-> {}, rom_bank_high |-> {}, mode_write_disable |-> FALSE,
                  banking_mode |-> 0, rom_bank_mask |-> {}, multiplex_enabled |-> FALSE,
                  ram |-> f]
  BY DEF NewMmm01, f
<1>3. f \in [RamBanks -> {0, 1}]
  BY <1>1 DEF f
<1> QED BY <1>1, <1>2, <1>3 DEF Mmm01Devices

LEMMA Huc3New == NewHuc3 \in Huc3Devices
<1>1. /\ 0 \in 0 .. (MinutesPerDay - 1) /\ 0 \in 0 .. (DayModulus - 1)
      /\ 0 \in 0 .. (MinuteSeconds - 1) /\ 0 \in Triplets
      /\ [t \in Triplets |-> 0] \in [Triplets -> Nat]
  BY Huc3Units DEF Triplets
<1> QED BY <1>1 DEF NewHuc3, Huc3Devices

LEMMA CartInit == Init => CartInv
<1> SUFFICES ASSUME Init PROVE CartInv
  OBVIOUS
<1>1. PICK k \in Kinds : cart = NewDevice(k) /\ h = NoHistory(k)
  BY DEF Init
<1>2. cart.kind = k /\ "kind" \in DOMAIN cart
  BY <1>1, NewKind
<1>3. CASE k = "Mmm01"
  BY <1>1, <1>2, <1>3, Mmm01New DEF CartInv, Is, NewDevice
<1>4. CASE k = "Mbc6"
  BY <1>1, <1>2, <1>4, NewFlash DEF CartInv, Is, NewDevice
<1>5. CASE k = "Huc3"
  BY <1>1, <1>2, <1>5, Huc3New DEF CartInv, Is, NewDevice
<1>6. CASE k = "Camera"
  <2>1. cart = NewCamera
    BY <1>1, <1>6 DEF NewDevice
  <2> QED BY <1>1, <1>2, <1>6, <2>1, CameraNew DEF CartInv, Is
<1>7. CASE k \notin {"Mmm01", "Mbc6", "Huc3", "Camera"}
  BY <1>1, <1>2, <1>7 DEF CartInv, Is
<1> QED BY <1>3, <1>4, <1>5, <1>6, <1>7

\* Switching the machine off and on again, per family.
LEMMA PowerStep ==
  ASSUME CartInv, PowerCycle
  PROVE  /\ CartInv'
         /\ Is("Mmm01") => ~cart'.mapped
         /\ Is("M161") => ~cart'.bank_switch_locked
         /\ Is("Mbc6") => cart'.flash = cart.flash
         /\ Is("Huc3") => SameTimes(cart, cart')
         /\ Is("Camera") => cart'.photo = cart.photo
<1> DEFINE new == NewDevice(cart.kind)
           s == persistent_state(cart)
<1>1. cart' = restore_persistent_state(new, s)
  BY DEF PowerCycle
<1>2. cart'.kind = cart.kind /\ "kind" \in DOMAIN cart' /\ cart.kind \in Kinds
      /\ new.kind = cart.kind
  BY RestoredKind, NewKind DEF CartInv, SameKind
<1>3. CASE cart.kind = "Mmm01"
  <2>1. /\ new = NewMmm01 /\ s = [kind |-> cart.kind, ram |-> cart.ram]
    BY <1>3 DEF NewDevice, persistent_state
  <2> HIDE DEF new, s
  <2>2. cart' = [new EXCEPT !.ram = s.ram]
    BY <1>1, <1>2, <1>3 DEF restore_persistent_state
  <2>3. s.ram \in [RamBanks -> {0, 1}]
    BY <1>3, <2>1 DEF CartInv, Is, Mmm01Devices
  <2>4. cart' \in Mmm01Devices /\ cart'.mapped = new.mapped
    BY <2>1, <2>2, <2>3, Mmm01New DEF Mmm01Devices
  <2> QED BY <1>2, <1>3, <2>1, <2>4, Mmm01New DEF CartInv, Is
<1>4. CASE cart.kind = "M161"
  <2>1. new = NewM161
    BY <1>4 DEF NewDevice
  <2> HIDE DEF new, s
  <2>2. cart' = new
    BY <1>1, <1>2, <1>4 DEF restore_persistent_state
  <2> QED BY <1>2, <1>4, <2>1, <2>2 DEF CartInv, Is, NewM161
<1>5. CASE cart.kind = "Mbc6"
  <2>1. new = NewMbc6 /\ s = mbc6_persistent_state(cart)
    BY <1>5 DEF NewDevice, persistent_state
  <2>2. s.flash = cart.flash /\ cart.flash \in [Offsets -> {0, 1}]
    BY <1>5, <2>1 DEF mbc6_persistent_state, CartInv, Is, FlashOk
  <2> HIDE DEF new, s
  <2>3. cart' = mbc6_restore(new, s)
    BY <1>1, <1>2, <1>5 DEF restore_persistent_state
  <2> QED BY <1>2, <1>5, <2>1, <2>2, <2>3, NewFlash DEF CartInv, Is
<1>6. CASE cart.kind = "Huc3"
  <2>1. s = huc3_persistent_state(cart)
    BY <1>6 DEF persistent_state
  <2> HIDE DEF new, s
  <2>2. cart' = huc3_restore(new, s)
    BY <1>1, <1>2, <1>6 DEF restore_persistent_state
  <2>3. cart \in Huc3Devices
    BY <1>6 DEF CartInv, Is
  <2>4. cart' = sync_tracked_rtc_locations(cart)
    BY <2>1, <2>2, <2>3, Huc3Restored
  <2>5. cart' \in Huc3Devices /\ SameTimes(cart, cart')
    BY <2>3, <2>4, Synced DEF SameTimes
  <2> QED BY <1>2, <1>6, <2>5 DEF CartInv, Is
<1>7. CASE cart.kind = "Camera"
  <2>1. new = NewCamera /\ s = camera_persistent_state(cart)
    BY <1>7 DEF NewDevice, persistent_state
  <2>2. s.photo = cart.photo
    BY <2>1 DEF camera_persistent_state
  <2>3. h' = NoHistory("Camera")
    BY <1>7 DEF PowerCycle, Is
  <2> HIDE DEF new, s
  <2>4. cart' = camera_restore(new, s)
    BY <1>1, <1>2, <1>7 DEF restore_persistent_state
  <2> QED BY <1>2, <1>7, <2>1, <2>2, <2>3, <2>4, CameraNew DEF CartInv, Is
<1>8. CASE cart.kind \notin {"Mmm01", "M161", "Mbc6", "Huc3", "Camera"}
  BY <1>2, <1>8 DEF CartInv, Is
<1> QED BY <1>3, <1>4, <1>5, <1>6, <1>7, <1>8

LEMMA DeviceKind ==
  /\ \A c \in Mmm01Devices \cup Huc3Devices : "kind" \in DOMAIN c
  /\ \A c \in Mmm01Devices : c.kind = "Mmm01"
  /\ \A c \in Huc3Devices : c.kind = "Huc3"
  /\ \A c : FlashOk(c) => "kind" \in DOMAIN c /\ c.kind = "Mbc6"
  /\ \A c : CameraOk(c) => "kind" \in DOMAIN c /\ c.kind = "Camera"
<1>1. \A c \in Mmm01Devices : c.kind = "Mmm01" /\ "kind" \in DOMAIN c
  BY DEF Mmm01Devices
<1>2. \A c \in Huc3Devices : c.kind = "Huc3" /\ "kind" \in DOMAIN c
  BY DEF Huc3Devices
<1> QED BY <1>1, <1>2 DEF FlashOk, CameraOk

LEMMA CartStep ==
  ASSUME CartInv, Next
  PROVE  CartInv'
<1>0. cart.kind \in Kinds /\ "kind" \in DOMAIN cart
  BY DEF CartInv
<1>1. CASE PowerCycle
  BY <1>1, PowerStep
<1>2. CASE ~PowerCycle
  <2>1. CASE Is("Mmm01")
    <3>1. cart' \in Mmm01Devices
      BY <1>2, <2>1, StepOfKind, Mmm01Step DEF CartInv
    <3> QED BY <1>0, <2>1, <3>1, DeviceKind DEF CartInv, Is
  <2>2. CASE Is("Mbc6")
    <3>1. FlashOk(cart')
      BY <1>2, <2>2, StepOfKind, Mbc6Step DEF CartInv
    <3> QED BY <1>0, <2>2, <3>1, DeviceKind DEF CartInv, Is
  <2>3. CASE Is("Huc3")
    <3>1. cart' \in Huc3Devices
      BY <1>2, <2>3, StepOfKind, Huc3AccessStep, TimeStep DEF CartInv, Huc3Time
    <3> QED BY <1>0, <2>3, <3>1, DeviceKind DEF CartInv, Is
  <2>4. CASE Is("Camera")
    <3>1. CameraInv(cart', h')
      BY <1>2, <2>4, StepOfKind, CameraTickStep, CameraAccessStep, CameraWriteStep
         DEF CartInv, CameraGoesOn
    <3> QED BY <1>0, <2>4, <3>1, DeviceKind DEF CartInv, CameraInv, Is
  <2>5. CASE ~(Is("Mmm01") \/ Is("Mbc6") \/ Is("Huc3") \/ Is("Camera"))
    <3>1. ~(Mbc6Access \/ Huc3Access \/ Huc3Time \/ CameraAccess \/ CameraWrite \/ CameraTick)
      BY <2>5 DEF Mbc6Access, Huc3Access, Huc3Time, CameraAccess, CameraWrite, CameraTick
    <3>2. SameKind(cart, cart')
      BY <1>0, <3>1, KindStep
    <3> QED BY <1>0, <2>5, <3>2 DEF CartInv, Is, SameKind
  <2> QED BY <2>1, <2>2, <2>3, <2>4, <2>5
<1> QED BY <1>1, <1>2

-----------------------------------------------------------------------------
(* The theorems.                                                             *)

\* The inserted device stays in the states of its family, through every
\* access, every tick and every power cycle.
THEOREM CartInvariant == Spec => []CartInv
<1>1. CartInv /\ UNCHANGED vars => CartInv'
  BY DEF CartInv, Is, vars
<1>2. CartInv /\ [Next]_vars => CartInv'
  BY <1>1, CartStep
<1> QED BY <1>2, CartInit, PTL DEF Spec

\* A save restored into a fresh device of any family is saved again as it
\* was; a HuC-3 save with its mirrors rewritten from the clock.
THEOREM SaveAlwaysRoundTrips == Spec => []SaveRoundTrips
<1>1. CartInv => SaveRoundTrips
  <2> SUFFICES ASSUME CartInv PROVE SaveRoundTrips
    OBVIOUS
  <2> DEFINE k == cart.kind
             new == NewDevice(k)
             s == persistent_state(cart)
             d == restore_persistent_state(new, s)
             back == persistent_state(d)
  <2>0. new.kind = k /\ "kind" \in DOMAIN new /\ k \in Kinds
    BY NewKind DEF CartInv
  <2>1. CASE k = "Huc3"
    <3>1. s = huc3_persistent_state(cart)
      BY <2>1 DEF persistent_state
    <3>2. d = huc3_restore(new, s)
      BY <2>0, <2>1 DEF restore_persistent_state
    <3>3. cart \in Huc3Devices
      BY <2>1 DEF CartInv, Is
    <3> HIDE DEF new, s
    <3>4. d = sync_tracked_rtc_locations(cart)
      BY <3>1, <3>2, <3>3, Huc3Restored
    <3> HIDE DEF d
    <3>5. d.kind = "Huc3"
      BY <3>3, <3>4, Synced, DeviceKind
    <3>6. back = huc3_persistent_state(d)
      BY <3>5 DEF persistent_state
    <3>7. back.cart = d /\ s.cart = cart
      BY <3>1, <3>6 DEF huc3_persistent_state
    <3> QED BY <2>1, <3>4, <3>7 DEF SaveRoundTrips, Is, d, new, s
  <2>2. CASE k = "Mbc3"
    <3>1. s = mbc3_persistent_state(cart) /\ new = NewMbc3
      BY <2>2 DEF persistent_state, NewDevice
    <3>2. d = mbc3_restore(new, s)
      BY <2>0, <2>2 DEF restore_persistent_state
    <3> HIDE DEF new, d
    <3>3. d.kind = "Mbc3" /\ d.ram = s.ram /\ d.rtc_live = s.rtc
      BY <3>1, <3>2 DEF mbc3_restore, NewMbc3
    <3>4. back = mbc3_persistent_state(d)
      BY <3>3 DEF persistent_state
    <3>5. back = s
      BY <3>1, <3>3, <3>4 DEF mbc3_persistent_state
    <3> QED BY <2>2, <3>5 DEF SaveRoundTrips, Is, d, new
  <2>3. CASE k = "Mbc6"
    <3>1. s = mbc6_persistent_state(cart) /\ new = NewMbc6
      BY <2>3 DEF persistent_state, NewDevice
    <3>2. d = mbc6_restore(new, s)
      BY <2>0, <2>3 DEF restore_persistent_state
    <3> HIDE DEF new, d
    <3>3. /\ d.kind = "Mbc6" /\ d.flash = s.flash /\ d.hidden = s.hidden
          /\ d.sector0_protected = s.sector0_protected
      BY <3>1, <3>2 DEF mbc6_restore, NewMbc6
    <3>4. back = mbc6_persistent_state(d)
      BY <3>3 DEF persistent_state
    <3>5. back = s
      BY <3>1, <3>3, <3>4 DEF mbc6_persistent_state
    <3> QED BY <2>3, <3>5 DEF SaveRoundTrips, Is, d, new
  <2>4. CASE k = "Mbc7"
    <3>1. s = mbc7_persistent_state(cart) /\ new = NewMbc7
      BY <2>4 DEF persistent_state, NewDevice
    <3>2. d = mbc7_restore(new, s)
      BY <2>0, <2>4 DEF restore_persistent_state
    <3> HIDE DEF new, d
    <3>3. d.kind = "Mbc7" /\ d.eeprom = s.eeprom
      BY <3>1, <3>2 DEF mbc7_restore, NewMbc7
    <3>4. back = mbc7_persistent_state(d)
      BY <3>3 DEF persistent_state
    <3>5. back = s
      BY <3>1, <3>3, <3>4 DEF mbc7_persistent_state
    <3> QED BY <2>4, <3>5 DEF SaveRoundTrips, Is, d, new
  <2>5. CASE k = "Camera"
    <3>1. s = camera_persistent_state(cart) /\ new = NewCamera
      BY <2>5 DEF persistent_state, NewDevice
    <3>2. d = camera_restore(new, s)
      BY <2>0, <2>5 DEF restore_persistent_state
    <3> HIDE DEF d
    <3>3. d.photo = s.photo /\ d.kind = "Camera"
      BY <3>1, <3>2, CameraNew, DeviceKind DEF CameraInv
    <3>4. back = camera_persistent_state(d)
      BY <3>3 DEF persistent_state
    <3>5. back = s
      BY <3>1, <3>3, <3>4 DEF camera_persistent_state
    <3> QED BY <2>5, <3>5 DEF SaveRoundTrips, Is, d
  <2>6. CASE k = "M161"
    <3>1. s = [kind |-> "None"]
      BY <2>6 DEF persistent_state
    <3>2. d = new
      BY <2>0, <2>6 DEF restore_persistent_state
    <3> HIDE DEF new, d
    <3>3. back = [kind |-> "None"]
      BY <2>0, <2>6, <3>2 DEF persistent_state
    <3> QED BY <2>6, <3>1, <3>3 DEF SaveRoundTrips, Is, d, new
  <2>7. CASE k \notin {"Mbc3", "Mbc6", "Mbc7", "Huc3", "Camera", "M161"}
    <3>1. s = [kind |-> k, ram |-> cart.ram]
      BY <2>7 DEF persistent_state
    <3>2. d = [new EXCEPT !.ram = s.ram]
      BY <2>0, <2>7 DEF restore_persistent_state
    <3>3. "ram" \in DOMAIN new
      <4>1. new = NewMmm01 \/ new = NewBanked(k)
        BY <2>7 DEF NewDevice
      <4> QED BY <4>1 DEF NewMmm01, NewBanked
    <3> HIDE DEF new, d
    <3>4. d.kind = k /\ d.ram = s.ram
      BY <2>0, <3>2, <3>3
    <3>5. back = [kind |-> d.kind, ram |-> d.ram]
      BY <2>7, <3>4 DEF persistent_state
    <3>6. back = s
      BY <3>1, <3>4, <3>5
    <3> QED BY <2>7, <3>6 DEF SaveRoundTrips, Is, d, new
  <2> QED BY <2>1, <2>2, <2>3, <2>4, <2>5, <2>6, <2>7
<1> QED BY <1>1, CartInvariant, PTL

\* Once a game is mapped, no write moves either ROM window outside the banks
\* its lock masks leave open; an M161 keeps the bank its first write chose.
THEOREM GameAlwaysInItsWindow == Spec => GameStaysInItsWindow
<1> DEFINE A == /\ Is("Mmm01") /\ cart.mapped /\ cart'.mapped =>
                     /\ LockedBits(cart') = LockedBits(cart)
                     /\ \A bank \in {mmm01_effective_high_rom_bank(cart'),
                                     mmm01_effective_low_rom_bank(cart')} :
                           bank \cap LockedBits(cart)
                             = mmm01_effective_high_rom_bank(cart) \cap LockedBits(cart)
                /\ Is("M161") /\ cart.bank_switch_locked /\ cart'.bank_switch_locked =>
                     cart'.selected_bank = cart.selected_bank
<1>1. CartInv /\ Next => A
  <2> SUFFICES ASSUME CartInv, Next PROVE A
    OBVIOUS
  <2>1. CASE PowerCycle
    BY <2>1, PowerStep
  <2>2. CASE ~PowerCycle /\ Is("Mmm01")
    <3>1. /\ cart \in Mmm01Devices /\ cart' \in Mmm01Devices
          /\ cart.mapped => Kept(cart, cart')
      BY <2>2, StepOfKind, Mmm01Step DEF CartInv
    <3> QED BY <2>2, <3>1, KeptBanks DEF Is
  <2>3. CASE ~PowerCycle /\ Is("M161")
    <3>1. M161Write
      BY <2>3, StepOfKind
    <3> QED BY <2>3, <3>1 DEF M161Write, m161_write_rom, Is
  <2> QED BY <2>1, <2>2, <2>3
<1> QED BY <1>1, CartInvariant, PTL DEF Spec, GameStaysInItsWindow

\* Flash cells change only as the chip allows, for every geometry.
THEOREM FlashAlwaysLegal == Spec => FlashChangesAreLegal
<1>1. CartInv /\ Next => (Is("Mbc6") => LegalChange(cart, cart'))
  <2>1. CartInv /\ PowerCycle => (Is("Mbc6") => LegalChange(cart, cart'))
    BY PowerStep, NoChange
  <2> QED BY <2>1, StepOfKind, Mbc6Step DEF CartInv
<1> QED BY <1>1, CartInvariant, PTL DEF Spec, FlashChangesAreLegal, LegalChange

\* The HuC-3 event comes one minute closer with every second that completes
\* a minute and keeps its distance in every other step that does not store
\* into it, for every length of the minute, the day and the cycle.
THEOREM EventAlwaysKeepsItsDistance == Spec => EventKeepsItsDistance
<1> DEFINE A == Is("Huc3") =>
                  LET before == remaining_event_delta_minutes(cart)
                      after == remaining_event_delta_minutes(cart')
                  IN  /\ Huc3Time =>
                           /\ cart'.seconds = (cart.seconds + 1) % MinuteSeconds
                           /\ after = IF cart'.seconds = 0
                                      THEN (before + rtc_cycle_minutes - 1) % rtc_cycle_minutes
                                      ELSE before
                      /\ ~Huc3Time /\ ~StoresTime => after = before
<1>1. CartInv /\ Next => A
  <2> SUFFICES ASSUME CartInv, Next, Is("Huc3") PROVE A
    OBVIOUS
  <2>1. cart \in Huc3Devices
    BY DEF CartInv
  <2>2. CASE PowerCycle /\ ~Huc3Time
    BY <2>2, PowerStep, SameDelta
  <2>3. CASE Huc3Access /\ ~Huc3Time
    BY <2>1, <2>3, Huc3AccessStep DEF StoresTime
  <2>4. CASE Huc3Time
    <3>1. cart' = advance_huc3_rtc(cart, 1)
      BY <2>4 DEF Huc3Time
    <3> QED BY <2>1, <2>4, <3>1, TimeStep
  <2> QED BY <2>2, <2>3, <2>4, StepOfKind
<1> QED BY <1>1, CartInvariant, PTL DEF Spec, EventKeepsItsDistance

\* A photo reaches RAM only after its whole exposure, and shows the frame and
\* exposure of the moment the capture started.
THEOREM ExposureAlwaysServed == Spec => ExposureIsServed
<1> DEFINE A == Is("Camera") /\ cart.capture.name = "Working" /\ cart'.photo # cart.photo
                  /\ cart'.photo[1] # "drawn" => h.due = 0 /\ cart'.photo = h.framed
<1>1. CartInv /\ Next => A
  <2> SUFFICES ASSUME CartInv, Next, Is("Camera") PROVE A
    OBVIOUS
  <2>1. CameraInv(cart, h)
    BY DEF CartInv
  <2>2. CASE PowerCycle
    BY <2>2, PowerStep
  <2>3. CASE CameraAccess \/ CameraWrite \/ CameraTick
    BY <2>1, <2>3, CameraAccessStep, CameraWriteStep, CameraTickStep DEF CameraGoesOn
  <2> QED BY <2>2, <2>3, StepOfKind
<1> QED BY <1>1, CartInvariant, PTL DEF Spec, ExposureIsServed

-----------------------------------------------------------------------------
(* Induction over the naturals, from their well-foundedness.                 *)

\* A nonempty set of naturals has a least element.
LEMMA LeastNatural ==
  ASSUME NEW T, T \subseteq Nat, T # {}
  PROVE  \E m \in T : \A k \in T : m <= k
<1>1. IsWellFoundedOn(OpToRel(<,Nat), Nat)
  BY NatLessThanWellFounded, Zenon
<1>2. PICK x \in T : \A y \in T : ~ (<<y, x>> \in OpToRel(<,Nat))
  BY <1>1, WFMin, Zenon
<1>3. \A y \in T : ~(y < x)
  BY <1>2, Zenon DEF OpToRel
<1> QED BY <1>3

\* Induction with a set in the place of a predicate.
LEMMA SetInduction ==
  ASSUME NEW T, 0 \in T, \A n \in Nat : n \in T => n + 1 \in T
  PROVE  Nat \subseteq T
<1> DEFINE B == Nat \ T
<1>1. SUFFICES ASSUME B # {} PROVE FALSE
  OBVIOUS
<1>2. PICK m \in B : \A k \in B : m <= k
  BY <1>1, LeastNatural
<1> QED BY <1>2

\* A function applied again and again, as a function of how often.
Iterations(S, F, r, n) ==
  {f \in [0 .. n -> S] : f[0] = r /\ \A k \in 1 .. n : f[k] = F[f[k - 1]]}

\* There is such a function for every number of applications.
LEMMA Iterates ==
  ASSUME NEW S, NEW F, F \in [S -> S], NEW r \in S, NEW n \in Nat
  PROVE  \E f : f \in Iterations(S, F, r, n)
<1> DEFINE Iter(f, m) == f[0] = r /\ \A k \in 1 .. m : f[k] = F[f[k - 1]]
           T == {m \in Nat : \E f \in [0 .. m -> S] : Iter(f, m)}
<1>1. 0 \in T
  <2>1. [k \in 0 .. 0 |-> r] \in [0 .. 0 -> S] /\ Iter([k \in 0 .. 0 |-> r], 0)
    OBVIOUS
  <2> QED BY <2>1
<1>2. ASSUME NEW m \in Nat, m \in T PROVE m + 1 \in T
  <2>1. PICK f \in [0 .. m -> S] : Iter(f, m)
    BY <1>2
  <2> DEFINE g == [k \in 0 .. (m + 1) |-> IF k = m + 1 THEN F[f[m]] ELSE f[k]]
  <2>2. g \in [0 .. (m + 1) -> S]
    OBVIOUS
  <2>3. g[0] = r
    BY <2>1
  <2>4. \A k \in 1 .. (m + 1) : g[k] = F[g[k - 1]]
    BY <2>1
  <2>5. Iter(g, m + 1)
    BY <2>3, <2>4
  <2> HIDE DEF g, Iter
  <2> QED BY <2>2, <2>5
<1> HIDE DEF T
<1>3. Nat \subseteq T
  BY <1>1, <1>2, SetInduction
<1> QED BY <1>3 DEF T, Iterations

\* Quotient and remainder are the only such split.
LEMMA DivUnique ==
  ASSUME NEW b \in Nat \ {0}, NEW q \in Nat, NEW r \in 0 .. (b - 1)
  PROVE  (q * b + r) \div b = q /\ (q * b + r) % b = r
<1> DEFINE x == q * b + r
           p == x \div b
           s == x % b
<1>1. q * b \in Nat /\ x \in Nat
  OBVIOUS
<1>2. s \in 0 .. (b - 1) /\ p \in Nat /\ x = p * b + s
  BY <1>1
<1> HIDE DEF p, s
<1>3. p = q
  <2>1. CASE p < q
    <3>1. (p + 1) * b <= q * b
      BY <1>2, <2>1
    <3>2. (p + 1) * b = p * b + b
      BY <1>2
    <3>3. p * b \in Nat
      BY <1>2
    <3> QED BY <1>1, <1>2, <3>1, <3>2, <3>3
  <2>2. CASE p > q
    <3>1. (q + 1) * b <= p * b
      BY <1>2, <2>2
    <3>2. (q + 1) * b = q * b + b
      BY <1>2
    <3>3. p * b \in Nat
      BY <1>2
    <3> QED BY <1>1, <1>2, <3>1, <3>2, <3>3
  <2> QED BY <1>2, <2>1, <2>2
<1> QED BY <1>1, <1>2, <1>3 DEF p, s

-----------------------------------------------------------------------------
\* Clock registers: counters of any value, the day in its range.
Clocks ==
  [time : [1 .. 3 -> Nat], day : 0 .. (DayCount - 1), halt : BOOLEAN, carry : BOOLEAN]

\* A tick leaves a clock a clock and does not touch the halt bit.
LEMMA TickType ==
  ASSUME NEW c \in Clocks
  PROVE  mbc3_rtc_tick_one_second(c) \in Clocks /\ mbc3_rtc_tick_one_second(c).halt = c.halt
<1>0. /\ Unit \in [1 .. 3 -> Nat \ {0, 1}] /\ Width \in [1 .. 3 -> Nat \ {0}]
      /\ DayCount \in Nat \ {0}
  BY ClockUnits
<1>1. ASSUME NEW d \in Clocks
      PROVE  mbc3_rtc_tick_one_day(d) \in Clocks /\ mbc3_rtc_tick_one_day(d).halt = d.halt
  <2>1. (d.day + 1) % DayCount \in 0 .. (DayCount - 1)
    BY <1>0 DEF Clocks
  <2> QED BY <2>1 DEF Clocks, mbc3_rtc_tick_one_day
<1>2. ASSUME NEW d \in Clocks
      PROVE  mbc3_rtc_tick_one_hour(d) \in Clocks /\ mbc3_rtc_tick_one_hour(d).halt = d.halt
  <2> DEFINE v == IF d.time[3] = Unit[3] - 1 THEN 0 ELSE (d.time[3] + 1) % Width[3]
             next == [d EXCEPT !.time[3] = v]
  <2>1. v \in Nat
    BY <1>0 DEF Clocks
  <2>2. mbc3_rtc_tick_one_hour(d)
          = IF d.time[3] = Unit[3] - 1 THEN mbc3_rtc_tick_one_day(next) ELSE next
    BY DEF mbc3_rtc_tick_one_hour, Clocks
  <2> HIDE DEF v
  <2>3. next \in Clocks /\ next.halt = d.halt
    BY <2>1 DEF Clocks
  <2> HIDE DEF next
  <2> QED BY <1>1, <2>2, <2>3
<1>3. ASSUME NEW d \in Clocks
      PROVE  mbc3_rtc_tick_one_minute(d) \in Clocks /\ mbc3_rtc_tick_one_minute(d).halt = d.halt
  <2> DEFINE v == IF d.time[2] = Unit[2] - 1 THEN 0 ELSE (d.time[2] + 1) % Width[2]
             next == [d EXCEPT !.time[2] = v]
  <2>1. v \in Nat
    BY <1>0 DEF Clocks
  <2>2. mbc3_rtc_tick_one_minute(d)
          = IF d.time[2] = Unit[2] - 1 THEN mbc3_rtc_tick_one_hour(next) ELSE next
    BY DEF mbc3_rtc_tick_one_minute, Clocks
  <2> HIDE DEF v
  <2>3. next \in Clocks /\ next.halt = d.halt
    BY <2>1 DEF Clocks
  <2> HIDE DEF next
  <2> QED BY <1>2, <2>2, <2>3
<1> DEFINE v == IF c.time[1] = Unit[1] - 1 THEN 0 ELSE (c.time[1] + 1) % Width[1]
           next == [c EXCEPT !.time[1] = v]
<1>4. v \in Nat
  BY <1>0 DEF Clocks
<1>5. mbc3_rtc_tick_one_second(c)
        = IF c.time[1] = Unit[1] - 1 THEN mbc3_rtc_tick_one_minute(next) ELSE next
  BY DEF mbc3_rtc_tick_one_second, Clocks
<1> HIDE DEF v
<1>6. next \in Clocks /\ next.halt = c.halt
  BY <1>4 DEF Clocks
<1> HIDE DEF next
<1> QED BY <1>3, <1>5, <1>6

\* The recursive function of the reference satisfies its equation: such a
\* function exists, and the one chosen is one of them.
LEMMA TickedIs ==
  ASSUME NEW r \in Clocks, NEW n \in Nat
  PROVE  /\ Ticked(r, n) \in [0 .. n -> Clocks]
         /\ Ticked(r, n)[0] = r
         /\ \A k \in 1 .. n : Ticked(r, n)[k] = mbc3_rtc_tick_one_second(Ticked(r, n)[k - 1])
<1> DEFINE F == [c \in Clocks |-> mbc3_rtc_tick_one_second(c)]
           Def(g) == g = [k \in 0 .. n |-> IF k = 0 THEN r ELSE mbc3_rtc_tick_one_second(g[k - 1])]
<1>1. F \in [Clocks -> Clocks]
  BY TickType
<1>2. PICK f \in [0 .. n -> Clocks] : f[0] = r /\ \A k \in 1 .. n : f[k] = F[f[k - 1]]
  <2> HIDE DEF F
  <2>1. PICK f : f \in Iterations(Clocks, F, r, n)
    BY <1>1, Iterates
  <2> QED BY <2>1 DEF Iterations
<1>3. \A k \in 1 .. n : f[k] = mbc3_rtc_tick_one_second(f[k - 1])
  <2>1. \A k \in 1 .. n : f[k - 1] \in Clocks
    OBVIOUS
  <2> QED BY <1>2, <2>1
<1>4. Def(f)
  BY <1>2, <1>3
<1>5. Def(Ticked(r, n))
  BY <1>4 DEF Ticked
<1> DEFINE g == Ticked(r, n)
<1> HIDE DEF g
<1>6. /\ g = [k \in 0 .. n |-> IF k = 0 THEN r ELSE mbc3_rtc_tick_one_second(g[k - 1])]
  BY <1>5 DEF g
<1>7. g[0] = r /\ \A k \in 1 .. n : g[k] = mbc3_rtc_tick_one_second(g[k - 1])
  BY <1>6
<1>8. \A k \in 0 .. n : g[k] \in Clocks
  <2> DEFINE T == {k \in Nat : k <= n => g[k] \in Clocks}
  <2>1. 0 \in T
    BY <1>7
  <2>2. ASSUME NEW k \in Nat, k \in T PROVE k + 1 \in T
    <3>1. SUFFICES ASSUME k + 1 <= n PROVE g[k + 1] \in Clocks
      OBVIOUS
    <3>2. g[k] \in Clocks /\ k + 1 \in 1 .. n /\ (k + 1) - 1 = k
      BY <2>2, <3>1
    <3> QED BY <1>7, <3>2, TickType
  <2> HIDE DEF T
  <2>3. Nat \subseteq T
    BY <2>1, <2>2, SetInduction
  <2> QED BY <2>3 DEF T
<1> QED BY <1>6, <1>7, <1>8 DEF g

-----------------------------------------------------------------------------
\* The seconds of a clock since day 0, and one second more.
PerHour == Unit[1] * Unit[2]
PerDay == PerHour * Unit[3]
Seconds(c) == (c.day * PerDay) + (c.time[3] * PerHour) + (c.time[2] * Unit[1]) + c.time[1]

\* The units and their products are positive.
LEMMA UnitProducts ==
  /\ Unit[1] \in Nat \ {0, 1} /\ Unit[2] \in Nat \ {0, 1} /\ Unit[3] \in Nat \ {0, 1}
  /\ PerHour \in Nat \ {0} /\ PerDay \in Nat \ {0}
  /\ DayCount \in Nat \ {0}
<1>1. Unit[1] \in Nat \ {0, 1} /\ Unit[2] \in Nat \ {0, 1} /\ Unit[3] \in Nat \ {0, 1}
  BY ClockUnits
<1>2. PerHour \in Nat \ {0}
  <2>1. \A a, b \in Nat \ {0} : a * b \in Nat \ {0}
    OBVIOUS
  <2> QED BY <1>1, <2>1 DEF PerHour
<1>3. PerDay \in Nat \ {0}
  <2>1. \A a, b \in Nat \ {0} : a * b \in Nat \ {0}
    OBVIOUS
  <2> QED BY <1>1, <1>2, <2>1 DEF PerDay
<1> QED BY <1>1, <1>2, <1>3, ClockUnits

\* One tick of a clock in range: the days it shows and the whole days that
\* have gone over the end of the day counter.
LEMMA TickAddsOne ==
  ASSUME NEW c \in Clocks, mbc3_rtc_fields_are_canonical(c)
  PROVE  LET d == mbc3_rtc_tick_one_second(c)
         IN  /\ mbc3_rtc_fields_are_canonical(d)
             /\ \/ d.carry = c.carry /\ Seconds(d) = Seconds(c) + 1
                \/ d.carry = TRUE /\ Seconds(d) + DayCount * PerDay = Seconds(c) + 1
<1>0. /\ Unit[1] \in Nat \ {0, 1} /\ Unit[2] \in Nat \ {0, 1} /\ Unit[3] \in Nat \ {0, 1}
      /\ PerHour \in Nat \ {0} /\ PerDay \in Nat \ {0} /\ DayCount \in Nat \ {0}
  BY UnitProducts
<1>1. /\ \A i \in 1 .. 3 : c.time[i] \in Nat /\ c.time[i] < Unit[i]
      /\ \A i \in 1 .. 3 : Unit[i] \in Nat /\ Width[i] \in Nat /\ Unit[i] <= Width[i]
      /\ c.day \in 0 .. (DayCount - 1) /\ c.time \in [1 .. 3 -> Nat] /\ c.carry \in BOOLEAN
  BY ClockUnits DEF Clocks, mbc3_rtc_fields_are_canonical
<1>2. \A i \in 1 .. 3 : c.time[i] # Unit[i] - 1 =>
         (c.time[i] + 1) % Width[i] = c.time[i] + 1 /\ c.time[i] + 1 < Unit[i]
  <2> TAKE i \in 1 .. 3
  <2> DEFINE x == c.time[i]
             w == Width[i]
             n == Unit[i]
  <2>1. x \in Nat /\ w \in Nat /\ n \in Nat /\ x < n /\ n <= w
    BY <1>1
  <2> HIDE DEF x, w, n
  <2>2. x # n - 1 => x + 1 < n /\ x + 1 < w /\ (x + 1) % w = x + 1
    BY <2>1
  <2> QED BY <2>2 DEF x, w, n
<1> DEFINE s == c.time[1]
           m == c.time[2]
           u == c.time[3]
           d == mbc3_rtc_tick_one_second(c)
<1>a. s \in Nat /\ m \in Nat /\ u \in Nat
  BY <1>1
<1>3. CASE s # Unit[1] - 1
  <2>1. d = [c EXCEPT !.time[1] = s + 1]
    BY <1>2, <1>3 DEF mbc3_rtc_tick_one_second, Clocks
  <2>2. /\ d.time[1] = s + 1 /\ d.time[2] = m /\ d.time[3] = u
        /\ d.day = c.day /\ d.carry = c.carry
    BY <2>1, <1>1 DEF Clocks
  <2> HIDE DEF d
  <2>3. c.day * PerDay \in Nat /\ u * PerHour \in Nat /\ m * Unit[1] \in Nat
    BY <1>0, <1>1
  <2>4. Seconds(d) = Seconds(c) + 1
    BY <1>1, <2>2, <2>3 DEF Seconds
  <2>5. mbc3_rtc_fields_are_canonical(d)
    BY <1>1, <1>2, <1>3, <2>2 DEF mbc3_rtc_fields_are_canonical
  <2> QED BY <2>2, <2>4, <2>5 DEF d
<1>4. CASE s = Unit[1] - 1 /\ m # Unit[2] - 1
  <2> DEFINE z == [c EXCEPT !.time[1] = 0]
  <2>0. z \in Clocks /\ z.time[2] = m
    BY DEF Clocks
  <2>a. d = mbc3_rtc_tick_one_minute(z)
    BY <1>4 DEF mbc3_rtc_tick_one_second, Clocks
  <2>1. d = [z EXCEPT !.time[2] = m + 1]
    <3> HIDE DEF z, d
    <3> QED BY <1>2, <1>4, <2>0, <2>a DEF mbc3_rtc_tick_one_minute, Clocks
  <2>2. /\ d.time[1] = 0 /\ d.time[2] = m + 1 /\ d.time[3] = u
        /\ d.day = c.day /\ d.carry = c.carry
    BY <2>1, <1>1 DEF Clocks
  <2> HIDE DEF d
  <2>3. c.day * PerDay \in Nat /\ u * PerHour \in Nat /\ m * Unit[1] \in Nat
        /\ (m + 1) * Unit[1] = m * Unit[1] + Unit[1]
    BY <1>0, <1>1
  <2>4. Seconds(d) = Seconds(c) + 1
    BY <1>0, <1>1, <1>4, <2>2, <2>3 DEF Seconds
  <2>5. mbc3_rtc_fields_are_canonical(d)
    BY <1>0, <1>1, <1>2, <1>4, <2>2 DEF mbc3_rtc_fields_are_canonical
  <2> QED BY <2>2, <2>4, <2>5 DEF d
<1>5. CASE s = Unit[1] - 1 /\ m = Unit[2] - 1 /\ u # Unit[3] - 1
  <2> DEFINE z == [[c EXCEPT !.time[1] = 0] EXCEPT !.time[2] = 0]
  <2>0. z \in Clocks /\ z.time[3] = u
    <3> DEFINE y == [c EXCEPT !.time[1] = 0]
    <3>1. y \in Clocks /\ y.time[3] = u
      BY DEF Clocks
    <3> HIDE DEF y
    <3>2. [y EXCEPT !.time[2] = 0] \in Clocks /\ [y EXCEPT !.time[2] = 0].time[3] = u
      BY <3>1 DEF Clocks
    <3> QED BY <3>2 DEF y
  <2>a. d = mbc3_rtc_tick_one_hour(z)
    BY <1>5 DEF mbc3_rtc_tick_one_second, mbc3_rtc_tick_one_minute, Clocks
  <2>1. d = [z EXCEPT !.time[3] = u + 1]
    <3> HIDE DEF z, d
    <3> QED BY <1>2, <1>5, <2>0, <2>a DEF mbc3_rtc_tick_one_hour, Clocks
  <2>2. /\ d.time[1] = 0 /\ d.time[2] = 0 /\ d.time[3] = u + 1
        /\ d.day = c.day /\ d.carry = c.carry
    BY <2>1, <1>1 DEF Clocks
  <2> HIDE DEF d
  <2>3. c.day * PerDay \in Nat /\ u * PerHour \in Nat /\ m * Unit[1] \in Nat
        /\ (u + 1) * PerHour = u * PerHour + PerHour
        /\ m * Unit[1] + Unit[1] = (m + 1) * Unit[1]
    BY <1>0, <1>1
  <2>4. PerHour = m * Unit[1] + Unit[1]
    BY <1>0, <1>5, <2>3 DEF PerHour
  <2>5. Seconds(d) = Seconds(c) + 1
    <3>1. 0 * Unit[1] = 0
      BY <1>0
    <3> QED BY <1>0, <1>1, <1>5, <2>2, <2>3, <2>4, <3>1 DEF Seconds
  <2>6. mbc3_rtc_fields_are_canonical(d)
    BY <1>0, <1>1, <1>2, <1>5, <2>2 DEF mbc3_rtc_fields_are_canonical
  <2> QED BY <2>2, <2>5, <2>6 DEF d
<1>6. CASE s = Unit[1] - 1 /\ m = Unit[2] - 1 /\ u = Unit[3] - 1
  <2> DEFINE z == [[[c EXCEPT !.time[1] = 0] EXCEPT !.time[2] = 0] EXCEPT !.time[3] = 0]
  <2>1. d = mbc3_rtc_tick_one_day(z)
    BY <1>2, <1>6 DEF mbc3_rtc_tick_one_second, mbc3_rtc_tick_one_minute,
                      mbc3_rtc_tick_one_hour, Clocks
  <2>2. /\ z.time[1] = 0 /\ z.time[2] = 0 /\ z.time[3] = 0
        /\ z.day = c.day /\ z.carry = c.carry /\ {"day", "carry", "time"} \subseteq DOMAIN z
    BY <1>1 DEF Clocks
  <2> HIDE DEF z
  <2>3. /\ d.time = z.time /\ d.day = (c.day + 1) % DayCount
        /\ d.carry = (c.carry \/ c.day + 1 = DayCount)
    BY <2>1, <2>2 DEF mbc3_rtc_tick_one_day
  <2> HIDE DEF d
  <2>4. c.day * PerDay \in Nat /\ u * PerHour \in Nat /\ m * Unit[1] \in Nat
        /\ (c.day + 1) * PerDay = c.day * PerDay + PerDay
        /\ u * PerHour + PerHour = (u + 1) * PerHour
        /\ m * Unit[1] + Unit[1] = (m + 1) * Unit[1]
        /\ 0 * PerHour = 0 /\ 0 * Unit[1] = 0 /\ 0 * PerDay = 0
    BY <1>0, <1>1
  <2>5. PerHour = m * Unit[1] + Unit[1]
    BY <1>0, <1>6, <2>4 DEF PerHour
  <2>6. PerDay = u * PerHour + PerHour
    BY <1>0, <1>6, <2>4 DEF PerDay
  <2>7. Seconds(c) + 1 = (c.day + 1) * PerDay
    BY <1>0, <1>1, <1>6, <2>4, <2>5, <2>6 DEF Seconds
  <2>8. Seconds(d) = d.day * PerDay /\ mbc3_rtc_fields_are_canonical(d)
    <3>1. d.day \in Nat /\ d.day * PerDay \in Nat
      BY <1>0, <1>1, <2>3
    <3>2. Seconds(d) = d.day * PerDay
      BY <2>2, <2>3, <2>4, <3>1 DEF Seconds
    <3>3. mbc3_rtc_fields_are_canonical(d)
      BY <1>0, <2>2, <2>3 DEF mbc3_rtc_fields_are_canonical
    <3> QED BY <3>2, <3>3
  <2>9. CASE c.day + 1 = DayCount
    <3>1. d.day = 0 /\ d.carry = TRUE
      <4>1. \A w \in Nat \ {0} : w % w = 0
        OBVIOUS
      <4> QED BY <1>0, <1>1, <2>3, <2>9, <4>1
    <3>2. Seconds(d) + DayCount * PerDay = Seconds(c) + 1
      BY <1>0, <2>4, <2>7, <2>8, <2>9, <3>1
    <3> QED BY <2>8, <3>1, <3>2 DEF d
  <2>10. CASE c.day + 1 # DayCount
    <3>1. d.day = c.day + 1 /\ d.carry = c.carry
      <4>1. \A x, w \in Nat : x < w => x % w = x
        OBVIOUS
      <4>2. c.day + 1 \in Nat /\ c.day + 1 < DayCount
        BY <1>0, <1>1, <2>10
      <4> QED BY <1>0, <1>1, <2>3, <2>10, <4>1, <4>2
    <3> QED BY <2>7, <2>8, <3>1 DEF d
  <2> QED BY <2>9, <2>10
<1> QED BY <1>3, <1>4, <1>5, <1>6

\* The closed form splits the seconds back into the counters of a clock.
LEMMA ClosedForm ==
  ASSUME NEW c \in Clocks, NEW d \in Clocks, mbc3_rtc_fields_are_canonical(d),
         NEW w \in Nat, NEW k \in Nat,
         Seconds(c) + k = Seconds(d) + w * (DayCount * PerDay),
         d.halt = c.halt, d.carry = (c.carry \/ w > 0)
  PROVE  AddSeconds(c, k) = d
<1>0. /\ Unit[1] \in Nat \ {0, 1} /\ Unit[2] \in Nat \ {0, 1} /\ Unit[3] \in Nat \ {0, 1}
      /\ PerHour \in Nat \ {0} /\ PerDay \in Nat \ {0} /\ DayCount \in Nat \ {0}
  BY UnitProducts
<1> DEFINE s == d.time[1]
           m == d.time[2]
           u == d.time[3]
           days == w * DayCount + d.day
           inHour == m * Unit[1] + s
           inDay == u * PerHour + inHour
           total == Seconds(c) + k
<1>1. /\ s \in 0 .. (Unit[1] - 1) /\ m \in 0 .. (Unit[2] - 1) /\ u \in 0 .. (Unit[3] - 1)
      /\ d.day \in 0 .. (DayCount - 1) /\ d.time = <<s, m, u>>
  BY ClockUnits DEF Clocks, mbc3_rtc_fields_are_canonical
<1>a. d.day \in Nat /\ DayCount \in Nat /\ w * DayCount \in Nat
  BY <1>0, <1>1
<1>b. Seconds(d) = d.day * PerDay + u * PerHour + m * Unit[1] + s
  BY DEF Seconds
<1> HIDE DEF s, m, u
<1>2. inHour \in 0 .. (PerHour - 1)
  <2>1. (m + 1) * Unit[1] <= Unit[2] * Unit[1]
    BY <1>0, <1>1
  <2>2. (m + 1) * Unit[1] = m * Unit[1] + Unit[1] /\ m * Unit[1] \in Nat
    BY <1>0, <1>1
  <2>3. PerHour = Unit[2] * Unit[1]
    BY <1>0 DEF PerHour
  <2> QED BY <1>0, <1>1, <2>1, <2>2, <2>3
<1>3. inDay \in 0 .. (PerDay - 1)
  <2> HIDE DEF inHour
  <2>1. (u + 1) * PerHour <= Unit[3] * PerHour
    BY <1>0, <1>1
  <2>2. (u + 1) * PerHour = u * PerHour + PerHour /\ u * PerHour \in Nat
    BY <1>0, <1>1
  <2>3. PerDay = Unit[3] * PerHour
    BY <1>0 DEF PerDay
  <2> QED BY <1>0, <1>1, <1>2, <2>1, <2>2, <2>3
<1>4. total = days * PerDay + inDay /\ days \in Nat
  <2>1. days * PerDay = w * (DayCount * PerDay) + d.day * PerDay
    BY <1>0, <1>a
  <2>2. /\ w * (DayCount * PerDay) \in Nat /\ d.day * PerDay \in Nat
        /\ u * PerHour \in Nat /\ m * Unit[1] \in Nat
    BY <1>0, <1>1, <1>a
  <2>3. days \in Nat
    BY <1>a
  <2> HIDE DEF days
  <2> QED BY <1>1, <1>b, <2>1, <2>2, <2>3
<1>5. days % DayCount = d.day /\ (days > DayCount - 1 <=> w > 0)
  <2>1. days % DayCount = d.day
    BY <1>0, <1>1, DivUnique
  <2>2. w > 0 => w * DayCount >= DayCount
    BY <1>0
  <2>3. w = 0 => w * DayCount = 0
    BY <1>0
  <2> QED BY <1>0, <1>1, <1>a, <2>1, <2>2, <2>3
<1>6. inHour % Unit[1] = s /\ inHour \div Unit[1] = m
  <2>1. m \in Nat /\ Unit[1] \in Nat \ {0} /\ s \in 0 .. (Unit[1] - 1)
    BY <1>0, <1>1
  <2> QED BY <2>1, DivUnique
<1>7. inDay % Unit[1] = s
  <2>1. inDay = (u * Unit[2] + m) * Unit[1] + s
    <3>1. u * PerHour = (u * Unit[2]) * Unit[1]
      BY <1>0, <1>1 DEF PerHour
    <3>2. (u * Unit[2] + m) * Unit[1] = (u * Unit[2]) * Unit[1] + m * Unit[1]
      BY <1>0, <1>1
    <3>3. (u * Unit[2]) * Unit[1] \in Nat /\ m * Unit[1] \in Nat
      BY <1>0, <1>1
    <3> QED BY <1>1, <3>1, <3>2, <3>3
  <2>2. u * Unit[2] + m \in Nat
    BY <1>0, <1>1
  <2> HIDE DEF inDay
  <2> QED BY <1>0, <1>1, <2>1, <2>2, DivUnique
<1> HIDE DEF inHour
<1>8. inDay % PerHour = inHour /\ inDay \div PerHour = u
  <2>1. u \in Nat /\ PerHour \in Nat \ {0} /\ inHour \in 0 .. (PerHour - 1)
    BY <1>0, <1>1, <1>2
  <2> QED BY <2>1, DivUnique
<1> HIDE DEF inDay, days
<1>9. total \div PerDay = days /\ total % PerDay = inDay
  BY <1>0, <1>3, <1>4, DivUnique
<1>10. total = c.day * PerDay + c.time[3] * PerHour + c.time[2] * Unit[1] + c.time[1] + k
  BY DEF Seconds
<1> HIDE DEF total
<1>11. AddSeconds(c, k)
         = [c EXCEPT !.carry = @ \/ total \div PerDay > DayCount - 1,
                     !.day = (total \div PerDay) % DayCount,
                     !.time = <<(total % PerDay) % Unit[1],
                                ((total % PerDay) % PerHour) \div Unit[1],
                                (total % PerDay) \div PerHour>>]
  BY <1>10 DEF AddSeconds, PerDay, PerHour
<1>12. AddSeconds(c, k) = [c EXCEPT !.carry = @ \/ w > 0, !.day = d.day, !.time = <<s, m, u>>]
  BY <1>5, <1>6, <1>7, <1>8, <1>9, <1>11
<1>13. d.carry = (c.carry \/ w > 0) /\ d.time = <<s, m, u>>
  BY <1>1
<1>14. d = [c EXCEPT !.carry = d.carry, !.day = d.day, !.time = d.time]
  BY DEF Clocks
<1> QED BY <1>12, <1>13, <1>14, Zenon

\* They are a natural number.
LEMMA SecondsType ==
  ASSUME NEW d \in Clocks
  PROVE  Seconds(d) \in Nat
<1>1. /\ d.day \in Nat /\ d.time[1] \in Nat /\ d.time[2] \in Nat /\ d.time[3] \in Nat
  BY ClockUnits DEF Clocks
<1>2. PerDay \in Nat /\ PerHour \in Nat /\ Unit[1] \in Nat
  BY UnitProducts
<1>3. d.day * PerDay \in Nat
  BY <1>1, <1>2
<1>4. d.time[3] * PerHour \in Nat /\ d.time[2] * Unit[1] \in Nat
  BY <1>1, <1>2
<1> QED BY <1>1, <1>3, <1>4 DEF Seconds

\* From a clock in range, n ticks end where the closed form does: by induction,
\* counting how often the day counter has gone over.
LEMMA JumpIsTicks ==
  ASSUME NEW c \in Clocks, mbc3_rtc_fields_are_canonical(c), NEW n \in Nat,
         NEW f \in [0 .. n -> Clocks], f[0] = c,
         \A k \in 1 .. n : f[k] = mbc3_rtc_tick_one_second(f[k - 1])
  PROVE  f[n] = AddSeconds(c, n)
<1>0. PerDay \in Nat \ {0} /\ DayCount \in Nat \ {0} /\ DayCount * PerDay \in Nat
  BY UnitProducts
<1> DEFINE At(k, w) == /\ Seconds(c) + k = Seconds(f[k]) + w * (DayCount * PerDay)
                       /\ f[k].carry = (c.carry \/ w > 0)
           T == {k \in Nat : k <= n => /\ mbc3_rtc_fields_are_canonical(f[k])
                                       /\ f[k].halt = c.halt
                                       /\ \E w \in Nat : At(k, w)}
<1>s. \A d \in Clocks : Seconds(d) \in Nat
  BY SecondsType
<1>1. 0 \in T
  <2>1. 0 * (DayCount * PerDay) = 0
    BY <1>0
  <2>2. At(0, 0)
    BY <1>s, <2>1 DEF Clocks
  <2> QED BY <2>2
<1>2. ASSUME NEW k \in Nat, k \in T PROVE k + 1 \in T
  <2>1. SUFFICES ASSUME k + 1 <= n
                 PROVE  /\ mbc3_rtc_fields_are_canonical(f[k + 1])
                        /\ f[k + 1].halt = c.halt
                        /\ \E w \in Nat : At(k + 1, w)
    OBVIOUS
  <2>2. /\ f[k] \in Clocks /\ f[k + 1] \in Clocks
        /\ f[k + 1] = mbc3_rtc_tick_one_second(f[k])
    BY <2>1
  <2>3. PICK w \in Nat : At(k, w)
    BY <1>2, <2>1
  <2>4. mbc3_rtc_fields_are_canonical(f[k]) /\ f[k].halt = c.halt
    BY <1>2, <2>1
  <2> DEFINE a == f[k]
             b == f[k + 1]
  <2>5. a \in Clocks /\ b \in Clocks /\ mbc3_rtc_fields_are_canonical(a)
        /\ b = mbc3_rtc_tick_one_second(a) /\ a.halt = c.halt
        /\ Seconds(c) + k = Seconds(a) + w * (DayCount * PerDay)
        /\ a.carry = (c.carry \/ w > 0)
    BY <2>2, <2>3, <2>4
  <2> HIDE DEF a, b
  <2>6. b.halt = c.halt
    BY <2>5, TickType
  <2>7. /\ mbc3_rtc_fields_are_canonical(b)
        /\ \/ b.carry = a.carry /\ Seconds(b) = Seconds(a) + 1
           \/ b.carry = TRUE /\ Seconds(b) + DayCount * PerDay = Seconds(a) + 1
    BY <2>5, TickAddsOne
  <2>8. /\ Seconds(a) \in Nat /\ Seconds(b) \in Nat /\ Seconds(c) \in Nat
        /\ w * (DayCount * PerDay) \in Nat
        /\ (w + 1) * (DayCount * PerDay) = w * (DayCount * PerDay) + DayCount * PerDay
    BY <1>0, <1>s, <2>5
  <2>9. \E v \in Nat : /\ Seconds(c) + (k + 1) = Seconds(b) + v * (DayCount * PerDay)
                       /\ b.carry = (c.carry \/ v > 0)
    <3>1. CASE b.carry = a.carry /\ Seconds(b) = Seconds(a) + 1
      <4>1. Seconds(c) + (k + 1) = Seconds(b) + w * (DayCount * PerDay)
        BY <2>5, <2>8, <3>1
      <4> QED BY <2>5, <3>1, <4>1
    <3>2. CASE b.carry = TRUE /\ Seconds(b) + DayCount * PerDay = Seconds(a) + 1
      <4>1. Seconds(c) + (k + 1) = Seconds(b) + (w + 1) * (DayCount * PerDay)
        <5> DEFINE p == DayCount * PerDay
                   x == w * p
                   y == (w + 1) * p
        <5>1. /\ Seconds(c) + k = Seconds(a) + x /\ y = x + p /\ Seconds(b) + p = Seconds(a) + 1
              /\ p \in Nat /\ x \in Nat /\ y \in Int
          BY <1>0, <2>5, <2>8, <3>2
        <5>2. Seconds(a) \in Nat /\ Seconds(b) \in Nat /\ Seconds(c) \in Nat
          BY <2>8
        <5> HIDE DEF p, x, y
        <5>3. Seconds(b) + y = (Seconds(b) + p) + x
          BY <5>1, <5>2
        <5>4. Seconds(c) + (k + 1) = (Seconds(a) + 1) + x
          <6>1. Seconds(c) + (k + 1) = (Seconds(c) + k) + 1
            BY <5>2
          <6>2. (Seconds(a) + x) + 1 = (Seconds(a) + 1) + x
            BY <5>1, <5>2
          <6>3. Seconds(c) + k = Seconds(a) + x
            BY <5>1
          <6> QED BY <6>1, <6>2, <6>3, Zenon
        <5> QED BY <5>1, <5>3, <5>4 DEF p, y
      <4>2. w + 1 > 0 /\ w + 1 \in Nat
        OBVIOUS
      <4>3. b.carry = (c.carry \/ w + 1 > 0)
        BY <3>2, <4>2
      <4> QED BY <4>1, <4>2, <4>3
    <3> QED BY <2>7, <3>1, <3>2
  <2> QED BY <2>6, <2>7, <2>9 DEF b
<1>3. n \in T
  <2> HIDE DEF T
  <2> QED BY <1>1, <1>2, SetInduction
<1>4. PICK w \in Nat : At(n, w)
  BY <1>3
<1> QED BY <1>3, <1>4, ClosedForm

\* Out-of-range counters are ticked back into range, the rest is jumped.
LEMMA BulkIsTicked ==
  ASSUME NEW r \in Clocks, NEW n \in Nat, ~r.halt
  PROVE  /\ advance_mbc3_rtc_fields(r, n) = Ticked(r, n)[n]
         /\ advance_mbc3_rtc_fields(r, n) \in Clocks
<1> DEFINE f == Ticked(r, n)
           First(k) == /\ k = n \/ mbc3_rtc_fields_are_canonical(f[k])
                       /\ \A j \in 0 .. (k - 1) : ~mbc3_rtc_fields_are_canonical(f[j])
           used == CHOOSE k \in 0 .. n : First(k)
<1>1. /\ f \in [0 .. n -> Clocks] /\ f[0] = r
      /\ \A k \in 1 .. n : f[k] = mbc3_rtc_tick_one_second(f[k - 1])
  BY TickedIs
<1>2. advance_mbc3_rtc_fields(r, n)
        = IF n = 0 THEN r ELSE IF used = n THEN f[n] ELSE AddSeconds(f[used], n - used)
  BY DEF advance_mbc3_rtc_fields
<1> HIDE DEF f
<1>3. \E k \in 0 .. n : First(k)
  <2> DEFINE T == {k \in 0 .. n : k = n \/ mbc3_rtc_fields_are_canonical(f[k])}
  <2>1. T \subseteq Nat /\ n \in T
    OBVIOUS
  <2> HIDE DEF T
  <2>2. PICK m \in T : \A k \in T : m <= k
    BY <2>1, LeastNatural
  <2>3. m \in 0 .. n /\ (m = n \/ mbc3_rtc_fields_are_canonical(f[m]))
    BY <2>2 DEF T
  <2>4. \A j \in 0 .. (m - 1) : ~mbc3_rtc_fields_are_canonical(f[j])
    BY <2>2, <2>3 DEF T
  <2> QED BY <2>3, <2>4
<1>4. used \in 0 .. n /\ (used = n \/ mbc3_rtc_fields_are_canonical(f[used]))
  BY <1>3
<1> HIDE DEF used
<1>5. CASE n = 0 \/ used = n
  BY <1>1, <1>2, <1>5 DEF f
<1>6. CASE n # 0 /\ used # n
  <2> DEFINE g == [k \in 0 .. (n - used) |-> f[used + k]]
  <2>1. n - used \in Nat /\ f[used] \in Clocks /\ mbc3_rtc_fields_are_canonical(f[used])
    BY <1>1, <1>4, <1>6
  <2>2. g \in [0 .. (n - used) -> Clocks] /\ g[0] = f[used] /\ g[n - used] = f[n]
    BY <1>1, <1>4
  <2>3. \A k \in 1 .. (n - used) : g[k] = mbc3_rtc_tick_one_second(g[k - 1])
    <3> TAKE k \in 1 .. (n - used)
    <3>1. used + k \in 1 .. n /\ (used + k) - 1 = used + (k - 1) /\ k - 1 \in 0 .. (n - used)
      BY <1>4
    <3>2. f[used + k] = mbc3_rtc_tick_one_second(f[(used + k) - 1])
      BY <1>1, <3>1
    <3> QED BY <3>1, <3>2
  <2> HIDE DEF g
  <2>4. g[n - used] = AddSeconds(f[used], n - used)
    BY <2>1, <2>2, <2>3, JumpIsTicks
  <2>5. advance_mbc3_rtc_fields(r, n) = f[n]
    BY <1>2, <1>6, <2>2, <2>4, Zenon
  <2>6. f[n] \in Clocks
    BY <1>1
  <2> QED BY <2>5, <2>6 DEF f
<1> QED BY <1>5, <1>6

-----------------------------------------------------------------------------
(* The clock registers stay in their ranges.                                 *)

Mbc3Devices ==
  [kind : {"Mbc3"}, ram_rtc_enabled : BOOLEAN, select : RtcRegisters \cup {"Ram", "Reserved"},
   ram : Nat, rtc_live : Clocks, rtc_latched : Clocks, rtc_latched_valid : BOOLEAN,
   rtc_latch_armed : BOOLEAN, rtc_subsecond_ticks : Nat]

\* The clocks of an MBC3 are clocks.
ClockInv == Is("Mbc3") => cart \in Mbc3Devices

\* The clock at rest is one.
LEMMA ZeroIsAClock == ZeroClock \in Clocks
<1>1. 0 \in 0 .. (DayCount - 1) /\ [i \in 1 .. 3 |-> 0] \in [1 .. 3 -> Nat]
  BY ClockUnits
<1> QED BY <1>1 DEF ZeroClock, Clocks

\* A new MBC3 keeps its clocks in range.
LEMMA Mbc3New == NewMbc3 \in Mbc3Devices
  BY ZeroIsAClock DEF NewMbc3, Mbc3Devices, RtcRegisters

\* Ticks, split in bulk and single seconds, leave a clock.
LEMMA Mbc3TicksStep ==
  ASSUME NEW c \in Mbc3Devices, NEW n \in Nat
  PROVE  advance_rtc_clock_ticks(c, n) \in Mbc3Devices
<1> DEFINE total == c.rtc_subsecond_ticks + n
           r == advance_mbc3_rtc_fields(c.rtc_live, total \div TicksPerSecond)
<1>1. TicksPerSecond \in Nat \ {0} /\ total \in Nat
  BY ClockUnits DEF Mbc3Devices
<1>2. total \div TicksPerSecond \in Nat /\ total % TicksPerSecond \in Nat
  BY <1>1
<1>3. CASE c.rtc_live.halt \/ n = 0
  BY <1>3 DEF advance_rtc_clock_ticks
<1>4. CASE ~(c.rtc_live.halt \/ n = 0)
  <2>1. advance_rtc_clock_ticks(c, n)
          = [c EXCEPT !.rtc_subsecond_ticks = total % TicksPerSecond, !.rtc_live = r]
    BY <1>4 DEF advance_rtc_clock_ticks, Mbc3Devices
  <2>2. c.rtc_live \in Clocks
    BY DEF Mbc3Devices
  <2> HIDE DEF total
  <2>3. r \in Clocks
    BY <1>2, <1>4, <2>2, BulkIsTicked
  <2> HIDE DEF r
  <2> QED BY <1>2, <2>1, <2>3 DEF Mbc3Devices
<1> QED BY <1>3, <1>4

\* Storing half of the day counter leaves a day of the counter.
LEMMA HalfDay ==
  ASSUME NEW day \in 0 .. (DayCount - 1), NEW v \in Nat
  PROVE  LET half == DayCount \div 2
         IN  /\ half * (day \div half) + (v % half) \in 0 .. (DayCount - 1)
             /\ (day % half) + ((v % 2) * half) \in 0 .. (DayCount - 1)
<1> DEFINE half == DayCount \div 2
           q == day \div half
<1>1. half \in Nat \ {0} /\ DayCount = half + half
  BY ClockUnits
<1> HIDE DEF half
<1>2. day \in Nat /\ day < half + half
  BY <1>1
<1>3. q \in {0, 1} /\ day % half \in 0 .. (half - 1) /\ v % half \in 0 .. (half - 1)
  <2>1. day < half => q = 0
    BY <1>1, <1>2
  <2>2. day >= half => q = 1
    BY <1>1, <1>2
  <2> QED BY <1>1, <1>2, <2>1, <2>2
<1>4. v % 2 \in {0, 1}
  OBVIOUS
<1> HIDE DEF q
<1>5. half * q \in {0, half} /\ (v % 2) * half \in {0, half}
  BY <1>1, <1>3, <1>4
<1>6. /\ half * q + (v % half) \in 0 .. (DayCount - 1)
      /\ (day % half) + ((v % 2) * half) \in 0 .. (DayCount - 1)
  BY <1>1, <1>3, <1>5
<1> QED BY <1>6 DEF half, q

\* A store into a clock register leaves a clock.
LEMMA Mbc3RamStep ==
  ASSUME NEW c \in Mbc3Devices, NEW v \in Nat, NEW halt \in BOOLEAN
  PROVE  mbc3_write_ram(c, v, halt) \in Mbc3Devices
<1>1. CASE c.ram_rtc_enabled /\ c.select \in {"Seconds", "Minutes", "Hours"}
  <2> DEFINE i == FieldOf[c.select]
             x == v % Width[i]
             t == IF c.select = "Seconds" THEN 0 ELSE c.rtc_subsecond_ticks
  <2>1. i \in 1 .. 3 /\ c.select \in DOMAIN FieldOf
    BY <1>1 DEF FieldOf
  <2>2. mbc3_write_ram(c, v, halt)
          = [c EXCEPT !.rtc_live.time[i] = x, !.rtc_subsecond_ticks = t]
    BY <1>1, <2>1 DEF mbc3_write_ram, Mbc3Devices
  <2> HIDE DEF i
  <2>3. x \in Nat /\ t \in Nat
    <3>1. Width[i] \in Nat \ {0}
      BY <2>1, ClockUnits
    <3> QED BY <3>1 DEF Mbc3Devices
  <2> HIDE DEF x, t
  <2>4. [c.rtc_live EXCEPT !.time[i] = x] \in Clocks
    BY <2>1, <2>3 DEF Mbc3Devices, Clocks
  <2> QED BY <2>2, <2>3, <2>4 DEF Mbc3Devices
<1>2. CASE c.ram_rtc_enabled /\ c.select = "DayLow"
  <2> DEFINE x == (DayCount \div 2) * (c.rtc_live.day \div (DayCount \div 2))
                    + (v % (DayCount \div 2))
  <2>1. mbc3_write_ram(c, v, halt) = [c EXCEPT !.rtc_live.day = x]
    BY <1>2 DEF mbc3_write_ram, Mbc3Devices, FieldOf, Clocks
  <2>2. x \in 0 .. (DayCount - 1)
    BY HalfDay DEF Mbc3Devices, Clocks
  <2> HIDE DEF x
  <2>3. [c.rtc_live EXCEPT !.day = x] \in Clocks
    BY <2>2 DEF Mbc3Devices, Clocks
  <2> QED BY <2>1, <2>3 DEF Mbc3Devices
<1>3. CASE c.ram_rtc_enabled /\ c.select = "DayHigh"
  <2> DEFINE x == (c.rtc_live.day % (DayCount \div 2)) + ((v % 2) * (DayCount \div 2))
             b == v >= 2
  <2>1. mbc3_write_ram(c, v, halt)
          = [c EXCEPT !.rtc_live.day = x, !.rtc_live.halt = halt, !.rtc_live.carry = b]
    BY <1>3 DEF mbc3_write_ram, Mbc3Devices, FieldOf, Clocks
  <2>2. x \in 0 .. (DayCount - 1)
    BY HalfDay DEF Mbc3Devices, Clocks
  <2>a. b \in BOOLEAN
    OBVIOUS
  <2> HIDE DEF x, b
  <2>3. [[[c.rtc_live EXCEPT !.day = x] EXCEPT !.halt = halt] EXCEPT !.carry = b] \in Clocks
    BY <2>2, <2>a DEF Mbc3Devices, Clocks
  <2> QED BY <2>1, <2>3 DEF Mbc3Devices
<1>4. CASE ~c.ram_rtc_enabled \/ c.select \in {"Ram", "Reserved"}
  BY <1>4 DEF mbc3_write_ram, Mbc3Devices, FieldOf
<1> QED BY <1>1, <1>2, <1>3, <1>4 DEF Mbc3Devices, RtcRegisters

\* The other accesses copy a clock or leave it.
LEMMA Mbc3PlainStep ==
  ASSUME NEW c \in Mbc3Devices
  PROVE  /\ \A on \in BOOLEAN : mbc3_write_enable(c, on) \in Mbc3Devices
         /\ \A t \in RtcRegisters \cup {"Ram", "Reserved"} : mbc3_write_select(c, t) \in Mbc3Devices
         /\ \A value : latch_rtc_if_needed(c, value) \in Mbc3Devices
<1>1. \A on \in BOOLEAN : mbc3_write_enable(c, on) \in Mbc3Devices
  BY DEF mbc3_write_enable, Mbc3Devices
<1>2. \A t \in RtcRegisters \cup {"Ram", "Reserved"} : mbc3_write_select(c, t) \in Mbc3Devices
  BY DEF mbc3_write_select, Mbc3Devices
<1>3. ASSUME NEW value PROVE latch_rtc_if_needed(c, value) \in Mbc3Devices
  BY DEF latch_rtc_if_needed, Mbc3Devices
<1> QED BY <1>1, <1>2, <1>3

\* A power cycle keeps the live clock and forgets the snapshot.
LEMMA Mbc3PowerStep ==
  ASSUME cart \in Mbc3Devices, PowerCycle
  PROVE  cart' \in Mbc3Devices
<1> DEFINE s == mbc3_persistent_state(cart)
<1>1. cart.kind = "Mbc3"
  BY DEF Mbc3Devices
<1>2. persistent_state(cart) = s /\ NewDevice(cart.kind) = NewMbc3
  BY <1>1 DEF persistent_state, NewDevice
<1>3. NewMbc3.kind = "Mbc3"
  BY DEF NewMbc3
<1>4. s.ram = cart.ram /\ s.rtc = cart.rtc_live
  BY DEF mbc3_persistent_state
<1>5. cart' = mbc3_restore(NewMbc3, s)
  BY <1>2, <1>3 DEF PowerCycle, restore_persistent_state
<1> HIDE DEF s
<1>6. cart.ram \in Nat /\ cart.rtc_live \in Clocks
  BY DEF Mbc3Devices
<1>7. cart' = [NewMbc3 EXCEPT !.ram = cart.ram, !.rtc_live = cart.rtc_live,
                 !.rtc_latched = ZeroClock, !.rtc_latched_valid = FALSE,
                 !.rtc_latch_armed = FALSE, !.rtc_subsecond_ticks = 0]
  BY <1>4, <1>5 DEF mbc3_restore
<1> QED BY <1>6, <1>7, Mbc3New, ZeroIsAClock DEF Mbc3Devices

\* The family never changes.
LEMMA KindKept ==
  ASSUME CartInv, Next
  PROVE  cart'.kind = cart.kind
<1>0. cart.kind \in Kinds /\ "kind" \in DOMAIN cart
  BY DEF CartInv
<1>1. CASE PowerCycle
  BY <1>0, <1>1, RestoredKind DEF SameKind
<1>2. CASE ~PowerCycle
  <2>1. CASE Is("Mmm01")
    BY <1>2, <2>1, StepOfKind, Mmm01Step, DeviceKind DEF CartInv, Is
  <2>2. CASE Is("Mbc6")
    BY <1>2, <2>2, StepOfKind, Mbc6Step, DeviceKind DEF CartInv, Is
  <2>3. CASE Is("Huc3")
    BY <1>2, <2>3, StepOfKind, Huc3AccessStep, TimeStep, DeviceKind DEF CartInv, Huc3Time, Is
  <2>4. CASE Is("Camera")
    <3>1. CameraInv(cart', h')
      BY <1>2, <2>4, StepOfKind, CameraTickStep, CameraAccessStep, CameraWriteStep
         DEF CartInv, CameraGoesOn
    <3> QED BY <2>4, <3>1, DeviceKind DEF CameraInv, Is
  <2>5. CASE ~(Is("Mmm01") \/ Is("Mbc6") \/ Is("Huc3") \/ Is("Camera"))
    <3>1. ~(Mbc6Access \/ Huc3Access \/ Huc3Time \/ CameraAccess \/ CameraWrite \/ CameraTick)
      BY <2>5 DEF Mbc6Access, Huc3Access, Huc3Time, CameraAccess, CameraWrite, CameraTick
    <3> QED BY <1>0, <3>1, KindStep DEF SameKind
  <2> QED BY <2>1, <2>2, <2>3, <2>4, <2>5
<1> QED BY <1>1, <1>2

\* ClockInv is inductive beside CartInv.
LEMMA ClockStep ==
  ASSUME CartInv, ClockInv, [Next]_vars
  PROVE  ClockInv'
<1>1. CASE UNCHANGED vars
  BY <1>1 DEF ClockInv, Is, vars
<1>2. CASE Next /\ ~Is("Mbc3")
  BY <1>2, KindKept DEF ClockInv, Is
<1>3. CASE Next /\ Is("Mbc3")
  <2>0. cart \in Mbc3Devices
    BY <1>3 DEF ClockInv
  <2>1. Mbc3Access \/ Mbc3Store \/ Mbc3Ticks \/ PowerCycle
    BY <1>3 DEF Next, Is, BankedAccess, BankedKinds, M161Write, Mmm01Access, Mbc6Access, Mbc7Pins,
       Mbc7Access, Huc3Access, Huc3Time, CameraAccess, CameraWrite, CameraTick
  <2>2. CASE Mbc3Access
    BY <2>0, <2>2, Mbc3PlainStep DEF Mbc3Access, ClockInv
  <2>3. CASE Mbc3Store
    <3>1. RtcValues \subseteq Nat
      BY SlotInputs
    <3> QED BY <2>0, <2>3, <3>1, Mbc3PlainStep, Mbc3RamStep DEF Mbc3Store, ClockInv
  <2>4. CASE Mbc3Ticks
    <3>1. ClockTicks \subseteq Nat
      BY SlotInputs
    <3> QED BY <2>0, <2>4, <3>1, Mbc3TicksStep DEF Mbc3Ticks, ClockInv
  <2>5. CASE PowerCycle
    BY <2>0, <2>5, Mbc3PowerStep DEF ClockInv
  <2> QED BY <2>1, <2>2, <2>3, <2>4, <2>5
<1> QED BY <1>1, <1>2, <1>3

\* Handing the MBC3 clock n seconds at once leaves it as n single ticks do, for
\* every clock a game can have stored, in range or not, and every n
\* (mbc3.rs, advance_mbc3_rtc_fields).
THEOREM BulkTimeAlwaysIsTicks == Spec => []BulkTimeIsTicks
<1>1. Init => ClockInv
  <2> SUFFICES ASSUME Init, Is("Mbc3") PROVE cart \in Mbc3Devices
    BY DEF ClockInv
  <2>1. PICK k \in Kinds : cart = NewDevice(k)
    BY DEF Init
  <2>2. k = "Mbc3"
    BY <2>1, NewKind DEF Is
  <2> QED BY <2>1, <2>2, Mbc3New DEF NewDevice
<1>2. CartInv /\ ClockInv /\ [Next]_vars => ClockInv'
  BY ClockStep
<1>3. ClockInv => BulkTimeIsTicks
  <2> SUFFICES ASSUME ClockInv, Is("Mbc3"), NEW n \in BulkSeconds
               PROVE  advance_mbc3_rtc_fields(cart.rtc_live, n)
                        = IF cart.rtc_live.halt THEN cart.rtc_live ELSE Ticked(cart.rtc_live, n)[n]
    BY DEF BulkTimeIsTicks
  <2>1. cart.rtc_live \in Clocks /\ n \in Nat
    BY SlotInputs DEF ClockInv, Mbc3Devices
  <2>2. CASE cart.rtc_live.halt
    BY <2>2 DEF advance_mbc3_rtc_fields
  <2>3. CASE ~cart.rtc_live.halt
    BY <2>1, <2>3, BulkIsTicked
  <2> QED BY <2>2, <2>3
<1> QED BY <1>1, <1>2, <1>3, CartInvariant, PTL DEF Spec

-----------------------------------------------------------------------------
(* Powers of two.                                                            *)

\* A power of two is a natural and doubles with its exponent, as the subsets
\* of a set with one more element do.
LEMMA PowerOfTwo ==
  ASSUME NEW n \in Nat
  PROVE  2 ^ n \in Nat /\ 2 ^ (n + 1) = 2 ^ n + 2 ^ n
<1> DEFINE x == n + 1
           A == 1 .. n
           B == 1 .. (n + 1)
           P == SUBSET A
           F == [X \in P |-> X \cup {x}]
           Q == {F[X] : X \in P}
<1>1. IsFiniteSet(A) /\ Cardinality(A) = n
  BY FS_Interval
<1>2. IsFiniteSet(B) /\ Cardinality(B) = n + 1
  BY FS_Interval
<1>3. IsFiniteSet(P) /\ Cardinality(P) = 2 ^ n /\ Cardinality(SUBSET B) = 2 ^ (n + 1)
  <2> HIDE DEF A, B
  <2> QED BY <1>1, <1>2, FS_SUBSET
<1>4. x \notin A /\ B = A \cup {x}
  OBVIOUS
<1> HIDE DEF A, B, x
<1>5. SUBSET B = P \cup Q /\ P \cap Q = {}
  <2>1. \A Y \in SUBSET B : Y \in P \/ Y \in Q
    <3> TAKE Y \in SUBSET B
    <3>1. CASE x \notin Y
      BY <1>4, <3>1
    <3>2. CASE x \in Y
      <4>1. Y \ {x} \in P /\ Y = F[Y \ {x}]
        BY <1>4, <3>2
      <4> QED BY <4>1
    <3> QED BY <3>1, <3>2
  <2>2. \A Y \in Q : Y \in SUBSET B /\ x \in Y
    BY <1>4
  <2>3. \A Y \in P : Y \in SUBSET B /\ x \notin Y
    BY <1>4
  <2> HIDE DEF P, Q
  <2> QED BY <2>1, <2>2, <2>3
<1>6. F \in Bijection(P, Q)
  <2>1. \A X, Y \in P : F[X] = F[Y] => X = Y
    <3> TAKE X, Y \in P
    <3>1. x \notin X /\ x \notin Y /\ F[X] = X \cup {x} /\ F[Y] = Y \cup {x}
      BY <1>4
    <3> HIDE DEF F, P
    <3> QED BY <3>1
  <2>2. F \in [P -> Q] /\ \A Y \in Q : \E X \in P : F[X] = Y
    OBVIOUS
  <2> HIDE DEF F, P, Q
  <2> QED BY <2>1, <2>2 DEF Bijection, Injection, IsInjective, Surjection
<1>7. IsFiniteSet(Q) /\ Cardinality(Q) = Cardinality(P)
  <2> HIDE DEF F, P, Q
  <2>1. ExistsBijection(P, Q)
    BY <1>6 DEF ExistsBijection
  <2> QED BY <1>3, <2>1, FS_Bijection
<1>8. Cardinality({}) = 0
  BY FS_EmptySet
<1>9. Cardinality(P) \in Nat
  <2> HIDE DEF P
  <2> QED BY <1>3, FS_CardinalityType
<1>10. Cardinality(SUBSET B) = Cardinality(P) + Cardinality(P)
  <2> HIDE DEF P, Q
  <2>1. Cardinality(P \cup Q) = Cardinality(P) + Cardinality(Q) - Cardinality(P \cap Q)
    BY <1>3, <1>7, FS_Union
  <2>2. SUBSET B = P \cup Q /\ Cardinality(P \cap Q) = 0
    BY <1>5, <1>8, Zenon
  <2>3. Cardinality(SUBSET B) = Cardinality(P) + Cardinality(P) - 0
    BY <1>7, <2>1, <2>2, Zenon
  <2> QED BY <1>9, <2>3
<1> HIDE DEF P
<1> QED BY <1>3, <1>9, <1>10

-----------------------------------------------------------------------------
(* A number spelled by bits.                                                *)

Bit == {0, 1}

\* The values of the beginnings of a sequence of bits.
Values(bits) ==
  {v \in [0 .. Len(bits) -> Nat] :
     v[0] = 0 /\ \A i \in 1 .. Len(bits) : v[i] = 2 * v[i - 1] + bits[i]}

\* A sequence of bits has such values.
LEMMA ValuesExist ==
  ASSUME NEW bits \in Seq(Bit)
  PROVE  \E v : v \in Values(bits)
<1> DEFINE n == Len(bits)
           Upto(v, m) == v[0] = 0 /\ \A i \in 1 .. m : v[i] = 2 * v[i - 1] + bits[i]
           T == {m \in Nat : m <= n => \E v \in [0 .. m -> Nat] : Upto(v, m)}
<1>0. n \in Nat /\ \A i \in 1 .. n : bits[i] \in Nat
  BY DEF Bit
<1>1. 0 \in T
  <2>1. [k \in 0 .. 0 |-> 0] \in [0 .. 0 -> Nat] /\ Upto([k \in 0 .. 0 |-> 0], 0)
    OBVIOUS
  <2> QED BY <2>1
<1>2. ASSUME NEW m \in Nat, m \in T PROVE m + 1 \in T
  <2> HIDE DEF Upto
  <2>1. SUFFICES ASSUME m + 1 <= n PROVE \E v \in [0 .. (m + 1) -> Nat] : Upto(v, m + 1)
    OBVIOUS
  <2>2. PICK v \in [0 .. m -> Nat] : Upto(v, m)
    BY <1>0, <1>2, <2>1
  <2> DEFINE g == [k \in 0 .. (m + 1) |-> IF k = m + 1 THEN 2 * v[m] + bits[m + 1] ELSE v[k]]
  <2>3. g \in [0 .. (m + 1) -> Nat]
    <3>1. bits[m + 1] \in Nat /\ v[m] \in Nat
      BY <1>0, <2>1
    <3> QED BY <3>1
  <2>4. v[0] = 0 /\ \A i \in 1 .. m : v[i] = 2 * v[i - 1] + bits[i]
    BY <2>2 DEF Upto
  <2>5. /\ g[m + 1] = 2 * v[m] + bits[m + 1]
        /\ \A i \in 0 .. m : g[i] = v[i]
    OBVIOUS
  <2> HIDE DEF g
  <2>6. g[0] = 0
    BY <2>4, <2>5
  <2>7. ASSUME NEW i \in 1 .. (m + 1) PROVE g[i] = 2 * g[i - 1] + bits[i]
    <3>1. CASE i = m + 1
      BY <2>5, <3>1
    <3>2. CASE i \in 1 .. m
      <4>1. g[i] = v[i] /\ g[i - 1] = v[i - 1]
        BY <2>5, <3>2
      <4> QED BY <2>4, <3>2, <4>1
    <3> QED BY <3>1, <3>2
  <2>8. Upto(g, m + 1)
    BY <2>6, <2>7 DEF Upto
  <2> QED BY <2>3, <2>8
<1>3. n \in T
  <2> HIDE DEF T
  <2> QED BY <1>0, <1>1, <1>2, SetInduction
<1> QED BY <1>0, <1>3 DEF Values

\* They are determined by the bits.
LEMMA ValuesUnique ==
  ASSUME NEW bits \in Seq(Bit), NEW v \in Values(bits),
         NEW w, w[0] = 0, \A i \in 1 .. Len(bits) : w[i] = 2 * w[i - 1] + bits[i]
  PROVE  \A i \in 0 .. Len(bits) : w[i] = v[i]
<1> DEFINE T == {m \in Nat : m <= Len(bits) => w[m] = v[m]}
<1>1. 0 \in T
  BY DEF Values
<1>2. ASSUME NEW m \in Nat, m \in T PROVE m + 1 \in T
  <2>1. SUFFICES ASSUME m + 1 <= Len(bits) PROVE w[m + 1] = v[m + 1]
    OBVIOUS
  <2>2. m + 1 \in 1 .. Len(bits) /\ (m + 1) - 1 = m /\ w[m] = v[m]
    BY <1>2, <2>1
  <2> QED BY <2>2 DEF Values
<1>3. Nat \subseteq T
  <2> HIDE DEF T
  <2> QED BY <1>1, <1>2, SetInduction
<1> QED BY <1>3

\* Number is the last of them.
LEMMA NumberIs ==
  ASSUME NEW bits \in Seq(Bit), NEW v \in Values(bits)
  PROVE  Number(bits) = v[Len(bits)]
<1> DEFINE Def(g) == g = [i \in 0 .. Len(bits) |-> IF i = 0 THEN 0 ELSE (2 * g[i - 1]) + bits[i]]
           w == CHOOSE g : Def(g)
<1>0. Len(bits) \in Nat
  OBVIOUS
<1>1. Def(v)
  BY <1>0 DEF Values
<1>2. Def(w)
  BY <1>1
<1>3. Number(bits) = w[Len(bits)]
  BY DEF Number
<1> HIDE DEF w
<1>4. w[0] = 0 /\ \A i \in 1 .. Len(bits) : w[i] = 2 * w[i - 1] + bits[i]
  BY <1>0, <1>2
<1>5. \A i \in 0 .. Len(bits) : w[i] = v[i]
  BY <1>4, ValuesUnique
<1> QED BY <1>0, <1>3, <1>5

\* No bits spell 0.
LEMMA NumberEmpty == Number(<<>>) = 0
<1>1. <<>> \in Seq(Bit) /\ Len(<<>>) = 0
  OBVIOUS
<1>2. PICK v : v \in Values(<<>>)
  BY <1>1, ValuesExist
<1> QED BY <1>1, <1>2, NumberIs DEF Values

\* One more bit doubles the number and is added.
LEMMA NumberAppend ==
  ASSUME NEW s \in Seq(Bit), NEW b \in Bit
  PROVE  Number(s) \in Nat /\ Number(Append(s, b)) = 2 * Number(s) + b
<1> DEFINE t == Append(s, b)
           n == Len(s)
<1>1. /\ t \in Seq(Bit) /\ Len(t) = n + 1 /\ n \in Nat
      /\ \A i \in 1 .. n : t[i] = s[i]
      /\ t[n + 1] = b
  OBVIOUS
<1> HIDE DEF t
<1>2. PICK v : v \in Values(t)
  BY <1>1, ValuesExist
<1>3. PICK w : w \in Values(s)
  BY ValuesExist
<1>4. v[0] = 0 /\ \A i \in 1 .. Len(s) : v[i] = 2 * v[i - 1] + s[i]
  BY <1>1, <1>2 DEF Values
<1>5. v[n] = w[n]
  BY <1>1, <1>3, <1>4, ValuesUnique
<1>6. Number(s) = w[n] /\ w[n] \in Nat
  BY <1>1, <1>3, NumberIs DEF Values
<1>7. Number(t) = v[n + 1]
  BY <1>1, <1>2, NumberIs
<1>8. v[n + 1] = 2 * v[n] + b
  BY <1>1, <1>2 DEF Values
<1> QED BY <1>5, <1>6, <1>7, <1>8 DEF t

\* The number a sequence of bits spells, from its beginning and its end.
LEMMA NumberSplit ==
  ASSUME NEW k \in Nat, NEW n \in Nat, NEW s \in Seq(Bit), Len(s) = k + n
  PROVE  /\ Number(SubSeq(s, 1, k)) \in Nat
         /\ Number(SubSeq(s, k + 1, k + n)) \in 0 .. (2 ^ n - 1)
         /\ Number(s) = Number(SubSeq(s, 1, k)) * 2 ^ n + Number(SubSeq(s, k + 1, k + n))
<1> DEFINE Split(t, m) ==
             /\ Number(SubSeq(t, 1, k)) \in Nat
             /\ Number(SubSeq(t, k + 1, k + m)) \in 0 .. (2 ^ m - 1)
             /\ Number(t) = Number(SubSeq(t, 1, k)) * 2 ^ m + Number(SubSeq(t, k + 1, k + m))
           T == {m \in Nat : \A t \in Seq(Bit) : Len(t) = k + m => Split(t, m)}
<1>n. \A t \in Seq(Bit) : Number(t) \in Nat
  BY NumberAppend DEF Bit
<1>1. 0 \in T
  <2> SUFFICES ASSUME NEW t \in Seq(Bit), Len(t) = k + 0 PROVE Split(t, 0)
    OBVIOUS
  <2>1. SubSeq(t, 1, k) = t /\ SubSeq(t, k + 1, k + 0) = <<>>
    OBVIOUS
  <2>2. 2 ^ 0 = 1 /\ Number(t) \in Nat
    BY <1>n
  <2>3. \A x \in Nat : x = x * 1 + 0 /\ 0 \in 0 .. (1 - 1)
    OBVIOUS
  <2> QED BY <2>1, <2>2, <2>3, NumberEmpty
<1>2. ASSUME NEW m \in Nat, m \in T PROVE m + 1 \in T
  <2> SUFFICES ASSUME NEW t \in Seq(Bit), Len(t) = k + (m + 1) PROVE Split(t, m + 1)
    OBVIOUS
  <2> DEFINE u == SubSeq(t, 1, k + m)
             b == t[k + m + 1]
  <2>1. u \in Seq(Bit) /\ Len(u) = k + m /\ b \in Bit
    OBVIOUS
  <2>2. t = Append(u, b)
    OBVIOUS
  <2>3. SubSeq(t, 1, k) = SubSeq(u, 1, k)
    OBVIOUS
  <2>4. SubSeq(t, k + 1, k + (m + 1)) = Append(SubSeq(u, k + 1, k + m), b)
    OBVIOUS
  <2>5. SubSeq(u, k + 1, k + m) \in Seq(Bit)
    OBVIOUS
  <2>6. Split(u, m)
    BY <1>2, <2>1
  <2> DEFINE x == Number(SubSeq(u, 1, k))
             y == Number(SubSeq(u, k + 1, k + m))
             p == 2 ^ m
  <2>7. p \in Nat /\ 2 ^ (m + 1) = p + p
    BY PowerOfTwo
  <2>8. /\ x \in Nat /\ y \in 0 .. (p - 1) /\ Number(u) = x * p + y
    BY <2>6
  <2>9. Number(t) = 2 * Number(u) + b
    BY <2>1, <2>2, NumberAppend
  <2>10. Number(SubSeq(t, k + 1, k + (m + 1))) = 2 * y + b
    BY <2>1, <2>4, <2>5, NumberAppend
  <2>11. Number(SubSeq(t, 1, k)) = x
    BY <2>3
  <2> HIDE DEF u, b, x, y, p
  <2>12. /\ 2 * y + b \in 0 .. ((p + p) - 1)
    BY <2>1, <2>7, <2>8 DEF Bit
  <2>13. 2 * Number(u) + b = x * (p + p) + (2 * y + b)
    <3>1. x * (p + p) = x * p + x * p /\ x * p \in Nat
      BY <2>7, <2>8
    <3> QED BY <2>1, <2>8, <3>1 DEF Bit
  <2> QED BY <2>7, <2>8, <2>9, <2>10, <2>11, <2>12, <2>13
<1>3. Nat \subseteq T
  <2> HIDE DEF T
  <2> QED BY <1>1, <1>2, SetInduction
<1> QED BY <1>3

\* A power of two is not zero.
LEMMA PowerPositive ==
  ASSUME NEW n \in Nat
  PROVE  2 ^ n \in Nat \ {0}
<1> DEFINE T == {m \in Nat : 2 ^ m \in Nat \ {0}}
<1>1. 0 \in T
  <2>1. 2 ^ 0 = 1
    OBVIOUS
  <2> QED BY <2>1
<1>2. ASSUME NEW m \in Nat, m \in T PROVE m + 1 \in T
  <2>1. 2 ^ (m + 1) = 2 ^ m + 2 ^ m /\ 2 ^ m \in Nat \ {0}
    BY <1>2, PowerOfTwo
  <2> QED BY <2>1
<1>3. Nat \subseteq T
  <2> HIDE DEF T
  <2> QED BY <1>1, <1>2, SetInduction
<1> QED BY <1>3

\* The parts of a frame.
OpcodeOf(bits) == Number(SubSeq(bits, 1, 2))
ExtendedOf(bits) == Number(SubSeq(bits, 3, 4))
AddressOf(bits) == Number(SubSeq(bits, 4, CommandBits))
DataOf(bits) == Number(SubSeq(bits, CommandBits + 1, Len(bits)))

\* The shift register decoded by quotients and remainders is the frame read
\* by its positions.
LEMMA Decoded ==
  ASSUME NEW bits \in Seq(Bit), Len(bits) = CommandBits
  PROVE  /\ (Number(bits) \div (2 ^ AddressBits)) % 4 = OpcodeOf(bits)
         /\ (Number(bits) \div (2 ^ (AddressBits - 2))) % 4 = ExtendedOf(bits)
         /\ Number(bits) % (2 ^ (AddressBits - 1)) = AddressOf(bits)
         /\ OpcodeOf(bits) \in 0 .. 3 /\ ExtendedOf(bits) \in 0 .. 3
         /\ AddressOf(bits) \in EepromWords
<1>0. AddressBits \in Nat /\ AddressBits - 1 \in Nat /\ AddressBits - 2 \in Nat
  BY EepromWidths
<1>a. CommandBits = 2 + AddressBits /\ CommandBits = 4 + (AddressBits - 2)
      /\ CommandBits = 3 + (AddressBits - 1)
  BY <1>0 DEF CommandBits
<1>b. 2 ^ 2 = 4
  OBVIOUS
<1>c. \A x \in 0 .. 3 : x % 4 = x
  OBVIOUS
<1>1. \A s \in Seq(Bit) : Len(s) = 2 => Number(s) \in 0 .. 3
  <2> TAKE s \in Seq(Bit)
  <2> HAVE Len(s) = 2
  <2>1. SubSeq(s, 0 + 1, 0 + 2) = s /\ Len(s) = 0 + 2
    OBVIOUS
  <2>2. Number(SubSeq(s, 0 + 1, 0 + 2)) \in 0 .. (2 ^ 2 - 1)
    BY <2>1, NumberSplit
  <2>3. Number(s) \in 0 .. (4 - 1)
    BY <1>b, <2>1, <2>2
  <2> QED BY <2>3
<1>2. SubSeq(bits, 1, 2) \in Seq(Bit) /\ Len(SubSeq(bits, 1, 2)) = 2
  BY <1>0, <1>a
<1>3. SubSeq(bits, 3, 4) \in Seq(Bit) /\ Len(SubSeq(bits, 3, 4)) = 2
  BY <1>0, <1>a
<1>4. OpcodeOf(bits) \in 0 .. 3 /\ ExtendedOf(bits) \in 0 .. 3
  BY <1>1, <1>2, <1>3 DEF OpcodeOf, ExtendedOf
<1>5. (Number(bits) \div (2 ^ AddressBits)) % 4 = OpcodeOf(bits)
  <2> DEFINE p == 2 ^ AddressBits
             x == Number(SubSeq(bits, 1, 2))
             y == Number(SubSeq(bits, 2 + 1, 2 + AddressBits))
  <2>1. p \in Nat \ {0}
    BY <1>0, PowerPositive
  <2>2. x \in Nat /\ y \in 0 .. (p - 1) /\ Number(bits) = x * p + y
    BY <1>0, <1>a, NumberSplit
  <2>3. x = OpcodeOf(bits)
    BY DEF OpcodeOf
  <2> HIDE DEF p, x, y
  <2>4. Number(bits) \div p = x
    BY <2>1, <2>2, DivUnique
  <2> QED BY <1>4, <1>c, <2>3, <2>4 DEF p
<1>6. (Number(bits) \div (2 ^ (AddressBits - 2))) % 4 = ExtendedOf(bits)
  <2> DEFINE p == 2 ^ (AddressBits - 2)
             u == SubSeq(bits, 1, 4)
             x == Number(u)
             y == Number(SubSeq(bits, 4 + 1, 4 + (AddressBits - 2)))
  <2>1. p \in Nat \ {0}
    BY <1>0, PowerPositive
  <2>2. x \in Nat /\ y \in 0 .. (p - 1) /\ Number(bits) = x * p + y
    BY <1>0, <1>a, NumberSplit
  <2>3. u \in Seq(Bit) /\ Len(u) = 2 + 2 /\ SubSeq(u, 2 + 1, 2 + 2) = SubSeq(bits, 3, 4)
    BY <1>0, <1>a
  <2> HIDE DEF u
  <2>4. /\ Number(SubSeq(u, 1, 2)) \in Nat
        /\ x = Number(SubSeq(u, 1, 2)) * 2 ^ 2 + Number(SubSeq(u, 2 + 1, 2 + 2))
    BY <2>3, NumberSplit
  <2> DEFINE z == Number(SubSeq(u, 1, 2))
             e == ExtendedOf(bits)
  <2>5. z \in Nat /\ x = z * 4 + e /\ e \in 0 .. (4 - 1)
    <3>1. Number(SubSeq(u, 2 + 1, 2 + 2)) = e
      BY <2>3 DEF ExtendedOf
    <3>2. x = z * 2 ^ 2 + e /\ z \in Nat
      BY <2>4, <3>1
    <3> HIDE DEF x, z, e
    <3>3. x = z * 4 + e
      BY <1>b, <3>2
    <3>4. e \in 0 .. 3
      BY <1>4 DEF e
    <3> QED BY <3>2, <3>3, <3>4
  <2> HIDE DEF p, x, y, z, e
  <2>6. x % 4 = e
    BY <2>5, DivUnique
  <2>7. Number(bits) \div p = x
    BY <2>1, <2>2, DivUnique
  <2> QED BY <2>6, <2>7 DEF p, e
<1>7. Number(bits) % (2 ^ (AddressBits - 1)) = AddressOf(bits) /\ AddressOf(bits) \in EepromWords
  <2> DEFINE p == 2 ^ (AddressBits - 1)
             x == Number(SubSeq(bits, 1, 3))
             y == Number(SubSeq(bits, 3 + 1, 3 + (AddressBits - 1)))
  <2>1. p \in Nat \ {0}
    BY <1>0, PowerPositive
  <2>2. x \in Nat /\ y \in 0 .. (p - 1) /\ Number(bits) = x * p + y
    BY <1>0, <1>a, NumberSplit
  <2>3. y = AddressOf(bits)
    BY <1>a DEF AddressOf
  <2>4. EepromWords = 0 .. (p - 1)
    BY DEF EepromWords
  <2> HIDE DEF p, x, y
  <2>5. Number(bits) % p = y
    BY <2>1, <2>2, DivUnique
  <2> QED BY <2>2, <2>3, <2>4, <2>5 DEF p
<1> QED BY <1>4, <1>5, <1>6, <1>7

\* The effect of a frame by its length and opcode.
LEMMA FrameEffectIs ==
  ASSUME NEW bits, NEW rom
  PROVE  /\ Len(bits) = CommandBits /\ OpcodeOf(bits) = 3 =>
              FrameEffect(bits, rom) = [rom EXCEPT ![AddressOf(bits)] = ErasedWord]
         /\ Len(bits) = CommandBits /\ OpcodeOf(bits) = 0 /\ ExtendedOf(bits) = 2 =>
              FrameEffect(bits, rom) = [w \in EepromWords |-> ErasedWord]
         /\ Len(bits) = CommandBits /\ OpcodeOf(bits) # 3
              /\ ~(OpcodeOf(bits) = 0 /\ ExtendedOf(bits) = 2) => FrameEffect(bits, rom) = rom
         /\ Len(bits) = CommandBits + DataBits /\ OpcodeOf(bits) = 1 =>
              FrameEffect(bits, rom) = [rom EXCEPT ![AddressOf(bits)] = DataOf(bits)]
         /\ Len(bits) = CommandBits + DataBits /\ OpcodeOf(bits) = 0 /\ ExtendedOf(bits) = 1 =>
              FrameEffect(bits, rom) = [w \in EepromWords |-> DataOf(bits)]
         /\ Len(bits) \notin {CommandBits, CommandBits + DataBits} => FrameEffect(bits, rom) = rom
<1>1. CommandBits \in Nat /\ DataBits \in Nat \ {0} /\ CommandBits # CommandBits + DataBits
  BY EepromWidths DEF CommandBits
<1> DEFINE o == OpcodeOf(bits)
           e == ExtendedOf(bits)
           a == AddressOf(bits)
           v == DataOf(bits)
           n == Len(bits)
           fill(x) == [w \in EepromWords |-> x]
<1>2. FrameEffect(bits, rom)
        = CASE n = CommandBits /\ o = 3 -> [rom EXCEPT ![a] = ErasedWord]
            [] n = CommandBits /\ o = 0 /\ e = 2 -> fill(ErasedWord)
            [] n = CommandBits + DataBits /\ o = 1 -> [rom EXCEPT ![a] = v]
            [] n = CommandBits + DataBits /\ o = 0 /\ e = 1 -> fill(v)
            [] OTHER -> rom
  BY DEF FrameEffect, OpcodeOf, ExtendedOf, AddressOf, DataOf
<1> HIDE DEF o, e, a, v, n, fill
<1>3. /\ n = CommandBits /\ o = 3 => FrameEffect(bits, rom) = [rom EXCEPT ![a] = ErasedWord]
      /\ n = CommandBits /\ o = 0 /\ e = 2 => FrameEffect(bits, rom) = fill(ErasedWord)
      /\ n = CommandBits /\ o # 3 /\ ~(o = 0 /\ e = 2) => FrameEffect(bits, rom) = rom
      /\ n = CommandBits + DataBits /\ o = 1 => FrameEffect(bits, rom) = [rom EXCEPT ![a] = v]
      /\ n = CommandBits + DataBits /\ o = 0 /\ e = 1 => FrameEffect(bits, rom) = fill(v)
      /\ n \notin {CommandBits, CommandBits + DataBits} => FrameEffect(bits, rom) = rom
  BY <1>1, <1>2
<1> QED BY <1>3 DEF o, e, a, v, n, fill

-----------------------------------------------------------------------------
(* The MBC7: the states of the device.                                       *)

Words7 == 0 .. ErasedWord

Commands7 ==
  [name : {"Idle"}]
    \cup [name : {"ReceivingCommand"}, bits : Nat, value : Nat]
    \cup [name : {"ReceivingData"}, target : EepromWords \cup {-1}, bits : Nat, value : Nat]
    \cup [name : {"SendingRead"}, left : Nat \ {0}, value : Words7]

Mbc7Devices ==
  [kind : {"Mbc7"}, enabled : BOOLEAN, pins : [cs : Bit, clk : Bit, di : Bit, do : Bit],
   command : Commands7, write_enabled : BOOLEAN, eeprom : [EepromWords -> Words7],
   input : Bit, latched : {-1, 0, 1}, latch_armed : BOOLEAN]

\* The frame seen so far is what the state machine has taken of it.
FrameOk(c, f) ==
  LET m == c.command IN
  /\ f \in Seq(Bit)
  /\ m.name = "Idle" => f = <<>>
  /\ m.name = "ReceivingCommand" =>
       Len(f) = m.bits /\ m.bits < CommandBits /\ m.value = Number(f)
  /\ m.name = "ReceivingData" =>
       /\ Len(f) = CommandBits + m.bits /\ m.bits < DataBits
       /\ m.value = DataOf(f)
       /\ \/ OpcodeOf(f) = 1 /\ m.target = AddressOf(f) /\ m.target \in EepromWords
          \/ OpcodeOf(f) = 0 /\ ExtendedOf(f) = 1 /\ m.target = -1

\* The widths and words of the chip.
LEMMA EepromRanges ==
  /\ CommandBits \in Nat /\ CommandBits >= 4 /\ DataBits \in Nat \ {0}
  /\ ErasedWord \in Nat /\ ErasedWord \in Words7
  /\ -1 \notin EepromWords /\ 0 \in EepromWords
<1>1. CommandBits \in Nat /\ CommandBits >= 4 /\ DataBits \in Nat \ {0}
  BY EepromWidths DEF CommandBits
<1>2. 2 ^ DataBits \in Nat \ {0}
  BY <1>1, PowerPositive
<1>3. ErasedWord \in Nat
  BY <1>2 DEF ErasedWord
<1>4. 2 ^ (AddressBits - 1) \in Nat \ {0}
  BY EepromWidths, PowerPositive
<1>5. -1 \notin EepromWords /\ 0 \in EepromWords
  BY <1>4 DEF EepromWords
<1> QED BY <1>1, <1>3, <1>5 DEF Words7

\* What a clock edge does to the frame and to the memory.
NextFrame(c, d, f) ==
  IF d.command.name = "Idle" THEN <<>>
  ELSE IF d.command.name # "SendingRead" /\ c.command.name # "Idle"
  THEN Append(f, c.pins.di) ELSE f

EdgeOk(c, d, f) ==
  /\ d \in Mbc7Devices
  /\ d.pins.cs = c.pins.cs /\ d.pins.clk = c.pins.clk /\ d.pins.di = c.pins.di
  /\ FrameOk(d, NextFrame(c, d, f))
  /\ d.eeprom = IF c.command.name \in {"ReceivingCommand", "ReceivingData"} /\ c.write_enabled
                THEN FrameEffect(Append(f, c.pins.di), c.eeprom) ELSE c.eeprom

\* A command state is told by its name.
LEMMA CommandKinds ==
  ASSUME NEW m \in Commands7
  PROVE  /\ m.name \in {"Idle", "ReceivingCommand", "ReceivingData", "SendingRead"}
         /\ m.name = "ReceivingCommand" =>
              m \in [name : {"ReceivingCommand"}, bits : Nat, value : Nat]
         /\ m.name = "ReceivingData" =>
              m \in [name : {"ReceivingData"}, target : EepromWords \cup {-1}, bits : Nat,
                     value : Nat]
         /\ m.name = "SendingRead" =>
              m \in [name : {"SendingRead"}, left : Nat \ {0}, value : Words7]
<1>1. \A x \in [name : {"Idle"}] : x.name = "Idle"
  OBVIOUS
<1>2. \A x \in [name : {"ReceivingCommand"}, bits : Nat, value : Nat] : x.name = "ReceivingCommand"
  OBVIOUS
<1>3. \A x \in [name : {"ReceivingData"}, target : EepromWords \cup {-1}, bits : Nat, value : Nat] :
         x.name = "ReceivingData"
  OBVIOUS
<1>4. \A x \in [name : {"SendingRead"}, left : Nat \ {0}, value : Words7] : x.name = "SendingRead"
  OBVIOUS
<1> QED BY <1>1, <1>2, <1>3, <1>4 DEF Commands7

\* A device that changes in its memory or its write enable.
LEMMA Written ==
  ASSUME NEW c \in Mbc7Devices
  PROVE  /\ \A e \in [EepromWords -> Words7] :
              LET d == [c EXCEPT !.eeprom = e]
              IN  /\ d \in Mbc7Devices /\ d.eeprom = e /\ d.pins = c.pins /\ d.command = c.command
                  /\ d.write_enabled = c.write_enabled
         /\ \A w \in BOOLEAN :
              LET d == [c EXCEPT !.write_enabled = w]
              IN  /\ d \in Mbc7Devices /\ d.eeprom = c.eeprom /\ d.pins = c.pins
                  /\ d.command = c.command /\ d.write_enabled = w
  BY DEF Mbc7Devices

\* The end of a command.
LEMMA DoneIs ==
  ASSUME NEW c \in Mbc7Devices
  PROVE  /\ Done(c) \in Mbc7Devices /\ Done(c).command.name = "Idle" /\ Done(c).eeprom = c.eeprom
         /\ Done(c).pins.cs = c.pins.cs /\ Done(c).pins.clk = c.pins.clk
         /\ Done(c).pins.di = c.pins.di
<1>1. Idle \in Commands7 /\ Idle.name = "Idle" /\ 1 \in Bit
  BY DEF Commands7, Idle, Bit
<1> HIDE DEF Idle
<1> DEFINE d == [c EXCEPT !.command = Idle, !.pins.do = 1]
<1>2. /\ d \in Mbc7Devices /\ d.command = Idle /\ d.eeprom = c.eeprom
      /\ d.pins.cs = c.pins.cs /\ d.pins.clk = c.pins.clk /\ d.pins.di = c.pins.di
  BY <1>1 DEF Mbc7Devices
<1>3. Done(c) = d
  BY DEF Done
<1> HIDE DEF d
<1> QED BY <1>1, <1>2, <1>3

\* A command that ends in a write to the memory, or without one.
LEMMA DoneEdge ==
  ASSUME NEW c \in Mbc7Devices, NEW f, NEW b \in Mbc7Devices, b.pins = c.pins,
         b.eeprom = IF c.command.name \in {"ReceivingCommand", "ReceivingData"} /\ c.write_enabled
                    THEN FrameEffect(Append(f, c.pins.di), c.eeprom) ELSE c.eeprom
  PROVE  EdgeOk(c, Done(b), f)
<1> DEFINE d == Done(b)
<1>1. /\ d \in Mbc7Devices /\ d.command.name = "Idle" /\ d.eeprom = b.eeprom
      /\ d.pins.cs = c.pins.cs /\ d.pins.clk = c.pins.clk /\ d.pins.di = c.pins.di
  BY DoneIs
<1> HIDE DEF d
<1>2. NextFrame(c, d, f) = <<>> /\ <<>> \in Seq(Bit)
  BY <1>1 DEF NextFrame
<1>3. FrameOk(d, <<>>)
  BY <1>1, <1>2 DEF FrameOk
<1> QED BY <1>1, <1>2, <1>3 DEF EdgeOk, d

\* A write goes through exactly when writes are enabled.
LEMMA WordWritten ==
  ASSUME NEW c \in Mbc7Devices, NEW a \in EepromWords, NEW v \in Words7
  PROVE  /\ write_eeprom_word(c, a, v) \in Mbc7Devices
         /\ write_eeprom_word(c, a, v).pins = c.pins
         /\ write_eeprom_word(c, a, v).eeprom
              = IF c.write_enabled THEN [c.eeprom EXCEPT ![a] = v] ELSE c.eeprom
         /\ write_eeprom_all(c, v) \in Mbc7Devices
         /\ write_eeprom_all(c, v).pins = c.pins
         /\ write_eeprom_all(c, v).eeprom
              = IF c.write_enabled THEN [w \in EepromWords |-> v] ELSE c.eeprom
<1> DEFINE e == [c.eeprom EXCEPT ![a] = v]
           g == [w \in EepromWords |-> v]
<1>1. e \in [EepromWords -> Words7] /\ g \in [EepromWords -> Words7]
  BY DEF Mbc7Devices
<1>2. write_eeprom_word(c, a, v) = IF c.write_enabled THEN [c EXCEPT !.eeprom = e] ELSE c
  BY DEF write_eeprom_word, Mbc7Devices
<1>3. write_eeprom_all(c, v) = IF c.write_enabled THEN [c EXCEPT !.eeprom = g] ELSE c
  BY DEF write_eeprom_all
<1> HIDE DEF e, g
<1>4. /\ write_eeprom_word(c, a, v) \in Mbc7Devices
      /\ write_eeprom_word(c, a, v).pins = c.pins
      /\ write_eeprom_word(c, a, v).eeprom = IF c.write_enabled THEN e ELSE c.eeprom
  BY <1>1, <1>2, Written
<1>5. /\ write_eeprom_all(c, v) \in Mbc7Devices
      /\ write_eeprom_all(c, v).pins = c.pins
      /\ write_eeprom_all(c, v).eeprom = IF c.write_enabled THEN g ELSE c.eeprom
  BY <1>1, <1>3, Written
<1> QED BY <1>4, <1>5 DEF e, g

-----------------------------------------------------------------------------
(* What an edge of the clock does to the frame and to the memory.            *)

\* Sequences are equal when their elements are.
LEMMA SameSeq ==
  ASSUME NEW u \in Seq(Bit), NEW w \in Seq(Bit), Len(u) = Len(w),
         \A i \in 1 .. Len(u) : u[i] = w[i]
  PROVE  u = w
  OBVIOUS

\* The end of a sequence grows with it.
LEMMA SubSeqGrows ==
  ASSUME NEW f \in Seq(Bit), NEW b \in Bit, NEW k \in Nat, k <= Len(f)
  PROVE  /\ SubSeq(Append(f, b), k + 1, Len(f) + 1) = Append(SubSeq(f, k + 1, Len(f)), b)
         /\ SubSeq(f, k + 1, Len(f)) \in Seq(Bit)
<1> DEFINE g == Append(f, b)
           n == Len(f)
           u == SubSeq(g, k + 1, n + 1)
           v == SubSeq(f, k + 1, n)
<1>1. /\ g \in Seq(Bit) /\ Len(g) = n + 1 /\ n \in Nat
      /\ \A i \in 1 .. n : g[i] = f[i]
      /\ g[n + 1] = b
  OBVIOUS
<1>2. v \in Seq(Bit) /\ Len(v) = n - k /\ \A i \in 1 .. (n - k) : v[i] = f[k + i]
  BY <1>1
<1> HIDE DEF g
<1>3. u \in Seq(Bit) /\ Len(u) = (n - k) + 1 /\ \A i \in 1 .. (n - k + 1) : u[i] = g[k + i]
  BY <1>1
<1> HIDE DEF u, v
<1>4. /\ Append(v, b) \in Seq(Bit) /\ Len(Append(v, b)) = (n - k) + 1
      /\ \A i \in 1 .. (n - k) : Append(v, b)[i] = v[i]
      /\ Append(v, b)[n - k + 1] = b
  BY <1>1, <1>2
<1>5. \A i \in 1 .. (n - k + 1) : u[i] = Append(v, b)[i]
  <2> DEFINE p == n - k
  <2>1. p \in Nat /\ \A i \in 1 .. (p + 1) : i \in 1 .. p \/ i = p + 1
    BY <1>1
  <2>2. k + (n - k + 1) = n + 1
    BY <1>1
  <2> TAKE i \in 1 .. (n - k + 1)
  <2>3. CASE i \in 1 .. (n - k)
    <3>1. k + i \in 1 .. n
      BY <1>1, <2>3
    <3> QED BY <1>1, <1>2, <1>3, <1>4, <2>3, <3>1
  <2>4. CASE i = n - k + 1
    BY <1>1, <1>3, <1>4, <2>2, <2>4
  <2> QED BY <2>1, <2>3, <2>4
<1>6. u = Append(v, b)
  <2> DEFINE w == Append(v, b)
  <2>1. /\ u \in Seq(Bit) /\ w \in Seq(Bit) /\ Len(u) = Len(w)
        /\ \A i \in 1 .. Len(u) : u[i] = w[i]
    BY <1>3, <1>4, <1>5
  <2> HIDE DEF w
  <2> QED BY <2>1, SameSeq DEF w
<1> QED BY <1>2, <1>6 DEF g, u, v

\* One more bit of a frame: the parts already complete do not change.
LEMMA FrameGrows ==
  ASSUME NEW f \in Seq(Bit), NEW b \in Bit
  PROVE  LET g == Append(f, b)
         IN  /\ g \in Seq(Bit) /\ Len(g) = Len(f) + 1 /\ Number(g) = 2 * Number(f) + b
             /\ Number(f) \in Nat
             /\ Len(f) >= CommandBits =>
                  /\ OpcodeOf(g) = OpcodeOf(f) /\ ExtendedOf(g) = ExtendedOf(f)
                  /\ AddressOf(g) = AddressOf(f)
                  /\ DataOf(g) = 2 * DataOf(f) + b /\ DataOf(f) \in Nat
                  /\ Len(g) = CommandBits + DataBits => DataOf(g) \in Words7
             /\ Len(g) = CommandBits => DataOf(g) = 0
<1> DEFINE g == Append(f, b)
           k == CommandBits
           n == Len(f)
<1>0. k \in Nat /\ k >= 4 /\ n \in Nat
  BY EepromRanges
<1>1. g \in Seq(Bit) /\ Len(g) = n + 1 /\ Number(g) = 2 * Number(f) + b /\ Number(f) \in Nat
  BY NumberAppend
<1>2. Len(g) = k => DataOf(g) = 0
  <2>1. Len(g) = k => SubSeq(g, k + 1, Len(g)) = <<>>
    BY <1>0, <1>1
  <2> QED BY <2>1, NumberEmpty DEF DataOf
<1>3. ASSUME n >= k
      PROVE  /\ OpcodeOf(g) = OpcodeOf(f) /\ ExtendedOf(g) = ExtendedOf(f)
             /\ AddressOf(g) = AddressOf(f)
             /\ DataOf(g) = 2 * DataOf(f) + b /\ DataOf(f) \in Nat
             /\ Len(g) = k + DataBits => DataOf(g) \in Words7
  <2>1. SubSeq(g, 1, 2) = SubSeq(f, 1, 2) /\ SubSeq(g, 3, 4) = SubSeq(f, 3, 4)
    BY <1>0, <1>3
  <2>2. SubSeq(g, 4, k) = SubSeq(f, 4, k)
    BY <1>0, <1>3
  <2>3. SubSeq(g, k + 1, n + 1) = Append(SubSeq(f, k + 1, n), b) /\ SubSeq(f, k + 1, n) \in Seq(Bit)
    BY <1>0, <1>3, SubSeqGrows
  <2>4. DataOf(g) = 2 * DataOf(f) + b /\ DataOf(f) \in Nat
    BY <1>1, <2>3, NumberAppend DEF DataOf
  <2>5. ASSUME Len(g) = k + DataBits PROVE DataOf(g) \in Words7
    <3>1. DataBits \in Nat
      BY EepromRanges
    <3> HIDE DEF g
    <3>2. Number(SubSeq(g, k + 1, k + DataBits)) \in 0 .. (2 ^ DataBits - 1)
      BY <1>0, <1>1, <2>5, <3>1, NumberSplit
    <3>3. DataOf(g) = Number(SubSeq(g, k + 1, k + DataBits))
      BY <2>5 DEF DataOf
    <3> QED BY <3>2, <3>3 DEF Words7, ErasedWord
  <2> QED BY <2>1, <2>2, <2>4, <2>5 DEF OpcodeOf, ExtendedOf, AddressOf
<1> QED BY <1>1, <1>2, <1>3

\* The last bit of a write command: the data is to come.
LEMMA ReceiveEdge ==
  ASSUME NEW c \in Mbc7Devices, NEW f \in Seq(Bit), NEW t \in EepromWords \cup {-1},
         c.command.name = "ReceivingCommand", Len(Append(f, c.pins.di)) = CommandBits,
         \/ OpcodeOf(Append(f, c.pins.di)) = 1 /\ t = AddressOf(Append(f, c.pins.di))
              /\ t \in EepromWords
         \/ OpcodeOf(Append(f, c.pins.di)) = 0 /\ ExtendedOf(Append(f, c.pins.di)) = 1 /\ t = -1
  PROVE  EdgeOk(c, ReceiveData(c, t), f)
<1> DEFINE g == Append(f, c.pins.di)
           m == [name |-> "ReceivingData", target |-> t, bits |-> 0, value |-> 0]
           d == ReceiveData(c, t)
<1>0. c.pins.di \in Bit
  BY DEF Mbc7Devices
<1>1. g \in Seq(Bit) /\ Len(g) = CommandBits /\ DataOf(g) = 0
  BY <1>0, FrameGrows
<1>2. m \in Commands7 /\ m.name = "ReceivingData" /\ m.target = t /\ m.bits = 0 /\ m.value = 0
  BY DEF Commands7
<1>3. d = [c EXCEPT !.command = m]
  BY DEF ReceiveData
<1>4. \/ OpcodeOf(g) = 1 /\ t = AddressOf(g) /\ t \in EepromWords
      \/ OpcodeOf(g) = 0 /\ ExtendedOf(g) = 1 /\ t = -1
  OBVIOUS
<1>5. FrameEffect(g, c.eeprom) = c.eeprom
  <2> HIDE DEF g
  <2> QED BY <1>1, <1>4, FrameEffectIs
<1> HIDE DEF m
<1>6. /\ d \in Mbc7Devices /\ d.command = m /\ d.eeprom = c.eeprom /\ d.pins = c.pins
  BY <1>2, <1>3 DEF Mbc7Devices
<1> HIDE DEF d
<1>7. NextFrame(c, d, f) = g
  BY <1>2, <1>6 DEF NextFrame
<1> HIDE DEF g
<1>8. FrameOk(d, g)
  BY <1>1, <1>2, <1>4, <1>6, EepromRanges DEF FrameOk
<1>9. d.eeprom = IF c.command.name \in {"ReceivingCommand", "ReceivingData"} /\ c.write_enabled
                 THEN FrameEffect(g, c.eeprom) ELSE c.eeprom
  BY <1>5, <1>6
<1>10. EdgeOk(c, d, f)
  BY <1>6, <1>7, <1>8, <1>9 DEF EdgeOk, g
<1> QED BY <1>10 DEF d

\* The last bit of an extended command.
LEMMA ExtendedEdge ==
  ASSUME NEW c \in Mbc7Devices, NEW f \in Seq(Bit), NEW x,
         c.command.name = "ReceivingCommand", Len(Append(f, c.pins.di)) = CommandBits,
         OpcodeOf(Append(f, c.pins.di)) = 0, x = ExtendedOf(Append(f, c.pins.di)), x \in 0 .. 3,
         NEW value, (value \div (2 ^ (AddressBits - 2))) % 4 = x
  PROVE  EdgeOk(c, finish_eeprom_extended_command(c, value), f)
<1> DEFINE g == Append(f, c.pins.di)
           d == finish_eeprom_extended_command(c, value)
<1>1. /\ x = 2 => FrameEffect(g, c.eeprom) = [w \in EepromWords |-> ErasedWord]
      /\ x # 2 => FrameEffect(g, c.eeprom) = c.eeprom
  <2> HIDE DEF g
  <2>1. Len(g) = CommandBits /\ OpcodeOf(g) = 0 /\ ExtendedOf(g) = x
    BY DEF g
  <2> QED BY <2>1, FrameEffectIs
<1>2. CASE x = 0
  <2> DEFINE b == [c EXCEPT !.write_enabled = FALSE]
  <2>1. d = Done(b)
    BY <1>2 DEF finish_eeprom_extended_command
  <2>2. b \in Mbc7Devices /\ b.pins = c.pins /\ b.eeprom = c.eeprom
    BY Written
  <2> HIDE DEF b
  <2> QED BY <1>1, <1>2, <2>1, <2>2, DoneEdge
<1>3. CASE x = 1
  <2>1. d = ReceiveData(c, -1)
    BY <1>3 DEF finish_eeprom_extended_command
  <2> QED BY <1>3, <2>1, ReceiveEdge
<1>4. CASE x = 2
  <2> DEFINE b == write_eeprom_all(c, ErasedWord)
  <2>1. d = Done(b)
    BY <1>4 DEF finish_eeprom_extended_command
  <2>2. b \in Mbc7Devices /\ b.pins = c.pins
        /\ b.eeprom = IF c.write_enabled THEN [w \in EepromWords |-> ErasedWord] ELSE c.eeprom
    BY WordWritten, EepromRanges
  <2> HIDE DEF b
  <2> QED BY <1>1, <1>4, <2>1, <2>2, DoneEdge
<1>5. CASE x = 3
  <2> DEFINE b == [c EXCEPT !.write_enabled = TRUE]
  <2>1. d = Done(b)
    BY <1>5 DEF finish_eeprom_extended_command
  <2>2. b \in Mbc7Devices /\ b.pins = c.pins /\ b.eeprom = c.eeprom
    BY Written
  <2> HIDE DEF b
  <2> QED BY <1>1, <1>5, <2>1, <2>2, DoneEdge
<1> QED BY <1>2, <1>3, <1>4, <1>5

\* The last bit of a command.
LEMMA CommandEdge ==
  ASSUME NEW c \in Mbc7Devices, NEW f \in Seq(Bit),
         c.command.name = "ReceivingCommand", Len(Append(f, c.pins.di)) = CommandBits
  PROVE  EdgeOk(c, finish_eeprom_command(c, Number(Append(f, c.pins.di))), f)
<1> DEFINE g == Append(f, c.pins.di)
           value == Number(g)
           a == AddressOf(g)
           o == OpcodeOf(g)
           d == finish_eeprom_command(c, value)
<1>0. c.pins.di \in Bit
  BY DEF Mbc7Devices
<1>1. g \in Seq(Bit) /\ Len(g) = CommandBits
  BY <1>0, FrameGrows
<1>2. /\ (value \div (2 ^ AddressBits)) % 4 = o /\ value % (2 ^ (AddressBits - 1)) = a
      /\ (value \div (2 ^ (AddressBits - 2))) % 4 = ExtendedOf(g)
      /\ o \in 0 .. 3 /\ a \in EepromWords /\ ExtendedOf(g) \in 0 .. 3
  <2> HIDE DEF g
  <2> QED BY <1>1, Decoded
<1> HIDE DEF value
<1>3. /\ o = 3 => FrameEffect(g, c.eeprom) = [c.eeprom EXCEPT ![a] = ErasedWord]
      /\ o \in {1, 2} => FrameEffect(g, c.eeprom) = c.eeprom
  <2> HIDE DEF g
  <2> QED BY <1>1, FrameEffectIs
<1>4. CASE o = 2
  <2> DEFINE m == [name |-> "SendingRead", left |-> DataBits, value |-> c.eeprom[a]]
  <2>1. m \in Commands7 /\ m.name = "SendingRead"
    <3>1. c.eeprom[a] \in Words7
      BY <1>2 DEF Mbc7Devices
    <3> QED BY <3>1, EepromRanges DEF Commands7
  <2>2. d = [c EXCEPT !.command = m, !.pins.do = 0]
    <3> HIDE DEF a, o
    <3>1. (value \div (2 ^ AddressBits)) % 4 = 2
      BY <1>2, <1>4
    <3>2. d = [c EXCEPT !.command = [name |-> "SendingRead", left |-> DataBits,
                                     value |-> c.eeprom[value % (2 ^ (AddressBits - 1))]],
                        !.pins.do = 0]
      BY <3>1 DEF finish_eeprom_command
    <3>3. value % (2 ^ (AddressBits - 1)) = a
      BY <1>2
    <3> HIDE DEF d
    <3> QED BY <3>2, <3>3, Zenon
  <2> HIDE DEF m, d
  <2>a. 0 \in Bit
    BY DEF Bit
  <2>3. /\ d \in Mbc7Devices /\ d.command = m /\ d.eeprom = c.eeprom
        /\ d.pins.cs = c.pins.cs /\ d.pins.clk = c.pins.clk /\ d.pins.di = c.pins.di
    <3> DEFINE e == [c EXCEPT !.command = m, !.pins.do = 0]
    <3>1. /\ e \in Mbc7Devices /\ e.command = m /\ e.eeprom = c.eeprom
          /\ e.pins.cs = c.pins.cs /\ e.pins.clk = c.pins.clk /\ e.pins.di = c.pins.di
      BY <2>1, <2>a DEF Mbc7Devices
    <3> HIDE DEF e
    <3>2. d = e
      BY <2>2 DEF e
    <3> QED BY <3>1, <3>2
  <2>4. NextFrame(c, d, f) = f
    BY <2>1, <2>3 DEF NextFrame
  <2>5. FrameOk(d, f)
    BY <2>1, <2>3 DEF FrameOk
  <2>6. FrameEffect(g, c.eeprom) = c.eeprom
    BY <1>3, <1>4
  <2> QED BY <2>3, <2>4, <2>5, <2>6 DEF EdgeOk, d, value
<1>5. CASE o = 1
  <2>1. d = ReceiveData(c, a)
    BY <1>2, <1>5 DEF finish_eeprom_command
  <2> QED BY <1>2, <1>5, <2>1, ReceiveEdge DEF value
<1>6. CASE o = 3
  <2> DEFINE b == write_eeprom_word(c, a, ErasedWord)
  <2>1. d = Done(b)
    BY <1>2, <1>6 DEF finish_eeprom_command
  <2>2. b \in Mbc7Devices /\ b.pins = c.pins
        /\ b.eeprom = IF c.write_enabled THEN [c.eeprom EXCEPT ![a] = ErasedWord] ELSE c.eeprom
    BY <1>2, WordWritten, EepromRanges
  <2> HIDE DEF b
  <2> QED BY <1>3, <1>6, <2>1, <2>2, DoneEdge DEF value
<1>7. CASE o = 0
  <2>1. d = finish_eeprom_extended_command(c, value)
    BY <1>2, <1>7 DEF finish_eeprom_command
  <2> QED BY <1>1, <1>2, <1>7, <2>1, ExtendedEdge DEF value
<1> QED BY <1>2, <1>4, <1>5, <1>6, <1>7

\* The last bit of the data.
LEMMA DataEdge ==
  ASSUME NEW c \in Mbc7Devices, NEW f, FrameOk(c, f),
         c.command.name = "ReceivingData", c.command.bits + 1 = DataBits
  PROVE  EdgeOk(c, commit_eeprom_data(c, c.command.target, 2 * c.command.value + c.pins.di), f)
<1> DEFINE g == Append(f, c.pins.di)
           m == c.command
           v == 2 * m.value + c.pins.di
           d == commit_eeprom_data(c, m.target, v)
           target == m.target
<1>0. c.pins.di \in Bit /\ f \in Seq(Bit) /\ m \in Commands7
  BY DEF Mbc7Devices, FrameOk
<1>1. /\ Len(f) = CommandBits + m.bits /\ m.value = DataOf(f) /\ m.bits \in Nat
      /\ \/ OpcodeOf(f) = 1 /\ target = AddressOf(f) /\ target \in EepromWords
         \/ OpcodeOf(f) = 0 /\ ExtendedOf(f) = 1 /\ target = -1
  BY <1>0, CommandKinds DEF FrameOk
<1>2. Len(f) >= CommandBits /\ Len(f) + 1 = CommandBits + DataBits
  <2> DEFINE n == m.bits
             l == Len(f)
  <2>1. l = CommandBits + n /\ n \in Nat /\ n + 1 = DataBits
    BY <1>1
  <2> HIDE DEF n, l
  <2>2. l >= CommandBits /\ l + 1 = CommandBits + DataBits
    BY <2>1, EepromRanges
  <2> QED BY <2>2 DEF l
<1>3. /\ g \in Seq(Bit) /\ Len(g) = CommandBits + DataBits /\ v = DataOf(g)
      /\ OpcodeOf(g) = OpcodeOf(f) /\ ExtendedOf(g) = ExtendedOf(f) /\ AddressOf(g) = AddressOf(f)
      /\ v \in Words7
  <2>1. /\ g \in Seq(Bit) /\ Len(g) = Len(f) + 1
        /\ OpcodeOf(g) = OpcodeOf(f) /\ ExtendedOf(g) = ExtendedOf(f) /\ AddressOf(g) = AddressOf(f)
        /\ DataOf(g) = 2 * DataOf(f) + c.pins.di
        /\ Len(g) = CommandBits + DataBits => DataOf(g) \in Words7
    BY <1>0, <1>2, FrameGrows
  <2>2. v = DataOf(g)
    BY <1>1, <2>1
  <2> HIDE DEF g, v
  <2> QED BY <1>2, <2>1, <2>2
<1>4. d = Done(IF target = -1 THEN write_eeprom_all(c, v) ELSE write_eeprom_word(c, target, v))
  BY DEF commit_eeprom_data
<1> HIDE DEF g, v, target, d
<1>5. CASE OpcodeOf(f) = 1 /\ target = AddressOf(f) /\ target \in EepromWords
  <2> DEFINE b == write_eeprom_word(c, target, v)
  <2>1. d = Done(b)
    BY <1>4, <1>5, EepromRanges
  <2>2. b \in Mbc7Devices /\ b.pins = c.pins
        /\ b.eeprom = IF c.write_enabled THEN [c.eeprom EXCEPT ![target] = v] ELSE c.eeprom
    <3>1. target \in EepromWords /\ v \in Words7
      BY <1>3, <1>5
    <3> QED BY <3>1, WordWritten, Zenon
  <2>3. FrameEffect(g, c.eeprom) = [c.eeprom EXCEPT ![target] = v]
    BY <1>3, <1>5, FrameEffectIs
  <2> HIDE DEF b
  <2>4. EdgeOk(c, d, f)
    BY <2>1, <2>2, <2>3, DoneEdge DEF g
  <2> QED BY <2>4 DEF d, target, v
<1>6. CASE OpcodeOf(f) = 0 /\ ExtendedOf(f) = 1 /\ target = -1
  <2> DEFINE b == write_eeprom_all(c, v)
  <2>1. d = Done(b)
    BY <1>4, <1>6
  <2>2. b \in Mbc7Devices /\ b.pins = c.pins
        /\ b.eeprom = IF c.write_enabled THEN [w \in EepromWords |-> v] ELSE c.eeprom
    <3>1. 0 \in EepromWords /\ v \in Words7
      BY <1>3, EepromRanges
    <3> QED BY <3>1, WordWritten, Zenon
  <2>3. FrameEffect(g, c.eeprom) = [w \in EepromWords |-> v]
    BY <1>3, <1>6, FrameEffectIs
  <2> HIDE DEF b
  <2>4. EdgeOk(c, d, f)
    BY <2>1, <2>2, <2>3, DoneEdge DEF g
  <2> QED BY <2>4 DEF d, target, v
<1> QED BY <1>1, <1>5, <1>6

\* A bit that does not complete the command or the data.
LEMMA ShiftEdge ==
  ASSUME NEW c \in Mbc7Devices, NEW f, FrameOk(c, f),
         \/ c.command.name = "ReceivingCommand" /\ c.command.bits + 1 # CommandBits
         \/ c.command.name = "ReceivingData" /\ c.command.bits + 1 # DataBits
  PROVE  EdgeOk(c, [c EXCEPT !.command.bits = @ + 1,
                             !.command.value = (2 * c.command.value) + c.pins.di], f)
<1> DEFINE g == Append(f, c.pins.di)
           m == c.command
           x == (2 * m.value) + c.pins.di
           y == m.bits + 1
           q == [m EXCEPT !.bits = y, !.value = x]
           d == [c EXCEPT !.command.bits = @ + 1, !.command.value = x]
<1>0. c.pins.di \in Bit /\ f \in Seq(Bit) /\ m \in Commands7
  BY DEF Mbc7Devices, FrameOk
<1>1. g \in Seq(Bit) /\ Len(g) = Len(f) + 1 /\ Number(g) = 2 * Number(f) + c.pins.di
  BY <1>0, FrameGrows
<1>2. m.bits \in Nat /\ m.value \in Nat /\ x \in Nat /\ y \in Nat
  BY <1>0, CommandKinds DEF Bit
<1>3. d = [c EXCEPT !.command = q]
  BY <1>0, CommandKinds DEF Mbc7Devices
<1> HIDE DEF x, y
<1>4. /\ q \in Commands7 /\ q.name = m.name /\ q.bits = y /\ q.value = x
      /\ m.name = "ReceivingData" => q.target = m.target
  <2>1. CASE m.name = "ReceivingCommand"
    <3>1. m \in [name : {"ReceivingCommand"}, bits : Nat, value : Nat]
      BY <1>0, <2>1, CommandKinds
    <3>2. q \in [name : {"ReceivingCommand"}, bits : Nat, value : Nat]
          /\ q.name = m.name /\ q.bits = y /\ q.value = x
      BY <1>2, <3>1
    <3> QED BY <2>1, <3>2 DEF Commands7
  <2>2. CASE m.name = "ReceivingData"
    <3>1. m \in [name : {"ReceivingData"}, target : EepromWords \cup {-1}, bits : Nat, value : Nat]
      BY <1>0, <2>2, CommandKinds
    <3>2. q \in [name : {"ReceivingData"}, target : EepromWords \cup {-1}, bits : Nat, value : Nat]
          /\ q.name = m.name /\ q.bits = y /\ q.value = x /\ q.target = m.target
      BY <1>2, <3>1
    <3> QED BY <2>2, <3>2 DEF Commands7
  <2> QED BY <2>1, <2>2
<1> HIDE DEF q
<1>5. d \in Mbc7Devices /\ d.command = q /\ d.eeprom = c.eeprom /\ d.pins = c.pins
  BY <1>3, <1>4 DEF Mbc7Devices
<1> HIDE DEF d
<1>6. NextFrame(c, d, f) = g
  BY <1>4, <1>5 DEF NextFrame
<1>7. CASE m.name = "ReceivingCommand"
  <2>1. Len(f) = m.bits /\ m.bits < CommandBits /\ m.value = Number(f) /\ m.bits + 1 # CommandBits
    BY <1>7 DEF FrameOk
  <2>2. y = Len(g) /\ x = Number(g) /\ y < CommandBits
    BY <1>1, <1>2, <2>1, EepromRanges, SMTT(30) DEF x, y
  <2> HIDE DEF g
  <2>3. FrameOk(d, g)
    BY <1>1, <1>4, <1>5, <1>7, <2>2 DEF FrameOk
  <2>4. FrameEffect(g, c.eeprom) = c.eeprom
    <3>1. Len(g) \notin {CommandBits, CommandBits + DataBits}
      BY <1>2, <2>2, EepromRanges
    <3> QED BY <3>1, FrameEffectIs
  <2>5. EdgeOk(c, d, f)
    BY <1>5, <1>6, <2>3, <2>4 DEF EdgeOk, g
  <2> QED BY <2>5 DEF d, x
<1>8. CASE m.name = "ReceivingData"
  <2>1. /\ Len(f) = CommandBits + m.bits /\ m.bits < DataBits /\ m.value = DataOf(f)
        /\ m.bits + 1 # DataBits
        /\ \/ OpcodeOf(f) = 1 /\ m.target = AddressOf(f) /\ m.target \in EepromWords
           \/ OpcodeOf(f) = 0 /\ ExtendedOf(f) = 1 /\ m.target = -1
    BY <1>8 DEF FrameOk
  <2>2. Len(f) >= CommandBits
    BY <1>2, <2>1, EepromRanges
  <2>3. /\ OpcodeOf(g) = OpcodeOf(f) /\ ExtendedOf(g) = ExtendedOf(f)
        /\ AddressOf(g) = AddressOf(f) /\ DataOf(g) = 2 * DataOf(f) + c.pins.di
    BY <1>0, <2>2, FrameGrows
  <2>4. Len(g) = CommandBits + y /\ y < DataBits /\ x = DataOf(g) /\ y > 0
    <3>1. x = DataOf(g)
      BY <2>1, <2>3 DEF x
    <3> DEFINE k == m.bits
               l == Len(f)
    <3>2. k \in Nat /\ l = CommandBits + k /\ k < DataBits /\ k + 1 # DataBits /\ y = k + 1
          /\ Len(g) = l + 1
      BY <1>1, <1>2, <2>1 DEF y
    <3> HIDE DEF k, l, g, m
    <3>3. Len(g) = CommandBits + y /\ y < DataBits /\ y > 0
      BY <3>2, EepromRanges
    <3> QED BY <3>1, <3>3
  <2> HIDE DEF g
  <2>5. FrameOk(d, g)
    BY <1>1, <1>4, <1>5, <1>8, <2>1, <2>3, <2>4 DEF FrameOk
  <2>6. FrameEffect(g, c.eeprom) = c.eeprom
    <3>1. Len(g) \notin {CommandBits, CommandBits + DataBits}
      BY <1>2, <2>4, EepromRanges
    <3> QED BY <3>1, FrameEffectIs
  <2>7. EdgeOk(c, d, f)
    BY <1>5, <1>6, <2>5, <2>6 DEF EdgeOk, g
  <2> QED BY <2>7 DEF d, x
<1> QED BY <1>7, <1>8

\* A rising clock edge with the chip selected.
LEMMA ClockEdge ==
  ASSUME NEW c \in Mbc7Devices, NEW f, FrameOk(c, f)
  PROVE  EdgeOk(c, clock_eeprom(c), f)
<1> DEFINE m == c.command
           d == clock_eeprom(c)
<1>0. c.pins.di \in Bit /\ f \in Seq(Bit) /\ m \in Commands7
  BY DEF Mbc7Devices, FrameOk
<1>1. CASE m.name = "Idle"
  <2> DEFINE q == [name |-> "ReceivingCommand", bits |-> 0, value |-> 0]
  <2>1. /\ q \in Commands7 /\ q.name = "ReceivingCommand" /\ q.bits = 0 /\ q.value = 0
        /\ 1 \in Bit /\ f = <<>> /\ Len(<<>>) = 0
    BY <1>1 DEF Commands7, Bit, FrameOk
  <2>2. d = IF c.pins.di = 1 THEN [c EXCEPT !.command = q, !.pins.do = 1] ELSE c
    BY <1>1 DEF clock_eeprom
  <2> HIDE DEF q
  <2>3. CASE c.pins.di = 1
    <3>1. /\ d \in Mbc7Devices /\ d.command = q /\ d.eeprom = c.eeprom
          /\ d.pins.cs = c.pins.cs /\ d.pins.clk = c.pins.clk /\ d.pins.di = c.pins.di
      <4> DEFINE e == [c EXCEPT !.command = q, !.pins.do = 1]
      <4>1. /\ e \in Mbc7Devices /\ e.command = q /\ e.eeprom = c.eeprom
            /\ e.pins.cs = c.pins.cs /\ e.pins.clk = c.pins.clk /\ e.pins.di = c.pins.di
        BY <2>1 DEF Mbc7Devices
      <4> HIDE DEF e, d
      <4>2. d = e
        BY <2>2, <2>3 DEF e
      <4> QED BY <4>1, <4>2
    <3> HIDE DEF d
    <3>2. NextFrame(c, d, f) = f
      BY <1>1, <2>1, <3>1 DEF NextFrame
    <3>3. FrameOk(d, f)
      BY <1>0, <2>1, <3>1, NumberEmpty, EepromRanges DEF FrameOk
    <3>4. EdgeOk(c, d, f)
      BY <1>1, <3>1, <3>2, <3>3 DEF EdgeOk
    <3> QED BY <3>4 DEF d
  <2>4. CASE c.pins.di # 1
    <3>1. d = c
      BY <2>2, <2>4
    <3> HIDE DEF d
    <3>2. NextFrame(c, c, f) = f
      BY <1>1, <2>1 DEF NextFrame
    <3>3. EdgeOk(c, c, f)
      BY <1>1, <3>2 DEF EdgeOk
    <3> QED BY <3>1, <3>3 DEF d
  <2> QED BY <2>3, <2>4
<1>2. CASE m.name = "ReceivingCommand" /\ m.bits + 1 = CommandBits
  <2>1. Len(f) = m.bits /\ m.value = Number(f)
    BY <1>2 DEF FrameOk
  <2>2. Number(Append(f, c.pins.di)) = 2 * m.value + c.pins.di
        /\ Len(Append(f, c.pins.di)) = CommandBits
    BY <1>0, <1>2, <2>1, FrameGrows
  <2>3. d = finish_eeprom_command(c, Number(Append(f, c.pins.di)))
    BY <1>2, <2>2 DEF clock_eeprom
  <2> QED BY <1>0, <1>2, <2>2, <2>3, CommandEdge
<1>3. CASE m.name = "ReceivingData" /\ m.bits + 1 = DataBits
  <2>1. d = commit_eeprom_data(c, c.command.target, 2 * c.command.value + c.pins.di)
    BY <1>3 DEF clock_eeprom
  <2> QED BY <1>3, <2>1, DataEdge
<1>4. CASE \/ m.name = "ReceivingCommand" /\ m.bits + 1 # CommandBits
           \/ m.name = "ReceivingData" /\ m.bits + 1 # DataBits
  <2>1. d = [c EXCEPT !.command.bits = @ + 1,
                      !.command.value = (2 * c.command.value) + c.pins.di]
    BY <1>4 DEF clock_eeprom
  <2> QED BY <1>4, <2>1, ShiftEdge
<1>5. CASE m.name = "SendingRead"
  <2> DEFINE o == (m.value \div (2 ^ (m.left - 1))) % 2
             q == IF m.left = 1 THEN Idle ELSE [m EXCEPT !.left = @ - 1]
             e == [c EXCEPT !.command = q, !.pins.do = o]
  <2>1. m \in [name : {"SendingRead"}, left : Nat \ {0}, value : Words7]
    BY <1>0, <1>5, CommandKinds
  <2>2. o \in Bit
    <3> DEFINE p == 2 ^ (m.left - 1)
               l == m.left - 1
    <3>1. l \in Nat
      BY <2>1
    <3>2. p \in Nat \ {0} /\ m.value \in Nat
      <4> HIDE DEF l
      <4>1. 2 ^ l \in Nat \ {0}
        BY <3>1, PowerPositive
      <4> QED BY <2>1, <4>1, EepromRanges DEF Words7, l
    <3> HIDE DEF p
    <3>3. m.value \div p \in Nat
      BY <3>2
    <3>4. \A z \in Nat : z % 2 \in {0, 1}
      OBVIOUS
    <3> QED BY <3>3, <3>4 DEF Bit, p
  <2>3. q \in Commands7 /\ q.name \in {"Idle", "SendingRead"} /\ (q.name = "Idle" <=> m.left = 1)
    BY <1>5, <2>1 DEF Commands7, Idle
  <2>4. d = e
    <3>1. d = LET sent == [c EXCEPT !.pins.do = o]
              IN  IF m.left = 1 THEN [sent EXCEPT !.command = Idle]
                  ELSE [sent EXCEPT !.command.left = @ - 1]
      BY <1>5 DEF clock_eeprom
    <3> HIDE DEF o, d
    <3> QED BY <3>1 DEF Mbc7Devices
  <2> HIDE DEF o, q, d
  <2>5. /\ e \in Mbc7Devices /\ e.command = q /\ e.eeprom = c.eeprom
        /\ e.pins.cs = c.pins.cs /\ e.pins.clk = c.pins.clk /\ e.pins.di = c.pins.di
    BY <2>2, <2>3 DEF Mbc7Devices
  <2> HIDE DEF e
  <2>6. FrameOk(e, NextFrame(c, e, f))
    <3>1. <<>> \in Seq(Bit)
      OBVIOUS
    <3> QED BY <1>0, <2>3, <2>5, <3>1 DEF FrameOk, NextFrame
  <2>7. EdgeOk(c, e, f)
    BY <1>5, <2>5, <2>6 DEF EdgeOk
  <2> QED BY <2>4, <2>7 DEF d
<1> QED BY <1>0, <1>1, <1>2, <1>3, <1>4, <1>5, CommandKinds

\* A step of the device from c with frame f to d with frame g: the frame is still
\* what the state machine has taken, and the memory changed as it says.
Mbc7Goes(c, f, d, g) ==
  /\ d \in Mbc7Devices /\ FrameOk(d, g)
  /\ LET clocked == /\ c.enabled /\ d.pins.cs = 1 /\ c.pins.clk = 0 /\ d.pins.clk = 1
                    /\ c.command.name \in {"ReceivingCommand", "ReceivingData"}
     IN  d.eeprom = IF clocked /\ c.write_enabled
                    THEN FrameEffect(Append(f, d.pins.di), c.eeprom) ELSE c.eeprom

\* A step that takes no bit and leaves the command and the memory.
LEMMA QuietStep ==
  ASSUME NEW c, NEW f, FrameOk(c, f), NEW d \in Mbc7Devices, d.command = c.command,
         d.eeprom = c.eeprom, ~(d.pins.cs = 1 /\ c.pins.clk = 0 /\ d.pins.clk = 1)
  PROVE  Mbc7Goes(c, f, d, f)
  BY DEF Mbc7Goes, FrameOk

\* A step after which the chip is idle, no bit taken.
LEMMA IdleStep ==
  ASSUME NEW c, NEW f, NEW d \in Mbc7Devices, d.command.name = "Idle",
         d.eeprom = c.eeprom, ~(d.pins.cs = 1 /\ c.pins.clk = 0 /\ d.pins.clk = 1)
  PROVE  Mbc7Goes(c, f, d, <<>>)
<1>1. <<>> \in Seq(Bit)
  OBVIOUS
<1> QED BY <1>1 DEF Mbc7Goes, FrameOk

\* A write to the pins, edge or not.
LEMMA PinsStep ==
  ASSUME cart \in Mbc7Devices, FrameOk(cart, h), Mbc7Pins
  PROVE  Mbc7Goes(cart, h, cart', h')
<1>1. PICK cs \in Bit, clk \in Bit, di \in Bit :
        /\ cart' = write_eeprom_pins(cart, cs, clk, di)
        /\ h' = CASE ~cart.enabled -> h
                  [] cart.enabled /\ (cs = 0 \/ cart'.command.name = "Idle") -> <<>>
                  [] cart.enabled /\ cs = 1 /\ clk = 1 /\ cart.pins.clk = 0
                       /\ cart'.command.name \notin {"Idle", "SendingRead"}
                       /\ cart.command.name # "Idle" -> Append(h, di)
                  [] OTHER -> h
  BY DEF Mbc7Pins, Bit
<1> DEFINE s == [cart EXCEPT !.pins = [@ EXCEPT !.cs = cs, !.clk = clk, !.di = di]]
<1>2. /\ s \in Mbc7Devices /\ s.pins.cs = cs /\ s.pins.clk = clk /\ s.pins.di = di
      /\ s.command = cart.command /\ s.eeprom = cart.eeprom /\ s.enabled = cart.enabled
      /\ s.write_enabled = cart.write_enabled
  BY DEF Mbc7Devices
<1>3. cart' = CASE ~cart.enabled -> cart
                [] cart.enabled /\ cs = 0 -> Done(s)
                [] cart.enabled /\ cs = 1 /\ cart.pins.clk = 0 /\ clk = 1 -> clock_eeprom(s)
                [] OTHER -> s
  BY <1>1 DEF write_eeprom_pins
<1> HIDE DEF s
<1>b. cart.enabled \in BOOLEAN
  BY DEF Mbc7Devices
<1>4. CASE ~cart.enabled
  <2>1. cart' = cart /\ h' = h
    BY <1>1, <1>3, <1>4
  <2>2. Mbc7Goes(cart, h, cart, h)
    BY QuietStep
  <2> QED BY <2>1, <2>2
<1>5. CASE cart.enabled /\ cs = 0
  <2>1. cart' = Done(s)
    BY <1>3, <1>5
  <2>2. h' = <<>>
    BY <1>1, <1>5
  <2>3. /\ Done(s) \in Mbc7Devices /\ Done(s).command.name = "Idle"
        /\ Done(s).eeprom = cart.eeprom /\ Done(s).pins.cs = 0
    BY <1>2, <1>5, DoneIs
  <2>4. Mbc7Goes(cart, h, Done(s), <<>>)
    BY <2>3, IdleStep
  <2> QED BY <2>1, <2>2, <2>4
<1>6. CASE cart.enabled /\ cs = 1 /\ cart.pins.clk = 0 /\ clk = 1
  <2> DEFINE d == clock_eeprom(s)
  <2>1. cart' = d
    BY <1>3, <1>6
  <2>2. FrameOk(s, h)
    BY <1>2 DEF FrameOk
  <2>3. EdgeOk(s, d, h)
    BY <1>2, <2>2, ClockEdge
  <2> HIDE DEF d
  <2>4. h' = NextFrame(s, d, h)
    BY <1>1, <1>2, <1>6, <2>1 DEF NextFrame
  <2>5. Mbc7Goes(cart, h, d, NextFrame(s, d, h))
    BY <1>2, <1>6, <2>3 DEF EdgeOk, Mbc7Goes
  <2> QED BY <2>1, <2>4, <2>5
<1>7. CASE cart.enabled /\ cs = 1 /\ ~(cart.pins.clk = 0 /\ clk = 1)
  <2>1. cart' = s
    BY <1>3, <1>7
  <2>2. h' = h
    <3>1. CASE cart.command.name = "Idle"
      BY <1>1, <1>2, <1>7, <2>1, <3>1 DEF FrameOk
    <3>2. CASE cart.command.name # "Idle"
      BY <1>1, <1>2, <1>7, <2>1, <3>2
    <3> QED BY <3>1, <3>2
  <2>3. Mbc7Goes(cart, h, s, h)
    BY <1>2, <1>7, QuietStep
  <2> QED BY <2>1, <2>2, <2>3
<1> QED BY <1>b, <1>4, <1>5, <1>6, <1>7 DEF Bit

\* The enable and the accelerometer leave the chip alone.
LEMMA AccessStep7 ==
  ASSUME cart \in Mbc7Devices, FrameOk(cart, h), Mbc7Access
  PROVE  Mbc7Goes(cart, h, cart', h')
<1>1. h' = h
  BY DEF Mbc7Access
<1>2. cart' \in Mbc7Devices /\ cart'.command = cart.command /\ cart'.eeprom = cart.eeprom
      /\ cart'.pins = cart.pins
  <2>1. CASE \E on \in BOOLEAN : cart' = mbc7_write_enable(cart, on)
    BY <2>1 DEF mbc7_write_enable, Mbc7Devices
  <2>2. CASE \E v \in {0, 1} : cart' = set_accelerometer_input(cart, v)
    BY <2>2 DEF set_accelerometer_input, Mbc7Devices, Bit
  <2>3. CASE cart' = write_latch_reset(cart)
    BY <2>3 DEF write_latch_reset, Mbc7Devices
  <2>4. CASE cart' = write_latch_commit(cart)
    BY <2>4 DEF write_latch_commit, Mbc7Devices, Bit
  <2> QED BY <2>1, <2>2, <2>3, <2>4 DEF Mbc7Access
<1> QED BY <1>1, <1>2, QuietStep

\* A new chip is erased and idle.
LEMMA Mbc7New ==
  NewMbc7 \in Mbc7Devices /\ NewMbc7.command.name = "Idle" /\ FrameOk(NewMbc7, <<>>)
<1>1. Idle \in Commands7 /\ Idle.name = "Idle" /\ <<>> \in Seq(Bit)
  BY DEF Commands7, Idle
<1>2. [w \in EepromWords |-> ErasedWord] \in [EepromWords -> Words7]
  BY EepromRanges
<1> HIDE DEF Idle
<1>3. NewMbc7 \in Mbc7Devices /\ NewMbc7.command.name = "Idle"
  BY <1>1, <1>2 DEF NewMbc7, Mbc7Devices, Bit
<1> QED BY <1>1, <1>3 DEF FrameOk

\* A power cycle keeps the memory and abandons the frame.
LEMMA PowerStep7 ==
  ASSUME cart \in Mbc7Devices, PowerCycle
  PROVE  Mbc7Goes(cart, h, cart', h')
<1>1. cart.kind = "Mbc7"
  BY DEF Mbc7Devices
<1>2. h' = <<>>
  BY <1>1 DEF PowerCycle, Is, NoHistory
<1>3. NewMbc7.kind = "Mbc7"
  BY DEF NewMbc7
<1>4. cart' = mbc7_restore(NewMbc7, mbc7_persistent_state(cart))
  BY <1>1, <1>3 DEF PowerCycle, NewDevice, restore_persistent_state, persistent_state
<1>5. Idle \in Commands7 /\ Idle.name = "Idle"
  BY DEF Commands7, Idle
<1> HIDE DEF Idle
<1>6. /\ cart' \in Mbc7Devices /\ cart'.command.name = "Idle" /\ cart'.eeprom = cart.eeprom
      /\ cart'.pins.cs = 0
  BY <1>4, <1>5, Mbc7New DEF mbc7_restore, mbc7_persistent_state, Mbc7Devices, Bit
<1> QED BY <1>2, <1>6, IdleStep

\* The history holds the frame the chip has taken.
FrameInv == Is("Mbc7") => cart \in Mbc7Devices /\ FrameOk(cart, h)

\* Every step of an MBC7 goes so.
LEMMA Mbc7Step ==
  ASSUME FrameInv, [Next]_vars, Is("Mbc7")
  PROVE  Mbc7Goes(cart, h, cart', h')
<1>0. cart \in Mbc7Devices /\ FrameOk(cart, h)
  BY DEF FrameInv
<1>1. CASE UNCHANGED vars
  <2>1. cart' = cart /\ h' = h
    BY <1>1 DEF vars
  <2>2. Mbc7Goes(cart, h, cart, h)
    BY <1>0, QuietStep
  <2> QED BY <2>1, <2>2
<1>2. CASE Next
  <2>1. Mbc7Pins \/ Mbc7Access \/ PowerCycle
    BY <1>2 DEF Next, Is, BankedAccess, BankedKinds, M161Write, Mmm01Access, Mbc3Access, Mbc3Store,
       Mbc3Ticks, Mbc6Access, Huc3Access, Huc3Time, CameraAccess, CameraWrite, CameraTick
  <2> QED BY <1>0, <2>1, PinsStep, AccessStep7, PowerStep7
<1> QED BY <1>1, <1>2

\* FrameInv is inductive beside CartInv.
LEMMA FrameStep ==
  ASSUME CartInv, FrameInv, [Next]_vars
  PROVE  FrameInv'
<1>1. CASE Is("Mbc7")
  BY <1>1, Mbc7Step DEF FrameInv, Mbc7Goes
<1>2. CASE ~Is("Mbc7") /\ Next
  BY <1>2, KindKept DEF FrameInv, Is
<1>3. CASE UNCHANGED vars
  BY <1>3 DEF FrameInv, Is, vars
<1> QED BY <1>1, <1>2, <1>3

\* The EEPROM changes exactly as the complete frames say, for every width of
\* address and data (mbc7.rs, write_eeprom_pins, finish_eeprom_command).
THEOREM EepromAlwaysFollowsFrames == Spec => EepromFollowsFrames
<1>1. Init => FrameInv
  <2> SUFFICES ASSUME Init, Is("Mbc7") PROVE cart \in Mbc7Devices /\ FrameOk(cart, h)
    BY DEF FrameInv
  <2>1. PICK k \in Kinds : cart = NewDevice(k) /\ h = NoHistory(k)
    BY DEF Init
  <2>2. k = "Mbc7"
    BY <2>1, NewKind DEF Is
  <2>3. cart = NewMbc7 /\ h = <<>>
    BY <2>1, <2>2 DEF NewDevice, NoHistory
  <2> QED BY <2>3, Mbc7New
<1>2. CartInv /\ FrameInv /\ [Next]_vars => FrameInv'
  BY FrameStep
<1>3. FrameInv /\ [Next]_vars =>
        [Is("Mbc7") =>
          LET clocked == /\ cart.enabled /\ cart'.pins.cs = 1
                         /\ cart.pins.clk = 0 /\ cart'.pins.clk = 1
                         /\ cart.command.name \in {"ReceivingCommand", "ReceivingData"}
          IN  cart'.eeprom =
                  IF clocked /\ cart.write_enabled
                  THEN FrameEffect(Append(h, cart'.pins.di), cart.eeprom)
                  ELSE cart.eeprom]_vars
  BY Mbc7Step DEF Mbc7Goes
<1> QED BY <1>1, <1>2, <1>3, CartInvariant, PTL DEF Spec, EepromFollowsFrames

=============================================================================
