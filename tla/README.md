# gb-cycle in TLA+

gb-cycle is a T-cycle-accurate Game Boy emulator in Rust: an emulator core
(`crates/gb-core`), battery saves on disk (`crates/gb-persistence`), a desktop
frontend (`crates/gb-desktop`), a command line and a test runner. This directory
holds TLA+ models of the parts whose correctness depends on the order of small
steps: the timer, the interrupt path with HALT and STOP, the joypad, the DMA
controller, the sound unit's control, the serial link with its cable, adapter
and printer, the cartridges with state of their own, the Super Game Boy host,
the infrared gift exchange, and the desktop session over its save files. TLC
checks them on small instances; TLAPS proves most of the safety properties
for every value of the constants.

Contents: [the system](#the-system), [modules](#modules), [runs](#runs),
[fairness](#fairness), [proofs](#proofs), [findings](#findings),
[known deviations](#known-deviations), [what is not modelled](#not-modelled),
[plan](#plan).

## The system

### How a T-cycle runs

`Machine::step_t_cycle` (machine/step.rs) is the only clock of a console. It
runs ten phases in a fixed order; the ones with state behind them are: 1 host
input, 2 derived edges (timer), 3-4 autonomous peripherals (APU, DMA, PPU,
serial), 6 the CPU's micro-operation with its bus access, 7 the commit of MMIO
side effects, 8 aggregation of interrupt requests into IF, 9 wake-up and
interrupt acceptance. Components do not call each other back; they meet in this
order through requests queued in the `CycleContext`, through IF/IE, and through
values one phase leaves for a later one. The hard part is not threads but which
phase sees which value in which T-cycle. A linked session runs each phase for
every console before the next one. The desktop frontend is one thread whose
loop runs frames, saves, and menu actions in turn.

### Components

| Component | State | Operations | Meets | What makes it correct |
|---|---|---|---|---|
| Timer (timer.rs) | system counter, TIMA, TMA, TAC, overflow pipeline, previous signal | tick, writes to DIV/TIMA/TMA/TAC, STOP reset, boot handoff | IF, APU | one request per overflow, no lost or doubled edge |
| Interrupt controller (interrupts.rs) | IF, IE | request, acknowledge, write | CPU, every producer | a request is consumed by exactly one acceptance |
| Joypad (joypad.rs) | rows, buttons, cached nibble, two edge latches | host mask, P1 write, two consumers | IF, STOP, SGB | no edge missed, none seen twice |
| CPU control (cpu/) | execution state, IME and EI delay, HALT request, in-flight opcode | fetch, execute, service, HALT, STOP, traps | IF/IE, DMA stall, PPU windows | sleeps only when it may, wakes when it must, never drops an accepted source |
| DMA (dma.rs) | one transfer slot, pending OAM restart, HDMA registers, last served window | tick, FF46, HDMA1-5 | CPU stall, PPU raster, HALT | every byte once and in order, HDMA5 tells the truth, every stall ends |
| Serial (serial.rs) | SB, SC, shift register, clock counter, pending pulse | tick, writes, link pulses | IF, link | a byte crosses whole; no pulse is banked |
| Link (link/session.rs, dmg04.rs, dmg07.rs) | topology, adapter phase, packet ring | lock-step, attach, detach, byte engine | serial ports | the adapter rebroadcasts the last packet |
| Printer (external_port/printer) | packet parser, image, status, staged reply | byte, tick, print | serial | replies in the order of the bytes |
| Mystery Gift (link/mystery_gift_protocol.rs) | script position, receiver, pulse queue | light observed, pulses emitted, timeouts, gift and region choice | infrared port | what is accepted was sent, completion means delivery, never stuck |
| Cartridges (cartridge/) | bank registers, clocks, flash, EEPROM, camera | register and RAM writes, elapsed time, save and restore | persistence | clocks agree with time, protected cells stay, locks hold |
| APU (apu/) | frame sequencer, lengths, envelopes, sweep, power | DIV edges, register writes | timer | notes end when asked, loudness keeps pace, the sweep never wraps |
| SGB host (sgb/) | packet transport, command accumulator, busy gate, transfer, border, players | P1 writes, frame starts, host input, boot handoff | joypad, PPU | packets framed, transfers undisturbed, borders whole |
| Persistence (gb-persistence) | save file, backup, temporary file | load, safe replace, import | cartridges | the last save is what is loaded |
| Rewind, save states | bounded history, slot | capture, evict, rewind, restore | machine | stays on the timeline |
| Desktop session (gb-desktop) | save baseline, debounce, clock, timeline | frames, pause, menu actions, quit | all of the above | nothing saved is lost, wall time is counted once but for parts of a second |
| PPU (ppu/) | raster, STAT line, pixel pipeline | dot tick, writes | IF, DMA, deferral windows | dot-exact output |
| CLI, test runner, debugger, menus | none that outlives a call | | | |

`PROJECT.json` lists every component with its status, and under `hazards` the
places where this code could go wrong in ways a unit test hardly reaches.

### Hard behaviours

* Several events in one T-cycle: tick and write, edge and reload, request and
  sleep, DMA stall and any CPU step, both ends of a cable.
* Delayed effects that a later write may cancel or overtake: TIMA reload, EI,
  the HALT decision, OAM restart, publication of a VRAM block, the sweep's
  calculation, the noise channel's start, a debounced save.
* State decided in one place and used in a later one: the HALT record, the
  cached joypad nibble, the last served HBlank window, the selected SGB player,
  the baseline that decides what counts as unsaved.
* Sleep: HALT, STOP, zombie STOP and the speed-switch pause each stop a
  different set of clocks, and each must end.
* Failure: plugs pulled in the middle of a byte, light that does not arrive,
  waits that expire, I/O errors and crashes between two file operations.

## Modules

| Module | Models | State and actions |
|---|---|---|
| `Timer` | timer.rs | fields of `Timer` under their names; `Tick`, `NoWrite`, `WriteDiv`, `WriteTima`, `WriteTma`, `WriteTac`, `StopReset`, `BootHandoff` |
| `Interrupts`, `Joypad` | interrupts.rs, joypad.rs | operators used by `Machine` |
| `InterruptLatch` | abstract | what the interrupt path promises: raise, publish, accept, dispatch, cancel, retarget |
| `Machine` | machine/step.rs, cpu/cycle.rs, cpu/interrupt_control.rs, STOP and RETI | one action per way a phase can go; `phase` says which phase is next |
| `Dma` | dma.rs, its call sites, the LCD switch | `xfer` is `transfer_state` with its progress; `Tick` is one call of the controller and one dot; register writes are actions |
| `Serial`, `Printer`, `Dmg07` | serial.rs, printer/, dmg07.rs | records and operators, one per function |
| `LinkSession` | session.rs, dmg04.rs, external_port.rs | composes the three; `IngressQuiet`/`IngressAdapterBit`, `TicksPhase`, `CpuPhase` are the phases of a T-cycle, `Attach*`, `Detach`, `SetAttachment`, `TakePrintedPages` the host |
| `Mappers`, `Mbc3`, `Mbc6`, `Mbc7`, `Huc3`, `PocketCamera` | the files of those names (`Mappers`: MBC1, MBC2, MBC5, HuC1, MMM01, M161, no mapper) | device records and one operator per handler |
| `Cartridge` | slot.rs, device.rs | one device of any family under every access |
| `SaveFile` | file_io.rs, filesystem_store.rs, external_save/ | the file states a replacement goes through; load; the clock in each format |
| `Rewind` | rewind.rs | the buffer as a record and its operators |
| `Desktop` | frontend/ and save_session.rs | one action per pass of the loop: frame, pause, rewind, slots, saves, reset, import, relink, quit, restart |
| `ApuUnits`, `ApuSweep`, `Apu` | apu/ | length, envelope and sweep as operators; `Apu` has one channel of any kind behind the frame sequencer and NR52 |
| `Sgb` | sgb/host/, sgb/shell.rs | `WriteJoyp`, `FrameStart`, `SetPressedMasks`, `finish_real_boot_handoff` |
| `MysteryGift` | link/mystery_gift_protocol.rs | both sides run the same operators on mirrored scripts; `Start`, `Shine`, `Blocked`, `FinishSending`, `Timeout`, `Restart`, `set_payload`, `set_region` |
| `TimerProofs`, `MachineProofs`, `DmaProofs`, `LinkProofs`, `CartridgeProofs`, `DesktopProofs`, `ApuProofs`, `SgbProofs` | | inductive invariants, lemmas and theorems |
| `MC*` | | constants of the runs |

Conventions. Definitions keep the names of the Rust functions they translate
where they stand for one. A definition whose name extends that of the next one
(`set_payload_running` before `set_payload`) is a faulty variant of it, used to
show that a property notices that fault; no specification refers to it. A
variable or field marked *history* in its module is not in the code and serves
the properties.

### What the abstractions leave out

* *Timer*: widths are parameters, a counter bit is given by its half period.
* *Machine*: registers and memory are gone; an opcode is one of eight classes, a
  write one of seven targets; timer, serial port, PPU and DMA appear as
  nondeterministic requests and stalls, so `Machine` covers every timing they
  could produce. `pc` only remembers whether it is at a vector.
* *Dma*: bytes are addresses; source and destination are one block number
  because they advance together, which is why the 16-bit overflow of the source
  (dma.rs:237) is a hazard without a property. Two CPU writes are at least two
  M-cycles apart, except for a 16-bit push to HDMA5 and HDMA4. STOP, bus
  arbitration and the values copied are left out.
* *LinkSession*: a byte has one or two bits; the T-cycles between two bits of
  the adapter leave the link unchanged and are skipped. Pixels are counted, not
  drawn; what only the data decides (checksum right, decoded length, sheets) is
  chosen freely. Bounds: `InputBound` restricts what a game sends a device to
  what the device waits for, `PlugBound` plugs a cable only between certain
  bytes, `PagesBound` stops printing until the host takes the pages.
* *Cartridge*: the ROM window of the plain mappers is a function of their
  registers and is left out. MBC6 has one window and one bit per flash cell, its
  hidden region one block; a HuC-3 triplet is one cell, and its commands 4 and 5
  both set the address; the camera's picture is one value and its deadline is
  relative to now. Capturing a device in a save state is the identity there.
* *Desktop*: a machine is its battery contents, its clock and its position on
  the timeline. Host time is counted in ticks of the MBC3 clock, 32768 to a second
  in the code; the HuC-3's remainder of a second, the ticks granted and not yet
  released and the ticks within the cartridge's second are state, a file's stamp is
  a whole second; only the fraction of a tick is left out. A write meets at most one I/O error. A slot file is written
  whole, and loading a slot at startup is a later load.
* *Apu*: the four channels share no state, so one at a time is explored. Duty,
  wave samples, wave RAM access, the noise register and the mixer are left out.
  A tick is two T-cycles, and the divider may fall between any two ticks because
  software can reset it at any time.
* *Sgb*: a packet has two data bits and may say anything of `Meanings`.
  Palettes, attributes, MASK_EN, ICON_EN beyond its gate, object capture, sound
  requests, and where a transfer reads from are left out.
* *MysteryGift*: time in units of `FAST_INTERRUPT_T_CYCLES`; a step is one mark
  with the space before it; waits may expire at any moment. The game is not in
  the repository and is taken to play the mirrored script. Light is only ever
  blocked: an extra mark can fool the additive checksum of the real protocol,
  which the code cannot repair.

## Runs

Eleven runs pass; one ends in a violation and is described under
[findings](#findings). Each is exhaustive within its bounds.

* `timer` - a 6-bit counter with TAC bits 3 and 5 as in the code, TIMA modulo 3;
  every write in every T-cycle against every counter phase. The bits are real
  because the argument is about 4 T-cycles against periods of 16 and more; a
  shorter counter only repeats sooner. `TimerInv` contains `NoDroppedEdge`,
  `OneRequestPerOverflow`, `PendingReadsZero`, `ReloadShowsTma` and
  `ApuEdgeAtMostOnce`; `RequestComesOnTime` says that a timer left alone raises its
  request in exactly the T-cycle the registers name, `EnabledTimerKeepsFiring` that
  it goes on.
* `machine` - three sources, all opcode classes, one button, STOP with and
  without speed switch, stalls, and the deferral windows that apply to a halted
  CPU. M-cycles are two T-cycles long: the first and the last are the ones the
  code tells apart. `MachineInv` contains `NoMissedHaltWake`, `NoStaleStopWake`,
  `HaltBugOnlyBeforeFetch`, `StopIsQuiet` and `VisibleCacheCoherent`;
  `LatchSpec` says the machine implements `InterruptLatch`; `HaltWakes` and
  `StopWakes` that sleep ends.
* `dma_vram` - HDMA4, HDMA5 and HALT at both speeds. Every byte is copied once
  and in order (`BytesInSequence`), and a finished block is published
  (`CompletedBlockIsPublished`).
* `dma_progress` - FF46, both VRAM modes and LCD switches, under fairness.
  HDMA5 claims no completion it has not earned, a window takes one block, every
  stall ends, every transfer ends once the program leaves it alone.
* `link` - two consoles on a DMG-04 cable, plugs pulled at any T-cycle, the
  second console fast, asleep or late. A byte that starts with both ends at
  their first bit arrives whole (`ByteArrivesWhole`); no pulse waits for a later
  transfer (`NoBankedPulse`).
* `adapter` - two consoles on the DMG-07, or one with a printer. What the
  adapter broadcasts is what its ports sent one packet earlier
  (`RebroadcastsLastPacket`), through ping, transmission, restart and consoles
  that do not answer; the printer's two reply bytes are staged back to back
  (`ReplyInOrder`).
* `cartridge` - every family. Advancing a clock in bulk equals advancing it tick
  by tick (`BulkTimeIsTicks`, also for values no clock reaches by itself);
  `SaveRoundTrips`; a multicart game stays in its window
  (`GameStaysInItsWindow`); flash cells change only by a completed command and
  never under protection (`FlashChangesAreLegal`); the EEPROM obeys whole frames
  only (`EepromFollowsFrames`); the HuC-3's event comes one minute closer with the
  second that completes a minute and with nothing else, setting the clock
  included (`EventKeepsItsDistance`); an exposure interrupted and resumed is
  served in full (`ExposureIsServed`).
* `host` - four pairs of cartridge and flush policy, two battery writes, one
  fault per behaviour (an I/O error or a crash at any file operation, those of an
  import's own write and of the close before it included) and two menu
  operations. A second has two ticks and the first session begins in the middle
  of one, so that stamps and resyncs do drop a part of a second; two ticks are
  enough because a part is either there or not, and the theorem has any number.
  The wall clock moves by three ticks for the HuC-3, two for the MBC3 (enough for
  a save and a reload on either side of a full second) and one without a clock.
  `ClockKeepsWallTime` compares the time the clock was given (what it reads, and
  what the cartridge and the host keep of a second) with the wall clock: equal
  for the HuC-3 and never ahead for the MBC3 while a session goes on; each time
  the clock comes from a file or is carried over a resync it may gain less than a
  second and a HuC-3 clock may lose less than two, one to the stamp and one to
  the remainder dropped. An MBC3 clock has no lower bound because a reset drops
  its pending ticks. `ImportedSaveStands` follows an import through its failures:
  the session is put back and the frontend goes on. `LoadReturnsLastSave`,
  `RewindStaysOnTimeline`, `FlushWithinDebounce`.
* `apu` - each channel kind on both console families, counters of three, volumes
  of two bits, periods of three bits, three or four register writes between
  divider edges in any phase. `NoteEndsInTime`, `EnvelopeKeepsPace`,
  `SweepNeverWraps`.
* `sgb` - every order of line changes, frame starts, input and the boot handoff.
  `PacketIsFramed` compares what the decoder is handed with a reading of the
  whole history of the lines; `TransferRunsOut` relates the busy gate to the
  transfer it protects; `BorderIsWhole`, `GameBorderAppears`,
  `JoypadFollowsSelection`. Transfers of two frames and fades of three let a
  picture arrive in each phase of a fade.
* `gift` - one exchange and its retries with one blocked mark and one change of
  gift or region. Bytes have two bits, which keeps headers, checksums and
  acknowledgements distinct. A block that a side accepts is the one the other side
  sent last (`BlockIsIntact`; the empty block it has just sent itself does not
  count); `CompletionMeansDelivered`, `NeverStuck`.

DMA bounds. A block has 6 bytes, the least for which at most one block awaits
publication (`2 * BlockBytes >= PublicationT`), as in the code with 16. The
delays 5, 8, 12, 2 and 4 are the code's. HBlank starts at dot 21 of a line of 26
or 40 dots, so that a block may run past its HBlank. Two visible lines and one
of VBlank make a frame, in which the same line comes back.

## Fairness

`timer`, `machine` and `dma_progress` use `WF_vars(Next)`: the host keeps
stepping the machine, and a step runs all its phases. Where a property needs the
program to behave (leave the timer alone, stay awake, stop writing), it says so
in its hypothesis. `sgb` assumes only that frame starts keep coming, which the
scheduler does every 456 * 154 T-cycles; nothing is assumed of the game. `gift`
assumes that the accessory is ticked, so that its pulses leave, its waits expire
and its pauses end; nothing is assumed of the game's side. Safety is checked
without fairness.

## Proofs

All theorems rest on the named `ASSUME`s of the modules only, which TLC
evaluates in the runs.

**Timer** (`TimerProofs`). Assumed: TAC selects bits 3, 5, 7 or 9; the counter's
modulus is a multiple of every period; TIMA has at least two values; DIV-APU
half periods exceed 2. `NoDroppedEdge` is not inductive: to know that no edge
meets a pending overflow one has to know why none can come in time.
`EdgesAreFar` says so: an overflow caused by a write leaves no room for another
write before the reload, and one caused by a tick has just seen the low bits of
the counter at zero, so every selectable bit is far from falling. With it
`TimerInv` is inductive (`TimerInvariant`), and `PendingReadsZero`,
`ReloadShowsTma`, `NoDroppedEdge`, `OneRequestPerOverflow`,
`ApuEdgeAtMostOnce` and the action property `CountsOncePerPeriod` (when TIMA counts) follow.
`RequestComesOnTime` counts down the T-cycles to the request: while an overflow
pends no edge meets it (`TimerInv`), and otherwise the counter's position in the
period of the selected bit wraps exactly when TIMA counts.

**Machine** (`MachineProofs`). Assumed: the ranges of the constants, and as the
hypothesis of each theorem that the console's PPU has no line-143 service
deferral (`NoServiceDeferral`), since with it several of the properties are
false (see [known deviations](#known-deviations)). `MachineInv` adds to the
safety properties what their preservation needs: the payload of the execution
state agrees with it (`PayloadsAgree`), interrupts stay off from acceptance to
the first fetch of the handler (`VectorHeld`), the EI delay is at most one
instruction (`EiDelay`), and what HALT recorded at decode is still true when
phase 9 decides (`HaltRequestFresh`), because the request never outlives its
T-cycle and is not made under a stall. From it: `NoMissedHaltWake`,
`HaltBugOnlyBeforeFetch`, `NoStaleStopWake`, `AcceptanceIsLegal`,
`LatchedOpcodeFinishes`, and `MachineRefinesLatch`: initial states map to
initial states of `InterruptLatch`, and each step to one of its steps or to a
stutter.

**Dma** (`DmaProofs`). Assumed: a block takes no less time to copy than to publish, it
is published before the next line's window opens, and the sets of operations are
the code's.
`WindowInv` (a block was started in the present window only if `last_served`
names this window) gives `OneBlockPerWindow`. `DmaInv` says what the slot, the
registers and the bytes copied have to do with each other: a VRAM transfer in
the slot is the one HDMA5 reports or is over, the registers stand at its first
unpublished block, and its bytes run on from its start; hence
`CompletionIsTruthful`. `BytesInSequence` and `CompletedBlockIsPublished` are
proved under `VramProgram`, for programs that leave FF46 and LCDC alone, because
either write can take the slot in the 7 T-cycles before publication (see
[known deviations](#known-deviations)). Their invariant is about time: a block
that waits to be published was started in the present window or the next one is
too far to come first, and two CPU writes are further apart than the wait.
`StallRunsDown`, the step-by-step form of `StallEnds` (a stall is served to its end,
T-cycle by T-cycle, and no longer), needs of `StallInv` that a VRAM transfer in
flight is before its end: then a tick brings the release one T-cycle closer.

**Link** (`LinkProofs`). Assumed: the ranges of the constants, and that games
write bytes. `PulseInv`: a pulse waits only between ingress and ticks, for an
armed external transfer of a running console; hence `NoBankedPulse`.
`PrinterInv`: a reply byte waits only while the parser is between packets; hence
`ReplyInOrder`. `RingInv`: one half of the adapter's double ring holds the packet
owed and the other takes the one being sent, for every SIZE; hence
`RebroadcastsLastPacket`. `ExchangeInv` needs all three: in the middle of a byte
SB ends with the bits that have come and the latch holds the others, the two ends
of a cable are armed, running and equally far, one of them clocking (so that a
pulse waits exactly when the master has an edge), and a console on the adapter is
as far as the bits clocked; hence `ByteArrivesWhole`. The last step also needs
that whatever the adapter presents is a byte, which goes through the ring.

**Cartridge** (`CartridgeProofs`). Assumed: flash and clock geometry (the number
of days is even, as the day counter's top bit is a register bit of its own), that
HuC-3 commands carry nibble values, and that ticks, seconds and register values
are naturals. `CartInv` keeps each device in the states of
its family; for the camera it says what a capture in progress still owes. From it:
`SaveRoundTrips`, `GameStaysInItsWindow`, `FlashChangesAreLegal`,
`EventKeepsItsDistance`, `ExposureIsServed`. For the event, time and event are
positions on one cycle of minutes: one minute more moves the position by one, the
day's roll-over included, and the distance is a difference modulo the cycle.

`BulkTimeIsTicks` compares a closed form with a recursive function for every
number of seconds. The library's induction theorems take an operator and cannot be
instantiated here; the proof uses that the naturals are well founded, with a set in
the place of the predicate, first to show that the recursive function satisfies its
equation and then to compare. `ClockInv` keeps the counters natural
numbers and the day below its limit. Counters within their limits are a mixed-radix
number of seconds; both ways of advancing add to that number and carry the same
overflows of the day counter. Counters beyond their limits, which a register write
can store, are ticked back into range by the code before the rest is jumped.

`EepromFollowsFrames` is proved from `FrameInv`: the history since the last frame
boundary is exactly what the state machine has taken in, bit by bit. The command is
a number read off bits by a fold, so the lemmas show that such a number splits at
any position; powers of two are handled as cardinalities of sets of subsets, for
which the library has the theorems.

**Desktop** (`DesktopProofs`). Assumed: the markers for "no file", "torn", "no
time" and "no deadline" are no values; the first session begins at a natural
time, and a second has a positive number of ticks. `DeskInv` joins eight parts, because each
property leans on the others: for the running machine, for a snapshot and for
every file on disk, the time given and the wall time since the clock read zero
differ by no more than the parts of a second left out so far, one lot for each
time the clock was read from a file or carried (a file that ran ahead would count
time twice at the next reload, a stamp later than its state would lose some); a
snapshot's clock is taken to be right when it is restored; a buffer and a slot lie on a past of the
right length; a deadline is at most `Debounce` away; after an import no session
is open. From it: `LoadReturnsLastSave`, `ClockKeepsWallTime`,
`RewindStaysOnTimeline`, `ImportedSaveStands`, `FlushWithinDebounce`.

**Apu** (`ApuProofs`). Assumed: register fields in their widths. `ApuInv`: what is
left of the length counter and the clocks since the last write fit in a full
counter, and the enable flag is NRx4's but for a late start of the noise channel
(`NoteEndsInTime`); the envelope's timer is what the counted clocks leave of the
pace (`EnvelopeKeepsPace`); on the DMG the sweep's reload window opens only on a
unit at rest, and once a recalculation is over the next sum fits or the channel
is silent, while on the CGB the shadow is the period (`SweepNeverWraps`).

**Sgb** (`SgbProofs`). Assumed: `None` is no value, MLT_REQ carries two bits.
`HostInv` ties the gate to the frames a transfer still needs, the shell's fade to
the border it may show and the selection to the player count (`BorderIsWhole`,
`JoypadFollowsSelection`, `TransferRunsOut`). `WireInv` says that the receiver has
read off the lines what their history says, bit by bit (`PacketIsFramed`).

Only model-checked:

* Liveness (fairness and `ENABLED` are out of the prover's reach):
  `EnabledTimerKeepsFiring`, `HaltWakes`, `StopWakes`, `StallEnds`,
  `TransfersSettle`, `GameBorderAppears`, `NeverStuck`. Their safety halves are
  proved: what each step brings nearer (`RequestComesOnTime`, `StallRunsDown`,
  `TransferRunsOut`) and that nothing due is overlooked (`NoMissedHaltWake`,
  `NoStaleStopWake`).
* `BlockIsIntact` and `CompletionMeansDelivered` of `MysteryGift`. They are not
  theorems for every value of the constants: an additive checksum collides once
  enough marks are blocked, a gift may contain what reads as a block, and a message
  byte may equal an acknowledgement. They hold of the instance, with its bound on
  the noise and its choice of bytes.
* The line-143 deferral of `Machine`, and programs of `Dma` outside `VramProgram`
  for the two properties named there.

## Findings

* `save_crash` - `write_save_file_with_safe_replace` renames the save to `.bak`
  and then the new file to its name. A process that dies in between leaves no
  file under the name; the next start finds none, runs a blank cartridge, and
  its first flush removes the `.bak`, the last copy. The counterexample is
  `SaveSurvivesCrash`; the documents promise atomic replacement.

## Known deviations

Met while modelling, and each quoting a document of the repository. The formula
named fails when it is put in the place of the properties of the given
configuration, with the changes given.

* `NoteEndsAsAsked` (`Apu.cfg`): on the DMG `write_nr44` delays the start of CH4
  (ch4.rs:327). When the length counter runs out before the delayed trigger,
  that trigger reloads the counter and clears the length enable although NR44
  bit 6 is set; the note never ends. docs/roadmap/07-audio.md:153: "`NR44` bit
  `6` acts as immediate length enable". `NoteEndsInTime` excepts this case.
* `PendingChangesAreForced` (`Desktop.cfg`): after a rewind or a state load the
  machine's battery RAM becomes the saved baseline although it was never written
  (controls.rs:1214), so shutdown writes nothing. docs/info/DESKTOP.md:134:
  "pending changes are forced on ROM changes and shutdown".
* `ClockIsExact` (`Desktop.cfg`): a resync drops the remainder of a second kept for
  the HuC-3 (timing.rs:92) and the MBC3 ticks not yet released, and a save is
  stamped and aged in whole seconds (save_session.rs:67-69). A reload or a reset
  can so miss up to a second, or two, or count a part of one twice: a clock that
  ticked at 10.95 and was saved with stamp 10 gets one second more when it is
  loaded at 11.0. timing.rs:61: "Cartridge RTCs track real wall time".
  `ClockKeepsWallTime` bounds the error.
* `EligibleWindowServed` (`DmaVram.cfg`): the last served window is a line
  number that is not cleared (dma.rs:1374), so that a CPU that halts for a frame
  after line n gets no block in line n. docs/hardware/DMA.md:99: "one
  `$10`-byte block per eligible visible HBlank window".
* `OamBurstRunsOn` (`DmaProgress.cfg`): starting general-purpose DMA discards a
  running OAM burst (dma.rs:1215). docs/hardware/DMA.md:136.
* `CompletedBlockIsPublished` (`DmaVram.cfg` with "FF46" among `CpuOps`): FF46 written in the 7
  T-cycles between the CPU's release and the publication discards the
  publication, and the block is copied again (dma.rs:1162;
  docs/hardware/DMA.md:101). In the same way a pending OAM restart replaces an
  HBlank block that took the slot in the meantime (dma.rs:1321), and a switch of
  the LCD in that gap ("LCDC" among `CpuOps`) has the same effect.
* `AcceptedSourceHeld` (`Machine.cfg` with VBlank among `Sources` and in
  `IeValues`, `LastT` 3, `WindowKinds` {"vblank_entry"}, `WindowLen` 4, and the
  opcodes EI, HALT and STORE): on the DMG phase 9 is skipped in the last dots of line 143; a HALT request then survives its
  T-cycle and is resolved on top of an interrupt already being served, whose
  source is lost. A STOP entered in that window stops the PPU inside it, and no
  button wakes the CPU.

Seen in the code and outside the models: when an SGB command of several packets
is refused at its first packet, its second packet is read as a header of its
own; an SGB transfer that continues with the LCD off reads raw VRAM where
docs/hardware/SGB.md:119 has the latched screen reused; on the CGB a pending
even tick at sequencer step 7 clocks the envelope twice (apu.rs:619-647); a new
ROM's save session is opened before the old one is closed (controls.rs:55-57);
the frontend's save slots are written with a plain `fs::write`; MBC3 ticks that
are still queued are lost at quit (runtime.rs:1998).

## Not modelled

* The PPU's pixel pipeline, palettes, windows and objects (about 20 000 lines):
  dot-exact data flow that is right when it agrees with hardware captures, which
  are not a relation between states of this program. Its interrupt requests, its
  raster and its deferral windows are in `Machine` and `Dma`. The STAT line is a
  table of per-model exceptions by dot and line, which a model could only copy.
* Waveforms, mixing and filters of the APU; SGB palettes, attributes and sound;
  boot register tables: data.
* CPU arithmetic, loads and jumps: no interleaving inside an instruction that
  `Machine` does not have. Bus routing: a static table.
* Infrared between two consoles, the other infrared accessories and the gift
  tables.
* The desktop's menus, configuration, presentation, diagnostics, audio output,
  recording, live camera and input mapping (about 20 000 lines): widgets and
  host I/O around the actions that `Desktop` has.
* Debugger, command line, test runner: no state of the emulated system that
  outlives a call.

## Plan

Done: everything under [modules](#modules) and [proofs](#proofs). What is left: the
conditions on gift, bytes and noise under which the safety of `MysteryGift` would be
a theorem; a source address of its own in `Dma`; the input mapping of the desktop
(held keys across menus and controller changes).
