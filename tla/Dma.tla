-------------------------------- MODULE Dma --------------------------------
(***************************************************************************)
(* The DMA controller (crates/gb-core/src/dma.rs): OAM DMA (FF46), the CGB  *)
(* general-purpose and HBlank VRAM DMA (HDMA1-5), and the one transfer slot *)
(* they share.  In every T-cycle the controller is ticked against the PPU   *)
(* state of the previous dot, the PPU then advances, and the CPU acts last  *)
(* unless a VRAM transfer stalls it (machine/step.rs).                      *)
(*                                                                          *)
(* Bytes are addresses only.  VRAM is VramBlocks blocks; source and         *)
(* destination move in step, so one block number stands for both.  A        *)
(* register write by the CPU ends an instruction of at least two M-cycles,  *)
(* hence the distance WriteT between two writes; only a 16-bit push can     *)
(* write two neighbouring registers (HDMA5, then HDMA4) one M-cycle apart.  *)
(***************************************************************************)
EXTENDS Integers

CONSTANTS
  OamBytes,       \* OAM_DMA_TRANSFER_BYTES (160)
  BlockBytes,     \* VRAM_DMA_BLOCK_BYTES (16)
  VramBlocks,     \* blocks in a VRAM bank (512)
  Pages,          \* values the program writes to FF46
  Blocks,         \* block counts it writes to HDMA5
  Modes,          \* modes it selects there
  CpuOps,         \* what else it may do
  SpeedModes,
  VisibleLines, Lines, LineDots, HBlankDot    \* the PPU's raster

OamFirstByte == 8          \* OAM_DMA_FIRST_BYTE_DELAY_T_CYCLES
OamRestriction == 5        \* OAM_DMA_CPU_BUS_RESTRICTION_DELAY_T_CYCLES
OamPerByte == 4            \* OAM_DMA_T_CYCLES_PER_BYTE
ReleaseT == 5              \* VRAM_DMA_CPU_RELEASE_T_CYCLES
PublicationT == 12         \* VRAM_DMA_PUBLICATION_T_CYCLES
WriteT == 8
PushT == 4
LcdEnableDelay == 5        \* CPU_LCDC_ENABLE_EFFECT_DELAY_T_CYCLES

VramModes == {"GeneralPurpose", "HBlank"}
AllOps == {"FF46", "HDMA4", "HDMA5", "LCDC", "HALT"}

ASSUME DmaAssumption ==
  /\ OamBytes \in Nat \ {0} /\ VramBlocks \in Nat \ {0}
  /\ BlockBytes \in Nat /\ 2 * BlockBytes >= PublicationT
  /\ Pages \subseteq Nat /\ Blocks \subseteq Nat \ {0}
  /\ Modes \subseteq VramModes /\ CpuOps \subseteq AllOps
  /\ SpeedModes \subseteq {"Normal", "Double"}
  /\ VisibleLines \in Nat /\ Lines \in Nat /\ VisibleLines < Lines
  /\ LineDots \in Nat /\ HBlankDot \in 0..LineDots - 4
  \* a block is published before the next line's window opens
  /\ 2 * BlockBytes + PublicationT <= HBlankDot + 3

VARIABLES
  phase,          \* "tick": the peripherals run next; "cpu": the CPU does
  xfer,           \* transfer_state with its DmaTransferProgress
  restart,        \* pending_restart
  latch,          \* source_page_latch
  dest,           \* vram_dma_registers, as a block number
  vram,           \* vram_dma_state
  last_served,    \* vram_dma_last_served_window
  lcd, lcd_pending,      \* the PPU: on or off, and lcd_enable_pending_delay_tcycles
  ly, dot, half,         \* half: at double speed every other T-cycle has no dot
  speed, halted,
  since,          \* CPU T-cycles since its last register write, at most WriteT - 1
  (* what the step did, observed by the properties only *)
  work,           \* destination byte copied by this tick, or NoWork
  frontier,       \* the byte after the last one copied for this VRAM transfer
  served          \* HBlank blocks started in the present window

dmaVars == <<xfer, restart, latch, dest, vram, last_served>>
ppuVars == <<lcd, lcd_pending, ly, dot, half>>
vars == <<phase, dmaVars, ppuVars, speed, halted, since, work, frontier, served>>

NoWork == -1
NoRestart == [page |-> 0, elapsed |-> -1]
NoWindow == <<"None", 0>>

-----------------------------------------------------------------------------
(* DmaTransfer and DmaTransferProgress.                                     *)

AtMost(n, bound) == IF n > bound THEN bound ELSE n

Idle == [life |-> "Idle", kind |-> "Oam", start |-> 0, bytes |-> 0,
         elapsed |-> 0, per |-> OamPerByte]

OamTransfer(page, elapsed, life) ==
  [life |-> life, kind |-> "Oam", start |-> page, bytes |-> OamBytes,
   elapsed |-> elapsed, per |-> OamPerByte]

(* The speed is latched when the transfer starts: vram_dma_t_cycles_per_byte.*)
VramTransfer(kind, block, blocks) ==
  [life |-> "Starting", kind |-> kind, start |-> block * BlockBytes,
   bytes |-> blocks * BlockBytes, elapsed |-> 0,
   per |-> IF speed = "Double" THEN 4 ELSE 2]

InFlight(x) == x.life \in {"Starting", "Active"}
IsVram(x) == x.kind \in {"Gdma", "Hdma"}

first_byte_delay(x) == IF x.kind = "Oam" THEN OamFirstByte ELSE x.per
restriction_delay(x) == IF x.kind = "Oam" THEN OamRestriction ELSE 0

(* T-cycle in which the last byte lands; 160 OAM bytes and 648 T-cycles     *)
(* make the OAM tail one more byte time.                                    *)
last_byte(x, bytes) == first_byte_delay(x) + (bytes - 1) * x.per
total_t_cycles(x) ==
  last_byte(x, x.bytes) + (IF x.kind = "Oam" THEN OamPerByte ELSE ReleaseT)

completed_bytes(x) ==
  IF x.elapsed < first_byte_delay(x) THEN 0
  ELSE AtMost(1 + (x.elapsed - first_byte_delay(x)) \div x.per, x.bytes)

(* A block is published PublicationT after its last byte.                   *)
published_completed_blocks(x) ==
  LET done == completed_bytes(x) \div BlockBytes
  IN IF done = 0 THEN 0
     ELSE IF x.elapsed >= last_byte(x, done * BlockBytes) + PublicationT
          THEN done ELSE done - 1

has_unpublished_completed_blocks(x) ==
  completed_bytes(x) \div BlockBytes > published_completed_blocks(x)

Unpublished(x) ==
  x.life = "Completed" /\ IsVram(x) /\ has_unpublished_completed_blocks(x)

Advanced(x, life) == [x EXCEPT !.elapsed = @ + 1, !.life = life]

(* One tick of the transfer slot.                                           *)
AdvancedTransferDropsTail(x) ==
  CASE x.life \in {"Idle", "Completed"} -> x
    [] x.life = "Starting" -> Advanced(x, IF x.elapsed + 1 >= restriction_delay(x)
                                          THEN "Active" ELSE "Starting")
    [] x.life = "Active" -> Advanced(x, IF x.elapsed + 1 >= total_t_cycles(x)
                                        THEN "Completed" ELSE "Active")
AdvancedTransfer(x) ==
  CASE Unpublished(x) -> Advanced(x, "Completed")
    [] x.life \in {"Idle", "Completed"} /\ ~Unpublished(x) -> x
    [] x.life = "Starting" -> Advanced(x, IF x.elapsed + 1 >= restriction_delay(x)
                                          THEN "Active" ELSE "Starting")
    [] x.life = "Active" -> Advanced(x, IF x.elapsed + 1 >= total_t_cycles(x)
                                        THEN "Completed" ELSE "Active")

cpu_stall_active_completed ==
  xfer.life # "Idle" /\ IsVram(xfer) /\ xfer.elapsed >= restriction_delay(xfer)
cpu_stall_active == InFlight(xfer) /\ IsVram(xfer) /\ xfer.elapsed >= restriction_delay(xfer)

-----------------------------------------------------------------------------
(* The HBlank window the controller sees, and the raster behind it.         *)

hblank_window(on, line, d) ==
  IF ~on THEN <<"LcdDisabled", 0>>
  ELSE IF line < VisibleLines /\ d > HBlankDot + 2 THEN <<"VisibleHBlank", line>>
  ELSE NoWindow
Window == hblank_window(lcd, ly, dot)

(* `served' counts per window: a change of window starts again.             *)
ServedAfter(count) == IF hblank_window(lcd', ly', dot') = Window THEN count ELSE 0

(* With the LCD off only the delay of its switching on runs; the tick that   *)
(* ends it is the first of line 0.                                          *)
PpuTick ==
  /\ half' = IF speed = "Double" THEN 1 - half ELSE 0
  /\ lcd_pending' = IF half' = 0 /\ lcd_pending > 0 THEN lcd_pending - 1 ELSE lcd_pending
  /\ lcd' = (lcd \/ (lcd_pending = 1 /\ lcd_pending' = 0))
  /\ IF lcd' /\ half' = 0
     THEN /\ dot' = (dot + 1) % LineDots
          /\ ly' = IF dot + 1 = LineDots THEN (ly + 1) % Lines ELSE ly
     ELSE UNCHANGED <<ly, dot>>

-----------------------------------------------------------------------------
(* The controller's tick.                                                   *)

requires_t_cycle_tick ==
  InFlight(xfer) \/ restart # NoRestart \/ vram.state \in {"GpActive", "HbActive"}

hblank_block_eligible_any_window ==
  ~InFlight(xfer) /\ ~halted /\ vram.state = "HbActive" /\ Window # NoWindow

(* start_hdma_block_if_eligible                                             *)
hblank_block_eligible ==
  /\ ~InFlight(xfer) /\ ~halted /\ vram.state = "HbActive"
  /\ Window # NoWindow /\ Window # last_served

(* apply_vram_dma_progress_side_effects: n more blocks are published.       *)
VramAfter(n) ==
  LET left == vram.remaining - n
  IN [state |-> IF left > 0 THEN vram.state
                ELSE IF vram.state = "GpActive" THEN "GpComplete" ELSE "Finished",
      dest |-> vram.dest + n, remaining |-> left]

PublishAll(kind, n) ==
  /\ vram' = VramAfter(vram.remaining)
  /\ dest' = (vram.dest + vram.remaining) % VramBlocks
Publish(kind, n) ==
  LET blocks == AtMost(n, vram.remaining)
  IN /\ vram' = VramAfter(blocks)
     /\ dest' = (vram.dest + blocks) % VramBlocks

Publishes(kind, n) ==
  n > 0 /\ <<vram.state, kind>> \in {<<"GpActive", "Gdma">>, <<"HbActive", "Hdma">>}

DmaTick ==
  LET before == IF hblank_block_eligible THEN VramTransfer("Hdma", vram.dest, 1) ELSE xfer
      after  == AdvancedTransfer(before)
      n      == IF IsVram(after)
                THEN published_completed_blocks(after) - published_completed_blocks(before)
                ELSE 0
      copies == completed_bytes(after) > completed_bytes(before)
      byte   == IF IsVram(after) THEN after.start + completed_bytes(after) - 1
                ELSE completed_bytes(after) - 1
      takes_over == restart # NoRestart /\ restart.elapsed + 1 >= OamRestriction
  IN /\ last_served' = IF hblank_block_eligible THEN Window ELSE last_served
     /\ served' = ServedAfter(IF hblank_block_eligible THEN served + 1 ELSE served)
     /\ latch' = latch
     /\ \/ /\ takes_over          \* the restarted OAM burst replaces what runs
           /\ xfer' = OamTransfer(restart.page, restart.elapsed + 1, "Active")
           /\ restart' = NoRestart
           /\ work' = NoWork
           /\ UNCHANGED <<vram, dest, frontier>>
        \/ /\ ~takes_over
           /\ restart' = IF restart = NoRestart THEN NoRestart
                         ELSE [restart EXCEPT !.elapsed = @ + 1]
           /\ xfer' = after
           /\ work' = IF copies THEN byte ELSE NoWork
           /\ frontier' = IF copies /\ IsVram(after) THEN byte + 1 ELSE frontier
           /\ \/ Publishes(after.kind, n) /\ Publish(after.kind, n)
              \/ ~Publishes(after.kind, n) /\ UNCHANGED <<vram, dest>>

(* The peripherals' phase: the controller first, then the PPU.              *)
Tick ==
  /\ phase = "tick" /\ phase' = "cpu"
  /\ PpuTick
  /\ \/ requires_t_cycle_tick /\ DmaTick
     \/ /\ ~requires_t_cycle_tick
        /\ work' = NoWork /\ served' = ServedAfter(served)
        /\ UNCHANGED <<dmaVars, frontier>>
  /\ UNCHANGED <<speed, halted, since>>

-----------------------------------------------------------------------------
(* The CPU's phase.                                                         *)

CpuPhase ==
  /\ phase = "cpu" /\ phase' = "tick"
  /\ work' = NoWork /\ UNCHANGED speed

CpuStalled ==
  /\ CpuPhase /\ cpu_stall_active
  /\ UNCHANGED <<dmaVars, ppuVars, halted, since, frontier, served>>

CpuRuns == CpuPhase /\ ~cpu_stall_active /\ UNCHANGED restart
CpuMay(op) == ~cpu_stall_active /\ ~halted /\ op \in CpuOps

CpuNoWrite ==
  /\ CpuRuns
  /\ since' = IF halted THEN since ELSE AtMost(since + 1, WriteT - 1)
  /\ UNCHANGED <<xfer, latch, dest, vram, last_served, ppuVars, halted, frontier, served>>

(* HALT; the request that wakes the CPU comes from elsewhere.               *)
CpuHalt ==
  /\ CpuRuns /\ CpuMay("HALT") /\ since = WriteT - 1
  /\ halted' = TRUE /\ since' = since
  /\ UNCHANGED <<xfer, latch, dest, vram, last_served, ppuVars, frontier, served>>

CpuWake ==
  /\ CpuRuns /\ halted
  /\ halted' = FALSE /\ since' = 0
  /\ UNCHANGED <<xfer, latch, dest, vram, last_served, ppuVars, frontier, served>>

Write(op) ==
  /\ CpuPhase /\ CpuMay(op)
  /\ since >= (IF op = "HDMA4" THEN PushT ELSE WriteT) - 1
  /\ since' = 0 /\ UNCHANGED halted

(* write_ff46: a transfer in flight runs on until the new one takes over.   *)
write_ff46(page) ==
  /\ latch' = page
  /\ IF InFlight(xfer)
     THEN xfer' = xfer /\ restart' = [page |-> page, elapsed |-> 0]
     ELSE xfer' = OamTransfer(page, 0, "Starting") /\ restart' = NoRestart

WriteFf46(page) ==
  /\ Write("FF46") /\ write_ff46(page)
  /\ UNCHANGED <<dest, vram, last_served, ppuVars, frontier, served>>

(* HDMA1-4.                                                                 *)
WriteHdma4(block) ==
  /\ Write("HDMA4") /\ dest' = block
  /\ UNCHANGED <<xfer, restart, latch, vram, last_served, ppuVars, frontier, served>>

(* HDMA5 with bit 7 clear while HBlank DMA is active.                       *)
CancelHdma ==
  /\ Write("HDMA5") /\ vram.state = "HbActive" /\ "GeneralPurpose" \in Modes
  /\ vram' = [vram EXCEPT !.state = "Cancelled"]
  /\ xfer' = IF xfer.life # "Idle" /\ xfer.kind = "Hdma" THEN Idle ELSE xfer
  /\ UNCHANGED <<restart, latch, dest, last_served, ppuVars, frontier, served>>

(* HDMA5 with bit 7 set while HBlank DMA is active: no restart.             *)
IgnoredHdma5 ==
  /\ Write("HDMA5") /\ vram.state = "HbActive" /\ "HBlank" \in Modes
  /\ UNCHANGED <<dmaVars, ppuVars, frontier, served>>

(* VramDmaTransfer::new clips the transfer at the end of VRAM.              *)
Clipped(blocks) == AtMost(blocks, VramBlocks - dest)

StartVram(mode, state, blocks) ==
  /\ Write("HDMA5") /\ vram.state # "HbActive" /\ mode \in Modes
  /\ vram' = [state |-> state, dest |-> dest, remaining |-> Clipped(blocks)]
  /\ last_served' = NoWindow
  /\ frontier' = dest * BlockBytes /\ served' = 0
  /\ UNCHANGED <<latch, dest, ppuVars>>

StartGdma(blocks) ==
  /\ StartVram("GeneralPurpose", "GpActive", blocks)
  /\ xfer' = VramTransfer("Gdma", dest, Clipped(blocks))
  /\ restart' = NoRestart

StartHdma(blocks) ==
  /\ StartVram("HBlank", "HbActive", blocks)
  /\ UNCHANGED <<xfer, restart>>

(* LCDC bit 7 cleared, also while the LCD is still waiting to come on.      *)
DisableLcd ==
  /\ Write("LCDC") /\ (lcd \/ lcd_pending > 0)
  /\ lcd' = FALSE /\ lcd_pending' = 0 /\ ly' = 0 /\ dot' = 0 /\ half' = half
  /\ served' = ServedAfter(served)
  /\ UNCHANGED <<dmaVars, frontier>>

EnableLcd ==
  /\ Write("LCDC") /\ ~lcd /\ lcd_pending = 0
  /\ lcd_pending' = LcdEnableDelay
  /\ UNCHANGED <<dmaVars, lcd, ly, dot, half, frontier, served>>

Init ==
  /\ phase = "tick" /\ xfer = Idle /\ restart = NoRestart
  /\ latch \in Pages
  /\ dest = VramBlocks - 1        \* HDMA3-4 start as $9FF0
  /\ vram = [state |-> "Finished", dest |-> VramBlocks, remaining |-> 0]
  /\ last_served = NoWindow
  /\ lcd = TRUE /\ lcd_pending = 0 /\ ly = 0 /\ dot = 0 /\ half = 0
  /\ speed \in SpeedModes /\ halted = FALSE /\ since = WriteT - 1
  /\ work = NoWork /\ frontier = VramBlocks * BlockBytes /\ served = 0

Next ==
  \/ Tick
  \/ CpuStalled \/ CpuNoWrite \/ CpuHalt \/ CpuWake
  \/ CancelHdma \/ IgnoredHdma5 \/ DisableLcd \/ EnableLcd
  \/ \E page \in Pages : WriteFf46(page)
  \/ \E block \in 0..VramBlocks - 1 : WriteHdma4(block)
  \/ \E blocks \in Blocks : StartGdma(blocks) \/ StartHdma(blocks)

Spec == Init /\ [][Next]_vars

(* The host keeps stepping the machine.                                     *)
FairSpec == Spec /\ WF_vars(Next)

-----------------------------------------------------------------------------
Transfers ==
  [life : {"Idle", "Starting", "Active", "Completed"}, kind : {"Oam", "Gdma", "Hdma"},
   start : Nat, bytes : Nat, elapsed : Nat, per : {2, 4}]

(* Every field stays in its type; no transfer leaves the bank it writes to, *)
(* and the elapsed time never runs past the transfer's own end.             *)
TypeOK ==
  /\ phase \in {"tick", "cpu"} /\ xfer \in Transfers
  /\ restart \in [page : Pages, elapsed : 0..OamRestriction - 1] \cup {NoRestart}
  /\ latch \in Pages /\ dest \in 0..VramBlocks - 1
  /\ vram \in [state : {"GpActive", "GpComplete", "HbActive", "Finished", "Cancelled"},
               dest : 0..VramBlocks, remaining : 0..VramBlocks]
  /\ IsVram(xfer) => /\ xfer.start + xfer.bytes <= VramBlocks * BlockBytes
                     /\ xfer.elapsed <= last_byte(xfer, xfer.bytes) + PublicationT
  /\ ~IsVram(xfer) => xfer.elapsed <= total_t_cycles(xfer)
  /\ lcd_pending \in 0..LcdEnableDelay /\ since \in 0..WriteT - 1
  /\ ly \in 0..Lines - 1 /\ dot \in 0..LineDots - 1

(* VRAM DMA copies every byte once and in order: each block starts where    *)
(* the last one ended, although the endpoints are only advanced when the    *)
(* block is published, twelve T-cycles after its last byte.                 *)
BytesInSequence ==
  [][work' # NoWork /\ IsVram(xfer') => work' = frontier]_vars

(* A block whose last byte was copied stays in the slot until it has been   *)
(* published, unless the program cancels the transfer.                      *)
CompletedBlockIsPublished ==
  [][Unpublished(xfer) =>
       \/ xfer'.kind = xfer.kind /\ xfer'.start = xfer.start /\ xfer'.elapsed >= xfer.elapsed
       \/ vram'.state = "Cancelled"]_vars

(* HDMA5 reads complete only when every byte of the (clipped) transfer has  *)
(* been copied, whatever OAM bursts, LCD switches or HALTs came between.    *)
CompletionIsTruthful ==
  vram.state \in {"GpComplete", "Finished"} =>
    vram.remaining = 0 /\ frontier = vram.dest * BlockBytes

(* One HBlank window, or one spell with the LCD off, takes one block.       *)
OneBlockPerWindow == served <= 1

(* Unless the CPU is halted or the slot is taken, a visible HBlank gives    *)
(* HBlank DMA its block.  It fails: see the README.                         *)
EligibleWindowServed ==
  [][phase = "tick" /\ vram.state = "HbActive" /\ ~halted /\ ~InFlight(xfer)
       /\ Window[1] = "VisibleHBlank" /\ served = 0
     => InFlight(xfer') /\ xfer'.kind = "Hdma"]_vars

(* An OAM burst ends by completing or by its own restart.  It fails when a  *)
(* general-purpose transfer takes the slot: see the README.                 *)
OamBurstRunsOn == [][InFlight(xfer) /\ xfer.kind = "Oam" => xfer'.kind = "Oam"]_vars

(* The T-cycles until the CPU is released.                                  *)
StallLeft == total_t_cycles(xfer) - xfer.elapsed

(* A stall is served to its end and no longer: every tick brings the        *)
(* release one T-cycle closer, in the last one the CPU is let go, and only  *)
(* the takeover by a restarted OAM burst cuts it short (cpu_stall_active,   *)
(* advance_one_t_cycle, pending_restart).                                   *)
StallRunsDown ==
  [][cpu_stall_active /\ phase = "tick" =>
       \/ restart # NoRestart /\ xfer'.kind = "Oam" /\ ~cpu_stall_active'
       \/ /\ StallLeft > 0 /\ StallLeft' = StallLeft - 1
          /\ cpu_stall_active' <=> StallLeft' > 0]_vars

(* A stalled CPU is released.                                               *)
StallEnds == cpu_stall_active ~> ~cpu_stall_active

(* Once the program stops writing and stays awake with the LCD on, every     *)
(* burst, restart and HBlank transfer it left behind comes to its end.      *)
TransfersSettle ==
  <>[](~halted /\ lcd /\ since = WriteT - 1) => <>[]~requires_t_cycle_tick
=============================================================================
