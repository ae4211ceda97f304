------------------------------ MODULE DmaProofs ------------------------------
(* Proofs about the DMA controller, for every length of the OAM burst and of *)
(* a VRAM block, every bank size and raster: no window takes two blocks, and *)
(* HDMA5 reads complete only when every byte was copied.  For programs that  *)
(* leave FF46 and LCDC alone: every byte is copied once and in order, and    *)
(* every block copied is published.                                          *)
EXTENDS Dma, TLAPS

-----------------------------------------------------------------------------
(* Arithmetic.                                                               *)

LEMMA ProductOrder ==
  ASSUME NEW a \in Int, NEW b \in Int, NEW n \in Nat, a <= b
  PROVE  a * n <= b * n
<1>1. (b - a) * n >= 0
  OBVIOUS
<1> QED BY <1>1

LEMMA QuotientBounds ==
  ASSUME NEW c \in Nat, NEW n \in Nat \ {0}
  PROVE  /\ c \div n \in Nat
         /\ (c \div n) * n <= c
         /\ c < (c \div n + 1) * n
OBVIOUS

LEMMA QuotientOrder ==
  ASSUME NEW c \in Nat, NEW d \in Nat, NEW n \in Nat \ {0}, c <= d
  PROVE  c \div n <= d \div n
<1> DEFINE p == c \div n
           q == d \div n
<1>1. p \in Nat /\ q \in Nat /\ p * n <= c /\ d < (q + 1) * n
  BY QuotientBounds
<1> HIDE DEF p, q
<1>2. CASE p >= q + 1
  <2>1. (q + 1) * n <= p * n
    BY <1>1, <1>2, ProductOrder
  <2>2. (q + 1) * n \in Int /\ p * n \in Int
    BY <1>1
  <2> QED BY <1>1, <2>1, <2>2
<1> QED BY <1>1, <1>2 DEF p, q

LEMMA QuotientOfProduct ==
  ASSUME NEW k \in Nat, NEW n \in Nat \ {0}
  PROVE  (k * n) \div n = k
<1> DEFINE q == (k * n) \div n
<1>1. q \in Nat /\ q * n <= k * n /\ k * n < (q + 1) * n
  BY QuotientBounds
<1> HIDE DEF q
<1>2. CASE q >= k + 1
  <2>1. (k + 1) * n <= q * n
    BY <1>1, <1>2, ProductOrder
  <2> QED BY <1>1, <2>1
<1>3. CASE k >= q + 1
  <2>1. (q + 1) * n <= k * n
    BY <1>1, <1>3, ProductOrder
  <2> QED BY <1>1, <2>1
<1> QED BY <1>1, <1>2, <1>3 DEF q

-----------------------------------------------------------------------------
(* One block in a window.                                                    *)

\* A block was started in the present window only if this is the window that
\* last_served names.
WindowInv == served = 0 \/ (served = 1 /\ last_served = Window)

LEMMA WindowNext ==
  ASSUME WindowInv, Next
  PROVE  WindowInv'
<1>1. CASE UNCHANGED <<served, last_served, lcd, ly, dot>>
  BY <1>1 DEF WindowInv, Window
<1>2. CASE served' = 0
  BY <1>2 DEF WindowInv
<1>3. CASE last_served' = last_served /\ served' = ServedAfter(served)
  BY <1>3 DEF WindowInv, ServedAfter, Window
<1>4. CASE Tick
  <2>1. CASE requires_t_cycle_tick /\ DmaTick /\ hblank_block_eligible
    <3>1. last_served' = Window /\ served' = ServedAfter(served + 1) /\ Window # last_served
      BY <2>1 DEF DmaTick, hblank_block_eligible
    <3> QED BY <3>1 DEF WindowInv, ServedAfter, Window
  <2>2. CASE requires_t_cycle_tick /\ DmaTick /\ ~ hblank_block_eligible
    BY <2>2, <1>3 DEF DmaTick
  <2>3. CASE ~ requires_t_cycle_tick
    BY <1>4, <2>3, <1>3 DEF Tick, dmaVars
  <2> QED BY <1>4, <2>1, <2>2, <2>3 DEF Tick
<1>5. Next => \/ UNCHANGED <<served, last_served, lcd, ly, dot>> \/ served' = 0
              \/ (last_served' = last_served /\ served' = ServedAfter(served)) \/ Tick
  BY DEF Next, CpuStalled, CpuNoWrite, CpuHalt, CpuWake, CancelHdma, IgnoredHdma5, DisableLcd,
         EnableLcd, WriteFf46, WriteHdma4, StartGdma, StartHdma, StartVram, dmaVars, ppuVars
<1> QED BY <1>1, <1>2, <1>3, <1>4, <1>5

(* One HBlank window, or one spell with the LCD off, starts one block at     *)
(* most (start_hdma_block_if_eligible, dma.rs).                              *)
THEOREM AlwaysOneBlockPerWindow == Spec => []OneBlockPerWindow
<1>1. Init => WindowInv
  BY DEF Init, WindowInv
<1>2. WindowInv /\ [Next]_vars => WindowInv'
  <2>1. CASE UNCHANGED vars
    BY <2>1 DEF vars, dmaVars, ppuVars, WindowInv, Window
  <2> QED BY <2>1, WindowNext
<1>3. WindowInv => OneBlockPerWindow
  BY DEF WindowInv, OneBlockPerWindow
<1> QED BY <1>1, <1>2, <1>3, PTL DEF Spec

-----------------------------------------------------------------------------
(* The progress of one transfer.                                             *)

VramTransfers == {x \in Transfers : IsVram(x)}

LEMMA CopiedBytes ==
  ASSUME NEW x \in VramTransfers
  PROVE  /\ completed_bytes(x) \in 0..x.bytes
         /\ x.elapsed = 0 => completed_bytes(x) = 0
         /\ x.bytes > 0 /\ x.elapsed >= last_byte(x, x.bytes) => completed_bytes(x) = x.bytes
<1>1. /\ x.elapsed \in Nat /\ x.bytes \in Nat /\ x.per \in {2, 4}
      /\ first_byte_delay(x) = x.per
  BY DEF VramTransfers, Transfers, IsVram, first_byte_delay
<1>2. CASE x.per = 2
  BY <1>1, <1>2 DEF completed_bytes, AtMost, last_byte
<1>3. CASE x.per = 4
  BY <1>1, <1>3 DEF completed_bytes, AtMost, last_byte
<1> QED BY <1>1, <1>2, <1>3

LEMMA CopyStep ==
  ASSUME NEW x \in VramTransfers, NEW l \in {"Starting", "Active", "Completed"},
         NEW y, y = Advanced(x, l)
  PROVE  /\ y \in VramTransfers
         /\ y.kind = x.kind /\ y.start = x.start /\ y.bytes = x.bytes /\ y.per = x.per
         /\ y.elapsed = x.elapsed + 1 /\ y.life = l
         /\ completed_bytes(y) \in {completed_bytes(x), completed_bytes(x) + 1}
<1>1. /\ x \in Transfers /\ x.elapsed \in Nat /\ x.bytes \in Nat /\ x.per \in {2, 4}
      /\ x.kind \in {"Gdma", "Hdma"}
  BY DEF VramTransfers, Transfers, IsVram
<1>2. /\ y.kind = x.kind /\ y.start = x.start /\ y.bytes = x.bytes /\ y.per = x.per
      /\ y.elapsed = x.elapsed + 1 /\ y.life = l
  BY <1>1 DEF Advanced, Transfers
<1>3. y \in Transfers
  <2> DEFINE e == x.elapsed + 1
  <2>1. e \in Nat /\ y = [x EXCEPT !.elapsed = e, !.life = l]
    BY <1>1 DEF Advanced
  <2> HIDE DEF e
  <2> QED BY <1>1, <2>1 DEF Transfers
<1>4. first_byte_delay(x) = x.per /\ first_byte_delay(y) = x.per
  BY <1>1, <1>2 DEF first_byte_delay
<1>5. CASE x.per = 2
  BY <1>1, <1>2, <1>3, <1>4, <1>5 DEF completed_bytes, AtMost, VramTransfers, IsVram
<1>6. CASE x.per = 4
  BY <1>1, <1>2, <1>3, <1>4, <1>6 DEF completed_bytes, AtMost, VramTransfers, IsVram
<1> QED BY <1>1, <1>5, <1>6, <1>2

LEMMA PublishedBlocks ==
  ASSUME NEW x \in VramTransfers, BlockBytes \in Nat \ {0}
  PROVE  LET done == completed_bytes(x) \div BlockBytes
             p == published_completed_blocks(x)
         IN  /\ done \in Nat /\ p \in Nat /\ p <= done /\ done <= p + 1
             /\ p * BlockBytes <= completed_bytes(x)
<1> DEFINE c == completed_bytes(x)
           done == c \div BlockBytes
           p == published_completed_blocks(x)
<1>1. c \in Nat
  BY CopiedBytes DEF VramTransfers, Transfers
<1>2. done \in Nat /\ done * BlockBytes <= c
  BY <1>1, QuotientBounds
<1>3. (p = 0 /\ done = 0) \/ (done # 0 /\ (p = done \/ p = done - 1))
  BY DEF published_completed_blocks
<1> HIDE DEF c, done, p
<1>4. p \in Nat /\ p <= done /\ done <= p + 1
  BY <1>2, <1>3
<1>5. p * BlockBytes <= done * BlockBytes
  BY <1>2, <1>4, ProductOrder
<1> QED BY <1>1, <1>2, <1>4, <1>5 DEF c, done, p

LEMMA PublishStep ==
  ASSUME NEW x \in VramTransfers, NEW l \in {"Starting", "Active", "Completed"},
         NEW y, y = Advanced(x, l), BlockBytes \in Nat \ {0}
  PROVE  published_completed_blocks(x) <= published_completed_blocks(y)
<1> DEFINE c == completed_bytes(x)
           d == completed_bytes(y)
           m == c \div BlockBytes
           n == d \div BlockBytes
<1>1. /\ y \in VramTransfers /\ y.kind = x.kind /\ y.per = x.per
      /\ y.elapsed = x.elapsed + 1 /\ x.elapsed \in Nat /\ d \in {c, c + 1}
  <2>1. x.elapsed \in Nat
    BY DEF VramTransfers, Transfers
  <2> QED BY <2>1, CopyStep
<1>2. c \in Nat /\ d \in Nat
  BY <1>1, CopiedBytes DEF VramTransfers, Transfers
<1>3. m \in Nat /\ n \in Nat /\ m <= n
  BY <1>1, <1>2, QuotientOrder, QuotientBounds
<1>4. /\ published_completed_blocks(x) = IF m = 0 THEN 0
         ELSE IF x.elapsed >= last_byte(x, m * BlockBytes) + PublicationT THEN m ELSE m - 1
      /\ published_completed_blocks(y) = IF n = 0 THEN 0
         ELSE IF y.elapsed >= last_byte(y, n * BlockBytes) + PublicationT THEN n ELSE n - 1
  BY DEF published_completed_blocks
<1>5. last_byte(x, m * BlockBytes) = last_byte(y, m * BlockBytes)
  BY <1>1 DEF last_byte, first_byte_delay
<1>6. last_byte(x, m * BlockBytes) + PublicationT \in Int
  <2>1. m * BlockBytes \in Int
    BY <1>3
  <2>2. x.per \in {2, 4} /\ first_byte_delay(x) \in Int
    BY DEF first_byte_delay, VramTransfers, Transfers, OamFirstByte
  <2> QED BY <2>1, <2>2 DEF last_byte, PublicationT
<1> HIDE DEF c, d, m, n
<1>7. CASE m = n
  BY <1>1, <1>3, <1>4, <1>5, <1>6, <1>7
<1>8. CASE m < n
  BY <1>3, <1>4, <1>8
<1> QED BY <1>3, <1>7, <1>8

-----------------------------------------------------------------------------
(* The slot, the VRAM transfer behind it and the bytes copied.               *)

VramStates == [state : {"GpActive", "GpComplete", "HbActive", "Finished", "Cancelled"},
               dest : Nat, remaining : Nat]

\* A VRAM transfer is a whole number of blocks, copied when it is completed.
WholeBlocks(x) ==
  /\ x.life # "Idle"
  /\ \E k \in Nat \ {0} : x.bytes = k * BlockBytes
  /\ x.life = "Starting" => x.elapsed = 0
  /\ x.life = "Completed" => completed_bytes(x) = x.bytes
  /\ x.kind = "Hdma" => x.bytes = BlockBytes

\* A transfer in the slot belongs to the VRAM transfer, or is over.
Owned(x, v) ==
  /\ x.kind = "Gdma" /\ v.state # "GpActive" => x.life = "Completed"
  /\ x.kind = "Hdma" /\ v.state # "HbActive" =>
       x.life = "Completed" /\ published_completed_blocks(x) = 1

\* The registers stand at the first block that is not published, the bytes
\* copied run on from the transfer's start.
Aligned(x, v, f) ==
  /\ v.state = "GpActive" /\ x.kind = "Gdma" =>
       /\ v.dest * BlockBytes = x.start + published_completed_blocks(x) * BlockBytes
       /\ x.bytes = (v.remaining + published_completed_blocks(x)) * BlockBytes
       /\ completed_bytes(x) > 0 => f = x.start + completed_bytes(x)
  /\ v.state = "HbActive" /\ x.kind = "Hdma" /\ published_completed_blocks(x) = 0 =>
       /\ v.dest * BlockBytes = x.start
       /\ completed_bytes(x) > 0 => f = x.start + completed_bytes(x)

Truthful(v, f) ==
  /\ v.state \in {"GpComplete", "Finished"} => v.remaining = 0 /\ f = v.dest * BlockBytes
  /\ v.state \in {"GpActive", "HbActive"} => v.remaining > 0

SlotOK(x, v, f) ==
  /\ x \in Transfers
  /\ IsVram(x) => WholeBlocks(x) /\ Owned(x, v) /\ Aligned(x, v, f)

Restarts == [page : Nat, elapsed : Int]

DmaInv ==
  /\ vram \in VramStates /\ dest \in 0..(VramBlocks - 1) /\ frontier \in Int
  /\ restart \in Restarts /\ (restart # NoRestart => restart.elapsed \in Nat)
  /\ SlotOK(xfer, vram, frontier)
  /\ Truthful(vram, frontier)

LEMMA ConstantTypes ==
  /\ BlockBytes \in Nat \ {0} /\ VramBlocks \in Nat \ {0} /\ OamBytes \in Nat
  /\ 2 * BlockBytes >= 12
BY DmaAssumption DEF PublicationT

LEMMA OamSlotOK ==
  ASSUME NEW page \in Nat, NEW e \in Nat, NEW l \in {"Starting", "Active"}, NEW v, NEW f
  PROVE  SlotOK(OamTransfer(page, e, l), v, f)
BY ConstantTypes DEF SlotOK, OamTransfer, Transfers, IsVram, OamPerByte

\* A VRAM transfer that starts has copied and published nothing.
LEMMA NewTransfer ==
  ASSUME NEW kind \in {"Gdma", "Hdma"}, NEW block \in Nat, NEW blocks \in Nat \ {0}
  PROVE  LET x == VramTransfer(kind, block, blocks)
         IN  /\ x \in VramTransfers /\ x.kind = kind /\ x.life = "Starting"
             /\ x.start = block * BlockBytes /\ x.bytes = blocks * BlockBytes
             /\ x.elapsed = 0 /\ completed_bytes(x) = 0
             /\ published_completed_blocks(x) = 0
<1> DEFINE x == VramTransfer(kind, block, blocks)
           st == block * BlockBytes
           by == blocks * BlockBytes
           pr == IF speed = "Double" THEN 4 ELSE 2
<1>1. st \in Nat /\ by \in Nat /\ pr \in {2, 4}
  BY ConstantTypes
<1>2. x = [life |-> "Starting", kind |-> kind, start |-> st, bytes |-> by, elapsed |-> 0, per |-> pr]
  BY DEF VramTransfer
<1> HIDE DEF x, st, by, pr
<1>3. /\ x \in VramTransfers /\ x.kind = kind /\ x.life = "Starting"
      /\ x.start = st /\ x.bytes = by /\ x.elapsed = 0
  BY <1>1, <1>2 DEF VramTransfers, Transfers, IsVram
<1>4. completed_bytes(x) = 0
  BY <1>3, CopiedBytes
<1>5. completed_bytes(x) \div BlockBytes = 0
  BY <1>4, ConstantTypes, QuotientOfProduct
<1>6. published_completed_blocks(x) = 0
  BY <1>5 DEF published_completed_blocks
<1> QED BY <1>3, <1>4, <1>6 DEF x, st, by

LEMMA NewHdmaOK ==
  ASSUME vram \in VramStates, vram.state = "HbActive", NEW f
  PROVE  SlotOK(VramTransfer("Hdma", vram.dest, 1), vram, f)
<1> DEFINE x == VramTransfer("Hdma", vram.dest, 1)
<1>1. vram.dest \in Nat
  BY DEF VramStates
<1>2. /\ x \in VramTransfers /\ x.kind = "Hdma" /\ x.life = "Starting"
      /\ x.start = vram.dest * BlockBytes /\ x.bytes = 1 * BlockBytes
      /\ x.elapsed = 0 /\ completed_bytes(x) = 0
      /\ published_completed_blocks(x) = 0
  BY <1>1, NewTransfer
<1> HIDE DEF x
<1>3. x.bytes = BlockBytes
  BY <1>2, ConstantTypes
<1>4. \E k \in Nat \ {0} : x.bytes = k * BlockBytes
  BY <1>2
<1>5. WholeBlocks(x)
  BY <1>2, <1>3, <1>4 DEF WholeBlocks
<1>6. Owned(x, vram) /\ Aligned(x, vram, f)
  BY <1>2 DEF Owned, Aligned
<1> QED BY <1>2, <1>5, <1>6 DEF SlotOK, VramTransfers, x

LEMMA NewGdmaOK ==
  ASSUME NEW b \in Nat, NEW blocks \in Nat \ {0}, NEW v, NEW f,
         v = [state |-> "GpActive", dest |-> b, remaining |-> blocks]
  PROVE  SlotOK(VramTransfer("Gdma", b, blocks), v, f)
<1> DEFINE x == VramTransfer("Gdma", b, blocks)
<1>2. /\ x \in VramTransfers /\ x.kind = "Gdma" /\ x.life = "Starting"
      /\ x.start = b * BlockBytes /\ x.bytes = blocks * BlockBytes
      /\ x.elapsed = 0 /\ completed_bytes(x) = 0 /\ published_completed_blocks(x) = 0
  BY NewTransfer
<1> HIDE DEF x
<1>3. WholeBlocks(x)
  BY <1>2 DEF WholeBlocks
<1>4. v.state = "GpActive" /\ v.dest = b /\ v.remaining = blocks
  OBVIOUS
<1>5. Owned(x, v) /\ Aligned(x, v, f)
  BY <1>2, <1>4, ConstantTypes DEF Owned, Aligned
<1> QED BY <1>2, <1>3, <1>5 DEF SlotOK, VramTransfers, x

-----------------------------------------------------------------------------
(* One tick of the slot.                                                     *)

LEMMA ProductCancel ==
  ASSUME NEW a \in Int, NEW b \in Int, NEW n \in Nat \ {0}, a * n <= b * n
  PROVE  a <= b
<1>1. CASE b + 1 <= a
  <2>1. (b + 1) * n <= a * n
    BY <1>1, ProductOrder
  <2> QED BY <2>1
<1> QED BY <1>1

\* What the tick makes of a VRAM transfer in the slot.
LEMMA VramAdvance ==
  ASSUME NEW x \in VramTransfers, WholeBlocks(x)
  PROVE  \/ x.life = "Completed" /\ ~ Unpublished(x) /\ AdvancedTransfer(x) = x
         \/ \E l \in {"Active", "Completed"} :
              /\ AdvancedTransfer(x) = Advanced(x, l)
              /\ x.life = "Completed" => l = "Completed" /\ Unpublished(x)
              /\ l = "Completed" => \/ x.life = "Completed"
                                    \/ x.elapsed + 1 >= last_byte(x, x.bytes) + ReleaseT
              /\ x.life = "Active" /\ x.elapsed + 1 >= last_byte(x, x.bytes) + ReleaseT
                   => l = "Completed"
              /\ x.life = "Starting" => l = "Active"
<1>1. x.life \in {"Starting", "Active", "Completed"} /\ x.elapsed \in Nat
      /\ x.kind \in {"Gdma", "Hdma"}
  BY DEF WholeBlocks, VramTransfers, Transfers, IsVram
<1>2. restriction_delay(x) = 0 /\ total_t_cycles(x) = last_byte(x, x.bytes) + ReleaseT
  BY <1>1 DEF restriction_delay, total_t_cycles
<1>3. CASE x.life = "Completed" /\ ~ Unpublished(x)
  BY <1>3 DEF AdvancedTransfer
<1>4. CASE Unpublished(x)
  <2>1. AdvancedTransfer(x) = Advanced(x, "Completed") /\ x.life = "Completed"
    <3>1. x.life = "Completed"
      BY <1>4 DEF Unpublished
    <3> QED BY <1>4, <3>1 DEF AdvancedTransfer
  <2> QED BY <1>4, <2>1
<1>5. CASE x.life = "Starting"
  <2>1. ~ Unpublished(x) /\ x.elapsed + 1 >= restriction_delay(x)
    BY <1>1, <1>2, <1>5 DEF Unpublished
  <2>2. AdvancedTransfer(x) = Advanced(x, "Active")
    BY <1>5, <2>1 DEF AdvancedTransfer
  <2> QED BY <1>5, <2>2
<1>6. CASE x.life = "Active"
  <2> DEFINE l == IF x.elapsed + 1 >= total_t_cycles(x) THEN "Completed" ELSE "Active"
  <2>1. ~ Unpublished(x)
    BY <1>6 DEF Unpublished
  <2>2. AdvancedTransfer(x) = Advanced(x, l)
    BY <1>6, <2>1 DEF AdvancedTransfer
  <2>3. /\ l \in {"Active", "Completed"}
        /\ l = "Completed" <=> x.elapsed + 1 >= last_byte(x, x.bytes) + ReleaseT
    BY <1>2
  <2> HIDE DEF l
  <2> QED BY <1>6, <2>2, <2>3
<1> QED BY <1>1, <1>3, <1>4, <1>5, <1>6

\* A transfer whose blocks are all published has been copied and completed.
LEMMA AllPublished ==
  ASSUME NEW x \in VramTransfers, NEW k \in Nat \ {0}, x.bytes = k * BlockBytes
  PROVE  /\ published_completed_blocks(x) <= k
         /\ published_completed_blocks(x) = k =>
              /\ completed_bytes(x) = x.bytes
              /\ x.elapsed >= last_byte(x, x.bytes) + PublicationT
         /\ completed_bytes(x) = x.bytes =>
              published_completed_blocks(x) =
                IF x.elapsed >= last_byte(x, x.bytes) + PublicationT THEN k ELSE k - 1
<1> DEFINE c == completed_bytes(x)
           done == c \div BlockBytes
           q == published_completed_blocks(x)
           n == x.bytes
<1>1. c \in 0..n /\ n \in Nat
  BY CopiedBytes DEF VramTransfers, Transfers
<1>2. done \in Nat /\ q \in Nat /\ q <= done /\ q * BlockBytes <= c
  BY ConstantTypes, PublishedBlocks
<1>3. q = IF done = 0 THEN 0
          ELSE IF x.elapsed >= last_byte(x, done * BlockBytes) + PublicationT THEN done ELSE done - 1
  BY DEF published_completed_blocks
<1>4. c = n => done = k
  BY ConstantTypes, QuotientOfProduct
<1>5. done <= k
  <2>1. done <= n \div BlockBytes
    BY <1>1, ConstantTypes, QuotientOrder
  <2>2. n \div BlockBytes = k
    BY ConstantTypes, QuotientOfProduct
  <2> QED BY <2>1, <2>2
<1> HIDE DEF c, done, q, n
<1>6. q <= k
  BY <1>2, <1>5
<1>7. q = k => c = n /\ done = k
  <2> SUFFICES ASSUME q = k PROVE c = n /\ done = k
    OBVIOUS
  <2>1. k * BlockBytes <= c
    BY <1>2
  <2>2. n = k * BlockBytes
    BY DEF n
  <2> QED BY <1>1, <2>1, <2>2, <1>4
<1>8. done = k => q = IF x.elapsed >= last_byte(x, n) + PublicationT THEN k ELSE k - 1
  <2>1. n = k * BlockBytes /\ k # 0
    BY DEF n
  <2> QED BY <1>3, <2>1
<1>9. q = k => x.elapsed >= last_byte(x, n) + PublicationT
  BY <1>7, <1>8
<1> QED BY <1>4, <1>6, <1>7, <1>8, <1>9 DEF c, q, n

\* What the tick does to the VRAM transfer and to the bytes copied, with x in
\* the slot before it and y after it.
NewBlocks(x, y) ==
  IF IsVram(y) THEN published_completed_blocks(y) - published_completed_blocks(x) ELSE 0
VramNext(x, y) ==
  IF Publishes(y.kind, NewBlocks(x, y)) THEN VramAfter(AtMost(NewBlocks(x, y), vram.remaining))
  ELSE vram
FrontierNext(x, y) ==
  IF completed_bytes(y) > completed_bytes(x) /\ IsVram(y) THEN y.start + completed_bytes(y)
  ELSE frontier

LEMMA OamAdvance ==
  ASSUME NEW x \in Transfers, ~ IsVram(x)
  PROVE  AdvancedTransfer(x) \in Transfers /\ ~ IsVram(AdvancedTransfer(x))
<1>1. ~ Unpublished(x) /\ x.elapsed + 1 \in Nat
  BY DEF Unpublished, Transfers
<1>2. ASSUME NEW l \in {"Starting", "Active", "Completed"}
      PROVE  Advanced(x, l) \in Transfers /\ ~ IsVram(Advanced(x, l))
  <2> DEFINE e == x.elapsed + 1
  <2>1. Advanced(x, l) = [x EXCEPT !.elapsed = e, !.life = l] /\ e \in Nat
    BY <1>1 DEF Advanced
  <2> HIDE DEF e
  <2> QED BY <2>1, <1>2 DEF Transfers, IsVram
<1>3. x.life \in {"Idle", "Starting", "Active", "Completed"}
  BY DEF Transfers
<1>4. CASE x.life \in {"Idle", "Completed"}
  BY <1>1, <1>4 DEF AdvancedTransfer
<1>5. CASE x.life = "Starting"
  BY <1>1, <1>2, <1>5 DEF AdvancedTransfer
<1>6. CASE x.life = "Active"
  BY <1>1, <1>2, <1>6 DEF AdvancedTransfer
<1> QED BY <1>3, <1>4, <1>5, <1>6

LEMMA OamTick ==
  ASSUME NEW x, NEW y, ~ IsVram(y)
  PROVE  VramNext(x, y) = vram /\ FrontierNext(x, y) = frontier
BY DEF VramNext, FrontierNext, NewBlocks, Publishes

LEMMA TickOK ==
  ASSUME vram \in VramStates, frontier \in Int, Truthful(vram, frontier),
         NEW x, SlotOK(x, vram, frontier), NEW y, y = AdvancedTransfer(x)
  PROVE  /\ SlotOK(y, VramNext(x, y), FrontierNext(x, y))
         /\ Truthful(VramNext(x, y), FrontierNext(x, y))
         /\ VramNext(x, y) \in VramStates /\ FrontierNext(x, y) \in Int
         /\ vram.state = "GpActive" /\ y.kind = "Gdma" /\ VramNext(x, y).state # "GpActive"
              => y.bytes = published_completed_blocks(y) * BlockBytes
<1> DEFINE v == VramNext(x, y)
           f == FrontierNext(x, y)
<1>1. CASE ~ IsVram(x)
  BY <1>1, OamAdvance, OamTick DEF SlotOK
<1>2. CASE IsVram(x) /\ y = x
  <2>1. published_completed_blocks(x) \in Nat /\ completed_bytes(x) \in Nat
    BY <1>2, PublishedBlocks, CopiedBytes, ConstantTypes DEF SlotOK, VramTransfers, Transfers
  <2>2. v = vram /\ f = frontier
    BY <1>2, <2>1 DEF VramNext, FrontierNext, NewBlocks, Publishes
  <2> QED BY <1>2, <2>2
<1>3. CASE IsVram(x) /\ y # x
  <2>1. x \in VramTransfers /\ WholeBlocks(x) /\ Owned(x, vram) /\ Aligned(x, vram, frontier)
    BY <1>3 DEF SlotOK, VramTransfers
  <2>2. PICK l \in {"Active", "Completed"} :
              /\ y = Advanced(x, l)
              /\ x.life = "Completed" => l = "Completed" /\ Unpublished(x)
              /\ l = "Completed" => \/ x.life = "Completed"
                                    \/ x.elapsed + 1 >= last_byte(x, x.bytes) + ReleaseT
              /\ x.life = "Active" /\ x.elapsed + 1 >= last_byte(x, x.bytes) + ReleaseT
                   => l = "Completed"
              /\ x.life = "Starting" => l = "Active"
    BY <1>3, <2>1, VramAdvance
  <2> DEFINE B == BlockBytes
             c == completed_bytes(x)
             d == completed_bytes(y)
             p == published_completed_blocks(x)
             q == published_completed_blocks(y)
             n == q - p
             R == vram.remaining
             D == vram.dest
  <2>3. /\ y \in VramTransfers
        /\ y.kind = x.kind /\ y.start = x.start /\ y.bytes = x.bytes /\ y.per = x.per
        /\ y.elapsed = x.elapsed + 1 /\ y.life = l /\ d \in {c, c + 1}
    BY <2>1, <2>2, CopyStep
  <2>4. c \in 0..x.bytes /\ d \in 0..x.bytes /\ x.bytes \in Nat /\ x.start \in Nat
        /\ x.elapsed \in Nat
    BY <2>1, <2>3, CopiedBytes DEF VramTransfers, Transfers
  <2>5. p \in Nat /\ q \in Nat /\ p <= q /\ p * B <= c /\ q * B <= d /\ B \in Nat \ {0}
    BY <2>1, <2>2, <2>3, PublishedBlocks, PublishStep, ConstantTypes
  <2>6. R \in Nat /\ D \in Nat
    BY DEF VramStates
  <2>7. IsVram(y) /\ y.kind \in {"Gdma", "Hdma"} /\ last_byte(y, y.bytes) = last_byte(x, x.bytes)
    BY <2>1, <2>3 DEF VramTransfers, IsVram, last_byte, first_byte_delay
  <2>8. PICK k \in Nat \ {0} : x.bytes = k * B
    BY <2>1 DEF WholeBlocks
  <2>9. q <= k /\ (q = k => d = x.bytes /\ y.elapsed >= last_byte(y, y.bytes) + PublicationT)
    BY <2>3, <2>8, AllPublished
  <2>10. l = "Completed" => d = x.bytes
    <3>1. CASE l = "Completed" /\ x.life = "Completed"
      <4>1. c = x.bytes
        BY <2>1, <3>1 DEF WholeBlocks
      <4> QED BY <2>3, <2>4, <4>1
    <3>2. CASE l = "Completed" /\ x.elapsed + 1 >= last_byte(x, x.bytes) + ReleaseT
      <4>1. last_byte(x, x.bytes) \in Int
        BY <2>1, <2>4 DEF last_byte, first_byte_delay, VramTransfers, Transfers, IsVram
      <4>2. y.elapsed >= last_byte(y, y.bytes)
        BY <2>3, <2>4, <2>7, <3>2, <4>1 DEF ReleaseT
      <4>3. x.bytes > 0
        BY <2>5, <2>8, <2>4
      <4> QED BY <2>3, <4>2, <4>3, CopiedBytes
    <3> QED BY <2>2, <3>1, <3>2
  <2>11. q = k => l = "Completed"
    <3> SUFFICES ASSUME q = k, l # "Completed" PROVE FALSE
      OBVIOUS
    <3>1. last_byte(x, x.bytes) \in Int
      BY <2>1, <2>4 DEF last_byte, first_byte_delay, VramTransfers, Transfers, IsVram
    <3>2. x.elapsed + 1 >= last_byte(x, x.bytes) + ReleaseT
      BY <2>3, <2>4, <2>7, <2>9, <3>1 DEF ReleaseT, PublicationT
    <3>3. x.life = "Starting"
      BY <2>1, <2>2, <3>2 DEF WholeBlocks, VramTransfers, Transfers
    <3>4. x.elapsed = 0
      BY <2>1, <3>3 DEF WholeBlocks
    <3>5. d = 0
      BY <2>3, <3>4, CopiedBytes, <2>1, <2>7
         DEF completed_bytes, first_byte_delay, VramTransfers, Transfers, IsVram
    <3> QED BY <2>4, <2>5, <2>8, <2>9, <3>5
  <2>12. WholeBlocks(y)
    BY <2>1, <2>2, <2>3, <2>8, <2>10 DEF WholeBlocks
  <2>13. f = (IF d > c THEN y.start + d ELSE frontier) /\ f \in Int
    BY <2>3, <2>4, <2>7 DEF FrontierNext
  <2>14. (c > 0 => frontier = x.start + c) => (d > 0 => f = y.start + d)
    BY <2>3, <2>4, <2>13
  <2>15. NewBlocks(x, y) = n /\ n \in Nat
    BY <2>5, <2>7 DEF NewBlocks
  <2>16. v = IF n > 0 /\ <<vram.state, y.kind>> \in {<<"GpActive", "Gdma">>, <<"HbActive", "Hdma">>}
             THEN VramAfter(AtMost(n, R)) ELSE vram
    BY <2>15 DEF VramNext, Publishes
  <2>17. x.life = "Completed" => d = c
    BY <2>1, <2>3, <2>4 DEF WholeBlocks
  <2>21. x.kind = "Hdma" => k = 1
    <3> SUFFICES ASSUME x.kind = "Hdma" PROVE k = 1
      OBVIOUS
    <3>1. 1 * B = k * B /\ B \in Nat \ {0}
      BY <2>1, <2>5, <2>8 DEF WholeBlocks
    <3> HIDE DEF B
    <3> QED BY <3>1, ProductCancel
  <2>22. /\ p = published_completed_blocks(x) /\ q = published_completed_blocks(y)
         /\ c = completed_bytes(x) /\ d = completed_bytes(y)
         /\ B = BlockBytes /\ R = vram.remaining /\ D = vram.dest /\ n = q - p
         /\ v = VramNext(x, y) /\ f = FrontierNext(x, y)
    OBVIOUS
  <2> HIDE DEF v, f, c, d, p, q, n, R, D, B
  <2>18. CASE ~ (n > 0 /\ <<vram.state, y.kind>> \in {<<"GpActive", "Gdma">>, <<"HbActive", "Hdma">>})
    <3>1. v = vram
      BY <2>16, <2>18
    <3>2. Owned(y, vram)
      <4>1. y.kind = "Gdma" /\ vram.state # "GpActive" => y.life = "Completed"
        BY <2>1, <2>2, <2>3 DEF Owned
      <4>2. y.kind = "Hdma" /\ vram.state # "HbActive" => y.life = "Completed" /\ q = 1
        BY <2>1, <2>2, <2>3, <2>5, <2>9, <2>21, <2>22 DEF Owned
      <4> QED BY <4>1, <4>2, <2>22 DEF Owned
    <3>3. Aligned(y, vram, f)
      <4>1. CASE vram.state = "GpActive" /\ y.kind = "Gdma"
        <5>1. q = p
          BY <2>5, <2>18, <2>22, <4>1
        <5> QED BY <2>1, <2>3, <2>14, <2>22, <4>1, <5>1 DEF Aligned
      <4>2. CASE vram.state = "HbActive" /\ y.kind = "Hdma" /\ q = 0
        <5>1. p = 0
          BY <2>5, <4>2
        <5> QED BY <2>1, <2>3, <2>14, <2>22, <4>2, <5>1 DEF Aligned
      <4> QED BY <4>1, <4>2, <2>22 DEF Aligned
    <3>4. Truthful(vram, f)
      <4>1. vram.state \in {"GpComplete", "Finished"} => f = frontier
        <5>1. vram.state \in {"GpComplete", "Finished"} => x.life = "Completed"
          BY <2>1, <2>3, <2>7 DEF Owned
        <5> QED BY <2>4, <2>13, <2>17, <5>1
      <4> QED BY <4>1 DEF Truthful
    <3> QED BY <2>3, <2>7, <2>12, <2>13, <2>22, <3>1, <3>2, <3>3, <3>4 DEF SlotOK, VramTransfers
  <2>19. CASE n > 0 /\ vram.state = "GpActive" /\ y.kind = "Gdma"
    <3>1. /\ D * B = x.start + p * B /\ x.bytes = (R + p) * B
          /\ (c > 0 => frontier = x.start + c)
      BY <2>1, <2>3, <2>19, <2>22 DEF Aligned
    <3>2. R + p = k
      <4>1. (R + p) * B = k * B /\ R + p \in Int
        BY <2>5, <2>6, <2>8, <3>1
      <4> QED BY <4>1, <2>5, ProductCancel
    <3>3. n <= R /\ n \in Nat /\ AtMost(n, R) = n
      BY <2>5, <2>6, <2>9, <2>22, <3>2 DEF AtMost
    <3>4. v = [state |-> IF R - n > 0 THEN "GpActive" ELSE "GpComplete",
               dest |-> D + n, remaining |-> R - n]
      BY <2>16, <2>19, <2>22, <3>3 DEF VramAfter
    <3>5. /\ v.state = (IF R - n > 0 THEN "GpActive" ELSE "GpComplete")
          /\ v.dest = D + n /\ v.remaining = R - n /\ v \in VramStates
      BY <2>6, <3>3, <3>4 DEF VramStates
    <3>6. (D + n) * B = y.start + q * B
      <4>1. (D + n) * B = D * B + n * B /\ q * B = p * B + n * B
        BY <2>5, <2>6, <2>22
      <4>2. n * B \in Int /\ p * B \in Int /\ x.start \in Int
        BY <2>4, <2>5, <3>3
      <4> DEFINE nB == n * B
                 pB == p * B
                 st == x.start
      <4>3. (D + n) * B = (st + pB) + nB /\ q * B = pB + nB
        BY <3>1, <4>1
      <4>4. nB \in Int /\ pB \in Int /\ st \in Int
        BY <4>2
      <4> HIDE DEF nB, pB, st
      <4>5. (st + pB) + nB = st + (pB + nB)
        BY <4>4
      <4> QED BY <2>3, <4>3, <4>5 DEF st
    <3>7. y.bytes = ((R - n) + q) * B
      <4>1. (R - n) + q = R + p
        BY <2>5, <2>6, <2>22
      <4> QED BY <2>3, <3>1, <4>1
    <3>8. R - n = 0 => q = k
      BY <2>5, <2>6, <2>22, <3>2
    <3>9. d > 0 => f = y.start + d
      BY <2>14, <3>1
    <3>10. Owned(y, v)
      BY <2>3, <2>6, <2>11, <2>19, <3>3, <3>5, <3>8 DEF Owned
    <3>11. Aligned(y, v, f)
      BY <2>19, <2>22, <3>5, <3>6, <3>7, <3>9 DEF Aligned
    <3>12. Truthful(v, f)
      <4>1. CASE R - n > 0
        BY <3>5, <4>1 DEF Truthful
      <4>2. CASE R - n = 0
        <5>1. d = x.bytes /\ q = k /\ x.bytes = q * B /\ x.bytes > 0
          <6>1. d = x.bytes /\ q = k /\ x.bytes = q * B
            BY <2>8, <2>9, <3>8, <4>2
          <6>2. k * B > 0
            BY <2>5
          <6> QED BY <6>1, <6>2
        <5>2. f = (D + n) * B
          BY <2>4, <3>6, <3>9, <5>1
        <5> QED BY <3>5, <4>2, <5>2, <2>22 DEF Truthful
      <4> QED BY <4>1, <4>2, <2>6, <3>3
    <3>13. v.state # "GpActive" => y.bytes = q * B
      BY <2>3, <2>6, <2>8, <3>3, <3>5, <3>8
    <3> QED BY <2>3, <2>12, <2>13, <2>22, <3>5, <3>10, <3>11, <3>12, <3>13 DEF SlotOK, VramTransfers
  <2>20. CASE n > 0 /\ vram.state = "HbActive" /\ y.kind = "Hdma"
    <3>1. p = 0 /\ q = 1 /\ n = 1 /\ k = 1
      BY <2>3, <2>5, <2>9, <2>20, <2>21, <2>22
    <3>2. l = "Completed" /\ d = B /\ B > 0
      <4>1. x.bytes = B
        BY <2>1, <2>3, <2>20, <2>22 DEF WholeBlocks
      <4> QED BY <2>9, <2>11, <3>1, <4>1, <2>5
    <3>3. D * B = x.start /\ (c > 0 => frontier = x.start + c)
      BY <2>1, <2>3, <2>20, <2>22, <3>1 DEF Aligned
    <3>4. R > 0
      BY <2>20, <2>22 DEF Truthful
    <3>5. v = [state |-> IF R - 1 > 0 THEN "HbActive" ELSE "Finished",
               dest |-> D + 1, remaining |-> R - 1]
      <4>1. AtMost(1, R) = 1
        BY <2>6, <3>4 DEF AtMost
      <4> QED BY <2>16, <2>20, <2>22, <3>1, <4>1 DEF VramAfter
    <3>6. /\ v.state = (IF R - 1 > 0 THEN "HbActive" ELSE "Finished")
          /\ v.dest = D + 1 /\ v.remaining = R - 1 /\ v \in VramStates
      BY <2>6, <3>4, <3>5 DEF VramStates
    <3>7. f = (D + 1) * B
      <4>1. f = y.start + B
        BY <2>14, <3>2, <3>3
      <4>2. (D + 1) * B = D * B + B
        BY <2>5, <2>6
      <4> QED BY <2>3, <3>3, <4>1, <4>2
    <3>8. Owned(y, v)
      BY <2>3, <2>20, <2>22, <3>1, <3>2, <3>6 DEF Owned
    <3>9. Aligned(y, v, f)
      BY <2>20, <2>22, <3>1, <3>6 DEF Aligned
    <3>10. Truthful(v, f)
      <4>1. CASE R - 1 > 0
        BY <3>6, <4>1 DEF Truthful
      <4>2. CASE R - 1 = 0
        BY <2>22, <3>6, <3>7, <4>2 DEF Truthful
      <4> QED BY <2>6, <3>4, <4>1, <4>2
    <3>11. y.kind # "Gdma"
      BY <2>20
    <3> QED BY <2>3, <2>12, <2>13, <2>22, <3>6, <3>8, <3>9, <3>10, <3>11 DEF SlotOK, VramTransfers
  <2> QED BY <2>18, <2>19, <2>20, <2>3, <2>7
<1> QED BY <1>1, <1>2, <1>3

LEMMA DmaNext ==
  ASSUME DmaInv, Next
  PROVE  DmaInv'
<1>0. /\ vram \in VramStates /\ dest \in 0..(VramBlocks - 1) /\ frontier \in Int
      /\ restart \in Restarts /\ (restart # NoRestart => restart.elapsed \in Nat)
      /\ SlotOK(xfer, vram, frontier) /\ Truthful(vram, frontier)
      /\ VramBlocks \in Nat \ {0} /\ BlockBytes \in Nat \ {0}
  BY ConstantTypes DEF DmaInv
<1>1. CASE UNCHANGED <<xfer, restart, vram, dest, frontier>>
  BY <1>0, <1>1 DEF DmaInv
<1>2. CASE requires_t_cycle_tick /\ DmaTick
  <2> DEFINE x == IF hblank_block_eligible THEN VramTransfer("Hdma", vram.dest, 1) ELSE xfer
             y == AdvancedTransfer(x)
             taken == restart # NoRestart /\ restart.elapsed + 1 >= OamRestriction
  <2>1. SlotOK(x, vram, frontier)
    BY <1>0, NewHdmaOK DEF hblank_block_eligible
  <2>2. \/ /\ taken /\ restart' = NoRestart
           /\ xfer' = OamTransfer(restart.page, restart.elapsed + 1, "Active")
           /\ UNCHANGED <<vram, dest, frontier>>
        \/ /\ ~ taken
           /\ restart' = IF restart = NoRestart THEN NoRestart ELSE [restart EXCEPT !.elapsed = @ + 1]
           /\ xfer' = y
           /\ frontier' = IF completed_bytes(y) > completed_bytes(x) /\ IsVram(y)
                          THEN (IF IsVram(y) THEN y.start + completed_bytes(y) - 1
                                ELSE completed_bytes(y) - 1) + 1
                          ELSE frontier
           /\ \/ Publishes(y.kind, NewBlocks(x, y)) /\ Publish(y.kind, NewBlocks(x, y))
              \/ ~ Publishes(y.kind, NewBlocks(x, y)) /\ UNCHANGED <<vram, dest>>
    BY <1>2 DEF DmaTick, NewBlocks
  <2> HIDE DEF x, y
  <2>3. CASE taken
    <3>1. restart.page \in Nat /\ restart.elapsed + 1 \in Nat
      BY <1>0, <2>3 DEF Restarts
    <3>2. SlotOK(xfer', vram', frontier')
      BY <2>2, <2>3, <3>1, OamSlotOK
    <3>3. restart' \in Restarts
      BY <2>2, <2>3 DEF Restarts, NoRestart
    <3> QED BY <1>0, <2>2, <2>3, <3>2, <3>3 DEF DmaInv
  <2>4. CASE ~ taken
    <3>1. /\ SlotOK(y, VramNext(x, y), FrontierNext(x, y))
          /\ Truthful(VramNext(x, y), FrontierNext(x, y))
          /\ VramNext(x, y) \in VramStates /\ FrontierNext(x, y) \in Int
      BY <1>0, <2>1, TickOK DEF y
    <3>2. vram' = VramNext(x, y)
      BY <2>2, <2>4 DEF VramNext, Publish
    <3>3. frontier' = FrontierNext(x, y)
      <4>1. CASE completed_bytes(y) > completed_bytes(x) /\ IsVram(y)
        <5>1. y \in VramTransfers
          BY <3>1, <4>1 DEF SlotOK, VramTransfers
        <5>2. y.start \in Nat /\ completed_bytes(y) \in Nat
          BY <5>1, CopiedBytes DEF VramTransfers, Transfers
        <5> QED BY <2>2, <2>4, <4>1, <5>2 DEF FrontierNext
      <4> QED BY <2>2, <2>4, <4>1 DEF FrontierNext
    <3>4. dest' \in 0..(VramBlocks - 1)
      <4>1. CASE UNCHANGED dest
        BY <1>0, <4>1
      <4>2. CASE Publishes(y.kind, NewBlocks(x, y)) /\ Publish(y.kind, NewBlocks(x, y))
        <5> DEFINE s == vram.dest + AtMost(NewBlocks(x, y), vram.remaining)
        <5>1. vram'.dest = s /\ dest' = s % VramBlocks
          BY <4>2 DEF Publish, VramAfter
        <5>2. s \in Nat
          BY <3>1, <3>2, <5>1 DEF VramStates
        <5> HIDE DEF s
        <5> QED BY <1>0, <5>1, <5>2
      <4> QED BY <2>2, <2>4, <4>1, <4>2
    <3>5. restart' \in Restarts /\ (restart' # NoRestart => restart'.elapsed \in Nat)
      <4>1. CASE restart = NoRestart
        BY <1>0, <2>2, <2>4, <4>1
      <4>2. CASE restart # NoRestart
        BY <1>0, <2>2, <2>4, <4>2 DEF Restarts
      <4> QED BY <4>1, <4>2
    <3>6. xfer' = y
      BY <2>2, <2>4
    <3> QED BY <3>1, <3>2, <3>3, <3>4, <3>5, <3>6 DEF DmaInv
  <2> QED BY <2>3, <2>4
<1>3. CASE \E page \in Pages : WriteFf46(page)
  <2>1. PICK page \in Pages : WriteFf46(page)
    BY <1>3
  <2>2. page \in Nat
    BY DmaAssumption
  <2>3. UNCHANGED <<vram, dest, frontier>> /\ write_ff46(page)
    BY <2>1 DEF WriteFf46
  <2>4. restart' \in Restarts /\ (restart' # NoRestart => restart'.elapsed \in Nat)
    BY <2>2, <2>3 DEF write_ff46, Restarts, NoRestart
  <2>5. SlotOK(xfer', vram', frontier')
    BY <1>0, <2>2, <2>3, OamSlotOK DEF write_ff46
  <2> QED BY <1>0, <2>3, <2>4, <2>5 DEF DmaInv
<1>4. CASE \E block \in 0..VramBlocks - 1 : WriteHdma4(block)
  BY <1>0, <1>4 DEF WriteHdma4, DmaInv
<1>5. CASE CancelHdma
  <2>1. /\ vram.state = "HbActive" /\ vram' = [vram EXCEPT !.state = "Cancelled"]
        /\ xfer' = IF xfer.life # "Idle" /\ xfer.kind = "Hdma" THEN Idle ELSE xfer
        /\ UNCHANGED <<restart, dest, frontier>>
    BY <1>5 DEF CancelHdma
  <2>2. vram' \in VramStates /\ vram'.state = "Cancelled"
    BY <1>0, <2>1 DEF VramStates
  <2>3. Truthful(vram', frontier')
    BY <2>2 DEF Truthful
  <2>4. SlotOK(xfer', vram', frontier')
    <3>1. CASE ~ IsVram(xfer')
      BY <1>0, <2>1, <3>1 DEF SlotOK, Idle, Transfers, OamPerByte
    <3>2. CASE IsVram(xfer')
      <4>1. xfer' = xfer /\ xfer.kind = "Gdma" /\ IsVram(xfer)
        BY <1>0, <2>1, <3>2 DEF IsVram, Idle, SlotOK, WholeBlocks
      <4>2. WholeBlocks(xfer) /\ xfer.life = "Completed"
        BY <1>0, <2>1, <4>1 DEF SlotOK, Owned
      <4>3. Owned(xfer, vram') /\ Aligned(xfer, vram', frontier')
        BY <2>2, <4>1, <4>2 DEF Owned, Aligned
      <4> QED BY <1>0, <4>1, <4>2, <4>3 DEF SlotOK
    <3> QED BY <3>1, <3>2
  <2> QED BY <1>0, <2>1, <2>2, <2>3, <2>4 DEF DmaInv
<1>6. ASSUME NEW blocks \in Blocks, NEW mode, NEW state \in {"GpActive", "HbActive"},
             StartVram(mode, state, blocks)
      PROVE  /\ Clipped(blocks) \in Nat \ {0} /\ dest \in Nat
             /\ vram' = [state |-> state, dest |-> dest, remaining |-> Clipped(blocks)]
             /\ vram' \in VramStates /\ vram'.state = state /\ frontier' \in Int
             /\ Truthful(vram', frontier') /\ dest' = dest /\ vram.state # "HbActive"
  <2>1. blocks \in Nat \ {0}
    BY DmaAssumption
  <2>2. Clipped(blocks) \in Nat \ {0} /\ dest \in Nat
    BY <1>0, <2>1 DEF Clipped, AtMost
  <2>3. /\ vram' = [state |-> state, dest |-> dest, remaining |-> Clipped(blocks)]
        /\ frontier' = dest * BlockBytes /\ dest' = dest /\ vram.state # "HbActive"
    BY <1>6 DEF StartVram
  <2> QED BY <1>0, <1>6, <2>2, <2>3 DEF VramStates, Truthful
<1>7. CASE \E blocks \in Blocks : StartGdma(blocks)
  <2>1. PICK blocks \in Blocks : StartGdma(blocks)
    BY <1>7
  <2>2. /\ StartVram("GeneralPurpose", "GpActive", blocks)
        /\ xfer' = VramTransfer("Gdma", dest, Clipped(blocks)) /\ restart' = NoRestart
    BY <2>1 DEF StartGdma
  <2>3. /\ Clipped(blocks) \in Nat \ {0} /\ dest \in Nat
        /\ vram' = [state |-> "GpActive", dest |-> dest, remaining |-> Clipped(blocks)]
        /\ vram' \in VramStates /\ frontier' \in Int
        /\ Truthful(vram', frontier') /\ dest' = dest
    BY <1>6, <2>2
  <2>4. SlotOK(xfer', vram', frontier')
    BY <2>2, <2>3, NewGdmaOK
  <2>5. restart' \in Restarts
    BY <2>2 DEF Restarts, NoRestart
  <2> QED BY <1>0, <2>2, <2>3, <2>4, <2>5 DEF DmaInv
<1>8. CASE \E blocks \in Blocks : StartHdma(blocks)
  <2>1. PICK blocks \in Blocks : StartHdma(blocks)
    BY <1>8
  <2>2. StartVram("HBlank", "HbActive", blocks) /\ UNCHANGED <<xfer, restart>>
    BY <2>1 DEF StartHdma
  <2>3. /\ vram' \in VramStates /\ vram'.state = "HbActive" /\ frontier' \in Int
        /\ Truthful(vram', frontier') /\ dest' = dest /\ vram.state # "HbActive"
    BY <1>6, <2>2
  <2>4. SlotOK(xfer, vram', frontier')
    <3>1. CASE ~ IsVram(xfer)
      BY <1>0, <3>1 DEF SlotOK
    <3>2. CASE IsVram(xfer)
      <4>1. WholeBlocks(xfer) /\ Owned(xfer, vram)
        BY <1>0, <3>2 DEF SlotOK
      <4>2. xfer.kind = "Hdma" => published_completed_blocks(xfer) = 1
        BY <2>3, <4>1 DEF Owned
      <4>3. xfer.life = "Completed"
        <5>1. ~ cpu_stall_active /\ restriction_delay(xfer) = 0 /\ xfer.elapsed \in Nat
          BY <1>0, <2>2, <3>2
             DEF StartVram, Write, CpuMay, restriction_delay, IsVram, SlotOK, Transfers
        <5>2. ~ InFlight(xfer)
          BY <3>2, <5>1 DEF cpu_stall_active
        <5> QED BY <1>0, <4>1, <5>2 DEF InFlight, WholeBlocks, SlotOK, Transfers
      <4>4. Owned(xfer, vram') /\ Aligned(xfer, vram', frontier')
        BY <2>3, <4>2, <4>3 DEF Owned, Aligned
      <4> QED BY <1>0, <4>1, <4>4 DEF SlotOK
    <3> QED BY <3>1, <3>2
  <2> QED BY <1>0, <2>2, <2>3, <2>4 DEF DmaInv
<1>9. Next => \/ UNCHANGED <<xfer, restart, vram, dest, frontier>>
              \/ (requires_t_cycle_tick /\ DmaTick)
              \/ \E page \in Pages : WriteFf46(page)
              \/ \E block \in 0..VramBlocks - 1 : WriteHdma4(block)
              \/ CancelHdma
              \/ \E blocks \in Blocks : StartGdma(blocks)
              \/ \E blocks \in Blocks : StartHdma(blocks)
  BY DEF Next, Tick, CpuStalled, CpuRuns, CpuNoWrite, CpuHalt, CpuWake, IgnoredHdma5, DisableLcd,
         EnableLcd, dmaVars
<1> QED BY <1>1, <1>2, <1>3, <1>4, <1>5, <1>7, <1>8, <1>9

(* The inductive form of CompletionIsTruthful: a VRAM transfer in the slot   *)
(* belongs to the one HDMA5 reports or is over, the registers stand at its   *)
(* first unpublished block, and the bytes copied run on from its start.      *)
THEOREM DmaInvariant == Spec => []DmaInv
<1>1. Init => DmaInv
  <2> SUFFICES ASSUME Init PROVE DmaInv
    OBVIOUS
  <2>1. /\ xfer = Idle /\ restart = NoRestart /\ dest = VramBlocks - 1
        /\ vram = [state |-> "Finished", dest |-> VramBlocks, remaining |-> 0]
        /\ frontier = VramBlocks * BlockBytes
    BY DEF Init
  <2>2. SlotOK(xfer, vram, frontier)
    BY <2>1 DEF SlotOK, Idle, IsVram, Transfers, OamPerByte
  <2>3. Truthful(vram, frontier)
    BY <2>1 DEF Truthful
  <2>4. vram \in VramStates /\ dest \in 0..(VramBlocks - 1) /\ frontier \in Int
    BY <2>1, ConstantTypes DEF VramStates
  <2>5. restart \in Restarts
    BY <2>1 DEF Restarts, NoRestart
  <2> QED BY <2>1, <2>2, <2>3, <2>4, <2>5 DEF DmaInv
<1>2. DmaInv /\ [Next]_vars => DmaInv'
  <2>1. CASE UNCHANGED vars
    BY <2>1 DEF vars, dmaVars, DmaInv
  <2> QED BY <2>1, DmaNext
<1> QED BY <1>1, <1>2, PTL DEF Spec

(* HDMA5 reads complete only when every byte of the transfer was copied,     *)
(* whatever OAM bursts, restarts, LCD switches and HALTs came between.       *)
THEOREM CompletionAlwaysTruthful == Spec => []CompletionIsTruthful
<1>1. DmaInv => CompletionIsTruthful
  BY DEF DmaInv, Truthful, CompletionIsTruthful
<1> QED BY <1>1, DmaInvariant, PTL

-----------------------------------------------------------------------------
(* Programs that leave FF46 and LCDC alone.                                  *)

\* A write to FF46 or a switch of the LCD between the last byte of an HBlank
\* block and its publication takes the slot, and the block is copied again.
VramProgram == "FF46" \notin CpuOps /\ "LCDC" \notin CpuOps

LEMMA SlotStep ==
  ASSUME NEW x, NEW v, NEW f, SlotOK(x, v, f), IsVram(x), NEW y, y = AdvancedTransfer(x)
  PROVE  /\ x \in VramTransfers /\ y \in VramTransfers /\ y.kind = x.kind /\ y.start = x.start
         /\ y.bytes = x.bytes /\ y.per = x.per /\ last_byte(y, y.bytes) = last_byte(x, x.bytes)
         /\ last_byte(x, x.bytes) \in Int /\ x.elapsed \in Nat
         /\ completed_bytes(x) \in Nat /\ completed_bytes(y) \in {completed_bytes(x), completed_bytes(x) + 1}
         /\ published_completed_blocks(x) \in Nat /\ published_completed_blocks(y) \in Nat
         /\ published_completed_blocks(x) <= published_completed_blocks(y)
         /\ x.life = "Completed" =>
              y.life = "Completed" /\ completed_bytes(y) = completed_bytes(x)
         /\ \/ y = x /\ x.life = "Completed" /\ ~ Unpublished(x)
            \/ y.elapsed = x.elapsed + 1
         /\ y.life = "Completed" /\ x.life # "Completed" =>
              y.elapsed >= last_byte(y, y.bytes) + ReleaseT
<1>1. x \in VramTransfers /\ WholeBlocks(x)
  BY DEF SlotOK, VramTransfers
<1>2. /\ x.bytes \in Nat /\ x.start \in Nat /\ x.elapsed \in Nat /\ x.per \in {2, 4}
      /\ completed_bytes(x) \in 0..x.bytes
      /\ published_completed_blocks(x) \in Nat /\ last_byte(x, x.bytes) \in Int
  <2>1. x.bytes \in Nat /\ x.start \in Nat /\ x.elapsed \in Nat /\ x.per \in {2, 4}
    BY <1>1 DEF VramTransfers, Transfers
  <2>2. last_byte(x, x.bytes) \in Int
    BY <2>1 DEF last_byte, first_byte_delay, OamFirstByte
  <2> QED BY <1>1, <2>1, <2>2, CopiedBytes, PublishedBlocks, ConstantTypes
<1>3. CASE y = x /\ x.life = "Completed" /\ ~ Unpublished(x)
  BY <1>1, <1>2, <1>3
<1>4. CASE ~ (y = x /\ x.life = "Completed" /\ ~ Unpublished(x))
  <2>2. PICK l \in {"Active", "Completed"} :
              /\ y = Advanced(x, l)
              /\ x.life = "Completed" => l = "Completed" /\ Unpublished(x)
              /\ l = "Completed" => \/ x.life = "Completed"
                                    \/ x.elapsed + 1 >= last_byte(x, x.bytes) + ReleaseT
    BY <1>1, <1>4, VramAdvance
  <2>3. /\ y \in VramTransfers
        /\ y.kind = x.kind /\ y.start = x.start /\ y.bytes = x.bytes /\ y.per = x.per
        /\ y.elapsed = x.elapsed + 1 /\ y.life = l
        /\ completed_bytes(y) \in {completed_bytes(x), completed_bytes(x) + 1}
    BY <1>1, <2>2, CopyStep
  <2>4. published_completed_blocks(y) \in Nat
        /\ published_completed_blocks(x) <= published_completed_blocks(y)
    BY <1>1, <2>2, <2>3, PublishedBlocks, PublishStep, ConstantTypes
  <2>5. last_byte(y, y.bytes) = last_byte(x, x.bytes)
    BY <2>3 DEF last_byte, first_byte_delay
  <2>6. x.life = "Completed" => completed_bytes(y) = completed_bytes(x)
    <3>1. completed_bytes(y) \in 0..x.bytes
      BY <2>3, CopiedBytes
    <3> QED BY <1>1, <1>2, <2>3, <3>1 DEF WholeBlocks
  <2> QED BY <1>1, <1>2, <2>2, <2>3, <2>4, <2>5, <2>6
<1> QED BY <1>3, <1>4

\* The bytes copied reach to the transfer's progress, and between two blocks
\* to the destination register.
InStep(x, v, f) ==
  /\ v.state = "GpActive" /\ x.kind = "Gdma" => f = x.start + completed_bytes(x)
  /\ v.state = "HbActive" =>
       f = IF x.kind = "Hdma" /\ published_completed_blocks(x) = 0
           THEN x.start + completed_bytes(x) ELSE v.dest * BlockBytes

LEMMA StateNext ==
  ASSUME NEW x, NEW y, vram \in VramStates
  PROVE  VramNext(x, y) = vram \/ VramNext(x, y).state \in {vram.state, "GpComplete", "Finished"}
BY DEF VramNext, VramAfter

LEMMA InStepTick ==
  ASSUME vram \in VramStates, frontier \in Int, Truthful(vram, frontier),
         NEW x, SlotOK(x, vram, frontier), InStep(x, vram, frontier),
         NEW y, y = AdvancedTransfer(x)
  PROVE  /\ InStep(y, VramNext(x, y), FrontierNext(x, y))
         /\ completed_bytes(y) > completed_bytes(x) /\ IsVram(y) =>
              y.start + completed_bytes(y) - 1 = frontier
<1> DEFINE v == VramNext(x, y)
           f == FrontierNext(x, y)
<1>1. CASE ~ IsVram(x)
  <2>1. ~ IsVram(y) /\ v = vram /\ f = frontier
    BY <1>1, OamAdvance, OamTick DEF SlotOK
  <2> QED BY <1>1, <2>1 DEF InStep, IsVram
<1>2. CASE IsVram(x)
  <2> DEFINE c == completed_bytes(x)
             d == completed_bytes(y)
             p == published_completed_blocks(x)
             q == published_completed_blocks(y)
  <2>1. /\ x \in VramTransfers /\ y \in VramTransfers /\ y.kind = x.kind /\ y.start = x.start
        /\ y.bytes = x.bytes /\ x.kind \in {"Gdma", "Hdma"} /\ IsVram(y)
        /\ c \in Nat /\ d \in {c, c + 1} /\ p \in Nat /\ q \in Nat /\ p <= q
        /\ (x.life = "Completed" => y.life = "Completed" /\ d = c)
    BY <1>2, SlotStep DEF VramTransfers, IsVram
  <2>2. /\ WholeBlocks(x) /\ Owned(x, vram) /\ Aligned(x, vram, frontier) /\ x.start \in Nat
        /\ BlockBytes \in Nat \ {0}
    BY <1>2, <2>1, ConstantTypes DEF SlotOK, VramTransfers, Transfers
  <2>3. f = IF d > c THEN y.start + d ELSE frontier
    BY <2>1 DEF FrontierNext
  <2>4. x.kind = "Hdma" => /\ p \in {0, 1} /\ q \in {0, 1}
                           /\ (p = 1 => c = x.bytes) /\ (q = 1 => d = BlockBytes)
    <3> SUFFICES ASSUME x.kind = "Hdma"
                 PROVE  /\ p \in {0, 1} /\ q \in {0, 1}
                        /\ (p = 1 => c = x.bytes) /\ (q = 1 => d = BlockBytes)
      OBVIOUS
    <3>1. x.bytes = 1 * BlockBytes /\ y.bytes = 1 * BlockBytes /\ x.bytes = BlockBytes
      BY <2>1, <2>2 DEF WholeBlocks
    <3>2. p <= 1 /\ (p = 1 => c = x.bytes)
      BY <2>1, <3>1, AllPublished
    <3>3. q <= 1 /\ (q = 1 => d = y.bytes)
      BY <2>1, <3>1, AllPublished
    <3> QED BY <2>1, <3>1, <3>2, <3>3
  <2>5. d > c => \/ vram.state = "GpActive" /\ x.kind = "Gdma"
                 \/ vram.state = "HbActive" /\ x.kind = "Hdma" /\ p = 0
    <3> SUFFICES ASSUME d > c
                 PROVE  \/ vram.state = "GpActive" /\ x.kind = "Gdma"
                        \/ vram.state = "HbActive" /\ x.kind = "Hdma" /\ p = 0
      OBVIOUS
    <3>1. x.life # "Completed"
      BY <2>1
    <3>2. p = 1 => x.kind # "Hdma"
      <4>1. d <= x.bytes
        BY <2>1, CopiedBytes
      <4> QED BY <2>1, <2>4, <4>1
    <3> QED BY <2>1, <2>2, <2>4, <3>1, <3>2 DEF Owned
  <2>6. d > c => y.start + d - 1 = frontier
    BY <2>1, <2>2, <2>5 DEF InStep
  <2>7. v.state \in {"GpActive", "HbActive"} => v.state = vram.state
    BY StateNext
  <2>8. v.state = "GpActive" /\ y.kind = "Gdma" => f = y.start + d
    BY <2>1, <2>2, <2>3, <2>7 DEF InStep
  <2>9. ASSUME v.state = "HbActive", y.kind = "Hdma", q = 0 PROVE f = y.start + d
    <3>1. p = 0 /\ vram.state = "HbActive" /\ x.kind = "Hdma"
      BY <2>1, <2>7, <2>9
    <3>2. frontier = x.start + c
      BY <3>1 DEF InStep
    <3> QED BY <2>1, <2>2, <2>3, <3>2
  <2>10. ASSUME v.state = "HbActive", ~ (y.kind = "Hdma" /\ q = 0) PROVE f = v.dest * BlockBytes
    <3>1. vram.state = "HbActive"
      BY <2>7, <2>10
    <3>2. CASE x.kind = "Hdma" /\ p = 0
      <4>1. q = 1 /\ d = BlockBytes
        BY <2>1, <2>4, <2>10, <3>2
      <4>2. frontier = x.start + c /\ vram.dest * BlockBytes = x.start
        BY <2>2, <3>1, <3>2 DEF InStep, Aligned
      <4>3. f = x.start + BlockBytes
        BY <2>1, <2>2, <2>3, <4>1, <4>2
      <4>4. NewBlocks(x, y) = 1
        BY <2>1, <3>2, <4>1 DEF NewBlocks
      <4>5. vram.remaining > 0 /\ vram.remaining \in Nat /\ vram.dest \in Nat
        BY <3>1 DEF Truthful, VramStates
      <4>6. v.dest = vram.dest + 1
        <5>1. AtMost(1, vram.remaining) = 1
          BY <4>5 DEF AtMost
        <5> QED BY <2>1, <3>1, <3>2, <4>4, <5>1 DEF VramNext, VramAfter, Publishes
      <4>7. (vram.dest + 1) * BlockBytes = vram.dest * BlockBytes + BlockBytes
        BY <2>2, <4>5
      <4> QED BY <4>2, <4>3, <4>6, <4>7
    <3>3. CASE ~ (x.kind = "Hdma" /\ p = 0)
      <4>1. ~ (d > c) /\ frontier = vram.dest * BlockBytes
        BY <2>1, <2>5, <3>1, <3>3 DEF InStep
      <4>2. ~ Publishes(y.kind, NewBlocks(x, y))
        BY <2>1, <2>4, <3>1, <3>3 DEF Publishes, NewBlocks
      <4> QED BY <2>3, <4>1, <4>2 DEF VramNext
    <3> QED BY <3>2, <3>3
  <2> HIDE DEF v, f
  <2>11. InStep(y, v, f)
    BY <2>8, <2>9, <2>10 DEF InStep
  <2> QED BY <2>6, <2>11 DEF v, f
<1> QED BY <1>1, <1>2

\* With the LCD on and no OAM burst pending.
Quiet ==
  /\ phase \in {"tick", "cpu"} /\ restart = NoRestart /\ since \in 0..7
  /\ lcd = TRUE /\ lcd_pending = 0 /\ half \in {0, 1} /\ dot \in 0..(LineDots - 1)
  /\ ly \in Nat /\ speed \in {"Normal", "Double"}

Paced(x) == IsVram(x) => x.per = IF speed = "Double" THEN 4 ELSE 2

\* The raster has not gone further than e T-cycles of a transfer take it.
Close(e) == IF speed = "Double" THEN 2 * dot + half <= e + 1 ELSE dot <= e
CloseAfter(e) == IF speed' = "Double" THEN 2 * dot' + half' <= e + 1 ELSE dot' <= e

\* An HBlank block not yet published was started in the present window, or
\* the next one is still too far for it to be late.
Behind(x) ==
  vram.state = "HbActive" /\ x.kind = "Hdma" /\ published_completed_blocks(x) = 0 =>
    /\ last_served # NoWindow
    /\ Window = last_served \/ Close(x.elapsed)

\* A general-purpose transfer not yet published: the CPU stood still, or has
\* not had the time for a write since its release.
Fresh(x) ==
  x.kind = "Gdma" /\ x.bytes # published_completed_blocks(x) * BlockBytes =>
    /\ vram.state = "GpActive"
    /\ IF x.life = "Completed"
       THEN since + (IF phase = "cpu" THEN 5 ELSE 4) <= x.elapsed - last_byte(x, x.bytes)
       ELSE since = 0

SequenceInv ==
  Quiet /\ Paced(xfer) /\ Behind(xfer) /\ Fresh(xfer) /\ InStep(xfer, vram, frontier)

\* The tail of a completed transfer is unpublished until its last block is.
LEMMA UnpublishedTail ==
  ASSUME NEW x, NEW v, NEW f, SlotOK(x, v, f), IsVram(x), x.life = "Completed"
  PROVE  /\ Unpublished(x) <=> x.bytes # published_completed_blocks(x) * BlockBytes
         /\ Unpublished(x) => x.elapsed < last_byte(x, x.bytes) + PublicationT
         /\ Unpublished(x) /\ x.kind = "Hdma" => published_completed_blocks(x) = 0
         /\ ~ Unpublished(x) /\ x.kind = "Hdma" => published_completed_blocks(x) = 1
<1> DEFINE q == published_completed_blocks(x)
           late == x.elapsed >= last_byte(x, x.bytes) + PublicationT
<1>1. x \in VramTransfers /\ WholeBlocks(x) /\ completed_bytes(x) = x.bytes
  BY DEF SlotOK, VramTransfers, WholeBlocks
<1>2. PICK k \in Nat \ {0} : x.bytes = k * BlockBytes
  BY <1>1 DEF WholeBlocks
<1>3. q = IF late THEN k ELSE k - 1
  BY <1>1, <1>2, AllPublished
<1>4. completed_bytes(x) \div BlockBytes = k
  BY <1>1, <1>2, QuotientOfProduct, ConstantTypes
<1>5. Unpublished(x) <=> k > q
  BY <1>4 DEF Unpublished, has_unpublished_completed_blocks
<1>6. last_byte(x, x.bytes) + PublicationT \in Int /\ x.elapsed \in Int
  <2>1. x.bytes \in Nat /\ x.elapsed \in Nat /\ x.per \in {2, 4}
    BY <1>1 DEF VramTransfers, Transfers
  <2> QED BY <2>1 DEF last_byte, first_byte_delay, OamFirstByte, PublicationT
<1>7. x.kind = "Hdma" => k = 1
  <2> SUFFICES ASSUME x.kind = "Hdma" PROVE k = 1
    OBVIOUS
  <2>1. 1 * BlockBytes = k * BlockBytes /\ BlockBytes \in Nat \ {0}
    BY <1>1, <1>2, ConstantTypes DEF WholeBlocks
  <2> QED BY <2>1, ProductCancel
<1> HIDE DEF q
<1>8. ~ late <=> k > q
  BY <1>3
<1>9. k > q => x.bytes # q * BlockBytes
  <2> SUFFICES ASSUME k > q, x.bytes = q * BlockBytes PROVE FALSE
    OBVIOUS
  <2>1. k * BlockBytes <= q * BlockBytes /\ q \in Int
    BY <1>2, <1>3, ConstantTypes
  <2>2. k <= q
    BY <2>1, ProductCancel, ConstantTypes
  <2> QED BY <2>1, <2>2
<1>10. ~ (k > q) => x.bytes = q * BlockBytes
  BY <1>2, <1>3, <1>8
<1>11. x.kind = "Hdma" => (k > q => q = 0) /\ (~ (k > q) => q = 1)
  BY <1>3, <1>7
<1>12. k > q => x.elapsed < last_byte(x, x.bytes) + PublicationT
  BY <1>6, <1>8
<1> QED BY <1>5, <1>9, <1>10, <1>11, <1>12 DEF q

\* No window opens while a block waits to be published.
LEMMA BlockGoesFirst ==
  ASSUME Quiet, SlotOK(xfer, vram, frontier), Paced(xfer), Behind(xfer), hblank_block_eligible
  PROVE  ~ (xfer.kind = "Hdma" /\ published_completed_blocks(xfer) = 0)
<1> SUFFICES ASSUME xfer.kind = "Hdma", published_completed_blocks(xfer) = 0 PROVE FALSE
  OBVIOUS
<1>1. /\ ~ InFlight(xfer) /\ vram.state = "HbActive" /\ Window # NoWindow /\ Window # last_served
  BY DEF hblank_block_eligible
<1>2. /\ IsVram(xfer) /\ xfer \in Transfers /\ xfer.life = "Completed" /\ xfer.bytes = BlockBytes
  BY <1>1 DEF SlotOK, WholeBlocks, IsVram, InFlight, Transfers
<1>3. xfer.elapsed < last_byte(xfer, xfer.bytes) + PublicationT
  BY <1>2, UnpublishedTail
<1>4. Close(xfer.elapsed)
  BY <1>1 DEF Behind
<1>5. dot > HBlankDot + 2
  BY <1>1 DEF Window, hblank_window, Quiet
<1>6. /\ xfer.elapsed \in Nat /\ BlockBytes \in Nat /\ HBlankDot \in Nat /\ dot \in Nat /\ half \in {0, 1}
      /\ 2 * BlockBytes + 12 <= HBlankDot + 3 /\ 2 * BlockBytes >= 12
  BY <1>2, DmaAssumption DEF Transfers, Quiet, PublicationT
<1>7. CASE speed = "Double"
  <2>1. xfer.per = 4
    BY <1>2, <1>7 DEF Paced
  <2>2. last_byte(xfer, xfer.bytes) = 4 + (BlockBytes - 1) * 4
    BY <1>2, <2>1 DEF last_byte, first_byte_delay
  <2>3. 2 * dot + half <= xfer.elapsed + 1
    BY <1>4, <1>7 DEF Close
  <2> QED BY <1>3, <1>5, <1>6, <2>2, <2>3 DEF PublicationT
<1>8. CASE speed # "Double"
  <2>1. xfer.per = 2
    BY <1>2, <1>8 DEF Paced
  <2>2. last_byte(xfer, xfer.bytes) = 2 + (BlockBytes - 1) * 2
    BY <1>2, <2>1 DEF last_byte, first_byte_delay
  <2>3. dot <= xfer.elapsed
    BY <1>4, <1>8 DEF Close
  <2> QED BY <1>3, <1>5, <1>6, <2>2, <2>3 DEF PublicationT
<1> QED BY <1>7, <1>8

\* A dot leaves the window as it is, or the raster is at the start of a line.
LEMMA RasterStep ==
  ASSUME Quiet, PpuTick, UNCHANGED speed
  PROVE  /\ lcd' = TRUE /\ lcd_pending' = 0 /\ half' \in {0, 1} /\ dot' \in 0..(LineDots - 1)
         /\ ly' \in Nat
         /\ \A W, e : e \in Nat /\ W # NoWindow /\ (Window = W \/ Close(e))
                        => Window' = W \/ CloseAfter(e + 1)
<1>1. /\ lcd = TRUE /\ lcd_pending = 0 /\ half \in {0, 1} /\ dot \in 0..(LineDots - 1)
      /\ ly \in Nat /\ speed \in {"Normal", "Double"}
      /\ LineDots \in Nat \ {0} /\ Lines \in Nat \ {0} /\ HBlankDot \in Nat
  BY DmaAssumption DEF Quiet
<1>2. /\ half' = (IF speed = "Double" THEN 1 - half ELSE 0) /\ lcd_pending' = 0 /\ lcd' = TRUE
      /\ IF half' = 0 THEN /\ dot' = (dot + 1) % LineDots
                           /\ ly' = IF dot + 1 = LineDots THEN (ly + 1) % Lines ELSE ly
                      ELSE UNCHANGED <<ly, dot>>
  <2>1. lcd' = TRUE
    BY <1>1, Zenon DEF PpuTick
  <2>2. half' = (IF speed = "Double" THEN 1 - half ELSE 0) /\ lcd_pending' = 0
    BY <1>1 DEF PpuTick
  <2>3. IF half' = 0 THEN /\ dot' = (dot + 1) % LineDots
                          /\ ly' = IF dot + 1 = LineDots THEN (ly + 1) % Lines ELSE ly
                     ELSE UNCHANGED <<ly, dot>>
    BY <2>1 DEF PpuTick
  <2> QED BY <2>1, <2>2, <2>3
<1>3. half' \in {0, 1} /\ (half' = 0 => half = 1 \/ speed # "Double")
      /\ (half' = 1 => half = 0 /\ speed = "Double")
  BY <1>1, <1>2
<1>4. CASE half' = 1
  <2>1. UNCHANGED <<lcd, ly, dot>>
    BY <1>1, <1>2, <1>4
  <2>2. Window' = Window
    BY <2>1 DEF Window
  <2>3. \A e \in Nat : Close(e) => CloseAfter(e + 1)
    BY <1>1, <1>3, <1>4, <2>1 DEF Close, CloseAfter
  <2> QED BY <1>1, <1>2, <1>3, <2>1, <2>2, <2>3
<1>5. CASE half' = 0 /\ dot + 1 = LineDots
  <2>1. dot' = 0 /\ ly' \in Nat
    BY <1>1, <1>2, <1>5
  <2>2. \A e \in Nat : CloseAfter(e + 1)
    BY <1>5, <2>1 DEF Close, CloseAfter
  <2> QED BY <1>1, <1>2, <1>5, <2>1, <2>2
<1>6. CASE half' = 0 /\ dot + 1 # LineDots
  <2>1. dot' = dot + 1 /\ ly' = ly /\ dot' \in 0..(LineDots - 1)
    BY <1>1, <1>2, <1>6
  <2>2. \A W : W # NoWindow /\ Window = W => Window' = W
    BY <1>1, <1>2, <2>1 DEF Window, hblank_window
  <2>3. \A e \in Nat : Close(e) => CloseAfter(e + 1)
    BY <1>1, <1>3, <1>6, <2>1 DEF Close, CloseAfter
  <2> QED BY <1>1, <1>2, <1>6, <2>1, <2>2, <2>3
<1> QED BY <1>3, <1>4, <1>5, <1>6

\* The slot after a tick in which no OAM burst takes over.
LEMMA QuietTick ==
  ASSUME restart = NoRestart, DmaTick
  PROVE  LET x == IF hblank_block_eligible THEN VramTransfer("Hdma", vram.dest, 1) ELSE xfer
             y == AdvancedTransfer(x)
             copies == completed_bytes(y) > completed_bytes(x)
         IN  /\ xfer' = y /\ restart' = NoRestart
             /\ last_served' = IF hblank_block_eligible THEN Window ELSE last_served
             /\ vram' = VramNext(x, y)
             /\ copies /\ IsVram(y) => /\ work' = y.start + completed_bytes(y) - 1
                                       /\ frontier' = (y.start + completed_bytes(y) - 1) + 1
             /\ ~ copies => work' = NoWork
             /\ ~ (copies /\ IsVram(y)) => frontier' = frontier
<1> DEFINE x == IF hblank_block_eligible THEN VramTransfer("Hdma", vram.dest, 1) ELSE xfer
           y == AdvancedTransfer(x)
           copies == completed_bytes(y) > completed_bytes(x)
<1>1. /\ last_served' = (IF hblank_block_eligible THEN Window ELSE last_served)
      /\ restart' = NoRestart /\ xfer' = y
      /\ work' = (IF copies THEN IF IsVram(y) THEN y.start + completed_bytes(y) - 1
                                 ELSE completed_bytes(y) - 1 ELSE NoWork)
      /\ frontier' = (IF copies /\ IsVram(y) THEN (IF IsVram(y) THEN y.start + completed_bytes(y) - 1
                                                   ELSE completed_bytes(y) - 1) + 1 ELSE frontier)
      /\ \/ Publishes(y.kind, NewBlocks(x, y)) /\ Publish(y.kind, NewBlocks(x, y))
         \/ ~ Publishes(y.kind, NewBlocks(x, y)) /\ UNCHANGED <<vram, dest>>
  BY DEF DmaTick, NewBlocks
<1> HIDE DEF x, y, copies
<1>2. vram' = VramNext(x, y)
  BY <1>1 DEF VramNext, Publish
<1> QED BY <1>1, <1>2 DEF x, y, copies

\* The slot before the tick, the block that it may start included.
LEMMA BeforeTick ==
  ASSUME DmaInv, SequenceInv
  PROVE  LET x == IF hblank_block_eligible THEN VramTransfer("Hdma", vram.dest, 1) ELSE xfer
         IN  SlotOK(x, vram, frontier) /\ Paced(x) /\ InStep(x, vram, frontier)
<1> DEFINE x == VramTransfer("Hdma", vram.dest, 1)
<1>1. /\ vram \in VramStates /\ SlotOK(xfer, vram, frontier) /\ Quiet /\ Paced(xfer)
      /\ Behind(xfer) /\ InStep(xfer, vram, frontier)
  BY DEF DmaInv, SequenceInv
<1>2. CASE ~ hblank_block_eligible
  BY <1>1, <1>2
<1>3. CASE hblank_block_eligible
  <2>1. vram.state = "HbActive" /\ vram.dest \in Nat
    BY <1>1, <1>3 DEF hblank_block_eligible, VramStates
  <2>2. ~ (xfer.kind = "Hdma" /\ published_completed_blocks(xfer) = 0)
    BY <1>1, <1>3, BlockGoesFirst
  <2>3. frontier = vram.dest * BlockBytes
    BY <1>1, <2>1, <2>2 DEF InStep
  <2>4. SlotOK(x, vram, frontier)
    BY <1>1, <2>1, NewHdmaOK
  <2>5. /\ x.kind = "Hdma" /\ x.start = vram.dest * BlockBytes
        /\ completed_bytes(x) = 0 /\ published_completed_blocks(x) = 0
    BY <2>1, NewTransfer
  <2>6. Paced(x)
    BY DEF Paced, VramTransfer
  <2>7. vram.dest * BlockBytes \in Nat
    BY <2>1, ConstantTypes
  <2> HIDE DEF x
  <2>8. InStep(x, vram, frontier)
    BY <2>1, <2>3, <2>5, <2>7 DEF InStep
  <2> QED BY <1>3, <2>4, <2>6, <2>8 DEF x
<1> QED BY <1>2, <1>3

LEMMA SequenceTick ==
  ASSUME DmaInv, SequenceInv, phase = "tick", phase' = "cpu", PpuTick, DmaTick,
         UNCHANGED <<speed, since>>
  PROVE  SequenceInv'
<1> DEFINE x == IF hblank_block_eligible THEN VramTransfer("Hdma", vram.dest, 1) ELSE xfer
           y == AdvancedTransfer(x)
           p == published_completed_blocks(x)
           q == published_completed_blocks(y)
<1>1. /\ vram \in VramStates /\ frontier \in Int /\ Truthful(vram, frontier)
      /\ Quiet /\ Behind(xfer) /\ Fresh(xfer) /\ restart = NoRestart
  BY DEF DmaInv, SequenceInv, Quiet
<1>2. SlotOK(x, vram, frontier) /\ Paced(x) /\ InStep(x, vram, frontier)
  BY BeforeTick
<1>3. /\ xfer' = y /\ restart' = NoRestart
      /\ last_served' = (IF hblank_block_eligible THEN Window ELSE last_served)
      /\ vram' = VramNext(x, y)
  BY <1>1, QuietTick
<1>4. frontier' = FrontierNext(x, y)
  <2> DEFINE copies == completed_bytes(y) > completed_bytes(x)
  <2>1. /\ copies /\ IsVram(y) => frontier' = (y.start + completed_bytes(y) - 1) + 1
        /\ ~ (copies /\ IsVram(y)) => frontier' = frontier
    BY <1>1, QuietTick
  <2>2. SlotOK(y, VramNext(x, y), FrontierNext(x, y))
    BY <1>1, <1>2, TickOK
  <2> HIDE DEF x, y
  <2>3. IsVram(y) => y.start \in Nat /\ completed_bytes(y) \in Nat
    BY <2>2, CopiedBytes DEF SlotOK, VramTransfers, Transfers
  <2> QED BY <2>1, <2>3 DEF FrontierNext
<1>5. InStep(xfer', vram', frontier')
  BY <1>1, <1>2, <1>3, <1>4, InStepTick
<1>6. vram.state = "GpActive" /\ y.kind = "Gdma" /\ vram'.state # "GpActive" => y.bytes = q * BlockBytes
  BY <1>1, <1>2, <1>3, TickOK
<1>7. /\ lcd' = TRUE /\ lcd_pending' = 0 /\ half' \in {0, 1} /\ dot' \in 0..(LineDots - 1)
      /\ ly' \in Nat
      /\ \A W, e : e \in Nat /\ W # NoWindow /\ (Window = W \/ Close(e))
                        => Window' = W \/ CloseAfter(e + 1)
  BY <1>1, RasterStep
<1>8. Quiet'
  BY <1>1, <1>3, <1>7 DEF Quiet
<1>9. CASE ~ IsVram(x)
  <2>1. ~ IsVram(y)
    BY <1>2, <1>9, OamAdvance DEF SlotOK
  <2>2. Paced(xfer)' /\ Behind(xfer)' /\ Fresh(xfer)'
    BY <1>3, <2>1 DEF Paced, Behind, Fresh, IsVram
  <2> QED BY <1>5, <1>8, <2>2 DEF SequenceInv
<1>10. CASE IsVram(x)
  <2>1. /\ x \in VramTransfers /\ y \in VramTransfers /\ y.kind = x.kind
        /\ y.bytes = x.bytes /\ y.per = x.per /\ last_byte(y, y.bytes) = last_byte(x, x.bytes)
        /\ last_byte(x, x.bytes) \in Int /\ x.elapsed \in Nat
        /\ p \in Nat /\ q \in Nat /\ p <= q
        /\ (x.life = "Completed" => y.life = "Completed")
        /\ \/ y = x /\ x.life = "Completed" /\ ~ Unpublished(x)
           \/ y.elapsed = x.elapsed + 1
        /\ (y.life = "Completed" /\ x.life # "Completed" =>
              y.elapsed >= last_byte(y, y.bytes) + ReleaseT)
    BY <1>2, <1>10, SlotStep
  <2>2. vram'.state \in {"GpActive", "HbActive"} => vram'.state = vram.state
    BY <1>1, <1>3, StateNext
  <2>3. y = x => ~ Unpublished(x) /\ x.life = "Completed"
    <3>1. y = x => y.elapsed # x.elapsed + 1
      BY <2>1
    <3> QED BY <2>1, <3>1
  <2>4. hblank_block_eligible => vram.state = "HbActive" /\ x.kind = "Hdma" /\ x.elapsed = 0
                                 /\ Window # NoWindow
    <3>1. hblank_block_eligible => x = VramTransfer("Hdma", vram.dest, 1)
      OBVIOUS
    <3> QED BY <3>1 DEF hblank_block_eligible, VramTransfer
  <2>5. ~ hblank_block_eligible => x = xfer
    OBVIOUS
  <2>6. y = x => (x.bytes = p * BlockBytes) /\ (x.kind = "Hdma" => p = 1)
    BY <1>2, <1>10, <2>3, UnpublishedTail
  <2> HIDE DEF x, y
  <2>7. Paced(xfer)'
    BY <1>2, <1>3, <1>10, <2>1 DEF Paced
  <2>8. Behind(xfer)'
    <3> SUFFICES ASSUME vram'.state = "HbActive", y.kind = "Hdma", q = 0
                 PROVE  last_served' # NoWindow /\ (Window' = last_served' \/ CloseAfter(y.elapsed))
      BY <1>3 DEF Behind, Close, CloseAfter
    <3>1. p = 0 /\ vram.state = "HbActive" /\ x.kind = "Hdma" /\ y.elapsed = x.elapsed + 1
      BY <2>1, <2>2, <2>6
    <3>2. last_served' # NoWindow /\ (Window = last_served' \/ Close(x.elapsed))
      <4>1. CASE hblank_block_eligible
        BY <1>3, <2>4, <4>1
      <4>2. CASE ~ hblank_block_eligible
        BY <1>1, <1>3, <2>5, <3>1, <4>2 DEF Behind
      <4> QED BY <4>1, <4>2
    <3>3. Window' = last_served' \/ CloseAfter(x.elapsed + 1)
      BY <1>7, <2>1, <3>2
    <3> QED BY <1>3, <3>1, <3>2, <3>3
  <2>9. Fresh(xfer)'
    <3> SUFFICES ASSUME y.kind = "Gdma", y.bytes # q * BlockBytes
                 PROVE  /\ vram'.state = "GpActive"
                        /\ IF y.life = "Completed"
                           THEN since + 5 <= y.elapsed - last_byte(y, y.bytes)
                           ELSE since = 0
      BY <1>3 DEF Fresh
    <3>1. x = xfer /\ x.kind = "Gdma"
      BY <2>1, <2>4, <2>5
    <3>2. x.bytes # p * BlockBytes
      <4>1. PICK k \in Nat \ {0} : x.bytes = k * BlockBytes
        BY <1>2, <1>10 DEF SlotOK, WholeBlocks
      <4>2. q <= k
        BY <2>1, <4>1, AllPublished
      <4> SUFFICES ASSUME x.bytes = p * BlockBytes PROVE FALSE
        OBVIOUS
      <4>3. k * BlockBytes <= p * BlockBytes
        BY <4>1, ConstantTypes
      <4>4. k <= p
        BY <2>1, <4>3, ProductCancel, ConstantTypes
      <4>5. q = p
        BY <2>1, <4>2, <4>4
      <4> QED BY <2>1, <4>5
    <3>3. /\ vram.state = "GpActive"
          /\ IF x.life = "Completed" THEN since + 4 <= x.elapsed - last_byte(x, x.bytes)
             ELSE since = 0
      BY <1>1, <3>1, <3>2 DEF Fresh
    <3>4. y.elapsed = x.elapsed + 1
      BY <2>1, <2>6, <3>2
    <3>5. since \in Nat
      BY <1>1 DEF Quiet
    <3>6. CASE x.life = "Completed"
      BY <1>6, <2>1, <3>3, <3>4, <3>5, <3>6
    <3>7. CASE x.life # "Completed"
      BY <1>6, <2>1, <3>3, <3>4, <3>5, <3>7 DEF ReleaseT
    <3> QED BY <3>6, <3>7
  <2> QED BY <1>5, <1>8, <2>7, <2>8, <2>9 DEF SequenceInv
<1> QED BY <1>9, <1>10

LEMMA CpuNotStalled ==
  ASSUME DmaInv, ~ cpu_stall_active, IsVram(xfer)
  PROVE  xfer.life = "Completed" /\ WholeBlocks(xfer) /\ xfer \in VramTransfers
<1>1. xfer \in VramTransfers /\ WholeBlocks(xfer)
  BY DEF DmaInv, SlotOK, VramTransfers
<1>2. restriction_delay(xfer) = 0 /\ xfer.elapsed \in Nat
  BY <1>1 DEF restriction_delay, IsVram, VramTransfers, Transfers
<1> QED BY <1>1, <1>2 DEF cpu_stall_active, InFlight, WholeBlocks, VramTransfers, Transfers

\* Two writes are WriteT T-cycles apart: none finds a general-purpose transfer
\* completed and not yet published.
LEMMA PublishedBeforeWrite ==
  ASSUME DmaInv, SequenceInv, phase = "cpu", ~ cpu_stall_active, since >= WriteT - 1,
         xfer.kind = "Gdma"
  PROVE  xfer.bytes = published_completed_blocks(xfer) * BlockBytes
<1> SUFFICES ASSUME xfer.bytes # published_completed_blocks(xfer) * BlockBytes PROVE FALSE
  OBVIOUS
<1>1. IsVram(xfer) /\ SlotOK(xfer, vram, frontier)
  BY DEF IsVram, DmaInv
<1>2. xfer.life = "Completed" /\ xfer \in VramTransfers
  BY <1>1, CpuNotStalled
<1>3. since + 5 <= xfer.elapsed - last_byte(xfer, xfer.bytes) /\ since \in Nat
  BY <1>2 DEF SequenceInv, Fresh, Quiet
<1>4. xfer.elapsed < last_byte(xfer, xfer.bytes) + PublicationT
  BY <1>1, <1>2, UnpublishedTail
<1>5. last_byte(xfer, xfer.bytes) \in Int /\ xfer.elapsed \in Nat
  <2>1. xfer.bytes \in Nat /\ xfer.elapsed \in Nat /\ xfer.per \in {2, 4}
    BY <1>2 DEF VramTransfers, Transfers
  <2> QED BY <2>1 DEF last_byte, first_byte_delay, OamFirstByte
<1> QED BY <1>3, <1>4, <1>5 DEF WriteT, PublicationT

\* A step of the CPU that leaves slot, VRAM transfer and raster alone.
LEMMA SequenceCpu ==
  ASSUME DmaInv, SequenceInv, phase = "cpu", phase' = "tick", ~ cpu_stall_active,
         UNCHANGED <<xfer, restart, vram, last_served, lcd, lcd_pending, ly, dot, half, speed,
                     frontier>>,
         since' \in {0, since, since + 1}, since' \in 0..7
  PROVE  SequenceInv'
<1>1. Quiet /\ Paced(xfer) /\ Behind(xfer) /\ Fresh(xfer) /\ InStep(xfer, vram, frontier)
  BY DEF SequenceInv
<1>2. Quiet'
  BY <1>1 DEF Quiet
<1>3. Paced(xfer)' /\ Behind(xfer)' /\ InStep(xfer, vram, frontier)'
  <2>1. Window' = Window
    BY DEF Window
  <2> QED BY <1>1, <2>1 DEF Paced, Behind, InStep, Close
<1>4. Fresh(xfer)'
  <2> SUFFICES ASSUME xfer.kind = "Gdma", xfer.bytes # published_completed_blocks(xfer) * BlockBytes
               PROVE  /\ vram.state = "GpActive"
                      /\ IF xfer.life = "Completed"
                         THEN since' + 4 <= xfer.elapsed - last_byte(xfer, xfer.bytes)
                         ELSE since' = 0
    BY DEF Fresh
  <2>1. xfer.life = "Completed" /\ xfer \in VramTransfers
    BY CpuNotStalled DEF IsVram
  <2>2. /\ vram.state = "GpActive" /\ since \in Nat
        /\ since + 5 <= xfer.elapsed - last_byte(xfer, xfer.bytes)
    BY <1>1, <2>1 DEF Fresh, Quiet
  <2>3. last_byte(xfer, xfer.bytes) \in Int /\ xfer.elapsed \in Nat
    <3>1. xfer.bytes \in Nat /\ xfer.elapsed \in Nat /\ xfer.per \in {2, 4}
      BY <2>1 DEF VramTransfers, Transfers
    <3> QED BY <3>1 DEF last_byte, first_byte_delay, OamFirstByte
  <2> QED BY <2>1, <2>2, <2>3
<1> QED BY <1>2, <1>3, <1>4 DEF SequenceInv

LEMMA SequenceNext ==
  ASSUME VramProgram, DmaInv, SequenceInv, Next
  PROVE  SequenceInv'
<1>0. /\ Quiet /\ Paced(xfer) /\ Behind(xfer) /\ Fresh(xfer) /\ InStep(xfer, vram, frontier)
      /\ since \in 0..7
  BY DEF SequenceInv, Quiet
<1>1. CASE Tick /\ requires_t_cycle_tick
  BY <1>1, SequenceTick DEF Tick
<1>2. CASE Tick /\ ~ requires_t_cycle_tick
  <2>1. /\ PpuTick /\ phase' = "cpu" /\ UNCHANGED <<xfer, restart, vram, speed, since, frontier>>
        /\ vram.state \notin {"GpActive", "HbActive"}
    BY <1>2 DEF Tick, dmaVars, requires_t_cycle_tick
  <2>2. Quiet'
    BY <1>0, <2>1, RasterStep DEF Quiet
  <2>3. Paced(xfer)' /\ Behind(xfer)' /\ Fresh(xfer)' /\ InStep(xfer, vram, frontier)'
    BY <1>0, <2>1 DEF Paced, Behind, Fresh, InStep
  <2> QED BY <2>2, <2>3 DEF SequenceInv
<1>3. CASE CpuStalled
  <2>1. /\ UNCHANGED <<xfer, restart, vram, last_served, lcd, lcd_pending, ly, dot, half, speed,
                       frontier, since>>
        /\ phase' = "tick" /\ InFlight(xfer)
    BY <1>3 DEF CpuStalled, CpuPhase, dmaVars, ppuVars, cpu_stall_active
  <2>2. Quiet' /\ Paced(xfer)' /\ Behind(xfer)' /\ InStep(xfer, vram, frontier)'
    <3>1. Window' = Window
      BY <2>1 DEF Window
    <3> QED BY <1>0, <2>1, <3>1 DEF Quiet, Paced, Behind, InStep, Close
  <2>3. Fresh(xfer)'
    <3>1. xfer.life # "Completed"
      BY <2>1 DEF InFlight
    <3> QED BY <1>0, <2>1, <3>1 DEF Fresh
  <2> QED BY <2>2, <2>3 DEF SequenceInv
<1>4. CASE CpuNoWrite \/ CpuHalt \/ CpuWake \/ (\E block \in 0..VramBlocks - 1 : WriteHdma4(block))
           \/ IgnoredHdma5
  <2>1. /\ UNCHANGED <<xfer, restart, vram, last_served, lcd, lcd_pending, ly, dot, half, speed,
                       frontier>>
        /\ phase = "cpu" /\ phase' = "tick" /\ ~ cpu_stall_active
    BY <1>4 DEF CpuNoWrite, CpuHalt, CpuWake, WriteHdma4, IgnoredHdma5, CpuRuns, CpuPhase, Write,
                CpuMay, dmaVars, ppuVars
  <2>2. since' \in {0, since, since + 1} /\ since' \in 0..7
    <3>1. CASE CpuNoWrite
      BY <1>0, <3>1 DEF CpuNoWrite, AtMost, WriteT
    <3>2. CASE ~ CpuNoWrite
      <4>1. since' \in {0, since}
        BY <1>4, <3>2 DEF CpuHalt, CpuWake, WriteHdma4, IgnoredHdma5, Write
      <4> QED BY <1>0, <4>1
    <3> QED BY <3>1, <3>2
  <2> QED BY <2>1, <2>2, SequenceCpu
<1>5. CASE CancelHdma
  <2>1. /\ vram.state = "HbActive" /\ vram' = [vram EXCEPT !.state = "Cancelled"]
        /\ xfer' = (IF xfer.life # "Idle" /\ xfer.kind = "Hdma" THEN Idle ELSE xfer)
        /\ phase' = "tick" /\ since' = 0
        /\ UNCHANGED <<restart, lcd, lcd_pending, ly, dot, half, speed>>
    BY <1>5 DEF CancelHdma, Write, CpuPhase, ppuVars
  <2>2. vram'.state = "Cancelled"
    BY <2>1 DEF DmaInv, VramStates
  <2>3. xfer' = xfer \/ xfer'.kind = "Oam"
    BY <2>1 DEF Idle
  <2>4. Quiet' /\ Paced(xfer)' /\ Behind(xfer)' /\ InStep(xfer, vram, frontier)'
    BY <1>0, <2>1, <2>2, <2>3 DEF Quiet, Paced, Behind, InStep, IsVram
  <2>5. Fresh(xfer)'
    BY <1>0, <2>1, <2>3 DEF Fresh
  <2> QED BY <2>4, <2>5 DEF SequenceInv
<1>6. CASE \E blocks \in Blocks : StartGdma(blocks)
  <2>1. PICK blocks \in Blocks : StartGdma(blocks)
    BY <1>6
  <2>2. /\ vram' = [state |-> "GpActive", dest |-> dest, remaining |-> Clipped(blocks)]
        /\ xfer' = VramTransfer("Gdma", dest, Clipped(blocks)) /\ restart' = NoRestart
        /\ frontier' = dest * BlockBytes /\ phase' = "tick" /\ since' = 0
        /\ UNCHANGED <<lcd, lcd_pending, ly, dot, half, speed>>
    BY <2>1 DEF StartGdma, StartVram, Write, CpuPhase, ppuVars
  <2>3. Clipped(blocks) \in Nat \ {0} /\ dest \in Nat
    <3>1. blocks \in Nat \ {0} /\ dest \in 0..(VramBlocks - 1) /\ VramBlocks \in Nat
      BY DmaAssumption DEF DmaInv
    <3> QED BY <3>1 DEF Clipped, AtMost
  <2>4. /\ xfer'.kind = "Gdma" /\ xfer'.life = "Starting" /\ xfer'.start = dest * BlockBytes
        /\ completed_bytes(xfer') = 0
    BY <2>2, <2>3, NewTransfer
  <2>5. xfer'.per = IF speed = "Double" THEN 4 ELSE 2
    BY <2>2 DEF VramTransfer
  <2>6. vram'.state = "GpActive" /\ dest * BlockBytes \in Nat
    BY <2>2, <2>3, ConstantTypes
  <2>7. Quiet' /\ Paced(xfer)' /\ Behind(xfer)' /\ Fresh(xfer)'
    BY <1>0, <2>2, <2>4, <2>5, <2>6 DEF Quiet, Paced, Behind, Fresh
  <2>8. InStep(xfer, vram, frontier)'
    BY <2>2, <2>4, <2>6 DEF InStep
  <2> QED BY <2>7, <2>8 DEF SequenceInv
<1>7. CASE \E blocks \in Blocks : StartHdma(blocks)
  <2>1. PICK blocks \in Blocks : StartHdma(blocks)
    BY <1>7
  <2>2. /\ vram' = [state |-> "HbActive", dest |-> dest, remaining |-> Clipped(blocks)]
        /\ vram.state # "HbActive" /\ frontier' = dest * BlockBytes
        /\ phase = "cpu" /\ phase' = "tick" /\ since >= WriteT - 1 /\ since' = 0
        /\ UNCHANGED <<xfer, restart, lcd, lcd_pending, ly, dot, half, speed>>
        /\ ~ cpu_stall_active
    BY <2>1 DEF StartHdma, StartVram, Write, CpuMay, CpuPhase, ppuVars
  <2>3. vram'.state = "HbActive" /\ vram'.dest = dest
    BY <2>2
  <2>4. xfer.kind = "Gdma" => xfer.bytes = published_completed_blocks(xfer) * BlockBytes
    BY <2>2, PublishedBeforeWrite
  <2>5. xfer.kind = "Hdma" => published_completed_blocks(xfer) = 1
    BY <2>2 DEF DmaInv, SlotOK, Owned, IsVram
  <2>6. Quiet' /\ Paced(xfer)' /\ Behind(xfer)' /\ Fresh(xfer)'
    BY <1>0, <2>2, <2>4, <2>5 DEF Quiet, Paced, Behind, Fresh
  <2>7. InStep(xfer, vram, frontier)'
    BY <2>2, <2>3, <2>5 DEF InStep
  <2> QED BY <2>6, <2>7 DEF SequenceInv
<1>8. ~ (\E page \in Pages : WriteFf46(page)) /\ ~ DisableLcd /\ ~ EnableLcd
  BY DEF VramProgram, WriteFf46, DisableLcd, EnableLcd, Write, CpuMay
<1>9. Next => \/ Tick \/ CpuStalled \/ CancelHdma \/ DisableLcd \/ EnableLcd
              \/ (CpuNoWrite \/ CpuHalt \/ CpuWake \/ (\E block \in 0..VramBlocks - 1 : WriteHdma4(block))
                  \/ IgnoredHdma5)
              \/ (\E page \in Pages : WriteFf46(page))
              \/ (\E blocks \in Blocks : StartGdma(blocks)) \/ (\E blocks \in Blocks : StartHdma(blocks))
  BY Zenon DEF Next
<1> QED BY <1>1, <1>2, <1>3, <1>4, <1>5, <1>6, <1>7, <1>8, <1>9

LEMMA SequenceInit == Init => SequenceInv
<1> SUFFICES ASSUME Init PROVE SequenceInv
  OBVIOUS
<1>1. Quiet
  <2>1. LineDots \in Nat /\ LineDots > 0
    BY DmaAssumption
  <2>2. speed \in {"Normal", "Double"} /\ dot \in 0..(LineDots - 1)
    BY <2>1, DmaAssumption DEF Init
  <2> QED BY <2>2 DEF Init, Quiet, WriteT
<1>2. xfer.kind = "Oam" /\ vram.state = "Finished"
  BY DEF Init, Idle
<1> QED BY <1>1, <1>2 DEF SequenceInv, Paced, Behind, Fresh, InStep, IsVram

(* The inductive form of BytesInSequence and CompletedBlockIsPublished, for  *)
(* programs that leave FF46 and LCDC alone: a block waiting to be published  *)
(* is published before the raster opens the next window and before the CPU   *)
(* can start another transfer.                                               *)
THEOREM SequenceInvariant == VramProgram /\ Spec => []SequenceInv
<1>1. VramProgram /\ DmaInv /\ SequenceInv /\ [Next]_vars => SequenceInv'
  <2>1. CASE UNCHANGED vars
    BY <2>1 DEF vars, dmaVars, ppuVars, SequenceInv, Quiet, Paced, Behind, Fresh, InStep, Close,
                Window
  <2> QED BY <2>1, SequenceNext
<1>2. VramProgram => VramProgram'
  BY DEF VramProgram
<1> QED BY <1>1, <1>2, SequenceInit, DmaInvariant, PTL DEF Spec

(* Every byte of a VRAM transfer is copied once and in order.                *)
THEOREM BytesAlwaysInSequence == VramProgram /\ Spec => BytesInSequence
<1>1. DmaInv /\ SequenceInv /\ [Next]_vars =>
        [work' # NoWork /\ IsVram(xfer') => work' = frontier]_vars
  <2> SUFFICES ASSUME DmaInv, SequenceInv, Next, work' # NoWork, IsVram(xfer')
               PROVE  work' = frontier
    OBVIOUS
  <2> DEFINE x == IF hblank_block_eligible THEN VramTransfer("Hdma", vram.dest, 1) ELSE xfer
             y == AdvancedTransfer(x)
  <2>1. DmaTick
    BY DEF Next, Tick, CpuStalled, CpuNoWrite, CpuHalt, CpuWake, CancelHdma, IgnoredHdma5,
           DisableLcd, EnableLcd, WriteFf46, WriteHdma4, StartGdma, StartHdma, StartVram, Write,
           CpuRuns, CpuPhase
  <2>2. restart = NoRestart /\ vram \in VramStates /\ frontier \in Int /\ Truthful(vram, frontier)
    BY DEF SequenceInv, Quiet, DmaInv
  <2>3. SlotOK(x, vram, frontier) /\ InStep(x, vram, frontier)
    BY BeforeTick
  <2>4. /\ xfer' = y
        /\ (completed_bytes(y) > completed_bytes(x) /\ IsVram(y) =>
              work' = y.start + completed_bytes(y) - 1)
        /\ (~ (completed_bytes(y) > completed_bytes(x)) => work' = NoWork)
    BY <2>1, <2>2, QuietTick
  <2>5. completed_bytes(y) > completed_bytes(x) /\ IsVram(y) =>
              y.start + completed_bytes(y) - 1 = frontier
    BY <2>2, <2>3, InStepTick
  <2> HIDE DEF x, y
  <2> QED BY <2>4, <2>5
<1> QED BY <1>1, SequenceInvariant, DmaInvariant, PTL DEF Spec, BytesInSequence

(* A block whose last byte was copied stays in the slot until it is          *)
(* published, unless the program cancels the transfer.                       *)
THEOREM CompletedBlockAlwaysPublished == VramProgram /\ Spec => CompletedBlockIsPublished
<1> DEFINE Kept == \/ xfer'.kind = xfer.kind /\ xfer'.start = xfer.start /\ xfer'.elapsed >= xfer.elapsed
                   \/ vram'.state = "Cancelled"
<1>1. VramProgram /\ DmaInv /\ SequenceInv /\ [Next]_vars => [Unpublished(xfer) => Kept]_vars
  <2> SUFFICES ASSUME VramProgram, DmaInv, SequenceInv, Next, Unpublished(xfer)
               PROVE  Kept
    OBVIOUS
  <2>1. /\ xfer.life = "Completed" /\ IsVram(xfer) /\ SlotOK(xfer, vram, frontier)
        /\ xfer.kind \in {"Gdma", "Hdma"} /\ xfer.elapsed \in Nat
    BY DEF Unpublished, DmaInv, SlotOK, Transfers, IsVram
  <2>2. /\ xfer.bytes # published_completed_blocks(xfer) * BlockBytes
        /\ (xfer.kind = "Hdma" => published_completed_blocks(xfer) = 0)
    BY <2>1, UnpublishedTail
  <2>3. xfer.kind = "Hdma" => vram.state = "HbActive"
    BY <2>1, <2>2 DEF SlotOK, Owned
  <2>4. xfer.kind = "Gdma" => vram.state = "GpActive"
    BY <2>2 DEF SequenceInv, Fresh
  <2>5. CASE UNCHANGED xfer
    BY <2>1, <2>5
  <2>6. CASE DmaTick
    <3>1. ~ hblank_block_eligible
      <4>1. xfer.kind = "Hdma" => ~ hblank_block_eligible
        BY <2>1, <2>2, BlockGoesFirst DEF SequenceInv
      <4> QED BY <2>1, <2>4, <4>1 DEF hblank_block_eligible
    <3>2. xfer' = AdvancedTransfer(xfer)
      BY <2>6, <3>1, QuietTick DEF SequenceInv, Quiet
    <3>3. /\ xfer'.kind = xfer.kind /\ xfer'.start = xfer.start
          /\ (xfer' = xfer \/ xfer'.elapsed = xfer.elapsed + 1)
      BY <2>1, <3>2, SlotStep
    <3> QED BY <2>1, <3>3
  <2>7. CASE CancelHdma
    BY <2>7 DEF CancelHdma, DmaInv, VramStates
  <2>8. CASE \E blocks \in Blocks : StartGdma(blocks)
    <3>1. /\ vram.state # "HbActive" /\ phase = "cpu" /\ ~ cpu_stall_active /\ since >= WriteT - 1
      BY <2>8 DEF StartGdma, StartVram, Write, CpuMay, CpuPhase
    <3> QED BY <2>1, <2>2, <2>3, <3>1, PublishedBeforeWrite
  <2>9. ~ (\E page \in Pages : WriteFf46(page))
    BY DEF VramProgram, WriteFf46, Write, CpuMay
  <2>10. Next => \/ UNCHANGED xfer \/ DmaTick \/ CancelHdma
                 \/ (\E blocks \in Blocks : StartGdma(blocks)) \/ \E page \in Pages : WriteFf46(page)
    BY DEF Next, Tick, CpuStalled, CpuNoWrite, CpuHalt, CpuWake, IgnoredHdma5, DisableLcd,
           EnableLcd, WriteHdma4, StartHdma, dmaVars
  <2> QED BY <2>5, <2>6, <2>7, <2>8, <2>9, <2>10
<1>2. VramProgram => VramProgram'
  BY DEF VramProgram
<1> QED BY <1>1, <1>2, SequenceInvariant, DmaInvariant, PTL DEF Spec, CompletedBlockIsPublished

-----------------------------------------------------------------------------
(* The end of a stall.                                                       *)

\* A VRAM transfer in flight is not yet at its end.
StallInv == InFlight(xfer) /\ IsVram(xfer) => xfer.elapsed < total_t_cycles(xfer)

\* A VRAM transfer has at least one byte and the release ahead of it.
LEMMA TransferTakesTime ==
  ASSUME NEW x \in VramTransfers, WholeBlocks(x)
  PROVE  /\ total_t_cycles(x) \in Nat /\ total_t_cycles(x) > 6 /\ x.elapsed \in Nat
         /\ total_t_cycles(x) = last_byte(x, x.bytes) + ReleaseT
<1>1. /\ x.bytes \in Nat /\ x.per \in {2, 4} /\ x.elapsed \in Nat /\ x.kind # "Oam"
      /\ first_byte_delay(x) = x.per
  BY DEF VramTransfers, Transfers, IsVram, first_byte_delay
<1>2. x.bytes >= 1
  <2>1. PICK k \in Nat \ {0} : x.bytes = k * BlockBytes
    BY DEF WholeBlocks
  <2>2. \A a, b \in Nat \ {0} : a * b >= 1
    OBVIOUS
  <2> QED BY <2>1, <2>2, ConstantTypes
<1>3. (x.bytes - 1) * x.per \in Nat
  BY <1>1, <1>2
<1> QED BY <1>1, <1>3 DEF total_t_cycles, last_byte, ReleaseT

\* A tick of a VRAM transfer in flight: one T-cycle more, and over at its end.
LEMMA FlightTick ==
  ASSUME NEW x \in VramTransfers, WholeBlocks(x), InFlight(x),
         x.elapsed < total_t_cycles(x), NEW y, y = AdvancedTransfer(x)
  PROVE  /\ y.kind = x.kind /\ y.elapsed = x.elapsed + 1
         /\ total_t_cycles(y) = total_t_cycles(x)
         /\ InFlight(y) <=> y.elapsed < total_t_cycles(x)
<1>1. /\ total_t_cycles(x) \in Nat /\ total_t_cycles(x) > 6 /\ x.elapsed \in Nat
      /\ total_t_cycles(x) = last_byte(x, x.bytes) + ReleaseT
  BY TransferTakesTime
<1>2. x.life \in {"Starting", "Active"} /\ (x.life = "Starting" => x.elapsed = 0)
  BY DEF InFlight, WholeBlocks
<1>3. PICK l \in {"Active", "Completed"} :
        /\ y = Advanced(x, l)
        /\ l = "Completed" => x.elapsed + 1 >= total_t_cycles(x)
        /\ x.life = "Active" /\ x.elapsed + 1 >= total_t_cycles(x) => l = "Completed"
  BY <1>1, <1>2, VramAdvance
<1>4. /\ y.kind = x.kind /\ y.elapsed = x.elapsed + 1 /\ y.life = l
      /\ y.bytes = x.bytes /\ y.per = x.per
  BY <1>3 DEF Advanced, VramTransfers, Transfers
<1>5. total_t_cycles(y) = total_t_cycles(x)
  BY <1>4 DEF total_t_cycles, last_byte, first_byte_delay
<1>6. InFlight(y) <=> x.elapsed + 1 < total_t_cycles(x)
  BY <1>1, <1>2, <1>3, <1>4 DEF InFlight
<1> QED BY <1>4, <1>5, <1>6

\* What a tick makes of a stall.
LEMMA StallTick ==
  ASSUME DmaInv, StallInv, Tick, InFlight(xfer), IsVram(xfer)
  PROVE  \/ restart # NoRestart /\ xfer'.kind = "Oam" /\ ~IsVram(xfer')
         \/ /\ IsVram(xfer') /\ StallLeft > 0 /\ StallLeft' = StallLeft - 1
            /\ xfer'.elapsed \in Nat
            /\ InFlight(xfer') <=> StallLeft' > 0
<1>0. xfer \in VramTransfers /\ WholeBlocks(xfer) /\ xfer.elapsed < total_t_cycles(xfer)
  BY DEF DmaInv, SlotOK, VramTransfers, StallInv
<1>1. requires_t_cycle_tick /\ ~hblank_block_eligible
  BY DEF requires_t_cycle_tick, hblank_block_eligible
<1>2. DmaTick
  BY <1>1 DEF Tick
<1>3. \/ restart # NoRestart /\ xfer' = OamTransfer(restart.page, restart.elapsed + 1, "Active")
      \/ xfer' = AdvancedTransfer(xfer)
  BY <1>1, <1>2 DEF DmaTick
<1>4. CASE restart # NoRestart /\ xfer' = OamTransfer(restart.page, restart.elapsed + 1, "Active")
  BY <1>4 DEF OamTransfer, IsVram
<1>5. CASE xfer' = AdvancedTransfer(xfer)
  <2>1. /\ xfer'.kind = xfer.kind /\ xfer'.elapsed = xfer.elapsed + 1
        /\ total_t_cycles(xfer') = total_t_cycles(xfer)
        /\ InFlight(xfer') <=> xfer'.elapsed < total_t_cycles(xfer)
    BY <1>0, <1>5, FlightTick
  <2>2. total_t_cycles(xfer) \in Nat /\ xfer.elapsed \in Nat
    BY <1>0, TransferTakesTime
  <2>3. StallLeft = total_t_cycles(xfer) - xfer.elapsed
        /\ StallLeft' = total_t_cycles(xfer') - xfer'.elapsed
    BY DEF StallLeft
  <2>4. IsVram(xfer')
    BY <2>1 DEF IsVram
  <2> QED BY <1>0, <2>1, <2>2, <2>3, <2>4
<1> QED BY <1>3, <1>4, <1>5

\* A transfer starts with all its time before it.
LEMMA StallNext ==
  ASSUME DmaInv, StallInv, DmaInv', Next
  PROVE  StallInv'
<1> SUFFICES ASSUME InFlight(xfer'), IsVram(xfer') PROVE xfer'.elapsed < total_t_cycles(xfer')
  BY DEF StallInv
<1>0. xfer' \in VramTransfers /\ WholeBlocks(xfer')
  BY DEF DmaInv, SlotOK, VramTransfers
<1>1. total_t_cycles(xfer') \in Nat /\ total_t_cycles(xfer') > 6
  BY <1>0, TransferTakesTime
<1>2. CASE xfer'.elapsed \in 0..1
  BY <1>1, <1>2
<1>3. CASE xfer' = xfer
  BY <1>3 DEF StallInv
<1>4. CASE Tick
  <2>1. CASE InFlight(xfer) /\ IsVram(xfer)
    <3>1. StallLeft' > 0 /\ StallLeft' = total_t_cycles(xfer') - xfer'.elapsed
          /\ xfer'.elapsed \in Nat
      BY <1>4, <2>1, StallTick DEF StallLeft
    <3> QED BY <1>1, <3>1
  <2>2. CASE ~(InFlight(xfer) /\ IsVram(xfer))
    <3> DEFINE x == IF hblank_block_eligible THEN VramTransfer("Hdma", vram.dest, 1) ELSE xfer
    <3>1. \/ xfer' = xfer
          \/ xfer' = OamTransfer(restart.page, restart.elapsed + 1, "Active")
          \/ xfer' = AdvancedTransfer(x)
      BY <1>4 DEF Tick, DmaTick, dmaVars
    <3>2. CASE xfer' = OamTransfer(restart.page, restart.elapsed + 1, "Active")
      BY <3>2 DEF OamTransfer, IsVram
    <3>3. CASE xfer' = AdvancedTransfer(x) /\ hblank_block_eligible
      <4>1. x.life = "Starting" /\ x.elapsed = 0
            /\ {"life", "elapsed"} \subseteq DOMAIN x
        BY <3>3 DEF VramTransfer
      <4> HIDE DEF x
      <4>2. ~Unpublished(x)
        BY <4>1 DEF Unpublished
      <4>3. PICK l : AdvancedTransfer(x) = Advanced(x, l)
        BY <4>1, <4>2 DEF AdvancedTransfer
      <4>4. xfer'.elapsed = 1
        BY <3>3, <4>1, <4>3 DEF Advanced
      <4> QED BY <1>2, <4>4
    <3>4. CASE xfer' = AdvancedTransfer(xfer)
      <4>1. xfer \in Transfers
        BY DEF DmaInv, SlotOK
      <4>2. xfer'.kind = xfer.kind
        BY <3>4, <4>1 DEF AdvancedTransfer, Advanced, Transfers
      <4>3. IsVram(xfer) /\ xfer.life \in {"Idle", "Completed"}
        BY <2>2, <4>1, <4>2 DEF IsVram, InFlight, Transfers
      <4>4. xfer'.life = xfer.life
        BY <3>4, <4>1, <4>3 DEF AdvancedTransfer, Advanced, Unpublished, Transfers
      <4> QED BY <4>3, <4>4 DEF InFlight
    <3> QED BY <1>3, <3>1, <3>2, <3>3, <3>4
  <2> QED BY <2>1, <2>2
<1>5. ASSUME NEW blocks \in Blocks, StartGdma(blocks) PROVE xfer'.elapsed = 0
  BY <1>5 DEF StartGdma, VramTransfer
<1>6. ASSUME NEW page \in Pages, WriteFf46(page) PROVE xfer' = xfer
  BY <1>6 DEF WriteFf46, write_ff46, OamTransfer, IsVram
<1>7. CASE CancelHdma
  <2>1. xfer' = xfer
    BY <1>7 DEF CancelHdma, Idle, InFlight
  <2> QED BY <1>3, <2>1
<1> QED
  BY <1>2, <1>3, <1>4, <1>5, <1>6, <1>7
     DEF Next, CpuStalled, CpuNoWrite, CpuHalt, CpuWake, IgnoredHdma5, DisableLcd, EnableLcd,
         WriteHdma4, StartHdma, dmaVars

\* A stall is served to its end, T-cycle by T-cycle, unless a restarted OAM
\* burst takes the slot: with the host stepping the machine no stall lasts
\* (cpu_stall_active, advance_one_t_cycle).
THEOREM StallAlwaysRunsDown == Spec => StallRunsDown
<1> DEFINE A == cpu_stall_active /\ phase = "tick" =>
                  \/ restart # NoRestart /\ xfer'.kind = "Oam" /\ ~cpu_stall_active'
                  \/ /\ StallLeft > 0 /\ StallLeft' = StallLeft - 1
                     /\ cpu_stall_active' <=> StallLeft' > 0
<1>1. Init => StallInv
  BY DEF Init, StallInv, Idle, InFlight
<1>2. DmaInv /\ StallInv /\ DmaInv' /\ [Next]_vars => StallInv'
  <2>1. CASE UNCHANGED vars
    BY <2>1 DEF vars, dmaVars, StallInv
  <2> QED BY <2>1, StallNext
<1>3. DmaInv /\ StallInv /\ [Next]_vars => [A]_vars
  <2> SUFFICES ASSUME DmaInv, StallInv, Next, cpu_stall_active, phase = "tick" PROVE A
    OBVIOUS
  <2>1. Tick
    BY DEF Next, CpuStalled, CpuNoWrite, CpuHalt, CpuWake, CancelHdma, IgnoredHdma5,
           DisableLcd, EnableLcd, WriteFf46, WriteHdma4, StartGdma, StartHdma, StartVram, Write,
           CpuRuns, CpuPhase
  <2>2. InFlight(xfer) /\ IsVram(xfer)
    BY DEF cpu_stall_active
  <2>3. cpu_stall_active' <=> InFlight(xfer') /\ IsVram(xfer')
                              /\ xfer'.elapsed >= restriction_delay(xfer')
    BY DEF cpu_stall_active
  <2>4. IsVram(xfer') => restriction_delay(xfer') = 0
    BY DEF IsVram, restriction_delay
  <2>5. CASE restart # NoRestart /\ xfer'.kind = "Oam" /\ ~IsVram(xfer')
    BY <2>3, <2>5
  <2>6. CASE /\ IsVram(xfer') /\ StallLeft > 0 /\ StallLeft' = StallLeft - 1
             /\ xfer'.elapsed \in Nat
             /\ InFlight(xfer') <=> StallLeft' > 0
    <3>1. cpu_stall_active' <=> StallLeft' > 0
      BY <2>3, <2>4, <2>6
    <3> QED BY <2>6, <3>1
  <2> QED BY <2>1, <2>2, <2>5, <2>6, StallTick
<1> QED BY <1>1, <1>2, <1>3, DmaInvariant, PTL DEF Spec, StallRunsDown
=============================================================================
