---------------------------- MODULE TimerProofs ----------------------------
(* Proofs about Timer for every counter width, TIMA width and selection.    *)
EXTENDS Timer, TLAPS

(***************************************************************************)
(* Arithmetic of the selected counter bit                                   *)
(***************************************************************************)

Pos == counter % (2 * HalfPeriod[select])

(* Bit b of the counter is high in the second half of its period.           *)
LEMMA BitIsSecondHalf ==
  ASSUME NEW c \in Nat, NEW h \in {8, 32, 128, 512}
  PROVE  Odd(c \div h) <=> c % (2 * h) >= h
<1>1. CASE h = 8   BY <1>1, SMT DEF Odd
<1>2. CASE h = 32  BY <1>2, SMT DEF Odd
<1>3. CASE h = 128 BY <1>3, SMT DEF Odd
<1>4. CASE h = 512 BY <1>4, SMT DEF Odd
<1> QED BY <1>1, <1>2, <1>3, <1>4

(* One tick moves the position by one or wraps it to 0.                     *)
LEMMA TickMovesPosition ==
  ASSUME NEW c \in Nat, NEW m \in Nat, NEW h \in {8, 32, 128, 512},
         c < m, m % (2 * h) = 0
  PROVE  ((c + 1) % m) % (2 * h)
           = IF (c % (2 * h)) + 1 = 2 * h THEN 0 ELSE (c % (2 * h)) + 1
<1>0. (c + 1) % m = IF c + 1 = m THEN 0 ELSE c + 1
  BY SMT
<1>1. CASE h = 8   BY <1>0, <1>1, SMT
<1>2. CASE h = 32  BY <1>0, <1>2, SMT
<1>3. CASE h = 128 BY <1>0, <1>3, SMT
<1>4. CASE h = 512 BY <1>0, <1>4, SMT
<1> QED BY <1>1, <1>2, <1>3, <1>4

(* The facts about the current counter that the steps below use.            *)
LEMMA Position ==
  ASSUME TypeOK
  PROVE  /\ HalfPeriod[select] \in {8, 32, 128, 512}
         /\ Pos \in 0..2 * HalfPeriod[select] - 1
         /\ CurrentSignal(enable, select, counter)
              <=> enable /\ Pos >= HalfPeriod[select]
<1>1. HalfPeriod[select] \in {8, 32, 128, 512} /\ counter \in Nat
  BY HalfPeriodAssumption, CounterModAssumption DEF TypeOK
<1>2. Odd(counter \div HalfPeriod[select]) <=> Pos >= HalfPeriod[select]
  BY <1>1, BitIsSecondHalf DEF Pos
<1>3. Pos \in 0..2 * HalfPeriod[select] - 1
  BY <1>1, SMT DEF Pos
<1> QED BY <1>1, <1>2, <1>3 DEF CurrentSignal

(* A tick makes the selected signal fall exactly when the position wraps.   *)
LEMMA TickFalls ==
  ASSUME TypeOK, Tick
  PROVE  LET h == HalfPeriod[select]
         IN /\ counter' \in 0..CounterMod - 1
            /\ counter' % (2 * h) = IF Pos + 1 = 2 * h THEN 0 ELSE Pos + 1
            /\ (CurrentSignal(enable, select, counter)
                 /\ ~CurrentSignal(enable, select, counter'))
               <=> (enable /\ Pos + 1 = 2 * h)
<1> DEFINE h == HalfPeriod[select]
<1>1. /\ h \in {8, 32, 128, 512}
      /\ Pos \in 0..2 * h - 1
      /\ CurrentSignal(enable, select, counter) <=> enable /\ Pos >= h
  BY Position
<1>2. /\ counter \in Nat /\ CounterMod \in Nat /\ counter < CounterMod
      /\ CounterMod % (2 * h) = 0
      /\ counter' = (counter + 1) % CounterMod
  BY CounterModAssumption DEF TypeOK, Tick, wrapping_add, advance_overflow, reload_tima
<1>3. counter' \in 0..CounterMod - 1 /\ counter' \in Nat
  BY <1>2, SMT
<1>a. h \in {8, 32, 128, 512} /\ Pos = counter % (2 * h)
  BY <1>1 DEF Pos
<1> HIDE DEF h
<1>4. counter' % (2 * h) = IF Pos + 1 = 2 * h THEN 0 ELSE Pos + 1
  BY <1>a, <1>2, TickMovesPosition
<1>5. Odd(counter' \div h) <=> counter' % (2 * h) >= h
  BY <1>1, <1>3, BitIsSecondHalf, ZenonT(30)
<1>6. (CurrentSignal(enable, select, counter)
        /\ ~CurrentSignal(enable, select, counter'))
      <=> (enable /\ Pos + 1 = 2 * h)
  BY <1>1, <1>4, <1>5 DEF CurrentSignal, h
<1> QED BY <1>3, <1>4, <1>6 DEF h

(***************************************************************************)
(* The inductive invariant                                                  *)
(***************************************************************************)

LEMMA InitInv == Init => TimerInv
<1> SUFFICES ASSUME Init PROVE TimerInv
  OBVIOUS
<1>a. /\ tima \in 0..TimaMod - 1 /\ tma \in 0..TimaMod - 1
      /\ overflow \in 0..ReloadDelay /\ since \in 0..MCycle
      /\ apu_edges \in 0..2 /\ owed \in Int /\ apu_fs_offset \in {0, 2}
  BY TimaModAssumption DEF Init, MCycle, ReloadDelay
<1>b. /\ phase \in {"tick", "cpu"} /\ counter \in 0..CounterMod - 1
      /\ enable \in BOOLEAN /\ select \in Selects
      /\ previous_signal \in BOOLEAN /\ reloaded \in BOOLEAN
      /\ speed \in Speeds /\ boot \in BOOLEAN
      /\ irq \in BOOLEAN /\ dropped \in BOOLEAN
  BY Zenon DEF Init, Speeds
<1>1. TypeOK
  BY <1>a, <1>b, Zenon DEF TypeOK
<1> QED
  BY <1>1 DEF Init, TimerInv, PendingReadsZero, ReloadShowsTma,
    NoDroppedEdge, OneRequestPerOverflow, EdgesAreFar, BootTimerOff,
    ApuEdgeThenLow, ApuEdgeAtMostOnce

(* The counter is far enough from an edge for every selection once its low  *)
(* four bits are.                                                           *)
LEMMA LowBitsFar ==
  ASSUME NEW c \in Nat, NEW k \in Nat, NEW h \in {8, 32, 128, 512},
         (c % 16) + k < 16
  PROVE  (c % (2 * h)) + k < 2 * h
<1>1. CASE h = 8   BY <1>1, SMT
<1>2. CASE h = 32  BY <1>2, SMT
<1>3. CASE h = 128 BY <1>3, SMT
<1>4. CASE h = 512 BY <1>4, SMT
<1> QED BY <1>1, <1>2, <1>3, <1>4

(* The low four bits of a position that wraps are 0.                        *)
LEMMA LowBits ==
  ASSUME NEW c \in Nat, NEW h \in {8, 32, 128, 512}, c % (2 * h) = 0
  PROVE  c % 16 = 0
<1>1. CASE h = 8   BY <1>1, SMT
<1>2. CASE h = 32  BY <1>2, SMT
<1>3. CASE h = 128 BY <1>3, SMT
<1>4. CASE h = 512 BY <1>4, SMT
<1> QED BY <1>1, <1>2, <1>3, <1>4

(* A tick while an overflow is pending meets no falling edge.               *)
LEMMA PendingTickHasNoEdge ==
  ASSUME TimerInv, Tick, overflow > 0
  PROVE  ~(enable /\ Pos + 1 = 2 * HalfPeriod[select])
<1> DEFINE h == HalfPeriod[select]
<1>1. /\ TypeOK /\ EdgesAreFar
      /\ overflow \in Nat /\ counter \in Nat /\ enable \in BOOLEAN
  BY CounterModAssumption DEF TimerInv, TypeOK, ReloadDelay
<1>2. h \in {8, 32, 128, 512} /\ Pos \in 0..2 * h - 1 /\ Pos = counter % (2 * h)
  BY <1>1, Position DEF Pos
<1>3. (enable => Pos + overflow < 2 * h) \/ (counter % 16) + overflow < 16
  BY <1>1, <1>2 DEF EdgesAreFar
<1>4. enable => Pos + overflow < 2 * h
  <2> HIDE DEF h
  <2> QED BY <1>1, <1>2, <1>3, LowBitsFar
<1> HIDE DEF h
<1>5. ~(enable /\ Pos + 1 = 2 * h)
  BY <1>1, <1>2, <1>4
<1> QED BY <1>5 DEF h

(* A write while an overflow is pending meets a low signal.                 *)
LEMMA PendingWriteMeetsLow ==
  ASSUME TimerInv, CpuWrite, overflow > 0
  PROVE  ~CurrentSignal(enable, select, counter)
<1> DEFINE h == HalfPeriod[select]
<1>1. /\ TypeOK /\ EdgesAreFar /\ since = 4
      /\ overflow \in 1..4 /\ counter \in Nat /\ enable \in BOOLEAN
  BY CounterModAssumption DEF TimerInv, TypeOK, ReloadDelay, CpuWrite, MCycle
<1>2. /\ h \in {8, 32, 128, 512} /\ Pos \in 0..2 * h - 1
      /\ Pos = counter % (2 * h)
      /\ CurrentSignal(enable, select, counter) <=> enable /\ Pos >= h
  BY <1>1, Position DEF Pos
<1>3. Pos + overflow = 4
  BY <1>1, <1>2 DEF EdgesAreFar, ReloadDelay
<1> HIDE DEF h
<1> QED BY <1>1, <1>2, <1>3

(* TypeOK in two parts, for the arithmetic and for the Boolean prover.      *)
NumOK ==
  /\ counter \in 0..CounterMod - 1
  /\ tima \in 0..TimaMod - 1 /\ tma \in 0..TimaMod - 1
  /\ overflow \in 0..ReloadDelay
  /\ apu_fs_offset \in {0, 2}
  /\ since \in 0..MCycle
  /\ apu_edges \in 0..2
  /\ owed \in Int

FlagOK ==
  /\ phase \in {"tick", "cpu"}
  /\ enable \in BOOLEAN /\ select \in Selects
  /\ previous_signal \in BOOLEAN
  /\ reloaded \in BOOLEAN
  /\ speed \in Speeds
  /\ boot \in BOOLEAN
  /\ irq \in BOOLEAN
  /\ dropped \in BOOLEAN

LEMMA TypeParts ==
  /\ TypeOK <=> NumOK /\ FlagOK
  /\ TypeOK' <=> NumOK' /\ FlagOK'
BY Zenon DEF TypeOK, NumOK, FlagOK

LEMMA SignalIsBoolean ==
  ASSUME NEW e, NEW s, NEW c
  PROVE  CurrentSignal(e, s, c) \in BOOLEAN
BY Zenon DEF CurrentSignal

(***************************************************************************)
(* The tick                                                                 *)
(***************************************************************************)

(* What a tick does when no overflow is pending.                            *)
LEMMA IdleTick ==
  ASSUME TimerInv, Tick, overflow = 0
  PROVE  LET fall == enable /\ Pos + 1 = 2 * HalfPeriod[select]
             ovfl == fall /\ tima = TimaMod - 1
         IN /\ tima' = IF fall THEN (tima + 1) % TimaMod ELSE tima
            /\ overflow' = IF ovfl THEN 4 ELSE 0
            /\ owed' = IF ovfl THEN owed + 1 ELSE owed
            /\ dropped' = dropped
            /\ reloaded' = FALSE
            /\ irq' = FALSE
<1>1. TypeOK
  BY DEF TimerInv
<1>2. (CurrentSignal(enable, select, counter)
        /\ ~CurrentSignal(enable, select, counter'))
      <=> (enable /\ Pos + 1 = 2 * HalfPeriod[select])
  BY <1>1, TickFalls
<1>3. dropped \in BOOLEAN
  BY <1>1 DEF TypeOK
<1> DEFINE fall == enable /\ Pos + 1 = 2 * HalfPeriod[select]
           ovfl == fall /\ tima = TimaMod - 1
<1>4. ~(overflow = 1)
  OBVIOUS
<1>5. IncrementTima(CurrentSignal(enable, select, counter)
                      /\ ~CurrentSignal(enable, select, counter'),
                    tima, 0, 4, owed)
  BY <1>4 DEF Tick, wrapping_add, advance_overflow, reload_tima, ReloadDelay
<1>6. /\ tima' = IF fall THEN (tima + 1) % TimaMod ELSE tima
      /\ overflow' = IF ovfl THEN 4 ELSE 0
      /\ owed' = IF ovfl THEN owed + 1 ELSE owed
  BY <1>2, <1>5 DEF IncrementTima
<1>7. dropped' = dropped
  BY <1>3, <1>5 DEF IncrementTima
<1>8. reloaded' = FALSE /\ irq' = FALSE
  BY <1>4 DEF Tick, wrapping_add, advance_overflow, reload_tima
<1> QED
  BY <1>6, <1>7, <1>8

(* What a tick does when an overflow is pending: it only counts down, or    *)
(* reloads.                                                                 *)
LEMMA PendingTick ==
  ASSUME TimerInv, Tick, overflow > 0
  PROVE  /\ tima' = IF overflow = 1 THEN tma ELSE tima
         /\ overflow' = overflow - 1
         /\ owed' = IF overflow = 1 THEN owed - 1 ELSE owed
         /\ dropped' = dropped
         /\ reloaded' = (overflow = 1)
         /\ irq' = (overflow = 1)
<1>1. TypeOK
  BY DEF TimerInv
<1>2. ~(CurrentSignal(enable, select, counter)
        /\ ~CurrentSignal(enable, select, counter'))
  BY <1>1, TickFalls, PendingTickHasNoEdge
<1>3. dropped \in BOOLEAN /\ overflow \in 1..4
  BY <1>1 DEF TypeOK, ReloadDelay
<1> QED
  BY <1>2, <1>3 DEF Tick, wrapping_add, advance_overflow, reload_tima, IncrementTima

(* One tick moves the low four bits like every other position.              *)
LEMMA TickMovesLowBits ==
  ASSUME TypeOK, Tick, counter % 16 < 15
  PROVE  counter' % 16 = (counter % 16) + 1
<1>1. /\ counter \in Nat /\ CounterMod \in Nat /\ counter < CounterMod
      /\ counter' = (counter + 1) % CounterMod
      /\ HalfPeriod[select] \in {8, 32, 128, 512}
      /\ CounterMod % (2 * HalfPeriod[select]) = 0
  BY CounterModAssumption, Position DEF TypeOK, Tick, wrapping_add, advance_overflow, reload_tima
<1>2. CounterMod % 16 = 0
  BY <1>1, LowBits
<1> QED BY <1>1, <1>2, TickMovesPosition, SMT

LEMMA TickKeepsTypes ==
  ASSUME TimerInv, Tick
  PROVE  TypeOK'
<1>1. TypeOK /\ NumOK /\ FlagOK /\ OneRequestPerOverflow
  BY TypeParts DEF TimerInv
<1>2. counter' \in 0..CounterMod - 1
  BY <1>1, TickFalls
<1>3. tima' \in 0..TimaMod - 1 /\ overflow' \in 0..ReloadDelay /\ owed' \in Int
  <2>1. CASE overflow = 0
    BY <1>1, <2>1, IdleTick, TimaModAssumption DEF NumOK, ReloadDelay
  <2>2. CASE overflow > 0
    BY <1>1, <2>2, PendingTick DEF NumOK, ReloadDelay
  <2> QED BY <1>1, <2>1, <2>2 DEF NumOK, ReloadDelay
<1>4. dropped' \in BOOLEAN /\ reloaded' \in BOOLEAN /\ irq' \in BOOLEAN
  BY DEF Tick, wrapping_add, advance_overflow, reload_tima, IncrementTima
<1>5. previous_signal' \in BOOLEAN
  BY SignalIsBoolean DEF Tick, wrapping_add, advance_overflow, reload_tima
<1>6. /\ since' \in 0..MCycle /\ apu_edges' \in 0..2
      /\ tma' = tma /\ apu_fs_offset' = apu_fs_offset
  BY <1>1 DEF Tick, wrapping_add, advance_overflow, reload_tima, NumOK, MCycle
<1>7. /\ phase' = "cpu" /\ enable' = enable /\ select' = select
      /\ speed' = speed /\ boot' = boot
  BY DEF Tick, wrapping_add, advance_overflow, reload_tima
<1>8. NumOK'
  BY <1>1, <1>2, <1>3, <1>6 DEF NumOK
<1>9. FlagOK'
  BY <1>1, <1>4, <1>5, <1>7, Zenon DEF FlagOK
<1> QED BY <1>8, <1>9, TypeParts

LEMMA TickKeepsEdgesFar ==
  ASSUME TimerInv, Tick
  PROVE  EdgesAreFar'
<1> DEFINE h == HalfPeriod[select]
<1>1. /\ TypeOK /\ EdgesAreFar /\ NumOK /\ enable \in BOOLEAN
      /\ enable' = enable /\ select' = select
      /\ since' = IF since = 4 THEN 4 ELSE since + 1
      /\ since \in 0..4 /\ overflow \in 0..4 /\ counter \in Nat
  BY TypeParts, CounterModAssumption
  DEF TimerInv, Tick, wrapping_add, advance_overflow, reload_tima, FlagOK, NumOK, MCycle, ReloadDelay
<1>2. /\ h \in {8, 32, 128, 512} /\ Pos \in 0..2 * h - 1
      /\ Pos = counter % (2 * h)
  BY <1>1, Position DEF Pos
<1>3. /\ counter' \in Nat
      /\ counter' % (2 * h) = IF Pos + 1 = 2 * h THEN 0 ELSE Pos + 1
  BY <1>1, TickFalls, CounterModAssumption
<1>4. CASE overflow = 0
  <2>1. SUFFICES ASSUME overflow' > 0
                 PROVE  /\ (counter' % 16) + overflow' < 16
                        /\ (counter' % (2 * h)) + overflow' = 4
    BY <1>1 DEF EdgesAreFar, ReloadDelay
  <2>2. overflow' = 4 /\ Pos + 1 = 2 * h
    BY <1>4, <2>1, IdleTick
  <2>3. counter' % (2 * h) = 0
    BY <1>3, <2>2
  <2> HIDE DEF h
  <2>4. \A c \in Nat : c % (2 * h) = 0 => c % 16 = 0
    BY <1>2, LowBits
  <2>5. counter' % 16 = 0
    BY <1>3, <2>3, <2>4
  <2> QED BY <2>2, <2>3, <2>5
<1>5. CASE overflow > 0
  <2>1. overflow' = overflow - 1
    BY <1>5, PendingTick
  <2>2. SUFFICES ASSUME overflow > 1
                 PROVE  EdgesAreFar'
    BY <1>1, <1>5, <2>1 DEF EdgesAreFar
  <2>3. CASE since + overflow = 3 /\ (enable => Pos + overflow < 2 * h)
    <3>1. since' + overflow' = 3
      BY <1>1, <2>1, <2>2, <2>3
    <3>2. enable => (counter' % (2 * h)) + overflow' < 2 * h
      <4> HIDE DEF h
      <4> QED BY <1>1, <1>2, <1>3, <2>1, <2>2, <2>3
    <3> QED BY <1>1, <3>1, <3>2 DEF EdgesAreFar, ReloadDelay
  <2>4. CASE /\ (counter % 16) + overflow < 16
             /\ since + overflow <= 4 \/ Pos + overflow = 4
    <3>1. (counter' % 16) + overflow' < 16
      <4>1. counter % 16 \in 0..15
        BY <1>1, SMT
      <4>2. counter' % 16 = (counter % 16) + 1
        BY <1>1, <2>2, <2>4, <4>1, TickMovesLowBits
      <4> QED BY <1>1, <2>1, <2>4, <4>1, <4>2
    <3>2. since' + overflow' <= 4 \/ (counter' % (2 * h)) + overflow' = 4
      <4> HIDE DEF h
      <4> QED BY <1>1, <1>2, <1>3, <2>1, <2>2, <2>4
    <3> QED BY <1>1, <3>1, <3>2 DEF EdgesAreFar, ReloadDelay
  <2> QED
    BY <1>1, <1>2, <1>5, <2>3, <2>4 DEF EdgesAreFar, ReloadDelay
<1> QED BY <1>1, <1>4, <1>5

LEMMA TickStep == TimerInv /\ Tick => TimerInv'
<1> SUFFICES ASSUME TimerInv, Tick PROVE TimerInv'
  OBVIOUS
<1>1. /\ TypeOK /\ PendingReadsZero /\ NoDroppedEdge /\ OneRequestPerOverflow
      /\ BootTimerOff /\ overflow \in 0..4 /\ tima \in 0..TimaMod - 1
      /\ owed \in Int
  BY TypeParts DEF TimerInv, NumOK, ReloadDelay
<1>2. TypeOK' /\ EdgesAreFar'
  BY TickKeepsTypes, TickKeepsEdgesFar
<1>3. /\ phase' = "cpu" /\ tma' = tma /\ boot' = boot /\ enable' = enable
      /\ apu_fs_offset' = apu_fs_offset /\ speed' = speed
  BY DEF Tick, wrapping_add, advance_overflow, reload_tima
<1> DEFINE Settled == /\ PendingReadsZero /\ ReloadShowsTma /\ NoDroppedEdge
                      /\ OneRequestPerOverflow /\ BootTimerOff
<1>4. ASSUME overflow = 0 PROVE Settled'
  <2>1. PendingReadsZero'
    BY <1>1, <1>4, IdleTick, TimaModAssumption DEF PendingReadsZero
  <2>2. ReloadShowsTma' /\ NoDroppedEdge'
    BY <1>1, <1>4, IdleTick DEF ReloadShowsTma, NoDroppedEdge
  <2>3. OneRequestPerOverflow'
    BY <1>1, <1>4, IdleTick DEF OneRequestPerOverflow
  <2>4. BootTimerOff'
    BY <1>1, <1>3, <1>4, IdleTick DEF BootTimerOff
  <2> QED BY <2>1, <2>2, <2>3, <2>4
<1>5. ASSUME overflow > 0 PROVE Settled'
  <2>1. PendingReadsZero'
    BY <1>1, <1>5, PendingTick DEF PendingReadsZero
  <2>2. NoDroppedEdge'
    BY <1>1, <1>5, PendingTick DEF NoDroppedEdge
  <2>a. ReloadShowsTma'
    <3>1. reloaded' = (overflow = 1) /\ overflow' = overflow - 1
          /\ tima' = IF overflow = 1 THEN tma ELSE tima
      BY <1>5, PendingTick
    <3>2. overflow = 1 => overflow' = 0 /\ tima' = tma'
      BY <1>3, <3>1
    <3> QED BY <3>1, <3>2, Zenon DEF ReloadShowsTma
  <2>3. OneRequestPerOverflow'
    BY <1>1, <1>5, PendingTick DEF OneRequestPerOverflow
  <2>4. BootTimerOff'
    BY <1>1, <1>3, <1>5 DEF BootTimerOff
  <2> QED BY <2>1, <2>2, <2>a, <2>3, <2>4
<1>6. ApuEdgeThenLow' /\ ApuEdgeAtMostOnce'
  BY <1>3 DEF Tick, wrapping_add, advance_overflow, reload_tima, ApuEdgeThenLow, ApuEdgeAtMostOnce
<1> QED
  BY <1>1, <1>2, <1>4, <1>5, <1>6 DEF TimerInv

(***************************************************************************)
(* The CPU's writes                                                         *)
(***************************************************************************)

(* What every write leaves alone, and what the invariant says before it.    *)
LEMMA BeforeWrite ==
  ASSUME TimerInv, CpuWrite
  PROVE  /\ TypeOK /\ NumOK /\ FlagOK
         /\ PendingReadsZero /\ NoDroppedEdge /\ OneRequestPerOverflow
         /\ EdgesAreFar /\ BootTimerOff /\ ApuEdgeThenLow
         /\ reloaded => overflow = 0 /\ tima = tma
         /\ phase = "cpu" /\ phase' = "tick"
         /\ since = 4 /\ since' = 0
         /\ reloaded' = reloaded /\ irq' = irq
         /\ overflow \in 0..4 /\ counter \in Nat /\ enable \in BOOLEAN
<1>1. TypeOK /\ NumOK /\ FlagOK
  BY TypeParts DEF TimerInv
<1>2. phase = "cpu" /\ since = MCycle /\ phase' = "tick" /\ since' = 0
      /\ reloaded' = reloaded /\ irq' = irq
  BY DEF CpuWrite
<1>3. overflow \in 0..4 /\ counter \in Nat
  BY <1>1, CounterModAssumption DEF NumOK, ReloadDelay
<1> QED
  BY <1>1, <1>2, <1>3 DEF TimerInv, ReloadShowsTma, MCycle, FlagOK

(* A write that moves the selected signal counts at most once and never     *)
(* while an overflow is pending.                                            *)
LEMMA SignalChangeEffect ==
  ASSUME TimerInv, CpuWrite, SignalChange
  PROVE  /\ dropped' = dropped
         /\ tima' \in 0..TimaMod - 1
         /\ overflow' \in 0..4 /\ owed' \in Int
         /\ overflow' > 0 => tima' = 0
         /\ owed' = IF overflow' > 0 THEN 1 ELSE 0
         /\ overflow > 0 => overflow' = overflow
         /\ overflow = 0 => overflow' \in {0, 3}
         /\ overflow = 0 /\ overflow' = 3
              => enable /\ ~CurrentSignal(enable', select', counter')
         /\ previous_signal' \in BOOLEAN
<1> DEFINE fall == CurrentSignal(enable, select, counter)
                     /\ ~CurrentSignal(enable', select', counter')
<1>1. /\ PendingReadsZero /\ OneRequestPerOverflow /\ overflow \in 0..4
      /\ tima \in 0..TimaMod - 1 /\ owed \in Int /\ dropped \in BOOLEAN
  BY BeforeWrite DEF NumOK, FlagOK
<1>2. fall => overflow = 0 /\ enable
  <2>1. ASSUME overflow > 0 PROVE ~fall
    BY <2>1, PendingWriteMeetsLow
  <2>2. fall => enable
    BY Zenon DEF CurrentSignal
  <2> QED BY <1>1, <2>1, <2>2
<1>3. IncrementTima(fall, tima, overflow, 3, owed)
  BY DEF SignalChange, SignalChangeDelayed, ReloadDelay
<1>4. previous_signal' \in BOOLEAN
  BY SignalIsBoolean DEF SignalChange, SignalChangeDelayed
<1>5. fall => ~CurrentSignal(enable', select', counter')
  OBVIOUS
<1>6. fall \in BOOLEAN
  OBVIOUS
<1> HIDE DEF fall
<1>7. dropped' = dropped
  BY <1>1, <1>2, <1>3, <1>6 DEF IncrementTima
<1>8. /\ tima' = IF fall THEN (tima + 1) % TimaMod ELSE tima
      /\ overflow' = IF fall /\ tima = TimaMod - 1 THEN 3 ELSE overflow
      /\ owed' = IF fall /\ tima = TimaMod - 1 THEN owed + 1 ELSE owed
  BY <1>1, <1>2, <1>3 DEF IncrementTima
<1>9. CASE fall
  BY <1>1, <1>2, <1>4, <1>5, <1>7, <1>8, <1>9, TimaModAssumption
  DEF PendingReadsZero, OneRequestPerOverflow
<1>10. CASE ~fall
  BY <1>1, <1>4, <1>7, <1>8, <1>10
  DEF PendingReadsZero, OneRequestPerOverflow
<1> QED BY <1>9, <1>10

LEMMA ResetDividerStep ==
  ASSUME TimerInv, NEW offset \in {0, 2}, ResetDivider(offset),
         speed' \in Speeds
  PROVE  TimerInv'
<1>1. CpuWrite /\ SignalChange
  BY DEF ResetDivider, ResetApuEdges
<1>2. /\ counter' = 0 /\ apu_fs_offset' = offset /\ tma' = tma
      /\ enable' = enable /\ select' = select /\ boot' = boot
  BY DEF ResetDivider, ResetApuEdges
<1>3. apu_edges' \in 0..1
  BY <1>1, BeforeWrite DEF ResetDivider, ResetApuEdges, NumOK, ApuEdgeThenLow
<1>4. NumOK'
  BY <1>1, <1>2, <1>3, BeforeWrite, SignalChangeEffect, CounterModAssumption
  DEF NumOK, ReloadDelay, MCycle
<1>5. FlagOK'
  BY <1>1, <1>2, BeforeWrite, SignalChangeEffect, Zenon DEF FlagOK
<1>6. PendingReadsZero' /\ OneRequestPerOverflow'
  BY <1>1, SignalChangeEffect DEF PendingReadsZero, OneRequestPerOverflow
<1>7. /\ NoDroppedEdge' /\ ReloadShowsTma'
      /\ ApuEdgeThenLow' /\ ApuEdgeAtMostOnce'
  BY <1>1, <1>3, BeforeWrite, SignalChangeEffect
  DEF NoDroppedEdge, ReloadShowsTma, ApuEdgeThenLow, ApuEdgeAtMostOnce
<1>8. BootTimerOff'
  BY <1>1, <1>2, BeforeWrite, SignalChangeEffect DEF BootTimerOff
<1>9. EdgesAreFar'
  BY <1>1, <1>2, BeforeWrite, SignalChangeEffect
  DEF EdgesAreFar, ReloadDelay
<1> QED
  BY <1>4, <1>5, <1>6, <1>7, <1>8, <1>9, TypeParts DEF TimerInv

LEMMA WriteTacStep ==
  ASSUME TimerInv, NEW e \in BOOLEAN, NEW s \in Selects, WriteTac(e, s)
  PROVE  TimerInv'
<1>1. CpuWrite /\ SignalChange
  BY DEF WriteTac
<1>2. /\ counter' = counter /\ apu_fs_offset' = apu_fs_offset /\ tma' = tma
      /\ enable' = e /\ select' = s /\ boot' = boot /\ ~boot
      /\ speed' = speed /\ apu_edges' = apu_edges
  BY DEF WriteTac
<1>4. NumOK'
  BY <1>1, <1>2, BeforeWrite, SignalChangeEffect DEF NumOK, ReloadDelay, MCycle
<1>5. FlagOK'
  BY <1>1, <1>2, BeforeWrite, SignalChangeEffect, Zenon DEF FlagOK
<1>6. PendingReadsZero' /\ OneRequestPerOverflow'
  BY <1>1, SignalChangeEffect DEF PendingReadsZero, OneRequestPerOverflow
<1>7. /\ NoDroppedEdge' /\ ReloadShowsTma'
      /\ ApuEdgeThenLow' /\ ApuEdgeAtMostOnce' /\ BootTimerOff'
  BY <1>1, <1>2, BeforeWrite, SignalChangeEffect
  DEF NoDroppedEdge, ReloadShowsTma, ApuEdgeThenLow, ApuEdgeAtMostOnce,
      BootTimerOff
<1>8. TypeOK'
  BY <1>4, <1>5, TypeParts
<1>9. EdgesAreFar'
  <2>1. CASE overflow > 0
    <3>1. overflow' = overflow /\ since' = 0 /\ overflow \in 1..4
      BY <1>1, <2>1, BeforeWrite, SignalChangeEffect
    <3>2. (counter % 16) + overflow < 16
      BY <1>1, <2>1, BeforeWrite DEF EdgesAreFar, ReloadDelay
    <3> QED BY <1>2, <3>1, <3>2 DEF EdgesAreFar, ReloadDelay
  <2>2. CASE overflow = 0
    <3> DEFINE k == HalfPeriod[s]
    <3>1. k \in {8, 32, 128, 512}
      BY HalfPeriodAssumption
    <3>2. Odd(counter \div k) <=> counter % (2 * k) >= k
      BY <1>1, <3>1, BeforeWrite, BitIsSecondHalf
    <3>3. SUFFICES ASSUME overflow' = 3, e
                   PROVE  (counter % (2 * k)) + 3 < 2 * k
      BY <1>1, <1>2, <2>2, BeforeWrite, SignalChangeEffect
      DEF EdgesAreFar, ReloadDelay
    <3>4. ~Odd(counter \div k)
      BY <1>1, <1>2, <2>2, <3>3, SignalChangeEffect DEF CurrentSignal
    <3>5. counter \in Nat
      BY <1>1, BeforeWrite
    <3> HIDE DEF k
    <3>6. counter % (2 * k) \in Int
      BY <3>1, <3>5, SMT
    <3> QED BY <3>1, <3>2, <3>4, <3>6
  <2> QED BY <1>1, <2>1, <2>2, BeforeWrite
<1> QED
  BY <1>6, <1>7, <1>8, <1>9 DEF TimerInv

LEMMA WriteTimaStep ==
  ASSUME TimerInv, NEW value \in 0..TimaMod - 1, WriteTima(value)
  PROVE  TimerInv'
<1>1. CpuWrite /\ ~boot
  BY DEF WriteTima
<1>2. /\ counter' = counter /\ apu_fs_offset' = apu_fs_offset /\ tma' = tma
      /\ enable' = enable /\ select' = select /\ boot' = boot
      /\ speed' = speed /\ apu_edges' = apu_edges /\ dropped' = dropped
      /\ previous_signal' = previous_signal
  BY DEF WriteTima
<1>3. tima' \in 0..TimaMod - 1 /\ overflow' = 0 /\ owed' = 0
  BY <1>1, BeforeWrite DEF WriteTima, NumOK, OneRequestPerOverflow
<1>4. NumOK'
  BY <1>1, <1>2, <1>3, BeforeWrite DEF NumOK, ReloadDelay, MCycle
<1>5. FlagOK'
  BY <1>1, <1>2, BeforeWrite, Zenon DEF FlagOK
<1>6. /\ PendingReadsZero' /\ OneRequestPerOverflow' /\ EdgesAreFar'
      /\ NoDroppedEdge' /\ ReloadShowsTma' /\ BootTimerOff'
      /\ ApuEdgeThenLow' /\ ApuEdgeAtMostOnce'
  BY <1>1, <1>2, <1>3, BeforeWrite
  DEF PendingReadsZero, OneRequestPerOverflow, EdgesAreFar, NoDroppedEdge,
      ReloadShowsTma, BootTimerOff, ApuEdgeThenLow, ApuEdgeAtMostOnce
<1> QED
  BY <1>4, <1>5, <1>6, TypeParts DEF TimerInv

LEMMA WriteTmaStep ==
  ASSUME TimerInv, NEW value \in 0..TimaMod - 1, WriteTma(value)
  PROVE  TimerInv'
<1>1. CpuWrite /\ ~boot
  BY DEF WriteTma
<1>2. /\ counter' = counter /\ apu_fs_offset' = apu_fs_offset
      /\ enable' = enable /\ select' = select /\ boot' = boot
      /\ speed' = speed /\ apu_edges' = apu_edges /\ dropped' = dropped
      /\ previous_signal' = previous_signal
      /\ overflow' = overflow /\ owed' = owed /\ tma' = value
      /\ tima' = IF reloaded THEN value ELSE tima
  BY DEF WriteTma
<1>4. NumOK'
  BY <1>1, <1>2, BeforeWrite DEF NumOK, ReloadDelay, MCycle
<1>5. FlagOK'
  BY <1>1, <1>2, BeforeWrite, Zenon DEF FlagOK
<1>6. /\ PendingReadsZero' /\ OneRequestPerOverflow'
      /\ NoDroppedEdge' /\ ReloadShowsTma' /\ BootTimerOff'
      /\ ApuEdgeThenLow' /\ ApuEdgeAtMostOnce'
  BY <1>1, <1>2, BeforeWrite
  DEF PendingReadsZero, OneRequestPerOverflow, NoDroppedEdge,
      ReloadShowsTma, BootTimerOff, ApuEdgeThenLow, ApuEdgeAtMostOnce
<1>7. EdgesAreFar'
  BY <1>1, <1>2, BeforeWrite DEF EdgesAreFar, ReloadDelay
<1> QED
  BY <1>4, <1>5, <1>6, <1>7, TypeParts DEF TimerInv

LEMMA BootHandoffStep ==
  ASSUME TimerInv, NEW t_cycles \in Corrections, BootHandoff(t_cycles)
  PROVE  TimerInv'
<1>1. CpuWrite /\ boot
  BY DEF BootHandoff, wrapping_add
<1>2. /\ apu_fs_offset' = apu_fs_offset /\ tma' = tma /\ tima' = tima
      /\ enable' = enable /\ select' = select /\ boot' = FALSE
      /\ speed' = speed /\ apu_edges' = apu_edges /\ dropped' = dropped
      /\ overflow' = overflow /\ owed' = owed
  BY DEF BootHandoff, wrapping_add
<1>3. counter' \in 0..CounterMod - 1
  <2>1. counter \in Nat /\ t_cycles \in Nat
    BY <1>1, BeforeWrite, CorrectionsAssumption, CounterModAssumption
  <2> QED
    BY <2>1, CounterModAssumption DEF BootHandoff, wrapping_add
<1>4. overflow = 0
  BY <1>1, BeforeWrite DEF BootTimerOff
<1>5. NumOK'
  BY <1>1, <1>2, <1>3, BeforeWrite DEF NumOK, ReloadDelay, MCycle
<1>6. previous_signal' \in BOOLEAN
  BY SignalIsBoolean DEF BootHandoff, wrapping_add
<1>7. FlagOK'
  BY <1>1, <1>2, <1>6, BeforeWrite, Zenon DEF FlagOK
<1>8. /\ PendingReadsZero' /\ OneRequestPerOverflow' /\ EdgesAreFar'
      /\ NoDroppedEdge' /\ ReloadShowsTma' /\ BootTimerOff'
      /\ ApuEdgeThenLow' /\ ApuEdgeAtMostOnce'
  BY <1>1, <1>2, <1>4, BeforeWrite
  DEF PendingReadsZero, OneRequestPerOverflow, EdgesAreFar, NoDroppedEdge,
      ReloadShowsTma, BootTimerOff, ApuEdgeThenLow, ApuEdgeAtMostOnce
<1> QED
  BY <1>5, <1>7, <1>8, TypeParts DEF TimerInv

LEMMA NoWriteStep == TimerInv /\ NoWrite => TimerInv'
<1> SUFFICES ASSUME TimerInv, NoWrite PROVE TimerInv'
  OBVIOUS
<1>1. /\ NumOK /\ FlagOK /\ phase = "cpu" /\ phase' = "tick"
      /\ PendingReadsZero /\ NoDroppedEdge /\ OneRequestPerOverflow
      /\ EdgesAreFar /\ BootTimerOff /\ ApuEdgeThenLow
  BY TypeParts DEF TimerInv, NoWrite
<1>2. NumOK'
  BY <1>1 DEF NumOK, NoWrite
<1>3. FlagOK'
  BY <1>1, Zenon DEF FlagOK, NoWrite
<1>4. /\ PendingReadsZero' /\ OneRequestPerOverflow' /\ EdgesAreFar'
      /\ NoDroppedEdge' /\ ReloadShowsTma' /\ BootTimerOff'
      /\ ApuEdgeThenLow' /\ ApuEdgeAtMostOnce'
  BY <1>1
  DEF NoWrite, PendingReadsZero, OneRequestPerOverflow, EdgesAreFar,
      NoDroppedEdge, ReloadShowsTma, BootTimerOff, ApuEdgeThenLow,
      ApuEdgeAtMostOnce
<1> QED
  BY <1>2, <1>3, <1>4, TypeParts DEF TimerInv

LEMMA NextStep == TimerInv /\ [Next]_vars => TimerInv'
<1> SUFFICES ASSUME TimerInv, [Next]_vars PROVE TimerInv'
  OBVIOUS
<1>1. CASE Tick BY <1>1, TickStep
<1>2. CASE NoWrite BY <1>2, NoWriteStep
<1>3. CASE WriteDiv
  <2>1. speed' \in Speeds
    BY <1>3, TypeParts DEF WriteDiv, TimerInv, FlagOK
  <2> QED BY <1>3, <2>1, ResetDividerStep DEF WriteDiv
<1>4. CASE StopReset
  <2>1. speed \in Speeds
    BY TypeParts DEF TimerInv, FlagOK
  <2>2. speed' \in Speeds
    BY <1>4, <2>1 DEF StopReset, Speeds
  <2> QED BY <1>4, <2>2, ResetDividerStep DEF StopReset
<1>5. CASE \E value \in 0..TimaMod - 1 : WriteTima(value)
  BY <1>5, WriteTimaStep
<1>6. CASE \E value \in 0..TimaMod - 1 : WriteTma(value)
  BY <1>6, WriteTmaStep
<1>7. CASE \E e \in BOOLEAN, s \in Selects : WriteTac(e, s)
  BY <1>7, WriteTacStep
<1>8. CASE \E t_cycles \in Corrections : BootHandoff(t_cycles)
  BY <1>8, BootHandoffStep
<1>9. CASE UNCHANGED vars
  <2>1. NumOK' /\ FlagOK'
    BY <1>9, TypeParts, Zenon DEF vars, NumOK, FlagOK, TimerInv
  <2>2. TypeOK'
    BY <2>1, TypeParts
  <2> QED
    BY <1>9, <2>2 DEF vars, TimerInv, PendingReadsZero,
      OneRequestPerOverflow, EdgesAreFar, NoDroppedEdge, ReloadShowsTma,
      BootTimerOff, ApuEdgeThenLow, ApuEdgeAtMostOnce, DivApuSignal
<1> QED
  BY <1>1, <1>2, <1>3, <1>4, <1>5, <1>6, <1>7, <1>8, <1>9 DEF Next

(***************************************************************************)
(* The theorems                                                             *)
(***************************************************************************)

(* The inductive invariant holds in every reachable state of the timer.     *)
THEOREM TimerInvariant == Spec => []TimerInv
<1>1. Init => TimerInv
  BY InitInv
<1>2. TimerInv /\ [Next]_vars => TimerInv'
  BY NextStep
<1> QED BY <1>1, <1>2, PTL DEF Spec

(* The fields of the timer keep their types.                                *)
THEOREM TimerTypes == Spec => []TypeOK
<1>1. TimerInv => TypeOK
  BY DEF TimerInv
<1> QED BY <1>1, TimerInvariant, PTL

(* TIMA reads 0 from an overflow to its reload or its cancellation.         *)
THEOREM TimerPendingReadsZero == Spec => []PendingReadsZero
<1>1. TimerInv => PendingReadsZero
  BY DEF TimerInv
<1> QED BY <1>1, TimerInvariant, PTL

(* The CPU finds TIMA = TMA throughout the T-cycle of a reload.             *)
THEOREM TimerReloadShowsTma == Spec => []ReloadShowsTma
<1>1. TimerInv => ReloadShowsTma
  BY DEF TimerInv
<1> QED BY <1>1, TimerInvariant, PTL

(* No falling edge of the selected signal is ever lost to a pending         *)
(* overflow.                                                                *)
THEOREM TimerNoDroppedEdge == Spec => []NoDroppedEdge
<1>1. TimerInv => NoDroppedEdge
  BY DEF TimerInv
<1> QED BY <1>1, TimerInvariant, PTL

(* Overflows and interrupt requests or cancellations balance.               *)
THEOREM TimerOneRequestPerOverflow == Spec => []OneRequestPerOverflow
<1>1. TimerInv => OneRequestPerOverflow
  BY DEF TimerInv
<1> QED BY <1>1, TimerInvariant, PTL

(* A T-cycle clocks the frame sequencer at most once.                       *)
THEOREM TimerApuEdgeAtMostOnce == Spec => []ApuEdgeAtMostOnce
<1>1. TimerInv => ApuEdgeAtMostOnce
  BY DEF TimerInv
<1> QED BY <1>1, TimerInvariant, PTL

(* TIMA counts exactly once per selected period.                            *)
THEOREM TimerCountsOncePerPeriod == Spec => CountsOncePerPeriod
<1>1. TimerInv /\ [Next]_vars
        => [Tick => (CurrentSignal(enable, select, counter)
                      /\ ~CurrentSignal(enable, select, counter'))
                   <=> (enable /\ counter' % (2 * HalfPeriod[select]) = 0)]_vars
  <2> SUFFICES ASSUME TimerInv, Tick
               PROVE  (CurrentSignal(enable, select, counter)
                        /\ ~CurrentSignal(enable, select, counter'))
                      <=> (enable /\ counter' % (2 * HalfPeriod[select]) = 0)
    OBVIOUS
  <2>1. TypeOK
    BY DEF TimerInv
  <2>2. /\ HalfPeriod[select] \in Nat
        /\ Pos \in 0..2 * HalfPeriod[select] - 1
    BY <2>1, Position
  <2> QED BY <2>1, <2>2, TickFalls
<1> QED BY <1>1, TimerInvariant, PTL DEF Spec, CountsOncePerPeriod

(* A tick of an enabled timer brings its next request one T-cycle closer.   *)
LEMMA TickBringsRequest ==
  ASSUME TimerInv, Tick, enable
  PROVE  IF UntilRequest = 1 THEN irq' ELSE ~irq' /\ UntilRequest' = UntilRequest - 1
<1> DEFINE P == 2 * HalfPeriod[select]
           M == TimaMod - 1
<1>1. TypeOK
  BY DEF TimerInv
<1>2. P \in Nat /\ P > 1 /\ Pos \in 0..P - 1
  BY <1>1, Position
<1>3. counter' % P = IF Pos + 1 = P THEN 0 ELSE Pos + 1
  BY <1>1, TickFalls
<1>4. tima \in 0..M /\ M \in Nat /\ overflow \in 0..4 /\ TimaMod = M + 1
  BY <1>1, TimaModAssumption DEF TypeOK, ReloadDelay
<1>5. select' = select
  BY DEF Tick, wrapping_add, advance_overflow, reload_tima
<1>6. UntilRequest = IF overflow > 0 THEN overflow ELSE (M - tima) * P + (P - Pos) + 4
  BY DEF UntilRequest, Pos, ReloadDelay
<1>7. UntilRequest' = IF overflow' > 0 THEN overflow'
                      ELSE (M - tima') * P + (P - (counter' % P)) + 4
  BY <1>5 DEF UntilRequest, ReloadDelay
<1>8. CASE overflow > 0
  <2>1. overflow' = overflow - 1 /\ irq' = (overflow = 1)
    BY <1>8, PendingTick
  <2>2. UntilRequest = overflow
    BY <1>6, <1>8
  <2>3. overflow # 1 => UntilRequest' = overflow - 1
    <3> HIDE DEF P, M
    <3> QED BY <1>4, <1>7, <1>8, <2>1
  <2> QED BY <2>1, <2>2, <2>3
<1>9. CASE overflow = 0
  <2> DEFINE fall == Pos + 1 = P
  <2>1. /\ tima' = IF fall THEN (tima + 1) % TimaMod ELSE tima
        /\ overflow' = IF fall /\ tima = M THEN 4 ELSE 0
        /\ irq' = FALSE
    BY <1>9, IdleTick
  <2> HIDE DEF P, M
  <2>2. UntilRequest = (M - tima) * P + (P - Pos) + 4 /\ (M - tima) * P \in Nat
    BY <1>2, <1>4, <1>6, <1>9
  <2>3. CASE ~fall
    <3>1. tima' = tima /\ overflow' = 0 /\ counter' % P = Pos + 1
      BY <1>3, <2>1, <2>3
    <3> QED BY <1>2, <1>4, <1>7, <2>1, <2>2, <3>1
  <2>4. CASE fall /\ tima = M
    <3>1. overflow' = 4 /\ (M - tima) * P = 0
      BY <1>2, <1>4, <2>1, <2>4
    <3> QED BY <1>2, <1>4, <1>7, <2>1, <2>2, <2>4, <3>1
  <2>5. CASE fall /\ tima # M
    <3>1. tima' = tima + 1 /\ overflow' = 0 /\ counter' % P = 0
      BY <1>3, <1>4, <2>1, <2>5
    <3>2. (M - (tima + 1)) * P = (M - tima) * P - P
      BY <1>2, <1>4
    <3> QED BY <1>2, <1>4, <1>7, <2>1, <2>2, <2>5, <3>1, <3>2
  <2> QED BY <2>3, <2>4, <2>5
<1> QED BY <1>4, <1>8, <1>9

(* An enabled timer that is left alone requests its interrupt in exactly    *)
(* the T-cycle its registers and the counter name (tick_t_cycle_for_speed). *)
THEOREM TimerRequestComesOnTime == Spec => RequestComesOnTime
<1>1. TimerInv /\ [Next]_vars
        => [Tick /\ enable => IF UntilRequest = 1 THEN irq'
                              ELSE ~irq' /\ UntilRequest' = UntilRequest - 1]_vars
  BY TickBringsRequest
<1> QED BY <1>1, TimerInvariant, PTL DEF Spec, RequestComesOnTime
=============================================================================
