------------------------------- MODULE Serial -------------------------------
(***************************************************************************)
(* The serial port of one console (gb-core/src/serial.rs) as operators     *)
(* over its state s, a record:                                             *)
(*   sb       SB as the tuple of bits it holds, most significant first     *)
(*   internal SC.0, high  SC.1 (the CGB fast clock), req  SC.7             *)
(*   bits     bits shifted in the transfer under way                       *)
(*   counter  the free-running clock divider                               *)
(*   pulses   external clock pulses queued and not yet consumed            *)
(*   peer     what the port reads: Open line, Loop back, or a staged byte  *)
(*   staged   the byte the next transfer sends (SB as last written)        *)
(*   out      the byte the transfer under way sends                        *)
(*   inc      the bits still to come of the byte latched at the first bit  *)
(*   latest   the byte whose transfer ended in this T-cycle, else NoByte   *)
(*                                                                         *)
(* No decision of the port depends on the value of a byte, so bytes are    *)
(* opaque and bit i of byte v is the pair <<v, i>>.  The open line reads   *)
(* ones and an exhausted shift register zeros: the bits of the bytes $FF   *)
(* and $00 are the same in every position.  ByteBits is 8 in the code.     *)
(***************************************************************************)
EXTENDS Naturals, Sequences

CONSTANTS ByteBits,    \* bits in a byte (8 in the code)
          MaxPulses,   \* the saturation value of the u8 pulse counter
          EdgePeriod   \* <<speed, high>> -> T-cycles between clock edges

ASSUME SerialConstants ==
  /\ ByteBits \in Nat \ {0}
  /\ MaxPulses \in Nat \ {0}
  /\ \A c \in DOMAIN EdgePeriod : EdgePeriod[c] \in Nat \ {0}

\* Values that are no byte: the peers that stage none, and "no byte".
Open == 256
Loop == 257
NoByte == 258

Bit(v, i) == <<v, IF v \in {0, 255} THEN 0 ELSE i>>

Bits(v) == [i \in 1..ByteBits |-> Bit(v, i)]

\* The divider only matters modulo the longest period.
CounterMod == EdgePeriod[<<"Normal", FALSE>>]

clock_counter_next(s) == (s.counter + 1) % CounterMod

internal_clock_edge(s, speed) ==
  (s.counter + 1) % EdgePeriod[<<speed, s.high>>] = 0

PowerOn(counter) ==
  [sb |-> Bits(0), internal |-> FALSE, high |-> FALSE, req |-> FALSE,
   bits |-> 0, counter |-> counter, pulses |-> 0, peer |-> Open,
   staged |-> 0, out |-> 0, inc |-> <<>>, latest |-> NoByte]

write_sb(s, v) == [s EXCEPT !.sb = Bits(v), !.staged = v]

\* A write to SC restarts or drops the transfer; SB and the staged byte stay.
write_sc(s, req, internal, high) ==
  [s EXCEPT !.internal = internal, !.high = high, !.req = req, !.bits = 0,
            !.pulses = 0, !.out = 0, !.inc = <<>>, !.latest = NoByte]

AcceptsExternalPulse(s) == s.req /\ ~s.internal

queue_external_clock_pulse(s) ==
  IF AcceptsExternalPulse(s) /\ s.pulses < MaxPulses
  THEN [s EXCEPT !.pulses = @ + 1] ELSE s

endpoint_outgoing_byte(s) == IF s.req /\ s.bits # 0 THEN s.out ELSE s.staged

\* Variant: the received byte is shifted in least significant bit first.
shift_lsb_first(s) ==
  LET inc == IF s.bits = 0 /\ s.peer \notin {Open, Loop} THEN Bits(s.peer) ELSE s.inc
      bit == IF inc = <<>> THEN Bit(255, 0) ELSE inc[Len(inc)]
      sb == Append(Tail(s.sb), bit)
      rest == IF inc = <<>> THEN inc ELSE SubSeq(inc, 1, Len(inc) - 1)
      out == IF s.bits = 0 THEN s.staged ELSE s.out
  IN IF s.bits + 1 = ByteBits
     THEN [s EXCEPT !.sb = sb, !.req = FALSE, !.bits = 0, !.pulses = 0,
                    !.out = 0, !.inc = <<>>, !.latest = out]
     ELSE [s EXCEPT !.sb = sb, !.bits = @ + 1, !.out = out, !.inc = rest]

\* One clock: the first bit of a transfer latches the byte to send and, when
\* the peer has staged one, the byte to receive.
shift_one_bit(s) ==
  LET first == s.bits = 0
      out == IF first THEN s.staged ELSE s.out
      inc == IF ~first THEN s.inc
             ELSE IF s.peer \in {Open, Loop} THEN <<>> ELSE Bits(s.peer)
      bit == IF s.peer = Open THEN Bit(255, 0)
             ELSE IF s.peer = Loop THEN Bit(out, s.bits + 1)
             ELSE IF inc = <<>> THEN Bit(0, 0) ELSE Head(inc)
      rest == IF s.peer \in {Open, Loop} \/ inc = <<>> THEN inc ELSE Tail(inc)
      sb == Append(Tail(s.sb), bit)
  IN IF s.bits + 1 = ByteBits
     THEN [s EXCEPT !.sb = sb, !.req = FALSE, !.bits = 0, !.pulses = 0,
                    !.out = 0, !.inc = <<>>, !.latest = out]
     ELSE [s EXCEPT !.sb = sb, !.bits = @ + 1, !.out = out, !.inc = rest]

\* Variant: a queued pulse is seen but never taken off the queue.
tick_keeps_pulse(s, speed) ==
  IF s.req /\ ~s.internal /\ s.pulses # 0
  THEN LET t == [s EXCEPT !.latest = NoByte] IN
       [shift_one_bit(t) EXCEPT !.pulses = s.pulses] ELSE s

\* The shift happens on this port's own edge, or on a queued pulse.
tick_t_cycle(s, speed) ==
  LET t == [s EXCEPT !.latest = NoByte, !.counter = clock_counter_next(s)]
  IN IF ~s.req THEN t
     ELSE IF s.internal
          THEN IF internal_clock_edge(s, speed) THEN shift_one_bit(t) ELSE t
          ELSE IF s.pulses # 0
               THEN shift_one_bit([t EXCEPT !.pulses = @ - 1]) ELSE t

SerialTypeOK(s, Bytes) ==
  /\ s.sb \in [1..ByteBits -> {<<v, i>> : v \in Bytes, i \in 0..ByteBits}]
  /\ {s.internal, s.high, s.req} \subseteq BOOLEAN
  /\ s.bits \in 0..(ByteBits - 1)
  /\ s.counter \in 0..(CounterMod - 1)
  /\ s.pulses \in 0..MaxPulses
  /\ s.peer \in Bytes \cup {Open, Loop}
  /\ {s.staged, s.out} \subseteq Bytes
  /\ s.latest \in Bytes \cup {NoByte}
=============================================================================
