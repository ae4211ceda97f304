------------------------------- MODULE Dmg07 -------------------------------
(***************************************************************************)
(* The DMG-07 four-player adapter (link/dmg07.rs) as operators over its    *)
(* state a: the protocol (phase and the byte index in it, the ports        *)
(* acknowledged, RATE and SIZE, the marker counters), the double packet    *)
(* ring it rebroadcasts from, and the byte engine that clocks the ports.   *)
(* got is what the ports sent in a byte: port -> byte, or NoByte for a     *)
(* port that completed none.  The engine's clock is abstracted: the delay  *)
(* it computes is kept, the T-cycles it counts are not.                    *)
(***************************************************************************)
EXTENDS Serial

CONSTANTS Ports    \* the adapter ports 1..4 with a console attached

ASSUME PortsAssumption == Ports \subseteq 1..4 /\ 1 \in Ports

PingHeader == 254      \* $FE
Ack == 136             \* $88
Marker == 170          \* $AA
Indicator == 204       \* $CC
RestartMarker == 255   \* $FF
PacketBytes == 4       \* of a ping packet and of an indicator

packet_len(size) == 4 * size
ring_len(size) == 8 * size

ZeroSlots == [slot \in 0..7 |-> [offset \in 0..3 |-> 0]]

NewAdapter ==
  [phase |-> "Ping", idx |-> 0, connected |-> {}, resp |-> [p \in 1..4 |-> 0],
   rate |-> 0, size |-> 1, tmark |-> 0, rmark |-> 0, restart |-> FALSE,
   slots |-> ZeroSlots, pos |-> 0, queued |-> 0, clocked |-> {}, delay |-> 0]

connection_bit == <<16, 32, 64, 128>>

status_byte_for(a, port) ==
  LET bit(p) == IF p \in a.connected THEN connection_bit[p] ELSE 0
  IN port + bit(1) + bit(2) + bit(3) + bit(4)

incoming_byte_for(a, port) ==
  CASE a.phase = "Ping" ->
         IF a.idx = 0 THEN PingHeader ELSE status_byte_for(a, port)
    [] a.phase = "TransmissionIndicator" -> Indicator
    [] a.phase = "Transmission" ->
         LET r == a.pos % ring_len(a.size)
         IN a.slots[r \div a.size][r % a.size]
    [] a.phase = "PingRestartIndicator" -> RestartMarker

-----------------------------------------------------------------------------
\* The reply stream of each port is read by its own index, which need not
\* agree with the byte index of the packet: 0 and 1 expect an ACK, 2 is the
\* RATE and 3 the SIZE (P1's only).
consume_ping_response_byte(a, got) ==
  LET acked(p) == got[p] = Ack
      p1 == got[1]
  IN [a EXCEPT
       !.connected = {p \in 1..4 :
          CASE a.resp[p] = 0 -> p \in a.connected /\ acked(p)
            [] a.resp[p] = 1 -> acked(p)
            [] OTHER -> p \in a.connected},
       !.resp = [p \in 1..4 |->
          CASE a.resp[p] \in {0, 1} -> IF acked(p) THEN a.resp[p] + 1 ELSE 0
            [] a.resp[p] = 2 -> 3
            [] OTHER -> 0],
       !.rate = IF a.resp[1] = 2 /\ p1 # NoByte THEN p1 ELSE @,
       !.size = IF a.resp[1] = 3 /\ p1 \in 1..4 THEN p1 ELSE @]

track_ping_transition_marker(a, p1) ==
  [a EXCEPT !.tmark = IF p1 = Marker THEN @ + 1 ELSE IF @ < 3 THEN 0 ELSE @]

complete_ping_byte(a, got) ==
  LET marking == a.tmark > 0 \/ (a.resp[1] = 0 /\ got[1] = Marker)
      b == IF marking THEN track_ping_transition_marker(a, got[1])
           ELSE consume_ping_response_byte(a, got)
  IN IF a.idx + 1 # PacketBytes THEN [b EXCEPT !.idx = @ + 1]
     ELSE [b EXCEPT !.idx = 0, !.tmark = 0,
                    !.phase = IF b.tmark >= 3 THEN "TransmissionIndicator"
                              ELSE "Ping"]

complete_transmission_indicator_byte(a) ==
  IF a.idx + 1 # PacketBytes THEN [a EXCEPT !.idx = @ + 1]
  ELSE [a EXCEPT !.idx = 0, !.phase = "Transmission",
                 !.slots = ZeroSlots, !.pos = 0]

\* Variant: the payload window starts with the leading byte.
capture_window_early(a, got) ==
  LET at == a.pos % packet_len(a.size)
      target == (a.pos + packet_len(a.size)) % ring_len(a.size)
      base == target \div a.size
      value(p) == IF p \in a.connected /\ got[p] # NoByte THEN got[p] ELSE 0
  IN IF at >= a.size THEN a
     ELSE [a EXCEPT !.slots =
            [slot \in 0..7 |->
               IF slot \in base..(base + 3)
               THEN [@[slot] EXCEPT ![target % a.size] = value(slot - base + 1)]
               ELSE @[slot]]]

\* The SIZE bytes after the leading one fill the other half of the ring.
capture_current_byte(a, got) ==
  LET at == a.pos % packet_len(a.size)
      target == (a.pos + packet_len(a.size) - 1) % ring_len(a.size)
      base == target \div a.size
      value(p) == IF p \in a.connected /\ got[p] # NoByte THEN got[p] ELSE 0
  IN IF at = 0 \/ at > a.size THEN a
     ELSE [a EXCEPT !.slots =
            [slot \in 0..7 |->
               IF slot \in base..(base + 3)
               THEN [@[slot] EXCEPT ![target % a.size] = value(slot - base + 1)]
               ELSE @[slot]]]

track_restart_marker(a, p1) ==
  LET seen == IF a.idx = 0 THEN 0 ELSE a.rmark
      count == IF p1 = RestartMarker THEN seen + 1
               ELSE IF seen < 3 THEN 0 ELSE seen
  IN [a EXCEPT !.rmark = count,
               !.restart = @ \/ (p1 = RestartMarker /\ count >= 3)]

complete_transmission_byte(a, got) ==
  LET b == track_restart_marker(capture_current_byte(a, got), got[1])
      c == [b EXCEPT !.pos = (@ + 1) % ring_len(a.size)]
  IN IF a.idx + 1 # packet_len(a.size) THEN [c EXCEPT !.idx = @ + 1]
     ELSE [c EXCEPT !.idx = 0, !.rmark = 0, !.restart = FALSE,
                    !.phase = IF c.restart THEN "PingRestartIndicator"
                              ELSE "Transmission"]

complete_ping_restart_indicator_byte(a) ==
  IF a.idx + 1 # PacketBytes THEN [a EXCEPT !.idx = @ + 1]
  ELSE [a EXCEPT !.idx = 0, !.phase = "Ping", !.connected = {},
                 !.resp = [p \in 1..4 |-> 0]]

-----------------------------------------------------------------------------
BitPeriod == 67
PingInterByteDelay == 5956
InterByteDelay(rate) == 3720 + (rate \div 16) * 445
RateStep(rate) == (rate % 16) * 4194
PingInterPacketDelay(rate) == 51548 + RateStep(rate)
MinimumPacketPeriod(rate) == 71303 + RateStep(rate)

\* T-cycles from the first bit of a transmission packet to its last.
ElapsedInPacket(rate, size) ==
  packet_len(size) * 7 * BitPeriod
  + (packet_len(size) - 1) * InterByteDelay(rate)

PacketBoundaryDelay(rate, size) ==
  LET short == MinimumPacketPeriod(rate) - ElapsedInPacket(rate, size)
  IN IF short > InterByteDelay(rate) THEN short ELSE InterByteDelay(rate)

\* The delay after byte idx of a phase, with RATE and SIZE as it left them.
delay_after_completed_phase(phase, idx, a) ==
  CASE phase = "Ping" ->
         IF idx + 1 = PacketBytes THEN PingInterPacketDelay(a.rate)
         ELSE PingInterByteDelay
    [] phase = "Transmission" /\ idx + 1 = packet_len(a.size) ->
         PacketBoundaryDelay(a.rate, a.size)
    [] OTHER -> InterByteDelay(a.rate)

complete_byte(a, got) ==
  LET b == CASE a.phase = "Ping" -> complete_ping_byte(a, got)
             [] a.phase = "TransmissionIndicator" ->
                  complete_transmission_indicator_byte(a)
             [] a.phase = "Transmission" -> complete_transmission_byte(a, got)
             [] a.phase = "PingRestartIndicator" ->
                  complete_ping_restart_indicator_byte(a)
  IN [b EXCEPT !.queued = 0, !.clocked = {},
               !.delay = delay_after_completed_phase(a.phase, a.idx, b)]

AdapterTypeOK(a) ==
  /\ a.phase \in {"Ping", "TransmissionIndicator", "Transmission",
                  "PingRestartIndicator"}
  /\ a.idx \in 0..15
  /\ a.connected \subseteq 1..4
  /\ a.resp \in [1..4 -> 0..3]
  /\ a.rate \in 0..255
  /\ a.size \in 1..4
  /\ a.pos \in 0..31
  /\ a.queued \in 0..ByteBits
  /\ a.clocked \subseteq Ports
=============================================================================
