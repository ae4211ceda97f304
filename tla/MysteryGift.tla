---------------------------- MODULE MysteryGift ----------------------------
(***************************************************************************)
(* The Mystery Gift exchange over infrared light                            *)
(* (crates/gb-core/src/link/mystery_gift_protocol.rs): the accessory plays  *)
(* role A of the protocol to the game's role B.  A block of data is three   *)
(* messages, header, payload and checksum; the other side answers it with   *)
(* a one-byte message.  A message is a train of marks (light) and spaces    *)
(* (dark) whose spaces carry the bits.                                      *)
(*                                                                          *)
(* The game is not in the repository.  It is taken to speak the same        *)
(* protocol with the sending and receiving actions exchanged, which is what *)
(* the accessory relies on; its own steps are the same operators.           *)
(*                                                                          *)
(* Time is in units of FAST_INTERRUPT_T_CYCLES.  A step of the medium is    *)
(* one mark with the space before it, so that the observer sees two         *)
(* transitions; the timeouts are allowed to expire at any moment of a wait. *)
(* A mark may be blocked on its way; no light comes from elsewhere.         *)
(***************************************************************************)
EXTENDS Integers, Sequences, SequencesExt, FiniteSets

CONSTANTS
  ByteBits,         \* bits of a byte: 8
  MESSAGE_PREFIX,   \* the first byte of a header
  REGION_PREFIX,    \* the block that announces a region
  ACK_OKAY,         \* the answer to a good block
  RegionCode,       \* the region of the game
  Regions,          \* the regions the accessory follows: is_supported_western_region
  FixedRegions,     \* the regions the user may fix: MysteryGiftRegion::Fixed
  Payloads,         \* what the user may pick as the gift, sequences of bytes
  GamePayload,      \* what the game sends back
  MaxLen,           \* MAX_RECEIVED_BLOCK_LEN
  MaxNoise,         \* bound: how often the light is disturbed
  MaxPicks,         \* bound: how often the user picks another gift
  None              \* the absent value

Byte == 0..(2^ByteBits - 1)

ASSUME GiftAssumption ==
  /\ ByteBits \in Nat \ {0}
  /\ {MESSAGE_PREFIX, REGION_PREFIX, ACK_OKAY, RegionCode} \subseteq Byte
  /\ Payloads \subseteq Seq(Byte) \ {<<>>}
  /\ MaxLen \in Nat

Sides == {"A", "B"}
Other(side) == IF side = "A" THEN "B" ELSE "A"

VARIABLES
  peer,     \* for each side: [next, phase, rx, out, region, sent];
            \* sent, the last block it encoded, is history
  payload,  \* the gift the accessory carries
  region,   \* the region it is set to, None for the game's: MysteryGiftRegion
  dark,     \* for each side: how long it has emitted nothing, up to Long
  noise,    \* bound: disturbances so far
  picks,    \* bound: gifts picked so far
  got,      \* history: [by, bytes], the block a side accepted in this
            \* step, or None
  delivered \* history: the gift the game accepted since the accessory last
            \* began an exchange, or None

vars == <<peer, payload, region, dark, noise, picks, got, delivered>>

-----------------------------------------------------------------------------
(* Marks and spaces.                                                        *)

Long == 60           \* IR_HELLO_LONG_SPACE, IR_BLOCK_LEAD_SPACE
Preamble == 20       \* IR_HELLO_MID_SPACE, IR_MESSAGE_PREAMBLE_SPACE
Trailer == 16        \* IR_MESSAGE_TRAILER_SPACE
Short == 4           \* IR_HELLO_SHORT_SPACE, IR_MESSAGE_ZERO_SPACE
One == 10            \* IR_MESSAGE_ONE_SPACE
Threshold == 9       \* IR_SPACE_ZERO_ONE_THRESHOLD
MinPreamble == 12    \* IR_MIN_PREAMBLE_SPACE
BitMark == 2         \* IR_MESSAGE_BIT_MARK
LongMark == 4        \* the marks of a hello, a preamble and a trailer

is_short_mark(units) == units \in 1..12

\* A mark and the space before it.
Mark(space, light) == [space |-> space, light |-> light]

encode_hello == <<Mark(Long, LongMark), Mark(Preamble, LongMark)>>

\* The bits of a byte, the highest first.
BitsOf(byte) == [i \in 1..ByteBits |-> (byte \div 2^(ByteBits - i)) % 2]
AllBits(bytes) == FlattenSeq([i \in 1..Len(bytes) |-> BitsOf(bytes[i])])
ByteAt(bits, n) ==
  LET b(i) == bits[ByteBits * (n - 1) + i]
  IN  FoldLeft(LAMBDA sum, i : 2 * sum + b(i), 0, [i \in 1..ByteBits |-> i])
BytesOf(bits) == [n \in 1..(Len(bits) \div ByteBits) |-> ByteAt(bits, n)]

\* A preamble, a mark before each bit's space, and the trailer, whose mark
\* ends the last space.
encode_data_message(bytes, lead) ==
  LET bits == AllBits(bytes)
      after(i) == IF i = 0 THEN Preamble ELSE IF bits[i] = 0 THEN Short ELSE One
  IN  <<Mark(lead, LongMark)>>
        \o [i \in 1..Len(bits) |-> Mark(after(i - 1), BitMark)]
        \o <<Mark(after(Len(bits)), LongMark)>>

Words == 2^(2 * ByteBits)
Sum(bytes) == FoldLeft(LAMBDA sum, byte : sum + byte, 0, bytes)
data_block_checksum(bytes) == (MESSAGE_PREFIX + Len(bytes) + Sum(bytes)) % Words
LittleEndian(word) == <<word % 2^ByteBits, word \div 2^ByteBits>>

encode_data_block(bytes) ==
  encode_data_message(<<MESSAGE_PREFIX, Len(bytes)>>, Long)
    \o encode_data_message(bytes, Trailer + Short)
    \o encode_data_message(LittleEndian(data_block_checksum(bytes)), Trailer + Short)

encode_block_ack(status) == encode_data_message(<<status>>, Long)

-----------------------------------------------------------------------------
(* Receivers.  A transition ends a stretch of light or dark; how long it    *)
(* was is what the receiver learns.                                         *)

Message(len) == [len |-> len, state |-> "WaitingForPreambleMark", bits |-> <<>>]

AfterLight(m, units) ==
  CASE m.state = "WaitingForPreambleMark" /\ is_short_mark(units) ->
         [m EXCEPT !.state = "WaitingForPreambleSpace"]
    [] m.state = "WaitingForTrailerMark" /\ is_short_mark(units) ->
         [m EXCEPT !.state = "Done"]
    [] OTHER -> m

AfterDark(m, units) ==
  CASE m.state = "WaitingForPreambleSpace" /\ units >= MinPreamble ->
         [m EXCEPT !.state = IF m.len = 0 THEN "WaitingForTrailerMark" ELSE "ReceivingBits"]
    [] m.state = "ReceivingBits" ->
         [m EXCEPT !.bits = Append(@, IF units < Threshold THEN 0 ELSE 1),
                   !.state = IF Len(m.bits) + 1 = m.len * ByteBits
                             THEN "WaitingForTrailerMark" ELSE @]
    [] OTHER -> m

Block(stage, m, bytes, sum) ==
  [kind |-> "block", stage |-> stage, msg |-> m, bytes |-> bytes, sum |-> sum]

FailedBlock == Block("Failed", Message(0), <<>>, 0)

\* Slip: the checksum is read but not compared.
advance_message_trusting(r) ==
  LET bytes == BytesOf(r.msg.bits) IN
  CASE r.stage = "Header" ->
         IF bytes[1] # MESSAGE_PREFIX \/ bytes[2] > MaxLen THEN FailedBlock
         ELSE Block("Payload", Message(bytes[2]), <<>>, MESSAGE_PREFIX + bytes[2])
    [] r.stage = "Payload" ->
         Block("Checksum", Message(2), bytes, (r.sum + Sum(bytes)) % Words)
    [] r.stage = "Checksum" -> Block("Done", Message(0), r.bytes, 0)

\* A message of the block is complete.
advance_message(r) ==
  LET bytes == BytesOf(r.msg.bits) IN
  CASE r.stage = "Header" ->
         IF bytes[1] # MESSAGE_PREFIX \/ bytes[2] > MaxLen THEN FailedBlock
         ELSE Block("Payload", Message(bytes[2]), <<>>, MESSAGE_PREFIX + bytes[2])
    [] r.stage = "Payload" ->
         Block("Checksum", Message(2), bytes, (r.sum + Sum(bytes)) % Words)
    [] r.stage = "Checksum" ->
         IF bytes[1] + 2^ByteBits * bytes[2] = r.sum
         THEN Block("Done", Message(0), r.bytes, 0) ELSE FailedBlock

HelloReceiver == [kind |-> "hello", short_pulses_seen |-> 0]
AckReceiver == [kind |-> "ack", msg |-> Message(1)]
DataBlockReceiver == Block("Header", Message(2), <<>>, 0)

\* What a receiver makes of a stretch of dark and then one of light.
observe_transition(r, space, light) ==
  CASE r.kind = "hello" ->
         [r EXCEPT !.short_pulses_seen = IF is_short_mark(light) THEN @ + 1 ELSE @]
    [] r.kind = "ack" -> [r EXCEPT !.msg = AfterLight(AfterDark(@, space), light)]
    [] r.kind = "block" ->
         LET m == AfterLight(AfterDark(r.msg, space), light)
         IN  IF m.state = "Done" THEN advance_message([r EXCEPT !.msg = m])
             ELSE [r EXCEPT !.msg = m]

Complete(r) ==
  CASE r.kind = "hello" -> r.short_pulses_seen >= 2
    [] r.kind = "ack" -> r.msg.state = "Done"
    [] r.kind = "block" -> r.stage \in {"Done", "Failed"}

-----------------------------------------------------------------------------
(* The exchange.                                                            *)

Hello(act) == [act |-> act, what |-> "Hello"]
Send(what) == [act |-> "Send", what |-> what]
Receive(what) == [act |-> "Receive", what |-> what]

\* What role A does, in order.
protocol_actions ==
  <<Hello("Send"), Send("RegionPrefix"), Send("Empty"),
    Hello("Receive"), Receive("RegionCode"), Receive("Empty"),
    Hello("Send"), Send("Payload"), Send("Empty"),
    Hello("Receive"), Receive("RegionPrefix"), Receive("Empty"),
    Hello("Send"), Send("ResolvedRegionCode"), Send("Empty"),
    Hello("Receive"), Receive("GamePayload"), Receive("Empty"),
    Hello("Send"), Send("Empty")>>

\* What role B does: the same with the directions exchanged.
GameActions ==
  [i \in DOMAIN protocol_actions |->
     [protocol_actions[i] EXCEPT !.act = IF @ = "Send" THEN "Receive" ELSE "Send"]]

Actions(side) == IF side = "A" THEN protocol_actions ELSE GameActions

\* The bytes of a block, by its name; None while they are not known.
block_source_bytes(side, p, what) ==
  CASE what = "RegionPrefix" -> <<REGION_PREFIX>>
    [] what = "RegionCode" -> <<RegionCode>>
    [] what = "ResolvedRegionCode" -> IF p.region = None THEN None ELSE <<p.region>>
    [] what = "Payload" -> payload
    [] what = "GamePayload" -> GamePayload
    [] what = "Empty" -> <<>>

\* Whether a block is what the action expects.
Expected(what, bytes) ==
  CASE what = "RegionCode" -> Len(bytes) = 1 /\ (region = None => bytes[1] \in Regions)
    [] what = "ResolvedRegionCode" -> bytes = <<RegionCode>>
    [] what = "RegionPrefix" -> bytes = <<REGION_PREFIX>>
    [] what = "Empty" -> bytes = <<>>
    [] what \in {"GamePayload", "Payload"} -> bytes # <<>>

NewPeer ==
  [next |-> 1, phase |-> "Idle", rx |-> None, out |-> <<>>, region |-> None,
   sent |-> None]

\* The exchange from its start.
restart_exchange(side, p) ==
  [NewPeer EXCEPT !.sent = p.sent, !.region = IF side = "A" THEN region ELSE None]

fail_and_retry(p) == [p EXCEPT !.phase = "Failed", !.rx = None, !.out = <<>>]

\* The next action of the script; after the last one the exchange is over.
start_next_action(side, p) ==
  LET script == Actions(side)
      a == script[p.next]
      bytes == block_source_bytes(side, p, a.what)
      q == [p EXCEPT !.next = @ + 1, !.rx = None]
  IN
  CASE p.next > Len(script) -> [p EXCEPT !.phase = "Completed", !.rx = None]
    [] p.next <= Len(script) /\ a = Hello("Send") ->
         [q EXCEPT !.phase = "SendingAction", !.out = encode_hello]
    [] p.next <= Len(script) /\ a = Hello("Receive") ->
         [q EXCEPT !.phase = "ReceivingHello", !.rx = HelloReceiver]
    [] p.next <= Len(script) /\ a.act = "Send" /\ a.what # "Hello" ->
         IF bytes = None THEN fail_and_retry(q)
         ELSE [q EXCEPT !.phase = "SendingBlock", !.out = encode_data_block(bytes),
                        !.sent = bytes]
    [] p.next <= Len(script) /\ a.act = "Receive" /\ a.what # "Hello" ->
         [q EXCEPT !.phase = "ReceivingBlock", !.rx = DataBlockReceiver]

\* Slip: a side that waits for an answer waits for ever.
receiver_waiting_unanswered(p) ==
  p.phase \in {"ReceivingHello", "WaitingHelloResponse", "ReceivingBlock"}

receiver_waiting(p) ==
  p.phase \in {"ReceivingHello", "WaitingHelloResponse", "ReceivingBlock", "WaitingBlockAck"}

Sending(p) ==
  p.phase \in {"SendingAction", "RespondingToHello", "SendingBlock", "SendingBlockAck"}

\* A good block is kept and answered; any other ends the exchange.
handle_received_block(side, p, bytes) ==
  LET what == Actions(side)[p.next - 1].what IN
  IF ~Expected(what, bytes) THEN fail_and_retry(p)
  ELSE [p EXCEPT !.region = IF what # "RegionCode" THEN @
                            ELSE IF region = None THEN bytes[1] ELSE region,
                 !.phase = "SendingBlockAck", !.rx = None,
                 !.out = encode_block_ack(ACK_OKAY)]

\* The receiver has what it waited for, or has given up on it.
finish_receiver_phase(side, p) ==
  CASE p.phase = "ReceivingHello" ->
         [p EXCEPT !.phase = "RespondingToHello", !.rx = None, !.out = encode_hello]
    [] p.phase = "WaitingHelloResponse" -> start_next_action(side, p)
    [] p.phase = "ReceivingBlock" ->
         IF p.rx.stage = "Failed" THEN fail_and_retry(p)
         ELSE handle_received_block(side, p, p.rx.bytes)
    [] p.phase = "WaitingBlockAck" ->
         IF BytesOf(p.rx.msg.bits) = <<ACK_OKAY>> THEN start_next_action(side, p)
         ELSE fail_and_retry(p)

finish_sending_phase(side, p) ==
  CASE p.phase = "SendingAction" ->
         [p EXCEPT !.phase = "WaitingHelloResponse", !.rx = HelloReceiver]
    [] p.phase \in {"RespondingToHello", "SendingBlockAck"} -> start_next_action(side, p)
    [] p.phase = "SendingBlock" ->
         [p EXCEPT !.phase = "WaitingBlockAck", !.rx = AckReceiver]

\* Light reaches a side: it matters only while the side receives.
observe_game_emitter(side, p, space, light) ==
  IF ~(p.phase \in {"ReceivingHello", "WaitingHelloResponse", "ReceivingBlock", "WaitingBlockAck"})
  THEN p
  ELSE LET seen == [p EXCEPT !.rx = observe_transition(@, space, light)]
       IN  IF Complete(seen.rx) THEN finish_receiver_phase(side, seen) ELSE seen

\* The block a side accepts with this light, if it does.
Accepted(p, space, light) ==
  IF p.phase # "ReceivingBlock" THEN None
  ELSE LET r == observe_transition(p.rx, space, light)
       IN  IF r.stage = "Done" THEN r.bytes ELSE None

-----------------------------------------------------------------------------
(* Steps of the accessory and the game, and of the light between them.      *)

Capped(units) == IF units > Long THEN Long ELSE units

Start(side) ==
  /\ peer[side].phase = "Idle"
  /\ peer' = [peer EXCEPT ![side] = start_next_action(side, @)]
  /\ got' = None
  /\ UNCHANGED <<payload, region, dark, noise, picks, delivered>>

\* The next mark leaves a side and arrives at the other.
Shine(side) ==
  LET p == peer[side]
      m == Head(p.out)
      space == Capped(dark[side] + m.space)
      to == Other(side)
      accepted == Accepted(peer[to], space, m.light)
  IN
  /\ Sending(p) /\ p.out # <<>>
  /\ peer' = [peer EXCEPT ![side].out = Tail(@),
                          ![to] = observe_game_emitter(to, @, space, m.light)]
  /\ dark' = [dark EXCEPT ![side] = 0]
  /\ got' = IF accepted = None THEN None ELSE [by |-> to, bytes |-> accepted]
  /\ delivered' = IF /\ accepted # None /\ to = "B"
                     /\ GameActions[peer[to].next - 1].what = "Payload"
                  THEN accepted ELSE delivered
  /\ UNCHANGED <<payload, region, noise, picks>>

\* The mark is blocked: to the other side it was dark all the while.
Blocked(side) ==
  LET p == peer[side] IN
  /\ Sending(p) /\ p.out # <<>>
  /\ noise < MaxNoise
  /\ noise' = noise + 1
  /\ peer' = [peer EXCEPT ![side].out = Tail(@)]
  /\ dark' = [dark EXCEPT ![side] = Capped(@ + Head(p.out).space + Head(p.out).light)]
  /\ got' = None
  /\ UNCHANGED <<payload, region, picks, delivered>>

\* All the pulses are out.
FinishSending(side) ==
  /\ Sending(peer[side]) /\ peer[side].out = <<>>
  /\ peer' = [peer EXCEPT ![side] = finish_sending_phase(side, @)]
  /\ got' = None
  /\ UNCHANGED <<payload, region, dark, noise, picks, delivered>>

\* The wait was too long; what arrived during it did not extend it.
Timeout(side) ==
  /\ receiver_waiting(peer[side])
  /\ peer' = [peer EXCEPT ![side] = fail_and_retry(@)]
  /\ got' = None
  /\ UNCHANGED <<payload, region, dark, noise, picks, delivered>>

\* The pause after an exchange, good or bad, is over.
Restart(side) ==
  /\ peer[side].phase \in {"Completed", "Failed"}
  /\ peer' = [peer EXCEPT ![side] = restart_exchange(side, @)]
  /\ got' = None
  /\ delivered' = IF side = "A" THEN None ELSE delivered
  /\ UNCHANGED <<payload, region, dark, noise, picks>>

\* Slip: the exchange goes on with the gift replaced.
set_payload_running(bytes) ==
  /\ bytes # payload
  /\ picks < MaxPicks
  /\ picks' = picks + 1
  /\ payload' = bytes
  /\ got' = None
  /\ UNCHANGED <<peer, region, dark, noise, delivered>>

\* The user picks another gift: the exchange starts again at once.
set_payload(bytes) ==
  /\ bytes # payload
  /\ picks < MaxPicks
  /\ picks' = picks + 1
  /\ payload' = bytes
  /\ peer' = [peer EXCEPT !["A"] = restart_exchange("A", @)]
  /\ got' = None
  /\ delivered' = None
  /\ UNCHANGED <<region, dark, noise>>

\* The user picks another region, likewise.
set_region(code) ==
  /\ code # region
  /\ picks < MaxPicks
  /\ picks' = picks + 1
  /\ region' = code
  /\ peer' = [peer EXCEPT !["A"] = [restart_exchange("A", @) EXCEPT !.region = code]]
  /\ got' = None
  /\ delivered' = None
  /\ UNCHANGED <<payload, dark, noise>>

Init ==
  /\ peer = [side \in Sides |-> NewPeer]
  /\ payload \in Payloads
  /\ region = None
  /\ dark = [side \in Sides |-> Long]
  /\ noise = 0
  /\ picks = 0
  /\ got = None
  /\ delivered = None

Next ==
  \/ \E side \in Sides : Start(side)
  \/ \E side \in Sides : Shine(side)
  \/ \E side \in Sides : Blocked(side)
  \/ \E side \in Sides : FinishSending(side)
  \/ \E side \in Sides : Timeout(side)
  \/ \E side \in Sides : Restart(side)
  \/ \E bytes \in Payloads : set_payload(bytes)
  \/ \E code \in FixedRegions \cup {None} : set_region(code)

\* The accessory is ticked every T-cycle: its pulses go out, its waits and
\* pauses end.  Of the game nothing is assumed.
Fairness ==
  /\ WF_vars(Start("A"))
  /\ WF_vars(Shine("A"))
  /\ WF_vars(FinishSending("A"))
  /\ WF_vars(Timeout("A"))
  /\ WF_vars(Restart("A"))

Spec == Init /\ [][Next]_vars /\ Fairness

-----------------------------------------------------------------------------
(* Properties.                                                              *)

\* Every side is in a phase of the exchange, with a receiver exactly while
\* it receives.
TypeOK ==
  \A side \in Sides :
    /\ peer[side].next \in 1..(Len(protocol_actions) + 1)
    /\ receiver_waiting(peer[side]) <=> (peer[side].rx # None)
    /\ dark[side] \in 0..Long

\* A side accepts a block only if it is the one the other side sent last: a
\* blocked mark, an exchange given up in the middle of a block and one that
\* has started again never add up to another block
\* (DataMessageReceiver, DataBlockReceiver, data_block_checksum).
BlockIsIntact == got # None => got.bytes = peer[Other(got.by)].sent

\* When the accessory reports a completed exchange, the game has accepted the
\* gift the accessory carries now, in that exchange: not one the user has
\* replaced since, nor one of an exchange that was given up
\* (finish_receiver_phase, start_next_action, set_payload).
CompletionMeansDelivered ==
  peer["A"].phase = "Completed" => delivered = payload

\* Whatever light the game emits, or none at all, the accessory comes back to
\* the start of an exchange: no phase keeps it (drive_protocol).
NeverStuck == []<>(peer["A"].phase = "SendingAction" /\ peer["A"].next = 2)

=============================================================================
