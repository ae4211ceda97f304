----------------------------- MODULE LinkProofs -----------------------------
(* Proofs about the linked session: no clock pulse outlives the T-cycle that *)
(* queued it, the printer's reply stays in order, the DMG-07 adapter         *)
(* broadcasts what its ports sent in the packet before, and a byte that both *)
(* ends began together arrives whole, for every number of consoles, byte     *)
(* length, clock, printer size and set of games.                             *)
EXTENDS LinkSession, Integers, TLAPS

-----------------------------------------------------------------------------
(* The serial port's pulses.                                                 *)

SerialFields == {"sb", "internal", "high", "req", "bits", "counter", "pulses", "peer",
                 "staged", "out", "inc", "latest"}

\* At most one pulse waits, for a running console with an armed transfer.
PulseOK(s, halted, ph) ==
  /\ SerialFields \subseteq DOMAIN s
  /\ s.pulses \in {0, 1}
  /\ s.pulses = 1 => ph = "ticks" /\ ~ halted /\ s.req /\ ~ s.internal

PulseInv == \A m \in Machines : PulseOK(serial[m], stopped[m], phase)

LEMMA SyncKeepsFields ==
  ASSUME NEW s, NEW p, SerialFields \subseteq DOMAIN s
  PROVE  LET t == SyncPeer(s, p) IN
         /\ SerialFields \subseteq DOMAIN t /\ t.peer = serial_peer(p)
         /\ t.pulses = s.pulses /\ t.req = s.req /\ t.internal = s.internal /\ t.latest = s.latest
BY DEF SyncPeer, SerialFields

LEMMA ShiftKeepsPulses ==
  ASSUME NEW s, SerialFields \subseteq DOMAIN s, s.pulses = 0
  PROVE  SerialFields \subseteq DOMAIN shift_one_bit(s) /\ shift_one_bit(s).pulses = 0
BY DEF shift_one_bit, SerialFields

\* A tick uses the pulse that waits.
LEMMA TickUsesPulse ==
  ASSUME NEW s, NEW speed_, SerialFields \subseteq DOMAIN s, s.pulses \in {0, 1},
         s.pulses = 1 => s.req /\ ~ s.internal
  PROVE  SerialFields \subseteq DOMAIN tick_t_cycle(s, speed_) /\ tick_t_cycle(s, speed_).pulses = 0
<1> DEFINE t == [s EXCEPT !.latest = NoByte, !.counter = clock_counter_next(s)]
           u == [t EXCEPT !.pulses = @ - 1]
<1>1. SerialFields \subseteq DOMAIN t /\ t.pulses = s.pulses
  BY DEF SerialFields
<1>2. tick_t_cycle(s, speed_) =
        IF ~ s.req THEN t
        ELSE IF s.internal THEN IF internal_clock_edge(s, speed_) THEN shift_one_bit(t) ELSE t
        ELSE IF s.pulses # 0 THEN shift_one_bit(u) ELSE t
  BY DEF tick_t_cycle
<1> HIDE DEF t
<1>3. SerialFields \subseteq DOMAIN u /\ u.pulses = s.pulses - 1
  BY <1>1 DEF SerialFields
<1> HIDE DEF u
<1>4. CASE s.pulses = 0
  BY <1>1, <1>2, <1>4, ShiftKeepsPulses
<1>5. CASE s.pulses = 1
  BY <1>2, <1>3, <1>5, ShiftKeepsPulses
<1> QED BY <1>4, <1>5

LEMMA PulseInit == Init => PulseInv
BY DEF Init, PulseInv, PulseOK, PowerOn, SerialFields

LEMMA PulseNext ==
  ASSUME PulseInv, Next
  PROVE  PulseInv'
<1> SUFFICES ASSUME NEW m \in Machines PROVE PulseOK(serial'[m], stopped'[m], phase')
  BY DEF PulseInv
<1>0. PulseOK(serial[m], stopped[m], phase)
  BY DEF PulseInv
<1>1. ASSUME phase = "ingress", phase' = "ticks", UNCHANGED stopped, NEW p, Ingest(p)
      PROVE  PulseOK(serial'[m], stopped'[m], phase')
  <2> DEFINE s == SyncPeer(serial[m], p[m])
  <2>1. serial'[m] = IF m \in Pulsed /\ ~ stopped[m] THEN queue_external_clock_pulse(s) ELSE s
    BY <1>1 DEF Ingest
  <2>2. SerialFields \subseteq DOMAIN s /\ s.pulses = 0
    BY <1>0, <1>1, SyncKeepsFields DEF PulseOK
  <2> HIDE DEF s
  <2>3. CASE m \in Pulsed /\ ~ stopped[m]
    <3>1. serial'[m] = queue_external_clock_pulse(s)
      BY <2>1, <2>3
    <3> QED BY <1>1, <2>2, <2>3, <3>1
            DEF PulseOK, queue_external_clock_pulse, AcceptsExternalPulse, SerialFields
  <2> QED BY <1>1, <2>1, <2>2, <2>3 DEF PulseOK
<1>2. CASE IngressQuiet
  <2>1. CASE topology = "Dmg04"
    BY <1>1, <1>2, <2>1 DEF IngressQuiet
  <2>2. CASE topology # "Dmg04"
    BY <1>0, <1>2, <2>2 DEF IngressQuiet, PulseOK
  <2> QED BY <2>1, <2>2
<1>3. CASE IngressAdapterBit
  BY <1>1, <1>3 DEF IngressAdapterBit
<1>4. CASE \E v \in Verdicts : TicksPhase(v)
  <2>1. PICK v \in Verdicts : TicksPhase(v)
    BY <1>4
  <2> DEFINE synced == IF topology = "Dmg04" THEN SyncPeer(serial[m], CablePorts[m]) ELSE serial[m]
             ticked == IF stopped[m] THEN synced ELSE tick_t_cycle(synced, speed[m])
  <2>2. /\ \E p : serial'[m] \in {SyncPeer(ticked, p), ticked}
        /\ stopped' = stopped /\ phase' = "cpu"
    BY <2>1 DEF TicksPhase, Ticks
  <2>3. PulseOK(synced, stopped[m], phase)
    BY <1>0, SyncKeepsFields DEF PulseOK
  <2> HIDE DEF synced
  <2>4. SerialFields \subseteq DOMAIN ticked /\ ticked.pulses = 0
    BY <2>3, TickUsesPulse DEF PulseOK
  <2> HIDE DEF ticked
  <2>5. SerialFields \subseteq DOMAIN serial'[m] /\ serial'[m].pulses = 0
    BY <2>2, <2>4, SyncKeepsFields
  <2> QED BY <2>5 DEF PulseOK
<1>5. CASE phase = "cpu" /\ \E o \in [Machines -> UNION {CpuOps(n) : n \in Machines}] : CpuPhase(o)
  <2>1. PICK o : CpuPhase(o)
    BY <1>5
  <2>2. serial'[m] = CpuSerial(serial[m], o[m]) /\ phase = "cpu"
    BY <2>1 DEF CpuPhase
  <2>3. SerialFields \subseteq DOMAIN serial[m] /\ serial[m].pulses = 0
    BY <1>0, <2>2 DEF PulseOK
  <2>4. SerialFields \subseteq DOMAIN serial'[m] /\ serial'[m].pulses = 0
    BY <2>2, <2>3 DEF CpuSerial, write_sb, write_sc, SerialFields
  <2> QED BY <2>4 DEF PulseOK
<1>6. ASSUME phase = "ingress", UNCHANGED <<phase, stopped>>, NEW p, Replug(p)
      PROVE  PulseOK(serial'[m], stopped'[m], phase')
  <2>1. serial'[m] = SyncPeer(serial[m], p[m])
    BY <1>6 DEF Replug
  <2> QED BY <1>0, <1>6, <2>1, SyncKeepsFields DEF PulseOK
<1>7. CASE Host
  <2>1. CASE Detach \/ AttachDmg04 \/ AttachDmg07
    BY <1>6, <2>1 DEF Detach, AttachDmg04, AttachDmg07
  <2>2. CASE \E plug \in Plugs : SetAttachment(plug[1], plug[2])
    BY <1>6, <2>2 DEF SetAttachment
  <2>3. CASE \E n \in Machines : TakePrintedPages(n)
    BY <1>0, <2>3 DEF TakePrintedPages, PulseOK
  <2> QED BY <1>7, <2>1, <2>2, <2>3 DEF Host
<1> QED BY <1>2, <1>3, <1>4, <1>5, <1>7 DEF Next, Step

(* No pulse outlives the T-cycle that queued it: at most one waits, between  *)
(* the session's ingress and its ticks, for an armed external transfer of a  *)
(* running console (link/session.rs, serial.rs).                             *)
THEOREM PulseInvariant == Spec => []PulseInv
<1>1. PulseInv /\ [Next]_vars => PulseInv'
  <2>1. CASE UNCHANGED vars
    BY <2>1 DEF vars, PulseInv, PulseOK
  <2> QED BY <2>1, PulseNext
<1> QED BY <1>1, PulseInit, PTL DEF Spec

(* A transfer never begins with pulses banked from an earlier one.           *)
THEOREM NeverBanksAPulse == Spec => []NoBankedPulse
<1>1. PulseInv => NoBankedPulse
  BY DEF PulseInv, PulseOK, NoBankedPulse
<1> QED BY <1>1, PulseInvariant, PTL

-----------------------------------------------------------------------------
(* The printer's reply.                                                      *)

PrinterFields == {"at", "cmd", "comp", "lo", "expected", "received", "proc", "staged", "queue",
                  "image", "armed", "status", "timeout", "pages"}
ParserPositions == {"Magic0", "Magic1", "Command", "Compression", "LengthLo", "LengthHi", "Data",
                    "ChecksumLo", "ChecksumHi"}

\* While the status byte waits behind ALIVE, the parser is between packets:
\* the next byte stages it before another packet can be answered.
PrinterOK(p) ==
  /\ PrinterFields \subseteq DOMAIN p
  /\ p.at \in ParserPositions
  /\ \/ p.queue = <<>>
     \/ p.at = "Magic0" /\ p.staged = Alive /\ \E b : p.queue = <<b>>

PortFields == {"kind", "incoming", "printer"}
PortOK(q) == PortFields \subseteq DOMAIN q /\ PrinterOK(q.printer)

PrinterInv == DOMAIN port = Machines /\ \A m \in Machines : PortOK(port[m])

LEMMA NewPrinterOK == PrinterOK(NewPrinter) /\ NewPrinter.queue = <<>>
BY DEF PrinterOK, NewPrinter, PrinterFields, ParserPositions

LEMMA NewPortOK ==
  ASSUME NEW k
  PROVE  PortOK(NewPort(k))
<1>1. NewPort(k).printer = NewPrinter /\ PortFields \subseteq DOMAIN NewPort(k)
  BY DEF NewPort, PortFields
<1> QED BY <1>1, NewPrinterOK DEF PortOK

LEMMA ResetPrinterOK ==
  ASSUME NEW p
  PROVE  /\ PrinterOK(reset_to_initialized_state(p))
         /\ reset_to_initialized_state(p).queue = <<>>
BY DEF reset_to_initialized_state, PrinterOK, NewPrinter, PrinterFields, ParserPositions

LEMMA PrinterTickOK ==
  ASSUME NEW p, PrinterOK(p)
  PROVE  PrinterOK(printer_tick(p))
<1>1. CASE p.at = "Magic0"
  BY <1>1 DEF printer_tick
<1>2. CASE p.at # "Magic0" /\ p.timeout + 1 >= Timeout
  BY <1>2, ResetPrinterOK DEF printer_tick
<1>3. CASE p.at # "Magic0" /\ ~ (p.timeout + 1 >= Timeout)
  <2>1. printer_tick(p) = [p EXCEPT !.timeout = @ + 1]
    BY <1>3 DEF printer_tick
  <2>2. p.queue = <<>>
    BY <1>3 DEF PrinterOK
  <2> DEFINE q == printer_tick(p)
  <2>3. PrinterFields \subseteq DOMAIN q /\ q.at = p.at /\ q.queue = p.queue
    BY <2>1 DEF PrinterOK, PrinterFields
  <2> HIDE DEF q
  <2> QED BY <2>2, <2>3 DEF PrinterOK, q
<1> QED BY <1>1, <1>2, <1>3

\* A command leaves the reply queue as it is, or empty.
LEMMA RecomputeKeepsQueue ==
  ASSUME NEW p, PrinterFields \subseteq DOMAIN p
  PROVE  PrinterFields \subseteq DOMAIN recompute_status(p) /\ recompute_status(p).queue = p.queue
BY DEF recompute_status, PrinterFields

LEMMA CommandKeepsQueue ==
  ASSUME NEW p, PrinterFields \subseteq DOMAIN p, p.queue = <<>>, p.cmd \in {1, 2, 4, 15},
         NEW len, NEW sheets
  PROVE  LET q == execute_command(p, len, sheets) IN
         PrinterFields \subseteq DOMAIN q /\ q.queue = <<>>
<1>1. CASE p.cmd = 1
  <2>1. execute_command(p, len, sheets) = reset_to_initialized_state(p)
    BY <1>1 DEF execute_command
  <2> QED BY <2>1, ResetPrinterOK DEF PrinterOK
<1>2. CASE p.cmd = 2
  <2> DEFINE r == [p EXCEPT !.proc = "PrintingPendingStatus", !.armed = FALSE,
                            !.pages = IF sheets THEN Append(@, p.image) ELSE @]
  <2>1. execute_command(p, len, sheets) = handle_print(p, sheets)
    BY <1>2 DEF execute_command
  <2>2. PrinterFields \subseteq DOMAIN r /\ r.queue = <<>>
    BY DEF PrinterFields
  <2>3. handle_print(p, sheets) \in {recompute_status(p), recompute_status(r)}
    BY DEF handle_print
  <2> HIDE DEF r
  <2> QED BY <2>1, <2>2, <2>3, RecomputeKeepsQueue
<1>3. CASE p.cmd = 4
  <2> DEFINE room == ImageCap - p.image
             r == [p EXCEPT !.armed = @ \/ p.image > 0]
             w == [p EXCEPT !.image = @ + (IF room < len THEN room ELSE len),
                            !.proc = "DataBuffered", !.armed = FALSE]
  <2>1. execute_command(p, len, sheets) = handle_data(p, len)
    BY <1>3 DEF execute_command
  <2>2. handle_data(p, len) \in {recompute_status(r), recompute_status(w)}
    BY DEF handle_data
  <2>3. PrinterFields \subseteq DOMAIN r /\ r.queue = <<>>
    BY DEF PrinterFields
  <2>4. PrinterFields \subseteq DOMAIN w /\ w.queue = <<>>
    BY DEF PrinterFields
  <2> HIDE DEF r, w
  <2> QED BY <2>1, <2>2, <2>3, <2>4, RecomputeKeepsQueue
<1>4. CASE p.cmd = 15
  <2> DEFINE r == [p EXCEPT !.proc = "Printing"]
             w == [p EXCEPT !.proc = "PrintComplete"]
  <2>1. execute_command(p, len, sheets) = handle_status_command(p)
    BY <1>4 DEF execute_command
  <2>2. handle_status_command(p) \in {p, recompute_status(r), recompute_status(w)}
    BY DEF handle_status_command
  <2>3. /\ PrinterFields \subseteq DOMAIN r /\ r.queue = <<>>
        /\ PrinterFields \subseteq DOMAIN w /\ w.queue = <<>>
    BY DEF PrinterFields
  <2> HIDE DEF r, w
  <2> QED BY <2>1, <2>2, <2>3, RecomputeKeepsQueue
<1> QED BY <1>1, <1>2, <1>3, <1>4

\* Every packet is answered by ALIVE and the status, and nothing else waits.
LEMMA FinishedPacket ==
  ASSUME NEW p, PrinterFields \subseteq DOMAIN p, p.queue = <<>>, NEW v
  PROVE  LET q == finish_packet(p, v) IN
         /\ PrinterFields \subseteq DOMAIN q /\ q.at = "Magic0"
         /\ \E b : q.queue = <<Alive, b>>
<1> DEFINE decoded == IF p.comp = 1 THEN v.decoded ELSE p.expected
           good == /\ p.cmd \in {1, 2, 4, 15}
                   /\ p.comp = 0 \/ (p.comp = 1 /\ p.cmd = 4)
                   /\ decoded # Malformed
                   /\ command_payload_len_is_valid(p.cmd, decoded)
           summed == [p EXCEPT !.status = @ \ {"checksum_error"}]
           a == [p EXCEPT !.status = @ \cup {"checksum_error"}]
           c == [summed EXCEPT !.status = @ \cup {"packet_error"}]
           d == [summed EXCEPT !.status = @ \ {"packet_error"}]
           e == execute_command(d, decoded, v.sheets)
           r == IF ~ v.sum THEN a ELSE IF ~ good THEN c ELSE e
<1>1. finish_packet(p, v) = clear_current_packet(queue_response(r))
  BY DEF finish_packet
<1>2. /\ PrinterFields \subseteq DOMAIN a /\ a.queue = <<>>
      /\ PrinterFields \subseteq DOMAIN summed /\ summed.queue = <<>> /\ summed.cmd = p.cmd
  BY DEF PrinterFields
<1> HIDE DEF summed, a
<1>3. /\ PrinterFields \subseteq DOMAIN c /\ c.queue = <<>>
      /\ PrinterFields \subseteq DOMAIN d /\ d.queue = <<>> /\ d.cmd = p.cmd
  BY <1>2 DEF PrinterFields
<1> HIDE DEF c, d
<1>4. good => PrinterFields \subseteq DOMAIN e /\ e.queue = <<>>
  BY <1>3, CommandKeepsQueue
<1> HIDE DEF e, good
<1>5. PrinterFields \subseteq DOMAIN r /\ r.queue = <<>>
  BY <1>2, <1>3, <1>4
<1> HIDE DEF r
<1> DEFINE w == queue_response(r)
<1>6. w = [r EXCEPT !.queue = r.queue \o <<Alive, to_byte(r.status)>>]
  BY <1>5 DEF queue_response
<1>7. PrinterFields \subseteq DOMAIN w /\ w.queue = <<>> \o <<Alive, to_byte(r.status)>>
  BY <1>5, <1>6 DEF PrinterFields
<1>8. <<>> \o <<Alive, to_byte(r.status)>> = <<Alive, to_byte(r.status)>>
  OBVIOUS
<1> HIDE DEF w
<1>9. LET q == clear_current_packet(w) IN
      PrinterFields \subseteq DOMAIN q /\ q.at = "Magic0" /\ q.queue = w.queue
  BY <1>7 DEF clear_current_packet, PrinterFields
<1> QED BY <1>1, <1>7, <1>8, <1>9 DEF w

LEMMA ConsumedByte ==
  ASSUME NEW p, PrinterOK(p), NEW b, NEW v
  PROVE  LET q == consume_byte(p, b, v) IN
         /\ PrinterFields \subseteq DOMAIN q /\ q.at \in ParserPositions
         /\ \/ q.queue = <<>>
            \/ \E c : q.queue = <<c>>
            \/ q.at = "Magic0" /\ \E c : q.queue = <<Alive, c>>
<1> DEFINE q == consume_byte(p, b, v)
<1>1. CASE p.at = "ChecksumHi"
  <2>1. q = finish_packet(p, v)
    BY <1>1 DEF consume_byte
  <2>2. p.queue = <<>> /\ PrinterFields \subseteq DOMAIN p
    BY <1>1 DEF PrinterOK
  <2> HIDE DEF q
  <2>3. /\ PrinterFields \subseteq DOMAIN q /\ q.at = "Magic0"
        /\ \E c : q.queue = <<Alive, c>>
    BY <2>1, <2>2, FinishedPacket
  <2> QED BY <2>3 DEF ParserPositions, q
<1>2. CASE p.at # "ChecksumHi"
  <2>1. PrinterFields \subseteq DOMAIN q /\ q.at \in ParserPositions /\ q.queue = p.queue
    BY <1>2, ZenonT(30) DEF consume_byte, PrinterOK, PrinterFields, ParserPositions
  <2> HIDE DEF q
  <2> QED BY <2>1 DEF PrinterOK, q
<1> QED BY <1>1, <1>2

LEMMA ReceivedByteOK ==
  ASSUME NEW p, PrinterOK(p), NEW b, NEW v
  PROVE  PrinterOK(receive_serial_byte(p, b, v))
<1> DEFINE r == [p EXCEPT !.timeout = 0]
           q == consume_byte(r, b, v)
<1>1. PrinterOK(r)
  BY DEF PrinterOK, PrinterFields
<1> HIDE DEF r
<1>2. /\ PrinterFields \subseteq DOMAIN q /\ q.at \in ParserPositions
      /\ \/ q.queue = <<>>
         \/ \E c : q.queue = <<c>>
         \/ q.at = "Magic0" /\ \E c : q.queue = <<Alive, c>>
  BY <1>1, ConsumedByte
<1>3. receive_serial_byte(p, b, v) = IF q.queue = <<>> THEN [q EXCEPT !.staged = 0]
                                     ELSE [q EXCEPT !.staged = Head(q.queue), !.queue = Tail(q.queue)]
  BY <1>2 DEF receive_serial_byte, r, PrinterFields
<1> HIDE DEF q
<1> DEFINE t == receive_serial_byte(p, b, v)
<1>4. CASE q.queue = <<>>
  <2>1. t = [q EXCEPT !.staged = 0]
    BY <1>3, <1>4
  <2> HIDE DEF t
  <2>2. PrinterFields \subseteq DOMAIN t /\ t.at = q.at /\ t.queue = <<>>
    BY <1>2, <1>4, <2>1 DEF PrinterFields
  <2> QED BY <1>2, <2>2 DEF PrinterOK, t
<1>5. ASSUME q.queue # <<>>
      PROVE  /\ PrinterFields \subseteq DOMAIN t /\ t.at = q.at
             /\ t.staged = Head(q.queue) /\ t.queue = Tail(q.queue)
  <2>1. t = [q EXCEPT !.staged = Head(q.queue), !.queue = Tail(q.queue)]
    BY <1>3, <1>5
  <2> HIDE DEF t
  <2> QED BY <1>2, <2>1 DEF PrinterFields
<1> HIDE DEF t
<1>6. ASSUME NEW c, q.queue = <<c>> PROVE PrinterOK(t)
  <2>1. q.queue # <<>> /\ Tail(q.queue) = <<>>
    BY <1>6
  <2> QED BY <1>2, <1>5, <2>1 DEF PrinterOK
<1>7. ASSUME NEW c, q.at = "Magic0", q.queue = <<Alive, c>> PROVE PrinterOK(t)
  <2>1. q.queue # <<>> /\ Head(q.queue) = Alive /\ Tail(q.queue) = <<c>>
    BY <1>7
  <2> QED BY <1>2, <1>5, <1>7, <2>1 DEF PrinterOK
<1> QED BY <1>2, <1>4, <1>6, <1>7 DEF t

LEMMA PrinterNext ==
  ASSUME PrinterInv, Next
  PROVE  PrinterInv'
<1>dom. DOMAIN port' = Machines
  <2>1. DOMAIN port = Machines
    BY DEF PrinterInv
  <2> QED BY <2>1 DEF Next, Step, Host, IngressQuiet, IngressAdapterBit, TicksPhase, Ticks, CablePorts,
               CpuPhase, Detach, AttachDmg04, AttachDmg07, SetAttachment, TakePrintedPages, Replug
<1> SUFFICES ASSUME NEW m \in Machines PROVE PortOK(port'[m])
  BY <1>dom DEF PrinterInv
<1>0. PortOK(port[m])
  BY DEF PrinterInv
<1>1. \A b : PortOK([port[m] EXCEPT !.incoming = b])
  BY <1>0 DEF PortOK, PortFields
<1>2. CASE UNCHANGED port
  BY <1>0, <1>2
<1>3. CASE IngressAdapterBit
  BY <1>0, <1>1, <1>3 DEF IngressAdapterBit
<1>4. CASE \E v \in Verdicts : TicksPhase(v)
  <2>1. PICK v \in Verdicts : Ticks(v)
    BY <1>4 DEF TicksPhase
  <2> DEFINE q == CablePorts[m]
  <2>2. PortOK(q) /\ q.printer = port[m].printer
    <3>1. q = port[m] \/ \E b : q = [port[m] EXCEPT !.incoming = b]
      BY DEF CablePorts
    <3> HIDE DEF q
    <3> QED BY <3>1, <1>0, <1>1 DEF PortOK, PortFields
  <2>3. \/ port'[m] = q
        \/ port'[m] = [q EXCEPT !.incoming = NoByte]
        \/ \E s : port'[m] = [q EXCEPT !.printer = TickedPrinter(m, s, v)]
    BY <2>1 DEF Ticks
  <2> HIDE DEF q
  <2>4. \A s : PrinterOK(TickedPrinter(m, s, v))
    BY <1>0, PrinterTickOK, ReceivedByteOK DEF TickedPrinter, PortOK
  <2> QED BY <2>2, <2>3, <2>4 DEF PortOK, PortFields
<1>5. CASE Detach \/ AttachDmg04 \/ AttachDmg07
  BY <1>5, NewPortOK DEF Detach, AttachDmg04, AttachDmg07, Replug
<1>6. CASE \E plug \in Plugs : SetAttachment(plug[1], plug[2])
  <2>1. PICK n, k : port' = [port EXCEPT ![n] = NewPort(k)]
    BY <1>6 DEF SetAttachment, Replug
  <2>2. port'[m] = port[m] \/ port'[m] = NewPort(k)
    BY <2>1 DEF PrinterInv
  <2> QED BY <2>2, <1>0, NewPortOK
<1>7. CASE \E n \in Machines : TakePrintedPages(n)
  <2>1. PICK n \in Machines : port' = [port EXCEPT ![n].printer.pages = <<>>]
    BY <1>7 DEF TakePrintedPages
  <2> DEFINE q == port[n].printer
  <2>2. port'[m] = IF m = n THEN [port[m] EXCEPT !.printer = [q EXCEPT !.pages = <<>>]] ELSE port[m]
    BY <2>1 DEF PrinterInv
  <2>3. m = n => PrinterOK([q EXCEPT !.pages = <<>>])
    BY <1>0 DEF PortOK, PrinterOK, PrinterFields
  <2> HIDE DEF q
  <2> QED BY <2>2, <2>3, <1>0 DEF PortOK, PortFields
<1>8. Next => \/ UNCHANGED port \/ IngressAdapterBit \/ \E v \in Verdicts : TicksPhase(v)
              \/ Detach \/ AttachDmg04 \/ AttachDmg07
              \/ \E plug \in Plugs : SetAttachment(plug[1], plug[2])
              \/ \E n \in Machines : TakePrintedPages(n)
  BY DEF Next, Step, Host, IngressQuiet, CpuPhase
<1> QED BY <1>2, <1>3, <1>4, <1>5, <1>6, <1>7, <1>8

(* The inductive form of ReplyInOrder: a reply byte waits only while the     *)
(* printer's parser is between two packets (external_port/printer.rs).       *)
THEOREM PrinterInvariant == Spec => []PrinterInv
<1>1. Init => PrinterInv
  BY NewPortOK DEF Init, PrinterInv
<1>2. PrinterInv /\ [Next]_vars => PrinterInv'
  <2>1. CASE UNCHANGED vars
    BY <2>1 DEF vars, PrinterInv
  <2> QED BY <2>1, PrinterNext
<1> QED BY <1>1, <1>2, PTL DEF Spec

(* The printer answers every packet with ALIVE and status back to back.      *)
THEOREM ReplyAlwaysInOrder == Spec => []ReplyInOrder
<1>1. ASSUME PrinterInv, NEW m \in Machines, port[m].printer.queue # <<>>
      PROVE  port[m].printer.staged = Alive /\ Len(port[m].printer.queue) = 1
  <2> DEFINE p == port[m].printer
  <2>1. PrinterOK(p) /\ p.queue # <<>>
    BY <1>1 DEF PrinterInv, PortOK
  <2> HIDE DEF p
  <2>2. PICK b : p.staged = Alive /\ p.queue = <<b>>
    BY <2>1 DEF PrinterOK
  <2>3. Len(<<b>>) = 1
    OBVIOUS
  <2> QED BY <2>2, <2>3 DEF p
<1>2. PrinterInv => ReplyInOrder
  BY <1>1 DEF ReplyInOrder
<1> QED BY <1>2, PrinterInvariant, PTL

-----------------------------------------------------------------------------
(* The adapter's packet ring.                                                *)

LEMMA RingArithmetic ==
  ASSUME NEW size \in 1..4, NEW idx \in 0..(4 * size - 1), NEW half \in {0, 4},
         NEW pos, pos = idx + half * size
  PROVE  /\ pos % packet_len(size) = idx
         /\ pos % ring_len(size) = pos
         /\ pos \div size = half + (idx \div size)
         /\ pos % size = idx % size
         /\ idx \div size \in 0..3
         /\ idx % size \in 0..(size - 1)
         /\ (pos + 1) % ring_len(size) = IF pos + 1 = 8 * size THEN 0 ELSE pos + 1
         /\ idx \in 1..size =>
              LET target == (pos + packet_len(size) - 1) % ring_len(size)
              IN  target \div size = 4 - half /\ target % size = idx - 1
<1>1. size \in {1, 2, 3, 4}
  OBVIOUS
<1>2. ASSUME NEW n \in {1, 2, 3, 4}, size = n
      PROVE  idx \in Int /\ pos \in Int /\ 0 <= idx /\ idx < 4 * n /\ pos \in {idx, idx + 4 * n}
  BY <1>2
<1>3. CASE size = 1
  BY <1>2, <1>3 DEF packet_len, ring_len
<1>4. CASE size = 2
  BY <1>2, <1>4 DEF packet_len, ring_len
<1>5. CASE size = 3
  BY <1>2, <1>5 DEF packet_len, ring_len
<1>6. CASE size = 4
  BY <1>2, <1>6 DEF packet_len, ring_len
<1> QED BY <1>1, <1>3, <1>4, <1>5, <1>6

AdapterFields == {"phase", "idx", "connected", "resp", "rate", "size", "tmark", "rmark", "restart",
                  "slots", "pos", "queued", "clocked", "delay"}

\* Bytes of the payload window captured before byte idx of a packet.
CapturedAt(idx, size) ==
  IF idx <= 1 THEN 0 ELSE IF idx - 1 <= size THEN idx - 1 ELSE size

\* The first of the four ring slots the packet under way is read from; the
\* other four take the packet after it.
Half(a) == IF a.pos = a.idx THEN 0 ELSE 4

SlotsShaped(slots) == DOMAIN slots = 0..7 /\ \A k \in 0..7 : DOMAIN slots[k] = 0..3

\* The four slots from `from` hold the first n bytes of each port's list.
SlotsHold(slots, from, lists, n) ==
  \A p \in 1..4 : \A i \in 1..n : slots[from + p - 1][i - 1] = lists[p][i]

ListsOfLength(lists, n) ==
  \E S : \A p \in 1..4 : lists[p] \in Seq(S) /\ Len(lists[p]) = n

\* While a packet goes out, one half of the ring holds what is owed of the
\* last one and the other half what the ports have sent of the next.
RingOK(a, s, d) ==
  /\ a.idx \in 0..(4 * a.size - 1)
  /\ a.pos \in {a.idx, a.idx + 4 * a.size}
  /\ SlotsShaped(a.slots)
  /\ SlotsHold(a.slots, Half(a), d, a.size)
  /\ ListsOfLength(s, CapturedAt(a.idx, a.size))
  /\ SlotsHold(a.slots, 4 - Half(a), s, CapturedAt(a.idx, a.size))

AdapterOK(a) ==
  /\ AdapterFields \subseteq DOMAIN a
  /\ a.phase \in {"Ping", "TransmissionIndicator", "Transmission", "PingRestartIndicator"}
  /\ a.size \in 1..4
  /\ a.clocked \subseteq {PortOf[m] : m \in Machines}
  /\ a.phase # "Transmission" => a.idx \in 0..3

RingInv ==
  topology = "Dmg07" =>
    /\ AdapterOK(adapter)
    /\ adapter.phase = "Transmission" => RingOK(adapter, sent, due)

LEMMA NewAdapterOK == AdapterOK(NewAdapter) /\ NewAdapter.phase = "Ping"
BY DEF AdapterOK, NewAdapter, AdapterFields

\* What the ports sent of the next packet, with this byte.
SentWith(a, s, got) ==
  IF ~ (a.idx \in 1..a.size) THEN s
  ELSE [p \in 1..4 |-> Append(s[p], IF p \in a.connected /\ got[p] # NoByte THEN got[p] ELSE 0)]

LEMMA CapturedByte ==
  ASSUME NEW a, NEW s, NEW d, NEW got, AdapterOK(a), RingOK(a, s, d)
  PROVE  LET c == capture_current_byte(a, got)
             now == SentWith(a, s, got)
             n == CapturedAt(a.idx + 1, a.size)
         IN  /\ AdapterFields \subseteq DOMAIN c
             /\ \A f \in AdapterFields \ {"slots"} : c[f] = a[f]
             /\ SlotsShaped(c.slots)
             /\ SlotsHold(c.slots, Half(a), d, a.size)
             /\ ListsOfLength(now, n)
             /\ SlotsHold(c.slots, 4 - Half(a), now, n)
<1> DEFINE c == capture_current_byte(a, got)
           now == SentWith(a, s, got)
           n == CapturedAt(a.idx + 1, a.size)
           half == Half(a)
           value(p) == IF p \in a.connected /\ got[p] # NoByte THEN got[p] ELSE 0
<1>1. a.size \in 1..4 /\ a.idx \in 0..(4 * a.size - 1) /\ AdapterFields \subseteq DOMAIN a
  BY DEF AdapterOK, RingOK
<1>2. half \in {0, 4} /\ a.pos = a.idx + half * a.size
  BY <1>1 DEF Half, RingOK
<1> HIDE DEF half
<1>3. /\ a.pos % packet_len(a.size) = a.idx
      /\ a.idx \in 1..a.size =>
              LET target == (a.pos + packet_len(a.size) - 1) % ring_len(a.size)
              IN  target \div a.size = 4 - half /\ target % a.size = a.idx - 1
  BY <1>1, <1>2, RingArithmetic
<1>4. /\ SlotsShaped(a.slots) /\ SlotsHold(a.slots, half, d, a.size)
      /\ ListsOfLength(s, CapturedAt(a.idx, a.size))
      /\ SlotsHold(a.slots, 4 - half, s, CapturedAt(a.idx, a.size))
  BY DEF RingOK, half
<1>5. CASE ~ (a.idx \in 1..a.size)
  <2>1. c = a
    BY <1>1, <1>3, <1>5 DEF capture_current_byte
  <2>2. now = s
    BY <1>5 DEF SentWith
  <2>3. n = CapturedAt(a.idx, a.size)
    BY <1>1, <1>5 DEF CapturedAt
  <2> HIDE DEF c, now, n
  <2> QED BY <2>1, <2>2, <2>3, <1>1, <1>4 DEF c, now, n, half
<1>6. CASE a.idx \in 1..a.size
  <2> DEFINE base == 4 - half
             off == a.idx - 1
             new == [slot \in 0..7 |->
                      IF slot \in base..(base + 3)
                      THEN [a.slots[slot] EXCEPT ![off] = value(slot - base + 1)]
                      ELSE a.slots[slot]]
  <2>1. c = [a EXCEPT !.slots = new]
    <3>1. ~ (a.idx = 0 \/ a.idx > a.size)
      BY <1>1, <1>6
    <3> QED BY <1>1, <1>3, <1>6, <3>1 DEF capture_current_byte
  <2>2. now = [p \in 1..4 |-> Append(s[p], value(p))]
    BY <1>6 DEF SentWith
  <2>3. n = a.idx /\ CapturedAt(a.idx, a.size) = off /\ off \in 0..3 /\ a.size \in 1..4
        /\ base \in {0, 4} /\ base + half = 4 /\ n = off + 1
    BY <1>1, <1>2, <1>6 DEF CapturedAt
  <2> HIDE DEF c, now, n
  <2>4. /\ AdapterFields \subseteq DOMAIN c
        /\ \A f \in AdapterFields \ {"slots"} : c[f] = a[f]
        /\ c.slots = new
    <3> HIDE DEF new
    <3> QED BY <2>1, <1>1 DEF AdapterFields
  <2>5. PICK S : \A p \in 1..4 : s[p] \in Seq(S) /\ Len(s[p]) = off
    BY <1>4, <2>3 DEF ListsOfLength
  <2>6. /\ \A p \in 1..4 : now[p] \in Seq(S \cup {value(q) : q \in 1..4}) /\ Len(now[p]) = n
        /\ \A p \in 1..4 : now[p][n] = value(p) /\ \A i \in 1..off : now[p][i] = s[p][i]
    <3> SUFFICES ASSUME NEW p \in 1..4
                 PROVE  /\ now[p] \in Seq(S \cup {value(q) : q \in 1..4}) /\ Len(now[p]) = n
                        /\ now[p][n] = value(p) /\ \A i \in 1..off : now[p][i] = s[p][i]
      OBVIOUS
    <3> DEFINE T == S \cup {value(q) : q \in 1..4}
               v == value(p)
               l == s[p]
    <3>1. v \in T
      OBVIOUS
    <3>2. l \in Seq(S) /\ Len(l) = off /\ now[p] = Append(l, v)
      BY <2>2, <2>5
    <3>3. S \subseteq T
      OBVIOUS
    <3> HIDE DEF T, v, l, off
    <3>4. l \in Seq(T)
      BY <3>2, <3>3
    <3> QED BY <3>1, <3>2, <3>4, <2>3 DEF T, v, l
  <2>7. ListsOfLength(now, n)
    BY <2>6 DEF ListsOfLength
  <2>8. SlotsShaped(new)
    BY <1>4, <2>3 DEF SlotsShaped
  <2>9. ASSUME NEW p \in 1..4
        PROVE  /\ base + p - 1 \in 0..7 /\ base + p - 1 \in base..(base + 3)
               /\ half + p - 1 \in 0..7 /\ ~ (half + p - 1 \in base..(base + 3))
               /\ (base + p - 1) - base + 1 = p
    BY <1>2, <2>3, <2>9
  <2>10. ASSUME NEW p \in 1..4
         PROVE  /\ new[half + p - 1] = a.slots[half + p - 1]
                /\ new[base + p - 1] = [a.slots[base + p - 1] EXCEPT ![off] = value(p)]
                /\ DOMAIN a.slots[base + p - 1] = 0..3
    <3> HIDE DEF base, off
    <3> QED BY <2>9, <2>10, <1>4 DEF SlotsShaped
  <2> HIDE DEF new, base
  <2>11. SlotsHold(new, half, d, a.size)
    BY <1>4, <2>10 DEF SlotsHold
  <2>12. SlotsHold(new, base, now, n)
    <3> SUFFICES ASSUME NEW p \in 1..4, NEW i \in 1..n
                 PROVE  new[base + p - 1][i - 1] = now[p][i]
      BY DEF SlotsHold
    <3>1. CASE i = n
      <4>1. i - 1 = off /\ off \in 0..3
        BY <2>3, <3>1
      <4> DEFINE sl == a.slots[base + p - 1]
                 v == value(p)
      <4>2. new[base + p - 1] = [sl EXCEPT ![off] = v] /\ DOMAIN sl = 0..3 /\ now[p][n] = v
        BY <2>6, <2>10
      <4> HIDE DEF off, sl, v
      <4>3. [sl EXCEPT ![off] = v][off] = v
        BY <4>1, <4>2
      <4> QED BY <3>1, <4>1, <4>2, <4>3
    <3>2. CASE i # n
      <4>1. i \in 1..off /\ i - 1 # off /\ i - 1 \in 0..3
        BY <2>3, <3>2
      <4>2. a.slots[base + p - 1][i - 1] = s[p][i]
        BY <1>4, <2>3, <4>1 DEF SlotsHold, base
      <4> DEFINE sl == a.slots[base + p - 1]
                 v == value(p)
      <4>3. new[base + p - 1] = [sl EXCEPT ![off] = v] /\ DOMAIN sl = 0..3 /\ now[p][i] = s[p][i]
        BY <2>6, <2>10, <4>1
      <4>4. sl[i - 1] = s[p][i]
        BY <4>2
      <4> HIDE DEF off, sl, v
      <4>5. [sl EXCEPT ![off] = v][i - 1] = sl[i - 1]
        BY <4>1, <4>3
      <4> QED BY <4>3, <4>4, <4>5
    <3> QED BY <3>1, <3>2
  <2> QED BY <2>4, <2>7, <2>8, <2>11, <2>12 DEF c, now, n, base, half
<1> QED BY <1>5, <1>6

LEMMA TransmissionFields ==
  ASSUME NEW a, NEW got, NEW c, c = capture_current_byte(a, got),
         a.phase = "Transmission", AdapterFields \subseteq DOMAIN c,
         \A f \in AdapterFields \ {"slots"} : c[f] = a[f]
  PROVE  LET b == complete_byte(a, got)
             last == a.idx + 1 = packet_len(a.size)
         IN  /\ AdapterFields \subseteq DOMAIN b
             /\ b.size = a.size /\ b.slots = c.slots
             /\ b.pos = (a.pos + 1) % ring_len(a.size)
             /\ b.idx = IF last THEN 0 ELSE a.idx + 1
             /\ b.phase \in {"Transmission", "PingRestartIndicator"}
             /\ ~ last => b.phase = "Transmission"
             /\ b.clocked = {}
<1> DEFINE last == a.idx + 1 = packet_len(a.size)
           t == track_restart_marker(c, got[1])
           u == [t EXCEPT !.pos = (@ + 1) % ring_len(a.size)]
           b0 == complete_transmission_byte(a, got)
           b == complete_byte(a, got)
<1>1. /\ c.size = a.size /\ c.pos = a.pos /\ c.idx = a.idx /\ c.phase = "Transmission"
  BY DEF AdapterFields
<1>2. /\ AdapterFields \subseteq DOMAIN t
      /\ t.size = a.size /\ t.pos = a.pos /\ t.idx = a.idx /\ t.phase = "Transmission"
      /\ t.slots = c.slots
  BY <1>1 DEF track_restart_marker, AdapterFields
<1>3. b0 = IF ~ last THEN [u EXCEPT !.idx = @ + 1]
           ELSE [u EXCEPT !.idx = 0, !.rmark = 0, !.restart = FALSE,
                          !.phase = IF u.restart THEN "PingRestartIndicator" ELSE "Transmission"]
  BY DEF complete_transmission_byte
<1> HIDE DEF t
<1>4. /\ AdapterFields \subseteq DOMAIN u
      /\ u.size = a.size /\ u.pos = (a.pos + 1) % ring_len(a.size) /\ u.idx = a.idx
      /\ u.phase = "Transmission" /\ u.slots = c.slots
  BY <1>2 DEF AdapterFields
<1> HIDE DEF u
<1>5. \E dl : b = [b0 EXCEPT !.queued = 0, !.clocked = {}, !.delay = dl]
  BY DEF complete_byte
<1> HIDE DEF b0, b, last
<1>6. /\ AdapterFields \subseteq DOMAIN b0
      /\ b0.size = a.size /\ b0.slots = c.slots
      /\ b0.pos = (a.pos + 1) % ring_len(a.size)
      /\ b0.idx = IF last THEN 0 ELSE a.idx + 1
      /\ b0.phase \in {"Transmission", "PingRestartIndicator"}
      /\ ~ last => b0.phase = "Transmission"
  <2>1. CASE last
    BY <1>3, <1>4, <2>1 DEF AdapterFields
  <2>2. CASE ~ last
    BY <1>3, <1>4, <2>2 DEF AdapterFields
  <2> QED BY <2>1, <2>2
<1>7. /\ AdapterFields \subseteq DOMAIN b
      /\ b.size = b0.size /\ b.slots = b0.slots /\ b.pos = b0.pos /\ b.idx = b0.idx
      /\ b.phase = b0.phase /\ b.clocked = {}
  BY <1>5, <1>6 DEF AdapterFields
<1> QED BY <1>6, <1>7 DEF b, last

\* Completing a byte of a packet keeps the ring in step with the histories.
LEMMA TransmissionByte ==
  ASSUME NEW a, NEW s, NEW d, NEW got, AdapterOK(a), a.phase = "Transmission", RingOK(a, s, d)
  PROVE  LET b == complete_byte(a, got)
             last == a.idx + 1 = packet_len(a.size)
             now == SentWith(a, s, got)
         IN  /\ AdapterOK(b)
             /\ b.phase = "Transmission" =>
                  RingOK(b, IF last THEN NothingSent ELSE now, IF last THEN now ELSE d)
<1> DEFINE b == complete_byte(a, got)
           c == capture_current_byte(a, got)
           last == a.idx + 1 = packet_len(a.size)
           now == SentWith(a, s, got)
           n == CapturedAt(a.idx + 1, a.size)
           half == Half(a)
           size == a.size
           idx == a.idx
<1>1. /\ AdapterFields \subseteq DOMAIN c
      /\ \A f \in AdapterFields \ {"slots"} : c[f] = a[f]
      /\ SlotsShaped(c.slots)
      /\ SlotsHold(c.slots, half, d, size)
      /\ ListsOfLength(now, n)
      /\ SlotsHold(c.slots, 4 - half, now, n)
  BY CapturedByte
<1>2. /\ AdapterFields \subseteq DOMAIN b
      /\ b.size = size /\ b.slots = c.slots
      /\ b.pos = (a.pos + 1) % ring_len(size)
      /\ b.idx = IF last THEN 0 ELSE idx + 1
      /\ b.phase \in {"Transmission", "PingRestartIndicator"}
      /\ ~ last => b.phase = "Transmission"
      /\ b.clocked = {}
  <2> HIDE DEF c
  <2> QED BY <1>1, TransmissionFields DEF c
<1>3. size \in 1..4 /\ idx \in 0..(4 * size - 1) /\ half \in {0, 4} /\ a.pos = idx + half * size
  BY DEF AdapterOK, RingOK, Half
<1>4. (a.pos + 1) % ring_len(size) = IF a.pos + 1 = 8 * size THEN 0 ELSE a.pos + 1
  <2> HIDE DEF size, idx, half
  <2> QED BY <1>3, RingArithmetic
<1>5. last <=> idx + 1 = 4 * size
  BY DEF packet_len
<1>n. n = CapturedAt(idx + 1, size)
  OBVIOUS
<1> HIDE DEF b, c, last, now, half, size, idx, n
<1>6. CASE ~ last
  <2>1. b.idx = idx + 1 /\ idx + 1 \in 0..(4 * size - 1) /\ b.pos = (idx + 1) + half * size
    BY <1>2, <1>3, <1>4, <1>5, <1>6
  <2>2. Half(b) = half /\ b.pos \in {b.idx, b.idx + 4 * size}
    BY <1>3, <2>1 DEF Half
  <2>3. AdapterOK(b)
    BY <1>2, <1>3, <1>6 DEF AdapterOK
  <2>4. RingOK(b, now, d)
    BY <1>1, <1>2, <1>n, <2>1, <2>2 DEF RingOK
  <2> QED BY <1>6, <2>3, <2>4 DEF b, last, now, idx, size
<1>7. CASE last
  <2>1. b.idx = 0 /\ b.pos = (IF half = 4 THEN 0 ELSE 4 * size)
    BY <1>2, <1>3, <1>4, <1>5, <1>7
  <2>2. Half(b) = 4 - half /\ b.pos \in {b.idx, b.idx + 4 * size}
    BY <1>3, <2>1 DEF Half
  <2>3. n = size
    BY <1>3, <1>5, <1>7, <1>n DEF CapturedAt
  <2>4. AdapterOK(b)
    BY <1>2, <1>3, <2>1 DEF AdapterOK
  <2>5. CapturedAt(0, size) = 0 /\ 0 \in 0..(4 * size - 1)
    BY <1>3 DEF CapturedAt
  <2>6. ListsOfLength(NothingSent, 0)
    <3>1. \A p \in 1..4 : NothingSent[p] \in Seq({}) /\ Len(NothingSent[p]) = 0
      BY DEF NothingSent
    <3> QED BY <3>1 DEF ListsOfLength
  <2>7. SlotsHold(b.slots, 4 - Half(b), NothingSent, 0)
    BY DEF SlotsHold
  <2>8. RingOK(b, NothingSent, now)
    BY <1>1, <1>2, <2>1, <2>2, <2>3, <2>5, <2>6, <2>7 DEF RingOK
  <2> QED BY <1>7, <2>4, <2>8 DEF b, last, now, idx, size
<1> QED BY <1>6, <1>7

ZeroDue(size) == [p \in 1..4 |-> [i \in 1..size |-> 0]]

\* The first packet after an indicator owes zeros.
LEMMA EmptyRing ==
  ASSUME NEW b, b.size \in 1..4, b.idx = 0, b.pos = 0, b.slots = ZeroSlots
  PROVE  RingOK(b, NothingSent, ZeroDue(b.size))
<1>1. CapturedAt(0, b.size) = 0 /\ Half(b) = 0
  BY DEF CapturedAt, Half
<1>2. SlotsShaped(ZeroSlots)
  BY DEF SlotsShaped, ZeroSlots
<1>3. ListsOfLength(NothingSent, 0)
  <2>1. \A p \in 1..4 : NothingSent[p] \in Seq({}) /\ Len(NothingSent[p]) = 0
    BY DEF NothingSent
  <2> QED BY <2>1 DEF ListsOfLength
<1>4. SlotsHold(ZeroSlots, 4, NothingSent, 0)
  BY DEF SlotsHold
<1>5. SlotsHold(ZeroSlots, 0, ZeroDue(b.size), b.size)
  <2> SUFFICES ASSUME NEW p \in 1..4, NEW i \in 1..b.size
               PROVE  ZeroSlots[0 + p - 1][i - 1] = ZeroDue(b.size)[p][i]
    BY DEF SlotsHold
  <2>1. 0 + p - 1 \in 0..7 /\ i - 1 \in 0..3
    OBVIOUS
  <2> QED BY <2>1 DEF ZeroSlots, ZeroDue
<1> QED BY <1>1, <1>2, <1>3, <1>4, <1>5 DEF RingOK

LEMMA OtherByte ==
  ASSUME NEW a, NEW got, AdapterOK(a), a.phase # "Transmission"
  PROVE  LET b == complete_byte(a, got)
         IN  /\ AdapterOK(b)
             /\ b.phase = "Transmission" => /\ a.phase = "TransmissionIndicator"
                                            /\ RingOK(b, NothingSent, ZeroDue(a.size))
<1> DEFINE b0 == CASE a.phase = "Ping" -> complete_ping_byte(a, got)
                   [] a.phase = "TransmissionIndicator" -> complete_transmission_indicator_byte(a)
                   [] a.phase = "Transmission" -> complete_transmission_byte(a, got)
                   [] a.phase = "PingRestartIndicator" -> complete_ping_restart_indicator_byte(a)
           b == complete_byte(a, got)
<1>1. /\ a.size \in 1..4 /\ a.idx \in 0..3 /\ AdapterFields \subseteq DOMAIN a
      /\ a.phase \in {"Ping", "TransmissionIndicator", "PingRestartIndicator"}
  BY DEF AdapterOK
<1>2. \E dl : b = [b0 EXCEPT !.queued = 0, !.clocked = {}, !.delay = dl]
  BY DEF complete_byte
<1>3. CASE a.phase = "Ping"
  <2> DEFINE marking == a.tmark > 0 \/ (a.resp[1] = 0 /\ got[1] = Marker)
             e == IF marking THEN track_ping_transition_marker(a, got[1])
                  ELSE consume_ping_response_byte(a, got)
  <2>1. /\ e.size \in 1..4 /\ AdapterFields \subseteq DOMAIN e
        /\ e.idx = a.idx /\ e.phase = "Ping"
    <3>1. CASE marking
      BY <1>1, <1>3, <3>1 DEF track_ping_transition_marker, AdapterFields
    <3>2. CASE ~ marking
      BY <1>1, <1>3, <3>2 DEF consume_ping_response_byte, AdapterFields
    <3> QED BY <3>1, <3>2
  <2>2. b0 = IF a.idx + 1 # PacketBytes THEN [e EXCEPT !.idx = @ + 1]
             ELSE [e EXCEPT !.idx = 0, !.tmark = 0,
                    !.phase = IF e.tmark >= 3 THEN "TransmissionIndicator" ELSE "Ping"]
    BY <1>3 DEF complete_ping_byte
  <2> HIDE DEF e, b0, b
  <2>3. /\ b0.size \in 1..4 /\ AdapterFields \subseteq DOMAIN b0
        /\ b0.idx \in 0..3 /\ b0.phase \in {"Ping", "TransmissionIndicator"}
    <3>1. CASE a.idx + 1 # PacketBytes
      BY <1>1, <2>1, <2>2, <3>1 DEF PacketBytes, AdapterFields
    <3>2. CASE a.idx + 1 = PacketBytes
      BY <1>1, <2>1, <2>2, <3>2 DEF PacketBytes, AdapterFields
    <3> QED BY <3>1, <3>2
  <2>4. /\ b.size = b0.size /\ AdapterFields \subseteq DOMAIN b
        /\ b.idx = b0.idx /\ b.phase = b0.phase /\ b.clocked = {}
    BY <1>2, <2>3 DEF AdapterFields
  <2> QED BY <2>3, <2>4 DEF AdapterOK, b
<1>4. CASE a.phase = "TransmissionIndicator"
  <2>1. b0 = IF a.idx + 1 # PacketBytes THEN [a EXCEPT !.idx = @ + 1]
             ELSE [a EXCEPT !.idx = 0, !.phase = "Transmission",
                            !.slots = ZeroSlots, !.pos = 0]
    BY <1>4 DEF complete_transmission_indicator_byte
  <2> HIDE DEF b0, b
  <2>2. /\ b0.size = a.size /\ AdapterFields \subseteq DOMAIN b0 /\ b0.idx \in 0..3
        /\ \/ b0.phase = "TransmissionIndicator"
           \/ b0.phase = "Transmission" /\ b0.idx = 0 /\ b0.pos = 0 /\ b0.slots = ZeroSlots
    <3>1. CASE a.idx + 1 # PacketBytes
      BY <1>1, <1>4, <2>1, <3>1 DEF PacketBytes, AdapterFields
    <3>2. CASE a.idx + 1 = PacketBytes
      BY <1>1, <2>1, <3>2 DEF PacketBytes, AdapterFields
    <3> QED BY <3>1, <3>2
  <2>3. /\ b.size = a.size /\ AdapterFields \subseteq DOMAIN b
        /\ b.idx = b0.idx /\ b.phase = b0.phase /\ b.pos = b0.pos /\ b.slots = b0.slots
        /\ b.clocked = {}
    BY <1>2, <2>2 DEF AdapterFields
  <2>4. AdapterOK(b)
    BY <1>1, <2>2, <2>3 DEF AdapterOK
  <2>5. b.phase = "Transmission" => RingOK(b, NothingSent, ZeroDue(a.size))
    BY <1>1, <2>2, <2>3, EmptyRing
  <2> QED BY <1>4, <2>4, <2>5 DEF b
<1>5. CASE a.phase = "PingRestartIndicator"
  <2>1. b0 = IF a.idx + 1 # PacketBytes THEN [a EXCEPT !.idx = @ + 1]
             ELSE [a EXCEPT !.idx = 0, !.phase = "Ping", !.connected = {},
                            !.resp = [p \in 1..4 |-> 0]]
    BY <1>5 DEF complete_ping_restart_indicator_byte
  <2> HIDE DEF b0, b
  <2>2. /\ b0.size = a.size /\ AdapterFields \subseteq DOMAIN b0 /\ b0.idx \in 0..3
        /\ b0.phase \in {"PingRestartIndicator", "Ping"}
    <3>1. CASE a.idx + 1 # PacketBytes
      BY <1>1, <1>5, <2>1, <3>1 DEF PacketBytes, AdapterFields
    <3>2. CASE a.idx + 1 = PacketBytes
      BY <1>1, <2>1, <3>2 DEF PacketBytes, AdapterFields
    <3> QED BY <3>1, <3>2
  <2>3. /\ b.size = a.size /\ AdapterFields \subseteq DOMAIN b
        /\ b.idx = b0.idx /\ b.phase = b0.phase /\ b.clocked = {}
    BY <1>2, <2>2 DEF AdapterFields
  <2> QED BY <1>1, <2>2, <2>3 DEF AdapterOK, b
<1> QED BY <1>1, <1>3, <1>4, <1>5

\* The bytes the histories see are the ones the adapter completed: the peer
\* synchronised after the ticks leaves them alone.
LEMMA HistorySeesBytes ==
  ASSUME PulseInv, NEW v, phase = "ticks", Ticks(v), topology = "Dmg07",
         adapter.queued = ByteBits, adapter.clocked \subseteq {PortOf[m] : m \in Machines}
  PROVE  adapter' = complete_byte(adapter, Completed(serial'))
<1> DEFINE ticked == [m \in Machines |-> IF stopped[m] THEN serial[m]
                                         ELSE tick_t_cycle(serial[m], speed[m])]
           mach(p) == CHOOSE m \in Machines : PortOf[m] = p
<1>1. adapter' = complete_byte(adapter, Completed(ticked))
  BY DEF Ticks
<1>2. ASSUME NEW m \in Machines PROVE serial'[m].latest = ticked[m].latest
  <2>1. \E p : serial'[m] = SyncPeer(ticked[m], p)
    BY DEF Ticks
  <2>2. SerialFields \subseteq DOMAIN ticked[m]
    BY TickUsesPulse DEF PulseInv, PulseOK
  <2> HIDE DEF ticked
  <2> QED BY <2>1, <2>2, SyncKeepsFields
<1>3. ASSUME NEW p \in adapter.clocked PROVE mach(p) \in Machines
  OBVIOUS
<1> HIDE DEF ticked, mach
<1>4. Completed(serial') = Completed(ticked)
  <2>1. \A p \in 1..4 : p \in adapter.clocked => serial'[mach(p)].latest = ticked[mach(p)].latest
    BY <1>2, <1>3
  <2> QED BY <2>1 DEF Completed, mach
<1> QED BY <1>1, <1>4

LEMMA RingNext ==
  ASSUME PulseInv, RingInv, Next
  PROVE  RingInv'
<1>1. CASE UNCHANGED <<topology, adapter, sent, due>>
  BY <1>1 DEF RingInv
<1>2. CASE IngressAdapterBit
  <2> DEFINE q == adapter.queued + 1
             cl == adapter.clocked \cup {PortOf[m] : m \in Pulsed}
  <2>1. Pulsed \subseteq Machines
    BY <1>2 DEF IngressAdapterBit, Pulsed
  <2>2. /\ adapter' = [adapter EXCEPT !.queued = q, !.clocked = cl]
        /\ topology = "Dmg07" /\ UNCHANGED <<topology, sent, due>>
    BY <1>2 DEF IngressAdapterBit
  <2>3. AdapterOK(adapter) /\ cl \subseteq {PortOf[m] : m \in Machines}
    BY <2>1, <2>2 DEF RingInv, AdapterOK
  <2> HIDE DEF q, cl
  <2>4. /\ AdapterFields \subseteq DOMAIN adapter' /\ adapter'.clocked = cl
        /\ \A f \in AdapterFields \ {"queued", "clocked"} : adapter'[f] = adapter[f]
    BY <2>2, <2>3 DEF AdapterOK, AdapterFields
  <2>5. /\ adapter'.phase = adapter.phase /\ adapter'.idx = adapter.idx
        /\ adapter'.size = adapter.size /\ adapter'.pos = adapter.pos
        /\ adapter'.slots = adapter.slots
    BY <2>4 DEF AdapterFields
  <2>6. AdapterOK(adapter')
    BY <2>3, <2>4, <2>5 DEF AdapterOK
  <2>7. RingOK(adapter, sent, due) => RingOK(adapter', sent, due)
    BY <2>5 DEF RingOK, Half
  <2> QED BY <2>2, <2>5, <2>6, <2>7 DEF RingInv
<1>3. CASE \E v \in Verdicts : TicksPhase(v)
  <2>1. PICK v \in Verdicts : TicksPhase(v)
    BY <1>3
  <2>2. /\ phase = "ticks" /\ Ticks(v) /\ topology' = topology
        /\ IF topology = "Dmg07" /\ adapter.queued = ByteBits
           THEN WindowHistory(Completed(serial')) ELSE UNCHANGED <<sent, due>>
    BY <2>1 DEF TicksPhase
  <2>3. CASE ~ (topology = "Dmg07" /\ adapter.queued = ByteBits)
    BY <2>2, <2>3, <1>1 DEF Ticks
  <2>4. CASE topology = "Dmg07" /\ adapter.queued = ByteBits
    <3> DEFINE got == Completed(serial')
               last == adapter.idx + 1 = packet_len(adapter.size)
               now == SentWith(adapter, sent, got)
    <3>1. AdapterOK(adapter) /\ adapter.clocked \subseteq {PortOf[m] : m \in Machines}
      BY <2>4 DEF RingInv, AdapterOK
    <3>2. adapter' = complete_byte(adapter, got) /\ WindowHistory(got)
      BY <2>2, <2>4, <3>1, HistorySeesBytes
    <3> HIDE DEF got
    <3>3. CASE adapter.phase = "Transmission"
      <4>1. /\ sent' = (IF last THEN NothingSent ELSE now)
            /\ due' = (IF last THEN now ELSE due)
        BY <3>2, <3>3 DEF WindowHistory, SentWith
      <4>2. RingOK(adapter, sent, due)
        BY <2>4, <3>3 DEF RingInv
      <4>3. /\ AdapterOK(adapter')
            /\ adapter'.phase = "Transmission" => RingOK(adapter', sent', due')
        BY <3>1, <3>2, <3>3, <4>1, <4>2, TransmissionByte
      <4> QED BY <4>3 DEF RingInv
    <3>4. CASE adapter.phase # "Transmission"
      <4>1. /\ AdapterOK(adapter')
            /\ adapter'.phase = "Transmission" => /\ adapter.phase = "TransmissionIndicator"
                                                  /\ RingOK(adapter', NothingSent, ZeroDue(adapter.size))
        BY <3>1, <3>2, <3>4, OtherByte
      <4>2. adapter.phase = "TransmissionIndicator" => sent' = NothingSent /\ due' = ZeroDue(adapter.size)
        BY <3>2 DEF WindowHistory, ZeroDue
      <4> QED BY <4>1, <4>2 DEF RingInv
    <3> QED BY <3>3, <3>4
  <2> QED BY <2>3, <2>4
<1>4. CASE adapter' = NewAdapter
  BY <1>4, NewAdapterOK DEF RingInv
<1>5. CASE topology' = "None"
  BY <1>5 DEF RingInv
<1>6. Next => \/ UNCHANGED <<topology, adapter, sent, due>>
              \/ IngressAdapterBit \/ \E v \in Verdicts : TicksPhase(v)
              \/ adapter' = NewAdapter \/ topology' = "None"
  BY DEF Next, Step, Host, IngressQuiet, CpuPhase, Detach, AttachDmg04, AttachDmg07,
         SetAttachment, TakePrintedPages
<1> QED BY <1>1, <1>2, <1>3, <1>4, <1>5, <1>6

(* The inductive form of RebroadcastsLastPacket: while a packet goes out, one *)
(* half of the adapter's double ring holds the packet owed and the other half *)
(* takes the one the ports are sending (link/dmg07.rs).                       *)
THEOREM RingInvariant == Spec => []RingInv
<1>1. Init => RingInv
  BY DEF Init, RingInv
<1>2. PulseInv /\ RingInv /\ [Next]_vars => RingInv'
  <2>1. CASE UNCHANGED vars
    BY <2>1 DEF vars, RingInv
  <2> QED BY <2>1, RingNext
<1> QED BY <1>1, <1>2, PulseInvariant, PTL DEF Spec

(* The adapter broadcasts what its ports sent in the payload window of the   *)
(* packet before, port after port, whatever SIZE the game asked for.         *)
THEOREM AlwaysRebroadcastsLastPacket == Spec => []RebroadcastsLastPacket
<1>1. ASSUME RingInv, topology = "Dmg07", adapter.phase = "Transmission"
      PROVE  incoming_byte_for(adapter, 1)
               = due[(adapter.idx \div adapter.size) + 1][(adapter.idx % adapter.size) + 1]
  <2> DEFINE a == adapter
             half == Half(a)
             p == (a.idx \div a.size) + 1
             i == (a.idx % a.size) + 1
  <2>1. AdapterOK(a) /\ RingOK(a, sent, due)
    BY <1>1 DEF RingInv
  <2>2. /\ a.size \in 1..4 /\ a.idx \in 0..(4 * a.size - 1)
        /\ half \in {0, 4} /\ a.pos = a.idx + half * a.size
    BY <2>1 DEF AdapterOK, RingOK, Half
  <2>3. SlotsHold(a.slots, half, due, a.size)
    BY <2>1 DEF RingOK
  <2>4. incoming_byte_for(a, 1) =
          a.slots[(a.pos % ring_len(a.size)) \div a.size][(a.pos % ring_len(a.size)) % a.size]
    BY <1>1 DEF incoming_byte_for
  <2> HIDE DEF a, half
  <2>5. /\ a.pos % ring_len(a.size) = a.pos
        /\ a.pos \div a.size = half + (a.idx \div a.size)
        /\ a.pos % a.size = a.idx % a.size
        /\ a.idx \div a.size \in 0..3
        /\ a.idx % a.size \in 0..(a.size - 1)
    <3> DEFINE size == a.size
               idx == a.idx
               pos == a.pos
    <3>1. size \in 1..4 /\ idx \in 0..(4 * size - 1) /\ half \in {0, 4} /\ pos = idx + half * size
      BY <2>2
    <3> HIDE DEF size, idx, pos
    <3>2. /\ pos % ring_len(size) = pos
          /\ pos \div size = half + (idx \div size)
          /\ pos % size = idx % size
          /\ idx \div size \in 0..3
          /\ idx % size \in 0..(size - 1)
      BY <3>1, RingArithmetic
    <3> QED BY <3>2 DEF size, idx, pos
  <2>6. p \in 1..4 /\ i \in 1..a.size /\ half + p - 1 = a.pos \div a.size /\ i - 1 = a.pos % a.size
    BY <2>2, <2>5
  <2>7. a.slots[half + p - 1][i - 1] = due[p][i]
    <3> HIDE DEF p, i
    <3> QED BY <2>3, <2>6 DEF SlotsHold
  <2> QED BY <2>4, <2>5, <2>6, <2>7 DEF a
<1>2. RingInv => RebroadcastsLastPacket
  BY <1>1 DEF RebroadcastsLastPacket
<1> QED BY <1>2, RingInvariant, PTL
-----------------------------------------------------------------------------
(* A byte arrives whole.                                                     *)

IsSeq(x) == \E S : x \in Seq(S)

\* A serial port's registers, whatever its line carries.
SerialTyped(s) ==
  /\ SerialFields \subseteq DOMAIN s
  /\ IsSeq(s.sb) /\ Len(s.sb) = ByteBits
  /\ s.bits \in 0..(ByteBits - 1)
  /\ s.staged \in Bytes /\ s.out \in Bytes /\ s.latest \in Bytes \cup {NoByte}

\* In the middle of byte v: the bits shifted in are its first ones, and the
\* bits still to come its others.
MidByte(s, v) ==
  /\ s.bits \in 1..(ByteBits - 1)
  /\ \A i \in 1..s.bits : s.sb[ByteBits - s.bits + i] = Bit(v, i)
  /\ IsSeq(s.inc) /\ Len(s.inc) = ByteBits - s.bits
  /\ \A i \in 1..(ByteBits - s.bits) : s.inc[i] = Bit(v, s.bits + i)

\* The fields an exchange is about; the clock, the line and the byte just
\* ended may differ.
SameTransfer(s, t) ==
  /\ t.sb = s.sb /\ t.bits = s.bits /\ t.inc = s.inc
  /\ t.req = s.req /\ t.internal = s.internal

\* The port takes a bit in its next tick.
Shifts(s, speed_) ==
  s.req /\ IF s.internal THEN internal_clock_edge(s, speed_) ELSE s.pulses # 0

LEMMA TailSeq ==
  ASSUME NEW x, IsSeq(x), NEW n \in Nat \ {0}, Len(x) = n
  PROVE  /\ IsSeq(Tail(x)) /\ Len(Tail(x)) = n - 1 /\ x # <<>> /\ Head(x) = x[1]
         /\ \A i \in 1..(n - 1) : Tail(x)[i] = x[i + 1]
<1>1. PICK S : x \in Seq(S)
  BY DEF IsSeq
<1>2. x # <<>> /\ Head(x) = x[1]
  BY <1>1
<1>3. Tail(x) \in Seq(S) /\ Len(Tail(x)) = n - 1
  BY <1>1, <1>2
<1>4. \A i \in 1..(n - 1) : Tail(x)[i] = x[i + 1]
  BY <1>1, <1>2
<1> QED BY <1>2, <1>3, <1>4 DEF IsSeq

LEMMA ShiftedRegister ==
  ASSUME NEW x, IsSeq(x), NEW n \in Nat \ {0}, Len(x) = n, NEW b
  PROVE  LET y == Append(Tail(x), b) IN
         /\ IsSeq(y) /\ Len(y) = n
         /\ \A i \in 1..n : y[i] = IF i = n THEN b ELSE x[i + 1]
<1> DEFINE z == Tail(x)
<1>1. IsSeq(z) /\ Len(z) = n - 1 /\ \A i \in 1..(n - 1) : z[i] = x[i + 1]
  BY TailSeq
<1> HIDE DEF z
<1>2. PICK S : z \in Seq(S)
  BY <1>1 DEF IsSeq
<1>3. z \in Seq(S \cup {b})
  BY <1>2
<1>4. /\ Append(z, b) \in Seq(S \cup {b}) /\ Len(Append(z, b)) = n
      /\ \A i \in 1..n : Append(z, b)[i] = IF i = n THEN b ELSE z[i]
  BY <1>1, <1>3
<1> QED BY <1>1, <1>4 DEF IsSeq, z

LEMMA BitsAreASeq ==
  ASSUME NEW v
  PROVE  IsSeq(Bits(v)) /\ Len(Bits(v)) = ByteBits /\ \A i \in 1..ByteBits : Bits(v)[i] = Bit(v, i)
<1> DEFINE S == {Bit(v, i) : i \in 1..ByteBits}
<1>1. Bits(v) \in [1..ByteBits -> S]
  BY DEF Bits
<1>2. ByteBits \in Nat
  BY SerialConstants
<1>3. \A f \in [1..ByteBits -> S] : f \in Seq(S) /\ Len(f) = ByteBits
  <2> HIDE DEF S
  <2> QED BY <1>2
<1> QED BY <1>1, <1>3 DEF IsSeq, Bits

LEMMA ShiftFields ==
  ASSUME NEW s, SerialTyped(s)
  PROVE  LET t == shift_one_bit(s)
             last == s.bits + 1 = ByteBits
         IN  /\ SerialTyped(t) /\ t.internal = s.internal
             /\ last => t.req = FALSE /\ t.bits = 0
             /\ ~ last => t.req = s.req /\ t.bits = s.bits + 1
<1> DEFINE first == s.bits = 0
           out == IF first THEN s.staged ELSE s.out
           inc == IF ~first THEN s.inc
                  ELSE IF s.peer \in {Open, Loop} THEN <<>> ELSE Bits(s.peer)
           bit == IF s.peer = Open THEN Bit(255, 0)
                  ELSE IF s.peer = Loop THEN Bit(out, s.bits + 1)
                  ELSE IF inc = <<>> THEN Bit(0, 0) ELSE Head(inc)
           rest == IF s.peer \in {Open, Loop} \/ inc = <<>> THEN inc ELSE Tail(inc)
           sb == Append(Tail(s.sb), bit)
           t == shift_one_bit(s)
<1>1. t = IF s.bits + 1 = ByteBits
          THEN [s EXCEPT !.sb = sb, !.req = FALSE, !.bits = 0, !.pulses = 0,
                         !.out = 0, !.inc = <<>>, !.latest = out]
          ELSE [s EXCEPT !.sb = sb, !.bits = @ + 1, !.out = out, !.inc = rest]
  BY DEF shift_one_bit
<1>2. ByteBits \in Nat \ {0} /\ s.bits \in 0..(ByteBits - 1) /\ SerialFields \subseteq DOMAIN s
  BY SerialConstants DEF SerialTyped
<1>3. out \in Bytes /\ s.latest \in Bytes \cup {NoByte} /\ s.staged \in Bytes /\ 0 \in Bytes
  BY DEF SerialTyped, Bytes
<1>4. IsSeq(sb) /\ Len(sb) = ByteBits
  BY <1>2, ShiftedRegister DEF SerialTyped
<1> HIDE DEF sb, out, rest, t
<1>5. CASE s.bits + 1 = ByteBits
  <2>1. /\ SerialFields \subseteq DOMAIN t /\ t.sb = sb /\ t.req = FALSE /\ t.bits = 0
        /\ t.out = 0 /\ t.latest = out /\ t.staged = s.staged /\ t.internal = s.internal
    BY <1>1, <1>2, <1>5 DEF SerialFields
  <2> QED BY <1>2, <1>3, <1>4, <1>5, <2>1 DEF SerialTyped, t
<1>6. CASE s.bits + 1 # ByteBits
  <2>1. /\ SerialFields \subseteq DOMAIN t /\ t.sb = sb /\ t.req = s.req /\ t.bits = s.bits + 1
        /\ t.out = out /\ t.latest = s.latest /\ t.staged = s.staged /\ t.internal = s.internal
    BY <1>1, <1>2, <1>6 DEF SerialFields
  <2>2. s.bits + 1 \in 0..(ByteBits - 1)
    BY <1>2, <1>6
  <2> QED BY <1>2, <1>3, <1>4, <1>6, <2>1, <2>2 DEF SerialTyped, t
<1> QED BY <1>5, <1>6

\* A bit taken from a byte on the line carries the byte on, and the last one
\* leaves it in SB.
LEMMA ShiftCarriesByte ==
  ASSUME NEW s, SerialTyped(s), NEW v, s.peer \in Bytes,
         (s.bits = 0 /\ s.peer = v) \/ MidByte(s, v)
  PROVE  LET t == shift_one_bit(s)
             last == s.bits + 1 = ByteBits
         IN  /\ last => t.sb = Bits(v)
             /\ ~ last => MidByte(t, v)
<1> DEFINE n == ByteBits
           inc == IF s.bits = 0 THEN Bits(s.peer) ELSE s.inc
           sb == Append(Tail(s.sb), Head(inc))
           t == shift_one_bit(s)
<1>1. s.peer \notin {Open, Loop} /\ s.peer # Open /\ s.peer # Loop
  BY DEF Bytes, Open, Loop
<1>2. n \in Nat \ {0} /\ s.bits \in 0..(n - 1) /\ SerialFields \subseteq DOMAIN s
  BY SerialConstants DEF SerialTyped
<1>3. /\ IsSeq(inc) /\ Len(inc) = n - s.bits
      /\ \A i \in 1..(n - s.bits) : inc[i] = Bit(v, s.bits + i)
  <2>1. CASE s.bits = 0 /\ s.peer = v
    BY <1>2, <2>1, BitsAreASeq
  <2>2. CASE MidByte(s, v)
    BY <1>2, <2>2 DEF MidByte
  <2> QED BY <2>1, <2>2
<1>4. \A i \in 1..s.bits : s.sb[n - s.bits + i] = Bit(v, i)
  BY <1>2 DEF MidByte
<1> HIDE DEF inc
<1>5. /\ IsSeq(Tail(inc)) /\ Len(Tail(inc)) = n - s.bits - 1 /\ inc # <<>> /\ Head(inc) = Bit(v, s.bits + 1)
      /\ \A i \in 1..(n - s.bits - 1) : Tail(inc)[i] = Bit(v, s.bits + 1 + i)
  <2> DEFINE k == n - s.bits
  <2>1. k \in Nat \ {0} /\ Len(inc) = k
    BY <1>2, <1>3
  <2>2. /\ IsSeq(Tail(inc)) /\ Len(Tail(inc)) = k - 1 /\ inc # <<>> /\ Head(inc) = inc[1]
        /\ \A i \in 1..(k - 1) : Tail(inc)[i] = inc[i + 1]
    <3> HIDE DEF k
    <3> QED BY <1>3, <2>1, TailSeq
  <2>3. inc[1] = Bit(v, s.bits + 1)
    BY <1>3, <2>1
  <2>4. ASSUME NEW i \in 1..(k - 1) PROVE inc[i + 1] = Bit(v, s.bits + 1 + i)
    <3>1. i + 1 \in 1..(n - s.bits) /\ s.bits + (i + 1) = s.bits + 1 + i
      BY <1>2
    <3> QED BY <1>3, <3>1
  <2> QED BY <2>2, <2>3, <2>4
<1>6. t = IF s.bits + 1 = n
          THEN [s EXCEPT !.sb = sb, !.req = FALSE, !.bits = 0, !.pulses = 0,
                         !.out = 0, !.inc = <<>>,
                         !.latest = IF s.bits = 0 THEN s.staged ELSE s.out]
          ELSE [s EXCEPT !.sb = sb, !.bits = @ + 1,
                         !.out = IF s.bits = 0 THEN s.staged ELSE s.out, !.inc = Tail(inc)]
  <2>1. inc = IF ~ (s.bits = 0) THEN s.inc
              ELSE IF s.peer \in {Open, Loop} THEN <<>> ELSE Bits(s.peer)
    BY <1>1 DEF inc
  <2> QED BY <1>1, <1>5, <2>1 DEF shift_one_bit
<1>7. /\ IsSeq(sb) /\ Len(sb) = n
      /\ \A i \in 1..n : sb[i] = IF i = n THEN Bit(v, s.bits + 1) ELSE s.sb[i + 1]
  BY <1>2, <1>5, ShiftedRegister DEF SerialTyped
<1>8. \A i \in 1..(s.bits + 1) : sb[n - (s.bits + 1) + i] = Bit(v, i)
  <2> TAKE i \in 1..(s.bits + 1)
  <2> DEFINE j == n - (s.bits + 1) + i
  <2>1. j \in 1..n /\ (j = n <=> i = s.bits + 1)
    BY <1>2
  <2>2. CASE i = s.bits + 1
    BY <1>7, <2>1, <2>2
  <2>3. CASE i # s.bits + 1
    <3>1. i \in 1..s.bits /\ j + 1 = n - s.bits + i
      BY <1>2, <2>3
    <3> HIDE DEF sb
    <3> QED BY <1>4, <1>7, <2>1, <2>3, <3>1
  <2> QED BY <2>2, <2>3
<1> HIDE DEF sb, t
<1>9. CASE s.bits + 1 = n
  <2>1. t.sb = sb
    BY <1>2, <1>6, <1>9 DEF SerialFields
  <2>2. \A i \in 1..n : sb[i] = Bit(v, i)
    BY <1>2, <1>8, <1>9
  <2>3. sb = Bits(v)
    <3>1. PICK S : sb \in Seq(S)
      BY <1>7 DEF IsSeq
    <3>2. sb = [i \in 1..n |-> sb[i]]
      BY <1>7, <3>1
    <3> QED BY <2>2, <3>2 DEF Bits
  <2> QED BY <1>9, <2>1, <2>3 DEF t
<1>10. CASE s.bits + 1 # n
  <2>1. t.sb = sb /\ t.bits = s.bits + 1 /\ t.inc = Tail(inc)
    BY <1>2, <1>6, <1>10 DEF SerialFields
  <2>2. s.bits + 1 \in 1..(n - 1) /\ n - (s.bits + 1) = n - s.bits - 1
    BY <1>2, <1>10
  <2> QED BY <1>5, <1>8, <1>10, <2>1, <2>2 DEF MidByte, t
<1> QED BY <1>9, <1>10

\* A tick is a shift when the port's clock or a pulse says so.
LEMMA TickShifts ==
  ASSUME NEW s, NEW speed_, SerialTyped(s), s.pulses \in {0, 1}
  PROVE  \E u : /\ SerialTyped(u) /\ SameTransfer(s, u) /\ u.peer = s.peer
                /\ tick_t_cycle(s, speed_) = IF Shifts(s, speed_) THEN shift_one_bit(u) ELSE u
<1> DEFINE t == [s EXCEPT !.latest = NoByte, !.counter = clock_counter_next(s)]
           w == [t EXCEPT !.pulses = @ - 1]
<1>1. tick_t_cycle(s, speed_) =
        IF ~ s.req THEN t
        ELSE IF s.internal THEN IF internal_clock_edge(s, speed_) THEN shift_one_bit(t) ELSE t
        ELSE IF s.pulses # 0 THEN shift_one_bit(w) ELSE t
  BY DEF tick_t_cycle
<1>2. /\ SerialFields \subseteq DOMAIN t /\ SameTransfer(s, t) /\ t.peer = s.peer
      /\ t.staged = s.staged /\ t.out = s.out /\ t.latest = NoByte
  BY DEF SerialTyped, SameTransfer, SerialFields
<1> HIDE DEF t
<1>3. /\ SerialFields \subseteq DOMAIN w /\ SameTransfer(s, w) /\ w.peer = s.peer
      /\ w.staged = s.staged /\ w.out = s.out /\ w.latest = NoByte
  BY <1>2 DEF SameTransfer, SerialFields
<1> HIDE DEF w
<1>4. SerialTyped(t)
  BY <1>2 DEF SerialTyped, SameTransfer
<1>5. SerialTyped(w)
  BY <1>3 DEF SerialTyped, SameTransfer
<1>6. CASE Shifts(s, speed_) /\ ~ s.internal
  BY <1>1, <1>3, <1>5, <1>6 DEF Shifts
<1>7. CASE ~ (Shifts(s, speed_) /\ ~ s.internal)
  BY <1>1, <1>2, <1>4, <1>7 DEF Shifts
<1> QED BY <1>6, <1>7
-----------------------------------------------------------------------------

\* What the adapter keeps of its ports are bytes.
AdapterBytes(a) ==
  SlotsShaped(a.slots) /\ \A k \in 0..7 : \A j \in 0..3 : a.slots[k][j] \in Bytes

TypedInv ==
  /\ \A m \in Machines : SerialTyped(serial[m]) /\ port[m].kind \in PortKinds
  /\ topology = "Dmg07" => AdapterBytes(adapter)

\* Between the ingress and the ticks a pulse waits at the end of the cable
\* whose master has an edge.
CableInv ==
  topology = "Dmg04" =>
    /\ Machines = Pair
    /\ phase = "ticks" => \A m \in Pair : serial[m].pulses # 0 <=> m \in Pulsed

\* Both ends of the cable run an armed transfer, and one of them clocks it.
Linked ==
  /\ \A n \in Pair : active_transfer(n, "Dmg04")
  /\ serial[1].internal <=> ~ serial[2].internal

\* Byte v on the cable: over for both ends, or both are as far in it.
OnCable(m, v) ==
  \/ ~ serial[m].req /\ ~ serial[Other(m)].req
  \/ Linked /\ MidByte(serial[m], v) /\ serial[Other(m)].bits = serial[m].bits

\* Byte v from the adapter: over, or the console has every bit clocked so far,
\* but for the one that waits between the ingress and the ticks.
OnAdapter(m, v) ==
  LET s == serial[m] IN
  IF phase = "ticks"
  THEN /\ s.req /\ ~ s.internal /\ ~ stopped[m] /\ s.pulses = 1 /\ s.peer \in Bytes
       /\ adapter.queued = s.bits + 1
       /\ (s.bits = 0 /\ s.peer = v) \/ MidByte(s, v)
  ELSE ~ s.req \/ (MidByte(s, v) /\ adapter.queued = s.bits)

ExchangeOK(m) ==
  swap[m] # NoByte =>
    /\ swap[m] \in Bytes
    /\ topology \in {"Dmg04", "Dmg07"}
    /\ topology = "Dmg04" => OnCable(m, swap[m])
    /\ topology = "Dmg07" => OnAdapter(m, swap[m])

ExchangeInv == TypedInv /\ CableInv /\ \A m \in Machines : ExchangeOK(m)
LEMMA SyncKeepsTransfer ==
  ASSUME NEW s, NEW p, SerialTyped(s)
  PROVE  LET t == SyncPeer(s, p) IN
         /\ SerialTyped(t) /\ SameTransfer(s, t) /\ t.peer = serial_peer(p) /\ t.pulses = s.pulses
         /\ t.counter = s.counter /\ t.high = s.high /\ t.staged = s.staged /\ t.out = s.out
<1> DEFINE t == SyncPeer(s, p)
<1>1. /\ SerialFields \subseteq DOMAIN t /\ SameTransfer(s, t) /\ t.peer = serial_peer(p)
      /\ t.pulses = s.pulses /\ t.counter = s.counter /\ t.high = s.high /\ t.staged = s.staged
      /\ t.out = s.out /\ t.latest = s.latest
  BY DEF SyncPeer, SerialTyped, SerialFields, SameTransfer
<1> HIDE DEF t
<1>2. SerialTyped(t)
  BY <1>1 DEF SerialTyped, SameTransfer
<1> QED BY <1>1, <1>2 DEF t

LEMMA PulseKeepsTransfer ==
  ASSUME NEW s, SerialTyped(s)
  PROVE  LET t == queue_external_clock_pulse(s) IN
         /\ SerialTyped(t) /\ SameTransfer(s, t) /\ t.peer = s.peer
         /\ t.counter = s.counter /\ t.high = s.high
         /\ AcceptsExternalPulse(s) /\ s.pulses = 0 => t.pulses = 1
<1> DEFINE t == queue_external_clock_pulse(s)
<1>1. /\ SerialFields \subseteq DOMAIN t /\ SameTransfer(s, t) /\ t.peer = s.peer
      /\ t.counter = s.counter /\ t.high = s.high /\ t.staged = s.staged
      /\ t.out = s.out /\ t.latest = s.latest
  BY DEF queue_external_clock_pulse, SerialTyped, SerialFields, SameTransfer
<1>2. AcceptsExternalPulse(s) /\ s.pulses = 0 => t.pulses = 1
  BY SerialConstants DEF queue_external_clock_pulse, SerialTyped, SerialFields
<1> HIDE DEF t
<1>3. SerialTyped(t)
  BY <1>1 DEF SerialTyped, SameTransfer
<1> QED BY <1>1, <1>2, <1>3 DEF t

LEMMA TickTyped ==
  ASSUME NEW s, NEW speed_, SerialTyped(s), s.pulses \in {0, 1}
  PROVE  SerialTyped(tick_t_cycle(s, speed_))
<1>1. PICK u : /\ SerialTyped(u)
               /\ tick_t_cycle(s, speed_) = IF Shifts(s, speed_) THEN shift_one_bit(u) ELSE u
  BY TickShifts
<1> QED BY <1>1, ShiftFields

\* The ticks of a console: its port as the cable presents it, ticked unless
\* the console sleeps, and then the peer it reads next.
LEMMA TicksOfConsole ==
  ASSUME NEW v, Ticks(v), NEW m \in Machines, SerialTyped(serial[m]), serial[m].pulses \in {0, 1}
  PROVE  \E s, t : /\ SerialTyped(s) /\ SameTransfer(serial[m], s) /\ s.pulses = serial[m].pulses
                   /\ s.counter = serial[m].counter /\ s.high = serial[m].high
                   /\ s.peer = IF topology = "Dmg04" THEN serial_peer(CablePorts[m]) ELSE serial[m].peer
                   /\ t = IF stopped[m] THEN s ELSE tick_t_cycle(s, speed[m])
                   /\ SerialTyped(t) /\ SerialTyped(serial'[m]) /\ SameTransfer(t, serial'[m])
<1> DEFINE s == IF topology = "Dmg04" THEN SyncPeer(serial[m], CablePorts[m]) ELSE serial[m]
           t == IF stopped[m] THEN s ELSE tick_t_cycle(s, speed[m])
<1>1. \E p : serial'[m] \in {SyncPeer(t, p), t}
  BY DEF Ticks
<1>2. /\ SerialTyped(s) /\ SameTransfer(serial[m], s) /\ s.pulses = serial[m].pulses
      /\ s.counter = serial[m].counter /\ s.high = serial[m].high
      /\ s.peer = IF topology = "Dmg04" THEN serial_peer(CablePorts[m]) ELSE serial[m].peer
  BY SyncKeepsTransfer DEF SameTransfer
<1> HIDE DEF s
<1>3. SerialTyped(t)
  BY <1>2, TickTyped
<1> HIDE DEF t
<1>4. SerialTyped(serial'[m]) /\ SameTransfer(t, serial'[m])
  BY <1>1, <1>3, SyncKeepsTransfer DEF SameTransfer
<1> QED BY <1>2, <1>3, <1>4 DEF t

\* A byte the ports sent leaves bytes in the ring.
LEMMA RingKeepsBytes ==
  ASSUME NEW a, NEW got, AdapterOK(a), AdapterBytes(a),
         \A p \in 1..4 : got[p] \in Bytes \cup {NoByte},
         a.phase = "Transmission" => \E s, d : RingOK(a, s, d)
  PROVE  AdapterBytes(complete_byte(a, got))
<1> DEFINE b == complete_byte(a, got)
<1>1. CASE a.phase = "Transmission"
  <2> DEFINE c == capture_current_byte(a, got)
  <2>0. PICK s, d : RingOK(a, s, d)
    BY <1>1
  <2>1. /\ AdapterFields \subseteq DOMAIN c
        /\ \A f \in AdapterFields \ {"slots"} : c[f] = a[f]
        /\ SlotsShaped(c.slots)
    <3>1. /\ AdapterFields \subseteq DOMAIN c
          /\ \A f \in AdapterFields \ {"slots"} : c[f] = a[f]
          /\ SlotsShaped(c.slots)
          /\ SlotsHold(c.slots, Half(a), d, a.size)
          /\ ListsOfLength(SentWith(a, s, got), CapturedAt(a.idx + 1, a.size))
          /\ SlotsHold(c.slots, 4 - Half(a), SentWith(a, s, got), CapturedAt(a.idx + 1, a.size))
      BY <2>0, CapturedByte
    <3> QED BY <3>1
  <2>2. b.slots = c.slots
    BY <1>1, <2>1, TransmissionFields
  <2>3. \A k \in 0..7 : \A j \in 0..3 : c.slots[k][j] \in Bytes
    <3> DEFINE target == (a.pos + packet_len(a.size) - 1) % ring_len(a.size)
               base == target \div a.size
               value(p) == IF p \in a.connected /\ got[p] # NoByte THEN got[p] ELSE 0
               new == [slot \in 0..7 |->
                        IF slot \in base..(base + 3)
                        THEN [a.slots[slot] EXCEPT ![target % a.size] = value(slot - base + 1)]
                        ELSE a.slots[slot]]
    <3>1. c = a \/ c = [a EXCEPT !.slots = new]
      BY DEF capture_current_byte
    <3>2. \A p \in 1..4 : value(p) \in Bytes
      BY DEF Bytes
    <3>3. base \in Int
      <4>1. a.size \in 1..4 /\ a.pos \in Int
        BY <1>1 DEF AdapterOK, RingOK
      <4> QED BY <4>1 DEF packet_len, ring_len
    <3> HIDE DEF base, value
    <3>4. \A k \in 0..7 : \A j \in 0..3 : new[k][j] \in Bytes
      <4> TAKE k \in 0..7
      <4> TAKE j \in 0..3
      <4>1. a.slots[k][j] \in Bytes /\ DOMAIN a.slots[k] = 0..3
        BY DEF AdapterBytes, SlotsShaped
      <4>2. k \in base..(base + 3) => k - base + 1 \in 1..4
        BY <3>3
      <4>3. \/ new[k] = a.slots[k]
            \/ /\ k \in base..(base + 3)
               /\ new[k] = [a.slots[k] EXCEPT ![target % a.size] = value(k - base + 1)]
        OBVIOUS
      <4> HIDE DEF target, new
      <4> QED BY <3>2, <4>1, <4>2, <4>3
    <3> HIDE DEF new, c
    <3>5. c.slots \in {a.slots, new}
      BY <3>1 DEF AdapterOK, AdapterFields
    <3> QED BY <3>4, <3>5 DEF AdapterBytes
  <2> HIDE DEF b, c
  <2> QED BY <2>1, <2>2, <2>3 DEF AdapterBytes, b
<1>2. CASE a.phase # "Transmission"
  <2> DEFINE b0 == CASE a.phase = "Ping" -> complete_ping_byte(a, got)
                     [] a.phase = "TransmissionIndicator" -> complete_transmission_indicator_byte(a)
                     [] a.phase = "Transmission" -> complete_transmission_byte(a, got)
                     [] a.phase = "PingRestartIndicator" -> complete_ping_restart_indicator_byte(a)
  <2>1. \E dl : b = [b0 EXCEPT !.queued = 0, !.clocked = {}, !.delay = dl]
    BY DEF complete_byte
  <2>2. AdapterFields \subseteq DOMAIN b0 /\ b0.slots \in {a.slots, ZeroSlots}
    <3>0. AdapterFields \subseteq DOMAIN a
      BY DEF AdapterOK
    <3>1. CASE a.phase = "Ping"
      <4> DEFINE marking == a.tmark > 0 \/ (a.resp[1] = 0 /\ got[1] = Marker)
                 e == IF marking THEN track_ping_transition_marker(a, got[1])
                      ELSE consume_ping_response_byte(a, got)
      <4>1. e.slots = a.slots /\ AdapterFields \subseteq DOMAIN e
        <5>1. CASE marking
          BY <3>0, <5>1 DEF track_ping_transition_marker, AdapterFields
        <5>2. CASE ~ marking
          BY <3>0, <5>2 DEF consume_ping_response_byte, AdapterFields
        <5> QED BY <5>1, <5>2
      <4>2. b0 = IF a.idx + 1 # PacketBytes THEN [e EXCEPT !.idx = @ + 1]
                 ELSE [e EXCEPT !.idx = 0, !.tmark = 0,
                        !.phase = IF e.tmark >= 3 THEN "TransmissionIndicator" ELSE "Ping"]
        BY <3>1 DEF complete_ping_byte
      <4> HIDE DEF e, b0
      <4> QED BY <4>1, <4>2 DEF AdapterFields
    <3>2. CASE a.phase = "TransmissionIndicator"
      BY <3>0, <3>2 DEF complete_transmission_indicator_byte, AdapterFields
    <3>3. CASE a.phase = "PingRestartIndicator"
      BY <3>0, <3>3 DEF complete_ping_restart_indicator_byte, AdapterFields
    <3> QED BY <1>2, <3>1, <3>2, <3>3 DEF AdapterOK
  <2> HIDE DEF b0
  <2>3. b.slots = b0.slots
    BY <2>1, <2>2 DEF AdapterFields
  <2>4. SlotsShaped(ZeroSlots) /\ \A k \in 0..7 : \A j \in 0..3 : ZeroSlots[k][j] \in Bytes
    BY DEF ZeroSlots, SlotsShaped, Bytes
  <2> HIDE DEF b
  <2> QED BY <2>2, <2>3, <2>4 DEF AdapterBytes, b
<1> QED BY <1>1, <1>2

\* What the adapter sends a console is a byte.
LEMMA IncomingIsAByte ==
  ASSUME RingInv, TypedInv, topology = "Dmg07", NEW m \in Machines
  PROVE  incoming_byte_for(adapter, PortOf[m]) \in Bytes
<1> DEFINE a == adapter
<1>1. AdapterOK(a) /\ AdapterBytes(a)
  BY DEF RingInv, TypedInv
<1>2. CASE a.phase = "Ping"
  <2> DEFINE bit(p) == IF p \in a.connected THEN connection_bit[p] ELSE 0
  <2>1. PortOf[m] \in 1..4
    BY LinkConstants, PortsAssumption
  <2>2. bit(1) \in {0, 16} /\ bit(2) \in {0, 32} /\ bit(3) \in {0, 64} /\ bit(4) \in {0, 128}
    BY DEF connection_bit
  <2>3. status_byte_for(a, PortOf[m]) = PortOf[m] + bit(1) + bit(2) + bit(3) + bit(4)
    BY DEF status_byte_for
  <2> HIDE DEF bit
  <2>4. status_byte_for(a, PortOf[m]) \in Bytes
    BY <2>1, <2>2, <2>3 DEF Bytes
  <2> QED BY <1>2, <2>4 DEF incoming_byte_for, PingHeader, Bytes
<1>3. CASE a.phase = "Transmission"
  <2> DEFINE size == a.size
             idx == a.idx
             pos == a.pos
             half == Half(a)
  <2>1. RingOK(a, sent, due)
    BY <1>3 DEF RingInv
  <2>2. /\ size \in 1..4 /\ idx \in 0..(4 * size - 1) /\ half \in {0, 4} /\ pos = idx + half * size
    BY <1>1, <2>1 DEF AdapterOK, RingOK, Half
  <2>3. incoming_byte_for(a, PortOf[m]) = a.slots[(pos % ring_len(size)) \div size][(pos % ring_len(size)) % size]
    BY <1>3 DEF incoming_byte_for
  <2> HIDE DEF size, idx, pos, half, a
  <2>4. /\ pos % ring_len(size) = pos
        /\ pos \div size = half + (idx \div size)
        /\ pos % size = idx % size
        /\ idx \div size \in 0..3
        /\ idx % size \in 0..(size - 1)
    BY <2>2, RingArithmetic
  <2>5. pos \div size \in 0..7 /\ pos % size \in 0..3
    BY <2>2, <2>4
  <2> QED BY <1>1, <2>3, <2>4, <2>5 DEF AdapterBytes, a
<1>4. CASE a.phase = "TransmissionIndicator"
  <2>1. incoming_byte_for(a, PortOf[m]) = Indicator
    BY <1>4 DEF incoming_byte_for
  <2> QED BY <2>1 DEF Indicator, Bytes
<1>5. CASE a.phase = "PingRestartIndicator"
  <2>1. incoming_byte_for(a, PortOf[m]) = RestartMarker
    BY <1>5 DEF incoming_byte_for
  <2> QED BY <2>1 DEF RestartMarker, Bytes
<1> QED BY <1>1, <1>2, <1>3, <1>4, <1>5 DEF AdapterOK
\* What the games write are bytes.
LEMMA CpuTyped ==
  ASSUME TypedInv, NEW o, CpuPhase(o), NEW m \in Machines
  PROVE  SerialTyped(serial'[m])
<1> DEFINE s == serial[m]
           w == write_sb(s, o[m].byte)
<1>1. serial'[m] = CpuSerial(s, o[m]) /\ o[m] \in CpuOps(m)
  BY DEF CpuPhase
<1>2. o[m].op \in {"SB", "SEND"} => o[m].byte \in Bytes
  <2>1. port[m].kind \in PortKinds /\ o[m] \in GameOps[m][port[m].kind]
    BY <1>1 DEF TypedInv, CpuOps
  <2> QED BY <2>1, LinkConstants
<1>3. SerialTyped(s)
  BY DEF TypedInv
<1> HIDE DEF s
<1>4. ASSUME o[m].op \in {"SB", "SEND"} PROVE SerialTyped(w)
  <2>1. /\ SerialFields \subseteq DOMAIN w /\ w.sb = Bits(o[m].byte) /\ w.staged = o[m].byte
        /\ w.bits = s.bits /\ w.out = s.out /\ w.latest = s.latest
    BY <1>3 DEF write_sb, SerialTyped, SerialFields
  <2>2. IsSeq(Bits(o[m].byte)) /\ Len(Bits(o[m].byte)) = ByteBits
    BY BitsAreASeq
  <2> HIDE DEF w
  <2> QED BY <1>2, <1>3, <1>4, <2>1, <2>2 DEF SerialTyped
<1> HIDE DEF w
<1>5. ASSUME NEW r, SerialTyped(r), NEW req, NEW internal, NEW high
      PROVE  SerialTyped(write_sc(r, req, internal, high))
  <2> DEFINE t == write_sc(r, req, internal, high)
  <2>1. /\ SerialFields \subseteq DOMAIN t /\ t.sb = r.sb /\ t.staged = r.staged
        /\ t.bits = 0 /\ t.out = 0 /\ t.latest = NoByte
    BY <1>5 DEF write_sc, SerialTyped, SerialFields
  <2>2. ByteBits \in Nat \ {0} /\ 0 \in 0..(ByteBits - 1)
    BY SerialConstants
  <2> HIDE DEF t
  <2> QED BY <1>5, <2>1, <2>2 DEF SerialTyped, Bytes, t
<1>6. serial'[m] \in {s, w} \/ \E r \in {s, w} : \E req, internal, high :
                            serial'[m] = write_sc(r, req, internal, high)
  BY <1>1 DEF CpuSerial, w
<1>7. CASE o[m].op \in {"SB", "SEND"}
  BY <1>3, <1>4, <1>5, <1>6, <1>7
<1>8. CASE o[m].op \notin {"SB", "SEND"}
  <2>1. serial'[m] = s \/ \E req, internal, high : serial'[m] = write_sc(s, req, internal, high)
    BY <1>1, <1>8 DEF CpuSerial
  <2> QED BY <1>3, <1>5, <2>1
<1> QED BY <1>7, <1>8

LEMMA SerialTypedNext ==
  ASSUME PulseInv, TypedInv, Next, NEW m \in Machines
  PROVE  SerialTyped(serial'[m])
<1>0. SerialTyped(serial[m]) /\ serial[m].pulses \in {0, 1}
  BY DEF TypedInv, PulseInv, PulseOK
<1>1. ASSUME NEW p, Ingest(p) PROVE SerialTyped(serial'[m])
  <2> DEFINE s == SyncPeer(serial[m], p[m])
  <2>1. serial'[m] \in {s, queue_external_clock_pulse(s)}
    BY <1>1 DEF Ingest
  <2>2. SerialTyped(s)
    BY <1>0, SyncKeepsTransfer
  <2> HIDE DEF s
  <2> QED BY <2>1, <2>2, PulseKeepsTransfer
<1>2. ASSUME NEW p, Replug(p) PROVE SerialTyped(serial'[m])
  <2>1. serial'[m] = SyncPeer(serial[m], p[m])
    BY <1>2 DEF Replug
  <2> QED BY <1>0, <2>1, SyncKeepsTransfer
<1>3. ASSUME NEW v, Ticks(v) PROVE SerialTyped(serial'[m])
  BY <1>0, <1>3, TicksOfConsole
<1>4. CASE UNCHANGED serial
  BY <1>0, <1>4
<1>5. Next => \/ UNCHANGED serial \/ (\E p : Ingest(p)) \/ (\E p : Replug(p))
              \/ (\E v : Ticks(v)) \/ (\E o : CpuPhase(o))
  BY DEF Next, Step, Host, IngressQuiet, IngressAdapterBit, TicksPhase, Detach, AttachDmg04,
         AttachDmg07, SetAttachment, TakePrintedPages
<1> QED BY <1>1, <1>2, <1>3, <1>4, <1>5, CpuTyped

\* Only the host changes what a port is.
LEMMA KindKept ==
  ASSUME PrinterInv, NEW m \in Machines,
         \/ IngressAdapterBit \/ (\E v : Ticks(v)) \/ (\E n \in Machines : TakePrintedPages(n))
  PROVE  port'[m].kind = port[m].kind
<1>0. PortFields \subseteq DOMAIN port[m] /\ DOMAIN port = Machines
  BY DEF PrinterInv, PortOK
<1>1. ASSUME NEW q, PortFields \subseteq DOMAIN q, NEW r,
             \E x : r = [q EXCEPT !.incoming = x] \/ r = [q EXCEPT !.printer = x]
      PROVE  PortFields \subseteq DOMAIN r /\ r.kind = q.kind
  BY <1>1 DEF PortFields
<1>2. CASE IngressAdapterBit
  <2>1. port'[m] = port[m] \/ \E x : port'[m] = [port[m] EXCEPT !.incoming = x]
    BY <1>2 DEF IngressAdapterBit
  <2> QED BY <1>0, <1>1, <2>1
<1>3. ASSUME NEW v, Ticks(v) PROVE port'[m].kind = port[m].kind
  <2> DEFINE q == CablePorts[m]
  <2>1. q = port[m] \/ \E x : q = [port[m] EXCEPT !.incoming = x]
    BY DEF CablePorts
  <2>2. \/ port'[m] = q
        \/ \E x : port'[m] = [q EXCEPT !.incoming = x]
        \/ \E y : port'[m] = [q EXCEPT !.printer = y]
    BY <1>3 DEF Ticks
  <2> HIDE DEF q
  <2>3. PortFields \subseteq DOMAIN q /\ q.kind = port[m].kind
    BY <1>0, <1>1, <2>1
  <2> QED BY <1>1, <2>2, <2>3
<1>4. CASE \E n \in Machines : TakePrintedPages(n)
  <2>1. PICK n \in Machines : port' = [port EXCEPT ![n].printer.pages = <<>>]
    BY <1>4 DEF TakePrintedPages
  <2>2. port'[m] = port[m] \/ \E y : port'[m] = [port[m] EXCEPT !.printer = y]
    BY <1>0, <2>1
  <2> QED BY <1>0, <1>1, <2>2
<1> QED BY <1>2, <1>3, <1>4

LEMMA KindsNext ==
  ASSUME PrinterInv, TypedInv, Next, NEW m \in Machines
  PROVE  port'[m].kind \in PortKinds
<1>0. port[m].kind \in PortKinds /\ DOMAIN port = Machines
  BY DEF TypedInv, PrinterInv
<1>1. \A k : NewPort(k).kind = k
  BY DEF NewPort
<1>2. CASE Detach \/ AttachDmg04 \/ AttachDmg07
  BY <1>1, <1>2 DEF Detach, AttachDmg04, AttachDmg07, Replug, PortKinds
<1>3. CASE \E plug \in Plugs : SetAttachment(plug[1], plug[2])
  <2>1. PICK plug \in Plugs : SetAttachment(plug[1], plug[2])
    BY <1>3
  <2>2. plug[2] \in PortKinds /\ "None" \in PortKinds
    BY LinkConstants DEF PortKinds
  <2>3. \E k \in PortKinds : port' = [port EXCEPT ![plug[1]] = NewPort(k)]
    BY <2>1, <2>2 DEF SetAttachment, Replug
  <2> QED BY <1>0, <1>1, <2>3
<1>4. CASE UNCHANGED port
  BY <1>0, <1>4
<1>5. Next => \/ UNCHANGED port \/ IngressAdapterBit \/ (\E v : Ticks(v))
              \/ Detach \/ AttachDmg04 \/ AttachDmg07
              \/ (\E plug \in Plugs : SetAttachment(plug[1], plug[2]))
              \/ (\E n \in Machines : TakePrintedPages(n))
  BY DEF Next, Step, Host, IngressQuiet, CpuPhase, TicksPhase
<1> QED BY <1>0, <1>2, <1>3, <1>4, <1>5, KindKept

LEMMA AdapterBytesNext ==
  ASSUME PulseInv, RingInv, TypedInv, Next, topology' = "Dmg07"
  PROVE  AdapterBytes(adapter')
<1>1. CASE UNCHANGED <<topology, adapter>>
  BY <1>1 DEF TypedInv
<1>2. CASE IngressAdapterBit
  <2>1. AdapterFields \subseteq DOMAIN adapter /\ AdapterBytes(adapter)
    BY <1>2 DEF IngressAdapterBit, TypedInv, RingInv, AdapterOK
  <2>2. \E q, cl : adapter' = [adapter EXCEPT !.queued = q, !.clocked = cl]
    BY <1>2 DEF IngressAdapterBit
  <2>3. adapter'.slots = adapter.slots
    BY <2>1, <2>2 DEF AdapterFields
  <2> QED BY <2>1, <2>3 DEF AdapterBytes
<1>3. CASE \E v \in Verdicts : TicksPhase(v)
  <2>1. PICK v \in Verdicts : TicksPhase(v)
    BY <1>3
  <2>2. phase = "ticks" /\ Ticks(v) /\ topology = "Dmg07" /\ topology' = topology
    BY <2>1 DEF TicksPhase
  <2>3. AdapterOK(adapter) /\ AdapterBytes(adapter)
        /\ adapter.clocked \subseteq {PortOf[m] : m \in Machines}
    BY <2>2 DEF TypedInv, RingInv, AdapterOK
  <2>4. CASE adapter.queued # ByteBits
    BY <2>2, <2>4, <1>1 DEF Ticks
  <2>5. CASE adapter.queued = ByteBits
    <3>1. adapter' = complete_byte(adapter, Completed(serial'))
      BY <2>2, <2>3, <2>5, HistorySeesBytes
    <3>2. \A m \in Machines : serial'[m].latest \in Bytes \cup {NoByte}
      BY SerialTypedNext DEF SerialTyped
    <3>3. \A p \in 1..4 : Completed(serial')[p] \in Bytes \cup {NoByte}
      <4> TAKE p \in 1..4
      <4>1. CASE p \in adapter.clocked
        <5>1. (CHOOSE m \in Machines : PortOf[m] = p) \in Machines
          BY <2>3, <4>1
        <5>2. Completed(serial')[p] = serial'[CHOOSE m \in Machines : PortOf[m] = p].latest
          BY <4>1 DEF Completed
        <5> QED BY <3>2, <5>1, <5>2
      <4>2. CASE p \notin adapter.clocked
        BY <4>2 DEF Completed
      <4> QED BY <4>1, <4>2
    <3>4. adapter.phase = "Transmission" => RingOK(adapter, sent, due)
      BY <2>2 DEF RingInv
    <3> QED BY <2>3, <3>1, <3>3, <3>4, RingKeepsBytes
  <2> QED BY <2>4, <2>5
<1>4. CASE adapter' = NewAdapter
  <2>1. NewAdapter.slots = ZeroSlots
    BY DEF NewAdapter
  <2> QED BY <1>4, <2>1 DEF AdapterBytes, ZeroSlots, SlotsShaped, Bytes
<1>5. Next => \/ UNCHANGED <<topology, adapter>>
              \/ IngressAdapterBit \/ (\E v \in Verdicts : TicksPhase(v))
              \/ adapter' = NewAdapter
  BY DEF Next, Step, Host, IngressQuiet, CpuPhase, Detach, AttachDmg04, AttachDmg07,
         SetAttachment, TakePrintedPages
<1> QED BY <1>1, <1>2, <1>3, <1>4, <1>5

LEMMA TypedNext ==
  ASSUME PulseInv, PrinterInv, RingInv, TypedInv, Next
  PROVE  TypedInv'
<1>1. \A m \in Machines : SerialTyped(serial'[m]) /\ port'[m].kind \in PortKinds
  BY SerialTypedNext, KindsNext
<1>2. topology' = "Dmg07" => AdapterBytes(adapter')
  BY AdapterBytesNext
<1> QED BY <1>1, <1>2 DEF TypedInv
-----------------------------------------------------------------------------

LEMMA OtherEnd == \A m \in Pair : Other(m) \in Pair /\ Other(Other(m)) = m /\ Other(m) # m
BY DEF Pair, Other

\* The ingress queues a pulse or none, and leaves the transfer alone.
LEMMA IngressOfConsole ==
  ASSUME PulseInv, TypedInv, phase = "ingress", NEW p, Ingest(p), NEW m \in Machines
  PROVE  LET s == serial[m]
             t == serial'[m]
         IN  /\ SameTransfer(s, t) /\ t.counter = s.counter /\ t.high = s.high
             /\ t.peer = serial_peer(p[m])
             /\ t.pulses = IF m \in Pulsed /\ ~ stopped[m] /\ AcceptsExternalPulse(s) THEN 1 ELSE 0
<1> DEFINE s == SyncPeer(serial[m], p[m])
<1>1. serial'[m] = IF m \in Pulsed /\ ~ stopped[m] THEN queue_external_clock_pulse(s) ELSE s
  BY DEF Ingest
<1>2. SerialTyped(serial[m]) /\ serial[m].pulses = 0
  BY DEF TypedInv, PulseInv, PulseOK
<1>3. /\ SerialTyped(s) /\ SameTransfer(serial[m], s) /\ s.peer = serial_peer(p[m])
      /\ s.pulses = 0 /\ s.counter = serial[m].counter /\ s.high = serial[m].high
  BY <1>2, SyncKeepsTransfer
<1> HIDE DEF s
<1>4. AcceptsExternalPulse(s) <=> AcceptsExternalPulse(serial[m])
  BY <1>3 DEF AcceptsExternalPulse, SameTransfer
<1>5. CASE m \in Pulsed /\ ~ stopped[m] /\ AcceptsExternalPulse(s)
  BY <1>1, <1>3, <1>4, <1>5, PulseKeepsTransfer DEF SameTransfer
<1>6. CASE m \in Pulsed /\ ~ stopped[m] /\ ~ AcceptsExternalPulse(s)
  BY <1>1, <1>3, <1>4, <1>6 DEF queue_external_clock_pulse
<1>7. CASE ~ (m \in Pulsed /\ ~ stopped[m])
  BY <1>1, <1>3, <1>4, <1>7
<1> QED BY <1>5, <1>6, <1>7

LEMMA CableNext ==
  ASSUME PulseInv, TypedInv, CableInv, Next
  PROVE  CableInv'
<1> SUFFICES ASSUME topology' = "Dmg04" PROVE CableInv'
  BY DEF CableInv
<1>1. Machines = Pair
  <2>1. topology = "Dmg04" \/ Machines = Pair
    BY DEF Next, Step, Host, IngressQuiet, IngressAdapterBit, TicksPhase, CpuPhase, Detach,
           AttachDmg04, AttachDmg07, SetAttachment, TakePrintedPages
  <2> QED BY <2>1 DEF CableInv
<1>2. phase' = "ticks" => IngressQuiet /\ topology = "Dmg04"
  BY DEF Next, Step, Host, IngressQuiet, IngressAdapterBit, TicksPhase, CpuPhase, Detach,
         AttachDmg04, AttachDmg07, SetAttachment, TakePrintedPages
<1>3. ASSUME IngressQuiet, topology = "Dmg04", NEW m \in Pair
      PROVE  (serial[m].pulses # 0 <=> m \in Pulsed)'
  <2>1. Ingest(port) /\ phase = "ingress" /\ UNCHANGED <<port, topology, stopped, speed>>
    BY <1>3 DEF IngressQuiet
  <2>2. \A n \in Pair : /\ SameTransfer(serial[n], serial'[n])
                        /\ serial'[n].counter = serial[n].counter /\ serial'[n].high = serial[n].high
                        /\ serial'[n].pulses = IF n \in Pulsed /\ ~ stopped[n] /\ AcceptsExternalPulse(serial[n])
                                               THEN 1 ELSE 0
    BY <1>1, <2>1, IngressOfConsole
  <2>3. m \in Pulsed <=> /\ internal_clock_edge_pending(Other(m))
                         /\ waiting_for_external_clock(m, "Dmg04")
    BY <1>3 DEF Pulsed
  <2>4. (m \in Pulsed)' <=> /\ internal_clock_edge_pending(Other(m))'
                            /\ waiting_for_external_clock(m, "Dmg04")'
    BY <1>3, <2>1 DEF Pulsed
  <2>5. waiting_for_external_clock(m, "Dmg04")' <=> waiting_for_external_clock(m, "Dmg04")
    BY <2>1, <2>2 DEF waiting_for_external_clock, active_transfer, SameTransfer
  <2>6. internal_clock_edge_pending(Other(m))' <=> internal_clock_edge_pending(Other(m))
    <3> DEFINE n == Other(m)
    <3>1. n \in Pair
      BY OtherEnd
    <3> HIDE DEF n
    <3>2. internal_clock_edge_pending(n)' <=> internal_clock_edge_pending(n)
      BY <2>1, <2>2, <3>1 DEF internal_clock_edge_pending, internal_clock_edge, active_transfer, SameTransfer
    <3> QED BY <3>2 DEF n
  <2>7. m \in Pulsed => ~ stopped[m] /\ AcceptsExternalPulse(serial[m])
    BY <2>3 DEF waiting_for_external_clock, active_transfer, AcceptsExternalPulse
  <2> QED BY <2>2, <2>3, <2>4, <2>5, <2>6, <2>7
<1> QED BY <1>1, <1>2, <1>3 DEF CableInv

\* In the T-cycle of an edge both ends take a bit of the other's byte.
LEMMA CableBit ==
  ASSUME PulseInv, PrinterInv, TypedInv, CableInv, topology = "Dmg04", phase = "ticks",
         NEW v, Ticks(v), Dmg04Exchanges, NEW n \in Pair
  PROVE  /\ Linked
         /\ \E u : /\ SerialTyped(u) /\ SameTransfer(serial[n], u)
                   /\ u.peer = endpoint_outgoing_byte(serial[Other(n)]) /\ u.peer \in Bytes
                   /\ SerialTyped(serial'[n]) /\ SameTransfer(shift_one_bit(u), serial'[n])
<1>0. Machines = Pair /\ \A k \in Pair : SerialTyped(serial[k]) /\ serial[k].pulses \in {0, 1}
                                         /\ PortFields \subseteq DOMAIN port[k]
  BY DEF CableInv, TypedInv, PulseInv, PulseOK, PrinterInv, PortOK
<1>1. PICK k \in Pair : internal_clock_edge_pending(k) /\ waiting_for_external_clock(Other(k), "Dmg04")
  BY DEF Dmg04Exchanges
<1>2. n = k \/ n = Other(k)
  BY DEF Pair, Other
<1>3. Linked
  BY <1>1 DEF Linked, internal_clock_edge_pending, waiting_for_external_clock, active_transfer, Pair, Other
<1>4. PICK s, t : /\ SerialTyped(s) /\ SameTransfer(serial[n], s) /\ s.pulses = serial[n].pulses
                  /\ s.counter = serial[n].counter /\ s.high = serial[n].high
                  /\ s.peer = serial_peer(CablePorts[n])
                  /\ t = IF stopped[n] THEN s ELSE tick_t_cycle(s, speed[n])
                  /\ SerialTyped(t) /\ SerialTyped(serial'[n]) /\ SameTransfer(t, serial'[n])
  BY <1>0, TicksOfConsole
<1>5. Shifts(s, speed[n])
  <2>1. CASE n = k
    BY <1>1, <1>4, <2>1 DEF Shifts, internal_clock_edge_pending, active_transfer, SameTransfer, internal_clock_edge
  <2>2. CASE n = Other(k)
    <3>1. internal_clock_edge_pending(Other(n)) /\ waiting_for_external_clock(n, "Dmg04")
      BY <1>1, <2>2, OtherEnd
    <3>2. n \in Pulsed
      BY <3>1 DEF Pulsed
    <3>3. serial[n].pulses # 0
      BY <3>2 DEF CableInv
    <3> QED BY <1>4, <3>1, <3>3 DEF Shifts, waiting_for_external_clock, active_transfer, SameTransfer
  <2> QED BY <1>2, <2>1, <2>2
<1>6. s.peer = endpoint_outgoing_byte(serial[Other(n)]) /\ s.peer \in Bytes
  <2> DEFINE b == endpoint_outgoing_byte(serial[Other(n)])
  <2>1. b \in Bytes
    BY <1>0, OtherEnd DEF endpoint_outgoing_byte, SerialTyped
  <2>2. CablePorts[n] = [port[n] EXCEPT !.incoming = b]
    BY <1>0 DEF CablePorts
  <2> HIDE DEF b
  <2>3. CablePorts[n].incoming = b /\ CablePorts[n].kind = "Dmg04"
    BY <1>0, <1>3, <2>2 DEF PortFields, Linked, active_transfer
  <2> QED BY <1>4, <2>1, <2>3 DEF serial_peer, NoByte, Bytes, b
<1>7. ~ stopped[n] /\ s.pulses \in {0, 1}
  BY <1>0, <1>3, <1>4 DEF Linked, active_transfer
<1>8. PICK u : /\ SerialTyped(u) /\ SameTransfer(s, u) /\ u.peer = s.peer
               /\ tick_t_cycle(s, speed[n]) = shift_one_bit(u)
  BY <1>4, <1>5, <1>7, TickShifts
<1>9. SameTransfer(serial[n], u) /\ SameTransfer(shift_one_bit(u), serial'[n])
  BY <1>4, <1>7, <1>8 DEF SameTransfer
<1> QED BY <1>3, <1>4, <1>6, <1>8, <1>9

\* Between two edges linked ends stay where they are.
LEMMA CableQuiet ==
  ASSUME PulseInv, TypedInv, CableInv, topology = "Dmg04", phase = "ticks",
         NEW v, Ticks(v), ~ Dmg04Exchanges, NEW n \in Pair, Linked \/ ~ serial[n].req
  PROVE  SameTransfer(serial[n], serial'[n])
<1>0. Machines = Pair /\ SerialTyped(serial[n]) /\ serial[n].pulses \in {0, 1}
  BY DEF CableInv, TypedInv, PulseInv, PulseOK
<1>1. PICK s, t : /\ SerialTyped(s) /\ SameTransfer(serial[n], s) /\ s.pulses = serial[n].pulses
                  /\ s.counter = serial[n].counter /\ s.high = serial[n].high
                  /\ t = IF stopped[n] THEN s ELSE tick_t_cycle(s, speed[n])
                  /\ SameTransfer(t, serial'[n])
  BY <1>0, TicksOfConsole
<1>2. ~ Shifts(s, speed[n])
  <2>1. CASE ~ serial[n].req
    BY <1>1, <2>1 DEF Shifts, SameTransfer
  <2>2. CASE Linked /\ serial[n].internal
    <3>1. waiting_for_external_clock(Other(n), "Dmg04") /\ active_transfer(n, "Dmg04")
      BY <2>2 DEF Linked, waiting_for_external_clock, Pair, Other
    <3>2. ~ internal_clock_edge(serial[n], speed[n])
      BY <2>2, <3>1 DEF Dmg04Exchanges, internal_clock_edge_pending
    <3> QED BY <1>1, <2>2, <3>2 DEF Shifts, SameTransfer, internal_clock_edge
  <2>3. CASE Linked /\ ~ serial[n].internal
    <3>1. n \notin Pulsed
      <4>1. ~ (internal_clock_edge_pending(Other(n)) /\ waiting_for_external_clock(Other(Other(n)), "Dmg04"))
        BY OtherEnd DEF Dmg04Exchanges
      <4> QED BY <4>1, OtherEnd DEF Pulsed
    <3>2. serial[n].pulses = 0
      BY <3>1 DEF CableInv
    <3> QED BY <1>1, <2>3, <3>2 DEF Shifts, SameTransfer
  <2> QED BY <2>1, <2>2, <2>3
<1>3. SameTransfer(s, t)
  <2>1. \E u : SameTransfer(s, u) /\ tick_t_cycle(s, speed[n]) = u
    BY <1>0, <1>1, <1>2, TickShifts
  <2> QED BY <1>1, <2>1 DEF SameTransfer
<1> QED BY <1>1, <1>3 DEF SameTransfer
\* A byte that ends in these ticks has arrived whole.
Arrived(m) ==
  Completes(m) =>
    /\ serial'[m].sb = Bits(swap'[m])
    /\ topology = "Dmg04" => Completes(Other(m))
    /\ topology = "Dmg07" => adapter.queued = ByteBits

LEMMA SameByte ==
  ASSUME NEW s, NEW t, SameTransfer(s, t), NEW v
  PROVE  MidByte(s, v) <=> MidByte(t, v)
BY DEF SameTransfer, MidByte

LEMMA CableTicks ==
  ASSUME PulseInv, PrinterInv, ExchangeInv, topology = "Dmg04",
         NEW v, TicksPhase(v), NEW m \in Machines, swap'[m] # NoByte
  PROVE  ExchangeOK(m)' /\ Arrived(m)
<1> DEFINE o == Other(m)
           b == swap'[m]
<1>0. /\ TypedInv /\ CableInv /\ ExchangeOK(m) /\ phase = "ticks" /\ Ticks(v) /\ Machines = Pair
      /\ m \in Pair /\ o \in Pair /\ Other(o) = m
      /\ topology' = topology /\ stopped' = stopped
  BY OtherEnd DEF ExchangeInv, CableInv, TicksPhase
<1>1. \A n \in Pair : port'[n].kind = port[n].kind
  BY <1>0, KindKept
<1>2. b = IF ~ Dmg04Exchanges THEN swap[m]
          ELSE IF serial[m].bits = 0 /\ serial[o].bits = 0 THEN serial[o].staged
          ELSE IF serial[m].bits = serial[o].bits THEN swap[m] ELSE NoByte
  BY <1>0 DEF TicksPhase, SwapAfterTicks
<1>3. SUFFICES /\ b \in Bytes
               /\ OnCable(m, swap[m])'
               /\ Completes(m) => serial'[m].sb = Bits(b) /\ Completes(o)
  BY <1>0 DEF ExchangeOK, Arrived
<1>4. CASE Dmg04Exchanges
  <2>1. Linked
    BY <1>0, <1>4, CableBit
  <2>2. PICK u : /\ SerialTyped(u) /\ SameTransfer(serial[m], u)
                 /\ u.peer = endpoint_outgoing_byte(serial[o]) /\ u.peer \in Bytes
                 /\ SameTransfer(shift_one_bit(u), serial'[m])
    BY <1>0, <1>4, CableBit
  <2>3. PICK w : /\ SerialTyped(w) /\ SameTransfer(serial[o], w)
                 /\ SameTransfer(shift_one_bit(w), serial'[o])
    BY <1>0, <1>4, CableBit
  <2>4. /\ serial[m].req /\ serial[o].req /\ u.bits = serial[m].bits /\ w.bits = serial[o].bits
        /\ u.req = serial[m].req /\ w.req = serial[o].req
        /\ u.internal = serial[m].internal /\ w.internal = serial[o].internal
    BY <1>0, <2>1, <2>2, <2>3 DEF Linked, active_transfer, SameTransfer
  <2>5. serial[m].bits = serial[o].bits
    BY <1>2, <1>4
  <2>6. b \in Bytes /\ ((u.bits = 0 /\ u.peer = b) \/ MidByte(u, b))
    <3>1. CASE serial[m].bits = 0
      <4>1. b = serial[o].staged /\ endpoint_outgoing_byte(serial[o]) = serial[o].staged
        BY <1>2, <1>4, <2>5, <3>1 DEF endpoint_outgoing_byte
      <4> QED BY <2>2, <2>4, <3>1, <4>1
    <3>2. CASE serial[m].bits # 0
      <4>1. b = swap[m]
        BY <1>2, <1>4, <2>5, <3>2
      <4>2. b \in Bytes /\ OnCable(m, b)
        BY <1>0, <4>1 DEF ExchangeOK
      <4>3. MidByte(serial[m], b)
        BY <2>4, <4>2 DEF OnCable
      <4> QED BY <2>2, <4>2, <4>3, SameByte
    <3> QED BY <3>1, <3>2
  <2>7. /\ shift_one_bit(u).internal = u.internal /\ shift_one_bit(w).internal = w.internal
        /\ u.bits + 1 = ByteBits => /\ shift_one_bit(u).req = FALSE
                                    /\ shift_one_bit(w).req = FALSE
                                    /\ shift_one_bit(u).sb = Bits(b)
        /\ u.bits + 1 # ByteBits => /\ shift_one_bit(u).req = u.req /\ shift_one_bit(u).bits = u.bits + 1
                                    /\ shift_one_bit(w).req = w.req /\ shift_one_bit(w).bits = u.bits + 1
                                    /\ MidByte(shift_one_bit(u), b)
    <3>1. u.bits = w.bits
      BY <2>4, <2>5
    <3>2. /\ shift_one_bit(u).internal = u.internal
          /\ u.bits + 1 = ByteBits => shift_one_bit(u).req = FALSE
          /\ u.bits + 1 # ByteBits => shift_one_bit(u).req = u.req /\ shift_one_bit(u).bits = u.bits + 1
      BY <2>2, ShiftFields
    <3>3. /\ shift_one_bit(w).internal = w.internal
          /\ w.bits + 1 = ByteBits => shift_one_bit(w).req = FALSE
          /\ w.bits + 1 # ByteBits => shift_one_bit(w).req = w.req /\ shift_one_bit(w).bits = w.bits + 1
      BY <2>3, ShiftFields
    <3>4. /\ u.bits + 1 = ByteBits => shift_one_bit(u).sb = Bits(b)
          /\ u.bits + 1 # ByteBits => MidByte(shift_one_bit(u), b)
      BY <2>2, <2>6, ShiftCarriesByte
    <3> QED BY <3>1, <3>2, <3>3, <3>4
  <2>8. CASE u.bits + 1 = ByteBits
    <3>1. serial'[m].req = FALSE /\ serial'[o].req = FALSE /\ serial'[m].sb = Bits(b)
      BY <2>2, <2>3, <2>7, <2>8 DEF SameTransfer
    <3> QED BY <1>0, <2>4, <2>6, <3>1 DEF OnCable, Completes
  <2>9. CASE u.bits + 1 # ByteBits
    <3>1. /\ serial'[m].req = serial[m].req /\ serial'[o].req = serial[o].req
          /\ serial'[m].internal = serial[m].internal /\ serial'[o].internal = serial[o].internal
          /\ serial'[m].bits = serial'[o].bits
      BY <2>2, <2>3, <2>4, <2>7, <2>9 DEF SameTransfer
    <3>2. MidByte(serial'[m], b)
      BY <2>2, <2>7, <2>9, SameByte
    <3>3. \A n \in Pair : serial'[n].req = serial[n].req /\ serial'[n].internal = serial[n].internal
      BY <1>0, <3>1 DEF Pair, Other
    <3>4. Linked'
      BY <1>0, <1>1, <2>1, <3>3 DEF Linked, active_transfer, Pair
    <3>5. ~ Completes(m)
      BY <2>4, <3>1 DEF Completes
    <3> QED BY <2>6, <3>1, <3>2, <3>4, <3>5 DEF OnCable
  <2> QED BY <2>8, <2>9
<1>5. CASE ~ Dmg04Exchanges
  <2>1. b = swap[m] /\ b \in Bytes /\ OnCable(m, b)
    BY <1>0, <1>2, <1>5 DEF ExchangeOK
  <2>2. CASE ~ serial[m].req /\ ~ serial[o].req
    <3>1. SameTransfer(serial[m], serial'[m]) /\ SameTransfer(serial[o], serial'[o])
      BY <1>0, <1>5, <2>2, CableQuiet
    <3> QED BY <2>1, <2>2, <3>1 DEF OnCable, Completes, SameTransfer
  <2>3. CASE Linked /\ MidByte(serial[m], b) /\ serial[o].bits = serial[m].bits
    <3>1. \A n \in Pair : SameTransfer(serial[n], serial'[n])
      BY <1>0, <1>5, <2>3, CableQuiet
    <3>2. Linked'
      BY <1>0, <1>1, <2>3, <3>1 DEF Linked, active_transfer, SameTransfer, Pair
    <3>3. MidByte(serial'[m], b) /\ serial'[o].bits = serial'[m].bits /\ serial'[m].req = serial[m].req
      BY <1>0, <2>3, <3>1, SameByte DEF SameTransfer
    <3> QED BY <2>1, <3>2, <3>3 DEF OnCable, Completes
  <2> QED BY <2>1, <2>2, <2>3 DEF OnCable
<1> QED BY <1>4, <1>5

LEMMA AdapterTicks ==
  ASSUME PulseInv, ExchangeInv, topology = "Dmg07",
         NEW v, TicksPhase(v), NEW m \in Machines, swap'[m] # NoByte
  PROVE  ExchangeOK(m)' /\ Arrived(m)
<1> DEFINE s == serial[m]
           b == swap'[m]
<1>0. /\ SerialTyped(s) /\ s.pulses \in {0, 1} /\ ExchangeOK(m)
      /\ phase = "ticks" /\ phase' = "cpu" /\ Ticks(v) /\ topology' = topology
  BY DEF ExchangeInv, TypedInv, PulseInv, PulseOK, TicksPhase
<1>1. b = swap[m]
  BY DEF TicksPhase, SwapAfterTicks
<1>2. /\ b \in Bytes /\ s.req /\ ~ s.internal /\ ~ stopped[m] /\ s.pulses = 1 /\ s.peer \in Bytes
      /\ adapter.queued = s.bits + 1
      /\ (s.bits = 0 /\ s.peer = b) \/ MidByte(s, b)
  BY <1>0, <1>1 DEF ExchangeOK, OnAdapter
<1>3. PICK r, t : /\ SerialTyped(r) /\ SameTransfer(s, r) /\ r.pulses = s.pulses /\ r.peer = s.peer
                  /\ t = tick_t_cycle(r, speed[m]) /\ SameTransfer(t, serial'[m])
  BY <1>0, <1>2, TicksOfConsole
<1>4. PICK u : SerialTyped(u) /\ SameTransfer(r, u) /\ u.peer = r.peer /\ t = shift_one_bit(u)
  <2>1. Shifts(r, speed[m]) /\ r.pulses \in {0, 1}
    BY <1>2, <1>3 DEF Shifts, SameTransfer
  <2> QED BY <1>3, <2>1, TickShifts
<1>5. SameTransfer(s, u) /\ u.bits = s.bits /\ u.req = s.req
  BY <1>3, <1>4 DEF SameTransfer
<1>6. (u.bits = 0 /\ u.peer = b) \/ MidByte(u, b)
  BY <1>2, <1>3, <1>4, <1>5, SameByte
<1>7. /\ u.bits + 1 = ByteBits => t.req = FALSE /\ t.sb = Bits(b)
      /\ u.bits + 1 # ByteBits => t.req = u.req /\ t.bits = u.bits + 1 /\ MidByte(t, b)
  <2>1. /\ u.bits + 1 = ByteBits => shift_one_bit(u).req = FALSE
        /\ u.bits + 1 # ByteBits => shift_one_bit(u).req = u.req /\ shift_one_bit(u).bits = u.bits + 1
    BY <1>4, ShiftFields
  <2>2. /\ u.bits + 1 = ByteBits => shift_one_bit(u).sb = Bits(b)
        /\ u.bits + 1 # ByteBits => MidByte(shift_one_bit(u), b)
    BY <1>2, <1>3, <1>4, <1>6, ShiftCarriesByte
  <2> QED BY <1>4, <2>1, <2>2
<1>8. CASE u.bits + 1 = ByteBits
  <2>1. serial'[m].req = FALSE /\ serial'[m].sb = Bits(b) /\ adapter.queued = ByteBits
    BY <1>2, <1>3, <1>5, <1>7, <1>8 DEF SameTransfer
  <2> QED BY <1>0, <1>2, <2>1 DEF ExchangeOK, OnAdapter, Arrived
<1>9. CASE u.bits + 1 # ByteBits
  <2>1. adapter' = adapter
    BY <1>0, <1>2, <1>5, <1>9 DEF Ticks
  <2>2. serial'[m].req = s.req /\ serial'[m].bits = adapter.queued /\ MidByte(serial'[m], b)
    BY <1>2, <1>3, <1>5, <1>7, <1>9, SameByte DEF SameTransfer
  <2> QED BY <1>0, <1>2, <2>1, <2>2 DEF ExchangeOK, OnAdapter, Arrived, Completes
<1> QED BY <1>8, <1>9
LEMMA AdapterBitStep ==
  ASSUME PulseInv, PrinterInv, RingInv, ExchangeInv, IngressAdapterBit,
         NEW m \in Machines, swap'[m] # NoByte
  PROVE  ExchangeOK(m)'
<1> DEFINE s == serial[m]
           a == incoming_byte_for(adapter, PortOf[m])
           p == [n \in Machines |->
                  IF n \in Pulsed
                  THEN [port[n] EXCEPT !.incoming = incoming_byte_for(adapter, PortOf[n])]
                  ELSE port[n]]
<1>0. /\ TypedInv /\ ExchangeOK(m) /\ phase = "ingress" /\ phase' = "ticks"
      /\ topology = "Dmg07" /\ topology' = topology /\ stopped' = stopped /\ Ingest(p)
  BY DEF ExchangeInv, IngressAdapterBit
<1>1. /\ m \in Pulsed
      /\ \/ adapter.queued = 0 /\ s.bits = 0 /\ swap'[m] = a
         \/ adapter.queued = s.bits /\ swap'[m] = swap[m]
  BY DEF IngressAdapterBit, SwapAfterBit
<1>2. port[m].kind = "Dmg07" /\ s.req /\ ~ stopped[m] /\ ~ s.internal
  BY <1>0, <1>1 DEF Pulsed, waiting_for_external_clock, active_transfer
<1>3. a \in Bytes
  BY <1>0, IncomingIsAByte
<1>4. serial_peer(p[m]) = a
  <2>1. p[m] = [port[m] EXCEPT !.incoming = a] /\ PortFields \subseteq DOMAIN port[m]
    BY <1>1 DEF PrinterInv, PortOK
  <2> HIDE DEF p, a
  <2>2. p[m].incoming = a /\ p[m].kind = "Dmg07"
    BY <1>2, <2>1 DEF PortFields
  <2> QED BY <1>3, <2>2 DEF serial_peer, NoByte, Bytes
<1> HIDE DEF a, p
<1>5. SameTransfer(s, serial'[m]) /\ serial'[m].peer = a /\ serial'[m].pulses = 1
  BY <1>0, <1>1, <1>2, <1>4, IngressOfConsole DEF AcceptsExternalPulse
<1>6. adapter'.queued = adapter.queued + 1
  <2>1. AdapterFields \subseteq DOMAIN adapter
    BY <1>0 DEF RingInv, AdapterOK
  <2>2. \E cl : adapter' = [adapter EXCEPT !.queued = @ + 1, !.clocked = cl]
    BY DEF IngressAdapterBit
  <2> QED BY <2>1, <2>2 DEF AdapterFields
<1>7. /\ swap'[m] \in Bytes /\ adapter.queued = s.bits
      /\ (s.bits = 0 /\ a = swap'[m]) \/ MidByte(s, swap'[m])
  <2>1. CASE swap'[m] = swap[m] /\ adapter.queued = s.bits
    BY <1>0, <1>2, <2>1 DEF ExchangeOK, OnAdapter
  <2> QED BY <1>1, <1>3, <2>1
<1>8. (serial'[m].bits = 0 /\ a = swap'[m]) \/ MidByte(serial'[m], swap'[m])
  BY <1>5, <1>7, SameByte DEF SameTransfer
<1>9. serial'[m].req = s.req /\ serial'[m].internal = s.internal /\ serial'[m].bits = s.bits
  BY <1>5 DEF SameTransfer
<1> QED BY <1>0, <1>2, <1>3, <1>5, <1>6, <1>7, <1>8, <1>9 DEF ExchangeOK, OnAdapter

\* Neither end of an exchange is restarted or stopped.
LEMMA CpuKeepsExchange ==
  ASSUME ExchangeInv, NEW o, CpuPhase(o), NEW m \in Machines, swap'[m] # NoByte
  PROVE  ExchangeOK(m)'
<1>0. /\ TypedInv /\ CableInv /\ ExchangeOK(m) /\ phase = "cpu" /\ phase' = "ingress"
      /\ UNCHANGED <<port, topology, adapter>>
  BY DEF ExchangeInv, CpuPhase
<1>1. /\ swap'[m] = swap[m] /\ o[m].op \notin {"SB", "SC", "SEND", "STOP"}
      /\ topology = "Dmg04" => \A n \in Machines : o[n].op \notin {"SC", "SEND", "STOP"}
  BY DEF CpuPhase, SwapAfterCpu
<1>2. serial'[m] = serial[m]
  BY <1>1 DEF CpuPhase, CpuSerial
<1>3. CASE topology = "Dmg04"
  <2>1. OnCable(m, swap[m]) /\ swap[m] \in Bytes /\ Machines = Pair
    BY <1>0, <1>1, <1>3 DEF ExchangeOK, CableInv
  <2>2. ASSUME NEW n \in Pair
        PROVE  /\ serial'[n].req = serial[n].req /\ serial'[n].bits = serial[n].bits
               /\ serial'[n].internal = serial[n].internal
               /\ ~ stopped[n] => ~ stopped'[n]
    <3>1. serial'[n] \in {serial[n], write_sb(serial[n], o[n].byte)}
      BY <1>1, <1>3, <2>1 DEF CpuPhase, CpuSerial
    <3>2. SerialFields \subseteq DOMAIN serial[n]
      BY <1>0, <2>1 DEF TypedInv, SerialTyped
    <3>3. ~ stopped[n] => ~ stopped'[n]
      BY <1>1, <1>3, <2>1 DEF CpuPhase
    <3> QED BY <3>1, <3>2, <3>3 DEF write_sb, SerialFields
  <2>3. Linked => Linked'
    BY <1>0, <2>2 DEF Linked, active_transfer, Pair
  <2>4. Other(m) \in Pair /\ m \in Pair
    BY <2>1, OtherEnd
  <2> QED BY <1>0, <1>1, <1>2, <1>3, <2>1, <2>2, <2>3, <2>4 DEF ExchangeOK, OnCable
<1>4. CASE topology # "Dmg04"
  BY <1>0, <1>1, <1>2, <1>4 DEF ExchangeOK, OnAdapter
<1> QED BY <1>3, <1>4

LEMMA QuietKeepsExchange ==
  ASSUME PulseInv, ExchangeInv, IngressQuiet, NEW m \in Machines, swap'[m] # NoByte
  PROVE  ExchangeOK(m)'
<1>0. /\ TypedInv /\ CableInv /\ ExchangeOK(m) /\ phase = "ingress"
      /\ UNCHANGED <<port, topology, stopped, swap>> /\ topology \in {"None", "Dmg04"}
  BY DEF ExchangeInv, IngressQuiet
<1>1. topology = "Dmg04" /\ swap[m] \in Bytes /\ OnCable(m, swap[m])
  BY <1>0 DEF ExchangeOK
<1>2. Machines = Pair /\ m \in Pair /\ Other(m) \in Pair
  BY <1>0, <1>1, OtherEnd DEF CableInv
<1>3. \A n \in Pair : SameTransfer(serial[n], serial'[n])
  <2>1. Ingest(port)
    BY <1>1 DEF IngressQuiet
  <2> QED BY <1>0, <1>2, <2>1, IngressOfConsole
<1>4. Linked => Linked'
  BY <1>0, <1>3 DEF Linked, active_transfer, SameTransfer, Pair
<1>5. MidByte(serial[m], swap[m]) => MidByte(serial'[m], swap[m])
  BY <1>2, <1>3, SameByte
<1>6. /\ serial'[m].req = serial[m].req /\ serial'[Other(m)].req = serial[Other(m)].req
      /\ serial'[m].bits = serial[m].bits /\ serial'[Other(m)].bits = serial[Other(m)].bits
  BY <1>2, <1>3 DEF SameTransfer
<1> QED BY <1>0, <1>1, <1>4, <1>5, <1>6 DEF ExchangeOK, OnCable

LEMMA ExchangeStep ==
  ASSUME PulseInv, PrinterInv, RingInv, ExchangeInv, Next, NEW m \in Machines
  PROVE  /\ ExchangeOK(m)'
         /\ swap'[m] # NoByte => Arrived(m)
<1> SUFFICES ASSUME swap'[m] # NoByte PROVE ExchangeOK(m)' /\ Arrived(m)
  BY DEF ExchangeOK
<1>1. CASE \E v \in Verdicts : TicksPhase(v)
  <2>1. PICK v \in Verdicts : TicksPhase(v)
    BY <1>1
  <2>2. topology \in {"Dmg04", "Dmg07"}
    <3>1. topology \notin {"Dmg04"} => swap'[m] = swap[m]
      BY <2>1 DEF TicksPhase, SwapAfterTicks
    <3> QED BY <3>1 DEF ExchangeInv, ExchangeOK
  <2> QED BY <2>1, <2>2, CableTicks, AdapterTicks
<1>2. CASE ~ \E v \in Verdicts : TicksPhase(v)
  <2>1. phase # "ticks" /\ Arrived(m)
    <3>1. phase # "ticks"
      BY <1>2 DEF Next, Step, Host, IngressQuiet, IngressAdapterBit, CpuPhase, Detach, AttachDmg04,
                  AttachDmg07, SetAttachment, TakePrintedPages
    <3> QED BY <3>1 DEF Arrived, Completes
  <2>2. CASE \E n \in Machines : TakePrintedPages(n)
    <3>1. /\ ExchangeOK(m) /\ CableInv
          /\ UNCHANGED <<phase, serial, topology, adapter, stopped, swap>>
      BY <2>2 DEF ExchangeInv, TakePrintedPages
    <3>2. \A n \in Machines : port'[n].kind = port[n].kind
      BY <2>2, KindKept
    <3>3. topology = "Dmg04" => (Linked <=> Linked')
      BY <3>1, <3>2 DEF Linked, active_transfer, CableInv
    <3> QED BY <2>1, <3>1, <3>3 DEF ExchangeOK, OnCable, OnAdapter
  <2>3. CASE \E p : Replug(p)
    BY <2>3 DEF Replug, NoSwap
  <2>4. Next => \/ IngressQuiet \/ IngressAdapterBit \/ (\E o : CpuPhase(o)) \/ (\E p : Replug(p))
                \/ (\E n \in Machines : TakePrintedPages(n)) \/ (\E v \in Verdicts : TicksPhase(v))
    BY DEF Next, Step, Host, Detach, AttachDmg04, AttachDmg07, SetAttachment
  <2> QED BY <1>2, <2>1, <2>2, <2>3, <2>4, QuietKeepsExchange, AdapterBitStep, CpuKeepsExchange
<1> QED BY <1>1, <1>2

LEMMA ExchangeInit == Init => ExchangeInv
<1> SUFFICES ASSUME Init PROVE ExchangeInv
  OBVIOUS
<1>1. ASSUME NEW c, NEW m \in Machines, serial[m] = PowerOn(c) PROVE SerialTyped(serial[m])
  <2> DEFINE s == serial[m]
  <2>1. /\ SerialFields \subseteq DOMAIN s /\ s.sb = Bits(0) /\ s.bits = 0 /\ s.staged = 0
        /\ s.out = 0 /\ s.latest = NoByte
    BY <1>1 DEF PowerOn, SerialFields
  <2>2. IsSeq(Bits(0)) /\ Len(Bits(0)) = ByteBits /\ 0 \in 0..(ByteBits - 1) /\ 0 \in Bytes
    BY BitsAreASeq, SerialConstants DEF Bytes
  <2> HIDE DEF s
  <2> QED BY <2>1, <2>2 DEF SerialTyped, s
<1>2. \A m \in Machines : /\ \E c : serial[m] = PowerOn(c)
                          /\ port[m].kind = "None" /\ swap[m] = NoByte
  BY DEF Init, NewPort, NoSwap
<1>3. topology = "None"
  BY DEF Init
<1> QED BY <1>1, <1>2, <1>3 DEF ExchangeInv, TypedInv, CableInv, ExchangeOK, PortKinds

(* The inductive form of ByteArrivesWhole: while a byte that found both ends *)
(* at their first bit is under way, SB holds its first bits and the latch    *)
(* its others; the ends of a cable are as far in it as each other, and a     *)
(* console on the adapter as far as the bits clocked (serial.rs, dmg04.rs).  *)
THEOREM ExchangeInvariant == Spec => []ExchangeInv
<1>1. PulseInv /\ PrinterInv /\ RingInv /\ ExchangeInv /\ [Next]_vars => ExchangeInv'
  <2> SUFFICES ASSUME PulseInv, PrinterInv, RingInv, ExchangeInv, [Next]_vars PROVE ExchangeInv'
    OBVIOUS
  <2>1. CASE UNCHANGED vars
    BY <2>1 DEF vars, ExchangeInv, TypedInv, CableInv, ExchangeOK, OnCable, OnAdapter, Linked,
                active_transfer, Pulsed, waiting_for_external_clock, internal_clock_edge_pending
  <2>2. CASE Next
    <3>1. TypedInv /\ CableInv
      BY DEF ExchangeInv
    <3> QED BY <2>2, <3>1, TypedNext, CableNext, ExchangeStep DEF ExchangeInv
  <2> QED BY <2>1, <2>2
<1> QED BY <1>1, ExchangeInit, PulseInvariant, PrinterInvariant, RingInvariant, PTL DEF Spec

(* A byte whose first bit finds both ends at theirs, and that neither end    *)
(* restarts, ends in SB whole: in the same T-cycle at both ends of a cable,  *)
(* and with the last bit the adapter clocks (serial.rs shift_one_bit).       *)
THEOREM ByteAlwaysArrivesWhole == Spec => ByteArrivesWhole
<1> DEFINE Whole == \A m \in Machines :
             Completes(m) /\ swap'[m] # NoByte
               => /\ serial'[m].sb = Bits(swap'[m])
                  /\ topology = "Dmg04" => Completes(Other(m))
                  /\ topology = "Dmg07" => adapter.queued = ByteBits
<1>1. PulseInv /\ PrinterInv /\ RingInv /\ ExchangeInv /\ [Next]_vars => [Whole]_vars
  BY ExchangeStep DEF Arrived
<1>2. Spec => [][Whole]_vars
  <2> HIDE DEF Whole
  <2> QED BY <1>1, PulseInvariant, PrinterInvariant, RingInvariant, ExchangeInvariant, PTL DEF Spec
<1> QED BY <1>2 DEF ByteArrivesWhole
=============================================================================
