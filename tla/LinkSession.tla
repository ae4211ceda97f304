---------------------------- MODULE LinkSession ----------------------------
(***************************************************************************)
(* Consoles stepped in lock step by one linked session (link/session.rs):  *)
(* the DMG-04 cable, the DMG-07 adapter, and the printer or loopback plug  *)
(* a console may have of its own.  A T-cycle is the three phases that      *)
(* touch the link, each run for every console before the next: the ingress *)
(* of external events, the peripheral ticks, and the CPUs.  The host       *)
(* attaches and detaches between T-cycles.                                 *)
(***************************************************************************)
EXTENDS Dmg07, Printer, FiniteSets

CONSTANTS Machines,      \* indexes of the consoles, 1..n
          LinkCapable,   \* those whose host platform has a link port
          PortOf,        \* console -> its port on the adapter
          Topologies,    \* what the host may attach
          Plugs,         \* <<console, kind>> the host may plug by itself
          GameOps,       \* console -> port kind -> what its CPU may do
          CableBytes,    \* bytes the consoles hold when a cable is plugged
          PacketInput,   \* printer parser position -> bytes a game sends it
          AdapterInput,  \* adapter phase -> console -> bytes a game sends it;
                         \* Header is P1's RATE and SIZE
          Verdicts,      \* what the data of a printer packet may turn out
          MaxPages       \* pages left for the host before it takes them

Bytes == 0..255
PortKinds == {"None", "Loopback", "Printer", "Dmg04", "Dmg07"}

ASSUME LinkConstants ==
  /\ Machines = 1..Cardinality(Machines)
  /\ LinkCapable \subseteq Machines
  /\ \A m \in Machines : PortOf[m] \in Ports
  /\ Plugs \subseteq Machines \X PortKinds
  /\ \A m \in Machines : \A kind \in PortKinds : \A o \in GameOps[m][kind] :
       o.op \in {"SB", "SEND"} => o.byte \in Bytes

VARIABLES
  phase,     \* "ingress", "ticks" or "cpu": what the T-cycle does next
  serial,    \* console -> serial port
  port,      \* console -> [kind, incoming, printer] of its external port
  topology,  \* "None", "Dmg04" or "Dmg07"
  adapter,   \* the DMG-07 adapter
  stopped,   \* console -> CPU in STOP or in a speed-switch pause
  speed,     \* console -> "Normal" or "Double"
  swap,      \* history: console -> the byte it must receive, or NoByte
  sent,      \* history: port -> what it sent in this transmission packet
  due        \* history: port -> what the adapter owes of the last packet

vars == <<phase, serial, port, topology, adapter, stopped, speed,
          swap, sent, due>>

Pair == {1, 2}
Other(m) == 3 - m

NewPort(kind) == [kind |-> kind, incoming |-> NoByte, printer |-> NewPrinter]

\* The serial endpoint an attachment presents.
serial_peer(p) ==
  CASE p.kind = "None" -> Open
    [] p.kind = "Loopback" -> Loop
    [] p.kind = "Printer" -> p.printer.staged
    [] OTHER -> IF p.incoming = NoByte THEN Open ELSE p.incoming

SyncPeer(s, p) == [s EXCEPT !.peer = serial_peer(p)]

NoSwap == [m \in Machines |-> NoByte]
NothingSent == [p \in 1..4 |-> <<>>]

Init ==
  /\ phase = "ingress"
  /\ \E c \in [Machines -> {0, CounterMod - 1}] :
        serial = [m \in Machines |-> PowerOn(c[m])]
  /\ port = [m \in Machines |-> NewPort("None")]
  /\ topology = "None"
  /\ adapter = NewAdapter
  /\ stopped = [m \in Machines |-> FALSE]
  /\ speed = [m \in Machines |-> "Normal"]
  /\ swap = NoSwap
  /\ sent = NothingSent
  /\ due = NothingSent

-----------------------------------------------------------------------------
(* What a console shows the cable or the adapter.                          *)

active_transfer(m, kind) == port[m].kind = kind /\ serial[m].req /\ ~stopped[m]

waiting_for_external_clock(m, kind) ==
  active_transfer(m, kind) /\ ~serial[m].internal

internal_clock_edge_pending(m) ==
  /\ active_transfer(m, "Dmg04")
  /\ serial[m].internal
  /\ internal_clock_edge(serial[m], speed[m])

\* The cable carries an exchange in the T-cycles of the master's edges.
Dmg04Exchanges ==
  \E m \in Pair : /\ internal_clock_edge_pending(m)
                  /\ waiting_for_external_clock(Other(m), "Dmg04")

-----------------------------------------------------------------------------
(* The session's phases.                                                   *)

\* Clock edges of the master, and bits of the adapter, become pulses queued
\* at the consoles that wait for them.
Pulsed ==
  CASE topology = "Dmg04" ->
         {m \in Pair : /\ internal_clock_edge_pending(Other(m))
                       /\ waiting_for_external_clock(m, "Dmg04")}
    [] topology = "Dmg07" ->
         {m \in Machines : waiting_for_external_clock(m, "Dmg07")}
    [] OTHER -> {}

Ingest(p) ==
  serial' = [m \in Machines |->
    LET s == SyncPeer(serial[m], p[m])
    IN IF m \in Pulsed /\ ~stopped[m] THEN queue_external_clock_pulse(s) ELSE s]

IngressQuiet ==
  /\ phase = "ingress"
  /\ topology \in {"None", "Dmg04"}
  /\ phase' = "ticks"
  /\ IF topology = "Dmg04" THEN Ingest(port) ELSE UNCHANGED serial
  /\ UNCHANGED <<port, topology, adapter, stopped, speed, swap,
                 sent, due>>

\* History: the byte a console must end with, if it takes each of its bits.
SwapAfterBit ==
  [m \in Machines |->
     IF m \notin Pulsed THEN NoByte
     ELSE IF adapter.queued = 0 /\ serial[m].bits = 0
          THEN incoming_byte_for(adapter, PortOf[m])
     ELSE IF adapter.queued = serial[m].bits THEN swap[m] ELSE NoByte]

\* The adapter clocks a bit into every console that waits for one.  The
\* T-cycles between two of its bits leave the link as it is and are skipped.
IngressAdapterBit ==
  /\ phase = "ingress"
  /\ topology = "Dmg07"
  /\ phase' = "ticks"
  /\ LET p == [m \in Machines |->
                 IF m \in Pulsed
                 THEN [port[m] EXCEPT
                        !.incoming = incoming_byte_for(adapter, PortOf[m])]
                 ELSE port[m]]
     IN port' = p /\ Ingest(p)
  /\ adapter' = [adapter EXCEPT !.queued = @ + 1,
                                !.clocked = @ \cup {PortOf[m] : m \in Pulsed}]
  /\ swap' = SwapAfterBit
  /\ UNCHANGED <<topology, stopped, speed, sent, due>>

\* The cable presents each end the other's byte in the T-cycle of an edge,
\* the open line otherwise.
CablePorts ==
  IF topology # "Dmg04" THEN port
  ELSE [m \in Machines |->
         IF m \in Pair
         THEN [port[m] EXCEPT !.incoming =
                 IF Dmg04Exchanges THEN endpoint_outgoing_byte(serial[Other(m)])
                 ELSE NoByte]
         ELSE port[m]]

\* A console's serial port and the printer behind it tick together: the
\* printer's clock first, then the port, then the byte it completed.
TickedPrinter(m, s, v) ==
  LET q == printer_tick(port[m].printer)
  IN IF s.latest = NoByte THEN q ELSE receive_serial_byte(q, s.latest, v)

\* What the adapter makes of a byte, its last bit queued this T-cycle.
Completed(s) ==
  [p \in 1..4 |->
     IF p \in adapter.clocked
     THEN s[CHOOSE m \in Machines : PortOf[m] = p].latest ELSE NoByte]

Ticks(v) ==
  LET ports == CablePorts
      synced == [m \in Machines |->
                   IF topology = "Dmg04" THEN SyncPeer(serial[m], ports[m])
                   ELSE serial[m]]
      ticked == [m \in Machines |->
                   IF stopped[m] THEN synced[m]
                   ELSE tick_t_cycle(synced[m], speed[m])]
      done == topology = "Dmg07" /\ adapter.queued = ByteBits
      after == [m \in Machines |->
                  IF port[m].kind = "Printer" /\ ~stopped[m]
                  THEN [ports[m] EXCEPT !.printer = TickedPrinter(m, ticked[m], v)]
                  ELSE IF done THEN [ports[m] EXCEPT !.incoming = NoByte]
                  ELSE ports[m]]
  IN /\ serial' = [m \in Machines |->
                     IF port[m].kind = "Printer" \/ done
                     THEN SyncPeer(ticked[m], after[m]) ELSE ticked[m]]
     /\ port' = after
     /\ adapter' = IF done THEN complete_byte(adapter, Completed(ticked))
                   ELSE adapter

-----------------------------------------------------------------------------
(* History: which exchanges began with both ends at their first bit, and   *)
(* what the ports of the adapter sent for the packet after this one.       *)

SwapAfterTicks ==
  [m \in Machines |->
     IF ~(topology = "Dmg04" /\ m \in Pair /\ Dmg04Exchanges) THEN swap[m]
     ELSE IF serial[m].bits = 0 /\ serial[Other(m)].bits = 0
          THEN serial[Other(m)].staged
     ELSE IF serial[m].bits = serial[Other(m)].bits THEN swap[m]
     ELSE NoByte]

\* The payload window is the SIZE bytes after the leading one of a packet.
WindowHistory(got) ==
  LET inWindow == adapter.phase = "Transmission" /\ adapter.idx \in 1..adapter.size
      now == IF ~inWindow THEN sent
             ELSE [p \in 1..4 |-> Append(sent[p],
                     IF p \in adapter.connected /\ got[p] # NoByte
                     THEN got[p] ELSE 0)]
      last == adapter.phase = "Transmission" /\ adapter.idx + 1 = packet_len(adapter.size)
  IN IF adapter.phase = "TransmissionIndicator"
     THEN /\ sent' = NothingSent
          /\ due' = [p \in 1..4 |-> [i \in 1..adapter.size |-> 0]]
     ELSE /\ sent' = IF last THEN NothingSent ELSE now
          /\ due' = IF last THEN now ELSE due

\* Bound: a game asks for no sheet while MaxPages wait for the host.
PagesBound == \A m \in Machines : Len(port[m].printer.pages) < MaxPages

TicksPhase(v) ==
  /\ phase = "ticks"
  /\ v.sheets => PagesBound
  /\ phase' = "cpu"
  /\ Ticks(v)
  /\ swap' = SwapAfterTicks
  /\ IF topology = "Dmg07" /\ adapter.queued = ByteBits
     THEN WindowHistory(Completed(serial')) ELSE UNCHANGED <<sent, due>>
  /\ UNCHANGED <<topology, stopped, speed>>

-----------------------------------------------------------------------------
(* The CPUs.                                                               *)

Nop == [op |-> "NOP"]

\* A restarted or stopped port ends the exchange for both ends; one that
\* rewrites its own SB only spoils what it reads itself.
SwapAfterCpu(o) ==
  [m \in Machines |->
     IF \/ o[m].op = "SB"
        \/ \E n \in Machines : /\ o[n].op \in {"SC", "SEND", "STOP"}
                               /\ n = m \/ topology = "Dmg04"
     THEN NoByte ELSE swap[m]]

\* SEND is a write to SB and one to SC with no clock between them.
CpuSerial(s, o) ==
  CASE o.op = "SB" -> write_sb(s, o.byte)
    [] o.op = "SC" -> write_sc(s, o.req, o.internal, o.high)
    [] o.op = "SEND" -> write_sc(write_sb(s, o.byte), TRUE, FALSE, FALSE)
    [] OTHER -> s

\* Bound: the bytes a game sends a printer or the adapter, by what they wait
\* for.
GameInput(m) ==
  CASE port[m].kind = "Printer" -> PacketInput[port[m].printer.at]
    [] port[m].kind = "Dmg07" ->
         AdapterInput[IF adapter.phase = "Ping" /\ adapter.resp[1] \in {2, 3}
                      THEN "Header" ELSE adapter.phase][m]
    [] OTHER -> Bytes

InputBound(m, o) ==
  port[m].kind \in {"Printer", "Dmg07"}
    => /\ o.op \in {"SB", "SEND"} => ~serial[m].req
       /\ o.op \in {"SB", "SEND"} => o.byte \in GameInput(m)
       /\ o.op = "SC" => serial[m].staged \in GameInput(m)

\* What the CPU of a console may do to its port next.
CpuOps(m) ==
  {o \in GameOps[m][port[m].kind] :
     /\ o.op = "WAKE" => stopped[m]
     /\ o.op \notin {"WAKE", "NOP"} => ~stopped[m]
     /\ InputBound(m, o)}

CpuPhase(o) ==
  /\ phase = "cpu"
  /\ phase' = "ingress"
  /\ \A m \in Machines : o[m] \in CpuOps(m)
  /\ serial' = [m \in Machines |-> CpuSerial(serial[m], o[m])]
  /\ stopped' = [m \in Machines |->
                   (stopped[m] \/ o[m].op = "STOP") /\ o[m].op # "WAKE"]
  /\ speed' = [m \in Machines |->
                 IF o[m].op = "WAKE" THEN o[m].speed ELSE speed[m]]
  /\ swap' = SwapAfterCpu(o)
  /\ UNCHANGED <<port, topology, adapter, sent, due>>

-----------------------------------------------------------------------------
(* The host, between T-cycles.                                             *)

\* Bounds: a printer is plugged before the games touch their ports, a cable
\* while they hold only bytes of CableBytes.
PlugBound(kind) ==
  \A m \in Machines :
    /\ kind = "Printer" => serial[m] = PowerOn(serial[m].counter)
    /\ kind \in {"Dmg04", "Dmg07"} => serial[m].staged \in CableBytes

Replug(p) ==
  /\ port' = p
  /\ serial' = [m \in Machines |-> SyncPeer(serial[m], p[m])]
  /\ swap' = NoSwap
  /\ sent' = NothingSent
  /\ due' = NothingSent

\* Detaching the cable or the adapter unplugs the consoles on it.
Detach ==
  /\ phase = "ingress"
  /\ topology # "None"
  /\ topology' = "None"
  /\ adapter' = NewAdapter
  /\ Replug([m \in Machines |-> NewPort("None")])
  /\ UNCHANGED <<phase, stopped, speed>>

AttachDmg04 ==
  /\ phase = "ingress"
  /\ "Dmg04" \in Topologies
  /\ Machines = Pair
  /\ Machines \subseteq LinkCapable
  /\ PlugBound("Dmg04")
  /\ topology' = "Dmg04"
  /\ adapter' = NewAdapter
  /\ Replug([m \in Machines |-> NewPort("Dmg04")])
  /\ UNCHANGED <<phase, stopped, speed>>

AttachDmg07 ==
  /\ phase = "ingress"
  /\ "Dmg07" \in Topologies
  /\ Machines \subseteq LinkCapable
  /\ PlugBound("Dmg07")
  /\ topology' = "Dmg07"
  /\ adapter' = NewAdapter
  /\ Replug([m \in Machines |-> NewPort("Dmg07")])
  /\ UNCHANGED <<phase, stopped, speed>>

\* The host plugs one console's port; a platform without one gets nothing.
SetAttachment(m, kind) ==
  /\ phase = "ingress"
  /\ topology = "None"
  /\ PlugBound(kind)
  /\ Replug([port EXCEPT ![m] =
               NewPort(IF m \in LinkCapable THEN kind ELSE "None")])
  /\ UNCHANGED <<phase, topology, adapter, stopped, speed>>

TakePrintedPages(m) ==
  /\ phase = "ingress"
  /\ port[m].printer.pages # <<>>
  /\ port' = [port EXCEPT ![m].printer.pages = <<>>]
  /\ UNCHANGED <<phase, serial, topology, adapter, stopped, speed,
                 swap, sent, due>>

Step ==
  \/ IngressQuiet
  \/ IngressAdapterBit
  \/ \E v \in Verdicts : TicksPhase(v)
  \/ /\ phase = "cpu"
     /\ \E o \in [Machines -> UNION {CpuOps(m) : m \in Machines}] : CpuPhase(o)

Host ==
  \/ Detach
  \/ AttachDmg04
  \/ AttachDmg07
  \/ \E plug \in Plugs : SetAttachment(plug[1], plug[2])
  \/ \E m \in Machines : TakePrintedPages(m)

Next == Step \/ Host

Spec == Init /\ [][Next]_vars

-----------------------------------------------------------------------------
(* Properties.                                                             *)

Completes(m) == serial[m].req /\ ~serial'[m].req /\ phase = "ticks"

\* A byte whose first bit finds both ends at theirs, and that neither end
\* restarts, arrives whole: SB ends as the byte the cable's other end had
\* latched (whatever that console wrote to its SB meanwhile) or the adapter
\* announced.  Both ends of the cable end it in the same T-cycle; the adapter
\* sees it end with the last bit it clocks.
ByteArrivesWhole ==
  [][\A m \in Machines :
       Completes(m) /\ swap'[m] # NoByte
         => /\ serial'[m].sb = Bits(swap'[m])
            /\ topology = "Dmg04" => Completes(Other(m))
            /\ topology = "Dmg07" => adapter.queued = ByteBits]_vars

\* Every clock pulse queued at a console is used in the T-cycle that queued
\* it, or belongs to a transfer that is still armed: a transfer never begins
\* with pulses banked from an earlier one.
NoBankedPulse ==
  \A m \in Machines :
    serial[m].pulses > 0 => phase = "ticks" \/ stopped[m]

\* The reply to a printer packet is the two bytes ALIVE and status, staged
\* back to back: the second one waits only behind the first.
ReplyInOrder ==
  \A m \in Machines :
    LET p == port[m].printer
    IN p.queue # <<>> => p.staged = Alive /\ Len(p.queue) = 1

\* What the adapter broadcasts in a transmission packet is what its ports sent
\* in the payload window of the packet before: port after port, SIZE bytes
\* each, and zeros for a port that is not connected or sent nothing.
RebroadcastsLastPacket ==
  topology = "Dmg07" /\ adapter.phase = "Transmission"
    => incoming_byte_for(adapter, 1)
         = due[(adapter.idx \div adapter.size) + 1][(adapter.idx % adapter.size) + 1]
=============================================================================
