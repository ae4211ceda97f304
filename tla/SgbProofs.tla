----------------------------- MODULE SgbProofs -----------------------------
(* Proofs about the Super Game Boy host, for every packet length, transfer  *)
(* length, fade length and set of meanings.                                 *)
EXTENDS Sgb, FiniteSetTheorems, TLAPS

-----------------------------------------------------------------------------
(* The reference reading of a line history that grows by one.               *)

Back(w) == {i \in 2..Len(w) : w[i] = "Idle"}
UpTo(w, i) == {j \in Back(w) : j <= i}

\* Every pulse of the history has its return to idle.
Counted(w) ==
  \A n \in 1..Cardinality(Back(w)) :
    \E i \in Back(w) : Cardinality(UpTo(w, i)) = n

\* Pulses, in terms of the two sets above.
LEMMA PulsesForm ==
  ASSUME NEW w
  PROVE  Pulses(w) = [n \in 1..Cardinality(Back(w)) |->
                        w[(CHOOSE i \in Back(w) : Cardinality(UpTo(w, i)) = n) - 1]]
  BY DEF Pulses, Back, UpTo

LEMMA BackIsFinite ==
  ASSUME NEW w \in Seq(Lines)
  PROVE  /\ IsFiniteSet(Back(w))
         /\ Cardinality(Back(w)) \in Nat
         /\ \A i : /\ IsFiniteSet(UpTo(w, i))
                   /\ Cardinality(UpTo(w, i)) \in Nat
                   /\ Cardinality(UpTo(w, i)) <= Cardinality(Back(w))
<1>1. IsFiniteSet(Back(w))
  BY FS_Interval, FS_Subset DEF Back
<1>2. \A i : UpTo(w, i) \subseteq Back(w)
  BY DEF UpTo
<1> QED BY <1>1, <1>2, FS_Subset, FS_CardinalityType

\* A history without a return to idle has no pulse.
LEMMA PulsesNone ==
  ASSUME NEW w, Back(w) = {}
  PROVE  Counted(w) /\ Pulses(w) = << >>
<1>1. Cardinality(Back(w)) = 0
  BY FS_EmptySet
<1> QED BY <1>1, PulsesForm DEF Counted

\* A change to another state than idle ends no pulse.
LEMMA PulsesOther ==
  ASSUME NEW w \in Seq(Lines), NEW x \in Lines, x # "Idle", Counted(w)
  PROVE  Counted(Append(w, x)) /\ Pulses(Append(w, x)) = Pulses(w)
<1> DEFINE u == Append(w, x)
           at(v, n) == CHOOSE i \in Back(v) : Cardinality(UpTo(v, i)) = n
<1>1. Back(u) = Back(w)
  BY DEF Back
<1>2. \A i : UpTo(u, i) = UpTo(w, i)
  BY <1>1 DEF UpTo
<1>3. \A n : at(u, n) = at(w, n)
  BY <1>1, <1>2
<1>4. \A n \in 1..Cardinality(Back(w)) : at(w, n) \in Back(w)
  BY DEF Counted
<1>5. \A i \in Back(w) : u[i - 1] = w[i - 1]
  BY DEF Back
<1>6. Pulses(u) = Pulses(w)
  <2>1. /\ Pulses(w) = [n \in 1..Cardinality(Back(w)) |-> w[at(w, n) - 1]]
        /\ Pulses(u) = [n \in 1..Cardinality(Back(w)) |-> u[at(u, n) - 1]]
    BY <1>1, PulsesForm
  <2> HIDE DEF u, at
  <2> QED BY <1>3, <1>4, <1>5, <2>1
<1> QED BY <1>1, <1>2, <1>6 DEF Counted

\* A return to idle ends a pulse, whose value is the state before it.
LEMMA PulsesIdle ==
  ASSUME NEW w \in Seq(Lines), Len(w) >= 1, Counted(w)
  PROVE  /\ Counted(Append(w, "Idle"))
         /\ Pulses(w) \in Seq(Lines)
         /\ Pulses(Append(w, "Idle")) = Append(Pulses(w), w[Len(w)])
<1> DEFINE u == Append(w, "Idle")
           k == Len(w) + 1
           c == Cardinality(Back(w))
           at(v, n) == CHOOSE i \in Back(v) : Cardinality(UpTo(v, i)) = n
<1>0. u \in Seq(Lines) /\ k \in Nat /\ k \notin Back(w)
  BY DEF Lines, Back
<1>1. Back(u) = Back(w) \cup {k}
  BY DEF Back
<1>2. /\ \A i \in Back(w) : UpTo(u, i) = UpTo(w, i)
      /\ UpTo(u, k) = Back(u)
  BY <1>1 DEF UpTo, Back
<1>3. c \in Nat /\ Cardinality(Back(u)) = c + 1
  BY <1>0, <1>1, BackIsFinite, FS_AddElement
<1>4. \A i \in Back(w) : Cardinality(UpTo(u, i)) # c + 1
  BY <1>2, <1>3, BackIsFinite
<1>5. \A n \in 1..c : at(u, n) = at(w, n) /\ at(w, n) \in Back(w)
  <2> SUFFICES ASSUME NEW n \in 1..c PROVE at(u, n) = at(w, n) /\ at(w, n) \in Back(w)
    OBVIOUS
  <2>1. \A i : i \in Back(u) /\ Cardinality(UpTo(u, i)) = n
                 <=> i \in Back(w) /\ Cardinality(UpTo(w, i)) = n
    BY <1>1, <1>2, <1>3
  <2>2. at(u, n) = at(w, n)
    BY <2>1
  <2>3. at(w, n) \in Back(w)
    BY DEF Counted
  <2> QED BY <2>2, <2>3
<1>6. at(u, c + 1) = k
  BY <1>1, <1>2, <1>3, <1>4
<1>7. \A i \in Back(w) : u[i - 1] = w[i - 1] /\ w[i - 1] \in Lines
  BY DEF Back
<1>8. u[k - 1] = w[Len(w)]
  OBVIOUS
<1>9. Counted(u)
  <2> SUFFICES ASSUME NEW n \in 1..Cardinality(Back(u))
               PROVE  \E i \in Back(u) : Cardinality(UpTo(u, i)) = n
    BY DEF Counted
  <2>1. CASE n = c + 1
    BY <2>1, <1>1, <1>2, <1>3
  <2>2. CASE n \in 1..c
    BY <2>2, <1>1, <1>2 DEF Counted
  <2> QED BY <2>1, <2>2, <1>3
<1>10. /\ Pulses(w) = [n \in 1..c |-> w[at(w, n) - 1]]
       /\ Pulses(u) = [n \in 1..c + 1 |-> u[at(u, n) - 1]]
  BY <1>3, PulsesForm
<1> HIDE DEF at
<1>11. Pulses(w) \in Seq(Lines) /\ Len(Pulses(w)) = c
  BY <1>3, <1>5, <1>7, <1>10
<1>12. \A n \in 1..c : u[at(u, n) - 1] = Pulses(w)[n]
  BY <1>5, <1>7, <1>10
<1> HIDE DEF u
<1>13. Pulses(u) = Append(Pulses(w), w[Len(w)])
  BY <1>3, <1>6, <1>8, <1>10, <1>11, <1>12
<1> QED BY <1>9, <1>11, <1>13 DEF u

-----------------------------------------------------------------------------
(* The transport against the reference reading.                             *)

\* The receiver has read off the lines what the history says they carried.
WireInv ==
  /\ line \in Lines
  /\ wire \in Seq(Lines) /\ Counted(wire)
  /\ transport \in [phase : Phases, pending : Bits \cup {None}, packet : Seq(Bits)]
  /\ Len(transport.packet) <= PacketBits
  /\ (transport.phase = "StartPending") <=> (line = "Start")
  /\ transport.phase = "StartPending" => wire = <<"Start">> /\ transport.packet = << >>
  /\ transport.phase = "Idle" => wire = << >> \/ Framed(wire)
  /\ transport.phase = "Receiving" => line = "Idle"
  /\ transport.phase = "DataPending" => line \in Bits /\ transport.pending = line
  /\ transport.phase \in {"Receiving", "DataPending"} =>
       /\ Len(wire) >= 2 /\ wire[2] = "Idle" /\ wire[Len(wire)] = line
       /\ Pulses(wire) \in Seq(Lines)
       /\ Len(Pulses(wire)) = Len(transport.packet) + 1
       /\ \A i \in 1..Len(transport.packet) : transport.packet[i] = Pulses(wire)[i + 1]

\* What the step hands to the decoder is what the history says.
HandsFramed ==
  handed' = IF wire' # wire /\ Framed(wire')
            THEN SubSeq(Pulses(wire'), 2, PacketBits + 1) ELSE None

LEMMA EmptyWire ==
  /\ Counted(<< >>) /\ ~Framed(<< >>)
  /\ Counted(<<"Start">>) /\ Pulses(<<"Start">>) = << >> /\ ~Framed(<<"Start">>)
<1>1. Back(<< >>) = {} /\ Back(<<"Start">>) = {}
  BY DEF Back
<1>2. Pulses(<< >>) = << >> /\ Pulses(<<"Start">>) = << >>
  BY <1>1, PulsesNone
<1> QED BY <1>1, <1>2, PulsesNone, SgbAssumption DEF Framed

\* A packet under way is not complete in the reference reading either.
LEMMA UnderWay ==
  ASSUME WireInv, transport.phase # "Idle"
  PROVE  ~Framed(wire)
  BY EmptyWire, SgbAssumption DEF WireInv, Framed, Phases

LEMMA WireStart ==
  ASSUME WireInv, WriteJoyp("Start")
  PROVE  WireInv' /\ HandsFramed
<1>1. /\ line' = "Start" /\ handed' = None
      /\ transport' = observe_joyp_start(transport, line)
      /\ wire' = Extended(wire, "Start")
  BY DEF WriteJoyp, confirm_packet_data_bit, Bits
<1>2. CASE line = "Start"
  <2>1. transport' = transport /\ wire' = wire
    BY <1>1, <1>2, UnderWay DEF observe_joyp_start, Extended, WireInv, Bits
  <2> QED BY <1>1, <1>2, <2>1 DEF WireInv, HandsFramed
<1>3. CASE line # "Start"
  <2>1. transport' = begin_packet_start_pulse /\ wire' = <<"Start">>
    BY <1>1, <1>3 DEF observe_joyp_start, Extended, WireInv
  <2>2. /\ transport' \in [phase : Phases, pending : Bits \cup {None}, packet : Seq(Bits)]
        /\ transport'.phase = "StartPending" /\ transport'.packet = << >>
        /\ Len(transport'.packet) <= PacketBits
    BY <2>1, SgbAssumption DEF begin_packet_start_pulse, Phases
  <2>3. line' \in Lines /\ wire' \in Seq(Lines)
    <3>1. "Start" \in Lines /\ <<"Start">> \in Seq(Lines)
      BY DEF Lines
    <3> QED BY <1>1, <2>1, <3>1
  <2>4. WireInv'
    BY <1>1, <2>1, <2>2, <2>3, EmptyWire DEF WireInv
  <2> QED BY <1>1, <2>1, <2>4, EmptyWire DEF HandsFramed
<1> QED BY <1>2, <1>3

LEMMA WireData ==
  ASSUME WireInv, NEW bit \in Bits, WriteJoyp(bit)
  PROVE  WireInv' /\ HandsFramed
<1>0. bit \in Lines /\ bit # "Start" /\ bit # "Idle"
  BY DEF Bits, Lines
<1>1. /\ line' = bit /\ handed' = None
      /\ transport' = observe_joyp_data_candidate(transport, bit)
      /\ wire' = Extended(wire, bit)
  BY <1>0 DEF WriteJoyp, confirm_packet_data_bit
<1>2. CASE transport.phase = "Idle"
  <2>1. transport' = transport /\ wire' = << >>
    BY <1>0, <1>1, <1>2 DEF observe_joyp_data_candidate, Extended, WireInv
  <2> QED BY <1>0, <1>1, <1>2, <2>1, EmptyWire DEF WireInv, HandsFramed
<1>3. CASE transport.phase = "StartPending"
  <2>1. /\ transport' = [transport EXCEPT !.phase = "Idle", !.pending = None]
        /\ wire' = << >>
    BY <1>0, <1>1, <1>3 DEF observe_joyp_data_candidate, Extended, WireInv
  <2>2. /\ transport' \in [phase : Phases, pending : Bits \cup {None}, packet : Seq(Bits)]
        /\ transport'.phase = "Idle" /\ transport'.packet = transport.packet
    BY <2>1 DEF WireInv, Phases
  <2> QED BY <1>0, <1>1, <2>1, <2>2, EmptyWire DEF WireInv, HandsFramed
<1>4. CASE transport.phase \in {"Receiving", "DataPending"}
  <2>1. /\ transport' = [transport EXCEPT !.phase = "DataPending", !.pending = bit]
        /\ wire' = IF bit = line THEN wire ELSE Append(wire, bit)
    BY <1>0, <1>1, <1>4, UnderWay DEF observe_joyp_data_candidate, Extended, WireInv
  <2>2. /\ wire' \in Seq(Lines) /\ Counted(wire') /\ Pulses(wire') = Pulses(wire)
        /\ Len(wire') >= 2 /\ wire'[2] = "Idle" /\ wire'[Len(wire')] = bit
    BY <1>0, <1>4, <2>1, PulsesOther DEF WireInv
  <2>3. ~Framed(wire')
    BY <1>4, <2>2, SgbAssumption DEF WireInv, Framed
  <2>4. /\ transport' \in [phase : Phases, pending : Bits \cup {None}, packet : Seq(Bits)]
        /\ transport'.phase = "DataPending" /\ transport'.pending = bit
        /\ transport'.packet = transport.packet
    BY <2>1 DEF WireInv, Phases
  <2>5. WireInv'
    BY <1>0, <1>1, <1>4, <2>2, <2>4 DEF WireInv
  <2> QED BY <1>1, <2>3, <2>5 DEF HandsFramed
<1> QED BY <1>2, <1>3, <1>4 DEF WireInv, Phases

LEMMA WireIdle ==
  ASSUME WireInv, WriteJoyp("Idle")
  PROVE  WireInv' /\ HandsFramed
<1>0. "Idle" \in Lines /\ "Idle" \notin Bits
  BY DEF Lines, Bits
<1>1. /\ line' = "Idle"
      /\ transport' = observe_joyp_idle(transport)
      /\ wire' = Extended(wire, "Idle")
      /\ handed' = IF transport.phase = "DataPending" /\ Len(transport.packet) >= PacketBits
                   THEN transport.packet ELSE None
  <2>1. /\ line' = "Idle"
        /\ transport' = observe_joyp_idle(transport)
        /\ wire' = Extended(wire, "Idle")
    BY <1>0 DEF WriteJoyp
  <2>2. handed' = IF confirm_packet_data_bit("Idle") THEN transport.packet ELSE None
    BY DEF WriteJoyp
  <2> QED BY <2>1, <2>2 DEF confirm_packet_data_bit
<1>2. CASE transport.phase = "Idle"
  <2>0. transport' = transport
    BY <1>1, <1>2 DEF observe_joyp_idle
  <2>1. wire' = << >>
    BY <1>0, <1>1, <1>2 DEF Extended, WireInv
  <2>2. handed' = None
    BY <1>1, <1>2
  <2>3. WireInv'
    <3>1. line' \in Lines /\ line' # "Start"
      BY <1>0, <1>1
    <3>2. transport'.phase = "Idle"
      BY <1>2, <2>0
    <3>3. wire' \in Seq(Lines) /\ Counted(wire')
      BY <2>1, EmptyWire
    <3> QED BY <2>0, <2>1, <3>1, <3>2, <3>3 DEF WireInv
  <2> QED BY <2>1, <2>2, <2>3, EmptyWire DEF HandsFramed
<1>3. CASE transport.phase = "StartPending"
  <2>0. wire = <<"Start">> /\ line = "Start" /\ ~Framed(wire)
    BY <1>3, UnderWay DEF WireInv
  <2>1. /\ transport' = [transport EXCEPT !.phase = "Receiving"]
        /\ wire' = Append(<<"Start">>, "Idle")
    <3>1. transport' = [transport EXCEPT !.phase = "Receiving"]
      BY <1>1, <1>3 DEF observe_joyp_idle
    <3>2. wire' = Append(wire, "Idle")
      BY <1>0, <1>1, <2>0 DEF Extended
    <3> QED BY <2>0, <3>1, <3>2
  <2>2. <<"Start">> \in Seq(Lines) /\ Len(<<"Start">>) >= 1
    BY DEF Lines
  <2>3. Counted(wire') /\ Pulses(wire') = <<"Start">>
    <3>1. /\ Counted(wire')
          /\ Pulses(wire') = Append(Pulses(<<"Start">>), <<"Start">>[Len(<<"Start">>)])
      BY <2>1, <2>2, EmptyWire, PulsesIdle
    <3> QED BY <3>1, EmptyWire
  <2>4. ~Framed(wire')
    BY <2>3, SgbAssumption DEF Framed
  <2>5. /\ transport' \in [phase : Phases, pending : Bits \cup {None}, packet : Seq(Bits)]
        /\ transport'.phase = "Receiving" /\ transport'.packet = << >>
    BY <1>3, <2>1 DEF WireInv, Phases
  <2>6. /\ wire' \in Seq(Lines) /\ Len(wire') >= 2 /\ wire'[2] = "Idle"
        /\ wire'[Len(wire')] = "Idle"
        /\ Pulses(wire') \in Seq(Lines) /\ Len(Pulses(wire')) = 1
    BY <1>0, <2>1, <2>2, <2>3
  <2>7. WireInv'
    BY <1>0, <1>1, <2>3, <2>5, <2>6, SgbAssumption DEF WireInv
  <2> QED BY <1>1, <1>3, <2>4, <2>7 DEF HandsFramed
<1>4. CASE transport.phase = "Receiving"
  <2>1. transport' = transport /\ wire' = wire
    BY <1>0, <1>1, <1>4, UnderWay DEF observe_joyp_idle, Extended, WireInv
  <2> QED BY <1>0, <1>1, <1>4, <2>1 DEF WireInv, HandsFramed
<1>5. CASE transport.phase = "DataPending"
  <2>1. wire' = Append(wire, "Idle")
    <3>1. ~Framed(wire) /\ line # "Idle" /\ wire # << >>
      BY <1>0, <1>5, UnderWay DEF WireInv
    <3> QED BY <1>0, <1>1, <3>1 DEF Extended
  <2>2. /\ wire' \in Seq(Lines) /\ Counted(wire') /\ wire' # wire
        /\ Len(wire') >= 2 /\ wire'[2] = "Idle" /\ wire'[Len(wire')] = "Idle"
        /\ Pulses(wire') = Append(Pulses(wire), line)
        /\ Pulses(wire) \in Seq(Lines)
    BY <1>0, <1>5, <2>1, PulsesIdle DEF WireInv
  <2>3. CASE Len(transport.packet) < PacketBits
    <3>1. transport' = [transport EXCEPT !.phase = "Receiving", !.pending = None,
                                         !.packet = Append(@, line)]
      <4>1. ~(Len(transport.packet) >= PacketBits) /\ transport.pending = line
        BY <1>5, <2>3, SgbAssumption DEF WireInv
      <4> QED BY <1>1, <1>5, <2>3, <4>1 DEF observe_joyp_idle
    <3>2. Len(Pulses(wire')) = Len(transport.packet) + 2
      BY <1>5, <2>2 DEF WireInv
    <3>3. ~Framed(wire')
      BY <3>2, <2>3, SgbAssumption DEF Framed, WireInv
    <3>4. transport' \in [phase : Phases, pending : Bits \cup {None}, packet : Seq(Bits)]
      <4>1. Append(transport.packet, line) \in Seq(Bits)
        BY <1>5 DEF WireInv
      <4> QED BY <3>1, <4>1 DEF WireInv, Phases
    <3>5. /\ Len(transport'.packet) = Len(transport.packet) + 1
          /\ transport'.phase = "Receiving"
          /\ \A i \in 1..Len(transport'.packet) : transport'.packet[i] = Pulses(wire')[i + 1]
      BY <1>5, <2>2, <3>1 DEF WireInv
    <3>6. handed' = None
      BY <1>1, <2>3, SgbAssumption DEF WireInv
    <3>7. Len(transport'.packet) <= PacketBits /\ Len(Pulses(wire')) = Len(transport'.packet) + 1
      BY <2>3, <3>2, <3>5, SgbAssumption DEF WireInv
    <3>8. Pulses(wire') \in Seq(Lines)
      BY <2>2 DEF WireInv
    <3> QED BY <1>0, <1>1, <2>2, <3>3, <3>4, <3>5, <3>6, <3>7, <3>8 DEF WireInv, HandsFramed
  <2>4. CASE Len(transport.packet) >= PacketBits
    <3>0. Len(transport.packet) = PacketBits
      BY <2>4, SgbAssumption DEF WireInv
    <3>1. transport' = [transport EXCEPT !.phase = "Idle", !.pending = None]
      BY <1>1, <1>5, <2>4, <3>0 DEF observe_joyp_idle, WireInv
    <3>2. Framed(wire')
      BY <1>5, <2>2, <3>0, SgbAssumption DEF Framed, WireInv, Last
    <3>3. SubSeq(Pulses(wire'), 2, PacketBits + 1) = transport.packet
      <4> DEFINE p == Pulses(wire')
      <4>1. /\ p \in Seq(Lines) /\ Len(p) = PacketBits + 2
            /\ \A i \in 1..PacketBits : p[i + 1] = transport.packet[i]
        BY <1>5, <2>2, <3>0, SgbAssumption DEF WireInv
      <4>2. transport.packet \in Seq(Bits)
        BY DEF WireInv
      <4> HIDE DEF p
      <4>3. SubSeq(p, 2, PacketBits + 1) = [i \in 1..PacketBits |-> p[i + 1]]
        BY <4>1, SgbAssumption
      <4>4. transport.packet = [i \in 1..PacketBits |-> transport.packet[i]]
        BY <4>2, <3>0
      <4> QED BY <4>1, <4>3, <4>4 DEF p
    <3>4. handed' = transport.packet
      BY <1>1, <1>5, <2>4
    <3>5. HandsFramed
      BY <2>2, <3>2, <3>3, <3>4 DEF HandsFramed
    <3> QED BY <1>0, <1>1, <1>5, <2>2, <3>0, <3>1, <3>2, <3>5 DEF WireInv, Phases
  <2> QED BY <2>3, <2>4, SgbAssumption DEF WireInv
<1> QED BY <1>2, <1>3, <1>4, <1>5 DEF WireInv, Phases

\* Every step of the host keeps the transport and the reference reading
\* together.
LEMMA WireStep ==
  ASSUME WireInv, Next
  PROVE  WireInv' /\ HandsFramed
<1>1. CASE \E new \in Lines : WriteJoyp(new)
  BY <1>1, WireStart, WireData, WireIdle DEF Lines, Bits
<1>2. ASSUME UNCHANGED <<line, transport, wire>>, handed' = None PROVE WireInv' /\ HandsFramed
  BY <1>2 DEF WireInv, HandsFramed
<1>3. CASE FrameStart
  BY <1>2, <1>3 DEF FrameStart
<1>4. CASE \E v \in PressVectors : SetPressedMasks(v)
  BY <1>2, <1>4 DEF SetPressedMasks
<1>5. CASE finish_real_boot_handoff
  <2>1. /\ line' = "Idle" /\ wire' = << >> /\ handed' = None
        /\ transport' = [phase |-> "Idle", pending |-> None, packet |-> << >>]
    BY <1>5 DEF finish_real_boot_handoff
  <2>2. /\ transport' \in [phase : Phases, pending : Bits \cup {None}, packet : Seq(Bits)]
        /\ transport'.phase = "Idle" /\ transport'.packet = << >>
    BY <2>1 DEF Phases
  <2>3. line' \in Lines /\ Len(transport'.packet) <= PacketBits
    BY <2>1, <2>2, SgbAssumption DEF Lines
  <2> QED BY <2>1, <2>2, <2>3, EmptyWire DEF WireInv, HandsFramed
<1> QED BY <1>1, <1>3, <1>4, <1>5 DEF Next

LEMMA WireInit ==
  ASSUME Init
  PROVE  WireInv
<1>1. /\ line = "Idle" /\ wire = << >>
      /\ transport = [phase |-> "Idle", pending |-> None, packet |-> << >>]
  BY DEF Init
<1>2. /\ transport \in [phase : Phases, pending : Bits \cup {None}, packet : Seq(Bits)]
      /\ transport.phase = "Idle" /\ transport.packet = << >>
  BY <1>1 DEF Phases
<1>3. line \in Lines /\ Len(transport.packet) <= PacketBits
  BY <1>1, <1>2, SgbAssumption DEF Lines
<1> QED BY <1>1, <1>2, <1>3, EmptyWire DEF WireInv

-----------------------------------------------------------------------------
(* The gate, the transfer, the border and the controllers.                  *)

\* A running transfer has the gate closed for the frames it still needs; only
\* commands of several packets are ever left active.
GateInv ==
  /\ busy \in 0..TotalFrames
  /\ command.active # None => command.expected \in Nat \ {0, 1}
  /\ transfer # None => transfer \in Transfers /\ busy = TotalFrames - transfer.captured

Shells ==
  [default : BOOLEAN, phase : ShellPhases, frame : 0..FadeFrames - 1, ready : BOOLEAN,
   fallback : {None, DefaultBorder}]

\* The default border is on the screen until a border transfer is asked for,
\* and is kept aside until the game's picture is complete.
BorderInv ==
  /\ border \in Borders /\ shell \in Shells
  /\ shell.default => /\ shell.phase = "Idle" /\ shell.fallback = None
                      /\ border = DefaultBorder
                      /\ transfer = None \/ transfer.target \notin {"CHR_TRN", "PCT_TRN"}
  /\ shell.phase = "FadeFallbackToBlack" => shell.fallback = DefaultBorder
  /\ shell.ready => border.pct = "game"
  /\ shell.phase = "FadeBlackToGame" => border.pct = "game"
  /\ shell.phase = "Idle" /\ ~shell.default => border.pct = "game"

PlayersInv ==
  /\ players \in [count : Controllers, selected : Controllers]
  /\ JoypadFollowsSelection

HostInv == GateInv /\ BorderInv /\ PlayersInv

LEMMA HostInit ==
  ASSUME Init
  PROVE  HostInv
<1>1. GateInv
  BY SgbAssumption DEF Init, GateInv, Idled
<1>2. BorderInv
  BY SgbAssumption DEF Init, BorderInv, Shells, ShellPhases, Borders, DefaultBorder
<1>3. PlayersInv
  BY DEF Init, PlayersInv, JoypadFollowsSelection, Controllers
<1> QED BY <1>1, <1>2, <1>3 DEF HostInv

LEMMA Cycled ==
  ASSUME NEW p \in [count : Controllers, selected : Controllers], p.selected <= p.count,
         NEW previous, NEW new
  PROVE  LET q == cycle_selected_player(p, previous, new)
         IN  q \in [count : Controllers, selected : Controllers] /\ q.selected <= q.count
<1>1. p.count \in {1, 2, 3, 4} /\ p.selected \in {1, 2, 3, 4}
  BY DEF Controllers
<1>2. (p.selected % p.count) + 1 \in 1..p.count
  BY <1>1
<1> QED BY <1>1, <1>2 DEF cycle_selected_player, Controllers

LEMMA Requested ==
  ASSUME NEW p \in [count : Controllers, selected : Controllers], NEW control \in 0..3
  PROVE  LET q == apply_mlt_req_command(p, control)
         IN  q \in [count : Controllers, selected : Controllers] /\ q.selected <= q.count
<1>1. p.selected \in {1, 2, 3, 4} /\ control \in {0, 1, 2, 3}
  BY DEF Controllers
<1>2. CASE control = 2
  BY <1>1, <1>2 DEF apply_mlt_req_command, Controllers
<1>3. CASE control # 2
  <2>1. (p.selected - 1) % (control + 1) \in 0..control
    BY <1>1
  <2> QED BY <1>1, <1>3, <2>1 DEF apply_mlt_req_command, Controllers
<1> QED BY <1>2, <1>3

\* The values a shell's fields are set to.
LEMMA ShellValues ==
  /\ 0 \in 0..FadeFrames - 1
  /\ "Idle" \in ShellPhases /\ "FadeFallbackToBlack" \in ShellPhases
  /\ "HoldBlackUntilGameBorder" \in ShellPhases /\ "FadeBlackToGame" \in ShellPhases
  BY SgbAssumption DEF ShellPhases

\* The shell's own step keeps what the shell promises about the border.
LEMMA Faded ==
  ASSUME BorderInv
  PROVE  LET s == advance_frame(shell)
         IN  /\ s \in Shells /\ s.default = shell.default
             /\ s.ready => border.pct = "game"
             /\ s.default => s.phase = "Idle" /\ s.fallback = None
             /\ s.phase = "FadeFallbackToBlack" => s.fallback = DefaultBorder
             /\ s.phase \in {"FadeBlackToGame", "Idle"} /\ ~s.default => border.pct = "game"
<1>0. shell \in Shells /\ FadeFrames \in Nat \ {0}
  BY SgbAssumption DEF BorderInv
<1>1. CASE shell.phase \in {"Idle", "HoldBlackUntilGameBorder"}
  BY <1>0, <1>1 DEF advance_frame, BorderInv, Shells
<1>2. CASE shell.phase = "FadeFallbackToBlack"
  <2>1. CASE shell.frame + 1 < FadeFrames
    BY <1>0, <1>2, <2>1 DEF advance_frame, BorderInv, Shells
  <2>2. CASE shell.frame + 1 >= FadeFrames
    <3>1. /\ ~(shell.frame + 1 < FadeFrames)
          /\ shell.phase \notin {"Idle", "HoldBlackUntilGameBorder", "FadeBlackToGame"}
      BY <1>0, <1>2, <2>2 DEF Shells
    <3>2. advance_frame(shell)
            = [shell EXCEPT !.frame = 0,
                            !.phase = IF shell.ready THEN "FadeBlackToGame"
                                      ELSE "HoldBlackUntilGameBorder"]
      BY <1>2, <2>2, <3>1 DEF advance_frame
    <3>3. ~shell.default /\ (shell.ready => border.pct = "game")
      BY <1>2 DEF BorderInv
    <3>4. CASE shell.ready
      <4>1. advance_frame(shell) = [shell EXCEPT !.frame = 0, !.phase = "FadeBlackToGame"]
        BY <3>2, <3>4
      <4> QED BY <1>0, <3>3, <3>4, <4>1, ShellValues DEF Shells
    <3>5. CASE ~shell.ready
      <4>1. advance_frame(shell)
              = [shell EXCEPT !.frame = 0, !.phase = "HoldBlackUntilGameBorder"]
        BY <3>2, <3>5
      <4> QED BY <1>0, <3>3, <3>5, <4>1, ShellValues DEF Shells
    <3> QED BY <3>4, <3>5
  <2> QED BY <1>0, <2>1, <2>2 DEF Shells
<1>3. CASE shell.phase = "FadeBlackToGame"
  <2>1. CASE shell.frame + 1 < FadeFrames
    BY <1>0, <1>3, <2>1 DEF advance_frame, BorderInv, Shells
  <2>2. CASE shell.frame + 1 >= FadeFrames
    <3>1. /\ ~(shell.frame + 1 < FadeFrames)
          /\ shell.phase \notin {"Idle", "HoldBlackUntilGameBorder", "FadeFallbackToBlack"}
      BY <1>0, <1>3, <2>2 DEF Shells
    <3>2. advance_frame(shell)
            = [shell EXCEPT !.frame = 0, !.phase = "Idle", !.ready = FALSE, !.fallback = None]
      BY <1>3, <2>2, <3>1 DEF advance_frame
    <3>3. ~shell.default /\ border.pct = "game"
      BY <1>3 DEF BorderInv
    <3> DEFINE s == advance_frame(shell)
    <3>4. /\ s \in Shells /\ s.default = shell.default /\ s.phase = "Idle" /\ ~s.ready
      BY <1>0, <3>2, ShellValues DEF Shells
    <3> HIDE DEF s
    <3>5. /\ s \in Shells /\ s.default = shell.default
          /\ s.ready => border.pct = "game"
          /\ s.default => s.phase = "Idle" /\ s.fallback = None
          /\ s.phase = "FadeFallbackToBlack" => s.fallback = DefaultBorder
          /\ s.phase \in {"FadeBlackToGame", "Idle"} /\ ~s.default => border.pct = "game"
      BY <3>3, <3>4
    <3> QED BY <3>5 DEF s
  <2> QED BY <1>0, <2>1, <2>2 DEF Shells
<1> QED BY <1>0, <1>1, <1>2, <1>3 DEF Shells, ShellPhases

-----------------------------------------------------------------------------
(* The steps of the host.                                                   *)

\* A transfer that runs goes on undisturbed, or takes its next chunk.
TransferGoesOn ==
  transfer # None =>
    /\ busy = TotalFrames - transfer.captured
    /\ \/ transfer' = transfer /\ busy' = busy
       \/ transfer' = [transfer EXCEPT !.captured = @ + 1] /\ transfer'.captured < TotalFrames
       \/ transfer' = None /\ transfer.captured + 1 = TotalFrames /\ busy' = 0

\* A packet that starts no command leaves the gate, the transfer and the
\* border alone.
LEMMA KeptStep ==
  ASSUME HostInv, UNCHANGED <<transfer, shell, busy, border>>,
         command'.active # None => command'.expected \in Nat \ {0, 1}
  PROVE  GateInv' /\ BorderInv' /\ TransferGoesOn
  BY DEF HostInv, GateInv, BorderInv, TransferGoesOn

\* A command of one packet is accepted only through the open gate.
LEMMA DispatchOne ==
  ASSUME HostInv, busy = 0, NEW id, NEW arg, NEW cycled, command' = Idled,
         dispatch_completed_command(id, 1, arg, cycled), UNCHANGED border
  PROVE  GateInv' /\ BorderInv' /\ TransferGoesOn
<1>0. /\ TotalFrames \in Nat \ {0} /\ transfer = None
      /\ border \in Borders /\ shell \in Shells
  BY SgbAssumption DEF HostInv, GateInv, Transfers, BorderInv
<1>1. command'.active = None
  BY DEF Idled
<1>2. CASE id \in TransferCommands
  <2>1. busy' = TotalFrames /\ transfer' = [target |-> id, captured |-> 0]
    <3>1. busy' = start_busy_frames(TotalFrames)
      <4>1. id # "OBJ_TRN"
        BY <1>2 DEF TransferCommands
      <4> QED BY <1>2, <4>1 DEF dispatch_completed_command
    <3>2. transfer' = request_vram_transfer(id)
      BY <1>2 DEF dispatch_completed_command
    <3>3. start_busy_frames(TotalFrames) = TotalFrames
      BY <1>0 DEF start_busy_frames
    <3> QED BY <3>1, <3>2, <3>3 DEF request_vram_transfer
  <2>2. transfer' \in Transfers
    BY <1>0, <1>2, <2>1 DEF Transfers
  <2>3. GateInv'
    BY <1>0, <1>1, <2>1, <2>2 DEF GateInv
  <2>4. CASE id \in {"CHR_TRN", "PCT_TRN"} /\ shell.default
    <3>1. shell' = [shell EXCEPT !.fallback = DefaultBorder, !.default = FALSE,
                                 !.ready = FALSE, !.phase = "FadeFallbackToBlack",
                                 !.frame = 0]
      BY <2>4 DEF HostInv, BorderInv, dispatch_completed_command, start_game_border_fade_out
    <3>2. /\ shell' \in Shells /\ ~shell'.default /\ ~shell'.ready
          /\ shell'.phase = "FadeFallbackToBlack" /\ shell'.fallback = DefaultBorder
      BY <1>0, <3>1, ShellValues DEF Shells
    <3>3. BorderInv'
      BY <1>0, <3>2 DEF BorderInv
    <3> QED BY <1>0, <2>3, <3>3 DEF TransferGoesOn
  <2>5. CASE id \notin {"CHR_TRN", "PCT_TRN"} \/ ~shell.default
    <3>1. shell' = shell /\ transfer'.target = id
      BY <2>1, <2>5 DEF dispatch_completed_command, start_game_border_fade_out
    <3> QED BY <1>0, <2>3, <2>5, <3>1 DEF HostInv, BorderInv, TransferGoesOn
  <2> QED BY <2>4, <2>5
<1>3. CASE id \notin TransferCommands
  <2>1. transfer' = None /\ shell' = shell /\ busy' \in {0, 1}
    BY <1>0, <1>3 DEF dispatch_completed_command, start_busy_frames, TransferCommands,
                      SGB_OBJ_TRN_BUSY_FRAMES
  <2> QED BY <1>0, <1>1, <2>1 DEF HostInv, GateInv, BorderInv, TransferGoesOn
<1> QED BY <1>2, <1>3

\* A command of several packets has no effect on any of them.
LEMMA DispatchMany ==
  ASSUME NEW id, NEW count \in Nat \ {0, 1}, NEW arg, NEW cycled,
         dispatch_completed_command(id, count, arg, cycled)
  PROVE  UNCHANGED <<transfer, shell, busy>> /\ players' = cycled
  BY DEF dispatch_completed_command

LEMMA DecodeStep ==
  ASSUME HostInv, NEW said \in Meanings, UNCHANGED border,
         NEW cycled \in [count : Controllers, selected : Controllers],
         cycled.selected <= cycled.count,
         decode_complete_packet(said, cycled)
  PROVE  /\ GateInv' /\ BorderInv' /\ TransferGoesOn
         /\ players' \in [count : Controllers, selected : Controllers]
         /\ players'.selected <= players'.count
<1>0. said.count \in Nat /\ (said.id = "MLT_REQ" => said.arg \in 0..3) /\ None # said.id
  BY SgbAssumption, NoneAssumption
<1>1. ASSUME NoCommand(cycled), command'.active # None => command'.expected \in Nat \ {0, 1}
      PROVE  /\ GateInv' /\ BorderInv' /\ TransferGoesOn
             /\ players' = cycled
  BY <1>1, KeptStep DEF NoCommand
<1>2. CASE command.active = None /\ (disabled \/ busy # 0 \/ said.count = 0)
             /\ UNCHANGED command /\ NoCommand(cycled)
  BY <1>1, <1>2
<1>3. CASE command.active = None /\ ~disabled /\ busy = 0 /\ said.count = 1
             /\ command' = Idled /\ dispatch_completed_command(said.id, 1, said.arg, cycled)
  <2>1. GateInv' /\ BorderInv' /\ TransferGoesOn
    BY <1>3, DispatchOne
  <2>2. players' = IF said.id = "MLT_REQ" THEN apply_mlt_req_command(cycled, said.arg) ELSE cycled
    BY <1>3 DEF dispatch_completed_command
  <2> QED BY <1>0, <2>1, <2>2, Requested
<1>4. CASE command.active = None /\ ~disabled /\ busy = 0 /\ said.count > 1
             /\ command' = [active |-> said.id, expected |-> said.count, received |-> 1]
             /\ NoCommand(cycled)
  <2>1. command'.expected \in Nat \ {0, 1}
    BY <1>0, <1>4
  <2> QED BY <1>1, <1>4, <2>1
<1>5. CASE command.active # None /\ command.received + 1 < command.expected
             /\ command' = [command EXCEPT !.received = @ + 1] /\ NoCommand(cycled)
  <2>1. command'.active # None => command'.expected \in Nat \ {0, 1}
    BY <1>5 DEF HostInv, GateInv
  <2> QED BY <1>1, <1>5, <2>1
<1>6. CASE command.active # None /\ command' = Idled
             /\ dispatch_completed_command(command.active, command.expected, 0, cycled)
  <2>1. UNCHANGED <<transfer, shell, busy>> /\ players' = cycled
    BY <1>6, DispatchMany DEF HostInv, GateInv
  <2> QED BY <1>6, <2>1, KeptStep DEF Idled
<1> QED BY <1>2, <1>3, <1>4, <1>5, <1>6 DEF decode_complete_packet

LEMMA WriteStep ==
  ASSUME HostInv, NEW new \in Lines, WriteJoyp(new)
  PROVE  HostInv' /\ TransferGoesOn
<1> DEFINE cycled == cycle_selected_player(players, line, new)
<1>0. players \in [count : Controllers, selected : Controllers] /\ players.selected <= players.count
  BY DEF HostInv, PlayersInv, JoypadFollowsSelection, Controllers
<1>1. cycled \in [count : Controllers, selected : Controllers] /\ cycled.selected <= cycled.count
  BY <1>0, Cycled
<1>2. UNCHANGED <<border, masks>> /\ joypad' = masks[players'.selected]
  BY DEF WriteJoyp, JoypadAfterWrite
<1>3. \/ \E said \in Meanings : decode_complete_packet(said, cycled)
      \/ UNCHANGED command /\ NoCommand(cycled)
  BY DEF WriteJoyp
<1> HIDE DEF cycled
<1>4. /\ GateInv' /\ BorderInv' /\ TransferGoesOn
      /\ players' \in [count : Controllers, selected : Controllers]
      /\ players'.selected <= players'.count
  <2>1. CASE \E said \in Meanings : decode_complete_packet(said, cycled)
    BY <1>1, <1>2, <2>1, DecodeStep
  <2>2. CASE UNCHANGED command /\ NoCommand(cycled)
    <3>1. command'.active # None => command'.expected \in Nat \ {0, 1}
      BY <2>2 DEF HostInv, GateInv
    <3>2. players' = cycled /\ UNCHANGED <<transfer, shell, busy>>
      BY <2>2 DEF NoCommand
    <3> QED BY <1>1, <1>2, <3>1, <3>2, KeptStep
  <2> QED BY <1>3, <2>1, <2>2
<1>5. PlayersInv'
  <2>1. players'.selected \in 1..players'.count
    BY <1>4 DEF Controllers
  <2> QED BY <1>2, <1>4, <2>1 DEF PlayersInv, JoypadFollowsSelection
<1> QED BY <1>4, <1>5 DEF HostInv

LEMMA FrameStep ==
  ASSUME HostInv, FrameStart
  PROVE  HostInv' /\ TransferGoesOn
<1> DEFINE faded == advance_frame(shell)
<1>0. /\ TotalFrames \in Nat \ {0} /\ busy \in 0..TotalFrames /\ border \in Borders
      /\ transfer # None => /\ transfer \in Transfers
                            /\ busy = TotalFrames - transfer.captured
                            /\ transfer.captured \in 0..TotalFrames - 1
      /\ shell.default => /\ border = DefaultBorder
                          /\ transfer = None \/ transfer.target \notin {"CHR_TRN", "PCT_TRN"}
  BY SgbAssumption DEF HostInv, GateInv, BorderInv, Transfers
<1>1. /\ faded \in Shells /\ faded.default = shell.default
      /\ faded.ready => border.pct = "game"
      /\ faded.default => faded.phase = "Idle" /\ faded.fallback = None
      /\ faded.phase = "FadeFallbackToBlack" => faded.fallback = DefaultBorder
      /\ faded.phase \in {"FadeBlackToGame", "Idle"} /\ ~faded.default => border.pct = "game"
  BY Faded DEF HostInv
<1>2. UNCHANGED <<players, masks, joypad, command>>
  BY DEF FrameStart
<1>3. PlayersInv' /\ (command'.active # None => command'.expected \in Nat \ {0, 1})
  BY <1>2 DEF HostInv, GateInv, PlayersInv, JoypadFollowsSelection
<1>4. CASE /\ transfer = None /\ shell' = faded /\ UNCHANGED <<transfer, border>>
           /\ busy' = IF busy > 0 THEN busy - 1 ELSE 0
  <2> HIDE DEF faded
  <2>1. GateInv' /\ TransferGoesOn
    BY <1>0, <1>3, <1>4 DEF GateInv, TransferGoesOn
  <2>2. BorderInv'
    BY <1>0, <1>1, <1>4 DEF BorderInv
  <2> QED BY <1>3, <2>1, <2>2 DEF HostInv
<1>5. CASE /\ transfer # None /\ transfer.captured + 1 < TotalFrames
           /\ transfer' = [transfer EXCEPT !.captured = @ + 1]
           /\ shell' = faded /\ UNCHANGED border
           /\ busy' = IF busy > 0 THEN busy - 1 ELSE 0
  <2> HIDE DEF faded
  <2>1. /\ transfer' \in Transfers /\ transfer'.captured = transfer.captured + 1
        /\ transfer'.target = transfer.target
    BY <1>0, <1>5 DEF Transfers
  <2>2. busy' = busy - 1 /\ busy' \in 0..TotalFrames
    BY <1>0, <1>5
  <2>3. GateInv' /\ TransferGoesOn
    BY <1>0, <1>3, <1>5, <2>1, <2>2 DEF GateInv, TransferGoesOn
  <2>4. BorderInv'
    BY <1>0, <1>1, <1>5, <2>1 DEF BorderInv
  <2> QED BY <1>3, <2>3, <2>4 DEF HostInv
<1>6. CASE /\ transfer # None /\ transfer.captured + 1 >= TotalFrames /\ transfer' = None
           /\ border' = CASE transfer.target = "CHR_TRN" -> [border EXCEPT !.chr = "game"]
                          [] transfer.target = "PCT_TRN" -> [border EXCEPT !.pct = "game"]
                          [] OTHER -> border
           /\ shell' = IF transfer.target = "PCT_TRN"
                       THEN start_game_border_transition(faded) ELSE faded
           /\ busy' = 0
  <2>1. GateInv' /\ TransferGoesOn
    BY <1>0, <1>3, <1>6 DEF GateInv, TransferGoesOn
  <2>2. CASE transfer.target = "PCT_TRN"
    <3>0. ~faded.default
      BY <1>0, <1>1, <1>6, <2>2
    <3> HIDE DEF faded
    <3>1. border' = [border EXCEPT !.pct = "game"]
      BY <1>6, <2>2
    <3>2. border' \in Borders /\ border'.pct = "game"
      BY <1>0, <3>1 DEF Borders
    <3>3. shell' \in {[faded EXCEPT !.ready = TRUE, !.phase = "FadeBlackToGame", !.frame = 0],
                      [faded EXCEPT !.ready = TRUE]}
      BY <1>6, <2>2, <3>0 DEF start_game_border_transition
    <3>4. /\ shell' \in Shells /\ ~shell'.default /\ shell'.fallback = faded.fallback
          /\ shell'.phase \in {faded.phase, "FadeBlackToGame"}
      <4>1. CASE shell' = [faded EXCEPT !.ready = TRUE]
        BY <1>1, <3>0, <4>1 DEF Shells
      <4>2. CASE shell' = [faded EXCEPT !.ready = TRUE, !.phase = "FadeBlackToGame", !.frame = 0]
        BY <1>1, <3>0, <4>2, ShellValues DEF Shells
      <4> QED BY <3>3, <4>1, <4>2
    <3>5. BorderInv'
      BY <1>1, <3>2, <3>4 DEF BorderInv
    <3> QED BY <1>3, <2>1, <3>5 DEF HostInv
  <2>3. CASE transfer.target # "PCT_TRN"
    <3>0. shell' = faded
      BY <1>6, <2>3
    <3>1. border' \in Borders /\ border'.pct = border.pct
      <4>1. border' = [border EXCEPT !.chr = "game"] \/ border' = border
        BY <1>6, <2>3
      <4> QED BY <1>0, <4>1 DEF Borders
    <3>2. faded.default => border' = DefaultBorder
      <4>1. faded.default => transfer.target # "CHR_TRN"
        BY <1>0, <1>1, <1>6
      <4>2. transfer.target # "CHR_TRN" => border' = border
        BY <1>6, <2>3
      <4> QED BY <1>0, <1>1, <4>1, <4>2
    <3> HIDE DEF faded
    <3>3. BorderInv'
      BY <1>1, <1>6, <3>0, <3>1, <3>2 DEF BorderInv
    <3> QED BY <1>3, <2>1, <3>3 DEF HostInv
  <2> QED BY <2>2, <2>3
<1> QED BY <1>4, <1>5, <1>6 DEF FrameStart

LEMMA HostStep ==
  ASSUME HostInv, Next
  PROVE  HostInv' /\ TransferGoesOn
<1>1. CASE \E new \in Lines : WriteJoyp(new)
  BY <1>1, WriteStep
<1>2. CASE FrameStart
  BY <1>2, FrameStep
<1>3. ASSUME UNCHANGED <<transfer, shell, busy, border>>, PlayersInv',
             command'.active # None => command'.expected \in Nat \ {0, 1}
      PROVE  HostInv' /\ TransferGoesOn
  BY <1>3, KeptStep DEF HostInv
<1>4. CASE \E v \in PressVectors : SetPressedMasks(v)
  <2>1. PlayersInv'
    BY <1>4 DEF SetPressedMasks, HostInv, PlayersInv, JoypadFollowsSelection
  <2>2. command'.active # None => command'.expected \in Nat \ {0, 1}
    BY <1>4 DEF SetPressedMasks, HostInv, GateInv
  <2> QED BY <1>3, <1>4, <2>1, <2>2 DEF SetPressedMasks
<1>5. CASE finish_real_boot_handoff
  <2>1. PlayersInv'
    BY <1>5 DEF finish_real_boot_handoff, HostInv, PlayersInv, JoypadFollowsSelection
  <2>2. command'.active = None
    BY <1>5 DEF finish_real_boot_handoff, Idled
  <2> QED BY <1>3, <1>5, <2>1, <2>2 DEF finish_real_boot_handoff
<1> QED BY <1>1, <1>2, <1>4, <1>5 DEF Next

LEMMA Stutter ==
  ASSUME UNCHANGED vars
  PROVE  (HostInv => HostInv') /\ (WireInv => WireInv')
<1>1. /\ line' = line /\ transport' = transport /\ command' = command /\ busy' = busy
      /\ transfer' = transfer /\ border' = border /\ shell' = shell /\ players' = players
      /\ masks' = masks /\ joypad' = joypad /\ wire' = wire
  BY DEF vars
<1> QED BY <1>1 DEF HostInv, GateInv, BorderInv, PlayersInv, JoypadFollowsSelection, WireInv

-----------------------------------------------------------------------------
(* The theorems.                                                            *)

\* The gate, the running transfer, the shell and the selection always fit
\* together: the invariant the next three theorems rest on.
THEOREM HostInvariant == Spec => []HostInv
<1>1. HostInv /\ [Next]_vars => HostInv'
  BY HostStep, Stutter
<1> QED BY <1>1, HostInit, PTL DEF Spec

\* The receiver has always read off the lines what their history says.
THEOREM WireInvariant == Spec => []WireInv
<1>1. WireInv /\ [Next]_vars => WireInv'
  BY WireStep, Stutter
<1> QED BY <1>1, WireInit, PTL DEF Spec

\* The border on the screen is the default one, black, or one whose picture
\* has been transferred, for every fade length, transfer length and set of
\* commands.
THEOREM BorderAlwaysWhole == Spec => []BorderIsWhole
<1>1. HostInv => BorderIsWhole
  <2> SUFFICES ASSUME HostInv PROVE BorderIsWhole
    OBVIOUS
  <2>1. BorderInv /\ shell.phase \in ShellPhases
    BY DEF HostInv, BorderInv, Shells
  <2>2. CASE shell.phase = "Idle"
    <3>1. presentation_border = border
      BY <2>1, <2>2 DEF presentation_border, BorderInv
    <3> QED BY <2>1, <2>2, <3>1 DEF BorderInv, BorderIsWhole
  <2>3. CASE shell.phase = "FadeFallbackToBlack"
    <3>1. presentation_border = DefaultBorder \/ presentation_border = shell.fallback
      BY <2>1, <2>3, NoneAssumption DEF presentation_border, BorderInv, Borders, DefaultBorder
    <3> QED BY <2>1, <2>3, <3>1 DEF BorderInv, BorderIsWhole
  <2>4. CASE shell.phase = "HoldBlackUntilGameBorder"
    BY <2>4 DEF presentation_border, BorderIsWhole
  <2>5. CASE shell.phase = "FadeBlackToGame"
    <3>1. presentation_border = border
      BY <2>5 DEF presentation_border
    <3> QED BY <2>1, <2>5, <3>1 DEF BorderInv, BorderIsWhole
  <2> QED BY <2>1, <2>2, <2>3, <2>4, <2>5 DEF ShellPhases
<1> QED BY <1>1, HostInvariant, PTL

\* The joypad reads the selected controller, and a controller the current
\* mode has, after every line change, MLT_REQ and host input.
THEOREM JoypadAlwaysFollows == Spec => []JoypadFollowsSelection
<1>1. HostInv => JoypadFollowsSelection
  BY DEF HostInv, PlayersInv
<1> QED BY <1>1, HostInvariant, PTL

\* A running transfer is never replaced, takes its chunks one by one, and has
\* the gate closed for exactly the frames it still needs.
THEOREM TransferAlwaysRunsOut == Spec => TransferRunsOut
<1>1. HostInv /\ Next => TransferGoesOn
  BY HostStep
<1> QED BY <1>1, HostInvariant, PTL DEF Spec, TransferRunsOut, TransferGoesOn

\* The decoder is handed a packet exactly when the lines have carried one,
\* and that one, for every packet length and every sequence of writes.
THEOREM PacketAlwaysFramed == Spec => PacketIsFramed
<1>1. WireInv /\ Next => HandsFramed
  BY WireStep
<1> QED BY <1>1, WireInvariant, PTL DEF Spec, PacketIsFramed, HandsFramed

=============================================================================
