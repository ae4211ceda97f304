------------------------------- MODULE MCLink -------------------------------
(* Two consoles on a cable, and one console with a printer.                 *)
EXTENDS LinkSession, TLC

MCEdgePeriod ==
  (<<"Normal", FALSE>> :> 2) @@ (<<"Normal", TRUE>> :> 1)
  @@ (<<"Double", FALSE>> :> 1) @@ (<<"Double", TRUE>> :> 1)

\* One edge in every T-cycle, for the printer and the adapter.
MCFastEdge == [c \in {"Normal", "Double"} \X BOOLEAN |-> 1]

SB(b) == [op |-> "SB", byte |-> b]
SC(req, internal, high) ==
  [op |-> "SC", req |-> req, internal |-> internal, high |-> high]
Sleep == {[op |-> "STOP"], [op |-> "WAKE", speed |-> "Normal"]}

\* Console m sends byte m; the second one has the fast clock and may sleep.
CableOps(m) ==
  {Nop, SB(m), SC(TRUE, TRUE, m = 2), SC(TRUE, FALSE, FALSE)}
  \cup (IF m = 2 THEN Sleep ELSE {})

PrinterOps == {Nop, SC(TRUE, TRUE, FALSE)} \cup {SB(b) : b \in {0, 1, 2, 4, 15, 51, 136}}

MCGameOps ==
  [m \in {1, 2} |->
     [kind \in {"None", "Loopback", "Printer", "Dmg04", "Dmg07"} |->
        CASE kind = "Dmg04" -> CableOps(m)
          [] kind = "Printer" /\ m = 1 -> PrinterOps
          [] kind = "Dmg07" ->
               {Nop} \cup {[op |-> "SEND", byte |-> b] :
                              b \in IF m = 1 THEN {1, 136, 170, 255} ELSE {5, 136}}
          [] kind = "Loopback" -> {Nop, SC(TRUE, TRUE, FALSE)}
          [] OTHER -> {Nop}]]

MCPacketInput ==
  [Magic0 |-> {136}, Magic1 |-> {51}, Command |-> {1, 2, 4, 15},
   Compression |-> {0, 1}, LengthLo |-> {0, 2, 4}, LengthHi |-> {0},
   Data |-> {0}, ChecksumLo |-> {0}, ChecksumHi |-> {0}]

\* The first console marks, and sends the restart marker or nothing; the other
\* one acknowledges and sends 5.  Nobody answers an indicator.
MCAdapterInput ==
  [Ping |-> <<{136, 170}, {136}>>,
   Header |-> <<{1}, {136}>>,
   TransmissionIndicator |-> <<{}, {}>>,
   Transmission |-> <<{255}, {5}>>,
   PingRestartIndicator |-> <<{}, {}>>]

MCVerdicts ==
  {[sum |-> FALSE, decoded |-> 0, sheets |-> FALSE]}
  \cup [sum : {TRUE}, decoded : {2, Malformed}, sheets : BOOLEAN]

MCLoopPlug == {1} \X {"None", "Loopback"}
MCPrinterPlug == {1} \X {"None", "Printer"}

MCNoPort == (1 :> 1) @@ (2 :> 4)
=============================================================================
