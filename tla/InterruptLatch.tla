--------------------------- MODULE InterruptLatch ---------------------------
(***************************************************************************)
(* What the interrupt path promises, whatever the CPU is doing: a request   *)
(* is raised, published in IF and consumed by exactly one acceptance; an    *)
(* accepted source is held until its handler is entered or it is put back   *)
(* in IF.  Nothing but an acceptance or a program's write to IF takes a     *)
(* request away.                                                            *)
(***************************************************************************)
CONSTANTS Sources, NoSource

VARIABLES
  flags,      \* IF
  raised,     \* requests not yet in IF
  serving,    \* the accepted source, or NoSource
  entered     \* the handler PC points at, or NoSource

latchVars == <<flags, raised, serving, entered>>

Init ==
  /\ flags \in SUBSET Sources
  /\ raised = {}
  /\ serving = NoSource
  /\ entered = NoSource

Raise ==
  /\ raised' \in SUBSET Sources /\ raised \subseteq raised'
  /\ UNCHANGED <<flags, serving, entered>>

Publish ==
  /\ flags' = flags \cup raised /\ raised' = {}
  /\ UNCHANGED <<serving, entered>>

SoftwareWrite ==
  /\ flags' \in SUBSET Sources
  /\ UNCHANGED <<raised, serving, entered>>

(* Acknowledge: the request leaves IF, or this cycle's raised requests.     *)
Accept(s) ==
  /\ serving = NoSource /\ serving' = s
  /\ \/ s \in flags /\ raised' \in {raised, raised \ {s}}
     \/ s \in raised /\ raised' = raised \ {s}
  /\ flags' = flags \ {s}
  /\ UNCHANGED entered

(* STOP woken with IME set consumes the joypad request without a handler.   *)
AcceptBugged(s) ==
  /\ serving = NoSource /\ s \in flags
  /\ flags' = flags \ {s}
  /\ UNCHANGED <<raised, serving, entered>>

(* The last push may itself write IF or raise a joypad or STAT request.     *)
Dispatch ==
  /\ serving # NoSource /\ serving' = NoSource
  /\ entered' = serving
  /\ \/ raised' = raised /\ flags' \in SUBSET Sources
     \/ raised' \in SUBSET Sources /\ raised \subseteq raised' /\ flags' = flags

Cancel ==
  /\ serving # NoSource /\ serving' = NoSource
  /\ flags' = flags \cup {serving}
  /\ entered' = NoSource
  /\ UNCHANGED raised

Retarget(s) ==
  /\ serving # NoSource /\ s \in flags \ {serving}
  /\ serving' = s
  /\ flags' = (flags \cup {serving}) \ {s}
  /\ UNCHANGED <<raised, entered>>

(* The program runs on: PC leaves the vector.                               *)
LeaveVector ==
  /\ serving = NoSource /\ entered' = NoSource
  /\ UNCHANGED <<flags, raised, serving>>

Next ==
  \/ Raise \/ Publish \/ SoftwareWrite \/ Dispatch \/ Cancel \/ LeaveVector
  \/ \E s \in Sources : Accept(s) \/ AcceptBugged(s) \/ Retarget(s)

Spec == Init /\ [][Next]_latchVars
=============================================================================
