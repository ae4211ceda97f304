------------------------------- MODULE MCSgb -------------------------------
(***************************************************************************)
(* The Super Game Boy host with packets of two bits.  A packet may say any  *)
(* of these: MLT_REQ for one player, for four and for the three-player      *)
(* glitch, both border transfers, a transfer of objects, a command of two   *)
(* packets, ICON_EN, and a packet count of zero.                            *)
(***************************************************************************)
EXTENDS Sgb

Said(id, count, arg) == [id |-> id, count |-> count, arg |-> arg]

MCMeanings ==
  {Said("MLT_REQ", 1, control) : control \in {0, 2, 3}}
    \cup {Said(id, 1, 0) : id \in {"CHR_TRN", "PCT_TRN", "OBJ_TRN"}}
    \cup {Said("ATTR_BLK", 2, 0), Said("ICON_EN", 1, 1), Said("ATTR_BLK", 0, 0)}

MCPressVectors == {[c \in Controllers |-> 0], [c \in Controllers |-> c]}

=============================================================================
