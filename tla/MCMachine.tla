----------------------------- MODULE MCMachine -----------------------------
(* One button of the action row, on line 0 of the matrix.                   *)
EXTENDS Machine, TLC

MCButtonRow == "A" :> "actions"
MCButtonLine == "A" :> 0
=============================================================================
