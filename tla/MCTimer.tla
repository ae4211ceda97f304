------------------------------ MODULE MCTimer ------------------------------
(* The timer on a 6-bit counter: the bits 3 and 5 that TAC selects 1 and 2  *)
(* stand for are the real ones, the DIV-APU bits are scaled to 4 and 5.     *)
EXTENDS Timer, TLC

MCHalfPeriod == (1 :> 8) @@ (2 :> 32)
MCApuHalf == ("Normal" :> 16) @@ ("Double" :> 32)
=============================================================================
