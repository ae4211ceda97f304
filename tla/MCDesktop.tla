------------------------------ MODULE MCDesktop -----------------------------
(***************************************************************************)
(* Instance of Desktop for TLC: a two-step frame with one capture inside   *)
(* it, a buffer that overflows, two battery writes, one fault.  A second   *)
(* has two ticks, and the first session begins in the middle of one.  The  *)
(* wall clock matters most to the cartridges that have a clock.            *)
(***************************************************************************)
EXTENDS Desktop

Config(k, p) == [kind |-> k, policy |-> p]
MCConfigs == { Config("mbc3", "OnClose"), Config("huc3", "Debounced"),
               Config("mbc6", "OnWrite"), Config("ram", "Manual") }
MCMaxWall == [ram |-> 2, mbc6 |-> 2, mbc3 |-> 3, huc3 |-> 4]
MCDebouncedRam == { Config("ram", "Debounced") }
=============================================================================
