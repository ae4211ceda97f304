------------------------------- MODULE Joypad -------------------------------
(***************************************************************************)
(* The P1/JOYP matrix (crates/gb-core/src/joypad.rs).  A row is selected    *)
(* when its bit of P1 is 0; a line is low when some pressed button of a     *)
(* selected row drives it.  The two rows share the four lines, so the same  *)
(* line can be held low by a button of either row.                          *)
(***************************************************************************)
CONSTANTS
  Buttons, Rows,
  ButtonRow,    \* [Buttons -> Rows]
  ButtonLine    \* the low-nibble bit of each button

VARIABLES
  selected,     \* rows whose selection bit is 0
  pressed,      \* pressed_mask
  visible,      \* previous_visible_low_nibble: the lines that were low
  edge_pending  \* consumers that have not yet taken the last falling edge

joypadVars == <<selected, pressed, visible, edge_pending>>

(* interrupt_request_pending and stop_wake_pending: one falling edge is     *)
(* latched twice and each latch is consumed on its own.                     *)
EdgeConsumers == {"interrupt", "stop_wake"}

visible_low(rows, buttons) ==
  {ButtonLine[b] : b \in {c \in buttons : ButtonRow[c] \in rows}}

(* update_visible_edge_state: a newly low line raises both latches.         *)
UpdateVisibleEdgeState ==
  LET low    == visible_low(selected', pressed')
      gained == low \ visible # {}
  IN /\ visible' = low
     /\ edge_pending' = IF gained THEN EdgeConsumers ELSE edge_pending

write_p1(rows) ==
  /\ selected' = rows
  /\ pressed' = pressed
  /\ UpdateVisibleEdgeState

(* consume_interrupt_request leaves the STOP wake latch alone.              *)
consume_both_latches == edge_pending' = {}
consume_interrupt_request == edge_pending' = edge_pending \ {"interrupt"}

(* apply_pressed_mask returns early when the mask is unchanged.             *)
apply_pressed_mask(mask) ==
  \/ mask = pressed /\ UNCHANGED joypadVars
  \/ /\ mask # pressed
     /\ pressed' = mask
     /\ selected' = selected
     /\ UpdateVisibleEdgeState

stop_wake_line_asserted == visible_low(selected, pressed) # {}

JoypadInit ==
  /\ selected \in {{}, Rows}     \* new() and apply_startup_state
  /\ pressed = {}
  /\ visible = {}
  /\ edge_pending = {}
=============================================================================
