-------------------------------- MODULE Sgb --------------------------------
(***************************************************************************)
(* The Super Game Boy host (crates/gb-core/src/sgb): the packets a game     *)
(* sends over the two select lines of JOYP, the commands they make up, the  *)
(* gate that turns packets away while a transfer is running, the transfer   *)
(* of a screen of VRAM over several host frames, the border that is faded   *)
(* in, and the controllers that MLT_REQ multiplexes into the joypad.        *)
(*                                                                          *)
(* Two things drive the host: writes to FF00 by the CPU, and a frame start  *)
(* every 456 * 154 T-cycles.  They come in any order, with host input in    *)
(* between.                                                                 *)
(*                                                                          *)
(* A packet has PacketBits data bits here, not 128: enough for its framing. *)
(* What it says is in the bits that are left out, so that a packet may say  *)
(* any of Meanings.  A transfer is its target and the number of its         *)
(* chunks; where a chunk is read from is not modelled, and neither are the  *)
(* palettes, the attributes and MASK_EN.                                    *)
(***************************************************************************)
EXTENDS Integers, Sequences, SequencesExt, FiniteSets

CONSTANTS
  PacketBits,    \* data bits of a packet: SGB_PACKET_BITS
  Meanings,      \* what a packet may say: [id, count, arg]
  TotalFrames,   \* chunks of a transfer: SGB_VRAM_TRANSFER_TOTAL_FRAMES
  FadeFrames,    \* length of a fade: SGB_SHELL_BORDER_FADE_FRAMES
  PressVectors,  \* what the four controllers may hold down
  WireBound,     \* the longest history of line changes kept in wire
  None           \* the absent value

ASSUME SgbAssumption ==
  /\ PacketBits \in Nat \ {0}
  /\ TotalFrames \in Nat \ {0}
  /\ FadeFrames \in Nat \ {0}
  /\ WireBound \in Nat
  /\ \A said \in Meanings :
       said.count \in Nat /\ (said.id = "MLT_REQ" => said.arg \in 0..3)

SGB_OBJ_TRN_BUSY_FRAMES == 1

Controllers == 1..4
Lines == {"Idle", "Start", "Zero", "One"}
Phases == {"Idle", "StartPending", "Receiving", "DataPending"}
Bits == {"Zero", "One"}

ShellPhases ==
  {"Idle", "FadeFallbackToBlack", "HoldBlackUntilGameBorder", "FadeBlackToGame"}

TransferCommands == {"CHR_TRN", "PCT_TRN", "PAL_TRN", "ATTR_TRN", "SOU_TRN", "DATA_TRN"}
Transfers == [target : TransferCommands, captured : 0..TotalFrames - 1]
Borders == [chr : {"default", "game"}, pct : {"default", "game"}]
DefaultBorder == [chr |-> "default", pct |-> "default"]

ASSUME NoneAssumption ==
  /\ None \notin Bits /\ None \notin Transfers /\ None \notin Borders
  /\ \A said \in Meanings : None # said.id

VARIABLES
  line,       \* last_joyp_line_state
  transport,  \* [phase, pending_data_bit, packet]: the packet being received
  command,    \* [active, expected, received]: the command accumulator
  disabled,   \* register_file_transfer_disabled: ICON_EN bit 2 was set
  busy,       \* busy_frames_remaining
  transfer,   \* [target, captured]: the transfer that runs, or None
  border,     \* [chr, pct]: whose tiles and whose map the border has
  shell,      \* [default, phase, frame, ready, fallback]
  players,    \* [count, selected]
  masks,      \* player_pressed_masks
  joypad,     \* the mask the joypad matrix reads
  booting,    \* the boot ROM is still mapped (a RealBoot start)
  wire,       \* history: the line changes since the last start pulse
  handed      \* history: the packet this step handed to the decoder, or None

vars == <<line, transport, command, disabled, busy, transfer, border, shell,
          players, masks, joypad, booting, wire, handed>>

-----------------------------------------------------------------------------
(* The controllers.                                                         *)

\* Slip: the selection is kept whatever the new count is.
apply_mlt_req_kept(p, control) ==
  [count |-> control + 1, selected |-> p.selected]

\* A control of 2 is the three-player glitch: player 1 or player 3.
apply_mlt_req_command(p, control) ==
  LET current == p.selected - 1
      index == IF control = 2 THEN (((current + 1) \div 2) % 2) * 2
               ELSE current % (control + 1)
  IN  [count |-> control + 1, selected |-> index + 1]

\* P15 rises: with two or four players the next one is selected.
cycle_selected_player(p, previous, new) ==
  IF /\ p.count % 2 = 0
     /\ previous \in {"Start", "One"}
     /\ new \in {"Idle", "Zero"}
  THEN [p EXCEPT !.selected = (p.selected % p.count) + 1]
  ELSE p

-----------------------------------------------------------------------------
(* The border and its fades.                                                *)

\* Slip: the fallback is not kept aside.
start_game_border_fade_out_bare(s, b) ==
  IF ~s.default THEN s
  ELSE [s EXCEPT !.default = FALSE, !.ready = FALSE,
                 !.phase = "FadeFallbackToBlack", !.frame = 0]

\* The first border transfer of a game sets the default border aside.
start_game_border_fade_out(s, b) ==
  IF ~s.default THEN s
  ELSE [s EXCEPT !.fallback = IF @ = None THEN b ELSE @,
                 !.default = FALSE, !.ready = FALSE,
                 !.phase = "FadeFallbackToBlack", !.frame = 0]

\* Slip: a border that arrives during the black hold starts no fade.
start_game_border_transition_held(s) == [s EXCEPT !.ready = TRUE]

\* The picture is complete.  Its request started the fade already, so the
\* default border is gone by now; only the hold has to be ended here.
start_game_border_transition(s) ==
  IF s.default
  THEN [s EXCEPT !.ready = TRUE, !.default = FALSE, !.frame = IF s.fallback # None THEN 0 ELSE @,
                 !.phase = IF s.fallback # None THEN "FadeFallbackToBlack" ELSE "Idle"]
  ELSE IF s.phase = "HoldBlackUntilGameBorder"
  THEN [s EXCEPT !.ready = TRUE, !.phase = "FadeBlackToGame", !.frame = 0]
  ELSE [s EXCEPT !.ready = TRUE]

advance_frame(s) ==
  CASE s.phase \in {"Idle", "HoldBlackUntilGameBorder"} -> s
    [] s.phase = "FadeFallbackToBlack" /\ s.frame + 1 < FadeFrames ->
         [s EXCEPT !.frame = @ + 1]
    [] s.phase = "FadeFallbackToBlack" /\ s.frame + 1 >= FadeFrames ->
         [s EXCEPT !.frame = 0,
                   !.phase = IF s.ready THEN "FadeBlackToGame"
                             ELSE "HoldBlackUntilGameBorder"]
    [] s.phase = "FadeBlackToGame" /\ s.frame + 1 < FadeFrames ->
         [s EXCEPT !.frame = @ + 1]
    [] s.phase = "FadeBlackToGame" /\ s.frame + 1 >= FadeFrames ->
         [s EXCEPT !.frame = 0, !.phase = "Idle", !.ready = FALSE, !.fallback = None]

\* The border on the screen, None while it is black.
presentation_border ==
  CASE shell.phase = "Idle" ->
         IF shell.default /\ shell.fallback # None THEN shell.fallback ELSE border
    [] shell.phase = "FadeFallbackToBlack" ->
         IF shell.fallback # None THEN shell.fallback ELSE border
    [] shell.phase = "HoldBlackUntilGameBorder" -> None
    [] shell.phase = "FadeBlackToGame" -> border

-----------------------------------------------------------------------------
(* The transfer of a screen of VRAM, one chunk per frame start.             *)

request_vram_transfer(target) == [target |-> target, captured |-> 0]

-----------------------------------------------------------------------------
(* Commands.                                                                *)

start_busy_frames(frames) == IF frames > busy THEN frames ELSE busy

\* The effect of a complete command; the accumulator is idle afterwards.
dispatch_completed_command(id, count, arg, cycled) ==
  /\ players' = IF id = "MLT_REQ" /\ count = 1
                THEN apply_mlt_req_command(cycled, arg) ELSE cycled
  /\ disabled' = IF id = "ICON_EN" /\ count = 1 THEN arg = 1 ELSE disabled
  /\ transfer' = IF id \in TransferCommands /\ count = 1
                 THEN request_vram_transfer(id) ELSE transfer
  /\ shell' = IF id \in {"CHR_TRN", "PCT_TRN"} /\ count = 1
              THEN start_game_border_fade_out(shell, border) ELSE shell
  /\ busy' = CASE id \in TransferCommands /\ count = 1 ->
                    start_busy_frames(TotalFrames)
               [] id = "OBJ_TRN" /\ count = 1 ->
                    start_busy_frames(SGB_OBJ_TRN_BUSY_FRAMES)
               [] OTHER -> busy

\* Nothing but the cycled selection: the packet was turned away or kept.
NoCommand(cycled) ==
  /\ players' = cycled
  /\ UNCHANGED <<disabled, transfer, shell, busy>>

\* The counts mean nothing while no command is active.
Idled == [active |-> None, expected |-> 0, received |-> 0]

\* Slip: the busy gate is looked at only for packets of longer commands.
decode_complete_packet_ungated(said, cycled) ==
  \/ /\ command.active = None
     /\ ~disabled /\ said.count = 1
     /\ UNCHANGED command
     /\ dispatch_completed_command(said.id, 1, said.arg, cycled)
  \/ /\ command.active = None
     /\ disabled \/ said.count # 1
     /\ UNCHANGED command
     /\ NoCommand(cycled)
  \/ /\ command.active # None
     /\ UNCHANGED command
     /\ NoCommand(cycled)

\* The gates are for the first packet of a command only: once a command is
\* active, what comes is its next packet.
decode_complete_packet(said, cycled) ==
  \/ /\ command.active = None
     /\ disabled \/ busy # 0 \/ said.count = 0
     /\ UNCHANGED command
     /\ NoCommand(cycled)
  \/ /\ command.active = None
     /\ ~disabled /\ busy = 0 /\ said.count = 1
     /\ command' = Idled
     /\ dispatch_completed_command(said.id, 1, said.arg, cycled)
  \/ /\ command.active = None
     /\ ~disabled /\ busy = 0 /\ said.count > 1
     /\ command' = [active |-> said.id, expected |-> said.count, received |-> 1]
     /\ NoCommand(cycled)
  \/ /\ command.active # None
     /\ command.received + 1 < command.expected
     /\ command' = [command EXCEPT !.received = @ + 1]
     /\ NoCommand(cycled)
  \/ /\ command.active # None
     /\ command.received + 1 >= command.expected
     /\ command' = Idled
     /\ dispatch_completed_command(command.active, command.expected, 0, cycled)

-----------------------------------------------------------------------------
(* The packet transport.                                                    *)

begin_packet_start_pulse == [phase |-> "StartPending", pending |-> None, packet |-> <<>>]

\* Slip: a data pulse is taken at its first line change.
observe_joyp_data_candidate_first(t, bit) ==
  CASE t.phase \in {"Receiving", "DataPending"} ->
         [t EXCEPT !.phase = "DataPending", !.pending = IF @ = None THEN bit ELSE @]
    [] t.phase = "StartPending" -> [t EXCEPT !.phase = "Idle", !.pending = None]
    [] t.phase = "Idle" -> t

observe_joyp_data_candidate(t, bit) ==
  CASE t.phase \in {"Receiving", "DataPending"} ->
         [t EXCEPT !.phase = "DataPending", !.pending = bit]
    [] t.phase = "StartPending" -> [t EXCEPT !.phase = "Idle", !.pending = None]
    [] t.phase = "Idle" -> t

observe_joyp_start(t, previous) ==
  IF previous = "Start" \/ t.phase = "StartPending" THEN t ELSE begin_packet_start_pulse

\* The idle line confirms a start pulse, or commits the pending data bit.
\* The bit after the last data bit is the stop bit: whatever it is, the
\* packet is complete.
observe_joyp_idle(t) ==
  CASE t.phase = "StartPending" -> [t EXCEPT !.phase = "Receiving"]
    [] t.phase = "DataPending" /\ Len(t.packet) < PacketBits ->
         [t EXCEPT !.phase = "Receiving", !.pending = None,
                   !.packet = Append(@, t.pending)]
    [] t.phase = "DataPending" /\ Len(t.packet) >= PacketBits ->
         [t EXCEPT !.phase = "Idle", !.pending = None]
    [] OTHER -> t

\* The stop bit is committed by this write.
confirm_packet_data_bit(new) ==
  new = "Idle" /\ transport.phase = "DataPending" /\ Len(transport.packet) >= PacketBits

-----------------------------------------------------------------------------
(* The reference reading of the lines, from their history alone.  A start   *)
(* pulse is both lines low, then both high.  A data pulse is one line low,  *)
(* then both high; the state just before both are high is its value.        *)

\* The pulses of a history: the state before each return to idle.
Pulses(w) ==
  LET back == {i \in 2..Len(w) : w[i] = "Idle"}
  IN  [n \in 1..Cardinality(back) |->
         w[(CHOOSE i \in back : Cardinality({j \in back : j <= i}) = n) - 1]]

\* A start pulse and as many data pulses as a packet and its stop bit take.
Framed(w) ==
  /\ Len(Pulses(w)) = PacketBits + 2
  /\ w[2] = "Idle"
  /\ Last(w) = "Idle"

\* The history grows from a start on; one that cannot be a packet any more,
\* or has been one, is dropped.
Extended(w, new) ==
  IF new = "Start" /\ line # "Start" THEN <<"Start">>
  ELSE IF Framed(w) \/ (Len(w) = 1 /\ new \in Bits) THEN <<>>
  ELSE IF w = <<>> \/ new = line THEN w
  ELSE Append(w, new)

-----------------------------------------------------------------------------
(* The steps.                                                               *)

JoypadAfterWrite == masks[players'.selected]

\* A CPU write to FF00 and all that the host does at once.
WriteJoyp(new) ==
  LET cycled == cycle_selected_player(players, line, new) IN
  /\ Len(wire) < WireBound \/ new \in {"Start", line} \/ Framed(wire)
  /\ transport' = CASE new = "Idle" -> observe_joyp_idle(transport)
                    [] new = "Start" -> observe_joyp_start(transport, line)
                    [] new \in Bits -> observe_joyp_data_candidate(transport, new)
  /\ line' = new
  /\ wire' = Extended(wire, new)
  /\ IF confirm_packet_data_bit(new)
     THEN /\ handed' = transport.packet
          /\ \E said \in Meanings : decode_complete_packet(said, cycled)
     ELSE /\ handed' = None
          /\ UNCHANGED command
          /\ NoCommand(cycled)
  /\ joypad' = JoypadAfterWrite
  /\ UNCHANGED <<border, masks, booting>>

\* A host frame: the fade moves, the running transfer takes its chunk, and
\* with the last one the payload goes where the command sent it.
FrameStart ==
  LET faded == advance_frame(shell) IN
  /\ handed' = None
  /\ \/ /\ transfer = None
        /\ shell' = faded
        /\ busy' = IF busy > 0 THEN busy - 1 ELSE 0
        /\ UNCHANGED <<transfer, border>>
     \/ /\ transfer # None
        /\ transfer.captured + 1 < TotalFrames
        /\ transfer' = [transfer EXCEPT !.captured = @ + 1]
        /\ shell' = faded
        /\ busy' = IF busy > 0 THEN busy - 1 ELSE 0
        /\ UNCHANGED border
     \/ /\ transfer # None
        /\ transfer.captured + 1 >= TotalFrames
        /\ transfer' = None
        /\ border' = CASE transfer.target = "CHR_TRN" -> [border EXCEPT !.chr = "game"]
                       [] transfer.target = "PCT_TRN" -> [border EXCEPT !.pct = "game"]
                       [] OTHER -> border
        /\ shell' = IF transfer.target = "PCT_TRN"
                    THEN start_game_border_transition(faded) ELSE faded
        /\ busy' = 0
  /\ UNCHANGED <<line, transport, command, disabled, players, masks, joypad,
                 booting, wire>>

\* Host input: all four controllers, then the selected one to the joypad.
SetPressedMasks(v) ==
  /\ v # masks
  /\ masks' = v
  /\ joypad' = v[players.selected]
  /\ handed' = None
  /\ UNCHANGED <<line, transport, command, disabled, busy, transfer, border,
                 shell, players, booting, wire>>

\* The boot ROM unmaps itself: what it left in flight is dropped.
finish_real_boot_handoff ==
  /\ booting
  /\ booting' = FALSE
  /\ line' = "Idle"
  /\ transport' = [phase |-> "Idle", pending |-> None, packet |-> <<>>]
  /\ command' = Idled
  /\ wire' = <<>>
  /\ handed' = None
  /\ UNCHANGED <<disabled, busy, transfer, border, shell, players, masks,
                 joypad>>

Init ==
  /\ line = "Idle"
  /\ transport = [phase |-> "Idle", pending |-> None, packet |-> <<>>]
  /\ command = Idled
  /\ disabled = FALSE
  /\ busy = 0
  /\ transfer = None
  /\ border = DefaultBorder
  /\ shell = [default |-> TRUE, phase |-> "Idle", frame |-> 0, ready |-> FALSE,
              fallback |-> None]
  /\ players = [count |-> 1, selected |-> 1]
  /\ masks \in PressVectors
  /\ joypad = masks[1]
  /\ booting \in BOOLEAN
  /\ wire = <<>>
  /\ handed = None

Next ==
  \/ \E new \in Lines : WriteJoyp(new)
  \/ FrameStart
  \/ \E v \in PressVectors : SetPressedMasks(v)
  \/ finish_real_boot_handoff

\* The scheduler reaches a frame start every 456 * 154 T-cycles.
Spec == Init /\ [][Next]_vars /\ WF_vars(FrameStart)


-----------------------------------------------------------------------------
(* Properties.                                                              *)

\* The transport, the gate and the accumulator stay in their types.
TypeOK ==
  /\ line \in Lines
  /\ transport.phase \in Phases
  /\ transport.pending \in Bits \cup {None}
  /\ (transport.phase = "DataPending") <=> (transport.pending # None)
  /\ Len(transport.packet) <= PacketBits
  /\ busy \in 0..TotalFrames
  /\ shell.phase \in ShellPhases
  /\ shell.frame \in 0..(FadeFrames - 1)
  /\ players.count \in Controllers

\* The decoder is handed a packet exactly when the lines have carried one,
\* and the packet is the one they carried: repeated writes, a value that
\* changes before the lines return to idle, a start in the middle of a
\* packet, and the boot handoff add no bit, lose none and start no packet
\* (transport.rs, observe_joyp_write to complete_packet_transfer).
PacketIsFramed ==
  [][handed' = IF wire' # wire /\ Framed(wire')
               THEN SubSeq(Pulses(wire'), 2, PacketBits + 1)
               ELSE None]_vars

\* There is room for one transfer, and the busy gate keeps it: a transfer
\* takes its chunks one by one to the last, is never replaced by another
\* command's, and the gate is closed for exactly the frames it still needs,
\* so that no packet is refused once it is done (command.rs,
\* start_busy_frames; video.rs, request_vram_transfer, advance_frame_start).
TransferRunsOut ==
  [][transfer # None =>
       /\ busy = TotalFrames - transfer.captured
       /\ \/ transfer' = transfer /\ busy' = busy
          \/ transfer' = [transfer EXCEPT !.captured = @ + 1] /\ transfer'.captured < TotalFrames
          \/ transfer' = None /\ transfer.captured + 1 = TotalFrames /\ busy' = 0]_vars

\* The border on the screen is never half of one: it is the default border,
\* black, or a border whose picture has been transferred, although tiles
\* arrive while the default border is still fading (shell.rs).
BorderIsWhole ==
  \/ presentation_border = None
  \/ presentation_border = DefaultBorder
  \/ presentation_border.pct = "game"

\* The CPU reads the buttons of the player the host has selected, and only
\* of a player the current mode has, whichever of a line change, an MLT_REQ
\* and host input came last (multiplayer.rs; machine/step.rs 375-392, 846-851).
JoypadFollowsSelection ==
  /\ joypad = masks[players.selected]
  /\ players.selected \in 1..players.count

\* A requested picture is shown: the fade to black, the hold and the fade to
\* the game's border all end, in whatever order tiles and picture arrive.
GameBorderAppears ==
  (transfer # None /\ transfer.target = "PCT_TRN")
    ~> (shell.phase = "Idle" /\ presentation_border.pct = "game")

=============================================================================
