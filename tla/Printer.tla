------------------------------ MODULE Printer ------------------------------
(***************************************************************************)
(* The Game Boy Printer (external_port/printer.rs) as operators over its   *)
(* state p.  The image buffer is its length, a page the length of the      *)
(* image it was rendered from.  What only the data decides is a verdict v  *)
(* the environment chooses: whether the two checksum bytes match (v.sum),  *)
(* what the run-length decoder makes of a compressed payload (v.decoded:   *)
(* a length, or Malformed) and whether PRINT asks for a sheet (v.sheets).  *)
(***************************************************************************)
EXTENDS Naturals, Sequences

CONSTANTS MaxPacket,  \* PRINTER_MAX_DATA_PACKET_BYTES
          ImageCap,   \* PRINTER_IMAGE_BUFFER_CAPACITY_BYTES
          Timeout     \* PRINTER_PACKET_TIMEOUT_T_CYCLES

ASSUME PrinterConstants == {MaxPacket, ImageCap, Timeout} \subseteq Nat \ {0}

Alive == 129 \* $81
Malformed == ImageCap + MaxPacket + 1

\* The status bits the printer sets; the other three never are.
StatusBit == [packet_error |-> 16, unprocessed_data |-> 8,
              image_data_full |-> 4, currently_printing |-> 2,
              checksum_error |-> 1]

to_byte(status) ==
  LET bit(n) == IF n \in status THEN StatusBit[n] ELSE 0
  IN bit("packet_error") + bit("unprocessed_data") + bit("image_data_full")
     + bit("currently_printing") + bit("checksum_error")

NewPrinter ==
  [at |-> "Magic0", cmd |-> 0, comp |-> 0, lo |-> 0, expected |-> 0,
   received |-> 0, proc |-> "Idle", staged |-> 0, queue |-> <<>>,
   image |-> 0, armed |-> FALSE, status |-> {}, timeout |-> 0, pages |-> <<>>]

\* reset_to_initialized_state: the pages already printed stay.
reset_to_initialized_state(p) == [NewPrinter EXCEPT !.pages = p.pages]

recompute_status(p) ==
  LET held == p.image > 0
  IN [p EXCEPT !.status =
       (@ \cap {"packet_error", "checksum_error"})
       \cup (IF p.proc \in {"DataBuffered", "PrintingPendingStatus"} /\ held
             THEN {"unprocessed_data"} ELSE {})
       \cup (IF p.proc \in {"Printing", "PrintComplete"} /\ held
             THEN {"image_data_full"} ELSE {})
       \cup (IF p.proc = "Printing" THEN {"currently_printing"} ELSE {})
       \cup (IF p.image >= ImageCap THEN {"image_data_full"} ELSE {})]

handle_print(p, sheets) ==
  IF p.image = 0 \/ ~p.armed THEN recompute_status(p)
  ELSE recompute_status([p EXCEPT
         !.proc = "PrintingPendingStatus", !.armed = FALSE,
         !.pages = IF sheets THEN Append(@, p.image) ELSE @])

handle_data(p, len) ==
  IF len = 0
  THEN recompute_status([p EXCEPT !.armed = @ \/ p.image > 0])
  ELSE LET room == ImageCap - p.image
       IN recompute_status([p EXCEPT
            !.image = @ + (IF room < len THEN room ELSE len),
            !.proc = "DataBuffered", !.armed = FALSE])

handle_status_command(p) ==
  CASE p.proc = "PrintingPendingStatus" ->
         recompute_status([p EXCEPT !.proc = "Printing"])
    [] p.proc = "Printing" ->
         recompute_status([p EXCEPT !.proc = "PrintComplete"])
    [] OTHER -> p

execute_command(p, len, sheets) ==
  CASE p.cmd = 1 -> reset_to_initialized_state(p)
    [] p.cmd = 2 -> handle_print(p, sheets)
    [] p.cmd = 4 -> handle_data(p, len)
    [] p.cmd = 15 -> handle_status_command(p)

\* The reply carries the status as the packet left it.
queue_response(p) == [p EXCEPT !.queue = @ \o <<Alive, to_byte(p.status)>>]

clear_current_packet(p) ==
  [p EXCEPT !.at = "Magic0", !.cmd = 0, !.comp = 0, !.lo = 0,
            !.expected = 0, !.received = 0]

command_payload_len_is_valid(cmd, len) ==
  CASE cmd \in {1, 15} -> len = 0
    [] cmd = 2 -> len = 4
    [] OTHER -> len <= MaxPacket

\* Every packet, good or bad, is answered; only a good one is executed.
finish_packet(p, v) ==
  LET known == p.cmd \in {1, 2, 4, 15}
      decoded == IF p.comp = 1 THEN v.decoded ELSE p.expected
      good == /\ known
              /\ p.comp = 0 \/ (p.comp = 1 /\ p.cmd = 4)
              /\ decoded # Malformed
              /\ command_payload_len_is_valid(p.cmd, decoded)
      summed == [p EXCEPT !.status = @ \ {"checksum_error"}]
  IN clear_current_packet(queue_response(
       IF ~v.sum THEN [p EXCEPT !.status = @ \cup {"checksum_error"}]
       ELSE IF ~good THEN [summed EXCEPT !.status = @ \cup {"packet_error"}]
       ELSE execute_command([summed EXCEPT !.status = @ \ {"packet_error"}],
                            decoded, v.sheets)))

consume_byte(p, b, v) ==
  CASE p.at = "Magic0" -> IF b = 136 THEN [p EXCEPT !.at = "Magic1"] ELSE p
    [] p.at = "Magic1" ->
         [p EXCEPT !.at = CASE b = 51 -> "Command"
                            [] b = 136 -> "Magic1"
                            [] OTHER -> "Magic0"]
    [] p.at = "Command" -> [p EXCEPT !.at = "Compression", !.cmd = b]
    [] p.at = "Compression" -> [p EXCEPT !.at = "LengthLo", !.comp = b]
    [] p.at = "LengthLo" -> [p EXCEPT !.at = "LengthHi", !.lo = b]
    [] p.at = "LengthHi" ->
         LET len == p.lo + 256 * b
         IN [p EXCEPT !.at = IF len = 0 THEN "ChecksumLo" ELSE "Data",
                      !.expected = len]
    [] p.at = "Data" ->
         [p EXCEPT !.at = IF p.received + 1 = p.expected
                          THEN "ChecksumLo" ELSE "Data",
                   !.received = @ + 1]
    [] p.at = "ChecksumLo" -> [p EXCEPT !.at = "ChecksumHi"]
    [] p.at = "ChecksumHi" -> finish_packet(p, v)

\* Variant: the reply is staged before the byte is parsed.
receive_staging_first(p, b, v) ==
  LET q == IF p.queue = <<>> THEN [p EXCEPT !.staged = 0]
           ELSE [p EXCEPT !.staged = Head(p.queue), !.queue = Tail(@)]
  IN consume_byte([q EXCEPT !.timeout = 0], b, v)

\* A completed byte: parse it, then stage the next byte of the reply.
receive_serial_byte(p, b, v) ==
  LET q == consume_byte([p EXCEPT !.timeout = 0], b, v)
  IN IF q.queue = <<>> THEN [q EXCEPT !.staged = 0]
     ELSE [q EXCEPT !.staged = Head(q.queue), !.queue = Tail(@)]

printer_tick(p) ==
  IF p.at = "Magic0" THEN p
  ELSE IF p.timeout + 1 >= Timeout THEN reset_to_initialized_state(p)
  ELSE [p EXCEPT !.timeout = @ + 1]
=============================================================================
