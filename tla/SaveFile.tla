------------------------------ MODULE SaveFile ------------------------------
(***************************************************************************)
(* Save files on disk (gb-persistence file_io.rs, filesystem_store.rs and  *)
(* the external_save codecs).                                              *)
(*                                                                         *)
(* A save is replaced in several file-system operations: the stale backup  *)
(* goes, a temporary file is written, the current file becomes the backup, *)
(* the temporary file becomes the current one, the backup goes.  A process *)
(* can die between any two of them, and any one of them can fail.          *)
(*                                                                         *)
(* A saved state is a record [v, rtc, z, n]: v names the battery RAM's     *)
(* contents, rtc the seconds the cartridge clock reads.  z, the host time  *)
(* at which that clock read zero, and n, how often it was set from a file  *)
(* or lost a fraction of a second since, are not stored by the code and    *)
(* serve the properties.  A file also carries the Unix second it was       *)
(* written in.                                                             *)
(***************************************************************************)
EXTENDS Integers, Sequences

CONSTANTS NoFile,        \* no file at this path
          Torn           \* a file cut short in the middle of a write

(* What a file stores, and a complete file.  The two markers are neither.  *)
SavedStates == [v : Nat, rtc : Nat, z : Int, n : Nat]
SaveFiles   == [v : Nat, rtc : Nat, z : Int, n : Nat, at : Nat]

ASSUME FileMarkers ==
  /\ NoFile \notin SavedStates /\ NoFile \notin SaveFiles
  /\ Torn \notin SaveFiles /\ Torn # NoFile

NoFiles == [main |-> NoFile, bak |-> NoFile, tmp |-> NoFile]

(* The states the three files go through while `bytes` replaces the save   *)
(* at this path.                                                           *)
write_save_file_with_safe_replace(f, bytes) ==
  LET s1 == [f  EXCEPT !.bak = NoFile]
      s2 == [s1 EXCEPT !.tmp = Torn]
      s3 == [s2 EXCEPT !.tmp = bytes]
      s4 == IF s3.main = NoFile THEN s3
            ELSE [s3 EXCEPT !.bak = s3.main, !.main = NoFile]
      s5 == [s4 EXCEPT !.main = bytes, !.tmp = NoFile]
      s6 == [s5 EXCEPT !.bak = NoFile]
  IN  << f, s1, s2, s3, s4, s5, s6 >>

(* What one failing operation leaves behind: the states before the first   *)
(* rename as they are; a failed second rename puts the backup back; a      *)
(* backup that cannot be removed stays.                                    *)
replace_failures(f, bytes) ==
  LET s == write_save_file_with_safe_replace(f, bytes)
  IN  { s[1], s[2], s[3], s[4] }
        \cup { [s[4] EXCEPT !.tmp = NoFile], s[6] }

(* Which files a cartridge is stored in: the documented external format,   *)
(* this project's envelope, or (MBC6) the envelope as soon as it exists.   *)
filesystem_cartridge_save_storage_policy(kind) ==
  CASE kind = "huc3" -> "InternalOnly"
    [] kind = "mbc6" -> "DynamicMbc6"
    [] OTHER         -> "ExternalPrimary"

(* A raw external file has no place for MBC6 protection and hidden flash:  *)
(* versions above 1 stand for states that use them.                        *)
encode_external_cartridge_save(kind, s) == ~ (kind = "mbc6" /\ s.v > 1)

uses_internal(d, kind) ==
  LET p == filesystem_cartridge_save_storage_policy(kind)
  IN  p = "InternalOnly" \/ (p = "DynamicMbc6" /\ d.int.main # NoFile)

(* The path `save` writes: "int" for the envelope, "ext" for the raw file. *)
save_target(d, kind, s) ==
  IF uses_internal(d, kind) \/ ~ encode_external_cartridge_save(kind, s)
  THEN "int" ELSE "ext"

\* A plausible slip: the raw file is preferred whenever there is one.
load_target_external_first(d, kind) ==
  IF d.ext.main # NoFile THEN "ext"
  ELSE IF uses_internal(d, kind) THEN "int" ELSE "ext"

load_target(d, kind) == IF uses_internal(d, kind) THEN "int" ELSE "ext"

Elapsed(from, to) == IF to > from THEN to - from ELSE 0

advance_clock(s, seconds) == [s EXCEPT !.rtc = @ + seconds]

HasClock(kind) == kind \in {"mbc3", "huc3"}

StateOf(f) == [v |-> f.v, rtc |-> f.rtc, z |-> f.z, n |-> f.n]

\* A plausible slip: the raw file's own time stamp is kept after its clock
\* was advanced on import, so the session advances it again.
load_external_stamped(f, kind, now) ==
  [state |-> IF HasClock(kind)
             THEN advance_clock(StateOf(f), Elapsed(f.at, now))
             ELSE StateOf(f),
   at    |-> f.at]

(* Importing a raw file advances its clock to the present, and stamps the  *)
(* result with the present, so that the session adds nothing more.         *)
load_external(f, kind, now) ==
  [state |-> IF HasClock(kind)
             THEN advance_clock(StateOf(f), Elapsed(f.at, now))
             ELSE StateOf(f),
   at    |-> now]

load_internal(f) == [state |-> StateOf(f), at |-> f.at]

(* Whether `load` can read the file at all.  A raw MBC6 file is refused    *)
(* when the target already uses what it cannot carry.                      *)
load_readable(d, kind, target) ==
  LET f == d[load_target(d, kind)].main
  IN  /\ f # Torn
      /\ ~ ( /\ f # NoFile
             /\ load_target(d, kind) = "ext"
             /\ kind = "mbc6" /\ target.v > 1 )

load(d, kind, now) ==
  LET p == load_target(d, kind)
      f == d[p].main
  IN  IF p = "int" THEN load_internal(f) ELSE load_external(f, kind, now)

(* What the next session would read: the file's state, or nothing at all.  *)
Stored(d, kind) == d[load_target(d, kind)].main
=============================================================================
