------------------------------- MODULE Rewind -------------------------------
(***************************************************************************)
(* The rewind buffer (gb-core rewind.rs): a bounded list of whole-machine  *)
(* snapshots taken at frame boundaries and, CapturesPerFrame times, inside *)
(* a frame.  Time is counted in sub-frame steps, FrameSteps to a frame.  A *)
(* snapshot is [t, kind, s]: when it was taken, how, and the machine state *)
(* (opaque here).  A buffer is                                             *)
(* [entries, frameStart, subframes, lastSubframe].                         *)
(***************************************************************************)
EXTENDS Naturals, Sequences

CONSTANTS FrameSteps,        \* sub-frame steps in a frame
          CapturesPerFrame,  \* sub-frame captures wanted in each frame
          TargetHistory,     \* how far back the oldest snapshot may lie
          MaxSnapshots,      \* snapshots the memory budget holds
          NoTime             \* no time recorded

ASSUME RewindAssumption ==
  /\ FrameSteps \in Nat \ {0}
  /\ CapturesPerFrame \in Nat
  /\ TargetHistory \in Nat \ {0}
  /\ MaxSnapshots \in Nat \ {0}
  /\ NoTime \notin Nat

EmptyRewind == [entries |-> <<>>, frameStart |-> NoTime,
                subframes |-> 0, lastSubframe |-> NoTime]

NewestTime(b) == IF b.entries = <<>> THEN NoTime ELSE b.entries[Len(b.entries)].t

(* Snapshots older than the target history go first, then the oldest until *)
(* the budget holds; the newest always stays.                              *)
enforce_limits(es) ==
  LET newest == es[Len(es)].t
      Fits(k) == /\ newest - es[k].t <= TargetHistory
                 /\ Len(es) - k < MaxSnapshots
      keep == CHOOSE k \in 1..Len(es) :
                /\ k = Len(es) \/ Fits(k)
                /\ \A j \in 1..(k - 1) : ~ Fits(j)
  IN  SubSeq(es, keep, Len(es))

(* A second capture at the same instant replaces the first, and a frame    *)
(* boundary stays a frame boundary.                                        *)
push_capture(b, t, kind, s) ==
  LET n == Len(b.entries)
  IN  IF NewestTime(b) = t
      THEN [b EXCEPT !.entries[n] =
              [t |-> t, s |-> s,
               kind |-> IF kind = "FrameBoundary" THEN kind ELSE @.kind]]
      ELSE [b EXCEPT !.entries =
              enforce_limits(Append(@, [t |-> t, kind |-> kind, s |-> s]))]

record_frame_boundary(b, t, s) ==
  push_capture([b EXCEPT !.frameStart = t, !.subframes = 0],
               t, "FrameBoundary", s)

should_record_subframe(b, t) ==
  LET interval  == FrameSteps \div (CapturesPerFrame + 1)
      threshold == interval * (b.subframes + 1)
      anchor    == IF b.lastSubframe # NoTime THEN b.lastSubframe ELSE NewestTime(b)
      Since(a)  == IF t > a THEN t - a ELSE 0
  IN  /\ CapturesPerFrame > 0
      /\ b.subframes < CapturesPerFrame
      /\ IF b.frameStart # NoTime
         THEN Since(b.frameStart) >= threshold
         ELSE anchor = NoTime \/ Since(anchor) >= interval

record_subframe(b, t, s) ==
  IF ~ should_record_subframe(b, t) THEN b
  ELSE LET fresh == NewestTime(b) # t
           after == push_capture(b, t, "Subframe", s)
       IN  IF fresh
           THEN [after EXCEPT !.lastSubframe = t, !.subframes = @ + 1]
           ELSE after

(* The snapshot a rewind goes to: the newest, unless the machine stands on *)
(* it and there is an older one.                                           *)
rewind_target(b, now) ==
  LET n == Len(b.entries)
  IN  IF n > 1 /\ b.entries[n].t = now THEN n - 1 ELSE n

\* A plausible slip: the snapshots of the abandoned future are kept.
rewind_keeps_future(b, now) ==
  LET k == rewind_target(b, now)
      left == SubSeq(b.entries, 1, k - 1) \o SubSeq(b.entries, k + 1, Len(b.entries))
  IN  [entries |-> left, frameStart |-> NoTime, subframes |-> 0,
       lastSubframe |-> NoTime]

(* The buffer after a rewind: the target and everything newer is gone.     *)
rewind_one(b, now) ==
  LET left == SubSeq(b.entries, 1, rewind_target(b, now) - 1)
  IN  [entries |-> left, frameStart |-> NoTime, subframes |-> 0,
       lastSubframe |->
         IF left # <<>> /\ left[Len(left)].kind = "Subframe"
         THEN left[Len(left)].t ELSE NoTime]
=============================================================================
