--------------------------- MODULE DesktopProofs ---------------------------
(* Proofs about the desktop frontend: what the next session loads, the       *)
(* cartridge clock, the rewind buffer, an imported save and the debounced    *)
(* flush, for every frame length, history, budget, debounce time and bound   *)
(* on the number of writes, faults and operations.                           *)
EXTENDS Desktop, SequenceTheorems, WellFoundedInduction, TLAPS

-----------------------------------------------------------------------------
(* The rewind buffer.                                                        *)

\* What a snapshot shows of the cartridge; subs are the values its clock's
\* ticks within a second may have.
Marks(subs) == [v : Nat, rtc : Nat, sub : subs]
Snapshots(subs) == [t : Nat, kind : {"FrameBoundary", "Subframe"}, s : Marks(subs)]

\* The snapshots es lie on the past of a machine that stands at t: each shows
\* what the machine was, in order.
OnTimeline(es, t, past, subs) ==
  /\ es \in Seq(Snapshots(subs))
  /\ \A i \in 1..Len(es) : /\ es[i].t \in 1..t
                           /\ es[i].s.v = past[es[i].t]
  /\ \A i, j \in 1..Len(es) : i < j => es[i].t < es[j].t

LEMMA LessThanIsARelation == OpToRel(<, Nat) = { ss \in Nat \X Nat : ss[1] < ss[2] }
  BY DEF OpToRel

LEMMA LeastNatural ==
  ASSUME NEW T, T \subseteq Nat, T # {}
  PROVE  \E x \in T : \A y \in T : x <= y
<1> DEFINE R == { ss \in Nat \X Nat : ss[1] < ss[2] }
<1>1. IsWellFoundedOn(R, Nat)
  BY NatLessThanWellFounded, LessThanIsARelation, Zenon
<1>2. \A x, y \in Nat : y < x => << y, x >> \in R
  OBVIOUS
<1> HIDE DEF R
<1>3. \E x \in T : \A y \in T : ~ (<< y, x >> \in R)
  BY <1>1, WFMin
<1>4. PICK x \in T : \A y \in T : ~ (<< y, x >> \in R)
  BY <1>3
<1>5. ASSUME NEW y \in T PROVE x <= y
  <2>1. x \in Nat /\ y \in Nat /\ ~ (y < x)
    BY <1>2, <1>4
  <2> QED BY <2>1
<1> QED BY <1>5

\* The limits drop a prefix, and never the newest snapshot.
LEMMA LimitsDropPrefix ==
  ASSUME NEW S, NEW es \in Seq(S), es # <<>>
  PROVE  \E k \in 1..Len(es) : enforce_limits(es) = SubSeq(es, k, Len(es))
<1> DEFINE newest == es[Len(es)].t
           Fits(k) == newest - es[k].t <= TargetHistory /\ Len(es) - k < MaxSnapshots
           Good(k) == (k = Len(es) \/ Fits(k)) /\ \A j \in 1..(k - 1) : ~ Fits(j)
           keep == CHOOSE k \in 1..Len(es) : Good(k)
           T == { k \in 1..Len(es) : k = Len(es) \/ Fits(k) }
<1>1. Len(es) \in Nat \ {0}
  OBVIOUS
<1>2. T \subseteq Nat /\ Len(es) \in T
  BY <1>1
<1>3. PICK k \in T : \A y \in T : k <= y
  <2> HIDE DEF T
  <2> QED BY <1>2, LeastNatural
<1>4. \A j \in 1..(k - 1) : ~ Fits(j)
  <2> SUFFICES ASSUME NEW j \in 1..(k - 1), Fits(j) PROVE FALSE
    OBVIOUS
  <2>1. j \in T
    <3> HIDE DEF Fits
    <3> QED BY <1>1
  <2> QED BY <2>1, <1>3
<1>5. k \in 1..Len(es) /\ Good(k)
  <2> HIDE DEF Fits
  <2> QED BY <1>3, <1>4
<1>6. keep \in 1..Len(es)
  <2> HIDE DEF Good
  <2> QED BY <1>5
<1>7. enforce_limits(es) = SubSeq(es, keep, Len(es))
  BY DEF enforce_limits
<1> HIDE DEF keep
<1> QED BY <1>6, <1>7

LEMMA TimelineSub ==
  ASSUME NEW es, NEW t \in Nat, NEW past, NEW subs, OnTimeline(es, t, past, subs),
         NEW a \in 1..(Len(es) + 1), NEW b \in 0..Len(es)
  PROVE  OnTimeline(SubSeq(es, a, b), t, past, subs)
<1> DEFINE sub == SubSeq(es, a, b)
<1>1. es \in Seq(Snapshots(subs)) /\ Len(es) \in Nat
  BY DEF OnTimeline
<1>2. \A i \in a..b : es[i] \in Snapshots(subs)
  BY <1>1
<1>3. /\ sub \in Seq(Snapshots(subs))
      /\ Len(sub) = IF a <= b THEN b - a + 1 ELSE 0
      /\ \A i \in 1..(b - a + 1) : sub[i] = es[a + i - 1]
  BY <1>1, <1>2, SubSeqProperties
<1>4. \A i \in 1..Len(sub) : sub[i] = es[a + i - 1] /\ a + i - 1 \in 1..Len(es)
  BY <1>1, <1>3
<1> HIDE DEF sub
<1>5. \A i \in 1..Len(sub) : /\ sub[i].t \in 1..t
                             /\ sub[i].s.v = past[sub[i].t]
  BY <1>4 DEF OnTimeline
<1>6. \A i, j \in 1..Len(sub) : i < j => sub[i].t < sub[j].t
  <2> SUFFICES ASSUME NEW i \in 1..Len(sub), NEW j \in 1..Len(sub), i < j
               PROVE  sub[i].t < sub[j].t
    OBVIOUS
  <2>1. /\ sub[i] = es[a + i - 1] /\ a + i - 1 \in 1..Len(es)
        /\ sub[j] = es[a + j - 1] /\ a + j - 1 \in 1..Len(es)
    BY <1>4
  <2>2. a + i - 1 < a + j - 1
    BY <1>1, <1>3
  <2> QED BY <2>1, <2>2 DEF OnTimeline
<1> QED BY <1>3, <1>5, <1>6 DEF OnTimeline, sub

\* A snapshot of the machine one step on extends the timeline.
LEMMA TimelineAppend ==
  ASSUME NEW es, NEW t \in Nat, NEW past \in Seq(Nat), NEW subs,
         Len(past) = t, OnTimeline(es, t, past, subs),
         NEW s \in Marks(subs), NEW k \in {"FrameBoundary", "Subframe"}
  PROVE  OnTimeline(Append(es, [t |-> t + 1, kind |-> k, s |-> s]), t + 1, Append(past, s.v), subs)
<1> DEFINE e == [t |-> t + 1, kind |-> k, s |-> s]
           fs == Append(es, e)
           p == Append(past, s.v)
<1>1. es \in Seq(Snapshots(subs)) /\ Len(es) \in Nat
  BY DEF OnTimeline
<1>2. e \in Snapshots(subs)
  BY DEF Snapshots
<1>3. e.t = t + 1 /\ e.s = s /\ s.v \in Nat
  BY DEF Marks
<1> HIDE DEF e
<1>4. /\ fs \in Seq(Snapshots(subs)) /\ Len(fs) = Len(es) + 1
      /\ \A i \in 1..Len(es) : fs[i] = es[i]
      /\ fs[Len(es) + 1] = e
  BY <1>1, <1>2
<1>5. /\ \A i \in 1..t : p[i] = past[i]
      /\ p[t + 1] = s.v
  BY <1>3
<1> HIDE DEF fs, p
<1>6. \A i \in 1..Len(fs) : /\ fs[i].t \in 1..(t + 1)
                            /\ fs[i].s.v = p[fs[i].t]
  <2> SUFFICES ASSUME NEW i \in 1..Len(fs)
               PROVE  fs[i].t \in 1..(t + 1) /\ fs[i].s.v = p[fs[i].t]
    OBVIOUS
  <2>1. CASE i = Len(es) + 1
    BY <2>1, <1>3, <1>4, <1>5
  <2>2. CASE i \in 1..Len(es)
    <3>1. es[i].t \in 1..t /\ es[i].s.v = past[es[i].t]
      BY <2>2 DEF OnTimeline
    <3> QED BY <3>1, <2>2, <1>4, <1>5
  <2> QED BY <2>1, <2>2, <1>1, <1>4
<1>7. \A i, j \in 1..Len(fs) : i < j => fs[i].t < fs[j].t
  <2> SUFFICES ASSUME NEW i \in 1..Len(fs), NEW j \in 1..Len(fs), i < j PROVE fs[i].t < fs[j].t
    OBVIOUS
  <2>1. i \in 1..Len(es) /\ fs[i] = es[i] /\ es[i].t \in 1..t
    BY <1>1, <1>4 DEF OnTimeline
  <2>2. CASE j = Len(es) + 1
    BY <2>1, <2>2, <1>3, <1>4
  <2>3. CASE j \in 1..Len(es)
    BY <2>1, <2>3, <1>4 DEF OnTimeline
  <2> QED BY <2>2, <2>3, <1>1, <1>4
<1> QED BY <1>4, <1>6, <1>7 DEF OnTimeline, fs, p, e

\* Time passes, nothing is recorded.
LEMMA TimelineLonger ==
  ASSUME NEW es, NEW t \in Nat, NEW past \in Seq(Nat), NEW subs,
         Len(past) = t, OnTimeline(es, t, past, subs), NEW v \in Nat
  PROVE  OnTimeline(es, t + 1, Append(past, v), subs)
<1>1. \A i \in 1..t : Append(past, v)[i] = past[i]
  OBVIOUS
<1>2. \A i \in 1..Len(es) : /\ es[i].t \in 1..(t + 1)
                            /\ es[i].s.v = Append(past, v)[es[i].t]
  BY <1>1 DEF OnTimeline
<1> QED BY <1>2 DEF OnTimeline

\* A buffer on the timeline of the machine at t.
BufferOn(b, t, past, subs) ==
  /\ {"entries", "frameStart", "subframes", "lastSubframe"} \subseteq DOMAIN b
  /\ OnTimeline(b.entries, t, past, subs)

LEMMA EmptyOn ==
  ASSUME NEW t, NEW past, NEW subs
  PROVE  BufferOn(EmptyRewind, t, past, subs)
BY DEF BufferOn, EmptyRewind, OnTimeline

LEMMA PushKeepsTimeline ==
  ASSUME NEW b, NEW t \in Nat, NEW past \in Seq(Nat), NEW subs,
         Len(past) = t, BufferOn(b, t, past, subs),
         NEW s \in Marks(subs), NEW k \in {"FrameBoundary", "Subframe"}
  PROVE  BufferOn(push_capture(b, t + 1, k, s), t + 1, Append(past, s.v), subs)
<1> DEFINE fs == Append(b.entries, [t |-> t + 1, kind |-> k, s |-> s])
<1>1. OnTimeline(fs, t + 1, Append(past, s.v), subs)
  BY TimelineAppend DEF BufferOn
<1>2. NewestTime(b) # t + 1
  <2>1. CASE b.entries = <<>>
    BY <2>1, RewindAssumption DEF NewestTime
  <2>2. CASE b.entries # <<>>
    <3>1. b.entries \in Seq(Snapshots(subs))
      BY DEF BufferOn, OnTimeline
    <3>2. Len(b.entries) \in 1..Len(b.entries)
      BY <2>2, <3>1
    <3>3. b.entries[Len(b.entries)].t \in 1..t
      BY <3>2 DEF BufferOn, OnTimeline
    <3> QED BY <2>2, <3>3 DEF NewestTime
  <2> QED BY <2>1, <2>2
<1>3. push_capture(b, t + 1, k, s) = [b EXCEPT !.entries = enforce_limits(fs)]
  BY <1>2 DEF push_capture, BufferOn
<1>4. fs \in Seq(Snapshots(subs))
  BY <1>1 DEF OnTimeline
<1>5. fs # <<>>
  <2>1. b.entries \in Seq(Snapshots(subs))
    BY DEF BufferOn, OnTimeline
  <2> QED BY <2>1
<1> HIDE DEF fs
<1>6. PICK n \in 1..Len(fs) : enforce_limits(fs) = SubSeq(fs, n, Len(fs))
  BY <1>4, <1>5, LimitsDropPrefix
<1>7. n \in 1..(Len(fs) + 1) /\ Len(fs) \in 0..Len(fs)
  BY <1>4
<1>8. OnTimeline(enforce_limits(fs), t + 1, Append(past, s.v), subs)
  BY <1>1, <1>6, <1>7, TimelineSub
<1> QED BY <1>3, <1>8 DEF BufferOn

LEMMA RecordKeepsTimeline ==
  ASSUME NEW b, NEW t \in Nat, NEW past \in Seq(Nat), NEW subs,
         Len(past) = t, BufferOn(b, t, past, subs),
         NEW s \in Marks(subs)
  PROVE  /\ BufferOn(b, t + 1, Append(past, s.v), subs)
         /\ BufferOn(record_frame_boundary(b, t + 1, s), t + 1, Append(past, s.v), subs)
         /\ BufferOn(record_subframe(b, t + 1, s), t + 1, Append(past, s.v), subs)
<1>1. BufferOn(b, t + 1, Append(past, s.v), subs)
  BY TimelineLonger DEF BufferOn, Marks
<1>2. BufferOn(record_frame_boundary(b, t + 1, s), t + 1, Append(past, s.v), subs)
  <2> DEFINE c == [b EXCEPT !.frameStart = t + 1, !.subframes = 0]
  <2>1. BufferOn(c, t, past, subs)
    BY DEF BufferOn
  <2>2. record_frame_boundary(b, t + 1, s) = push_capture(c, t + 1, "FrameBoundary", s)
    BY DEF record_frame_boundary
  <2> HIDE DEF c
  <2> QED BY <2>1, <2>2, PushKeepsTimeline
<1>3. BufferOn(record_subframe(b, t + 1, s), t + 1, Append(past, s.v), subs)
  <2> DEFINE a == push_capture(b, t + 1, "Subframe", s)
  <2>1. BufferOn(a, t + 1, Append(past, s.v), subs)
    BY PushKeepsTimeline
  <2> HIDE DEF a
  <2>2. BufferOn([a EXCEPT !.lastSubframe = t + 1, !.subframes = @ + 1], t + 1, Append(past, s.v), subs)
    BY <2>1 DEF BufferOn
  <2> QED BY <1>1, <2>1, <2>2 DEF record_subframe, a
<1> QED BY <1>1, <1>2, <1>3

\* A rewind goes to a snapshot of the past, and keeps what lies before it.
LEMMA RewindKeepsTimeline ==
  ASSUME NEW b, NEW t \in Nat, NEW past \in Seq(Nat), NEW subs,
         Len(past) = t, BufferOn(b, t, past, subs), b.entries # <<>>
  PROVE  LET e == b.entries[rewind_target(b, t)] IN
         /\ e \in Snapshots(subs) /\ e.t \in 1..t
         /\ BufferOn(rewind_one(b, t), e.t, SubSeq(past, 1, e.t), subs)
<1> DEFINE k == rewind_target(b, t)
           e == b.entries[k]
           left == SubSeq(b.entries, 1, k - 1)
           p == SubSeq(past, 1, e.t)
<1>1. b.entries \in Seq(Snapshots(subs)) /\ Len(b.entries) \in Nat \ {0}
  BY DEF BufferOn, OnTimeline
<1>2. k \in 1..Len(b.entries)
  BY <1>1 DEF rewind_target
<1>3. rewind_one(b, t).entries = left
      /\ {"entries", "frameStart", "subframes", "lastSubframe"} \subseteq DOMAIN rewind_one(b, t)
  BY DEF rewind_one
<1> HIDE DEF k
<1>4. e \in Snapshots(subs) /\ e.t \in 1..t
  BY <1>1, <1>2 DEF BufferOn, OnTimeline
<1> HIDE DEF e
<1>5. /\ left \in Seq(Snapshots(subs)) /\ Len(left) = k - 1
      /\ \A i \in 1..(k - 1) : left[i] = b.entries[i]
  BY <1>1, <1>2, SubSeqProperties
<1>6. \A i \in 1..e.t : p[i] = past[i]
  BY <1>4, SubSeqProperties
<1> HIDE DEF left, p
<1>7. \A i \in 1..Len(left) : /\ left[i].t \in 1..e.t
                              /\ left[i].s.v = p[left[i].t]
  <2> SUFFICES ASSUME NEW i \in 1..(k - 1)
               PROVE  /\ left[i].t \in 1..e.t
                      /\ left[i].s.v = p[left[i].t]
    BY <1>5
  <2>1. i \in 1..Len(b.entries) /\ i < k
    BY <1>1, <1>2
  <2>2. /\ b.entries[i].t \in 1..t /\ b.entries[i].t < e.t
        /\ b.entries[i].s.v = past[b.entries[i].t]
    BY <2>1, <1>2 DEF BufferOn, OnTimeline, e
  <2>3. left[i] = b.entries[i] /\ b.entries[i].t \in 1..e.t
    BY <2>2, <1>4, <1>5
  <2>4. p[b.entries[i].t] = past[b.entries[i].t]
    BY <2>3, <1>6
  <2> QED BY <2>2, <2>3, <2>4
<1>8. \A i, j \in 1..Len(left) : i < j => left[i].t < left[j].t
  <2> SUFFICES ASSUME NEW i \in 1..(k - 1), NEW j \in 1..(k - 1), i < j
               PROVE  left[i].t < left[j].t
    BY <1>5
  <2>1. i \in 1..Len(b.entries) /\ j \in 1..Len(b.entries)
    BY <1>1, <1>2
  <2> QED BY <2>1, <1>5 DEF BufferOn, OnTimeline
<1>9. BufferOn(rewind_one(b, t), e.t, p, subs)
  BY <1>3, <1>5, <1>7, <1>8 DEF BufferOn, OnTimeline
<1> QED BY <1>4, <1>9 DEF e, k, p

-----------------------------------------------------------------------------
(* Host time and seconds.                                                    *)

Ticks(r) == TicksPerSecond * r

\* What n times setting a clock, each wrong by less than a second, add up to.
Slack(n) == n * (TicksPerSecond - 1)

\* What the cartridge keeps of a second.
Subs(kind) == IF kind = "mbc3" THEN 0..(TicksPerSecond - 1) ELSE {0}

LEMMA TicksAdd ==
  ASSUME NEW a \in Nat, NEW b \in Nat
  PROVE  Ticks(a) \in Nat /\ Ticks(b) \in Nat /\ Ticks(a + b) = Ticks(a) + Ticks(b)
BY DesktopAssumption DEF Ticks

LEMMA Seconds ==
  ASSUME NEW x \in Nat
  PROVE  /\ x \div TicksPerSecond \in Nat /\ x % TicksPerSecond \in 0..(TicksPerSecond - 1)
         /\ Ticks(x \div TicksPerSecond) + (x % TicksPerSecond) = x
         /\ x = 0 => x \div TicksPerSecond = 0 /\ x % TicksPerSecond = 0
<1>1. TicksPerSecond \in Nat \ {0}
  BY DesktopAssumption
<1>2. /\ x \div TicksPerSecond \in Nat /\ x % TicksPerSecond \in 0..(TicksPerSecond - 1)
      /\ x = TicksPerSecond * (x \div TicksPerSecond) + (x % TicksPerSecond)
  BY <1>1
<1>3. x = 0 => x \div TicksPerSecond = 0 /\ x % TicksPerSecond = 0
  BY <1>1
<1> QED BY <1>2, <1>3 DEF Ticks

LEMMA SlackAdd ==
  ASSUME NEW n \in Nat
  PROVE  /\ Slack(0) = 0 /\ Slack(n) \in Nat
         /\ Slack(n + 1) = Slack(n) + (TicksPerSecond - 1)
         /\ TicksPerSecond - 1 \in Nat
<1>1. TicksPerSecond - 1 \in Nat
  BY DesktopAssumption
<1> DEFINE c == TicksPerSecond - 1
<1> HIDE DEF c
<1>2. 0 * c = 0 /\ n * c \in Nat /\ (n + 1) * c = n * c + c
  BY <1>1 DEF c
<1> QED BY <1>1, <1>2 DEF Slack, c

\* A stamp is the second its write lies in, and later writes have later ones.
LEMMA UnixSeconds ==
  ASSUME NEW a \in Nat
  PROVE  /\ unix_seconds(a) \in Nat
         /\ Ticks(unix_seconds(a)) \in Nat /\ Ticks(unix_seconds(a)) <= a
         /\ a <= Ticks(unix_seconds(a)) + (TicksPerSecond - 1)
         /\ \A b \in Nat : a <= b => unix_seconds(a) <= unix_seconds(b)
<1>0. TicksPerSecond \in Nat \ {0}
  BY DesktopAssumption
<1>1. \A x \in Nat : /\ unix_seconds(x) \in Nat
                     /\ Ticks(unix_seconds(x)) \in Nat /\ Ticks(unix_seconds(x)) <= x
                     /\ x <= Ticks(unix_seconds(x)) + (TicksPerSecond - 1)
  <2> SUFFICES ASSUME NEW x \in Nat
               PROVE  /\ unix_seconds(x) \in Nat
                      /\ Ticks(unix_seconds(x)) \in Nat /\ Ticks(unix_seconds(x)) <= x
                      /\ x <= Ticks(unix_seconds(x)) + (TicksPerSecond - 1)
    OBVIOUS
  <2> DEFINE q == x \div TicksPerSecond
             r == x % TicksPerSecond
  <2>1. q \in Nat /\ r \in 0..(TicksPerSecond - 1) /\ Ticks(q) + r = x
    BY Seconds
  <2> HIDE DEF q, r
  <2>2. Ticks(q) \in Nat
    BY <2>1, TicksAdd
  <2> QED BY <1>0, <2>1, <2>2 DEF unix_seconds, q
<1>2. ASSUME NEW b \in Nat, a <= b, unix_seconds(b) < unix_seconds(a)
      PROVE  FALSE
  <2> DEFINE p == unix_seconds(a)
             q == unix_seconds(b)
             c == p - q - 1
  <2>1. p \in Nat /\ q \in Nat /\ c \in Nat /\ p = (q + 1) + c
    BY <1>1, <1>2
  <2> HIDE DEF p, q, c
  <2>2. Ticks(p) = Ticks(q) + Ticks(1) + Ticks(c) /\ Ticks(c) \in Nat
    BY <2>1, TicksAdd
  <2>3. Ticks(1) = TicksPerSecond
    BY <1>0 DEF Ticks
  <2>4. Ticks(p) <= a /\ b <= Ticks(q) + (TicksPerSecond - 1) /\ Ticks(q) \in Nat /\ Ticks(p) \in Nat
    BY <1>1 DEF p, q
  <2> QED BY <1>0, <1>2, <2>2, <2>3, <2>4
<1>3. \A b \in Nat : a <= b => unix_seconds(a) <= unix_seconds(b)
  BY <1>1, <1>2
<1> QED BY <1>1, <1>3

-----------------------------------------------------------------------------
(* Writing the save file.                                                    *)

\* Between two writes only the files themselves are kept.
Places == [main : SaveFiles \cup {NoFile}, bak : {NoFile}, tmp : {NoFile}]
Disks == [ext : Places, int : Places]

Stamped(s, now) == [v |-> s.v, rtc |-> s.rtc, z |-> s.z, n |-> s.n, at |-> unix_seconds(now)]

LEMMA StampedIsAFile ==
  ASSUME NEW s \in SavedStates, NEW now \in Nat
  PROVE  /\ Stamped(s, now) \in SaveFiles /\ Stamped(s, now) \notin {NoFile, Torn}
         /\ Stamped(s, now).v = s.v /\ Stamped(s, now).rtc = s.rtc
         /\ Stamped(s, now).z = s.z /\ Stamped(s, now).n = s.n
         /\ Stamped(s, now).at = unix_seconds(now)
<1>1. Stamped(s, now) \in SaveFiles
  BY UnixSeconds DEF Stamped, SavedStates, SaveFiles
<1> QED BY <1>1, FileMarkers DEF Stamped

\* Wherever a replacement stops, the path holds the old file, none or the new.
LEMMA ReplacementStates ==
  ASSUME NEW f \in Places, NEW bytes
  PROVE  LET steps == write_save_file_with_safe_replace(f, bytes) IN
         /\ Len(steps) = 7 /\ steps[7].main = bytes
         /\ \A i \in 1..7 : steps[i].main \in {f.main, NoFile, bytes}
         /\ \A g \in replace_failures(f, bytes) : g.main \in {f.main, NoFile, bytes}
<1> DEFINE steps == write_save_file_with_safe_replace(f, bytes)
           s3 == [[[f EXCEPT !.bak = NoFile] EXCEPT !.tmp = Torn] EXCEPT !.tmp = bytes]
           s4 == IF s3.main = NoFile THEN s3 ELSE [s3 EXCEPT !.bak = s3.main, !.main = NoFile]
           s5 == [s4 EXCEPT !.main = bytes, !.tmp = NoFile]
           s6 == [s5 EXCEPT !.bak = NoFile]
<1>1. DOMAIN f = {"main", "bak", "tmp"}
  BY DEF Places
<1>2. steps = << f, [f EXCEPT !.bak = NoFile],
                 [[f EXCEPT !.bak = NoFile] EXCEPT !.tmp = Torn], s3, s4, s5, s6 >>
  BY DEF write_save_file_with_safe_replace
<1>3. /\ [f EXCEPT !.bak = NoFile].main = f.main
      /\ [[f EXCEPT !.bak = NoFile] EXCEPT !.tmp = Torn].main = f.main
      /\ s3.main = f.main /\ DOMAIN s3 = {"main", "bak", "tmp"}
  BY <1>1
<1>4. s4.main \in {f.main, NoFile} /\ DOMAIN s4 = {"main", "bak", "tmp"}
  <2> HIDE DEF s3
  <2> QED BY <1>3
<1>5. s5.main = bytes /\ DOMAIN s5 = {"main", "bak", "tmp"}
  <2> HIDE DEF s4
  <2> QED BY <1>4
<1>6. s6.main = bytes
  <2> HIDE DEF s5
  <2> QED BY <1>5
<1>7. /\ steps[1] = f /\ steps[2] = [f EXCEPT !.bak = NoFile]
      /\ steps[3] = [[f EXCEPT !.bak = NoFile] EXCEPT !.tmp = Torn]
      /\ steps[4] = s3 /\ steps[5] = s4 /\ steps[6] = s5 /\ steps[7] = s6
      /\ Len(steps) = 7
  <2> HIDE DEF s3, s4, s5, s6, steps
  <2> QED BY <1>2
<1>8. [steps[4] EXCEPT !.tmp = NoFile].main = f.main
  <2> HIDE DEF s3, steps
  <2> QED BY <1>3, <1>7
<1>9. \A i \in 1..7 : i \in {1, 2, 3, 4, 5, 6, 7}
  OBVIOUS
<1>10. \A i \in 1..7 : steps[i].main \in {f.main, NoFile, bytes}
  <2> HIDE DEF s3, s4, s5, s6, steps
  <2> QED BY <1>3, <1>4, <1>5, <1>6, <1>7, <1>9
<1>11. replace_failures(f, bytes) = {steps[1], steps[2], steps[3], steps[4]}
                                       \cup {[steps[4] EXCEPT !.tmp = NoFile], steps[6]}
  BY DEF replace_failures
<1>12. \A g \in replace_failures(f, bytes) : g.main \in {f.main, NoFile, bytes}
  <2> HIDE DEF s3, s4, s5, s6, steps
  <2> QED BY <1>3, <1>5, <1>7, <1>8, <1>11
<1> QED
  <2> HIDE DEF s3, s4, s5, s6
  <2> QED BY <1>6, <1>7, <1>10, <1>12

\* The disk with the file x at the path p.
Replaced(d, p, x) == [d EXCEPT ![p] = [NoFiles EXCEPT !.main = x]]

\* The file just written is the one the next session reads, and the first
\* write of a path that had none leaves what it could not finish unread.
LEMMA WrittenIsRead ==
  ASSUME NEW d \in Disks, NEW kind, NEW s \in SavedStates, NEW now \in Nat
  PROVE  LET p == save_target(d, kind, s)
             e == Replaced(d, p, Stamped(s, now))
         IN  /\ p \in {"ext", "int"}
             /\ d[p] \in Places
             /\ Replaced(d, p, d[p].main) = d
             /\ Replaced(d, p, NoFile) \in Disks
             /\ e \in Disks
             /\ Stored(e, kind) = Stamped(s, now)
<1> DEFINE p == save_target(d, kind, s)
           Put(x) == [d EXCEPT ![p] = [NoFiles EXCEPT !.main = x]]
           b == Stamped(s, now)
<1>1. p \in {"ext", "int"}
  BY DEF save_target
<1>2. DOMAIN d = {"ext", "int"} /\ d.ext \in Places /\ d.int \in Places
  BY DEF Disks
<1>3. b \in SaveFiles /\ b # NoFile
  BY StampedIsAFile
<1>4. \A x \in SaveFiles \cup {NoFile} :
        [NoFiles EXCEPT !.main = x] = [main |-> x, bak |-> NoFile, tmp |-> NoFile]
  BY DEF NoFiles
<1>5. \A x \in SaveFiles \cup {NoFile} :
        [NoFiles EXCEPT !.main = x] \in Places /\ [NoFiles EXCEPT !.main = x].main = x
  BY <1>4 DEF Places
<1>6. d[p] \in Places
  BY <1>1, <1>2
<1>7. Put(d[p].main) = d
  <2>1. [NoFiles EXCEPT !.main = d[p].main] = d[p]
    BY <1>4, <1>6 DEF Places
  <2>2. d = [q \in {"ext", "int"} |-> d[q]]
    BY DEF Disks
  <2> HIDE DEF p
  <2>3. [d EXCEPT ![p] = d[p]] = d
    BY <2>2, <1>1, <1>2
  <2> QED BY <2>1, <2>3
<1>8. \A x \in SaveFiles \cup {NoFile} : Put(x) \in Disks
  <2> SUFFICES ASSUME NEW x \in SaveFiles \cup {NoFile} PROVE Put(x) \in Disks
    OBVIOUS
  <2> DEFINE y == [NoFiles EXCEPT !.main = x]
  <2>1. y \in Places
    BY <1>5
  <2> HIDE DEF p, y
  <2>2. [d EXCEPT ![p] = y] \in Disks
    BY <2>1, <1>1, <1>2 DEF Disks
  <2> QED BY <2>2 DEF y
<1>9. Stored(Put(b), kind) = b
  <2> DEFINE e == Put(b)
             pol == filesystem_cartridge_save_storage_policy(kind)
  <2>1. e[p].main = b /\ \A q \in {"ext", "int"} : q # p => e[q] = d[q]
    <3>0. [NoFiles EXCEPT !.main = b].main = b
      BY <1>3, <1>5
    <3> HIDE DEF p
    <3> QED BY <1>1, <1>2, <3>0
  <2>2. CASE p = "int"
    <3>1. pol = "DynamicMbc6" \/ pol = "InternalOnly"
      <4>1. kind = "mbc6" => pol = "DynamicMbc6"
        BY DEF filesystem_cartridge_save_storage_policy
      <4> HIDE DEF pol
      <4> QED BY <2>2, <4>1 DEF save_target, uses_internal, encode_external_cartridge_save, pol
    <3>2. e.int.main = b
      BY <2>1, <2>2
    <3> HIDE DEF e, pol
    <3>3. uses_internal(e, kind)
      BY <3>1, <3>2, <1>3 DEF uses_internal, pol
    <3> QED BY <3>2, <3>3 DEF Stored, load_target, e
  <2>3. CASE p = "ext"
    <3>1. ~ uses_internal(d, kind)
      BY <2>3 DEF save_target
    <3>2. e.int = d.int /\ e.ext.main = b
      BY <2>1, <2>3
    <3> HIDE DEF e, pol
    <3>3. ~ uses_internal(e, kind)
      BY <3>1, <3>2 DEF uses_internal
    <3> QED BY <3>2, <3>3 DEF Stored, load_target, e
  <2> QED BY <2>2, <2>3, <1>1
<1>10. \A x : Replaced(d, p, x) = Put(x)
  BY DEF Replaced
<1> HIDE DEF Put, b
<1> QED BY <1>1, <1>3, <1>6, <1>7, <1>8, <1>9, <1>10 DEF b

\* What a pass that may write the state s at wall time now can end with.
Outcome(o, d, s, now) ==
  /\ o.disk \in Disks /\ o.alive \in BOOLEAN /\ o.failed \in BOOLEAN
  /\ o.done \in BOOLEAN /\ o.holed \in BOOLEAN
  /\ \A p \in {"ext", "int"} : o.disk[p].main \in {d[p].main, NoFile, Stamped(s, now)}
  /\ o.done => Stored(o.disk, cfg.kind) = Stamped(s, now)
  /\ ~ o.done => o.holed \/ o.disk = d
  /\ o.alive => o.done \/ (o.disk = d /\ ~ o.holed)

LEMMA WriteOutcome ==
  ASSUME NEW d \in Disks, NEW s \in SavedStates, NEW now \in Nat,
         NEW o \in WriteOutcomes(d, s, now)
  PROVE  Outcome(o, d, s, now) /\ (o.alive => o.done)
<1> DEFINE p == save_target(d, cfg.kind, s)
           bytes == Stamped(s, now)
           steps == write_save_file_with_safe_replace(d[p], bytes)
           Out(f, alive, failed) ==
             [disk |-> Replaced(d, p, f.main), alive |-> alive, failed |-> failed,
              done |-> f.main = bytes, holed |-> f.main = NoFile /\ d[p].main # NoFile]
<1>1. /\ p \in {"ext", "int"} /\ d[p] \in Places /\ Replaced(d, p, d[p].main) = d
      /\ Replaced(d, p, NoFile) \in Disks /\ Replaced(d, p, bytes) \in Disks
      /\ Stored(Replaced(d, p, bytes), cfg.kind) = bytes
  BY WrittenIsRead
<1>2. /\ Len(steps) = 7 /\ steps[7].main = bytes
      /\ \A i \in 1..7 : steps[i].main \in {d[p].main, NoFile, bytes}
      /\ \A g \in replace_failures(d[p], bytes) : g.main \in {d[p].main, NoFile, bytes}
  <2> HIDE DEF p, bytes
  <2> QED BY <1>1, ReplacementStates
<1>3. o \in { Out(steps[Len(steps)], TRUE, FALSE) }
        \cup (IF h.faults < MaxFaults
              THEN { Out(steps[i], FALSE, FALSE) : i \in 1..Len(steps) }
                     \cup { Out(f, FALSE, TRUE) : f \in replace_failures(d[p], bytes) }
              ELSE {})
  BY Zenon DEF WriteOutcomes, Stamped, Replaced
<1>4. bytes # NoFile /\ bytes \in SaveFiles
  BY StampedIsAFile
<1>5. DOMAIN d = {"ext", "int"}
  BY DEF Disks
<1> HIDE DEF p, bytes, steps
<1>6. \/ o = Out(steps[7], TRUE, FALSE)
      \/ \E i \in 1..7 : o = Out(steps[i], FALSE, FALSE)
      \/ \E f \in replace_failures(d[p], bytes) : o = Out(f, FALSE, TRUE)
  <2> HIDE DEF Out
  <2> QED BY <1>2, <1>3
<1> DEFINE F == { steps[i] : i \in 1..7 } \cup replace_failures(d[p], bytes)
<1>7. \A f \in F : f.main \in {d[p].main, NoFile, bytes}
  BY <1>2
<1>8. PICK f \in F, a \in BOOLEAN, b \in BOOLEAN : o = Out(f, a, b) /\ (a => f.main = bytes)
  <2>1. steps[7] \in F
    OBVIOUS
  <2>2. \A i \in 1..7 : steps[i] \in F
    OBVIOUS
  <2>3. \A f \in replace_failures(d[p], bytes) : f \in F
    OBVIOUS
  <2> HIDE DEF Out, F
  <2> QED BY <1>2, <1>6, <2>1, <2>2, <2>3
<1>9. /\ o.disk = Replaced(d, p, f.main)
      /\ o.alive \in BOOLEAN /\ o.failed \in BOOLEAN
      /\ o.done \in BOOLEAN /\ o.holed \in BOOLEAN
      /\ o.alive <=> a
      /\ o.done <=> f.main = bytes
      /\ o.holed <=> f.main = NoFile /\ d[p].main # NoFile
  BY <1>8
<1>10. \A x : \A q \in {"ext", "int"} : Replaced(d, p, x)[q].main \in {d[q].main, x}
  <2> SUFFICES ASSUME NEW x, NEW q \in {"ext", "int"} PROVE Replaced(d, p, x)[q].main \in {d[q].main, x}
    OBVIOUS
  <2> DEFINE y == [NoFiles EXCEPT !.main = x]
  <2>1. y.main = x
    BY DEF NoFiles
  <2> HIDE DEF y
  <2>2. [d EXCEPT ![p] = y][q] = IF q = p THEN y ELSE d[q]
    BY <1>1, <1>5
  <2> QED BY <2>1, <2>2 DEF y, Replaced
<1>11. \A q \in {"ext", "int"} : o.disk[q].main \in {d[q].main, NoFile, bytes}
  <2> SUFFICES ASSUME NEW q \in {"ext", "int"} PROVE o.disk[q].main \in {d[q].main, NoFile, bytes}
    OBVIOUS
  <2>1. f.main = d[p].main => o.disk = d
    BY <1>1, <1>9
  <2>2. o.disk[q].main \in {d[q].main, f.main}
    BY <1>9, <1>10
  <2> QED BY <2>1, <2>2, <1>7
<1>12. /\ o.disk \in Disks
       /\ f.main = bytes => Stored(o.disk, cfg.kind) = bytes
       /\ f.main # bytes => o.holed \/ o.disk = d
  BY <1>1, <1>7, <1>9
<1> QED BY <1>4, <1>8, <1>9, <1>11, <1>12 DEF Outcome, bytes

LEMMA NoWriteOutcome ==
  ASSUME NEW d \in Disks, NEW s, NEW now, NEW o \in NoWrite(d)
  PROVE  Outcome(o, d, s, now) /\ o.alive /\ ~ o.done /\ o.disk = d /\ ~ o.holed
<1>1. o = [disk |-> d, alive |-> TRUE, failed |-> FALSE, done |-> FALSE, holed |-> FALSE]
  BY DEF NoWrite
<1>2. o.disk = d /\ o.alive = TRUE /\ o.failed = FALSE /\ o.done = FALSE /\ o.holed = FALSE
  BY <1>1
<1> QED BY <1>2 DEF Outcome

\* Every way of writing has such an outcome, and without a session none
\* touches the disk.
LEMMA FlushOutcome ==
  ASSUME NEW d \in Disks, NEW x, Persistent(x) \in SavedStates, NEW now \in Nat,
         NEW o, \/ o \in flush_if_changed(d, x, now)
                \/ o \in close(d, x, now)
                \/ o \in maybe_flush_at_frame_boundary(d, x, now)
                \/ o \in NoWrite(d)
  PROVE  /\ Outcome(o, d, Persistent(x), now)
         /\ ses = NoSession => ~ o.done /\ o.disk = d /\ o.alive
<1>1. \/ o \in NoWrite(d)
      \/ ses # NoSession /\ o \in WriteOutcomes(d, Persistent(x), now)
  <2>1. ASSUME o \in flush_if_changed(d, x, now)
        PROVE  \/ o \in NoWrite(d)
               \/ ses # NoSession /\ o \in WriteOutcomes(d, Persistent(x), now)
    BY <2>1 DEF flush_if_changed
  <2>2. o \in close(d, x, now) => o \in NoWrite(d) \/ o \in flush_if_changed(d, x, now)
    BY DEF close
  <2>3. o \in maybe_flush_at_frame_boundary(d, x, now)
          => o \in NoWrite(d) \/ o \in flush_if_changed(d, x, now)
    BY DEF maybe_flush_at_frame_boundary
  <2> QED BY <2>1, <2>2, <2>3
<1>2. CASE o \in NoWrite(d)
  BY <1>2, NoWriteOutcome
<1>3. CASE ses # NoSession /\ o \in WriteOutcomes(d, Persistent(x), now)
  BY <1>3, WriteOutcome
<1> QED BY <1>1, <1>2, <1>3

-----------------------------------------------------------------------------
(* The inductive invariant.                                                  *)

Machines == [t : Nat, v : Nat, rtc : Nat, sub : 0..(TicksPerSecond - 1), z : Int, n : Nat]
Syncs == [pending : Nat, huc3 : 0..(TicksPerSecond - 1)]
Sessions == [last : SavedStates, due : Nat \cup {NoDeadline}, since : Nat \cup {NoDeadline}]
Slots(subs) == [t : Nat, s : Marks(subs), past : Seq(Nat)]
HistoryFields == {"past", "acked", "holed", "imported", "quit", "writes", "faults", "ops"}

GivenOf(x, s) == Ticks(x.rtc) + x.sub + s.pending + s.huc3

\* Of the wall time since x.z, x was given so many ticks: no more, and a
\* HuC-3 clock no less, than the parts of a second allow.
Kept(x, given, now) ==
  /\ given <= (now - x.z) + Slack(x.n)
  /\ cfg.kind = "huc3" => given >= (now - x.z) - 2 * Slack(x.n)

\* The same of what x itself shows, where the host may keep a part of a
\* second: the clock's seconds and `part` of the next.
Held(x, part, now) ==
  /\ Ticks(x.rtc) + part <= (now - x.z) + Slack(x.n)
  /\ cfg.kind = "huc3" => Ticks(x.rtc) + (TicksPerSecond - 1) >= (now - x.z) - 2 * Slack(x.n)

\* A running machine, and one about to enter a session.
Running(x, now) == x \in Machines /\ x.sub \in Subs(cfg.kind) /\ Held(x, x.sub, now)
Ready(x, now) ==
  x \in Machines /\ x.sub \in Subs(cfg.kind) /\ Kept(x, Ticks(x.rtc) + x.sub, now)

FileKept(f, now) ==
  \/ f = NoFile
  \/ /\ f.at <= unix_seconds(now)
     /\ Ticks(f.rtc) <= (Ticks(f.at) - f.z) + (TicksPerSecond - 1) + Slack(f.n)
     /\ cfg.kind = "huc3" =>
          Ticks(f.rtc) + (TicksPerSecond - 1) >= (Ticks(f.at) - f.z) - 2 * Slack(f.n)

BasicInv ==
  /\ cfg \in Configs /\ wall \in Nat /\ app \in {"off", "on"}
  /\ HistoryFields \subseteq DOMAIN h
  /\ h.past \in Seq(Nat) /\ h.writes \in Nat
  /\ h.holed \in BOOLEAN /\ h.imported \in BOOLEAN

MachInv ==
  /\ m \in Machines /\ m.sub \in Subs(cfg.kind) /\ sync \in Syncs
  /\ cfg.kind # "mbc3" => sync.pending = 0
  /\ cfg.kind # "huc3" => sync.huc3 = 0
  /\ app = "on" => Kept(m, GivenOf(m, sync), wall)
  /\ app = "off" => m = BlankMachine(0) /\ sync = HostRtc

DiskInv == disk \in Disks /\ \A p \in {"ext", "int"} : FileKept(disk[p].main, wall)

AckInv == h.acked \in SavedStates \cup {NoFile} /\ LoadReturnsLastSave

\* The deadline lies within the debounce time of the first unsaved write.
SessionInv ==
  ses = NoSession \/ ( /\ ses \in Sessions
                       /\ ses.due # NoDeadline => ses.due <= wall + Debounce
                       /\ ses.since # NoDeadline => /\ ses.due # NoDeadline
                                                    /\ ses.due <= ses.since + Debounce )

\* The history is as long as the machine's life; the buffer lies on it.
TimelineInv ==
  /\ app = "on" => Len(h.past) = m.t
  /\ app = "off" => rew = EmptyRewind
  /\ BufferOn(rew, m.t, h.past, Subs(cfg.kind))

SlotInv ==
  slot = NoFile \/ (slot \in Slots(Subs(cfg.kind)) /\ Len(slot.past) = slot.t)

\* A machine whose save was replaced under it has no session to write with.
ImportInv == h.imported /\ app = "on" => ses = NoSession /\ ImportedSaveStands

DeskInv ==
  /\ BasicInv /\ MachInv /\ DiskInv /\ AckInv /\ SessionInv
  /\ TimelineInv /\ SlotInv /\ ImportInv

-----------------------------------------------------------------------------
(* The shapes of step.                                                       *)

LEMMA PersistentState ==
  ASSUME NEW x \in Machines
  PROVE  /\ Persistent(x) \in SavedStates
         /\ Persistent(x).v = x.v /\ Persistent(x).rtc = x.rtc
         /\ Persistent(x).z = x.z /\ Persistent(x).n = x.n
BY DEF Machines, Persistent, SavedStates

\* The clock's numbers.
LEMMA ClockNumbers ==
  ASSUME NEW x, x \in Machines \/ x \in SavedStates \/ x \in SaveFiles
  PROVE  /\ x.rtc \in Nat /\ x.z \in Int /\ x.n \in Nat
         /\ Ticks(x.rtc) \in Nat /\ Slack(x.n) \in Nat /\ TicksPerSecond - 1 \in Nat
         /\ TicksPerSecond \in Nat \ {0}
         /\ x \in Machines => x.sub \in 0..(TicksPerSecond - 1)
<1>1. /\ x.rtc \in Nat /\ x.z \in Int /\ x.n \in Nat
      /\ x \in Machines => x.sub \in 0..(TicksPerSecond - 1)
  BY DEF Machines, SavedStates, SaveFiles
<1> QED BY <1>1, TicksAdd, SlackAdd, DesktopAssumption

LEMMA RunningState ==
  ASSUME NEW x, NEW now \in Nat, Running(x, now)
  PROVE  Persistent(x) \in SavedStates /\ Held(Persistent(x), 0, now)
<1>1. x \in Machines
  BY DEF Running
<1>2. /\ x.z \in Int /\ Ticks(x.rtc) \in Nat /\ Slack(x.n) \in Nat /\ x.sub \in Nat
  BY <1>1, ClockNumbers
<1> QED BY <1>1, <1>2, PersistentState DEF Running, Held

\* What the host keeps of a second is all a running machine misses.
LEMMA KeptIsRunning ==
  ASSUME NEW x \in Machines, x.sub \in Subs(cfg.kind), NEW s \in Syncs, NEW now \in Nat,
         cfg.kind # "mbc3" => s.pending = 0, Kept(x, GivenOf(x, s), now)
  PROVE  Running(x, now)
<1>1. /\ x.z \in Int /\ Ticks(x.rtc) \in Nat /\ Slack(x.n) \in Nat /\ x.sub \in Nat
      /\ TicksPerSecond - 1 \in Nat
  BY ClockNumbers
<1>2. s.pending \in Nat /\ s.huc3 \in 0..(TicksPerSecond - 1)
  BY DEF Syncs
<1>3. cfg.kind = "huc3" => x.sub = 0 /\ s.pending = 0
  BY DEF Subs
<1> QED BY <1>1, <1>2, <1>3 DEF Running, Held, Kept, GivenOf

LEMMA MachineRuns ==
  ASSUME DeskInv, app = "on"
  PROVE  Running(m, wall)
BY KeptIsRunning DEF DeskInv, MachInv, BasicInv

\* A machine that goes on loses what the host kept of its second.
LEMMA CarriedIsReady ==
  ASSUME NEW x, NEW now \in Nat, Running(x, now)
  PROVE  Ready(Carried(x), now) /\ Carried(x).t = x.t
<1> DEFINE n == x.n + 1
           y == [x EXCEPT !.n = n]
<1>1. x \in Machines /\ x.sub \in Subs(cfg.kind) /\ Held(x, x.sub, now)
  BY DEF Running
<1>2. /\ x.z \in Int /\ Ticks(x.rtc) \in Nat /\ Slack(x.n) \in Nat /\ x.sub \in Nat
      /\ TicksPerSecond - 1 \in Nat /\ x.n \in Nat
  BY <1>1, ClockNumbers
<1>3. n \in Nat /\ Slack(n) = Slack(x.n) + (TicksPerSecond - 1)
  BY <1>2, SlackAdd
<1>4. Carried(x) = y
  BY DEF Carried
<1> HIDE DEF n
<1>5. y \in Machines /\ y.t = x.t /\ y.rtc = x.rtc /\ y.sub = x.sub /\ y.z = x.z /\ y.n = n
  BY <1>1, <1>3 DEF Machines
<1> HIDE DEF y
<1> QED BY <1>1, <1>2, <1>3, <1>4, <1>5 DEF Ready, Kept, Held

LEMMA BlankIsReady ==
  ASSUME NEW now \in Nat
  PROVE  Ready(BlankMachine(now), now) /\ BlankMachine(now).t = 0
<1>1. 0 \in 0..(TicksPerSecond - 1)
  BY DesktopAssumption
<1> DEFINE y == BlankMachine(now)
<1>2. /\ y \in Machines /\ y.t = 0 /\ y.rtc = 0 /\ y.sub = 0 /\ y.z = now /\ y.n = 0
  BY <1>1 DEF BlankMachine, Machines
<1>3. Ticks(0) = 0 /\ Slack(0) = 0
  BY DesktopAssumption, SlackAdd DEF Ticks
<1> HIDE DEF y
<1> QED BY <1>1, <1>2, <1>3 DEF Ready, Kept, Subs, y

LEMMA OutcomeKeepsFiles ==
  ASSUME NEW d \in Disks, NEW now \in Nat, \A p \in {"ext", "int"} : FileKept(d[p].main, now),
         NEW s \in SavedStates, Held(s, 0, now), NEW o, Outcome(o, d, s, now)
  PROVE  o.disk \in Disks /\ \A p \in {"ext", "int"} : FileKept(o.disk[p].main, now)
<1> DEFINE b == Stamped(s, now)
           u == unix_seconds(now)
<1>1. b.rtc = s.rtc /\ b.z = s.z /\ b.n = s.n /\ b.at = u
  BY StampedIsAFile
<1>2. /\ o.disk \in Disks
      /\ \A p \in {"ext", "int"} : o.disk[p].main \in {d[p].main, NoFile, b}
  BY DEF Outcome
<1>3. /\ u \in Nat /\ Ticks(u) \in Nat /\ Ticks(u) <= now
      /\ now <= Ticks(u) + (TicksPerSecond - 1)
  BY UnixSeconds
<1>4. s.z \in Int /\ Ticks(s.rtc) \in Nat /\ Slack(s.n) \in Nat /\ TicksPerSecond - 1 \in Nat
  BY ClockNumbers
<1> HIDE DEF b
<1>5. FileKept(b, now)
  <2>1. Ticks(s.rtc) <= (Ticks(u) - s.z) + (TicksPerSecond - 1) + Slack(s.n)
    <3> HIDE DEF u
    <3> QED BY <1>3, <1>4 DEF Held
  <2>2. cfg.kind = "huc3" =>
          Ticks(s.rtc) + (TicksPerSecond - 1) >= (Ticks(u) - s.z) - 2 * Slack(s.n)
    <3> HIDE DEF u
    <3> QED BY <1>3, <1>4 DEF Held
  <2> QED BY <1>1, <1>3, <2>1, <2>2 DEF FileKept
<1>6. FileKept(NoFile, now)
  BY DEF FileKept
<1> QED BY <1>2, <1>5, <1>6

\* A file keeps its clock while time passes.
LEMMA FilesKeepTime ==
  ASSUME NEW d \in Disks, NEW a \in Nat, NEW b \in Nat, a <= b,
         \A p \in {"ext", "int"} : FileKept(d[p].main, a)
  PROVE  \A p \in {"ext", "int"} : FileKept(d[p].main, b)
<1> SUFFICES ASSUME NEW p \in {"ext", "int"} PROVE FileKept(d[p].main, b)
  OBVIOUS
<1> DEFINE f == d[p].main
<1>1. f = NoFile \/ f \in SaveFiles
  <2>1. d[p] \in Places
    BY DEF Disks
  <2> QED BY <2>1 DEF Places
<1>2. f \in SaveFiles => f.at \in Nat
  BY DEF SaveFiles
<1>3. /\ unix_seconds(a) \in Nat /\ unix_seconds(b) \in Nat
      /\ unix_seconds(a) <= unix_seconds(b)
  BY UnixSeconds
<1>4. FileKept(f, a)
  OBVIOUS
<1> HIDE DEF f
<1>5. FileKept(f, b)
  BY <1>1, <1>2, <1>3, <1>4 DEF FileKept
<1> QED BY <1>5 DEF f

\* What the next session loads from the disk d, after the last completed
\* write of `acked`.
Loads(acked, holed, d) ==
  /\ acked \in SavedStates \cup {NoFile}
  /\ holed \/ IF acked = NoFile THEN Stored(d, cfg.kind) = NoFile
              ELSE /\ Stored(d, cfg.kind) \notin {NoFile, Torn}
                   /\ Same(StateOf(Stored(d, cfg.kind)), acked)

LEMMA WriteKeepsLoads ==
  ASSUME NEW d \in Disks, NEW s \in SavedStates, NEW now \in Nat,
         NEW o, Outcome(o, d, s, now), NEW acked, NEW holed \in BOOLEAN, Loads(acked, holed, d)
  PROVE  Loads(IF o.done THEN s ELSE acked, (holed \/ o.holed) /\ ~ o.done, o.disk)
<1> DEFINE b == Stamped(s, now)
<1>1. b \notin {NoFile, Torn} /\ b.v = s.v /\ b.rtc = s.rtc
  BY StampedIsAFile
<1>2. /\ o.done \in BOOLEAN /\ o.holed \in BOOLEAN
      /\ o.done => Stored(o.disk, cfg.kind) = b
      /\ ~ o.done => o.holed \/ o.disk = d
  BY DEF Outcome
<1> HIDE DEF b
<1>3. s # NoFile
  BY FileMarkers
<1>4. Same(StateOf(b), s)
  BY <1>1 DEF Same, StateOf
<1>5. CASE o.done
  BY <1>1, <1>2, <1>3, <1>4, <1>5 DEF Loads
<1>6. CASE ~ o.done
  BY <1>2, <1>6 DEF Loads
<1> QED BY <1>5, <1>6

\* A write keeps the files' clocks and what the next session loads.
LEMMA WriteStep ==
  ASSUME DeskInv, NEW s \in SavedStates, NEW now \in Nat, wall <= now, Held(s, 0, now),
         NEW o, Outcome(o, disk, s, now), disk' = o.disk, wall' = now, cfg' = cfg,
         h'.acked = IF o.done THEN s ELSE h.acked,
         h'.holed = ((h.holed \/ o.holed) /\ ~ o.done)
  PROVE  DiskInv' /\ AckInv'
<1>1. /\ disk \in Disks /\ wall \in Nat /\ h.holed \in BOOLEAN
      /\ \A p \in {"ext", "int"} : FileKept(disk[p].main, wall)
      /\ Loads(h.acked, h.holed, disk)
  BY DEF DeskInv, DiskInv, BasicInv, AckInv, LoadReturnsLastSave, Loads
<1>2. \A p \in {"ext", "int"} : FileKept(disk[p].main, now)
  BY <1>1, FilesKeepTime
<1>3. o.disk \in Disks /\ \A p \in {"ext", "int"} : FileKept(o.disk[p].main, now)
  BY <1>1, <1>2, OutcomeKeepsFiles
<1>4. DiskInv'
  BY <1>3 DEF DiskInv, FileKept
<1>5. Loads(h'.acked, h'.holed, disk')
  BY <1>1, WriteKeepsLoads
<1>6. AckInv'
  BY <1>5 DEF AckInv, LoadReturnsLastSave, Loads
<1> QED BY <1>4, <1>6

\* ... and when nothing is written, they are kept too.
LEMMA NoWriteStep ==
  ASSUME DeskInv, disk' = disk, cfg' = cfg, wall' \in Nat, wall <= wall',
         h'.acked = h.acked, h'.holed = h.holed
  PROVE  DiskInv' /\ AckInv'
<1>1. AckInv'
  BY DEF DeskInv, AckInv, LoadReturnsLastSave
<1>2. \A p \in {"ext", "int"} : FileKept(disk[p].main, wall')
  BY FilesKeepTime DEF DeskInv, DiskInv, BasicInv
<1>3. DiskInv'
  BY <1>2 DEF DeskInv, DiskInv, FileKept
<1> QED BY <1>1, <1>3

LEMMA SlotLater ==
  ASSUME DeskInv, slot' = slot, cfg' = cfg
  PROVE  SlotInv'
BY DEF DeskInv, SlotInv

\* The frontend stops.
LEMMA OffStep ==
  ASSUME DeskInv, Off, slot' = slot, cfg' = cfg, BasicInv', DiskInv', AckInv'
  PROVE  DeskInv'
<1>0. 0 \in Nat /\ 0 \in 0..(TicksPerSecond - 1)
  BY DesktopAssumption
<1>1. BlankMachine(0) \in Machines /\ BlankMachine(0).sub \in Subs(cfg.kind)
  BY <1>0, BlankIsReady DEF Ready
<1>2. HostRtc \in Syncs /\ HostRtc.pending = 0 /\ HostRtc.huc3 = 0
  BY <1>0 DEF HostRtc, Syncs
<1>3. MachInv'
  BY <1>1, <1>2 DEF Off, MachInv
<1>4. SessionInv' /\ ImportInv'
  BY DEF Off, SessionInv, ImportInv
<1>5. TimelineInv'
  BY EmptyOn DEF Off, TimelineInv
<1>6. SlotInv'
  BY SlotLater
<1> QED BY <1>3, <1>4, <1>5, <1>6 DEF DeskInv

\* A machine that entered, or was restored, is where its clock says.
LEMMA FreshMachine ==
  ASSUME cfg' = cfg, wall' \in Nat, app' = "on", sync' = HostRtc, Ready(m', wall')
  PROVE  MachInv'
<1>1. HostRtc \in Syncs /\ HostRtc.pending = 0 /\ HostRtc.huc3 = 0
  BY DesktopAssumption DEF HostRtc, Syncs
<1>2. m' \in Machines /\ m'.sub \in Subs(cfg.kind) /\ Kept(m', Ticks(m'.rtc) + m'.sub, wall')
  BY DEF Ready
<1>3. Ticks(m'.rtc) \in Nat /\ m'.sub \in Nat
  BY <1>2, ClockNumbers
<1>4. GivenOf(m', sync') = Ticks(m'.rtc) + m'.sub
  BY <1>1, <1>3 DEF GivenOf
<1>5. Kept(m', GivenOf(m', sync'), wall')
  BY <1>2, <1>4
<1>6. Kept(m, GivenOf(m, sync), wall)'
  BY <1>5 DEF Kept, GivenOf
<1> QED BY <1>1, <1>2, <1>6 DEF MachInv

\* The state a file gives, aged to the present.
LEMMA AgedFile ==
  ASSUME NEW now \in Nat, NEW f \in SaveFiles, FileKept(f, now), f # NoFile,
         NEW s \in SavedStates, s.z = f.z, s.n = f.n,
         HasClock(cfg.kind) => s.rtc = f.rtc + (unix_seconds(now) - f.at),
         ~ HasClock(cfg.kind) => s.rtc = f.rtc
  PROVE  /\ Ticks(s.rtc) <= (now - s.z) + Slack(s.n + 1)
         /\ cfg.kind = "huc3" => Ticks(s.rtc) >= (now - s.z) - 2 * Slack(s.n + 1)
<1> DEFINE u == unix_seconds(now)
           g == u - f.at
<1>1. /\ u \in Nat /\ Ticks(u) \in Nat /\ Ticks(u) <= now
      /\ now <= Ticks(u) + (TicksPerSecond - 1)
  BY UnixSeconds
<1>2. /\ f.rtc \in Nat /\ f.z \in Int /\ f.n \in Nat /\ Ticks(f.rtc) \in Nat
      /\ Slack(f.n) \in Nat /\ TicksPerSecond - 1 \in Nat
  BY ClockNumbers
<1>3. f.at \in Nat /\ f.at <= u
  BY DEF SaveFiles, FileKept
<1> HIDE DEF u
<1>4. g \in Nat /\ u = f.at + g
  BY <1>1, <1>3
<1> HIDE DEF g
<1>5. /\ Ticks(u) = Ticks(f.at) + Ticks(g) /\ Ticks(f.at) \in Nat /\ Ticks(g) \in Nat
      /\ Ticks(f.rtc + g) = Ticks(f.rtc) + Ticks(g)
  BY <1>2, <1>3, <1>4, TicksAdd
<1>6. Slack(f.n + 1) = Slack(f.n) + (TicksPerSecond - 1)
  BY <1>2, SlackAdd
<1>7. /\ Ticks(f.rtc) <= (Ticks(f.at) - f.z) + (TicksPerSecond - 1) + Slack(f.n)
      /\ cfg.kind = "huc3" =>
           Ticks(f.rtc) + (TicksPerSecond - 1) >= (Ticks(f.at) - f.z) - 2 * Slack(f.n)
  BY DEF FileKept
<1>8. CASE HasClock(cfg.kind)
  <2>1. s.rtc = f.rtc + g
    BY <1>8 DEF g, u
  <2>2. Ticks(s.rtc) = Ticks(f.rtc) + Ticks(g)
    BY <2>1, <1>5
  <2> QED BY <2>2, <1>1, <1>2, <1>5, <1>6, <1>7
<1>9. CASE ~ HasClock(cfg.kind)
  <2>1. s.rtc = f.rtc /\ cfg.kind # "huc3"
    BY <1>9 DEF HasClock
  <2> QED BY <2>1, <1>1, <1>2, <1>5, <1>6, <1>7
<1> QED BY <1>8, <1>9

\* What is loaded from a file shows the file's clock, aged to the present.
LEMMA OpenedMachine ==
  ASSUME NEW now \in Nat, NEW d \in Disks, \A p \in {"ext", "int"} : FileKept(d[p].main, now),
         NEW y, Ready(y, now)
  PROVE  LET x == Opened(d, y, now) IN Ready(x, now) /\ x.t = y.t
<1> DEFINE p == load_target(d, cfg.kind)
           f == d[p].main
           u == unix_seconds(now)
           l == load(d, cfg.kind, u)
           s == IF HasClock(cfg.kind) THEN advance_clock(l.state, Elapsed(l.at, u)) ELSE l.state
<1>1. p \in {"ext", "int"} /\ f = Stored(d, cfg.kind)
  BY DEF load_target, Stored
<1>2. CASE f = NoFile
  BY <1>1, <1>2 DEF Opened
<1>3. CASE f # NoFile
  <2>1. Opened(d, y, now) = [y EXCEPT !.v = s.v, !.rtc = s.rtc, !.sub = 0, !.z = s.z, !.n = s.n + 1]
    BY <1>1, <1>3 DEF Opened
  <2>2. f \in SaveFiles /\ FileKept(f, now)
    <3>1. d[p] \in Places
      BY <1>1 DEF Disks
    <3> QED BY <3>1, <1>1, <1>3 DEF Places
  <2>3. /\ f.v \in Nat /\ f.rtc \in Nat /\ f.z \in Int /\ f.n \in Nat /\ f.at \in Nat
        /\ u \in Nat /\ f.at <= u
    BY <1>3, <2>2, UnixSeconds DEF SaveFiles, FileKept
  <2>4. l = IF p = "int" THEN load_internal(f) ELSE load_external(f, cfg.kind, u)
    BY DEF load
  <2> HIDE DEF p, f, l, u
  <2>5. Elapsed(f.at, u) = u - f.at /\ u - f.at \in Nat /\ Elapsed(u, u) = 0
    BY <2>3 DEF Elapsed
  <2> DEFINE Aged == [StateOf(f) EXCEPT !.rtc = @ + (u - f.at)]
  <2>6. /\ StateOf(f) \in SavedStates
        /\ StateOf(f).z = f.z /\ StateOf(f).n = f.n /\ StateOf(f).rtc = f.rtc
    BY <2>3 DEF StateOf, SavedStates
  <2>7. /\ Aged \in SavedStates
        /\ Aged.z = f.z /\ Aged.n = f.n /\ Aged.rtc = f.rtc + (u - f.at)
    <3> DEFINE g == u - f.at
               r == f.rtc + g
    <3>1. r \in Nat
      BY <2>3, <2>5
    <3>2. Aged = [v |-> f.v, rtc |-> r, z |-> f.z, n |-> f.n]
      BY DEF StateOf
    <3> HIDE DEF r, Aged
    <3>3. Aged \in SavedStates /\ Aged.z = f.z /\ Aged.n = f.n /\ Aged.rtc = r
      BY <2>3, <3>1, <3>2 DEF SavedStates
    <3> QED BY <3>3 DEF r
  <2>8. [Aged EXCEPT !.rtc = @ + 0] = Aged
    <3> HIDE DEF Aged
    <3>1. Aged.rtc + 0 = Aged.rtc
      BY <2>7 DEF SavedStates
    <3> QED BY <2>7, <3>1 DEF SavedStates
  <2>9. s = IF HasClock(cfg.kind) THEN Aged ELSE StateOf(f)
    <3>1. CASE p = "int"
      <4>1. l.state = StateOf(f) /\ l.at = f.at
        BY <2>4, <3>1 DEF load_internal
      <4> QED BY <4>1, <2>5 DEF advance_clock
    <3>2. CASE p # "int" /\ HasClock(cfg.kind)
      <4>1. l.state = Aged /\ l.at = u
        BY <2>4, <2>5, <3>2 DEF load_external, advance_clock
      <4>2. s = [Aged EXCEPT !.rtc = @ + 0]
        BY <4>1, <2>5, <3>2 DEF advance_clock
      <4> QED BY <4>2, <2>8, <3>2
    <3>3. CASE p # "int" /\ ~ HasClock(cfg.kind)
      <4>1. l.state = StateOf(f)
        BY <2>4, <3>3 DEF load_external
      <4> QED BY <4>1, <3>3
    <3> QED BY <3>1, <3>2, <3>3
  <2> HIDE DEF s, Aged
  <2>10. /\ s \in SavedStates /\ s.z = f.z /\ s.n = f.n
         /\ HasClock(cfg.kind) => s.rtc = f.rtc + (u - f.at)
         /\ ~ HasClock(cfg.kind) => s.rtc = f.rtc
    BY <2>6, <2>7, <2>9
  <2>11. /\ Ticks(s.rtc) <= (now - s.z) + Slack(s.n + 1)
         /\ cfg.kind = "huc3" => Ticks(s.rtc) >= (now - s.z) - 2 * Slack(s.n + 1)
    BY <2>2, <1>3, <2>10, AgedFile DEF u
  <2>12. s.v \in Nat /\ s.rtc \in Nat /\ s.z \in Int /\ s.n \in Nat /\ s.n + 1 \in Nat
    BY <2>10 DEF SavedStates
  <2> DEFINE n == s.n + 1
             x == [y EXCEPT !.v = s.v, !.rtc = s.rtc, !.sub = 0, !.z = s.z, !.n = n]
  <2>13. y \in Machines /\ 0 \in 0..(TicksPerSecond - 1) /\ 0 \in Subs(cfg.kind)
    BY DesktopAssumption DEF Ready, Subs
  <2>14. n \in Nat
    BY <2>12
  <2>15. Opened(d, y, now) = x
    BY <2>1
  <2>16. /\ Ticks(s.rtc) <= (now - s.z) + Slack(n)
         /\ cfg.kind = "huc3" => Ticks(s.rtc) >= (now - s.z) - 2 * Slack(n)
    BY <2>11
  <2> HIDE DEF n
  <2>17. /\ x \in Machines /\ x.t = y.t
         /\ x.rtc = s.rtc /\ x.sub = 0 /\ x.z = s.z /\ x.n = n
    BY <2>12, <2>13, <2>14 DEF Machines
  <2> HIDE DEF x
  <2>18. Ticks(x.rtc) + x.sub = Ticks(s.rtc)
    <3>1. Ticks(s.rtc) \in Nat
      BY <2>12, TicksAdd
    <3> QED BY <2>17, <3>1
  <2> QED BY <2>13, <2>15, <2>16, <2>17, <2>18 DEF Ready, Kept
<1> QED BY <1>2, <1>3

LEMMA FreshSession ==
  ASSUME NEW x \in Machines
  PROVE  LET n == open_with_file_extension(x) IN
         /\ n \in Sessions /\ n.due = NoDeadline /\ n.since = NoDeadline
         /\ n.last = Persistent(x) /\ n.last.v = x.v
<1>1. Persistent(x) \in SavedStates /\ Persistent(x).v = x.v
  BY PersistentState
<1> DEFINE l == Persistent(x)
<1>2. open_with_file_extension(x) = [last |-> l, due |-> NoDeadline, since |-> NoDeadline]
  BY DEF open_with_file_extension
<1> HIDE DEF l
<1> QED BY <1>1, <1>2 DEF Sessions, l

\* A machine enters a session.
LEMMA EnterStep ==
  ASSUME DeskInv, NEW d \in Disks, \A p \in {"ext", "int"} : FileKept(d[p].main, wall),
         NEW y, Ready(y, wall),
         m' = Opened(d, y, wall), ses' = open_with_file_extension(m'), sync' = HostRtc,
         rew' = EmptyRewind, app' = "on", cfg' = cfg, wall' = wall, slot' = slot,
         Len(h'.past) = y.t, h'.imported = FALSE,
         BasicInv', DiskInv', AckInv'
  PROVE  DeskInv'
<1>0. wall \in Nat
  BY DEF DeskInv, BasicInv
<1>1. Ready(m', wall) /\ m'.t = y.t
  BY <1>0, OpenedMachine
<1>2. MachInv'
  BY <1>0, <1>1, FreshMachine
<1>3. SessionInv'
  <2>1. ses' \in Sessions /\ ses'.due = NoDeadline /\ ses'.since = NoDeadline
    BY <1>1, FreshSession DEF Ready
  <2> QED BY <2>1 DEF SessionInv
<1>4. TimelineInv'
  BY <1>1, EmptyOn DEF TimelineInv
<1>5. SlotInv'
  BY SlotLater
<1>6. ImportInv'
  BY DEF ImportInv
<1> QED BY <1>2, <1>3, <1>4, <1>5, <1>6 DEF DeskInv

\* A restored machine's clock counts from the time it shows.
LEMMA RestoredMachine ==
  ASSUME NEW t \in Nat, NEW s \in Marks(Subs(cfg.kind)), NEW now \in Nat,
         NEW x, x = [t |-> t, v |-> s.v, rtc |-> s.rtc, sub |-> s.sub,
                     z |-> now - (TicksPerSecond * s.rtc + s.sub), n |-> 0]
  PROVE  Ready(x, now) /\ x.t = t
<1> DEFINE given == Ticks(s.rtc) + s.sub
           z == now - given
<1>1. /\ s.v \in Nat /\ s.rtc \in Nat /\ s.sub \in Subs(cfg.kind)
      /\ s.sub \in 0..(TicksPerSecond - 1)
  BY DesktopAssumption DEF Marks, Subs
<1>2. given \in Nat
  <2>1. Ticks(s.rtc) \in Nat
    BY <1>1, TicksAdd
  <2>2. s.sub \in Nat
    BY <1>1
  <2> QED BY <2>1, <2>2
<1>3. x = [t |-> t, v |-> s.v, rtc |-> s.rtc, sub |-> s.sub, z |-> z, n |-> 0]
  BY DEF Ticks
<1> HIDE DEF given
<1>4. z \in Int /\ given = now - z
  BY <1>2
<1> HIDE DEF z
<1>5. /\ x \in Machines /\ x.t = t /\ x.rtc = s.rtc /\ x.sub = s.sub /\ x.z = z /\ x.n = 0
  BY <1>1, <1>3, <1>4 DEF Machines
<1>6. Slack(0) = 0
  BY SlackAdd
<1>7. Ticks(x.rtc) + x.sub = given
  BY <1>5 DEF given
<1>8. Kept(x, given, now)
  BY <1>2, <1>4, <1>5, <1>6 DEF Kept
<1> QED BY <1>1, <1>5, <1>7, <1>8 DEF Ready

\* A snapshot or a slot is restored.
LEMMA RestoreStep ==
  ASSUME DeskInv, app = "on", app' = "on", cfg' = cfg, slot' = slot, disk' = disk,
         NEW t \in Nat, NEW s \in Marks(Subs(cfg.kind)),
         wall' \in Nat,
         reset_host_state_after_machine_restore(t, s, wall'),
         Len(h'.past) = t, BufferOn(rew', t, h'.past, Subs(cfg.kind)),
         h'.imported = h.imported, BasicInv', DiskInv', AckInv'
  PROVE  DeskInv'
<1>1. /\ m' = [t |-> t, v |-> s.v, rtc |-> s.rtc, sub |-> s.sub,
                z |-> wall' - (TicksPerSecond * s.rtc + s.sub), n |-> 0]
      /\ ses' = reset_baseline_from_machine(m') /\ sync' = HostRtc
  BY DEF reset_host_state_after_machine_restore
<1>2. Ready(m', wall') /\ m'.t = t /\ m' \in Machines
  BY <1>1, RestoredMachine DEF Ready
<1>3. MachInv'
  BY <1>1, <1>2, FreshMachine
<1>4. ses = NoSession => ses' = NoSession
  BY <1>1 DEF reset_baseline_from_machine
<1>5. SessionInv'
  <2>1. CASE ses = NoSession
    BY <2>1, <1>4 DEF SessionInv
  <2>2. CASE ses # NoSession
    <3>1. ses' = open_with_file_extension(m')
      BY <2>2, <1>1 DEF reset_baseline_from_machine
    <3>2. ses' \in Sessions /\ ses'.due = NoDeadline /\ ses'.since = NoDeadline
      BY <3>1, <1>2, FreshSession
    <3> QED BY <3>2 DEF SessionInv
  <2> QED BY <2>1, <2>2
<1>6. TimelineInv'
  BY <1>2 DEF TimelineInv
<1>7. SlotInv'
  BY SlotLater
<1>8. ImportInv'
  BY <1>4 DEF DeskInv, ImportInv, ImportedSaveStands
<1> QED BY <1>3, <1>5, <1>6, <1>7, <1>8 DEF DeskInv

\* The machine after dt of host time, k of the pending ticks released.
Timed(dt, k) == advance_rtc_clock_ticks(apply_elapsed_to_machine(m, dt), k)

\* Every tick that was pending is released or still pending, and what does
\* not make a second is kept.
LEMMA TimedMachine ==
  ASSUME DeskInv, app = "on", NEW dt \in {0, 1}, NEW k \in 0..PendingAfter(dt)
  PROVE  LET x == Timed(dt, k)
             s == SyncAfter(dt, k)
         IN  /\ x \in Machines /\ x.sub \in Subs(cfg.kind) /\ s \in Syncs
             /\ x.t = m.t /\ x.v = m.v
             /\ cfg.kind # "mbc3" => s.pending = 0
             /\ cfg.kind # "huc3" => s.huc3 = 0
             /\ Kept(x, GivenOf(x, s), wall + dt)
<1> DEFINE hn == Huc3After(dt)
           pn == PendingAfter(dt)
           a == hn \div TicksPerSecond
           hr == hn % TicksPerSecond
           tk == m.sub + k
           b == tk \div TicksPerSecond
           sb == tk % TicksPerSecond
           x == [m EXCEPT !.rtc = (@ + a) + b, !.sub = sb]
           s == [pending |-> pn - k, huc3 |-> hr]
<1>1. /\ m \in Machines /\ m.sub \in Subs(cfg.kind) /\ sync \in Syncs /\ wall \in Nat
      /\ cfg.kind # "mbc3" => sync.pending = 0
      /\ cfg.kind # "huc3" => sync.huc3 = 0
      /\ Kept(m, GivenOf(m, sync), wall)
  BY DEF DeskInv, MachInv, BasicInv
<1>2. /\ sync.pending \in Nat /\ sync.huc3 \in 0..(TicksPerSecond - 1)
      /\ m.sub \in 0..(TicksPerSecond - 1) /\ m.rtc \in Nat /\ m.z \in Int
      /\ Ticks(m.rtc) \in Nat /\ Slack(m.n) \in Nat /\ TicksPerSecond \in Nat \ {0}
  BY <1>1, ClockNumbers DEF Syncs
<1>3. /\ hn = (IF cfg.kind = "huc3" THEN sync.huc3 + dt ELSE 0) /\ hn \in Nat
      /\ pn = (IF cfg.kind = "mbc3" THEN sync.pending + dt ELSE 0) /\ pn \in Nat
      /\ k \in 0..pn
  BY <1>2 DEF Huc3After, PendingAfter
<1>4. Timed(dt, k) = x
  <2>1. apply_elapsed_to_machine(m, dt) = [m EXCEPT !.rtc = @ + a]
    BY DEF apply_elapsed_to_machine
  <2> DEFINE y == [m EXCEPT !.rtc = @ + a]
  <2>2. y.rtc = m.rtc + a /\ y.sub = m.sub /\ DOMAIN y = DOMAIN m
    BY <1>1 DEF Machines
  <2>3. Timed(dt, k) = [y EXCEPT !.rtc = @ + (y.sub + k) \div TicksPerSecond,
                                 !.sub = (@ + k) % TicksPerSecond]
    BY <2>1 DEF Timed, advance_rtc_clock_ticks
  <2> HIDE DEF a
  <2>4. [y EXCEPT !.rtc = (m.rtc + a) + b, !.sub = sb] = x
    <3> HIDE DEF b, sb
    <3> QED BY <1>1 DEF Machines
  <2>5. Timed(dt, k) = [y EXCEPT !.rtc = (m.rtc + a) + b, !.sub = sb]
    BY <2>2, <2>3, <1>1 DEF Machines
  <2> QED BY <2>4, <2>5
<1>5. SyncAfter(dt, k) = s
  BY DEF SyncAfter
<1> HIDE DEF hn, pn
<1>6. /\ a \in Nat /\ hr \in 0..(TicksPerSecond - 1) /\ Ticks(a) + hr = hn
      /\ hn = 0 => a = 0 /\ hr = 0
  BY <1>3, Seconds
<1>7. tk \in Nat
  BY <1>2, <1>3
<1> HIDE DEF tk
<1>8. /\ b \in Nat /\ sb \in 0..(TicksPerSecond - 1) /\ Ticks(b) + sb = tk
      /\ tk = 0 => b = 0 /\ sb = 0
  BY <1>7, Seconds
<1> HIDE DEF a, hr, b, sb
<1>9. /\ m.rtc + a \in Nat /\ (m.rtc + a) + b \in Nat
      /\ Ticks((m.rtc + a) + b) = Ticks(m.rtc) + Ticks(a) + Ticks(b)
      /\ Ticks(a) \in Nat /\ Ticks(b) \in Nat
  <2>1. m.rtc + a \in Nat /\ (m.rtc + a) + b \in Nat
    BY <1>2, <1>6, <1>8
  <2> QED BY <2>1, <1>2, <1>6, <1>8, TicksAdd
<1>10. cfg.kind # "mbc3" => k = 0 /\ m.sub = 0 /\ sb = 0
  BY <1>1, <1>3, <1>8 DEF Subs, tk
<1>11. sb \in Subs(cfg.kind)
  BY <1>8, <1>10 DEF Subs
<1>12. /\ x \in Machines /\ x.t = m.t /\ x.v = m.v /\ x.sub = sb
       /\ x.rtc = (m.rtc + a) + b /\ x.z = m.z /\ x.n = m.n
  <2> DEFINE r == (m.rtc + a) + b
  <2>1. r \in Nat
    BY <1>9
  <2>2. x = [m EXCEPT !.rtc = r, !.sub = sb]
    BY <1>1 DEF Machines
  <2> HIDE DEF r, x
  <2>3. x \in Machines /\ x.t = m.t /\ x.v = m.v /\ x.sub = sb /\ x.rtc = r /\ x.z = m.z /\ x.n = m.n
    BY <1>1, <1>8, <2>1, <2>2 DEF Machines
  <2> QED BY <2>3 DEF r
<1>13. /\ s.pending = pn - k /\ s.huc3 = hr /\ pn - k \in Nat /\ s \in Syncs
  BY <1>3, <1>6 DEF Syncs
<1> HIDE DEF x, s
<1>14. GivenOf(m, sync) = Ticks(m.rtc) + m.sub + sync.pending + sync.huc3
  BY DEF GivenOf
<1>15. GivenOf(x, s) = (Ticks(m.rtc) + Ticks(a) + Ticks(b)) + sb + (pn - k) + hr
  BY <1>9, <1>12, <1>13 DEF GivenOf
<1>16. GivenOf(x, s) = Ticks(m.rtc) + (m.sub + k) + (pn - k) + hn
  BY <1>2, <1>3, <1>6, <1>8, <1>9, <1>15 DEF tk
<1>17. /\ GivenOf(x, s) <= GivenOf(m, sync) + dt
       /\ cfg.kind = "huc3" => GivenOf(x, s) = GivenOf(m, sync) + dt
  <2>1. CASE cfg.kind = "mbc3"
    BY <2>1, <1>1, <1>2, <1>3, <1>14, <1>16
  <2>2. CASE cfg.kind = "huc3"
    BY <2>2, <1>1, <1>2, <1>3, <1>14, <1>16
  <2>3. CASE cfg.kind \notin {"mbc3", "huc3"}
    BY <2>3, <1>1, <1>2, <1>3, <1>14, <1>16
  <2> QED BY <2>1, <2>2, <2>3
<1>18. GivenOf(m, sync) \in Nat /\ GivenOf(x, s) \in Nat
  BY <1>2, <1>3, <1>14, <1>16
<1>19. Kept(x, GivenOf(x, s), wall + dt)
  <2> DEFINE g == GivenOf(m, sync)
             f == GivenOf(x, s)
  <2>1. /\ g <= (wall - m.z) + Slack(m.n)
        /\ cfg.kind = "huc3" => g >= (wall - m.z) - 2 * Slack(m.n)
    BY <1>1 DEF Kept
  <2>2. f \in Nat /\ g \in Nat /\ f <= g + dt /\ (cfg.kind = "huc3" => f = g + dt)
    BY <1>17, <1>18
  <2> HIDE DEF f, g
  <2>3. /\ f <= ((wall + dt) - m.z) + Slack(m.n)
        /\ cfg.kind = "huc3" => f >= ((wall + dt) - m.z) - 2 * Slack(m.n)
    BY <1>1, <1>2, <2>1, <2>2
  <2> QED BY <1>12, <2>3 DEF Kept, f
<1>20. /\ cfg.kind # "mbc3" => s.pending = 0
       /\ cfg.kind # "huc3" => s.huc3 = 0
  BY <1>3, <1>6, <1>13
<1> QED BY <1>4, <1>5, <1>11, <1>12, <1>13, <1>19, <1>20

\* The machine with its pending ticks released.
LEMMA AppliedMachine ==
  ASSUME DeskInv, app = "on", NEW dt \in {0, 1}
  PROVE  LET x == apply_to_machine(dt) IN
         x \in Machines /\ x.t = m.t /\ x.v = m.v /\ Running(x, wall + dt)
<1> DEFINE k == PendingAfter(dt)
           x == Timed(dt, k)
           s == SyncAfter(dt, k)
<1>1. k \in 0..PendingAfter(dt) /\ wall + dt \in Nat
  BY DEF PendingAfter, DeskInv, MachInv, Syncs, BasicInv
<1>2. /\ x \in Machines /\ x.sub \in Subs(cfg.kind) /\ s \in Syncs
      /\ x.t = m.t /\ x.v = m.v
      /\ cfg.kind # "mbc3" => s.pending = 0
      /\ Kept(x, GivenOf(x, s), wall + dt)
  BY <1>1, TimedMachine
<1>3. apply_to_machine(dt) = x
  BY DEF apply_to_machine, Timed
<1> HIDE DEF x, s, k
<1> QED BY <1>1, <1>2, <1>3, KeptIsRunning

\* A reset drops what the cartridge kept of a second.
LEMMA PoweredOn ==
  ASSUME NEW x, NEW now \in Nat, Running(x, now)
  PROVE  LET y == PowerOn(Persistent(x)) IN Running(y, now) /\ y.t = 0
<1> DEFINE y == PowerOn(Persistent(x))
<1>1. y = [t |-> 0, v |-> x.v, rtc |-> x.rtc, sub |-> 0, z |-> x.z, n |-> x.n]
  BY DEF PowerOn, Persistent
<1>2. 0 \in 0..(TicksPerSecond - 1)
  BY DesktopAssumption
<1>3. x \in Machines /\ Held(x, x.sub, now)
  BY DEF Running
<1>4. /\ y \in Machines /\ y.t = 0 /\ y.rtc = x.rtc /\ y.sub = 0 /\ y.z = x.z /\ y.n = x.n
  BY <1>1, <1>2, <1>3 DEF Machines
<1> HIDE DEF y
<1>5. /\ x.z \in Int /\ Ticks(x.rtc) \in Nat /\ Slack(x.n) \in Nat /\ x.sub \in Nat
  BY <1>3, ClockNumbers
<1>6. Held(y, y.sub, now)
  BY <1>3, <1>4, <1>5 DEF Held
<1> QED BY <1>2, <1>4, <1>6 DEF Running, Subs, y

LEMMA InitInv == Init => DeskInv
<1> SUFFICES ASSUME Init PROVE DeskInv
  OBVIOUS
<1>1. BasicInv
  BY DesktopAssumption DEF Init, BasicInv, HistoryFields
<1>2. MachInv /\ SessionInv /\ SlotInv
  <2>1. 0 \in Nat /\ 0 \in 0..(TicksPerSecond - 1)
    BY DesktopAssumption
  <2>2. BlankMachine(0) \in Machines /\ BlankMachine(0).sub \in Subs(cfg.kind)
    BY <2>1, BlankIsReady DEF Ready
  <2>3. HostRtc \in Syncs /\ HostRtc.pending = 0 /\ HostRtc.huc3 = 0
    BY <2>1 DEF HostRtc, Syncs
  <2> QED BY <2>2, <2>3 DEF Init, MachInv, SessionInv, SlotInv
<1>3. DiskInv
  <2>1. NoFiles \in Places /\ NoFiles.main = NoFile
    BY DEF NoFiles, Places
  <2>2. disk = [ext |-> NoFiles, int |-> NoFiles]
    BY DEF Init
  <2>3. disk \in Disks /\ disk.ext = NoFiles /\ disk.int = NoFiles
    BY <2>1, <2>2 DEF Disks
  <2> QED BY <2>1, <2>3 DEF DiskInv, FileKept
<1>4. AckInv
  <2>1. h.acked = NoFile
    BY DEF Init
  <2>2. disk.ext.main = NoFile /\ disk.int.main = NoFile
    BY DEF Init, NoFiles
  <2>3. Stored(disk, cfg.kind) = NoFile
    BY <2>2 DEF Stored, load_target
  <2> QED BY <2>1, <2>3 DEF AckInv, LoadReturnsLastSave
<1>5. TimelineInv
  BY EmptyOn DEF Init, TimelineInv
<1>6. ImportInv
  BY DEF Init, ImportInv
<1> QED BY <1>1, <1>2, <1>3, <1>4, <1>5, <1>6 DEF DeskInv

-----------------------------------------------------------------------------
(* One lemma per action.                                                     *)

LEMMA TimelineFields ==
  ASSUME DeskInv, NEW o, NEW s, NEW past \in Seq(Nat), NEW opened \in BOOLEAN,
         o.done \in BOOLEAN, o.holed \in BOOLEAN, o.alive \in BOOLEAN,
         Timeline(o, s, past, opened)
  PROVE  /\ HistoryFields \subseteq DOMAIN h'
         /\ h'.past = past /\ h'.writes = h.writes /\ h'.writes \in Nat
         /\ h'.acked = IF o.done THEN s ELSE h.acked
         /\ h'.holed = ((h.holed \/ o.holed) /\ ~ o.done)
         /\ h'.imported = (h.imported /\ ~ opened)
         /\ h'.holed \in BOOLEAN /\ h'.imported \in BOOLEAN
<1>1. HistoryFields \subseteq DOMAIN h /\ h.writes \in Nat
  BY DEF DeskInv, BasicInv
<1>2. h' = [h EXCEPT !.acked = IF o.done THEN s ELSE @,
                     !.holed = (@ \/ o.holed) /\ ~ o.done,
                     !.faults = IF o.alive THEN @ ELSE @ + 1,
                     !.imported = @ /\ ~ opened, !.ops = @ + 1,
                     !.past = past]
  BY DEF Timeline
<1>3. /\ DOMAIN h' = DOMAIN h
      /\ h'.past = past /\ h'.writes = h.writes
      /\ h'.acked = IF o.done THEN s ELSE h.acked
      /\ h'.holed = ((h.holed \/ o.holed) /\ ~ o.done)
      /\ h'.imported = (h.imported /\ ~ opened)
  BY <1>1, <1>2 DEF HistoryFields
<1> QED BY <1>1, <1>3

LEMMA StartKeepsInv ==
  ASSUME DeskInv, Start
  PROVE  DeskInv'
<1> DEFINE y == BlankMachine(wall)
<1>1. /\ app = "off" /\ app' = "on" /\ m' = Opened(disk, y, wall)
      /\ ses' = open_with_file_extension(m')
      /\ h' = [h EXCEPT !.past = <<>>, !.imported = FALSE, !.quit = FALSE]
      /\ UNCHANGED << cfg, wall, disk, sync, rew, slot >>
  BY DEF Start
<1>2. Ready(y, wall) /\ y.t = 0
  BY BlankIsReady DEF DeskInv, BasicInv
<1>3. /\ HistoryFields \subseteq DOMAIN h' /\ h'.past = <<>> /\ h'.imported = FALSE
      /\ h'.writes = h.writes /\ h'.acked = h.acked /\ h'.holed = h.holed
  BY <1>1 DEF DeskInv, BasicInv, HistoryFields
<1>4. BasicInv'
  BY <1>1, <1>3 DEF DeskInv, BasicInv
<1>5. DiskInv' /\ AckInv'
  BY <1>1, <1>3, NoWriteStep DEF DeskInv, BasicInv
<1>6. sync' = HostRtc /\ rew' = EmptyRewind
  BY <1>1 DEF DeskInv, MachInv, TimelineInv
<1>7. Len(h'.past) = y.t
  BY <1>2, <1>3
<1>8. disk \in Disks /\ \A p \in {"ext", "int"} : FileKept(disk[p].main, wall)
  BY DEF DeskInv, DiskInv
<1> HIDE DEF y
<1> QED BY <1>1, <1>2, <1>3, <1>4, <1>5, <1>6, <1>7, <1>8, EnterStep

LEMMA OffTickKeepsInv ==
  ASSUME DeskInv, OffTick
  PROVE  DeskInv'
<1>1. /\ app = "off" /\ wall' = wall + 1
      /\ UNCHANGED << cfg, disk, app, linked, m, sync, ses, rew, slot, h >>
  BY DEF OffTick
<1>2. wall \in Nat /\ wall' \in Nat /\ wall <= wall'
  BY <1>1 DEF DeskInv, BasicInv
<1>3. BasicInv' /\ MachInv' /\ ImportInv'
  BY <1>1, <1>2 DEF DeskInv, BasicInv, MachInv, ImportInv
<1>4. DiskInv' /\ AckInv'
  BY <1>1, <1>2, NoWriteStep
<1>5. SessionInv'
  <2>1. ses \in Sessions => (ses.due # NoDeadline => ses.due \in Nat)
    BY DEF Sessions
  <2> QED BY <2>1, <1>1, <1>2, DesktopAssumption DEF DeskInv, SessionInv
<1>6. TimelineInv'
  BY <1>1 DEF DeskInv, TimelineInv
<1>7. SlotInv'
  BY <1>1, SlotLater
<1> QED BY <1>3, <1>4, <1>5, <1>6, <1>7 DEF DeskInv

LEMMA CrashKeepsInv ==
  ASSUME DeskInv, Crash
  PROVE  DeskInv'
<1>1. /\ Off /\ UNCHANGED << cfg, wall, disk, slot >>
      /\ h' = [h EXCEPT !.faults = @ + 1, !.past = <<>>]
  BY DEF Crash
<1>2. /\ HistoryFields \subseteq DOMAIN h' /\ h'.past = <<>> /\ h'.imported = h.imported
      /\ h'.writes = h.writes /\ h'.acked = h.acked /\ h'.holed = h.holed
  BY <1>1 DEF DeskInv, BasicInv, HistoryFields
<1>3. BasicInv'
  BY <1>1, <1>2 DEF DeskInv, BasicInv, Off
<1>4. wall \in Nat
  BY DEF DeskInv, BasicInv
<1>5. DiskInv' /\ AckInv'
  BY <1>1, <1>2, <1>4, NoWriteStep
<1> QED BY <1>1, <1>3, <1>4, <1>5, OffStep

\* An operation that closes the session with the state of x and stops.
LEMMA ClosedAndOff ==
  ASSUME DeskInv, Off, UNCHANGED << cfg, wall, slot >>,
         NEW x, Running(x, wall),
         NEW o, Outcome(o, disk, Persistent(x), wall), disk' = o.disk,
         NEW opened \in BOOLEAN, Timeline(o, Persistent(x), <<>>, opened)
  PROVE  DeskInv'
<1>1. o.done \in BOOLEAN /\ o.holed \in BOOLEAN /\ o.alive \in BOOLEAN
  BY DEF Outcome
<1>2. wall \in Nat /\ <<>> \in Seq(Nat)
  BY DEF DeskInv, BasicInv
<1>3. Persistent(x) \in SavedStates /\ Held(Persistent(x), 0, wall)
  BY <1>2, RunningState
<1>4. /\ HistoryFields \subseteq DOMAIN h'
      /\ h'.past = <<>> /\ h'.writes = h.writes /\ h'.writes \in Nat
      /\ h'.acked = IF o.done THEN Persistent(x) ELSE h.acked
      /\ h'.holed = ((h.holed \/ o.holed) /\ ~ o.done)
      /\ h'.holed \in BOOLEAN /\ h'.imported \in BOOLEAN
  BY <1>1, <1>2, TimelineFields
<1>5. BasicInv'
  BY <1>2, <1>4 DEF DeskInv, BasicInv, Off
<1>6. DiskInv' /\ AckInv'
  BY <1>2, <1>3, <1>4, WriteStep
<1> QED BY <1>5, <1>6, OffStep

\* ... and enters the session of the machine y, read from the disk d.
LEMMA ClosedAndEntered ==
  ASSUME DeskInv, UNCHANGED << cfg, wall, slot >>,
         NEW x, Running(x, wall),
         NEW o, Outcome(o, disk, Persistent(x), wall), disk' = o.disk,
         NEW past \in Seq(Nat), Timeline(o, Persistent(x), past, TRUE),
         NEW y, Ready(y, wall), Len(past) = y.t,
         NEW d \in {disk, o.disk}, NEW nowLinked, Enter(y, d, nowLinked)
  PROVE  DeskInv'
<1>1. o.done \in BOOLEAN /\ o.holed \in BOOLEAN /\ o.alive \in BOOLEAN
  BY DEF Outcome
<1>2. wall \in Nat
  BY DEF DeskInv, BasicInv
<1>3. Persistent(x) \in SavedStates /\ Held(Persistent(x), 0, wall)
  BY <1>2, RunningState
<1>4. /\ HistoryFields \subseteq DOMAIN h'
      /\ h'.past = past /\ h'.writes = h.writes /\ h'.writes \in Nat
      /\ h'.acked = IF o.done THEN Persistent(x) ELSE h.acked
      /\ h'.holed = ((h.holed \/ o.holed) /\ ~ o.done)
      /\ h'.imported = FALSE
      /\ h'.holed \in BOOLEAN /\ h'.imported \in BOOLEAN
  BY <1>1, TimelineFields
<1>5. /\ m' = Opened(d, y, wall) /\ ses' = open_with_file_extension(m') /\ sync' = HostRtc
      /\ rew' = EmptyRewind /\ app' = "on"
  BY DEF Enter
<1>6. BasicInv'
  BY <1>2, <1>4, <1>5 DEF DeskInv, BasicInv
<1>7. DiskInv' /\ AckInv'
  BY <1>2, <1>3, <1>4, WriteStep
<1>8. d \in Disks /\ \A p \in {"ext", "int"} : FileKept(d[p].main, wall)
  <2>1. CASE d = disk
    BY <2>1 DEF DeskInv, DiskInv
  <2>2. CASE d = disk'
    BY <2>2, <1>7 DEF DiskInv, FileKept
  <2> QED BY <2>1, <2>2
<1> QED BY <1>4, <1>5, <1>6, <1>7, <1>8, EnterStep

LEMMA CloseThenOpenKeepsInv ==
  ASSUME DeskInv, NEW y, Running(y, wall), NEW past \in Seq(Nat), Len(past) = y.t,
         NEW nowLinked, CloseThenOpen(y, past, nowLinked)
  PROVE  DeskInv'
<1>1. PICK o \in close(disk, y, wall) :
        LET opens == o.alive /\ load_readable(o.disk, cfg.kind, y)
        IN  /\ disk' = o.disk
            /\ Timeline(o, Persistent(y), IF opens THEN past ELSE <<>>, opens)
            /\ \/ opens /\ Enter(Carried(y), o.disk, nowLinked)
               \/ ~ opens /\ Off
            /\ UNCHANGED << cfg, wall, slot >>
  BY DEF CloseThenOpen
<1> DEFINE opens == o.alive /\ load_readable(o.disk, cfg.kind, y)
<1>2. disk \in Disks /\ wall \in Nat
  BY DEF DeskInv, DiskInv, BasicInv
<1>3. Outcome(o, disk, Persistent(y), wall)
  <2>1. Persistent(y) \in SavedStates
    BY <1>2, RunningState
  <2> QED BY <2>1, <1>2, FlushOutcome
<1>4. CASE opens
  <2>1. /\ disk' = o.disk /\ Timeline(o, Persistent(y), past, TRUE)
        /\ Enter(Carried(y), o.disk, nowLinked) /\ UNCHANGED << cfg, wall, slot >>
    <3>1. opens = TRUE
      BY <1>4 DEF load_readable
    <3> QED BY <1>1, <1>4, <3>1
  <2>2. Ready(Carried(y), wall) /\ Len(past) = Carried(y).t
    BY <1>2, CarriedIsReady
  <2> QED BY <2>1, <2>2, <1>3, ClosedAndEntered
<1>5. CASE ~ opens
  <2>1. opens = FALSE
    <3>1. o.alive \in BOOLEAN
      BY <1>3 DEF Outcome
    <3> QED BY <3>1, <1>5 DEF load_readable
  <2>2. /\ disk' = o.disk /\ Timeline(o, Persistent(y), <<>>, FALSE)
        /\ Off /\ UNCHANGED << cfg, wall, slot >>
    BY <1>1, <1>5, <2>1
  <2>3. FALSE \in BOOLEAN
    OBVIOUS
  <2> QED BY <2>2, <2>3, <1>3, ClosedAndOff
<1> QED BY <1>4, <1>5

LEMMA OpenThenCloseKeepsInv ==
  ASSUME DeskInv, app = "on", NEW y, Ready(y, wall), y.t = 0,
         NEW nowLinked, OpenThenClose(y, nowLinked)
  PROVE  DeskInv'
<1> DEFINE old == apply_to_machine(0)
<1>0. wall \in Nat /\ disk \in Disks /\ 0 \in {0, 1} /\ wall + 0 = wall
  BY DEF DeskInv, BasicInv, DiskInv
<1>1. Running(old, wall)
  BY <1>0, AppliedMachine
<1>2. PICK o \in close(disk, old, wall) :
        /\ disk' = o.disk
        /\ Timeline(o, Persistent(old), <<>>, o.alive)
        /\ \/ o.alive /\ Enter(y, disk, nowLinked)
           \/ ~ o.alive /\ Off
        /\ UNCHANGED << cfg, wall, slot >>
  BY DEF OpenThenClose
<1> HIDE DEF old
<1>3. Persistent(old) \in SavedStates
  BY <1>0, <1>1, RunningState
<1>4. Outcome(o, disk, Persistent(old), wall)
  BY <1>0, <1>3, FlushOutcome
<1>5. o.alive \in BOOLEAN
  BY <1>4 DEF Outcome
<1>6. CASE o.alive
  <2>1. o.alive = TRUE
    BY <1>5, <1>6
  <2>2. Timeline(o, Persistent(old), <<>>, TRUE) /\ Enter(y, disk, nowLinked)
    BY <1>2, <2>1
  <2>3. <<>> \in Seq(Nat) /\ Len(<<>>) = y.t
    OBVIOUS
  <2> QED BY <1>1, <1>2, <1>4, <2>2, <2>3, ClosedAndEntered
<1>7. CASE ~ o.alive
  BY <1>1, <1>2, <1>4, <1>5, <1>7, ClosedAndOff
<1> QED BY <1>6, <1>7

LEMMA OpensKeepInv ==
  ASSUME DeskInv, \/ reset_machine \/ activate_infrared_accessory \/ detach_linked_session
                  \/ open_selected_rom \/ activate_game_link
  PROVE  DeskInv'
<1> DEFINE a == apply_to_machine(0)
           y == PowerOn(Persistent(a))
<1>1. app = "on"
  BY DEF reset_machine, activate_infrared_accessory, detach_linked_session,
         open_selected_rom, activate_game_link, Operates
<1>2. wall \in Nat /\ 0 \in {0, 1} /\ wall + 0 = wall
  BY DEF DeskInv, BasicInv
<1>3. a.t = m.t /\ Running(a, wall)
  BY <1>1, <1>2, AppliedMachine
<1>4. y.t = 0 /\ Running(y, wall)
  <2> HIDE DEF a
  <2> QED BY <1>2, <1>3, PoweredOn
<1>5. Running(m, wall) /\ h.past \in Seq(Nat) /\ Len(h.past) = m.t
  BY <1>1, MachineRuns DEF DeskInv, BasicInv, TimelineInv
<1>6. <<>> \in Seq(Nat) /\ Len(<<>>) = 0
  OBVIOUS
<1>7. CASE reset_machine
  <2>1. CloseThenOpen(y, <<>>, linked)
    BY <1>7 DEF reset_machine
  <2> HIDE DEF y
  <2> QED BY <2>1, <1>4, <1>6, CloseThenOpenKeepsInv
<1>8. CASE activate_infrared_accessory
  <2>1. CloseThenOpen(a, h.past, TRUE)
    BY <1>8 DEF activate_infrared_accessory
  <2> HIDE DEF a
  <2> QED BY <2>1, <1>3, <1>5, CloseThenOpenKeepsInv
<1>9. CASE detach_linked_session
  <2>1. CloseThenOpen(m, h.past, FALSE)
    BY <1>9 DEF detach_linked_session
  <2> QED BY <2>1, <1>5, CloseThenOpenKeepsInv
<1>10. CASE open_selected_rom
  <2>1. OpenThenClose(BlankMachine(wall), FALSE)
    BY <1>10 DEF open_selected_rom
  <2>2. Ready(BlankMachine(wall), wall) /\ BlankMachine(wall).t = 0
    BY <1>2, BlankIsReady
  <2> QED BY <2>1, <2>2, <1>1, OpenThenCloseKeepsInv
<1>11. CASE activate_game_link
  <2>1. OpenThenClose(Carried(y), TRUE)
    BY <1>11 DEF activate_game_link
  <2> HIDE DEF y
  <2>2. Ready(Carried(y), wall) /\ Carried(y).t = 0
    BY <1>2, <1>4, CarriedIsReady
  <2> QED BY <2>1, <2>2, <1>1, OpenThenCloseKeepsInv
<1> QED BY <1>7, <1>8, <1>9, <1>10, <1>11

LEMMA PortKeepsInv ==
  ASSUME DeskInv, set_external_port \/ set_external_port_fails
  PROVE  DeskInv'
<1>0. wall \in Nat
  BY DEF DeskInv, BasicInv
<1>1. CASE set_external_port
  <2>1. /\ app = "on" /\ UNCHANGED << cfg, wall, disk, slot >> /\ Enter(Carried(m), disk, FALSE)
        /\ h' = [h EXCEPT !.imported = FALSE, !.ops = @ + 1]
    BY <1>1 DEF set_external_port, Operates
  <2>2. /\ HistoryFields \subseteq DOMAIN h' /\ h'.past = h.past /\ h'.imported = FALSE
        /\ h'.writes = h.writes /\ h'.acked = h.acked /\ h'.holed = h.holed
    BY <2>1 DEF DeskInv, BasicInv, HistoryFields
  <2>3. BasicInv'
    BY <2>1, <2>2 DEF DeskInv, BasicInv, Enter
  <2>4. DiskInv' /\ AckInv'
    BY <1>0, <2>1, <2>2, NoWriteStep
  <2>5. Ready(Carried(m), wall) /\ Len(h'.past) = Carried(m).t
    BY <1>0, <2>1, <2>2, MachineRuns, CarriedIsReady DEF DeskInv, TimelineInv
  <2>6. disk \in Disks /\ \A p \in {"ext", "int"} : FileKept(disk[p].main, wall)
    BY DEF DeskInv, DiskInv
  <2> QED BY <2>1, <2>2, <2>3, <2>4, <2>5, <2>6, EnterStep DEF Enter
<1>2. CASE set_external_port_fails
  <2>1. Off /\ UNCHANGED << cfg, wall, disk, slot >> /\ h' = [h EXCEPT !.past = <<>>]
    BY <1>2 DEF set_external_port_fails
  <2>2. /\ HistoryFields \subseteq DOMAIN h' /\ h'.past = <<>> /\ h'.imported = h.imported
        /\ h'.writes = h.writes /\ h'.acked = h.acked /\ h'.holed = h.holed
    BY <2>1 DEF DeskInv, BasicInv, HistoryFields
  <2>3. BasicInv'
    BY <2>1, <2>2 DEF DeskInv, BasicInv, Off
  <2>4. DiskInv' /\ AckInv'
    BY <1>0, <2>1, <2>2, NoWriteStep
  <2> QED BY <2>1, <2>3, <2>4, OffStep
<1> QED BY <1>1, <1>2

LEMMA QuitKeepsInv ==
  ASSUME DeskInv, Quit
  PROVE  DeskInv'
<1>1. app = "on" /\ Off /\ UNCHANGED << cfg, wall, slot >>
  BY DEF Quit, Operates
<1>2. PICK o \in close(disk, m, wall) :
        /\ disk' = o.disk
        /\ h' = [h EXCEPT !.acked = IF o.done THEN Persistent(m) ELSE @,
                          !.holed = (@ \/ o.holed) /\ ~ o.done,
                          !.faults = IF o.alive THEN @ ELSE @ + 1,
                          !.quit = o.alive, !.past = <<>>,
                          !.ops = @ + 1]
  BY DEF Quit
<1>3. /\ Running(m, wall) /\ disk \in Disks /\ wall \in Nat
      /\ HistoryFields \subseteq DOMAIN h /\ h.writes \in Nat /\ h.imported \in BOOLEAN
  BY <1>1, MachineRuns DEF DeskInv, DiskInv, BasicInv
<1>4. Persistent(m) \in SavedStates /\ Held(Persistent(m), 0, wall)
  BY <1>3, RunningState
<1>5. Outcome(o, disk, Persistent(m), wall)
  BY <1>3, <1>4, FlushOutcome
<1>6. o.done \in BOOLEAN /\ o.holed \in BOOLEAN
  BY <1>5 DEF Outcome
<1>7. /\ HistoryFields \subseteq DOMAIN h' /\ h'.past = <<>> /\ h'.imported = h.imported
      /\ h'.writes = h.writes
      /\ h'.acked = IF o.done THEN Persistent(m) ELSE h.acked
      /\ h'.holed = ((h.holed \/ o.holed) /\ ~ o.done)
  BY <1>2, <1>3 DEF HistoryFields
<1>8. BasicInv'
  BY <1>1, <1>3, <1>6, <1>7 DEF DeskInv, BasicInv, Off
<1>9. DiskInv' /\ AckInv'
  BY <1>1, <1>2, <1>3, <1>4, <1>5, <1>7, WriteStep
<1> QED BY <1>1, <1>8, <1>9, OffStep

\* A pass that leaves the machine and its timeline as they were.
LEMMA StaysStep ==
  ASSUME DeskInv, UNCHANGED << cfg, wall, slot, app, linked, m, sync, rew >>,
         h'.past = h.past, BasicInv', DiskInv', AckInv', SessionInv', ImportInv'
  PROVE  DeskInv'
<1>1. MachInv'
  BY DEF DeskInv, MachInv, Kept, GivenOf
<1>2. TimelineInv' /\ SlotInv'
  BY DEF DeskInv, TimelineInv, SlotInv
<1> QED BY <1>1, <1>2 DEF DeskInv

LEMMA FreshSessionKept ==
  ASSUME NEW x \in Machines, ses' = open_with_file_extension(x)
  PROVE  SessionInv'
<1>1. ses' \in Sessions /\ ses'.due = NoDeadline /\ ses'.since = NoDeadline
  BY FreshSession
<1> QED BY <1>1 DEF SessionInv

LEMMA ManualSaveKeepsInv ==
  ASSUME DeskInv, ManualSave
  PROVE  DeskInv'
<1>1. app = "on" /\ ses # NoSession /\ UNCHANGED << cfg, wall, slot >>
  BY DEF ManualSave, Operates
<1>2. PICK o \in flush_if_changed(disk, m, wall) :
        /\ disk' = o.disk
        /\ Timeline(o, Persistent(m), IF o.alive THEN h.past ELSE <<>>, FALSE)
        /\ \/ ~ o.alive /\ Off
           \/ /\ o.alive /\ ses' = open_with_file_extension(m)
              /\ UNCHANGED << app, linked, m, sync, rew >>
  BY DEF ManualSave
<1>3. Running(m, wall) /\ disk \in Disks /\ wall \in Nat /\ h.past \in Seq(Nat)
  BY <1>1, MachineRuns DEF DeskInv, DiskInv, BasicInv
<1>4. Persistent(m) \in SavedStates /\ Held(Persistent(m), 0, wall)
  BY <1>3, RunningState
<1>5. Outcome(o, disk, Persistent(m), wall)
  BY <1>3, <1>4, FlushOutcome
<1>6. o.done \in BOOLEAN /\ o.holed \in BOOLEAN /\ o.alive \in BOOLEAN /\ FALSE \in BOOLEAN
  BY <1>5 DEF Outcome
<1>7. CASE ~ o.alive
  <2>1. Off /\ Timeline(o, Persistent(m), <<>>, FALSE)
    BY <1>2, <1>7
  <2> QED BY <2>1, <1>1, <1>2, <1>3, <1>5, <1>6, ClosedAndOff
<1>8. CASE o.alive
  <2>1. /\ Timeline(o, Persistent(m), h.past, FALSE) /\ ses' = open_with_file_extension(m)
        /\ UNCHANGED << app, linked, m, sync, rew >>
    BY <1>2, <1>8
  <2>2. /\ HistoryFields \subseteq DOMAIN h'
        /\ h'.past = h.past /\ h'.writes = h.writes /\ h'.writes \in Nat
        /\ h'.acked = IF o.done THEN Persistent(m) ELSE h.acked
        /\ h'.holed = ((h.holed \/ o.holed) /\ ~ o.done)
        /\ h'.imported = (h.imported /\ ~ FALSE)
        /\ h'.holed \in BOOLEAN /\ h'.imported \in BOOLEAN
    BY <2>1, <1>3, <1>6, TimelineFields
  <2>3. BasicInv'
    BY <1>1, <2>1, <2>2 DEF DeskInv, BasicInv
  <2>4. DiskInv' /\ AckInv'
    BY <1>1, <1>2, <1>3, <1>4, <1>5, <2>2, WriteStep
  <2>5. SessionInv'
    BY <1>3, <2>1, FreshSessionKept DEF Running
  <2>6. ImportInv'
    <3>1. ~ h.imported
      BY <1>1 DEF DeskInv, ImportInv
    <3> QED BY <3>1, <2>2 DEF ImportInv
  <2> QED BY <1>1, <2>1, <2>2, <2>3, <2>4, <2>5, <2>6, StaysStep
<1> QED BY <1>6, <1>7, <1>8

LEMMA PausedKeepsInv ==
  ASSUME DeskInv, NEW dt \in {0, 1}, Paused(dt)
  PROVE  DeskInv'
<1> DEFINE k == PendingAfter(dt)
           x == Timed(dt, k)
           s == SyncAfter(dt, k)
<1>1. /\ app = "on" /\ wall' = wall + dt /\ m' = apply_to_machine(dt) /\ sync' = s
      /\ UNCHANGED << cfg, disk, app, linked, ses, rew, slot, h >>
  BY DEF Paused, On
<1>2. wall \in Nat /\ wall' \in Nat /\ wall <= wall'
  BY <1>1 DEF DeskInv, BasicInv
<1>3. m' = x
  BY <1>1 DEF apply_to_machine, Timed
<1>4. k \in 0..PendingAfter(dt)
  BY DEF PendingAfter, DeskInv, MachInv, Syncs
<1>5. /\ x \in Machines /\ x.sub \in Subs(cfg.kind) /\ s \in Syncs /\ x.t = m.t
      /\ cfg.kind # "mbc3" => s.pending = 0
      /\ cfg.kind # "huc3" => s.huc3 = 0
      /\ Kept(x, GivenOf(x, s), wall + dt)
  BY <1>1, <1>4, TimedMachine
<1> HIDE DEF k, x, s
<1>6. BasicInv'
  BY <1>1, <1>2 DEF DeskInv, BasicInv
<1>7. MachInv'
  <2>1. Kept(m, GivenOf(m, sync), wall)'
    BY <1>1, <1>3, <1>5 DEF Kept, GivenOf
  <2> QED BY <2>1, <1>1, <1>3, <1>5 DEF MachInv
<1>8. DiskInv' /\ AckInv'
  BY <1>1, <1>2, NoWriteStep
<1>9. SessionInv'
  <2>1. ses \in Sessions => (ses.due # NoDeadline => ses.due \in Nat)
    BY DEF Sessions
  <2> QED BY <2>1, <1>1, <1>2, DesktopAssumption DEF DeskInv, SessionInv
<1>10. TimelineInv'
  BY <1>1, <1>3, <1>5 DEF DeskInv, TimelineInv
<1>11. SlotInv'
  BY <1>1, SlotLater
<1>12. ImportInv'
  BY <1>1 DEF DeskInv, ImportInv, ImportedSaveStands
<1> QED BY <1>6, <1>7, <1>8, <1>9, <1>10, <1>11, <1>12 DEF DeskInv

LEMMA RewindKeepsInv ==
  ASSUME DeskInv, NEW dt \in {0, 1}, rewind_desktop_session_steps(dt)
  PROVE  DeskInv'
<1> DEFINE e == rew.entries[rewind_target(rew, m.t)]
           subs == Subs(cfg.kind)
<1>1. /\ app = "on" /\ rew.entries # <<>> /\ wall' = wall + dt
      /\ reset_host_state_after_machine_restore(e.t, e.s, wall')
      /\ h' = [h EXCEPT !.past = SubSeq(@, 1, e.t), !.ops = @ + 1]
      /\ rew' = rewind_one(rew, m.t)
      /\ UNCHANGED << cfg, disk, app, linked, slot >>
  BY DEF rewind_desktop_session_steps, On
<1>2. wall \in Nat /\ wall' \in Nat /\ wall <= wall'
  BY <1>1 DEF DeskInv, BasicInv
<1>3. m.t \in Nat /\ h.past \in Seq(Nat) /\ Len(h.past) = m.t /\ BufferOn(rew, m.t, h.past, subs)
  BY <1>1 DEF DeskInv, BasicInv, MachInv, Machines, TimelineInv
<1> HIDE DEF subs
<1>4. /\ e \in Snapshots(subs) /\ e.t \in 1..m.t
      /\ BufferOn(rewind_one(rew, m.t), e.t, SubSeq(h.past, 1, e.t), subs)
  BY <1>1, <1>3, RewindKeepsTimeline
<1> HIDE DEF e
<1>5. e.t \in Nat /\ e.s \in Marks(subs)
  BY <1>4 DEF Snapshots
<1>6. /\ HistoryFields \subseteq DOMAIN h' /\ h'.past = SubSeq(h.past, 1, e.t)
      /\ h'.imported = h.imported
      /\ h'.writes = h.writes /\ h'.acked = h.acked /\ h'.holed = h.holed
  BY <1>1 DEF DeskInv, BasicInv, HistoryFields
<1>7. h'.past \in Seq(Nat) /\ Len(h'.past) = e.t
  BY <1>3, <1>4, <1>6, SubSeqProperties
<1>8. BasicInv'
  BY <1>1, <1>2, <1>6, <1>7 DEF DeskInv, BasicInv
<1>9. DiskInv' /\ AckInv'
  BY <1>1, <1>2, <1>6, NoWriteStep
<1>10. BufferOn(rew', e.t, h'.past, subs)
  BY <1>1, <1>4, <1>6
<1> QED BY <1>1, <1>2, <1>5, <1>6, <1>7, <1>8, <1>9, <1>10, RestoreStep DEF subs

LEMMA SlotKeepsInv ==
  ASSUME DeskInv, save_machine_state_slot \/ load_machine_state_slot
  PROVE  DeskInv'
<1>0. wall \in Nat
  BY DEF DeskInv, BasicInv
<1>1. CASE save_machine_state_slot
  <2>1. /\ app = "on" /\ slot' = [t |-> m.t, s |-> Snapshot(m), past |-> h.past]
        /\ h' = [h EXCEPT !.ops = @ + 1]
        /\ UNCHANGED << cfg, wall, disk, app, linked, m, sync, ses, rew >>
    BY <1>1 DEF save_machine_state_slot, Operates
  <2>2. /\ HistoryFields \subseteq DOMAIN h' /\ h'.past = h.past /\ h'.imported = h.imported
        /\ h'.writes = h.writes /\ h'.acked = h.acked /\ h'.holed = h.holed
    BY <2>1 DEF DeskInv, BasicInv, HistoryFields
  <2>3. BasicInv' /\ SessionInv' /\ TimelineInv' /\ ImportInv'
    BY <2>1, <2>2 DEF DeskInv, BasicInv, SessionInv, TimelineInv, ImportInv, ImportedSaveStands
  <2>4. MachInv'
    BY <2>1 DEF DeskInv, MachInv, Kept, GivenOf
  <2>5. DiskInv' /\ AckInv'
    BY <1>0, <2>1, <2>2, NoWriteStep
  <2>6. SlotInv'
    <3>1. /\ m \in Machines /\ m.t \in Nat /\ m.sub \in Subs(cfg.kind)
          /\ h.past \in Seq(Nat) /\ Len(h.past) = m.t
      BY <2>1 DEF DeskInv, MachInv, Machines, BasicInv, TimelineInv
    <3>2. Snapshot(m) \in Marks(Subs(cfg.kind))
      BY <3>1 DEF Snapshot, Marks, Machines
    <3>3. slot' \in Slots(Subs(cfg.kind)) /\ slot'.past = h.past /\ slot'.t = m.t
      BY <2>1, <3>1, <3>2 DEF Slots
    <3> QED BY <2>1, <3>1, <3>3 DEF SlotInv
  <2> QED BY <2>3, <2>4, <2>5, <2>6 DEF DeskInv
<1>2. CASE load_machine_state_slot
  <2>1. /\ app = "on" /\ slot # NoFile
        /\ reset_host_state_after_machine_restore(slot.t, slot.s, wall')
        /\ h' = [h EXCEPT !.past = slot.past, !.ops = @ + 1]
        /\ rew' = EmptyRewind
        /\ UNCHANGED << cfg, wall, disk, app, linked, slot >>
    BY <1>2 DEF load_machine_state_slot, Operates, reset_frontend_timeline_state
  <2>2. /\ slot.t \in Nat /\ slot.s \in Marks(Subs(cfg.kind)) /\ slot.past \in Seq(Nat)
        /\ Len(slot.past) = slot.t
    BY <2>1 DEF DeskInv, SlotInv, Slots
  <2>3. /\ HistoryFields \subseteq DOMAIN h' /\ h'.past = slot.past /\ h'.imported = h.imported
        /\ h'.writes = h.writes /\ h'.acked = h.acked /\ h'.holed = h.holed
    BY <2>1 DEF DeskInv, BasicInv, HistoryFields
  <2>4. BasicInv'
    BY <2>1, <2>2, <2>3 DEF DeskInv, BasicInv
  <2>5. DiskInv' /\ AckInv'
    BY <1>0, <2>1, <2>3, NoWriteStep
  <2>6. BufferOn(rew', slot.t, h'.past, Subs(cfg.kind))
    BY <2>1, EmptyOn
  <2>7. wall' \in Nat /\ app' = "on"
    BY <1>0, <2>1
  <2> QED BY <2>1, <2>2, <2>3, <2>4, <2>5, <2>6, <2>7, RestoreStep
<1> QED BY <1>1, <1>2

\* The session an unsuccessful import puts back.
LEMMA SessionPutBack ==
  ASSUME DeskInv, app = "on", wall' = wall, ses' \in {ses, session_after_close}
  PROVE  SessionInv'
<1>1. CASE ses' = ses
  BY <1>1 DEF DeskInv, SessionInv
<1>2. CASE ses' = NoSession
  BY <1>2 DEF SessionInv
<1>3. CASE ses' = open_with_file_extension(m)
  BY <1>3, FreshSessionKept DEF DeskInv, MachInv
<1> QED BY <1>1, <1>2, <1>3 DEF session_after_close, reset_baseline_from_machine

\* The close of an import that fails, or is cut short.
LEMMA ImportCloseFails ==
  ASSUME DeskInv, app = "on", ~ h.imported, UNCHANGED << cfg, wall, slot >>,
         NEW o, Outcome(o, disk, Persistent(m), wall), disk' = o.disk,
         Timeline(o, Persistent(m), IF o.failed THEN h.past ELSE <<>>, FALSE),
         GoesOnOrDies(o, ses)
  PROVE  DeskInv'
<1>1. /\ Running(m, wall) /\ wall \in Nat /\ h.past \in Seq(Nat)
  BY MachineRuns DEF DeskInv, BasicInv
<1>2. Persistent(m) \in SavedStates /\ Held(Persistent(m), 0, wall)
  BY <1>1, RunningState
<1>3. /\ o.done \in BOOLEAN /\ o.holed \in BOOLEAN /\ o.alive \in BOOLEAN /\ o.failed \in BOOLEAN
      /\ FALSE \in BOOLEAN
  BY DEF Outcome
<1>4. CASE ~ o.failed
  <2>1. Off /\ Timeline(o, Persistent(m), <<>>, FALSE)
    BY <1>4 DEF GoesOnOrDies
  <2> QED BY <2>1, <1>1, <1>3, ClosedAndOff
<1>5. CASE o.failed
  <2>1. /\ ses' = ses /\ UNCHANGED << app, linked, m, sync, rew >>
        /\ Timeline(o, Persistent(m), h.past, FALSE)
    BY <1>5 DEF GoesOnOrDies
  <2>2. /\ HistoryFields \subseteq DOMAIN h'
        /\ h'.past = h.past /\ h'.writes = h.writes /\ h'.writes \in Nat
        /\ h'.acked = IF o.done THEN Persistent(m) ELSE h.acked
        /\ h'.holed = ((h.holed \/ o.holed) /\ ~ o.done)
        /\ h'.imported = (h.imported /\ ~ FALSE)
        /\ h'.holed \in BOOLEAN /\ h'.imported \in BOOLEAN
    BY <2>1, <1>1, <1>3, TimelineFields
  <2>3. BasicInv'
    BY <2>1, <2>2 DEF DeskInv, BasicInv
  <2>4. DiskInv' /\ AckInv'
    BY <1>1, <1>2, <2>2, WriteStep
  <2>5. SessionInv'
    BY <2>1, SessionPutBack
  <2>6. ImportInv'
    BY <2>2 DEF ImportInv
  <2> QED BY <2>1, <2>2, <2>3, <2>4, <2>5, <2>6, StaysStep
<1> QED BY <1>4, <1>5

\* The close, and then the write of the imported state s.
ImportHistory(o1, o2, s) ==
  [h EXCEPT !.acked  = IF o2.done THEN s
                       ELSE IF o1.done THEN Persistent(m) ELSE @,
            !.holed  = ((@ /\ ~ o1.done) \/ o2.holed) /\ ~ o2.done,
            !.faults = IF o2.alive THEN @ ELSE @ + 1,
            !.past   = IF o2.alive \/ o2.failed THEN @ ELSE <<>>,
            !.imported = o2.alive,
            !.ops    = @ + 1]

ImportWrite(o2, s) ==
  \/ /\ o2.alive
     /\ ses' = session_after_import
     /\ UNCHANGED << app, linked, m, sync, rew >>
  \/ /\ ~ o2.alive
     /\ GoesOnOrDies(o2, session_after_close)

LEMMA ImportWritten ==
  ASSUME DeskInv, app = "on", UNCHANGED << cfg, wall, slot >>,
         NEW o1, Outcome(o1, disk, Persistent(m), wall), o1.alive,
         NEW s \in SavedStates, Held(s, 0, wall),
         s.v = (IF cfg.kind = "mbc6" THEN 1 ELSE Imported),
         NEW o2, Outcome(o2, o1.disk, s, wall), o2.alive => o2.done,
         disk' = o2.disk, h' = ImportHistory(o1, o2, s), ImportWrite(o2, s)
  PROVE  DeskInv'
<1>1. /\ Running(m, wall) /\ wall \in Nat /\ h.past \in Seq(Nat) /\ h.holed \in BOOLEAN
      /\ h.writes \in Nat /\ HistoryFields \subseteq DOMAIN h /\ disk \in Disks
      /\ \A p \in {"ext", "int"} : FileKept(disk[p].main, wall)
  BY MachineRuns DEF DeskInv, BasicInv, DiskInv
<1>2. Persistent(m) \in SavedStates /\ Held(Persistent(m), 0, wall)
  BY <1>1, RunningState
<1>3. /\ o1.disk \in Disks /\ o1.done \in BOOLEAN /\ o1.holed \in BOOLEAN
      /\ ~ o1.done => ~ o1.holed
      /\ o2.disk \in Disks /\ o2.done \in BOOLEAN /\ o2.holed \in BOOLEAN
      /\ o2.alive \in BOOLEAN /\ o2.failed \in BOOLEAN
  BY DEF Outcome
<1>4. /\ HistoryFields \subseteq DOMAIN h' /\ h'.writes = h.writes
      /\ h'.past = (IF o2.alive \/ o2.failed THEN h.past ELSE <<>>)
      /\ h'.acked = (IF o2.done THEN s ELSE IF o1.done THEN Persistent(m) ELSE h.acked)
      /\ h'.holed = (((h.holed /\ ~ o1.done) \/ o2.holed) /\ ~ o2.done)
      /\ h'.imported = o2.alive
  BY <1>1 DEF ImportHistory, HistoryFields
<1>5. BasicInv'
  <2>1. h'.past \in Seq(Nat) /\ app' \in {"off", "on"}
    BY <1>1, <1>4 DEF ImportWrite, GoesOnOrDies, Off, DeskInv, BasicInv
  <2> QED BY <2>1, <1>1, <1>3, <1>4 DEF DeskInv, BasicInv
<1>6. \A p \in {"ext", "int"} : FileKept(o1.disk[p].main, wall)
  BY <1>1, <1>2, OutcomeKeepsFiles
<1>7. DiskInv'
  <2>1. \A p \in {"ext", "int"} : FileKept(o2.disk[p].main, wall)
    BY <1>1, <1>3, <1>6, OutcomeKeepsFiles
  <2> QED BY <2>1, <1>3 DEF DiskInv, FileKept
<1>8. AckInv'
  <2> DEFINE acked == IF o1.done THEN Persistent(m) ELSE h.acked
             holed == (h.holed \/ o1.holed) /\ ~ o1.done
  <2>1. Loads(h.acked, h.holed, disk)
    BY DEF DeskInv, AckInv, LoadReturnsLastSave, Loads
  <2>2. Loads(acked, holed, o1.disk) /\ holed \in BOOLEAN
    BY <1>1, <1>2, <1>3, <2>1, WriteKeepsLoads
  <2>3. holed <=> (h.holed /\ ~ o1.done)
    BY <1>3
  <2> HIDE DEF acked, holed
  <2>4. Loads(IF o2.done THEN s ELSE acked, (holed \/ o2.holed) /\ ~ o2.done, o2.disk)
    BY <1>1, <1>3, <2>2, WriteKeepsLoads
  <2>5. h'.acked = IF o2.done THEN s ELSE acked
    BY <1>4 DEF acked
  <2>6. h'.holed <=> ((holed \/ o2.holed) /\ ~ o2.done)
    BY <1>4, <2>3
  <2> QED BY <2>4, <2>5, <2>6 DEF Loads, AckInv, LoadReturnsLastSave
<1>9. CASE o2.alive
  <2>1. ses' = NoSession /\ UNCHANGED << app, linked, m, sync, rew >> /\ o2.alive = TRUE
    BY <1>3, <1>9 DEF ImportWrite, session_after_import
  <2>2. Stored(disk', cfg.kind) = Stamped(s, wall) /\ Stamped(s, wall).v = s.v
    BY <1>1, <1>9, StampedIsAFile DEF Outcome
  <2>3. SessionInv' /\ ImportInv'
    BY <2>1, <2>2 DEF SessionInv, ImportInv, ImportedSaveStands
  <2> QED BY <2>1, <2>3, <1>4, <1>5, <1>7, <1>8, <1>9, StaysStep
<1>10. CASE ~ o2.alive /\ o2.failed
  <2>1. ses' = session_after_close /\ UNCHANGED << app, linked, m, sync, rew >>
    BY <1>10 DEF ImportWrite, GoesOnOrDies
  <2>2. SessionInv'
    BY <2>1, SessionPutBack
  <2>3. ImportInv' /\ h'.past = h.past
    BY <1>4, <1>10 DEF ImportInv
  <2> QED BY <2>1, <2>2, <2>3, <1>5, <1>7, <1>8, StaysStep
<1>11. CASE ~ o2.alive /\ ~ o2.failed
  <2>1. Off
    BY <1>11 DEF ImportWrite, GoesOnOrDies
  <2> QED BY <2>1, <1>5, <1>7, <1>8, OffStep
<1> QED BY <1>9, <1>10, <1>11

LEMMA ImportKeepsInv ==
  ASSUME DeskInv, import_external_save_for_current_rom
  PROVE  DeskInv'
<1> DEFINE s == [v |-> IF cfg.kind = "mbc6" THEN 1 ELSE Imported, rtc |-> 0, z |-> wall, n |-> 0]
<1>1. app = "on" /\ ~ h.imported /\ cfg.kind # "huc3" /\ UNCHANGED << cfg, wall, slot >>
  BY DEF import_external_save_for_current_rom, Operates
<1>2. PICK o1 \in close(disk, m, wall) :
        \/ /\ ~ o1.alive
           /\ disk' = o1.disk
           /\ Timeline(o1, Persistent(m), IF o1.failed THEN h.past ELSE <<>>, FALSE)
           /\ GoesOnOrDies(o1, ses)
        \/ /\ o1.alive
           /\ \E o2 \in WriteOutcomes(o1.disk, s, wall) :
                /\ disk' = o2.disk
                /\ h' = ImportHistory(o1, o2, s)
                /\ ImportWrite(o2, s)
  BY DEF import_external_save_for_current_rom, ImportHistory, ImportWrite
<1>3. Running(m, wall) /\ disk \in Disks /\ wall \in Nat
  BY <1>1, MachineRuns DEF DeskInv, DiskInv, BasicInv
<1>4. Persistent(m) \in SavedStates
  BY <1>3, RunningState
<1>5. Outcome(o1, disk, Persistent(m), wall)
  BY <1>3, <1>4, FlushOutcome
<1>6. CASE ~ o1.alive
  BY <1>1, <1>2, <1>5, <1>6, ImportCloseFails
<1>7. CASE o1.alive
  <2>1. PICK o2 \in WriteOutcomes(o1.disk, s, wall) :
          disk' = o2.disk /\ h' = ImportHistory(o1, o2, s) /\ ImportWrite(o2, s)
    BY <1>2, <1>7
  <2>2. /\ s \in SavedStates /\ s.v = (IF cfg.kind = "mbc6" THEN 1 ELSE Imported)
        /\ s.rtc = 0 /\ s.z = wall /\ s.n = 0
    BY <1>3, DesktopAssumption DEF SavedStates, Imported
  <2> HIDE DEF s
  <2>3. Ticks(0) = 0 /\ Slack(0) = 0
    BY DesktopAssumption, SlackAdd DEF Ticks
  <2>4. Held(s, 0, wall)
    BY <1>1, <1>3, <2>2, <2>3 DEF Held
  <2>5. o1.disk \in Disks
    BY <1>5 DEF Outcome
  <2>6. Outcome(o2, o1.disk, s, wall) /\ (o2.alive => o2.done)
    BY <1>3, <2>1, <2>2, <2>5, WriteOutcome
  <2> QED BY <1>1, <1>5, <1>7, <2>1, <2>2, <2>4, <2>6, ImportWritten
<1> QED BY <1>6, <1>7

\* The session after a frame boundary keeps its deadline in time.
LEMMA BoundarySession ==
  ASSUME DeskInv, NEW x \in Machines, NEW now \in Nat, wall <= now, NEW o, o.done \in BOOLEAN
  PROVE  LET n == AfterFrameBoundary(o, x, now) IN
         n = NoSession \/ ( /\ n \in Sessions
                            /\ n.due # NoDeadline => n.due <= now + Debounce
                            /\ n.since # NoDeadline => /\ n.due # NoDeadline
                                                       /\ n.due <= n.since + Debounce )
<1> DEFINE since == IF x.v = ses.last.v THEN NoDeadline
                    ELSE IF ses.since = NoDeadline THEN now ELSE ses.since
           due == debounce_deadline(now)
           n == AfterFrameBoundary(o, x, now)
<1>1. n = IF ses = NoSession THEN NoSession
          ELSE IF o.done THEN open_with_file_extension(x)
          ELSE IF Same(Persistent(x), ses.last)
               THEN [ses EXCEPT !.due = NoDeadline, !.since = since]
          ELSE IF cfg.policy = "Debounced"
               THEN [ses EXCEPT !.due = due, !.since = since]
          ELSE ses
  BY DEF AfterFrameBoundary
<1>2. wall \in Nat /\ Debounce \in Nat /\ NoDeadline \notin Nat
  BY DesktopAssumption DEF DeskInv, BasicInv
<1>3. CASE ses = NoSession
  BY <1>1, <1>3
<1>4. CASE ses # NoSession /\ o.done
  <2>1. n = open_with_file_extension(x)
    BY <1>1, <1>4
  <2>2. n \in Sessions /\ n.due = NoDeadline /\ n.since = NoDeadline
    BY <2>1, FreshSession
  <2> QED BY <2>2
<1>5. CASE ses # NoSession /\ ~ o.done
  <2>1. /\ ses \in Sessions
        /\ ses.due # NoDeadline => ses.due <= wall + Debounce /\ ses.due \in Nat
        /\ ses.since # NoDeadline => /\ ses.due # NoDeadline /\ ses.since \in Nat
                                     /\ ses.due <= ses.since + Debounce
    BY <1>5 DEF DeskInv, SessionInv, Sessions
  <2>2. CASE Same(Persistent(x), ses.last)
    <3>1. since = NoDeadline
      BY <2>2 DEF Same, Persistent
    <3>2. n = [ses EXCEPT !.due = NoDeadline, !.since = NoDeadline]
      BY <1>1, <1>5, <2>2, <3>1
    <3> HIDE DEF n
    <3>3. n \in Sessions /\ n.due = NoDeadline /\ n.since = NoDeadline
      BY <2>1, <3>2 DEF Sessions
    <3> QED BY <3>3 DEF n
  <2>3. CASE ~ Same(Persistent(x), ses.last) /\ cfg.policy = "Debounced"
    <3>1. /\ due \in Nat /\ due <= now + Debounce
          /\ due = IF ses.due = NoDeadline THEN now + Debounce ELSE ses.due
      BY <1>2, <2>1 DEF debounce_deadline
    <3>2. n = [ses EXCEPT !.due = due, !.since = since]
      BY <1>1, <1>5, <2>3
    <3>3. since \in Nat \cup {NoDeadline} /\ (since # NoDeadline => due <= since + Debounce)
      <4> HIDE DEF due
      <4> QED BY <1>2, <2>1, <3>1
    <3> HIDE DEF n, due, since
    <3>4. n \in Sessions /\ n.due = due /\ n.since = since
      BY <2>1, <3>1, <3>2, <3>3 DEF Sessions
    <3> QED BY <1>2, <3>1, <3>3, <3>4 DEF n
  <2>4. CASE ~ Same(Persistent(x), ses.last) /\ cfg.policy # "Debounced"
    <3>1. n = ses
      BY <1>1, <1>5, <2>4
    <3> HIDE DEF n
    <3> QED BY <1>2, <2>1, <3>1 DEF n
  <2> QED BY <2>2, <2>3, <2>4
<1> QED BY <1>3, <1>4, <1>5

LEMMA SameSession ==
  ASSUME DeskInv, NEW now \in Nat, wall <= now
  PROVE  ses = NoSession \/ ( /\ ses \in Sessions
                              /\ ses.due # NoDeadline => ses.due <= now + Debounce
                              /\ ses.since # NoDeadline => /\ ses.due # NoDeadline
                                                           /\ ses.due <= ses.since + Debounce )
<1>1. ses \in Sessions => (ses.due # NoDeadline => ses.due \in Nat)
  BY DEF Sessions
<1> QED BY <1>1, DesktopAssumption DEF DeskInv, SessionInv, BasicInv

\* The machine one step of emulation later.
Stepped(w, dt, k) ==
  [Timed(dt, k) EXCEPT !.t = @ + 1, !.v = IF w THEN h.writes + 1 ELSE @]

LEMMA SteppedMachine ==
  ASSUME DeskInv, app = "on", NEW w \in BOOLEAN, NEW dt \in {0, 1}, NEW k \in 0..PendingAfter(dt)
  PROVE  LET x == Stepped(w, dt, k)
             s == SyncAfter(dt, k)
         IN  /\ x \in Machines /\ x.sub \in Subs(cfg.kind) /\ x.t = m.t + 1 /\ s \in Syncs
             /\ cfg.kind # "mbc3" => s.pending = 0
             /\ cfg.kind # "huc3" => s.huc3 = 0
             /\ Kept(x, GivenOf(x, s), wall + dt)
<1> DEFINE y == Timed(dt, k)
           s == SyncAfter(dt, k)
           v == IF w THEN h.writes + 1 ELSE y.v
           t == y.t + 1
           x == [y EXCEPT !.t = t, !.v = v]
<1>1. /\ y \in Machines /\ y.sub \in Subs(cfg.kind) /\ s \in Syncs
      /\ y.t = m.t
      /\ cfg.kind # "mbc3" => s.pending = 0
      /\ cfg.kind # "huc3" => s.huc3 = 0
      /\ Kept(y, GivenOf(y, s), wall + dt)
  BY TimedMachine
<1>2. Stepped(w, dt, k) = x
  BY <1>1 DEF Stepped, Machines
<1> HIDE DEF y, s
<1>3. v \in Nat /\ t \in Nat
  <2>1. h.writes \in Nat
    BY DEF DeskInv, BasicInv
  <2>2. y.v \in Nat /\ y.t \in Nat
    BY <1>1 DEF Machines
  <2> HIDE DEF DeskInv
  <2> QED BY <2>1, <2>2
<1> HIDE DEF v, t
<1>4. /\ x \in Machines /\ x.t = t /\ x.rtc = y.rtc /\ x.sub = y.sub
      /\ x.z = y.z /\ x.n = y.n
  BY <1>1, <1>3 DEF Machines
<1> HIDE DEF x
<1>5. Kept(x, GivenOf(x, s), wall + dt)
  BY <1>1, <1>4 DEF Kept, GivenOf
<1> QED BY <1>1, <1>2, <1>4, <1>5 DEF s, t

FrameOutcomes(x, now) ==
  IF x.t % FrameSteps = 0 THEN maybe_flush_at_frame_boundary(disk, x, now) ELSE NoWrite(disk)

FrameHistory(o, x, w) ==
  [h EXCEPT !.acked  = IF o.done THEN Persistent(x) ELSE @,
            !.holed  = (@ \/ o.holed) /\ ~ o.done,
            !.faults = IF o.alive THEN @ ELSE @ + 1,
            !.writes = IF w THEN @ + 1 ELSE @,
            !.past   = IF o.alive THEN Append(@, x.v) ELSE <<>>]

FrameRewind(x) ==
  IF linked THEN rew
  ELSE IF x.t % FrameSteps = 0 THEN record_frame_boundary(rew, x.t, Snapshot(x))
  ELSE record_subframe(rew, x.t, Snapshot(x))

\* The action Frame, taken apart.
LEMMA FrameParts ==
  ASSUME NEW w \in BOOLEAN, NEW dt \in {0, 1}, NEW k \in 0..PendingAfter(dt), Frame(w, dt, k)
  PROVE  LET x == Stepped(w, dt, k) IN
         /\ app = "on" /\ UNCHANGED << cfg, slot >> /\ wall' = wall + dt
         /\ \E o \in FrameOutcomes(x, wall + dt) :
              /\ disk' = o.disk /\ h' = FrameHistory(o, x, w)
              /\ \/ ~ o.alive /\ Off
                 \/ /\ o.alive /\ m' = x /\ sync' = SyncAfter(dt, k)
                    /\ ses' = IF x.t % FrameSteps = 0 THEN AfterFrameBoundary(o, x, wall + dt) ELSE ses
                    /\ rew' = FrameRewind(x)
                    /\ app' = app
BY DEF Frame, On, Stepped, Timed, FrameOutcomes, FrameHistory, FrameRewind

LEMMA FrameKeepsInv ==
  ASSUME DeskInv, NEW w \in BOOLEAN, NEW dt \in {0, 1}, NEW k \in 0..PendingAfter(dt),
         Frame(w, dt, k)
  PROVE  DeskInv'
<1> DEFINE x == Stepped(w, dt, k)
           now == wall + dt
           past == Append(h.past, x.v)
<1>1. /\ app = "on" /\ UNCHANGED << cfg, slot >> /\ wall' = now
      /\ \E o \in FrameOutcomes(x, now) :
           /\ disk' = o.disk /\ h' = FrameHistory(o, x, w)
           /\ \/ ~ o.alive /\ Off
              \/ /\ o.alive /\ m' = x /\ sync' = SyncAfter(dt, k)
                 /\ ses' = IF x.t % FrameSteps = 0 THEN AfterFrameBoundary(o, x, now) ELSE ses
                 /\ rew' = FrameRewind(x)
                 /\ app' = app
  BY FrameParts
<1> DEFINE s == SyncAfter(dt, k)
<1>2. /\ x \in Machines /\ x.sub \in Subs(cfg.kind) /\ x.t = m.t + 1 /\ s \in Syncs
      /\ cfg.kind # "mbc3" => s.pending = 0
      /\ cfg.kind # "huc3" => s.huc3 = 0
      /\ Kept(x, GivenOf(x, s), now)
  BY <1>1, SteppedMachine
<1> HIDE DEF x
<1>3. PICK o \in FrameOutcomes(x, now) :
           /\ disk' = o.disk /\ h' = FrameHistory(o, x, w)
           /\ \/ ~ o.alive /\ Off
              \/ /\ o.alive /\ m' = x /\ sync' = SyncAfter(dt, k)
                 /\ ses' = IF x.t % FrameSteps = 0 THEN AfterFrameBoundary(o, x, now) ELSE ses
                 /\ rew' = FrameRewind(x)
                 /\ app' = app
  BY <1>1
<1>4. /\ wall \in Nat /\ now \in Nat /\ wall <= now /\ disk \in Disks
      /\ HistoryFields \subseteq DOMAIN h /\ h.past \in Seq(Nat) /\ h.writes \in Nat
      /\ h.imported \in BOOLEAN
  BY DEF DeskInv, BasicInv, DiskInv
<1> HIDE DEF now, s
<1>5. Persistent(x) \in SavedStates /\ Held(Persistent(x), 0, now)
  <2>1. Running(x, now)
    BY <1>2, <1>4, KeptIsRunning
  <2> QED BY <2>1, <1>4, RunningState
<1>6. Outcome(o, disk, Persistent(x), now) /\ (ses = NoSession => ~ o.done /\ o.disk = disk /\ o.alive)
  <2>1. o \in maybe_flush_at_frame_boundary(disk, x, now) \/ o \in NoWrite(disk)
    BY DEF FrameOutcomes
  <2> QED BY <2>1, <1>4, <1>5, FlushOutcome
<1>7. o.alive \in BOOLEAN /\ o.done \in BOOLEAN /\ o.holed \in BOOLEAN
  BY <1>6 DEF Outcome
<1>8. x.v \in Nat /\ m.t \in Nat
  BY <1>2 DEF Machines, DeskInv, MachInv
<1>9. past \in Seq(Nat) /\ Len(past) = Len(h.past) + 1
  BY <1>4, <1>8
<1>10. /\ HistoryFields \subseteq DOMAIN h'
       /\ h'.past = (IF o.alive THEN past ELSE <<>>)
       /\ h'.imported = h.imported /\ h'.writes \in Nat
       /\ h'.acked = (IF o.done THEN Persistent(x) ELSE h.acked)
       /\ h'.holed = ((h.holed \/ o.holed) /\ ~ o.done)
  <2>1. h' = FrameHistory(o, x, w)
    BY <1>3
  <2> QED BY <2>1, <1>4, <1>7 DEF FrameHistory, HistoryFields
<1> HIDE DEF past
<1>11. BasicInv'
  <2>1. app' \in {"off", "on"}
    BY <1>1, <1>3 DEF Off
  <2>2. h'.past \in Seq(Nat)
    BY <1>9, <1>10
  <2> QED BY <1>1, <1>4, <1>10, <2>1, <2>2 DEF DeskInv, BasicInv
<1>13. DiskInv' /\ AckInv'
  BY <1>1, <1>3, <1>4, <1>5, <1>6, <1>10, WriteStep
<1>14. CASE ~ o.alive
  BY <1>1, <1>3, <1>11, <1>13, <1>14, OffStep
<1>15. CASE o.alive
  <2>1. /\ m' = x /\ sync' = SyncAfter(dt, k) /\ app' = "on"
        /\ ses' = IF x.t % FrameSteps = 0 THEN AfterFrameBoundary(o, x, now) ELSE ses
        /\ rew' = FrameRewind(x)
    BY <1>1, <1>3, <1>15
  <2>2. MachInv'
    <3>1. sync' = s
      BY <2>1 DEF s
    <3>2. Kept(m, GivenOf(m, sync), wall)'
      BY <1>1, <1>2, <2>1, <3>1 DEF Kept, GivenOf
    <3> QED BY <3>1, <3>2, <1>1, <1>2, <2>1 DEF MachInv
  <2>3. SessionInv'
    <3>1. ses' = ses \/ ses' = AfterFrameBoundary(o, x, now)
      BY <2>1
    <3>2. CASE ses' = ses
      BY <3>2, <1>1, <1>4, SameSession DEF SessionInv
    <3>3. CASE ses' = AfterFrameBoundary(o, x, now)
      BY <3>3, <1>1, <1>2, <1>4, <1>7, BoundarySession DEF SessionInv
    <3> QED BY <3>1, <3>2, <3>3
  <2>4. TimelineInv'
    <3> DEFINE subs == Subs(cfg.kind)
    <3>1. Len(h.past) = m.t /\ BufferOn(rew, m.t, h.past, subs)
      BY <1>1 DEF DeskInv, TimelineInv
    <3>2. Snapshot(x) \in Marks(subs) /\ Snapshot(x).v = x.v
      BY <1>2 DEF Snapshot, Marks, Machines
    <3> HIDE DEF subs
    <3>3. BufferOn(FrameRewind(x), x.t, past, subs)
      BY <3>1, <3>2, <1>2, <1>4, <1>8, RecordKeepsTimeline DEF FrameRewind, past
    <3> QED BY <3>1, <3>3, <1>1, <1>2, <1>9, <1>10, <1>15, <2>1 DEF TimelineInv, subs
  <2>5. SlotInv'
    BY <1>1, SlotLater
  <2>6. ImportInv'
    <3> SUFFICES ASSUME h'.imported, app' = "on" PROVE ses' = NoSession /\ ImportedSaveStands'
      BY DEF ImportInv
    <3>1. ses = NoSession /\ ImportedSaveStands
      BY <1>1, <1>10 DEF DeskInv, ImportInv
    <3>2. ses' = NoSession
      BY <2>1, <3>1 DEF AfterFrameBoundary
    <3>3. disk' = disk
      BY <1>3, <1>6, <3>1
    <3> QED BY <1>1, <1>10, <3>1, <3>2, <3>3 DEF ImportedSaveStands
  <2> QED BY <1>11, <1>13, <2>2, <2>3, <2>4, <2>5, <2>6 DEF DeskInv
<1> QED BY <1>7, <1>14, <1>15

LEMMA StutterKeepsInv ==
  ASSUME DeskInv, UNCHANGED vars
  PROVE  DeskInv'
BY DEF vars, DeskInv, BasicInv, MachInv, DiskInv, AckInv, SessionInv, TimelineInv, SlotInv,
       ImportInv, Kept, GivenOf, FileKept, LoadReturnsLastSave, ImportedSaveStands

LEMMA NextKeepsInv ==
  ASSUME DeskInv, [Next]_vars
  PROVE  DeskInv'
<1>1. CASE UNCHANGED vars
  BY <1>1, StutterKeepsInv
<1>2. CASE Next
  <2>1. CASE FrameStep
    BY <2>1, FrameKeepsInv DEF FrameStep
  <2>2. CASE \E dt \in {0, 1} : Paused(dt) \/ rewind_desktop_session_steps(dt)
    BY <2>2, PausedKeepsInv, RewindKeepsInv
  <2> QED BY <1>2, <2>1, <2>2, StartKeepsInv, OffTickKeepsInv, CrashKeepsInv, SlotKeepsInv,
             ManualSaveKeepsInv, OpensKeepInv, PortKeepsInv, ImportKeepsInv, QuitKeepsInv DEF Next
<1> QED BY <1>1, <1>2

(* The inductive invariant of the desktop frontend, for every configuration, *)
(* frame length, history, memory budget, debounce time and bound.            *)
THEOREM DeskInvariant == Spec => []DeskInv
<1>1. Init => DeskInv
  BY InitInv
<1>2. DeskInv /\ [Next]_vars => DeskInv'
  BY NextKeepsInv
<1> QED BY <1>1, <1>2, PTL DEF Spec

-----------------------------------------------------------------------------
(* What the next session loads is the last completed save, wherever a write  *)
(* was cut short, outside the one gap of the replacement (file_io.rs).       *)
THEOREM LoadAlwaysReturnsLastSave == Spec => []LoadReturnsLastSave
<1>1. DeskInv => LoadReturnsLastSave
  BY DEF DeskInv, AckInv
<1> QED BY <1>1, DeskInvariant, PTL

(* Through saves, crashes, reloads, rewinds and state slots the cartridge    *)
(* clock follows the wall clock: exactly (HuC-3), or never ahead of it       *)
(* (MBC3), while a session goes on, and off by no more than the parts of a   *)
(* second that a file's stamp and a resync leave out for each time the clock *)
(* came from a file or was carried over a resync, whatever the number of     *)
(* ticks in a second (timing.rs:66-92, save_session.rs:67-76).               *)
THEOREM ClockAlwaysKeepsWallTime == Spec => []ClockKeepsWallTime
<1>1. ASSUME DeskInv PROVE ClockKeepsWallTime
  <2> SUFFICES ASSUME app = "on"
               PROVE  /\ Given <= (wall - m.z) + m.n * (TicksPerSecond - 1)
                      /\ cfg.kind = "huc3" =>
                           Given >= (wall - m.z) - 2 * m.n * (TicksPerSecond - 1)
    BY DEF ClockKeepsWallTime
  <2>1. Kept(m, GivenOf(m, sync), wall) /\ m \in Machines /\ TicksPerSecond - 1 \in Int
    BY <1>1, DesktopAssumption DEF DeskInv, MachInv
  <2>2. Given = GivenOf(m, sync)
    BY DEF Given, GivenOf, Ticks
  <2>3. Slack(m.n) = m.n * (TicksPerSecond - 1)
    BY DEF Slack
  <2> DEFINE c == TicksPerSecond - 1
  <2>4. m.n \in Int /\ c \in Int
    BY <2>1 DEF Machines
  <2> HIDE DEF c
  <2>5. 2 * (m.n * c) = 2 * m.n * c
    BY <2>4
  <2> QED BY <2>1, <2>2, <2>3, <2>5 DEF Kept, c
<1> QED BY <1>1, DeskInvariant, PTL

(* Every snapshot of the rewind buffer lies on the machine's own past, in    *)
(* order, through rewinds, slots and overflow of the budget (rewind.rs).     *)
THEOREM RewindAlwaysOnTimeline == Spec => []RewindStaysOnTimeline
<1>1. ASSUME DeskInv PROVE RewindStaysOnTimeline
  <2> DEFINE es == rew.entries
  <2>1. OnTimeline(es, m.t, h.past, Subs(cfg.kind)) /\ m.t \in Nat
    BY <1>1 DEF DeskInv, TimelineInv, BufferOn, MachInv, Machines
  <2> HIDE DEF es
  <2>2. DOMAIN es = 1..Len(es) /\ Len(es) \in Nat
    BY <2>1 DEF OnTimeline
  <2>3. ASSUME NEW i \in 1..Len(es)
        PROVE  /\ es[i].t <= m.t /\ es[i].s.v = h.past[es[i].t]
               /\ i > 1 => es[i - 1].t < es[i].t
    <3>1. es[i].t <= m.t /\ es[i].s.v = h.past[es[i].t]
      BY <2>1, <2>3 DEF OnTimeline
    <3>2. i > 1 => i - 1 \in 1..Len(es) /\ i - 1 < i
      BY <2>2, <2>3
    <3> QED BY <2>1, <3>1, <3>2 DEF OnTimeline
  <2> QED BY <2>2, <2>3 DEF RewindStaysOnTimeline, es
<1> QED BY <1>1, DeskInvariant, PTL

(* The machine running when a save is imported never writes over it          *)
(* (dialogs.rs).                                                             *)
THEOREM ImportedSaveAlwaysStands == Spec => []ImportedSaveStands
<1>1. DeskInv => ImportedSaveStands
  BY DEF DeskInv, ImportInv, ImportedSaveStands
<1> QED BY <1>1, DeskInvariant, PTL

\* A frame boundary past the deadline leaves the battery RAM saved.
LEMMA FrameFlushes ==
  ASSUME DeskInv, NEW w \in BOOLEAN, NEW dt \in {0, 1}, NEW k \in 0..PendingAfter(dt),
         Frame(w, dt, k), app' = "on", cfg.policy = "Debounced", m'.t % FrameSteps = 0,
         ses # NoSession, ses.since # NoDeadline, wall' >= ses.since + Debounce
  PROVE  m'.v = ses'.last.v
<1> DEFINE x == Stepped(w, dt, k)
           now == wall + dt
<1>1. /\ app = "on" /\ wall' = now
      /\ \E o \in FrameOutcomes(x, now) :
           /\ disk' = o.disk /\ h' = FrameHistory(o, x, w)
           /\ \/ ~ o.alive /\ Off
              \/ /\ o.alive /\ m' = x /\ sync' = SyncAfter(dt, k)
                 /\ ses' = IF x.t % FrameSteps = 0 THEN AfterFrameBoundary(o, x, now) ELSE ses
                 /\ rew' = FrameRewind(x)
                 /\ app' = app
  BY FrameParts
<1>2. x \in Machines
  BY <1>1, SteppedMachine
<1> HIDE DEF x
<1>3. PICK o \in FrameOutcomes(x, now) :
        /\ o.alive /\ m' = x
        /\ ses' = IF x.t % FrameSteps = 0 THEN AfterFrameBoundary(o, x, now) ELSE ses
  BY <1>1 DEF Off
<1>4. x.t % FrameSteps = 0 /\ ses' = AfterFrameBoundary(o, x, now)
  BY <1>3
<1>5. /\ wall \in Nat /\ now \in Nat /\ disk \in Disks /\ ses \in Sessions
      /\ ses.due # NoDeadline /\ ses.due <= ses.since + Debounce
      /\ ses.due \in Nat /\ ses.since \in Nat /\ Debounce \in Nat
  BY DesktopAssumption DEF DeskInv, BasicInv, DiskInv, SessionInv, Sessions
<1>6. debounce_deadline(now) = ses.due /\ now >= ses.due
  BY <1>1, <1>5 DEF debounce_deadline
<1>7. Persistent(x) \in SavedStates /\ Persistent(x).v = x.v
  BY <1>2, PersistentState
<1> HIDE DEF now
<1>8. CASE Same(Persistent(x), ses.last)
  <2>1. x.v = ses.last.v
    BY <1>7, <1>8 DEF Same
  <2>2. o \in NoWrite(disk)
    BY <1>4, <1>8 DEF FrameOutcomes, maybe_flush_at_frame_boundary, DebounceElapsed
  <2>3. ~ o.done
    BY <2>2, <1>5, NoWriteOutcome
  <2>4. ses' = [ses EXCEPT !.due = NoDeadline, !.since = NoDeadline]
    BY <1>4, <1>8, <2>1, <2>3 DEF AfterFrameBoundary
  <2>5. ses'.last = ses.last
    BY <1>5, <2>4 DEF Sessions
  <2> QED BY <1>3, <2>1, <2>5
<1>9. CASE ~ Same(Persistent(x), ses.last)
  <2>1. DebounceElapsed(x, now)
    BY <1>6, <1>9 DEF DebounceElapsed
  <2>2. maybe_flush_at_frame_boundary(disk, x, now) = flush_if_changed(disk, x, now)
    BY <2>1 DEF maybe_flush_at_frame_boundary
  <2>3. o \in WriteOutcomes(disk, Persistent(x), now)
    BY <1>4, <1>9, <2>2 DEF FrameOutcomes, flush_if_changed
  <2>4. o.done
    BY <1>3, <1>5, <1>7, <2>3, WriteOutcome
  <2>5. ses' = open_with_file_extension(x)
    BY <1>4, <2>4 DEF AfterFrameBoundary
  <2> QED BY <1>2, <1>3, <2>5, FreshSession
<1> QED BY <1>8, <1>9

(* With the debounced policy no frame boundary leaves a battery write        *)
(* unsaved for longer than the debounce time (save_session.rs).              *)
THEOREM FlushAlwaysWithinDebounce == Spec => FlushWithinDebounce
<1> DEFINE Late == /\ app = "on" /\ app' = "on" /\ cfg.policy = "Debounced"
                   /\ m'.t = m.t + 1 /\ m'.t % FrameSteps = 0
                   /\ ses # NoSession
                   /\ ses.since # NoDeadline /\ wall' >= ses.since + Debounce
<1>1. ASSUME DeskInv, DeskInv', Next, Late PROVE m'.v = ses'.last.v
  <2>0. m.t \in Nat /\ m'.t # m.t /\ m' \in Machines
    BY <1>1 DEF DeskInv, MachInv, Machines
  <2>1. CASE ses' = open_with_file_extension(m')
    BY <2>0, <2>1, FreshSession
  <2>2. CASE FrameStep
    <3>1. PICK w \in BOOLEAN, dt \in {0, 1} : \E k \in 0..PendingAfter(dt) : Frame(w, dt, k)
      BY <2>2 DEF FrameStep
    <3> QED BY <1>1, <3>1, FrameFlushes
  <2>3. Start => ses' = open_with_file_extension(m')
    BY DEF Start
  <2>4. \A t, s, now : reset_host_state_after_machine_restore(t, s, now)
                        => ses' = open_with_file_extension(m')
    BY <1>1 DEF reset_host_state_after_machine_restore, reset_baseline_from_machine
  <2>5. \A y, d, n : Enter(y, d, n) => ses' = open_with_file_extension(m')
    BY DEF Enter
  <2>6. ~ Off
    BY <1>1 DEF Off
  <2>7. \A y, past, n : CloseThenOpen(y, past, n) => ses' = open_with_file_extension(m')
    BY <2>5, <2>6 DEF CloseThenOpen
  <2>8. \A y, n : OpenThenClose(y, n) => ses' = open_with_file_extension(m')
    BY <2>5, <2>6 DEF OpenThenClose
  <2>9. \/ reset_machine \/ activate_infrared_accessory \/ detach_linked_session
        \/ open_selected_rom \/ activate_game_link
        => ses' = open_with_file_extension(m')
    BY <2>7, <2>8 DEF reset_machine, activate_infrared_accessory, detach_linked_session,
                      open_selected_rom, activate_game_link
  <2>10. (\E dt \in {0, 1} : rewind_desktop_session_steps(dt)) \/ load_machine_state_slot
        => ses' = open_with_file_extension(m')
    BY <2>4 DEF rewind_desktop_session_steps, load_machine_state_slot
  <2>11. ~ OffTick /\ ~ Crash /\ ~ Quit /\ ~ set_external_port_fails
    BY <1>1, <2>6 DEF OffTick, Crash, Quit, set_external_port_fails
  <2>12. ~ save_machine_state_slot /\ ~ ManualSave /\ ~ import_external_save_for_current_rom
    BY <2>0, <2>6 DEF save_machine_state_slot, ManualSave, import_external_save_for_current_rom,
                      GoesOnOrDies
  <2>13. \A dt \in {0, 1} : ~ Paused(dt)
    <3> SUFFICES ASSUME NEW dt \in {0, 1}, Paused(dt) PROVE FALSE
      OBVIOUS
    <3>1. app = "on" /\ m' = apply_to_machine(dt)
      BY <1>1 DEF Paused
    <3>2. m'.t = m.t
      BY <1>1, <3>1, AppliedMachine
    <3> QED BY <2>0, <3>2
  <2>14. set_external_port => ses' = open_with_file_extension(m')
    BY <2>5 DEF set_external_port
  <2> HIDE DEF Late
  <2> QED BY <1>1, <2>1, <2>2, <2>3, <2>9, <2>10, <2>11, <2>12, <2>13, <2>14 DEF Next
<1>2. ASSUME DeskInv, DeskInv', UNCHANGED vars, Late PROVE m'.v = ses'.last.v
  <2>1. m.t \in Nat /\ m' = m
    BY <1>2 DEF DeskInv, MachInv, Machines, vars
  <2> QED BY <1>2, <2>1
<1>3. DeskInv /\ DeskInv' /\ [Next]_vars => [Late => m'.v = ses'.last.v]_vars
  BY <1>1, <1>2
<1> QED BY <1>3, DeskInvariant, PTL DEF Spec, FlushWithinDebounce
=============================================================================
