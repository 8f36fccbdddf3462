-------------------------- MODULE SegmentLogProofs --------------------------
(***************************************************************************)
(* The inductive invariant of the segmented commit log, and the safety     *)
(* properties that follow from it.                                         *)
(*                                                                         *)
(* The properties speak of what a replay of the files yields.  None of     *)
(* them is inductive: a step keeps what a replay yields only if the frames *)
(* are where the shape says, for the point recovery picks now and for the  *)
(* one it will pick behind the next publication or the loss of the         *)
(* prepared checkpoint.  So the invariant (Inv) asks of EVERY point in     *)
(* Points                                                                  *)
(*                                                                         *)
(*   Shape         of SegmentLogReplay;                                    *)
(*   DurablePart   what is durable is behind seals that are synced;        *)
(*   Sound         unless a power loss kept no order; in an open session   *)
(*                 always, since loading checked it;                       *)
(*   OpenPart      what the writer has in hand: the frames of the          *)
(*                 transaction under way are behind the reach of the       *)
(*                 replay, and no seal counts them;                        *)
(*   Aligned       the point enters the newest segment as the start of the *)
(*                 log does, unless a rollback failed (stuck).             *)
(*                                                                         *)
(* The proof that a step keeps it has one lemma for each action.           *)
(***************************************************************************)
EXTENDS SegmentLogReplay

-----------------------------------------------------------------------------
PointInv(p) ==
  /\ Shape(p)
  /\ DurablePart(p)
  /\ mode = "open" \/ ~scrambled => Sound(p)
  /\ mode = "open" => Count(p) = Len(mem.log)

Aligned(p, q) ==
  /\ Entry(p).seals + Len(BaseLog(q)) = Entry(q).seals + Len(BaseLog(p))
  /\ Entry(p).controls + Len(BaseLog(q)) = Entry(q).controls + Len(BaseLog(p))
  /\ Entry(p).events + Len(BaseEvents(q)) = Entry(q).events + Len(BaseEvents(p))

Frame == [commit |-> commit + 1, batch |-> batch]

(* Between Begin and the seal.                                             *)
Writing(p) ==
  /\ ~failed /\ before = Reach(p) /\ before.seals < MaxFrames
  /\ Lengths(disk[Newest]) = extent
  /\ extent.seals = before.seals
  /\ CASE phase = "controls" -> extent = before
       [] phase = "events" -> /\ batch.event
                              /\ extent = [before EXCEPT !.controls = @ + 1]
                              /\ disk[Newest].controls[extent.controls] = Frame
       [] phase = "seals" ->
            /\ extent = [before EXCEPT !.controls = @ + 1,
                                       !.events = IF batch.event THEN @ + 1 ELSE @]
            /\ disk[Newest].controls[extent.controls] = Frame
            /\ batch.event => disk[Newest].events[extent.events] = Frame

OpenPart(p) ==
  /\ phase \in Kinds => Writing(p)
  /\ phase = "rollback" => /\ failed /\ before = Reach(p) /\ before.seals < MaxFrames
                           /\ \A k \in Kinds : before[k] <= extent[k]
                           /\ extent.seals = before.seals
  /\ phase = "idle" /\ ~failed => extent = Reach(p) /\ Lengths(disk[Newest]) = extent
  /\ phase = "idle" /\ failed => /\ stuck
                                 /\ \A k \in Kinds : Reach(p)[k] <= extent[k]
                                 /\ extent.seals = Reach(p).seals
                                 /\ extent.seals < MaxFrames

(* A session that a power loss made unreadable has nothing left to lose.   *)
Refused == \A p \in Points : mode = "open" \/ Sound(p) \/ synced = AllSynced

Inv ==
  /\ TypeOK
  /\ StateInv
  /\ Refused
  /\ \A p \in Points : PointInv(p)
  /\ \A p \in Points : mode = "open" => OpenPart(p)
  /\ ~stuck => \A p \in Points : Aligned(p, Scratch)

-----------------------------------------------------------------------------
(* Counting one more frame in one of the files.                            *)
LEMMA Increment ==
  ASSUME NEW f \in [Kinds -> Nat], NEW kind \in Kinds
  PROVE  [f EXCEPT ![kind] = @ + 1] \in [Kinds -> Nat]
<1> DEFINE more == f[kind] + 1
<1>1. more \in Nat
  OBVIOUS
<1> HIDE DEF more
<1>2. [f EXCEPT ![kind] = more] \in [Kinds -> Nat]
  BY <1>1
<1> QED
  BY <1>2 DEF more


(* The start of the log is a point to replay from,                         *)
LEMMA ScratchType == Scratch \in Checkpoints
<1>1. NoExtent \in [Kinds -> Nat]
  BY DEF NoExtent
<1>2. [k \in Kinds |-> <<>>] \in [Kinds -> Seq(Frames \cup Seals)]
  OBVIOUS
<1>3. NoMem \in [log : Seq(Batches), events : Seq(Batches)]
  BY DEF NoMem
<1> QED
  BY <1>1, <1>2, <1>3 DEF Scratch, Checkpoints

(* and every point is that one, the published checkpoint or the prepared one. *)
LEMMA PointsType ==
  ASSUME TypeOK
  PROVE  /\ Points \subseteq Checkpoints
         /\ checkpoint \in Checkpoints /\ staging \in Checkpoints
         /\ \A p \in Points : p = Scratch \/ p = checkpoint \/ p = staging
BY ScratchType DEF Points, TypeOK

(* A load resumes from the checkpoint if there is one.                     *)
LEMMA ResumeIs ==
  ASSUME Inv
  PROVE  /\ Resume = IF checkpoint.segment # 0 THEN checkpoint ELSE Scratch
         /\ Resume \in Points /\ Resume \in Checkpoints
         /\ Shape(Resume)
<1>1. TypeOK
  BY DEF Inv
<1>2. CASE checkpoint.segment # 0
  <2>1. checkpoint \in Points
    BY <1>2 DEF Points
  <2>2. Shape(checkpoint)
    BY <2>1 DEF Inv, PointInv
  <2>3. Resume = checkpoint
    BY <2>2 DEF Shape, BasePart, Resume
  <2> QED
    BY <1>1, <1>2, <2>1, <2>2, <2>3, PointsType
<1>3. CASE checkpoint.segment = 0
  <2>1. Scratch \in Points
    BY <1>3 DEF Points
  <2>2. Shape(Scratch)
    BY <2>1 DEF Inv, PointInv
  <2>3. Resume = Scratch
    BY <1>3 DEF Resume, Valid
  <2> QED
    BY <1>1, <1>3, <2>1, <2>2, <2>3, PointsType
<1> QED
  BY <1>2, <1>3

(* What the invariant says of a point.                                     *)
LEMMA PointIs ==
  ASSUME Inv, NEW p \in Points
  PROVE  /\ TypeOK /\ StateInv /\ p \in Checkpoints /\ PointInv(p)
         /\ Shape(p) /\ FrozenPart(p) /\ BasePart(p) /\ SealsPart(p)
         /\ ControlsPart(p) /\ EventsPart(p) /\ DurablePart(p)
         /\ mode = "open" => OpenPart(p)
BY PointsType DEF Inv, PointInv, Shape

(* Points that are aligned find the same transactions in the same places.  *)
LEMMA AlignedReach ==
  ASSUME TypeOK, StateInv, NEW p \in Checkpoints, NEW q \in Checkpoints,
         FrozenPart(p), BasePart(p), SealsPart(p), FrozenPart(q), BasePart(q), SealsPart(q),
         Aligned(p, q)
  PROVE  Count(p) = Count(q) /\ Reach(p) = Reach(q)
<1>1. /\ Len(BaseLog(p)) \in Nat /\ Entry(p).seals \in Nat /\ Entry(p).controls \in Nat
      /\ Entry(p).events \in Nat /\ Len(BaseEvents(p)) \in Nat
  BY BaseFacts
<1>2. /\ Len(BaseLog(q)) \in Nat /\ Entry(q).seals \in Nat /\ Entry(q).controls \in Nat
      /\ Entry(q).events \in Nat /\ Len(BaseEvents(q)) \in Nat
  BY BaseFacts
<1>3. LastSeal(Newest) \in Nat /\ EventCount(Count(p)) \in Nat
  BY PointFacts
<1> DEFINE lp == Len(BaseLog(p))
           lq == Len(BaseLog(q))
           hp == Len(BaseEvents(p))
           hq == Len(BaseEvents(q))
           ep == Entry(p)
           eq == Entry(q)
           z == LastSeal(Newest)
           v == EventCount(Count(p))
<1>4. /\ lp \in Nat /\ lq \in Nat /\ hp \in Nat /\ hq \in Nat /\ z \in Nat /\ v \in Nat
      /\ ep.seals \in Nat /\ ep.controls \in Nat /\ ep.events \in Nat
      /\ eq.seals \in Nat /\ eq.controls \in Nat /\ eq.events \in Nat
  BY <1>1, <1>2, <1>3
<1>5. /\ ep.seals + lq = eq.seals + lp
      /\ ep.controls + lq = eq.controls + lp
      /\ ep.events + hq = eq.events + hp
  BY DEF Aligned
<1>6. /\ Count(p) = lp + z - ep.seals
      /\ Count(q) = lq + z - eq.seals
  BY DEF Count
<1>7. /\ Reach(p) = [controls |-> ep.controls + z - ep.seals, events |-> ep.events + v - hp,
                     seals |-> z]
      /\ Reach(q) = [controls |-> eq.controls + z - eq.seals,
                     events |-> eq.events + EventCount(Count(q)) - hq, seals |-> z]
  BY DEF Reach
<1> HIDE DEF lp, lq, hp, hq, ep, eq, z
<1>8. lp + z - ep.seals = lq + z - eq.seals
  BY ONLY <1>4, <1>5
<1>12. ep.controls + z - ep.seals = eq.controls + z - eq.seals
  BY ONLY <1>4, <1>5
<1>9. Count(p) = Count(q)
  BY <1>6, <1>8
<1>10. v = EventCount(Count(q))
  BY <1>9
<1> HIDE DEF v
<1>11. ep.events + v - hp = eq.events + v - hq
  BY ONLY <1>4, <1>5
<1> QED
  BY <1>7, <1>9, <1>10, <1>11, <1>12

(* The invariant implies each of the properties.                           *)
LEMMA InvCrashKeepsCommits == Inv => CrashKeepsCommits
<1> SUFFICES ASSUME Inv, mode = "open"
             PROVE  Replayable(Resume) /\ Recovered(Resume) = mem
  BY DEF CrashKeepsCommits
<1>1. Resume \in Points /\ Resume \in Checkpoints /\ Shape(Resume)
  BY ResumeIs
<1>2. TypeOK /\ StateInv /\ PointInv(Resume)
  BY <1>1, PointIs
<1>3. Sound(Resume) /\ Count(Resume) = Len(mem.log)
  BY <1>2 DEF PointInv
<1>4. Replayable(Resume)
  BY <1>1, <1>2, <1>3, ReplayableIff
<1>5. Recovered(Resume) = [log |-> SubSeq(mem.log, 1, Len(mem.log)),
                           events |-> EventsOf(SubSeq(mem.log, 1, Len(mem.log)))]
  BY <1>1, <1>2, <1>3, Recovers
<1>6. mem.log \in Seq(Batches) /\ mem = [log |-> mem.log, events |-> mem.events]
  BY <1>2, MemTypes
<1>7. SubSeq(mem.log, 1, Len(mem.log)) = mem.log
  BY <1>6, SubSeqFull
<1>8. mem.events = EventsOf(mem.log)
  BY <1>2 DEF StateInv
<1> QED
  BY <1>4, <1>5, <1>6, <1>7, <1>8

(* A log that is sound, or whose loss kept no order, as the property allows. *)
LEMMA InvOrderedLossReadable == Inv => OrderedLossReadable
<1> SUFFICES ASSUME Inv, ~scrambled PROVE Replayable(Resume)
  BY DEF OrderedLossReadable
<1>1. Resume \in Points /\ Resume \in Checkpoints /\ Shape(Resume)
  BY ResumeIs
<1>2. TypeOK /\ StateInv /\ PointInv(Resume)
  BY <1>1, PointIs
<1>3. Sound(Resume)
  BY <1>2 DEF PointInv
<1> QED
  BY <1>1, <1>2, <1>3, ReplayableIff

(* What is durable is in what every point recovers.                        *)
LEMMA InvFlushedSurvives == Inv => FlushedSurvives
<1> SUFFICES ASSUME Inv, Replayable(Resume), NEW r, r = Recovered(Resume)
             PROVE  IsPrefix(r.log, mem.log) /\ durable <= Len(r.log) /\ r.events = EventsOf(r.log)
  BY DEF FlushedSurvives
<1>1. Resume \in Points /\ Resume \in Checkpoints /\ Shape(Resume)
  BY ResumeIs
<1>2. TypeOK /\ StateInv /\ PointInv(Resume)
  BY <1>1, PointIs
<1>3. Sound(Resume)
  BY <1>1, <1>2, ReplayableIff
<1> DEFINE c == Count(Resume)
<1>4. r = [log |-> SubSeq(mem.log, 1, c), events |-> EventsOf(SubSeq(mem.log, 1, c))]
  BY <1>1, <1>2, <1>3, Recovers
<1>5. c \in 0 .. Len(mem.log) /\ mem.log \in Seq(Batches) /\ Len(mem.log) \in Nat
  <2>1. c \in Nat /\ c <= Len(mem.log)
    BY <1>1, <1>2, PointFacts DEF Shape
  <2> QED
    BY <2>1, <1>2, MemTypes
<1>6. durable <= c
  BY <1>2 DEF PointInv, DurablePart
<1> HIDE DEF c
<1>7. Len(SubSeq(mem.log, 1, c)) = c
  BY <1>5, PrefixFacts
<1>8. IsPrefix(SubSeq(mem.log, 1, c), mem.log)
  <2> SUFFICES ASSUME NEW s, s = SubSeq(mem.log, 1, c) PROVE IsPrefix(s, mem.log)
    OBVIOUS
  <2>1. Len(s) = c /\ Len(s) <= Len(mem.log) /\ s \in Seq(Batches)
    BY <1>5, <1>7, PrefixFacts
  <2>2. SubSeq(s, 1, Len(s)) = s
    BY <2>1, SubSeqFull
  <2> QED
    BY <2>1, <2>2 DEF IsPrefix
<1> HIDE DEF IsPrefix
<1>9. ASSUME NEW s, s = SubSeq(mem.log, 1, c)
      PROVE  IsPrefix(r.log, mem.log) /\ durable <= Len(r.log) /\ r.events = EventsOf(r.log)
  <2>1. r.log = s /\ r.events = EventsOf(s)
    BY ONLY <1>4, <1>9
  <2>2. IsPrefix(s, mem.log) /\ Len(s) = c
    BY <1>7, <1>8, <1>9
  <2> QED
    BY ONLY <2>1, <2>2, <1>6
<1> QED
  BY <1>9

(* Aligned points recover the same.                                        *)
LEMMA InvCheckpointRebuilds == Inv => CheckpointRebuilds
<1> SUFFICES ASSUME Inv, ~stuck, Replayable(Resume)
             PROVE  Replayable(Scratch) /\ Recovered(Scratch) = Recovered(Resume)
  BY DEF CheckpointRebuilds, CheckpointDisposable
<1>1. Resume \in Points /\ Resume \in Checkpoints /\ Scratch \in Points /\ Scratch \in Checkpoints
  BY ResumeIs, ScratchType DEF Points
<1>2. TypeOK /\ StateInv /\ Shape(Resume) /\ Shape(Scratch) /\ Aligned(Resume, Scratch)
  BY <1>1, PointIs DEF Inv
<1>3. Sound(Resume)
  BY <1>1, <1>2, ReplayableIff
<1>4. Count(Resume) = Count(Scratch) /\ Reach(Resume) = Reach(Scratch)
  BY <1>1, <1>2, AlignedReach DEF Shape
<1>5. Sound(Scratch)
  BY <1>3, <1>4 DEF Sound
<1>6. Replayable(Scratch)
  BY <1>1, <1>2, <1>5, ReplayableIff
<1>7. /\ Recovered(Scratch) = [log |-> SubSeq(mem.log, 1, Count(Scratch)),
                              events |-> EventsOf(SubSeq(mem.log, 1, Count(Scratch)))]
      /\ Recovered(Resume) = [log |-> SubSeq(mem.log, 1, Count(Resume)),
                              events |-> EventsOf(SubSeq(mem.log, 1, Count(Resume)))]
  BY <1>1, <1>2, <1>3, <1>5, Recovers
<1> QED
  BY <1>4, <1>6, <1>7

(* Files that end at the reach hold nothing else.                          *)
LEMMA InvUncommittedDiscarded == Inv => UncommittedDiscarded
<1> SUFFICES ASSUME Inv, Idle, ~failed
             PROVE  extent = RecoveredExtent(Resume) /\ Lengths(disk[Newest]) = extent
  BY DEF UncommittedDiscarded
<1>1. Resume \in Points /\ Resume \in Checkpoints /\ Shape(Resume)
  BY ResumeIs
<1>2. TypeOK /\ StateInv /\ OpenPart(Resume)
  BY <1>1, PointIs DEF Idle
<1>3. extent = Reach(Resume) /\ Lengths(disk[Newest]) = extent
  BY <1>2 DEF OpenPart, Idle
<1>4. RecoveredExtent(Resume) = Reach(Resume)
  BY <1>1, <1>2, RecoversExtent DEF Shape
<1> QED
  BY <1>3, <1>4

-----------------------------------------------------------------------------
(***************************************************************************)
(* What a step leaves as it was.                                           *)
(***************************************************************************)

(* A segment whose files stay is read as before.                           *)
LEMMA SegmentKept ==
  ASSUME NEW s, disk'[s] = disk[s], NEW p
  PROVE  /\ LastSeal(s)' = LastSeal(s)
         /\ SealsOf(p, s)' = SealsOf(p, s)
         /\ \A kind : FramesOf(p, s, kind)' = FramesOf(p, s, kind)
         /\ SegmentReplayable(p, s)' = SegmentReplayable(p, s)
<1>1. LastSeal(s)' = LastSeal(s)
  BY DEF LastSeal
<1>2. \A i : CoveredBy(p, s, i)' = CoveredBy(p, s, i)
  BY DEF CoveredBy
<1>3. SealsOf(p, s)' = SealsOf(p, s)
  BY <1>1 DEF SealsOf
<1>4. \A kind : FramesOf(p, s, kind)' = FramesOf(p, s, kind)
  BY <1>1, <1>2 DEF FramesOf
<1>5. SegmentReplayable(p, s)' = SegmentReplayable(p, s)
  BY <1>1, <1>2 DEF SegmentReplayable
<1> QED
  BY <1>1, <1>3, <1>4, <1>5

(* The step works on the newest segment only.                              *)
OlderSame == Newest' = Newest /\ \A s \in 1 .. Newest - 1 : disk'[s] = disk[s]

(* So is everything in front of the newest segment when the closed ones stay. *)
LEMMA OlderKept ==
  ASSUME TypeOK, Newest # 0, OlderSame, NEW p \in Checkpoints, p.segment \in 1 .. Newest
  PROVE  /\ Entry(p)' = Entry(p)
         /\ BaseLog(p)' = BaseLog(p)
         /\ BaseEvents(p)' = BaseEvents(p)
         /\ FrozenPart(p)' = FrozenPart(p)
<1>1. Newest' = Newest /\ Newest \in Nat /\ p.segment \in Nat
  BY DiskTypes DEF OlderSame
<1>2. \A s \in p.segment .. Newest - 1 : disk'[s] = disk[s]
  BY <1>1 DEF OlderSame
<1>3. \A s \in p.segment .. Newest - 1 :
        /\ SealsOf(p, s)' = SealsOf(p, s)
        /\ \A kind : FramesOf(p, s, kind)' = FramesOf(p, s, kind)
        /\ SegmentReplayable(p, s)' = SegmentReplayable(p, s)
  BY <1>2, SegmentKept
<1>4. \A n \in 1 .. Newest - p.segment : p.segment + n - 1 \in p.segment .. Newest - 1
  BY <1>1
<1>5. OlderSeals(p)' = OlderSeals(p)
  BY <1>1, <1>3, <1>4 DEF OlderSeals
<1>6. \A kind : Older(p, kind)' = Older(p, kind)
  BY <1>1, <1>3, <1>4 DEF Older
<1>7. Entry(p)' = Entry(p)
  BY <1>1 DEF Entry
<1>8. BaseLog(p)' = BaseLog(p) /\ BaseEvents(p)' = BaseEvents(p)
  BY <1>6 DEF BaseLog, BaseEvents
<1>9. \A kind : OlderRead(p, kind)' = OlderRead(p, kind)
  BY <1>1, <1>3 DEF OlderRead
<1>10. FrozenPart(p)' = FrozenPart(p)
  BY <1>1, <1>3, <1>5, <1>6, <1>9 DEF FrozenPart
<1> QED
  BY <1>7, <1>8, <1>10

(* The files of the newest segment,                                        *)
LEMMA NewestTypes ==
  TypeOK /\ StateInv =>
    /\ Newest \in Nat /\ Newest \in 1 .. Newest /\ Newest # 0
    /\ \A s \in 1 .. Newest : disk[s] \in Segments
    /\ disk[Newest] \in Segments
    /\ disk[Newest].controls \in Seq(Frames) /\ disk[Newest].events \in Seq(Frames)
    /\ disk[Newest].seals \in Seq(Seals)
    /\ \A k \in Kinds : Len(disk[Newest][k]) \in Nat
    /\ LastSeal(Newest) \in 0 .. Len(disk[Newest].seals) /\ LastSeal(Newest) \in Nat
<1> SUFFICES ASSUME TypeOK, StateInv
             PROVE  /\ Newest \in Nat /\ Newest \in 1 .. Newest /\ Newest # 0
                    /\ \A s \in 1 .. Newest : disk[s] \in Segments
                    /\ disk[Newest] \in Segments
                    /\ disk[Newest].controls \in Seq(Frames) /\ disk[Newest].events \in Seq(Frames)
                    /\ disk[Newest].seals \in Seq(Seals)
                    /\ \A k \in Kinds : Len(disk[Newest][k]) \in Nat
                    /\ LastSeal(Newest) \in 0 .. Len(disk[Newest].seals)
                    /\ LastSeal(Newest) \in Nat
  OBVIOUS
<1>1. Newest # 0
  BY DEF StateInv
<1>2. /\ Newest \in Nat /\ Newest \in 1 .. Newest
      /\ \A s \in 1 .. Newest : /\ disk[s] \in Segments
                                /\ disk[s].controls \in Seq(Frames)
                                /\ disk[s].events \in Seq(Frames)
                                /\ disk[s].seals \in Seq(Seals)
                                /\ LastSeal(s) \in 0 .. Len(disk[s].seals)
  BY <1>1, DiskTypes
<1>3. ASSUME NEW k \in Kinds PROVE Len(disk[Newest][k]) \in Nat
  BY <1>2, KindsAre
<1>4. LastSeal(Newest) \in Nat
  BY <1>2
<1> QED
  BY <1>1, <1>2, <1>3, <1>4

(* before and after a step.                                                *)
LEMMA NewestTypesNext ==
  (TypeOK /\ StateInv =>
    /\ Newest \in Nat /\ Newest \in 1 .. Newest /\ Newest # 0
    /\ \A s \in 1 .. Newest : disk[s] \in Segments
    /\ disk[Newest] \in Segments
    /\ disk[Newest].controls \in Seq(Frames) /\ disk[Newest].events \in Seq(Frames)
    /\ disk[Newest].seals \in Seq(Seals)
    /\ \A k \in Kinds : Len(disk[Newest][k]) \in Nat
    /\ LastSeal(Newest) \in 0 .. Len(disk[Newest].seals) /\ LastSeal(Newest) \in Nat)'
BY NewestTypes, PTL

(* Of the first n frames of a file each is left as it was or torn.         *)
Fades(old, new, n) ==
  \A j \in 1 .. Len(new) :
    j <= n => new[j].commit = 0 \/ (j <= Len(old) /\ new[j] = old[j])

(* The first n frames of a file are left as they were.                     *)
Keeps(old, new, n) == n <= Len(new) /\ \A j \in 1 .. n : new[j] = old[j]

(* How far the transactions of the session reach in the newest segment.    *)
Held(p) == [controls |-> Entry(p).controls + Len(mem.log) - Len(BaseLog(p)),
            events |-> Entry(p).events + Len(mem.events) - Len(BaseEvents(p))]

(* A prefix of a prefix.                                                   *)
LEMMA PrefixOfPrefix ==
  ASSUME NEW S, NEW s \in Seq(S), NEW c \in 0 .. Len(s), NEW n \in 0 .. c
  PROVE  SubSeq(SubSeq(s, 1, c), 1, n) = SubSeq(s, 1, n)
<1>1. c \in Nat /\ n \in Nat /\ Len(s) \in Nat /\ n \in 0 .. Len(s)
  OBVIOUS
<1>2. /\ SubSeq(s, 1, c) \in Seq(S) /\ Len(SubSeq(s, 1, c)) = c
      /\ \A j \in 1 .. c : SubSeq(s, 1, c)[j] = s[j]
  BY PrefixFacts
<1>3. /\ SubSeq(s, 1, n) \in Seq(S) /\ Len(SubSeq(s, 1, n)) = n
      /\ \A j \in 1 .. n : SubSeq(s, 1, n)[j] = s[j]
  BY <1>1, PrefixFacts
<1> SUFFICES ASSUME NEW u, u = SubSeq(s, 1, c), NEW v, v = SubSeq(s, 1, n)
             PROVE  SubSeq(u, 1, n) = v
  OBVIOUS
<1>4. /\ SubSeq(u, 1, n) \in Seq(S) /\ Len(SubSeq(u, 1, n)) = n
      /\ \A j \in 1 .. n : SubSeq(u, 1, n)[j] = u[j]
  BY <1>2, PrefixFacts
<1>5. \A j \in 1 .. n : SubSeq(u, 1, n)[j] = v[j]
  <2> SUFFICES ASSUME NEW j \in 1 .. n PROVE SubSeq(u, 1, n)[j] = v[j]
    OBVIOUS
  <2>1. j \in 1 .. c
    BY <1>1
  <2> QED
    BY <2>1, <1>2, <1>3, <1>4
<1> QED
  BY <1>3, <1>4, <1>5, SeqEqual

(* What the session holds after the step is a prefix of what it held.      *)
MemCut(c) == mem'.log = SubSeq(mem.log, 1, c) /\ mem'.events = EventsOf(mem'.log)

(* A session cut to its first c transactions has the first of its events.  *)
LEMMA MemCutFacts ==
  ASSUME TypeOK, StateInv, NEW c \in 0 .. Len(mem.log), MemCut(c)
  PROVE  /\ Len(mem'.log) = c
         /\ \A n \in 1 .. c : mem'.log[n] = mem.log[n]
         /\ \A n \in 0 .. c : EventCount(n)' = EventCount(n) /\ EventCount(n) \in Nat
         /\ \A n \in 0 .. c : SubSeq(mem'.log, 1, n) = SubSeq(mem.log, 1, n)
         /\ Len(mem'.events) = EventCount(c) /\ EventCount(c) <= Len(mem.events)
         /\ \A n \in 1 .. EventCount(c) : mem'.events[n] = mem.events[n]
<1>1. mem.log \in Seq(Batches) /\ mem.events \in Seq(Batches) /\ Len(mem.log) \in Nat
      /\ Len(mem.events) \in Nat /\ c \in Nat
  BY MemTypes
<1>2. mem.events = EventsOf(mem.log)
  BY DEF StateInv
<1>3. /\ Len(SubSeq(mem.log, 1, c)) = c
      /\ \A j \in 1 .. c : SubSeq(mem.log, 1, c)[j] = mem.log[j]
  BY <1>1, PrefixFacts
<1>4. \A n \in 0 .. c : SubSeq(mem'.log, 1, n) = SubSeq(mem.log, 1, n)
  BY <1>1, PrefixOfPrefix DEF MemCut
<1>5. \A n \in 0 .. c : EventCount(n)' = EventCount(n)
  BY <1>4 DEF EventCount
<1>6. /\ EventCount(c) \in Nat /\ EventCount(c) <= Len(mem.events)
      /\ EventsOf(SubSeq(mem.log, 1, c)) = SubSeq(mem.events, 1, EventCount(c))
      /\ \A n \in 0 .. c : EventCount(n) \in Nat
  BY <1>2, EventCountFacts
<1>7. mem'.events = SubSeq(mem.events, 1, EventCount(c))
  BY <1>6 DEF MemCut
<1>8. /\ Len(SubSeq(mem.events, 1, EventCount(c))) = EventCount(c)
      /\ \A j \in 1 .. EventCount(c) : SubSeq(mem.events, 1, EventCount(c))[j] = mem.events[j]
  <2>1. EventCount(c) \in 0 .. Len(mem.events)
    BY <1>1, <1>6
  <2> QED
    BY <2>1, <1>1, PrefixFacts
<1> QED
  BY <1>3, <1>4, <1>5, <1>6, <1>7, <1>8 DEF MemCut

(* A session that stays is cut to its length.                              *)
LEMMA MemSame ==
  ASSUME TypeOK, StateInv, mem' = mem
  PROVE  MemCut(Len(mem.log)) /\ Len(mem.log) \in 0 .. Len(mem.log)
<1>1. mem.log \in Seq(Batches) /\ Len(mem.log) \in Nat /\ mem.events = EventsOf(mem.log)
  BY MemTypes DEF StateInv
<1>2. SubSeq(mem.log, 1, Len(mem.log)) = mem.log
  BY <1>1, SubSeqFull
<1> QED
  BY <1>1, <1>2 DEF MemCut

(* A checkpoint fits the files as long as the frames up to it are there.   *)
LEMMA ValidKept ==
  ASSUME TypeOK, StateInv, OlderSame, NEW p \in Checkpoints, Valid(p),
         \A k \in Kinds : Keeps(disk[Newest][k], disk'[Newest][k], Entry(p)[k])
  PROVE  Valid(p)'
<1>1. /\ p.segment \in 1 .. Newest /\ Newest' = Newest
      /\ \A k \in Kinds : /\ Len(disk[p.segment][k]) >= p.extent[k]
                          /\ EndsAt(disk[p.segment][k], p.extent[k]) = p.ends[k]
  BY DEF Valid, OlderSame
<1>2. Newest \in Nat /\ p.segment \in Nat /\ \A k \in Kinds : p.extent[k] \in Nat
  BY NewestTypes DEF Checkpoints
<1>3. CASE p.segment # Newest
  <2>1. disk'[p.segment] = disk[p.segment]
    BY <1>1, <1>2, <1>3 DEF OlderSame
  <2> QED
    BY <2>1, <1>1 DEF Valid
<1>4. CASE p.segment = Newest
  <2>1. Entry(p) = p.extent
    BY <1>4 DEF Entry, StartOf
  <2> SUFFICES ASSUME NEW k \in Kinds
               PROVE  /\ Len(disk'[Newest][k]) >= p.extent[k]
                      /\ EndsAt(disk'[Newest][k], p.extent[k]) = p.ends[k]
    BY <1>1, <1>4 DEF Valid
  <2>2. /\ p.extent[k] <= Len(disk'[Newest][k])
        /\ \A j \in 1 .. p.extent[k] : disk'[Newest][k][j] = disk[Newest][k][j]
    BY <2>1 DEF Keeps
  <2>3. EndsAt(disk[Newest][k], p.extent[k]) = p.ends[k]
    BY <1>1, <1>4
  <2>4. CASE p.extent[k] = 0
    BY <2>2, <2>3, <2>4 DEF EndsAt
  <2>5. CASE p.extent[k] # 0
    <3>1. p.extent[k] \in 1 .. p.extent[k]
      BY <2>5, <1>2
    <3> QED
      BY <3>1, <2>2, <2>3, <2>5 DEF EndsAt
  <2> QED
    BY <2>4, <2>5
<1> QED
  BY <1>3, <1>4

(* A step that leaves the frames in front of the entry keeps BasePart.     *)
LEMMA BaseKept ==
  ASSUME TypeOK, StateInv, OlderSame, NEW p \in Checkpoints, FrozenPart(p), BasePart(p),
         NEW c \in 0 .. Len(mem.log), MemCut(c), Len(BaseLog(p)) <= c,
         \A k \in Kinds : Keeps(disk[Newest][k], disk'[Newest][k], Entry(p)[k]),
         \A k \in Kinds : Entry(p)[k] <= synced'[k]
  PROVE  BasePart(p)'
<1>1. /\ Entry(p)' = Entry(p) /\ BaseLog(p)' = BaseLog(p) /\ BaseEvents(p)' = BaseEvents(p)
      /\ Newest' = Newest
  BY BaseFacts, OlderKept DEF OlderSame, StateInv
<1>2. Valid(p)' /\ p.commit = Len(p.mem.log) /\ BaseEvents(p) = EventsOf(BaseLog(p))
  BY ValidKept DEF BasePart
<1>3. IsPrefix(BaseLog(p), mem'.log)
  <2>1. /\ BaseLog(p) \in Seq(Batches) /\ Len(BaseLog(p)) \in Nat
        /\ BaseLog(p) = SubSeq(mem.log, 1, Len(BaseLog(p)))
    BY BaseFacts
  <2>2. Len(BaseLog(p)) \in 0 .. c
    BY <2>1
  <2>3. Len(mem'.log) = c /\ SubSeq(mem'.log, 1, Len(BaseLog(p))) = BaseLog(p)
    BY <2>1, <2>2, MemCutFacts
  <2>4. SubSeq(BaseLog(p), 1, Len(BaseLog(p))) = BaseLog(p)
    BY <2>1, SubSeqFull
  <2> QED
    BY <2>3, <2>4 DEF IsPrefix
<1>4. ASSUME NEW k \in Kinds
      PROVE  WholeUpto(disk'[Newest][k], Entry(p)[k])
  BY DEF BasePart, WholeUpto, Keeps
<1> QED
  BY <1>1, <1>2, <1>3, <1>4 DEF BasePart

(* The seal a transaction must have does not change with the step.         *)
LEMMA SealSame ==
  ASSUME TypeOK, StateInv, OlderSame, NEW p \in Checkpoints, p.segment \in 1 .. Newest,
         NEW c \in 0 .. Len(mem.log), MemCut(c), NEW n \in 0 .. c
  PROVE  Seal(p, n)' = Seal(p, n)
<1>1. Entry(p)' = Entry(p) /\ BaseLog(p)' = BaseLog(p) /\ BaseEvents(p)' = BaseEvents(p)
  BY OlderKept DEF StateInv
<1>2. EventCount(n)' = EventCount(n)
  BY MemCutFacts
<1> QED
  BY <1>1, <1>2 DEF Seal

(* A step that appends no whole seal and alters none keeps SealsPart.      *)
LEMMA SealsKept ==
  ASSUME TypeOK, StateInv, TypeOK', StateInv', OlderSame, NEW p \in Checkpoints,
         FrozenPart(p), BasePart(p), SealsPart(p),
         NEW c \in 0 .. Len(mem.log), MemCut(c),
         c = Len(mem.log)
           \/ Len(disk'[Newest].seals) + Len(BaseLog(p)) <= c + Entry(p).seals,
         Fades(disk[Newest].seals, disk'[Newest].seals, Len(disk'[Newest].seals))
  PROVE  SealsPart(p)'
<1>1. /\ Entry(p)' = Entry(p) /\ BaseLog(p)' = BaseLog(p) /\ BaseEvents(p)' = BaseEvents(p)
      /\ Newest' = Newest
  BY BaseFacts, OlderKept DEF OlderSame, StateInv
<1>2. /\ Entry(p).seals \in Nat /\ Len(BaseLog(p)) \in Nat /\ p.segment \in 1 .. Newest
      /\ Len(BaseLog(p)) <= Len(mem.log)
  BY BaseFacts
<1>3. /\ Len(disk'[Newest].seals) \in Nat /\ Len(disk[Newest].seals) \in Nat
      /\ Len(mem.log) \in Nat
  BY <1>1, NewestTypes, NewestTypesNext, MemTypes
<1>4. Len(mem'.log) = c
  BY MemCutFacts
<1> SUFFICES ASSUME NEW i \in Entry(p).seals + 1 .. Len(disk'[Newest].seals),
                    disk'[Newest].seals[i].commit # 0,
                    NEW n, n = Len(BaseLog(p)) + i - Entry(p).seals
             PROVE  n <= c /\ disk'[Newest].seals[i] = Seal(p, n)'
  BY <1>1, <1>4 DEF SealsPart
<1>5. /\ i \in 1 .. Len(disk'[Newest].seals) /\ i <= Len(disk'[Newest].seals) /\ i \in Nat
      /\ n \in Nat
  <2> DEFINE l == Len(BaseLog(p))
             x == Entry(p).seals
             z == Len(disk'[Newest].seals)
  <2>1. l \in Nat /\ x \in Nat /\ z \in Nat /\ i \in x + 1 .. z /\ n = l + i - x
    BY <1>2, <1>3
  <2> HIDE DEF l, x, z
  <2>2. i \in 1 .. z /\ i <= z /\ i \in Nat /\ n \in Nat
    BY ONLY <2>1
  <2> QED
    BY <2>2 DEF z
<1>6. i <= Len(disk[Newest].seals) /\ disk'[Newest].seals[i] = disk[Newest].seals[i]
  BY <1>5 DEF Fades
<1>7. i \in Entry(p).seals + 1 .. Len(disk[Newest].seals)
  BY <1>2, <1>3, <1>5, <1>6
<1>8. n <= Len(mem.log) /\ disk[Newest].seals[i] = Seal(p, n)
  BY <1>6, <1>7 DEF SealsPart
<1>9. n <= c
  <2>1. CASE c = Len(mem.log)
    BY <2>1, <1>8
  <2>2. CASE Len(disk'[Newest].seals) + Len(BaseLog(p)) <= c + Entry(p).seals
    <3> DEFINE l == Len(BaseLog(p))
               x == Entry(p).seals
               z == Len(disk'[Newest].seals)
    <3>1. l \in Nat /\ x \in Nat /\ z \in Nat /\ z + l <= c + x /\ i <= z /\ n = l + i - x
      BY <2>2, <1>2, <1>3, <1>5
    <3> HIDE DEF l, x, z
    <3> QED
      BY ONLY <3>1, <1>5, c \in Nat
  <2> QED
    BY <2>1, <2>2
<1>10. Seal(p, n)' = Seal(p, n)
  <2>1. n \in 0 .. c
    BY <1>5, <1>9
  <2> QED
    BY <2>1, <1>2, SealSame
<1> QED
  BY <1>6, <1>8, <1>9, <1>10

(* A step that puts no other frame in a transaction's place keeps ControlsPart. *)
LEMMA ControlsKept ==
  ASSUME TypeOK, StateInv, TypeOK', StateInv', OlderSame, NEW p \in Checkpoints,
         FrozenPart(p), BasePart(p), ControlsPart(p),
         NEW c \in 0 .. Len(mem.log), MemCut(c),
         Fades(disk[Newest].controls, disk'[Newest].controls, Held(p).controls)
  PROVE  ControlsPart(p)'
<1>1. Entry(p)' = Entry(p) /\ BaseLog(p)' = BaseLog(p) /\ Newest' = Newest
  BY BaseFacts, OlderKept DEF OlderSame, StateInv
<1>2. /\ Entry(p).controls \in Nat /\ Len(BaseLog(p)) \in Nat
      /\ Len(BaseLog(p)) <= Len(mem.log)
  BY BaseFacts
<1>3. /\ Len(disk'[Newest].controls) \in Nat /\ Len(disk[Newest].controls) \in Nat
      /\ Len(mem.log) \in Nat
  <2>1. \A k \in Kinds : Len(disk[Newest][k]) \in Nat
    BY NewestTypes
  <2>2. \A k \in Kinds : Len(disk'[Newest][k]) \in Nat
    BY <1>1, NewestTypesNext
  <2> QED
    BY <2>1, <2>2, MemTypes, KindsAre
<1>4. Len(mem'.log) = c /\ \A n \in 1 .. c : mem'.log[n] = mem.log[n]
  BY MemCutFacts
<1> DEFINE new == disk'[Newest].controls
           old == disk[Newest].controls
<1> SUFFICES ASSUME NEW n \in Len(BaseLog(p)) + 1 .. c,
                    NEW j, j = Entry(p).controls + n - Len(BaseLog(p)),
                    j <= Len(new), new[j].commit # 0
             PROVE  new[j] = [commit |-> n, batch |-> mem'.log[n]]
  BY <1>1, <1>4 DEF ControlsPart
<1>5. /\ n \in 1 .. c /\ n \in Len(BaseLog(p)) + 1 .. Len(mem.log)
      /\ j \in 1 .. Len(new) /\ j <= Held(p).controls
  <2>1. n \in Nat /\ Len(BaseLog(p)) + 1 <= n /\ n <= c /\ c <= Len(mem.log) /\ c \in Nat
    BY <1>2, <1>3
  <2> DEFINE l == Len(BaseLog(p))
             y == Entry(p).controls
             m == Len(mem.log)
             h == Held(p).controls
             z == Len(new)
  <2>2. /\ l \in Nat /\ y \in Nat /\ m \in Nat /\ z \in Nat /\ l <= m /\ h = y + m - l
        /\ n \in Nat /\ l + 1 <= n /\ n <= c /\ c <= m /\ c \in Nat
        /\ j = y + n - l /\ j <= z
    BY <2>1, <1>2, <1>3 DEF Held
  <2> HIDE DEF l, y, m, h, z
  <2>3. n \in 1 .. c /\ n \in l + 1 .. m /\ j \in 1 .. z /\ j <= h
    BY ONLY <2>2
  <2> QED
    BY <2>3 DEF l, m, h, z
<1>6. j <= Len(old) /\ new[j] = old[j]
  BY <1>5 DEF Fades
<1>7. old[j] = [commit |-> n, batch |-> mem.log[n]]
  BY <1>5, <1>6 DEF ControlsPart
<1> QED
  BY <1>4, <1>5, <1>6, <1>7

(* The same for the events.                                                *)
LEMMA EventsKept ==
  ASSUME TypeOK, StateInv, TypeOK', StateInv', OlderSame, NEW p \in Checkpoints,
         FrozenPart(p), BasePart(p), EventsPart(p),
         NEW c \in 0 .. Len(mem.log), MemCut(c),
         Fades(disk[Newest].events, disk'[Newest].events, Held(p).events)
  PROVE  EventsPart(p)'
<1>1. Entry(p)' = Entry(p) /\ BaseEvents(p)' = BaseEvents(p) /\ Newest' = Newest
  BY BaseFacts, OlderKept DEF OlderSame, StateInv
<1>2. /\ Entry(p).events \in Nat /\ Len(BaseEvents(p)) \in Nat
      /\ Len(BaseEvents(p)) <= Len(mem.events)
  BY BaseFacts
<1>3. /\ Len(disk'[Newest].events) \in Nat /\ Len(disk[Newest].events) \in Nat
      /\ Len(mem.events) \in Nat
  <2>1. \A k \in Kinds : Len(disk[Newest][k]) \in Nat
    BY NewestTypes
  <2>2. \A k \in Kinds : Len(disk'[Newest][k]) \in Nat
    BY <1>1, NewestTypesNext
  <2> QED
    BY <2>1, <2>2, MemTypes, KindsAre
<1> DEFINE h == EventCount(c)
           new == disk'[Newest].events
           old == disk[Newest].events
<1>4. /\ Len(mem'.events) = h /\ h <= Len(mem.events) /\ h \in Nat
      /\ \A n \in 1 .. h : mem'.events[n] = mem.events[n]
  <2>1. c \in 0 .. c
    OBVIOUS
  <2> QED
    BY <2>1, MemCutFacts
<1> HIDE DEF h
<1> SUFFICES ASSUME NEW n \in Len(BaseEvents(p)) + 1 .. h,
                    NEW j, j = Entry(p).events + n - Len(BaseEvents(p)),
                    j <= Len(new), new[j].commit # 0
             PROVE  new[j].batch = mem'.events[n]
  BY <1>1, <1>4 DEF EventsPart
<1>5. /\ n \in 1 .. h /\ n \in Len(BaseEvents(p)) + 1 .. Len(mem.events)
      /\ j \in 1 .. Len(new) /\ j <= Held(p).events
  <2>1. n \in Nat /\ Len(BaseEvents(p)) + 1 <= n /\ n <= h
    BY <1>2, <1>4
  <2>2. Held(p).events = Entry(p).events + Len(mem.events) - Len(BaseEvents(p))
    BY DEF Held
  <2>3. n <= Len(mem.events)
    BY <2>1, <1>3, <1>4
  <2>4. n \in 1 .. h /\ n \in Len(BaseEvents(p)) + 1 .. Len(mem.events)
    BY <2>1, <2>3, <1>2, <1>3, <1>4
  <2> DEFINE l == Len(BaseEvents(p))
             x == Entry(p).events
             z == Len(mem.events)
  <2>5. l \in Nat /\ x \in Nat /\ z \in Nat /\ n <= z /\ l + 1 <= n /\ j = x + n - l
        /\ Held(p).events = x + z - l
    BY <2>1, <2>2, <2>3, <1>2, <1>3
  <2> HIDE DEF new, l, x, z
  <2>6. 1 <= j /\ j \in Nat /\ j <= Held(p).events
    BY ONLY <2>1, <2>5
  <2> QED
    BY <2>4, <2>6, <1>3 DEF new
<1>6. j <= Len(old) /\ new[j] = old[j]
  BY <1>5 DEF Fades
<1>7. old[j].batch = mem.events[n]
  BY <1>5, <1>6 DEF EventsPart
<1> QED
  BY <1>4, <1>5, <1>6, <1>7

(* The step works on the newest segment only, and there it may only tear   *)
(* or take away what lies behind the point p.                              *)
NewestKept(p) ==
  /\ OlderSame
  /\ \A k \in Kinds : Keeps(disk[Newest][k], disk'[Newest][k], Entry(p)[k])
  /\ \A k \in Kinds : Entry(p)[k] <= synced'[k]
  /\ Fades(disk[Newest].controls, disk'[Newest].controls, Held(p).controls)
  /\ Fades(disk[Newest].events, disk'[Newest].events, Held(p).events)
  /\ Fades(disk[Newest].seals, disk'[Newest].seals, Len(disk'[Newest].seals))

(* Together: such a step keeps the shape that p sees.                      *)
LEMMA ShapeKept ==
  ASSUME TypeOK, StateInv, TypeOK', StateInv', NEW p \in Checkpoints, Shape(p), NewestKept(p),
         NEW c \in 0 .. Len(mem.log), MemCut(c), Len(BaseLog(p)) <= c,
         c = Len(mem.log)
           \/ Len(disk'[Newest].seals) + Len(BaseLog(p)) <= c + Entry(p).seals
  PROVE  /\ Shape(p)'
         /\ Entry(p)' = Entry(p) /\ BaseLog(p)' = BaseLog(p) /\ BaseEvents(p)' = BaseEvents(p)
         /\ Newest' = Newest
<1>1. FrozenPart(p) /\ BasePart(p) /\ SealsPart(p) /\ ControlsPart(p) /\ EventsPart(p)
  BY DEF Shape
<1>2. OlderSame /\ Newest # 0
  BY DEF NewestKept, StateInv
<1>3. p.segment \in 1 .. Newest
  BY <1>1, BaseFacts
<1>4. /\ Entry(p)' = Entry(p) /\ BaseLog(p)' = BaseLog(p) /\ BaseEvents(p)' = BaseEvents(p)
      /\ FrozenPart(p)' /\ Newest' = Newest
  BY <1>1, <1>2, <1>3, OlderKept DEF OlderSame
<1>5. BasePart(p)'
  BY <1>1, BaseKept DEF NewestKept
<1>6. SealsPart(p)'
  BY <1>1, SealsKept DEF NewestKept
<1>7. ControlsPart(p)'
  BY <1>1, ControlsKept DEF NewestKept
<1>8. EventsPart(p)'
  BY <1>1, EventsKept DEF NewestKept
<1> QED
  BY <1>4, <1>5, <1>6, <1>7, <1>8 DEF Shape

(* Where the seals end when the first n of them stay.                      *)
LEMMA LastSealKept ==
  ASSUME TypeOK, StateInv, TypeOK', StateInv', Newest' = Newest,
         Fades(disk[Newest].seals, disk'[Newest].seals, Len(disk'[Newest].seals)),
         NEW n \in 0 .. LastSeal(Newest), Keeps(disk[Newest].seals, disk'[Newest].seals, n),
         \/ n = LastSeal(Newest)
         \/ n = Len(disk'[Newest].seals)
         \/ n < Len(disk'[Newest].seals) /\ disk'[Newest].seals[n + 1].commit = 0
  PROVE  LastSeal(Newest)' = n
<1> DEFINE new == disk'[Newest].seals
           old == disk[Newest].seals
<1>1. new \in Seq(Seals) /\ old \in Seq(Seals) /\ Len(new) \in Nat /\ Len(old) \in Nat
  BY NewestTypes, NewestTypesNext
<1>2. /\ LastSeal(Newest) \in 0 .. Len(old)
      /\ \A j \in 1 .. LastSeal(Newest) : old[j].commit # 0
      /\ LastSeal(Newest) < Len(old) => old[LastSeal(Newest) + 1].commit = 0
  BY <1>1, WholeFacts DEF LastSeal
<1>3. n <= Len(new) /\ \A j \in 1 .. n : new[j] = old[j]
  BY DEF Keeps
<1>4. WholeUpto(new, n)
  <2>1. \A j \in 1 .. n : j \in 1 .. LastSeal(Newest)
    BY <1>1, <1>2
  <2>2. \A j \in 1 .. n : new[j].commit # 0
    BY <2>1, <1>2, <1>3
  <2> QED
    BY ONLY <1>3, <2>2 DEF WholeUpto
<1>5. n \in 0 .. Len(new) /\ n \in Nat
  BY <1>2, <1>3
<1>6. n < Len(new) => new[n + 1].commit = 0
  <2> SUFFICES ASSUME n < Len(new), n = LastSeal(Newest), new[n + 1].commit # 0 PROVE FALSE
    BY <1>1, <1>5
  <2>1. n + 1 \in 1 .. Len(new) /\ n + 1 <= Len(new)
    BY <1>1, <1>5
  <2>2. n + 1 <= Len(old) /\ new[n + 1] = old[n + 1]
    BY <2>1 DEF Fades
  <2> QED
    BY <2>2, <1>1, <1>2, <1>5
<1>7. Len(Whole(new)) = n
  BY <1>1, <1>4, <1>5, <1>6, WholeIs
<1> QED
  BY <1>7 DEF LastSeal

(* A replay that ends at the same seal reaches the same frames.            *)
LEMMA ReachKept ==
  ASSUME TypeOK, StateInv, TypeOK', StateInv', NEW p \in Checkpoints, Shape(p),
         Entry(p)' = Entry(p), BaseLog(p)' = BaseLog(p), BaseEvents(p)' = BaseEvents(p),
         NEW c \in 0 .. Len(mem.log), MemCut(c), Count(p) <= c,
         LastSeal(Newest)' = LastSeal(Newest)
  PROVE  Count(p)' = Count(p) /\ Reach(p)' = Reach(p)
<1>1. Count(p)' = Count(p)
  BY DEF Count
<1>2. Count(p) \in 0 .. c
  BY PointFacts DEF Shape
<1>3. SubSeq(mem'.log, 1, Count(p)) = SubSeq(mem.log, 1, Count(p))
  BY <1>2, MemCutFacts
<1>4. Reach(p)' = Reach(p)
  BY <1>1, <1>3 DEF Reach, EventCount
<1> QED
  BY <1>1, <1>4

(* What a replay from p finds stays in place.                              *)
ReachKeeps(p) ==
  \A k \in Kinds : Reach(p)[k] <= Len(disk[Newest][k]) =>
                     Keeps(disk[Newest][k], disk'[Newest][k], Reach(p)[k])

(* A step that only tears or cuts behind the reach keeps what p recovers.  *)
LEMMA PointStep ==
  ASSUME Inv, TypeOK', StateInv', NEW p \in Points, NewestKept(p), ReachKeeps(p), mem' = mem
  PROVE  /\ Shape(p)'
         /\ Entry(p)' = Entry(p) /\ BaseLog(p)' = BaseLog(p) /\ BaseEvents(p)' = BaseEvents(p)
         /\ Newest' = Newest /\ LastSeal(Newest)' = LastSeal(Newest)
         /\ Count(p)' = Count(p) /\ Reach(p)' = Reach(p)
         /\ Sound(p) => Sound(p)'
<1>1. TypeOK /\ StateInv /\ p \in Checkpoints /\ Shape(p)
  BY PointIs
<1>2. MemCut(Len(mem.log)) /\ Len(mem.log) \in 0 .. Len(mem.log)
  BY <1>1, MemSame
<1>3. /\ Len(BaseLog(p)) <= Count(p) /\ Count(p) <= Len(mem.log) /\ Len(BaseLog(p)) <= Len(mem.log)
      /\ LastSeal(Newest) \in Nat
  BY <1>1, BaseFacts, PointFacts DEF Shape
<1>4. /\ Shape(p)'
      /\ Entry(p)' = Entry(p) /\ BaseLog(p)' = BaseLog(p) /\ BaseEvents(p)' = BaseEvents(p)
      /\ Newest' = Newest
  BY <1>1, <1>2, <1>3, ShapeKept
<1>5. LastSeal(Newest)' = LastSeal(Newest)
  <2>1. LastSeal(Newest) \in 0 .. LastSeal(Newest)
    BY <1>3
  <2>2. Keeps(disk[Newest].seals, disk'[Newest].seals, LastSeal(Newest))
    <3>1. "seals" \in Kinds /\ Reach(p)["seals"] = LastSeal(Newest)
      BY DEF Kinds, Reach
    <3>2. LastSeal(Newest) <= Len(disk[Newest].seals)
      BY <1>1, NewestTypes
    <3> QED
      BY <3>1, <3>2 DEF ReachKeeps
  <2>3. Fades(disk[Newest].seals, disk'[Newest].seals, Len(disk'[Newest].seals))
    BY DEF NewestKept
  <2> QED
    BY <2>1, <2>2, <2>3, <1>1, <1>4, LastSealKept
<1>6. Count(p)' = Count(p) /\ Reach(p)' = Reach(p)
  BY <1>1, <1>2, <1>3, <1>4, <1>5, ReachKept
<1>7. ASSUME Sound(p) PROVE Sound(p)'
  <2>1. "controls" \in Kinds /\ "events" \in Kinds
    BY DEF Kinds
  <2>2. /\ WholeUpto(disk[Newest].controls, Reach(p).controls)
        /\ WholeUpto(disk[Newest].events, Reach(p).events)
    BY <1>7 DEF Sound
  <2>3. /\ Keeps(disk[Newest].controls, disk'[Newest].controls, Reach(p).controls)
        /\ Keeps(disk[Newest].events, disk'[Newest].events, Reach(p).events)
    BY <2>1, <2>2 DEF ReachKeeps, WholeUpto
  <2>4. /\ WholeUpto(disk'[Newest].controls, Reach(p).controls)
        /\ WholeUpto(disk'[Newest].events, Reach(p).events)
    BY <2>2, <2>3 DEF WholeUpto, Keeps
  <2> QED
    BY <2>4, <1>4, <1>6 DEF Sound
<1> QED
  BY <1>4, <1>5, <1>6, <1>7

(* What is durable stays behind what is synced.                            *)
LEMMA DurableKept ==
  ASSUME Inv, TypeOK', StateInv', NEW p \in Points, Entry(p)' = Entry(p), BaseLog(p)' = BaseLog(p),
         Count(p)' = Count(p), durable' \in Nat, durable' <= Count(p),
         synced'.seals \in Nat,
         synced'.seals >= LastSeal(Newest) \/ (durable' = durable /\ synced'.seals >= synced.seals)
  PROVE  DurablePart(p)'
<1>1. TypeOK /\ StateInv /\ p \in Checkpoints /\ Shape(p) /\ DurablePart(p)
  BY PointIs
<1>2. Len(BaseLog(p)) \in Nat /\ Entry(p).seals \in Nat /\ LastSeal(Newest) \in Nat
  BY <1>1, BaseFacts, PointFacts DEF Shape
<1>3. Count(p) = Len(BaseLog(p)) + LastSeal(Newest) - Entry(p).seals
  BY DEF Count
<1>4. durable + Entry(p).seals <= Len(BaseLog(p)) + synced.seals
  BY <1>1 DEF DurablePart
<1>5. durable \in Nat /\ synced.seals \in Nat
  BY <1>1 DEF TypeOK, Kinds
<1>6. durable' + Entry(p).seals <= Len(BaseLog(p)) + synced'.seals
  <2> DEFINE l == Len(BaseLog(p))
             x == Entry(p).seals
             z == LastSeal(Newest)
             c == Count(p)
             d == durable'
             s == synced'.seals
             t == synced.seals
  <2>1. /\ l \in Nat /\ x \in Nat /\ z \in Nat /\ c = l + z - x /\ d \in Nat /\ s \in Nat
        /\ t \in Nat /\ d <= c /\ durable \in Nat /\ durable + x <= l + t
    BY <1>2, <1>3, <1>4, <1>5
  <2>2. s >= z \/ (d = durable /\ s >= t)
    OBVIOUS
  <2> HIDE DEF l, x, z, c, d, s, t
  <2>3. d + x <= l + s
    BY ONLY <2>1, <2>2
  <2> QED
    BY <2>3 DEF l, x, d, s
<1> QED
  BY <1>6 DEF DurablePart

-----------------------------------------------------------------------------
(***************************************************************************)
(* Steps that leave the files and the session as they are.                 *)
(***************************************************************************)

(* A step that leaves files and session alone keeps what every point recovers. *)
LEMMA QuietPoint ==
  ASSUME Inv, TypeOK', StateInv', disk' = disk, mem' = mem,
         \A k \in Kinds : synced[k] <= synced'[k], NEW p \in Points
  PROVE  /\ Shape(p)'
         /\ Entry(p)' = Entry(p) /\ BaseLog(p)' = BaseLog(p) /\ BaseEvents(p)' = BaseEvents(p)
         /\ Newest' = Newest /\ LastSeal(Newest)' = LastSeal(Newest)
         /\ Count(p)' = Count(p) /\ Reach(p)' = Reach(p)
         /\ Sound(p) => Sound(p)'
<1>1. TypeOK /\ StateInv /\ p \in Checkpoints /\ Shape(p)
  BY PointIs
<1>2. Newest' = Newest /\ OlderSame
  BY DEF Newest, OlderSame
<1>3. \A k \in Kinds : /\ Entry(p)[k] \in Nat /\ synced[k] \in Nat /\ synced'[k] \in Nat
                       /\ Entry(p)[k] <= synced[k] /\ Entry(p)[k] <= Len(disk[Newest][k])
  <2>1. Entry(p) \in [Kinds -> Nat]
    BY <1>1, BaseFacts DEF Shape
  <2>2. synced \in [Kinds -> Nat] /\ synced' \in [Kinds -> Nat]
    BY <1>1 DEF TypeOK
  <2>3. \A k \in Kinds : Entry(p)[k] <= synced[k] /\ Entry(p)[k] <= Len(disk[Newest][k])
    BY <1>1 DEF Shape, BasePart, WholeUpto
  <2> QED
    BY ONLY <2>1, <2>2, <2>3
<1>4. \A k \in Kinds : Entry(p)[k] <= synced'[k]
  BY <1>3
<1>5. \A k \in Kinds : Keeps(disk[Newest][k], disk'[Newest][k], Entry(p)[k])
  BY <1>3 DEF Keeps
<1>6. ReachKeeps(p)
  BY DEF ReachKeeps, Keeps
<1>7. /\ Fades(disk[Newest].controls, disk'[Newest].controls, Held(p).controls)
      /\ Fades(disk[Newest].events, disk'[Newest].events, Held(p).events)
      /\ Fades(disk[Newest].seals, disk'[Newest].seals, Len(disk'[Newest].seals))
  <2>1. ASSUME NEW file, NEW n PROVE Fades(file, file, n)
    BY DEF Fades
  <2> QED
    BY <2>1
<1>8. NewestKept(p)
  BY <1>2, <1>4, <1>5, <1>7 DEF NewestKept
<1> QED
  BY <1>6, <1>8, PointStep

(* What an acknowledged flush adds.                                        *)
Flushed == mode = "open" /\ durable' = Len(mem.log) /\ synced' = AllSynced

(* A flush takes nothing away from what is synced.                         *)
LEMMA FlushedGrows ==
  ASSUME TypeOK, Flushed
  PROVE  \A k \in Kinds : synced[k] <= synced'[k]
BY DEF TypeOK, Flushed, AllSynced, Lengths

(* So it keeps all of the invariant that speaks of points.                 *)
LEMMA QuietStep ==
  ASSUME Inv, TypeOK', StateInv', disk' = disk, mem' = mem,
         \A k \in Kinds : synced[k] <= synced'[k],
         durable' = durable \/ Flushed,
         scrambled' = scrambled, stuck' = stuck, mode' = "open" => mode = "open",
         mode = "closed" => synced' = synced
  PROVE  /\ \A p \in Points : PointInv(p)'
         /\ \A p \in Points : (mode = "open" \/ Sound(p) \/ synced = AllSynced)'
         /\ ~stuck' => \A p \in Points : Aligned(p, Scratch)'
         /\ \A p \in Points : Reach(p)' = Reach(p)
         /\ Newest' = Newest
<1>1. TypeOK /\ StateInv
  BY DEF Inv
<1>2. Newest' = Newest
  BY DEF Newest
<1>3. ASSUME NEW p \in Points
      PROVE  /\ PointInv(p)'
             /\ (mode = "open" \/ Sound(p) \/ synced = AllSynced)'
             /\ Reach(p)' = Reach(p)
  <2>1. /\ Shape(p)'
        /\ Entry(p)' = Entry(p) /\ BaseLog(p)' = BaseLog(p)
        /\ Count(p)' = Count(p) /\ Reach(p)' = Reach(p)
        /\ Sound(p) => Sound(p)'
    BY QuietPoint
  <2>2. PointInv(p) /\ DurablePart(p) /\ p \in Checkpoints /\ Shape(p)
    BY PointIs
  <2>3. DurablePart(p)'
    <3>1. /\ durable' \in Nat /\ synced'.seals \in Nat /\ durable \in Nat /\ synced.seals \in Nat
          /\ synced.seals <= synced'.seals /\ Len(disk[Newest].seals) \in Nat
      BY <1>1, NewestTypes DEF TypeOK, Kinds
    <3>2. durable' <= Count(p)
      BY <2>2 DEF DurablePart, Flushed, PointInv
    <3>3. synced'.seals >= LastSeal(Newest) \/ (durable' = durable /\ synced'.seals >= synced.seals)
      <4>1. CASE durable' = durable
        BY <4>1, <3>1
      <4>2. CASE Flushed
        <5>1. synced'.seals = Len(disk[Newest].seals)
          BY <4>2 DEF Flushed, AllSynced, Lengths, Kinds
        <5>2. LastSeal(Newest) <= Len(disk[Newest].seals) /\ LastSeal(Newest) \in Nat
          BY <1>1, NewestTypes
        <5> QED
          BY <5>1, <5>2, <3>1
      <4> QED
        BY <4>1, <4>2
    <3> QED
      BY <2>1, <3>1, <3>2, <3>3, DurableKept
  <2>4. mode' = "open" \/ ~scrambled' => Sound(p)'
    BY <2>1, <2>2 DEF PointInv
  <2>5. mode' = "open" => Count(p)' = Len(mem'.log)
    BY <2>1, <2>2 DEF PointInv
  <2>6. (mode = "open" \/ Sound(p) \/ synced = AllSynced)'
    <3>1. CASE mode = "open"
      BY <3>1, <2>1, <2>2 DEF PointInv
    <3>2. CASE mode # "open"
      <4>1. mode = "closed"
        BY <1>1, <3>2 DEF TypeOK
      <4>2. Sound(p) \/ synced = AllSynced
        BY <3>2 DEF Inv, Refused
      <4>3. AllSynced' = AllSynced
        BY <1>2 DEF AllSynced, Lengths
      <4> QED
        BY <4>1, <4>2, <4>3, <2>1
    <3> QED
      BY <3>1, <3>2
  <2> QED
    BY <2>1, <2>3, <2>4, <2>5, <2>6 DEF PointInv
<1>4. ASSUME ~stuck', NEW p \in Points PROVE Aligned(p, Scratch)'
  <2>1. Scratch \in Points /\ Aligned(p, Scratch)
    BY <1>4 DEF Points, Inv
  <2>2. /\ Entry(p)' = Entry(p) /\ BaseLog(p)' = BaseLog(p) /\ BaseEvents(p)' = BaseEvents(p)
        /\ Entry(Scratch)' = Entry(Scratch) /\ BaseLog(Scratch)' = BaseLog(Scratch)
        /\ BaseEvents(Scratch)' = BaseEvents(Scratch)
    BY <2>1, QuietPoint
  <2> QED
    BY <2>1, <2>2 DEF Aligned
<1> QED
  BY <1>2, <1>3, <1>4

(* The invariant from its parts, for a set P that holds all points.        *)
LEMMA Assemble ==
  ASSUME TypeOK', StateInv', NEW P, Points' \subseteq P,
         \A p \in P : PointInv(p)',
         \A p \in P : (mode = "open" \/ Sound(p) \/ synced = AllSynced)',
         ~stuck' => \A p \in P : Aligned(p, Scratch)',
         \A p \in P : (mode = "open" => OpenPart(p))'
  PROVE  Inv'
BY DEF Inv, Refused

(* What the writer has in hand depends on nothing else.                    *)
LEMMA OpenKept ==
  ASSUME NEW p, UNCHANGED <<disk, mode, writer, commit, stuck>>, Reach(p)' = Reach(p)
  PROVE  OpenPart(p)' = OpenPart(p)
<1>1. Newest' = Newest
  BY DEF Newest
<1> QED
  BY <1>1 DEF OpenPart, Writing, writer, Lengths, Frame

(* Nor does the part that speaks of no point.                              *)
LEMMA StateKept ==
  ASSUME Inv, UNCHANGED <<disk, mode, writer, commit, mem, staging, checkpoint>>
  PROVE  StateInv'
<1>1. Newest' = Newest
  BY DEF Newest
<1> QED
  BY <1>1 DEF Inv, StateInv, writer

(* The steps that write no frame keep the invariant.                       *)
LEMMA FlushInv == Inv /\ Flush => Inv'
<1> SUFFICES ASSUME Inv, Flush PROVE Inv'
  OBVIOUS
<1>1. Flushed /\ UNCHANGED <<disk, mode, writer, commit, mem, saved, staging, checkpoint,
                             issued, history>>
  BY DEF Flush, Flushed, Idle
<1>2. TypeOK /\ StateInv
  BY DEF Inv
<1>3. Newest' = Newest
  BY <1>1 DEF Newest
<1>4. TypeOK'
  <2>1. synced' \in [Kinds -> Nat] /\ \A k \in Kinds : synced'[k] <= Len(disk'[Newest'][k])
    BY <1>1, <1>2, <1>3, NewestTypes DEF Flushed, AllSynced, Lengths
  <2>2. durable' \in Nat
    BY <1>1, <1>2, MemTypes DEF Flushed
  <2> QED
    BY <2>1, <2>2, <1>1, <1>2 DEF TypeOK, writer, history
<1>5. StateInv'
  BY <1>1, StateKept
<1>6. \A k \in Kinds : synced[k] <= synced'[k]
  BY <1>1, <1>2, FlushedGrows
<1>7. Points' = Points
  BY <1>1 DEF Points, history
<1>8. /\ \A p \in Points : PointInv(p)'
      /\ \A p \in Points : (mode = "open" \/ Sound(p) \/ synced = AllSynced)'
      /\ ~stuck' => \A p \in Points : Aligned(p, Scratch)'
      /\ \A p \in Points : Reach(p)' = Reach(p)
  BY <1>1, <1>4, <1>5, <1>6, QuietStep DEF history, Flushed
<1>9. \A p \in Points : (mode = "open" => OpenPart(p))'
  BY <1>1, <1>8, OpenKept, PointIs DEF history
<1> QED
  BY <1>4, <1>5, <1>7, <1>8, <1>9, Assemble

(* A flush that fails behind some of the files,                            *)
LEMMA FlushFailsInv == ASSUME NEW n \in 0 .. 2 PROVE Inv /\ FlushFails(n) => Inv'
<1> SUFFICES ASSUME Inv, FlushFails(n) PROVE Inv'
  OBVIOUS
<1>1. UNCHANGED <<disk, mode, writer, commit, mem, saved, staging, checkpoint, issued,
                  durable, history>>
      /\ mode = "open"
  BY DEF FlushFails, Idle
<1>2. TypeOK /\ StateInv
  BY DEF Inv
<1>3. Newest' = Newest
  BY <1>1 DEF Newest
<1>4. /\ synced' \in [Kinds -> Nat] /\ \A k \in Kinds : synced'[k] <= Len(disk'[Newest'][k])
      /\ \A k \in Kinds : synced[k] <= synced'[k]
  <2>1. \A k \in Kinds : /\ Len(disk[Newest][k]) \in Nat /\ AllSynced[k] = Len(disk[Newest][k])
                         /\ synced[k] \in Nat /\ synced[k] <= Len(disk[Newest][k])
    BY <1>2, NewestTypes DEF TypeOK, AllSynced, Lengths
  <2>2. synced' = [k \in Kinds |-> IF k \in FirstKinds(n) THEN AllSynced[k] ELSE synced[k]]
    BY DEF FlushFails
  <2>3. \A k \in Kinds : /\ synced'[k] \in Nat /\ synced[k] <= synced'[k]
                         /\ synced'[k] <= Len(disk[Newest][k])
    BY <2>1, <2>2
  <2> QED
    BY <2>2, <2>3, <1>1, <1>3
<1>5. TypeOK'
  BY <1>4, <1>1, <1>2 DEF TypeOK, writer, history
<1>6. StateInv'
  BY <1>1, StateKept
<1>7. Points' = Points
  BY <1>1 DEF Points, history
<1>8. /\ \A p \in Points : PointInv(p)'
      /\ \A p \in Points : (mode = "open" \/ Sound(p) \/ synced = AllSynced)'
      /\ ~stuck' => \A p \in Points : Aligned(p, Scratch)'
      /\ \A p \in Points : Reach(p)' = Reach(p)
  BY <1>1, <1>4, <1>5, <1>6, QuietStep DEF history
<1>9. \A p \in Points : (mode = "open" => OpenPart(p))'
  BY <1>1, <1>8, OpenKept, PointIs DEF history
<1> QED
  BY <1>5, <1>6, <1>7, <1>8, <1>9, Assemble

(* a step that changes nothing,                                            *)
LEMMA StutterInv == Inv /\ UNCHANGED vars => Inv'
<1> SUFFICES ASSUME Inv, UNCHANGED vars PROVE Inv'
  OBVIOUS
<1>1. UNCHANGED <<disk, synced, mode, writer, commit, mem, saved, staging, checkpoint, issued,
                  durable, history>>
  BY DEF vars
<1>2. TypeOK /\ StateInv
  BY DEF Inv
<1>3. Newest' = Newest
  BY <1>1 DEF Newest
<1>4. TypeOK' /\ \A k \in Kinds : synced[k] <= synced'[k]
  BY <1>1, <1>2, <1>3 DEF TypeOK, writer, history
<1>5. StateInv'
  BY <1>1, StateKept
<1>6. Points' = Points
  BY <1>1 DEF Points, history
<1>7. /\ \A p \in Points : PointInv(p)'
      /\ \A p \in Points : (mode = "open" \/ Sound(p) \/ synced = AllSynced)'
      /\ ~stuck' => \A p \in Points : Aligned(p, Scratch)'
      /\ \A p \in Points : Reach(p)' = Reach(p)
  BY <1>1, <1>4, <1>5, QuietStep DEF history
<1>8. \A p \in Points : (mode = "open" => OpenPart(p))'
  BY <1>1, <1>7, OpenKept, PointIs DEF history
<1> QED
  BY <1>4, <1>5, <1>6, <1>7, <1>8, Assemble

(* taking up a transaction,                                                *)
LEMMA BeginInv == Inv /\ Begin => Inv'
<1> SUFFICES ASSUME Inv, Begin PROVE Inv'
  OBVIOUS
<1>1. /\ mode = "open" /\ phase = "idle" /\ ~Full /\ ~failed
      /\ issued' = issued + 1 /\ phase' = "controls" /\ before' = extent
      /\ UNCHANGED <<disk, synced, mode, extent, failed, commit, mem, saved, staging,
                     checkpoint, durable, history>>
  BY DEF Begin, Idle, StartBatch
<1>2. TypeOK /\ StateInv
  BY DEF Inv
<1>3. Newest' = Newest
  BY <1>1 DEF Newest
<1>4. batch' \in Batches
  <2>1. PICK event \in BOOLEAN : batch' = [id |-> issued + 1, event |-> event]
    BY DEF Begin, StartBatch
  <2>2. issued + 1 \in Nat
    BY <1>2 DEF TypeOK
  <2> QED
    BY <2>1, <2>2 DEF Batches
<1>5. TypeOK' /\ \A k \in Kinds : synced[k] <= synced'[k]
  <2>1. "controls" \in Kinds
    BY DEF Kinds
  <2>2. issued' \in Nat
    BY <1>1, <1>2 DEF TypeOK
  <2> QED
    BY <2>1, <2>2, <1>1, <1>2, <1>3, <1>4 DEF TypeOK, history
<1>6. StateInv'
  BY <1>1, <1>2, <1>3 DEF StateInv
<1>7. Points' = Points
  BY <1>1 DEF Points, history
<1>8. /\ \A p \in Points : PointInv(p)'
      /\ \A p \in Points : (mode = "open" \/ Sound(p) \/ synced = AllSynced)'
      /\ ~stuck' => \A p \in Points : Aligned(p, Scratch)'
      /\ \A p \in Points : Reach(p)' = Reach(p)
  BY <1>1, <1>5, <1>6, QuietStep DEF history
<1>9. ASSUME NEW p \in Points PROVE OpenPart(p)'
  <2>1. extent = Reach(p) /\ Lengths(disk[Newest]) = extent
    BY <1>1, PointIs DEF OpenPart
  <2>2. extent.seals < MaxFrames
    <3>1. extent.seals \in Nat /\ MaxFrames \in Nat
      BY <1>2, ConstantsAssumption DEF TypeOK, Kinds
    <3>2. ~(extent.seals >= MaxFrames)
      BY <1>1 DEF Full
    <3> QED
      BY ONLY <3>1, <3>2
  <2>3. Writing(p)'
    BY <1>1, <1>3, <1>8, <2>1, <2>2 DEF Writing, Lengths
  <2> QED
    BY <1>1, <2>3 DEF OpenPart
<1> QED
  BY <1>5, <1>6, <1>7, <1>8, <1>9, Assemble

(* publishing a checkpoint,                                                *)
LEMMA CheckpointPublishInv == Inv /\ CheckpointPublish => Inv'
<1> SUFFICES ASSUME Inv, CheckpointPublish PROVE Inv'
  OBVIOUS
<1>1. /\ staging # NoCheckpoint /\ checkpoint' = staging /\ saved' = staging.commit
      /\ staging' = NoCheckpoint
      /\ UNCHANGED <<disk, synced, mode, writer, commit, mem, issued, durable, history>>
  BY DEF CheckpointPublish
<1>2. TypeOK /\ StateInv
  BY DEF Inv
<1>3. Newest' = Newest
  BY <1>1 DEF Newest
<1>4. staging \in Checkpoints /\ NoCheckpoint \in Checkpoints /\ NoCheckpoint.segment = 0
  BY <1>2, ScratchType DEF TypeOK, NoCheckpoint, Checkpoints, Scratch
<1>5. TypeOK' /\ \A k \in Kinds : synced[k] <= synced'[k]
  <2>1. staging.commit \in Nat
    BY <1>4 DEF Checkpoints
  <2> QED
    BY <2>1, <1>1, <1>2, <1>3, <1>4 DEF TypeOK, writer, history
<1>6. staging.segment # 0
  BY <1>1, <1>2 DEF StateInv
<1>7. StateInv'
  BY <1>1, <1>2, <1>3, <1>6 DEF StateInv, writer
<1>8. Points' \subseteq Points
  BY <1>1, <1>4, <1>6 DEF Points, history
<1>9. /\ \A p \in Points : PointInv(p)'
      /\ \A p \in Points : (mode = "open" \/ Sound(p) \/ synced = AllSynced)'
      /\ ~stuck' => \A p \in Points : Aligned(p, Scratch)'
      /\ \A p \in Points : Reach(p)' = Reach(p)
  BY <1>1, <1>5, <1>7, QuietStep DEF history
<1>10. \A p \in Points : (mode = "open" => OpenPart(p))'
  BY <1>1, <1>9, OpenKept, PointIs DEF history
<1> QED
  BY <1>5, <1>7, <1>8, <1>9, <1>10, Assemble

(* discarding one,                                                         *)
LEMMA CheckpointDiscardInv == Inv /\ CheckpointDiscard => Inv'
<1> SUFFICES ASSUME Inv, CheckpointDiscard PROVE Inv'
  OBVIOUS
<1>1. /\ staging' = NoCheckpoint
      /\ UNCHANGED <<disk, synced, mode, writer, commit, mem, saved, checkpoint, issued,
                     durable, history>>
  BY DEF CheckpointDiscard
<1>2. TypeOK /\ StateInv
  BY DEF Inv
<1>3. Newest' = Newest
  BY <1>1 DEF Newest
<1>4. NoCheckpoint \in Checkpoints /\ NoCheckpoint.segment = 0
  BY ScratchType DEF NoCheckpoint, Checkpoints, Scratch
<1>5. TypeOK' /\ \A k \in Kinds : synced[k] <= synced'[k]
  BY <1>1, <1>2, <1>3, <1>4 DEF TypeOK, writer, history
<1>6. StateInv'
  BY <1>1, <1>2, <1>3 DEF StateInv, writer
<1>7. Points' \subseteq Points
  BY <1>1, <1>4 DEF Points, history
<1>8. /\ \A p \in Points : PointInv(p)'
      /\ \A p \in Points : (mode = "open" \/ Sound(p) \/ synced = AllSynced)'
      /\ ~stuck' => \A p \in Points : Aligned(p, Scratch)'
      /\ \A p \in Points : Reach(p)' = Reach(p)
  BY <1>1, <1>5, <1>6, QuietStep DEF history
<1>9. \A p \in Points : (mode = "open" => OpenPart(p))'
  BY <1>1, <1>8, OpenKept, PointIs DEF history
<1> QED
  BY <1>5, <1>6, <1>7, <1>8, <1>9, Assemble

(* A session that closes forgets what its writer had in hand.              *)
LEMMA ClosedType ==
  ASSUME TypeOK, Closed
  PROVE  /\ mode' \in {"open", "closed"} /\ phase' \in {"idle", "rollback"} \cup Kinds
         /\ batch' \in Batches /\ before' \in [Kinds -> Nat] /\ extent' \in [Kinds -> Nat]
         /\ failed' \in BOOLEAN /\ saved' \in Nat /\ staging' \in Checkpoints
         /\ staging'.segment = 0 /\ staging' = NoCheckpoint
<1>1. NoCheckpoint \in Checkpoints /\ NoCheckpoint.segment = 0
  BY ScratchType DEF NoCheckpoint, Checkpoints, Scratch
<1> QED
  BY <1>1 DEF Closed, NoBatch, Batches, NoExtent

(* A session that goes down and leaves its files alone.                    *)
LEMMA StopInv ==
  ASSUME Inv, Closed, mode = "open",
         UNCHANGED <<disk, commit, mem, checkpoint, issued, history>>,
         Flushed \/ UNCHANGED <<synced, durable>>
  PROVE  Inv'
<1>1. TypeOK /\ StateInv
  BY DEF Inv
<1>2. Newest' = Newest
  BY DEF Newest
<1>3. \A k \in Kinds : synced[k] <= synced'[k]
  BY <1>1, FlushedGrows DEF TypeOK
<1>4. /\ mode' \in {"open", "closed"} /\ phase' \in {"idle", "rollback"} \cup Kinds
      /\ batch' \in Batches /\ before' \in [Kinds -> Nat] /\ extent' \in [Kinds -> Nat]
      /\ failed' \in BOOLEAN /\ saved' \in Nat /\ staging' \in Checkpoints
      /\ staging'.segment = 0 /\ staging' = NoCheckpoint
  BY <1>1, ClosedType
<1>5. TypeOK'
  <2>1. synced' \in [Kinds -> Nat] /\ \A k \in Kinds : synced'[k] <= Len(disk'[Newest'][k])
    <3>1. CASE Flushed
      BY <3>1, <1>1, <1>2, NewestTypes DEF Flushed, AllSynced, Lengths
    <3>2. CASE UNCHANGED <<synced, durable>>
      BY <3>2, <1>1, <1>2 DEF TypeOK
    <3> QED
      BY <3>1, <3>2
  <2>2. durable' \in Nat
    BY <1>1, MemTypes DEF Flushed, TypeOK
  <2> QED
    BY <2>1, <2>2, <1>1, <1>4 DEF TypeOK, history
<1>6. StateInv'
  BY <1>1, <1>2, <1>4 DEF StateInv, Closed
<1>7. Points' \subseteq Points
  BY <1>4 DEF Points, history
<1>8. mode' = "closed"
  BY DEF Closed
<1>9. /\ \A p \in Points : PointInv(p)'
      /\ \A p \in Points : (mode = "open" \/ Sound(p) \/ synced = AllSynced)'
      /\ ~stuck' => \A p \in Points : Aligned(p, Scratch)'
  BY <1>3, <1>5, <1>6, QuietStep DEF history
<1>10. \A p \in Points : (mode = "open" => OpenPart(p))'
  BY <1>8
<1> QED
  BY <1>5, <1>6, <1>7, <1>9, <1>10, Assemble

(* leaving the session,                                                    *)
LEMMA EvictInv == Inv /\ Evict => Inv'
<1> SUFFICES ASSUME Inv, Evict PROVE Inv'
  OBVIOUS
<1>1. Flushed /\ Closed /\ mode = "open"
      /\ UNCHANGED <<disk, commit, mem, checkpoint, issued, history>>
  BY DEF Evict, Flushed, Idle
<1> QED
  BY <1>1, StopInv

(* and losing the process keep the invariant.                              *)
LEMMA ProcessCrashInv == Inv /\ ProcessCrash => Inv'
BY StopInv DEF ProcessCrash

(* What a point says about the files depends on them and on the session.   *)
LEMMA FilesSame ==
  ASSUME disk' = disk, mem' = mem, NEW p
  PROVE  /\ Entry(p)' = Entry(p) /\ BaseLog(p)' = BaseLog(p) /\ BaseEvents(p)' = BaseEvents(p)
         /\ FrozenPart(p)' = FrozenPart(p) /\ SealsPart(p)' = SealsPart(p)
         /\ ControlsPart(p)' = ControlsPart(p) /\ EventsPart(p)' = EventsPart(p)
         /\ Valid(p)' = Valid(p)
         /\ Count(p)' = Count(p) /\ Reach(p)' = Reach(p) /\ Sound(p)' = Sound(p)
<1>1. Newest' = Newest
  BY DEF Newest
<1>2. \A s : /\ LastSeal(s)' = LastSeal(s)
             /\ SealsOf(p, s)' = SealsOf(p, s)
             /\ \A kind : FramesOf(p, s, kind)' = FramesOf(p, s, kind)
             /\ SegmentReplayable(p, s)' = SegmentReplayable(p, s)
  BY SegmentKept
<1>3. OlderSeals(p)' = OlderSeals(p)
  BY <1>1, <1>2 DEF OlderSeals
<1>4. \A kind : Older(p, kind)' = Older(p, kind) /\ OlderRead(p, kind)' = OlderRead(p, kind)
  BY <1>1, <1>2 DEF Older, OlderRead
<1>5. Entry(p)' = Entry(p) /\ BaseLog(p)' = BaseLog(p) /\ BaseEvents(p)' = BaseEvents(p)
  BY <1>1, <1>4 DEF Entry, BaseLog, BaseEvents
<1>6. FrozenPart(p)' = FrozenPart(p)
  BY <1>1, <1>2, <1>3, <1>4 DEF FrozenPart
<1>7. \A n : EventCount(n)' = EventCount(n)
  BY DEF EventCount
<1>8. \A n : Seal(p, n)' = Seal(p, n)
  BY <1>5, <1>7 DEF Seal
<1>9. SealsPart(p)' = SealsPart(p)
  BY <1>1, <1>5, <1>8 DEF SealsPart
<1>10. ControlsPart(p)' = ControlsPart(p) /\ EventsPart(p)' = EventsPart(p)
  BY <1>1, <1>5 DEF ControlsPart, EventsPart
<1>11. Valid(p)' = Valid(p)
  BY <1>1 DEF Valid
<1>12. LastSeal(Newest)' = LastSeal(Newest)
  BY <1>1, <1>2 DEF LastSeal
<1>13. Count(p)' = Count(p)
  BY <1>5, <1>12 DEF Count
<1>14. Reach(p)' = Reach(p)
  BY <1>5, <1>12, <1>13 DEF Reach, EventCount
<1>15. Sound(p)' = Sound(p)
  BY <1>1, <1>14 DEF Sound
<1> QED
  BY <1>5, <1>6, <1>9, <1>10, <1>11, <1>13, <1>14, <1>15

(* The point that a checkpoint taken now is.                               *)
Captured ==
  [segment |-> Newest, extent |-> extent,
   ends |-> [k \in Kinds |-> EndsAt(disk[Newest][k], extent[k])],
   commit |-> commit, mem |-> mem]

(* There is always a point to replay from.                                 *)
LEMMA SomePoint ==
  ASSUME Inv
  PROVE  Resume \in Points
BY ResumeIs

(* A captured point is a checkpoint,                                       *)
LEMMA CapturedType ==
  ASSUME Inv, \A k \in Kinds : extent[k] <= Len(disk[Newest][k])
  PROVE  Captured \in Checkpoints
<1>1. TypeOK /\ StateInv
  BY DEF Inv
<1>2. Newest \in Nat /\ extent \in [Kinds -> Nat] /\ commit \in Nat
      /\ mem \in [log : Seq(Batches), events : Seq(Batches)]
  BY <1>1, NewestTypes DEF TypeOK
<1>3. ASSUME NEW k \in Kinds
      PROVE  EndsAt(disk[Newest][k], extent[k]) \in Seq(Frames \cup Seals)
  <2>1. disk[Newest][k] \in Seq(Frames) \/ disk[Newest][k] \in Seq(Seals)
    BY <1>1, <1>3, KindsAre, NewestTypes
  <2>2. CASE extent[k] = 0
    BY <2>2 DEF EndsAt
  <2>3. CASE extent[k] # 0
    <3>1. extent[k] \in 1 .. Len(disk[Newest][k])
      BY <2>3, <1>2, <1>1, NewestTypes
    <3>2. disk[Newest][k][extent[k]] \in Frames \cup Seals
      BY <2>1, <3>1, ElementOfSeq
    <3> QED
      BY <2>3, <3>2 DEF EndsAt
  <2> QED
    BY <2>2, <2>3
<1>4. [k \in Kinds |-> EndsAt(disk[Newest][k], extent[k])] \in [Kinds -> Seq(Frames \cup Seals)]
  BY <1>3
<1> QED
  BY <1>2, <1>4 DEF Captured, Checkpoints

(* it enters where the writer stands, with the session as it is,           *)
LEMMA CapturedBase ==
  ASSUME Inv, NEW q, q = Captured
  PROVE  /\ Entry(q) = extent /\ BaseLog(q) = mem.log /\ BaseEvents(q) = mem.events
         /\ FrozenPart(q)
<1>1. TypeOK /\ StateInv
  BY DEF Inv
<1>2. q.segment = Newest /\ q.extent = extent /\ q.mem = mem /\ Newest \in Nat
  BY <1>1, NewestTypes DEF Captured
<1>3. mem.log \in Seq(Batches) /\ mem.events \in Seq(Batches)
  BY <1>1, MemTypes
<1>4. Entry(q) = extent
  BY <1>2 DEF Entry, StartOf
<1>5. 1 .. Newest - q.segment = {} /\ q.segment .. Newest - 1 = {}
  BY <1>2
<1>6. OlderSeals(q) = <<>> /\ \A kind : Older(q, kind) = <<>>
  <2>1. OlderSeals(q) = FlattenSeq(<<>>)
    BY <1>2 DEF OlderSeals
  <2>2. \A kind : Older(q, kind) = FlattenSeq(<<>>)
    BY <1>2 DEF Older
  <2> QED
    BY <2>1, <2>2, FlattenEmpty
<1>7. BaseLog(q) = mem.log /\ BaseEvents(q) = mem.events
  BY <1>2, <1>3, <1>6 DEF BaseLog, BaseEvents
<1>8. FrozenPart(q)
  BY <1>5, <1>6 DEF FrozenPart, OlderRead
<1> QED
  BY <1>4, <1>7, <1>8

(* Where the writer stands when it is idle.                                *)
LEMMA IdleExtent ==
  ASSUME Inv, Idle, NEW r \in Points
  PROVE  /\ extent.seals = LastSeal(Newest) /\ Count(r) = Len(mem.log)
         /\ ~failed => extent = Reach(r) /\ Lengths(disk[Newest]) = extent
         /\ failed => /\ stuck /\ extent.seals < MaxFrames
                      /\ \A k \in Kinds : Reach(r)[k] <= extent[k]
<1>1. OpenPart(r) /\ PointInv(r)
  BY PointIs DEF Idle
<1>2. Reach(r).seals = LastSeal(Newest)
  BY DEF Reach
<1>3. failed \in BOOLEAN
  BY DEF Inv, TypeOK
<1> QED
  BY <1>1, <1>2, <1>3 DEF OpenPart, PointInv, Idle

(* the frames behind its marks are no transactions of the session,         *)
LEMMA CapturedPoint ==
  ASSUME Inv, Idle, \A k \in Kinds : extent[k] <= Len(disk[Newest][k]), NEW q, q = Captured
  PROVE  /\ Valid(q) /\ SealsPart(q) /\ ControlsPart(q) /\ EventsPart(q)
         /\ \A k \in Kinds : WholeUpto(disk[Newest][k], extent[k])
         /\ Count(q) = Len(mem.log) /\ Reach(q) = extent /\ Sound(q)
<1>1. TypeOK /\ StateInv
  BY DEF Inv
<1>2. /\ Entry(q) = extent /\ BaseLog(q) = mem.log /\ BaseEvents(q) = mem.events
      /\ q.segment = Newest /\ q.extent = extent
      /\ q.ends = [k \in Kinds |-> EndsAt(disk[Newest][k], extent[k])]
  BY CapturedBase DEF Captured
<1>3. /\ Newest \in 1 .. Newest /\ extent \in [Kinds -> Nat]
      /\ extent.controls \in Nat /\ extent.events \in Nat /\ extent.seals \in Nat
      /\ \A k \in Kinds : Len(disk[Newest][k]) \in Nat
      /\ Len(disk[Newest].seals) \in Nat
      /\ LastSeal(Newest) \in Nat
      /\ Len(mem.log) \in Nat /\ Len(mem.events) \in Nat
  BY <1>1, NewestTypes, MemTypes DEF TypeOK, Kinds
<1>4. Valid(q)
  BY <1>2, <1>3 DEF Valid
<1>5. \A k \in Kinds : WholeUpto(disk[Newest][k], extent[k])
  <2> SUFFICES ASSUME NEW k \in Kinds, NEW j \in 1 .. extent[k]
               PROVE  disk[Newest][k][j].commit # 0
    BY DEF WholeUpto
  <2>1. extent[k] \in Nat /\ Len(disk[Newest][k]) \in Nat
    BY <1>3
  <2>2. j <= Len(disk[Newest][k])
    BY <2>1
  <2> QED
    BY <2>2, <1>1 DEF StateInv, Idle
<1>6. extent.seals = LastSeal(Newest)
  BY SomePoint, IdleExtent
<1>7. SealsPart(q)
  <2> DEFINE r == Resume
  <2>1. r \in Points /\ r \in Checkpoints /\ Shape(r) /\ Count(r) = Len(mem.log)
    BY SomePoint, IdleExtent, PointIs
  <2>2. /\ Len(BaseLog(r)) \in Nat /\ Entry(r).seals \in Nat
        /\ Entry(r).seals <= LastSeal(Newest)
    BY <1>1, <2>1, BaseFacts DEF Shape
  <2>3. Len(BaseLog(r)) + LastSeal(Newest) - Entry(r).seals = Len(mem.log)
    BY <2>1 DEF Count
  <2> HIDE DEF r
  <2> SUFFICES ASSUME NEW i \in extent.seals + 1 .. Len(disk[Newest].seals),
                      disk[Newest].seals[i].commit # 0
               PROVE  FALSE
    BY <1>2 DEF SealsPart
  <2>4. i \in Entry(r).seals + 1 .. Len(disk[Newest].seals)
    BY <2>2, <1>3, <1>6
  <2>5. Len(BaseLog(r)) + i - Entry(r).seals <= Len(mem.log)
    BY <2>1, <2>4 DEF Shape, SealsPart
  <2> DEFINE l == Len(BaseLog(r))
             x == Entry(r).seals
             z == LastSeal(Newest)
             m == Len(mem.log)
  <2>6. l \in Nat /\ x \in Nat /\ z \in Nat /\ m \in Nat /\ l + z - x = m /\ i \in Nat
        /\ l + i - x <= m /\ z + 1 <= i
    BY <2>2, <2>3, <2>5, <1>3, <1>6
  <2> HIDE DEF l, x, z, m
  <2> QED
    BY ONLY <2>6
<1>8. ControlsPart(q)
  <2>1. Len(mem.log) + 1 .. Len(mem.log) = {}
    BY <1>3
  <2> QED
    BY <2>1, <1>2 DEF ControlsPart
<1>9. EventsPart(q)
  <2>1. Len(mem.events) + 1 .. Len(mem.events) = {}
    BY <1>3
  <2> QED
    BY <2>1, <1>2 DEF EventsPart
<1>10. Count(q) = Len(mem.log)
  <2>1. Count(q) = Len(mem.log) + LastSeal(Newest) - LastSeal(Newest)
    BY <1>2, <1>6 DEF Count
  <2> QED
    BY <2>1, <1>3
<1>11. EventCount(Len(mem.log)) = Len(mem.events)
  <2>1. SubSeq(mem.log, 1, Len(mem.log)) = mem.log
    BY <1>1, MemTypes, SubSeqFull
  <2> QED
    BY <2>1, <1>1 DEF EventCount, StateInv
<1>12. Reach(q) = extent
  <2>1. Reach(q) = [controls |-> extent.controls + LastSeal(Newest) - LastSeal(Newest),
                    events |-> extent.events + Len(mem.events) - Len(mem.events),
                    seals |-> extent.seals]
    BY <1>2, <1>6, <1>10, <1>11 DEF Reach
  <2>2. Reach(q) = [controls |-> extent.controls, events |-> extent.events,
                    seals |-> extent.seals]
    BY <2>1, <1>3
  <2> QED
    BY <2>2, <1>3 DEF Kinds
<1>13. Sound(q)
  BY <1>5, <1>12 DEF Sound, Kinds
<1> QED
  BY <1>4, <1>5, <1>7, <1>8, <1>9, <1>10, <1>12, <1>13

(* and it is aligned with the start of the log.                            *)
LEMMA CapturedAligned ==
  ASSUME Inv, Idle, \A k \in Kinds : extent[k] <= Len(disk[Newest][k]), NEW q, q = Captured,
         ~stuck
  PROVE  Aligned(q, Scratch)
<1> DEFINE s == Scratch
<1>1. s \in Points /\ s \in Checkpoints /\ TypeOK /\ StateInv /\ Shape(s)
  BY PointIs DEF Points, Inv
<1>2. extent = Reach(s) /\ Count(s) = Len(mem.log)
  BY <1>1, IdleExtent
<1>3. Entry(q) = extent /\ BaseLog(q) = mem.log /\ BaseEvents(q) = mem.events
  BY CapturedBase
<1> HIDE DEF s
<1>4. /\ Len(BaseLog(s)) \in Nat /\ Entry(s).seals \in Nat /\ Entry(s).controls \in Nat
      /\ Entry(s).events \in Nat /\ Len(BaseEvents(s)) \in Nat
  BY <1>1, BaseFacts DEF Shape
<1>5. LastSeal(Newest) \in Nat /\ Len(mem.log) \in Nat /\ Len(mem.events) \in Nat
  BY <1>1, NewestTypes, MemTypes
<1>6. EventCount(Count(s)) = Len(mem.events)
  <2>1. SubSeq(mem.log, 1, Len(mem.log)) = mem.log
    BY <1>1, MemTypes, SubSeqFull
  <2> QED
    BY <2>1, <1>1, <1>2 DEF EventCount, StateInv
<1>7. Len(BaseLog(s)) + LastSeal(Newest) - Entry(s).seals = Len(mem.log)
  BY <1>2 DEF Count
<1>8. /\ extent.controls = Entry(s).controls + LastSeal(Newest) - Entry(s).seals
      /\ extent.events = Entry(s).events + Len(mem.events) - Len(BaseEvents(s))
      /\ extent.seals = LastSeal(Newest)
  BY <1>2, <1>6 DEF Reach
<1> DEFINE l == Len(BaseLog(s))
           h == Len(BaseEvents(s))
           e == Entry(s)
           z == LastSeal(Newest)
           m == Len(mem.log)
           n == Len(mem.events)
<1>9. /\ l \in Nat /\ h \in Nat /\ e.seals \in Nat /\ e.controls \in Nat /\ e.events \in Nat
      /\ z \in Nat /\ m \in Nat /\ n \in Nat
      /\ l + z - e.seals = m
      /\ extent.controls = e.controls + z - e.seals
      /\ extent.events = e.events + n - h
      /\ extent.seals = z
  BY <1>4, <1>5, <1>7, <1>8
<1> HIDE DEF l, h, e, z, m, n
<1>10. extent.seals + l = e.seals + m
  BY ONLY <1>9
<1>11. extent.controls + l = e.controls + m
  BY ONLY <1>9
<1>12. extent.events + h = e.events + n
  BY ONLY <1>9
<1> QED
  BY <1>3, <1>10, <1>11, <1>12 DEF Aligned, s, l, h, e, m, n

(* Preparing a checkpoint adds such a point.                               *)
LEMMA CheckpointPrepareInv == Inv /\ CheckpointPrepare => Inv'
<1> SUFFICES ASSUME Inv, CheckpointPrepare PROVE Inv'
  OBVIOUS
<1> DEFINE fits == \A k \in Kinds : extent[k] <= Len(disk[Newest][k])
<1>1. /\ Flushed /\ Idle /\ staging = NoCheckpoint
      /\ staging' = IF fits THEN Captured ELSE NoCheckpoint
      /\ UNCHANGED <<disk, mode, writer, commit, mem, saved, checkpoint, issued, history>>
  BY DEF CheckpointPrepare, Flushed, Idle, Captured
<1>2. TypeOK /\ StateInv
  BY DEF Inv
<1>3. Newest' = Newest
  BY <1>1 DEF Newest
<1>4. NoCheckpoint \in Checkpoints /\ NoCheckpoint.segment = 0
  BY ScratchType DEF NoCheckpoint, Checkpoints, Scratch
<1>5. staging' \in Checkpoints
  BY <1>1, <1>4, CapturedType
<1>6. /\ synced' \in [Kinds -> Nat] /\ \A k \in Kinds : synced'[k] <= Len(disk'[Newest'][k])
      /\ \A k \in Kinds : synced[k] <= synced'[k] /\ synced'[k] = Len(disk[Newest][k])
      /\ durable' \in Nat /\ durable' = Len(mem.log)
  BY <1>1, <1>2, <1>3, NewestTypes, MemTypes, FlushedGrows
     DEF Flushed, AllSynced, Lengths
<1>7. TypeOK'
  BY <1>1, <1>2, <1>5, <1>6 DEF TypeOK, writer, history
<1>8. StateInv'
  <2>1. staging'.segment = 0 => staging' = NoCheckpoint
    BY <1>1, <1>2 DEF StateInv, Captured
  <2> QED
    BY <2>1, <1>1, <1>2, <1>3 DEF StateInv, writer, Idle
<1>9. /\ \A p \in Points : PointInv(p)'
      /\ \A p \in Points : (mode = "open" \/ Sound(p) \/ synced = AllSynced)'
      /\ ~stuck' => \A p \in Points : Aligned(p, Scratch)'
      /\ \A p \in Points : Reach(p)' = Reach(p)
  BY <1>1, <1>6, <1>7, <1>8, QuietStep DEF history, Flushed
<1>10. \A p \in Points : (mode = "open" => OpenPart(p))'
  BY <1>1, <1>9, OpenKept, PointIs DEF history
<1>11. CASE ~fits
  <2>1. Points' \subseteq Points
    BY <1>1, <1>4, <1>11 DEF Points, history
  <2> QED
    BY <2>1, <1>7, <1>8, <1>9, <1>10, Assemble
<1>12. CASE fits
  <2> SUFFICES ASSUME NEW q, q = Captured PROVE Inv'
    OBVIOUS
  <2>1. /\ Entry(q) = extent /\ BaseLog(q) = mem.log /\ BaseEvents(q) = mem.events
        /\ FrozenPart(q)
    BY CapturedBase
  <2>2. /\ Valid(q) /\ SealsPart(q) /\ ControlsPart(q) /\ EventsPart(q)
        /\ \A k \in Kinds : WholeUpto(disk[Newest][k], extent[k])
        /\ Count(q) = Len(mem.log) /\ Reach(q) = extent /\ Sound(q)
    BY <1>1, <1>12, CapturedPoint
  <2>3. /\ Entry(q)' = extent /\ BaseLog(q)' = mem.log /\ BaseEvents(q)' = mem.events
        /\ FrozenPart(q)' /\ Valid(q)' /\ SealsPart(q)' /\ ControlsPart(q)' /\ EventsPart(q)'
        /\ Count(q)' = Len(mem.log) /\ Reach(q)' = extent /\ Sound(q)'
    BY <1>1, <2>1, <2>2, FilesSame
  <2>4. /\ extent \in [Kinds -> Nat] /\ Len(mem.log) \in Nat /\ mem.log \in Seq(Batches)
        /\ mem.events = EventsOf(mem.log)
    BY <1>2, MemTypes DEF TypeOK, StateInv
  <2>5. BasePart(q)'
    <3>1. q.commit = Len(q.mem.log)
      BY <1>2 DEF Captured, StateInv
    <3>2. IsPrefix(mem.log, mem.log)
      BY <2>4 DEF IsPrefix
    <3>3. \A k \in Kinds : extent[k] <= synced'[k]
      BY <1>6, <1>12
    <3> QED
      BY <1>1, <1>3, <2>2, <2>3, <2>4, <3>1, <3>2, <3>3 DEF BasePart
  <2>6. DurablePart(q)'
    <3>1. extent.seals \in Nat /\ synced'.seals \in Nat /\ extent.seals <= synced'.seals
      BY <2>4, <1>6, <1>12 DEF Kinds
    <3> QED
      BY <3>1, <2>3, <2>4, <1>6 DEF DurablePart
  <2>7. PointInv(q)'
    BY <2>3, <2>5, <2>6, <1>1 DEF PointInv, Shape
  <2>8. Points' \subseteq Points \cup {q}
    BY <1>1, <1>12 DEF Points, history
  <2>9. ~stuck' => Aligned(q, Scratch)'
    <3> SUFFICES ASSUME ~stuck PROVE Aligned(q, Scratch)'
      BY <1>1 DEF history
    <3>1. Aligned(q, Scratch)
      BY <1>1, <1>12, CapturedAligned
    <3> QED
      BY <3>1, <1>1, FilesSame DEF Aligned
  <2>10. OpenPart(q)'
    <3>1. Resume \in Points
      BY SomePoint
    <3>2. /\ ~failed => Lengths(disk[Newest]) = extent
          /\ failed => stuck /\ extent.seals < MaxFrames
      BY <3>1, <1>1, IdleExtent
    <3>3. /\ phase = "idle" /\ phase' = "idle"
          /\ extent' = extent /\ failed' = failed /\ stuck' = stuck
          /\ disk' = disk
      BY <1>1 DEF Idle, writer, history
    <3>4. "idle" \notin Kinds
      BY DEF Kinds
    <3> QED
      BY <3>2, <3>3, <3>4, <2>3, <2>4, <1>3 DEF OpenPart, Lengths
  <2>11. (mode = "open" \/ Sound(q) \/ synced = AllSynced)'
    BY <2>3
  <2> QED
    BY <2>7, <2>8, <2>9, <2>10, <2>11, <1>7, <1>8, <1>9, <1>10, Assemble
<1> QED
  BY <1>11, <1>12

-----------------------------------------------------------------------------
(***************************************************************************)
(* Steps that write to the files or cut them, with the session as it is.   *)
(***************************************************************************)

(* A step that only tears or cuts behind the reach, for all points.        *)
LEMMA KeepStep ==
  ASSUME Inv, TypeOK', StateInv', mem' = mem, mode = "open", mode' = "open",
         \A p \in Points : NewestKept(p) /\ ReachKeeps(p),
         durable' = durable, scrambled' = scrambled, stuck => stuck',
         synced'.seals >= LastSeal(Newest) \/ synced'.seals >= synced.seals
  PROVE  /\ \A p \in Points : PointInv(p)'
         /\ \A p \in Points : (mode = "open" \/ Sound(p) \/ synced = AllSynced)'
         /\ ~stuck' => \A p \in Points : Aligned(p, Scratch)'
         /\ \A p \in Points : Reach(p)' = Reach(p)
         /\ Newest' = Newest
<1>1. TypeOK /\ StateInv
  BY DEF Inv
<1>2. ASSUME NEW p \in Points
      PROVE  /\ PointInv(p)' /\ Reach(p)' = Reach(p) /\ Newest' = Newest
  <2>1. NewestKept(p) /\ ReachKeeps(p)
    OBVIOUS
  <2>2. /\ Shape(p)'
        /\ Entry(p)' = Entry(p) /\ BaseLog(p)' = BaseLog(p)
        /\ Count(p)' = Count(p) /\ Reach(p)' = Reach(p)
        /\ Sound(p) => Sound(p)' /\ Newest' = Newest
    BY <2>1, PointStep
  <2>3. PointInv(p) /\ DurablePart(p)
    BY PointIs
  <2>4. DurablePart(p)'
    <3>1. durable' \in Nat /\ synced'.seals \in Nat
      BY <1>1 DEF TypeOK, Kinds
    <3>2. durable' <= Count(p)
      BY <2>3 DEF DurablePart
    <3> QED
      BY <2>2, <3>1, <3>2, DurableKept
  <2> QED
    BY <2>2, <2>3, <2>4 DEF PointInv
<1>3. ASSUME ~stuck', NEW p \in Points PROVE Aligned(p, Scratch)'
  <2>1. Scratch \in Points /\ Aligned(p, Scratch)
    BY <1>3 DEF Points, Inv
  <2>2. /\ NewestKept(p) /\ ReachKeeps(p)
        /\ NewestKept(Scratch) /\ ReachKeeps(Scratch)
    BY <2>1
  <2>3. /\ Entry(p)' = Entry(p) /\ BaseLog(p)' = BaseLog(p) /\ BaseEvents(p)' = BaseEvents(p)
        /\ Entry(Scratch)' = Entry(Scratch) /\ BaseLog(Scratch)' = BaseLog(Scratch)
        /\ BaseEvents(Scratch)' = BaseEvents(Scratch)
    BY <2>1, <2>2, PointStep
  <2> QED
    BY <2>1, <2>3 DEF Aligned
<1>4. Newest' = Newest
  BY <1>2, SomePoint
<1> QED
  BY <1>2, <1>3, <1>4

(* Replacing the newest segment leaves the closed ones alone.              *)
LEMMA NewSegment ==
  ASSUME TypeOK, StateInv, NEW seg \in Segments, disk' = [disk EXCEPT ![Newest] = seg]
  PROVE  disk' \in Seq(Segments) /\ OlderSame /\ Newest' = Newest /\ disk'[Newest] = seg
<1>1. disk \in Seq(Segments) /\ Newest \in 1 .. Len(disk) /\ Newest = Len(disk)
  BY NewestTypes DEF TypeOK, Newest
<1>2. disk' \in Seq(Segments) /\ Len(disk') = Len(disk) /\ disk'[Newest] = seg
      /\ \A s \in 1 .. Len(disk) : s # Newest => disk'[s] = disk[s]
  BY <1>1
<1>3. Newest' = Newest
  BY <1>2 DEF Newest
<1>4. \A s \in 1 .. Newest - 1 : s \in 1 .. Len(disk) /\ s # Newest
  BY <1>1
<1> QED
  BY <1>2, <1>3, <1>4 DEF OlderSame

(* Replacing one file of a segment leaves the others alone.                *)
LEMMA SegmentFields ==
  ASSUME NEW seg \in Segments, NEW kind \in Kinds,
         NEW file, file \in IF kind = "seals" THEN Seq(Seals) ELSE Seq(Frames)
  PROVE  /\ [seg EXCEPT ![kind] = file] \in Segments
         /\ [seg EXCEPT ![kind] = file][kind] = file
         /\ \A k \in Kinds : k # kind => [seg EXCEPT ![kind] = file][k] = seg[k]
<1>1. CASE kind = "controls"
  BY <1>1 DEF Segments, Kinds
<1>2. CASE kind = "events"
  BY <1>2 DEF Segments, Kinds
<1>3. CASE kind = "seals"
  BY <1>3 DEF Segments, Kinds
<1> QED
  BY <1>1, <1>2, <1>3, KindsAre

(* What a frame at the end of a file changes.                              *)
LEMMA AppendFacts ==
  ASSUME TypeOK, StateInv, NEW kind \in Kinds,
         NEW frame, frame \in IF kind = "seals" THEN Seals ELSE Frames,
         disk' = [disk EXCEPT ![Newest][kind] = Append(@, frame)]
  PROVE  /\ disk' \in Seq(Segments) /\ OlderSame /\ Newest' = Newest
         /\ Len(disk[Newest][kind]) \in Nat
         /\ Len(disk'[Newest][kind]) = Len(disk[Newest][kind]) + 1
         /\ \A j \in 1 .. Len(disk[Newest][kind]) : disk'[Newest][kind][j] = disk[Newest][kind][j]
         /\ disk'[Newest][kind][Len(disk[Newest][kind]) + 1] = frame
         /\ \A k \in Kinds : k # kind => disk'[Newest][k] = disk[Newest][k]
<1> DEFINE seg == disk[Newest]
           file == Append(seg[kind], frame)
           T == IF kind = "seals" THEN Seals ELSE Frames
<1>1. seg \in Segments
  BY NewestTypes
<1>2. seg[kind] \in Seq(T) /\ frame \in T
  <2>1. CASE kind = "controls"
    BY <2>1, NewestTypes
  <2>2. CASE kind = "events"
    BY <2>2, NewestTypes
  <2>3. CASE kind = "seals"
    BY <2>3, NewestTypes
  <2>4. kind = "controls" \/ kind = "events" \/ kind = "seals"
    BY KindsAre
  <2> HIDE DEF seg, T
  <2> QED
    BY ONLY <2>1, <2>2, <2>3, <2>4
<1>3. file \in Seq(T)
  <2> HIDE DEF seg, T
  <2> QED
    BY ONLY <1>2, AppendProperties DEF file
<1>4. /\ [seg EXCEPT ![kind] = file] \in Segments
      /\ [seg EXCEPT ![kind] = file][kind] = file
      /\ \A k \in Kinds : k # kind => [seg EXCEPT ![kind] = file][k] = seg[k]
  <2>1. file \in IF kind = "seals" THEN Seq(Seals) ELSE Seq(Frames)
    BY <1>3
  <2> HIDE DEF file, seg
  <2> QED
    BY <1>1, <2>1, SegmentFields
<1>5. disk' = [disk EXCEPT ![Newest] = [seg EXCEPT ![kind] = file]]
  OBVIOUS
<1>6. /\ disk' \in Seq(Segments) /\ OlderSame /\ Newest' = Newest
      /\ disk'[Newest] = [seg EXCEPT ![kind] = file]
  BY <1>4, <1>5, NewSegment
<1>7. /\ Len(file) = Len(seg[kind]) + 1 /\ Len(seg[kind]) \in Nat
      /\ \A j \in 1 .. Len(seg[kind]) : file[j] = seg[kind][j]
      /\ file[Len(seg[kind]) + 1] = frame
  BY <1>2, AppendProperties
<1> HIDE DEF file, seg
<1>8. disk'[Newest][kind] = file /\ \A k \in Kinds : k # kind => disk'[Newest][k] = seg[k]
  BY <1>4, <1>6
<1> QED
  BY <1>6, <1>7, <1>8 DEF seg

(* While the session is up the files are read as far as it reaches.        *)
LEMMA HeldReach ==
  ASSUME Inv, mode = "open", NEW p \in Points
  PROVE  /\ Held(p).controls = Reach(p).controls /\ Held(p).events = Reach(p).events
         /\ EventCount(Len(mem.log)) = Len(mem.events) /\ Count(p) = Len(mem.log)
<1>1. /\ TypeOK /\ StateInv /\ p \in Checkpoints /\ Count(p) = Len(mem.log)
      /\ FrozenPart(p) /\ BasePart(p)
  BY PointIs DEF PointInv
<1>2. EventCount(Len(mem.log)) = Len(mem.events)
  <2>1. SubSeq(mem.log, 1, Len(mem.log)) = mem.log
    BY <1>1, MemTypes, SubSeqFull
  <2> QED
    BY <2>1, <1>1 DEF EventCount, StateInv
<1>3. Held(p).events = Reach(p).events
  BY <1>1, <1>2 DEF Held, Reach
<1>4. Held(p).controls = Reach(p).controls
  <2> DEFINE l == Len(BaseLog(p))
             x == Entry(p).seals
             y == Entry(p).controls
             z == LastSeal(Newest)
             m == Len(mem.log)
  <2>1. /\ l \in Nat /\ x \in Nat /\ y \in Nat /\ z \in Nat /\ m \in Nat /\ l + z - x = m
        /\ Held(p).controls = y + m - l /\ Reach(p).controls = y + z - x
    BY <1>1, BaseFacts, NewestTypes, MemTypes DEF Count, Held, Reach
  <2> HIDE DEF l, x, y, z, m
  <2> QED
    BY ONLY <2>1
<1> QED
  BY <1>1, <1>2, <1>3, <1>4

(* A frame appended behind all that is read disturbs no point.             *)
LEMMA AppendKeeps ==
  ASSUME Inv, mode = "open", synced' = synced, NEW p \in Points, NEW kind \in Kinds,
         NEW frame, frame \in IF kind = "seals" THEN Seals ELSE Frames,
         frame.commit = 0 \/ (kind # "seals" /\ Reach(p)[kind] <= Len(disk[Newest][kind])),
         disk' = [disk EXCEPT ![Newest][kind] = Append(@, frame)]
  PROVE  NewestKept(p) /\ ReachKeeps(p)
<1>1. /\ TypeOK /\ StateInv /\ p \in Checkpoints /\ FrozenPart(p) /\ BasePart(p) /\ SealsPart(p)
  BY PointIs
<1> DEFINE old == disk[Newest]
           new == disk'[Newest]
<1>2. /\ OlderSame /\ Newest' = Newest
      /\ Len(old[kind]) \in Nat /\ Len(new[kind]) = Len(old[kind]) + 1
      /\ \A j \in 1 .. Len(old[kind]) : new[kind][j] = old[kind][j]
      /\ new[kind][Len(old[kind]) + 1] = frame
      /\ \A k \in Kinds : k # kind => new[k] = old[k]
  BY <1>1, AppendFacts
<1>3. \A k \in Kinds : Len(old[k]) \in Nat
  BY <1>1, NewestTypes
<1> HIDE DEF old, new
<1>4. ASSUME NEW k \in Kinds, NEW n \in Nat, n <= Len(old[k]) PROVE Keeps(old[k], new[k], n)
  <2>1. CASE k = kind
    BY <2>1, <1>2, <1>4 DEF Keeps
  <2>2. CASE k # kind
    BY <2>2, <1>2, <1>4 DEF Keeps
  <2> QED
    BY <2>1, <2>2
<1>5. ASSUME NEW k \in Kinds, NEW n,
             k # kind \/ frame.commit = 0 \/ (n \in Nat /\ n <= Len(old[kind]))
      PROVE  Fades(old[k], new[k], n)
  <2>1. CASE k # kind
    BY <2>1, <1>2 DEF Fades
  <2>2. CASE k = kind
    <3> SUFFICES ASSUME NEW j \in 1 .. Len(new[kind]), j <= n
                 PROVE  \/ new[kind][j].commit = 0
                        \/ j <= Len(old[kind]) /\ new[kind][j] = old[kind][j]
      BY <2>2 DEF Fades
    <3>1. CASE j <= Len(old[kind])
      BY <3>1, <1>2
    <3>2. CASE j = Len(old[kind]) + 1
      BY <3>2, <1>2, <1>5, <2>2
    <3> QED
      BY <3>1, <3>2, <1>2
  <2> QED
    BY <2>1, <2>2
<1>6. /\ "controls" \in Kinds /\ "events" \in Kinds /\ "seals" \in Kinds
      /\ kind = "controls" \/ kind = "events" \/ kind = "seals"
  BY KindsAre DEF Kinds
<1>7. \A k \in Kinds : /\ Entry(p)[k] \in Nat /\ Entry(p)[k] <= Len(old[k])
                       /\ Entry(p)[k] <= synced'[k]
                       /\ Reach(p)[k] \in Nat
  BY <1>1, BaseFacts, PointFacts DEF BasePart, WholeUpto, old
<1>8. \A k \in Kinds : Keeps(old[k], new[k], Entry(p)[k])
  BY <1>4, <1>7
<1>9. ReachKeeps(p)
  BY <1>4, <1>7 DEF ReachKeeps, old, new
<1>10. /\ Held(p).controls = Reach(p)["controls"] /\ Held(p).events = Reach(p)["events"]
  BY HeldReach
<1>11. Fades(old["controls"], new["controls"], Held(p).controls)
  BY <1>5, <1>6, <1>7, <1>10 DEF old
<1>12. Fades(old["events"], new["events"], Held(p).events)
  BY <1>5, <1>6, <1>7, <1>10 DEF old
<1>13. Fades(old["seals"], new["seals"], Len(new["seals"]))
  <2>1. "seals" # kind \/ frame.commit = 0
    BY <1>6
  <2> QED
    BY <2>1, <1>5, <1>6
<1>14. /\ Fades(disk[Newest].controls, disk'[Newest].controls, Held(p).controls)
       /\ Fades(disk[Newest].events, disk'[Newest].events, Held(p).events)
       /\ Fades(disk[Newest].seals, disk'[Newest].seals, Len(disk'[Newest].seals))
  BY <1>11, <1>12, <1>13 DEF old, new
<1>15. \A k \in Kinds : Keeps(disk[Newest][k], disk'[Newest][k], Entry(p)[k])
  BY <1>8 DEF old, new
<1> QED
  BY <1>2, <1>7, <1>9, <1>14, <1>15 DEF NewestKept

(* The writer's extent is where a replay ends, and the files end there.    *)
LEMMA WritingFacts ==
  ASSUME Inv, phase \in Kinds, NEW p \in Points
  PROVE  /\ mode = "open" /\ Writing(p) /\ commit = Len(mem.log)
         /\ \A k \in Kinds : /\ extent[k] \in Nat /\ Len(disk[Newest][k]) = extent[k]
                             /\ Reach(p)[k] \in Nat /\ Reach(p)[k] <= extent[k]
<1>1. /\ TypeOK /\ StateInv /\ p \in Checkpoints /\ FrozenPart(p) /\ BasePart(p) /\ SealsPart(p)
      /\ mode = "open" => OpenPart(p)
  BY PointIs
<1>2. mode = "open"
  <2>1. phase # "idle"
    BY DEF Kinds
  <2> QED
    BY <1>1, <2>1 DEF TypeOK, StateInv
<1>3. Writing(p)
  BY <1>1, <1>2 DEF OpenPart
<1>4. commit = Len(mem.log)
  BY <1>1 DEF StateInv
<1>5. ASSUME NEW k \in Kinds
      PROVE  /\ extent[k] \in Nat /\ Len(disk[Newest][k]) = extent[k]
             /\ Reach(p)[k] \in Nat
  BY <1>1, <1>3, <1>5, PointFacts DEF TypeOK, Writing, Lengths
<1>6. Reach(p) = before /\ before \in [Kinds -> Nat]
  BY <1>1, <1>3 DEF Writing, TypeOK
<1>7. \A k \in Kinds : before[k] <= extent[k]
  <2> SUFFICES ASSUME NEW k \in Kinds PROVE before[k] <= extent[k]
    OBVIOUS
  <2>0. k = "controls" \/ k = "events" \/ k = "seals"
    BY KindsAre
  <2>1. CASE phase = "controls"
    BY <2>1, <1>3, <1>6 DEF Writing
  <2>2. CASE phase = "events"
    <3>1. extent = [before EXCEPT !.controls = @ + 1]
      BY <2>2, <1>3 DEF Writing
    <3> QED
      BY <3>1, <2>0, <1>6 DEF Kinds
  <2>3. CASE phase = "seals"
    <3>1. extent = [before EXCEPT !.controls = @ + 1,
                                  !.events = IF batch.event THEN @ + 1 ELSE @]
      BY <2>3, <1>3 DEF Writing
    <3>2. before["controls"] \in Nat /\ before["events"] \in Nat /\ before["seals"] \in Nat
      BY <1>6 DEF Kinds
    <3>3. extent["controls"] = before["controls"] + 1 /\ extent["seals"] = before["seals"]
      BY <3>1, <1>6 DEF Kinds
    <3>4. extent["events"] = IF batch.event THEN before["events"] + 1 ELSE before["events"]
      BY <3>1, <1>6 DEF Kinds
    <3> QED
      BY <3>2, <3>3, <3>4, <2>0
  <2> QED
    BY <2>1, <2>2, <2>3 DEF Kinds
<1> QED
  BY <1>2, <1>3, <1>4, <1>5, <1>6, <1>7

-----------------------------------------------------------------------------
(***************************************************************************)
(* The frames of a transaction that precede its seal.                      *)
(***************************************************************************)

(* It keeps the types,                                                     *)
LEMMA AppendType ==
  ASSUME Inv, NEW kind \in Kinds,
         NEW frame, frame \in IF kind = "seals" THEN Seals ELSE Frames,
         disk' = [disk EXCEPT ![Newest][kind] = Append(@, frame)], synced' = synced
  PROVE  /\ disk' \in Seq(Segments)
         /\ synced' \in [Kinds -> Nat] /\ \A k \in Kinds : synced'[k] <= Len(disk'[Newest'][k])
<1>1. TypeOK /\ StateInv
  BY DEF Inv
<1>2. /\ disk' \in Seq(Segments) /\ Newest' = Newest
      /\ Len(disk[Newest][kind]) \in Nat
      /\ Len(disk'[Newest][kind]) = Len(disk[Newest][kind]) + 1
      /\ \A k \in Kinds : k # kind => disk'[Newest][k] = disk[Newest][k]
  BY <1>1, AppendFacts
<1>3. synced \in [Kinds -> Nat] /\ \A k \in Kinds : synced[k] <= Len(disk[Newest][k])
  BY <1>1 DEF TypeOK
<1>4. ASSUME NEW k \in Kinds PROVE synced'[k] <= Len(disk'[Newest'][k])
  <2>1. CASE k = kind
    BY <2>1, <1>2, <1>3
  <2>2. CASE k # kind
    BY <2>2, <1>2, <1>3
  <2> QED
    BY <2>1, <2>2
<1> QED
  BY <1>2, <1>3, <1>4

(* with the frames the code writes, torn or whole.                         *)
LEMMA FrameType ==
  ASSUME TypeOK
  PROVE  /\ [commit |-> commit + 1, batch |-> batch] \in Frames /\ Frame \in Frames
         /\ Frame.commit = commit + 1 /\ commit \in Nat /\ Frame.commit # 0
         /\ \A kind : Torn(kind) \in IF kind = "seals" THEN Seals ELSE Frames
         /\ \A kind : Torn(kind).commit = 0
<1>1. commit \in Nat /\ batch \in Batches
  BY DEF TypeOK
<1>2. NoBatch \in Batches
  BY DEF NoBatch, Batches
<1>3. Frame \in Frames /\ Frame.commit = commit + 1
  BY <1>1 DEF Frame, Frames
<1>4. ASSUME NEW kind
      PROVE  Torn(kind) \in (IF kind = "seals" THEN Seals ELSE Frames) /\ Torn(kind).commit = 0
  BY <1>2 DEF Torn, Seals, Frames
<1> QED
  BY <1>1, <1>3, <1>4 DEF Frame

(* What such a step leaves to show is what the writer knows next.          *)
LEMMA WriteFrame ==
  ASSUME Inv, NEW kind \in {"controls", "events"}, phase = kind, Appended(kind, Frame),
         phase' \in Kinds,
         UNCHANGED <<synced, mode, batch, before, failed, commit, mem, saved, staging,
                     checkpoint, issued, durable, history>>,
         \A p \in Points : Reach(p)' = Reach(p) => Writing(p)'
  PROVE  Inv'
<1>1. /\ TypeOK /\ StateInv /\ kind \in Kinds /\ phase \in Kinds /\ "controls" \in Kinds
      /\ Frame \in IF kind = "seals" THEN Seals ELSE Frames
  BY FrameType DEF Inv, Kinds
<1>2. mode = "open" /\ mode' = "open"
  <2>1. phase # "idle"
    BY DEF Kinds
  <2> QED
    BY <1>1, <2>1 DEF TypeOK, StateInv
<1>3. disk' = [disk EXCEPT ![Newest][kind] = Append(@, Frame)]
      /\ extent' = [extent EXCEPT ![kind] = @ + 1]
  BY DEF Appended
<1>4. ASSUME NEW p \in Points
      PROVE  /\ NewestKept(p) /\ ReachKeeps(p)
             /\ \A k \in Kinds : extent[k] \in Nat /\ Len(disk[Newest][k]) = extent[k]
  <2>1. \A k \in Kinds : /\ extent[k] \in Nat /\ Len(disk[Newest][k]) = extent[k]
                         /\ Reach(p)[k] \in Nat /\ Reach(p)[k] <= extent[k]
    BY <1>1, WritingFacts
  <2>2. Reach(p)[kind] <= Len(disk[Newest][kind]) /\ kind # "seals"
    BY <2>1, <1>1
  <2> QED
    BY <1>1, <1>2, <1>3, <2>1, <2>2, AppendKeeps
<1>5. \A k \in Kinds : extent[k] \in Nat /\ Len(disk[Newest][k]) = extent[k]
  BY <1>4, SomePoint
<1>6. TypeOK'
  <2>1. /\ disk' \in Seq(Segments)
        /\ synced' \in [Kinds -> Nat] /\ \A k \in Kinds : synced'[k] <= Len(disk'[Newest'][k])
    BY <1>1, <1>3, AppendType
  <2>2. extent' \in [Kinds -> Nat]
    <3>1. extent \in [Kinds -> Nat]
      BY <1>1 DEF TypeOK
    <3> QED
      BY ONLY <3>1, <1>3, Increment
  <2> QED
    BY <2>1, <2>2, <1>1 DEF TypeOK, history
<1>7. /\ Newest' = Newest
      /\ Len(disk'[Newest][kind]) = Len(disk[Newest][kind]) + 1
      /\ \A j \in 1 .. Len(disk[Newest][kind]) : disk'[Newest][kind][j] = disk[Newest][kind][j]
      /\ disk'[Newest][kind][Len(disk[Newest][kind]) + 1] = Frame
      /\ \A k \in Kinds : k # kind => disk'[Newest][k] = disk[Newest][k]
  BY <1>1, <1>3, AppendFacts
<1>8. StateInv'
  <2>1. ASSUME NEW k \in Kinds, NEW j \in 1 .. extent'[k], j <= Len(disk'[Newest'][k])
        PROVE  disk'[Newest'][k][j].commit # 0
    <3>1. \A i \in 1 .. extent[k] : disk[Newest][k][i].commit # 0
      BY <1>1, <1>2, <1>5 DEF StateInv
    <3>2. CASE k # kind
      <4>1. extent'[k] = extent[k]
        BY <3>2, <1>1, <1>3 DEF TypeOK
      <4> QED
        BY <3>1, <3>2, <4>1, <1>7, <2>1
    <3>3. CASE k = kind
      <4>1. extent'[k] = extent[k] + 1
        BY <3>3, <1>1, <1>3 DEF TypeOK
      <4>2. CASE j \in 1 .. extent[k]
        BY <4>2, <3>1, <3>3, <1>5, <1>7
      <4>3. CASE j = extent[k] + 1
        BY <4>3, <3>3, <1>1, <1>5, <1>7, FrameType
      <4> QED
        BY <4>1, <4>2, <4>3, <1>5
    <3> QED
      BY <3>2, <3>3
  <2> QED
    BY <2>1, <1>1, <1>2, <1>7 DEF StateInv
<1>9. /\ \A p \in Points : PointInv(p)'
      /\ \A p \in Points : (mode = "open" \/ Sound(p) \/ synced = AllSynced)'
      /\ ~stuck' => \A p \in Points : Aligned(p, Scratch)'
      /\ \A p \in Points : Reach(p)' = Reach(p)
  <2>1. synced'.seals >= synced.seals
    BY <1>1 DEF TypeOK, Kinds
  <2> QED
    BY <2>1, <1>2, <1>4, <1>6, <1>8, KeepStep DEF history
<1>10. \A p \in Points : (mode = "open" => OpenPart(p))'
  <2>1. phase' # "idle" /\ phase' # "rollback"
    BY DEF Kinds
  <2> QED
    BY <2>1, <1>9 DEF OpenPart
<1>11. Points' = Points
  BY DEF Points, history
<1> QED
  BY <1>6, <1>8, <1>9, <1>10, <1>11, Assemble

(* Writing the frames of a transaction keeps the invariant.                *)
LEMMA AppendControlsInv == Inv /\ AppendControls => Inv'
<1> SUFFICES ASSUME Inv, AppendControls PROVE Inv'
  OBVIOUS
<1>1. /\ TypeOK /\ StateInv /\ phase \in Kinds /\ phase = "controls" /\ phase' \in Kinds
      /\ extent \in [Kinds -> Nat] /\ before \in [Kinds -> Nat] /\ "controls" \in Kinds
  BY DEF Inv, AppendControls, Kinds, TypeOK
<1>2. Appended("controls", Frame)
  BY DEF AppendControls, Frame
<1>3. ASSUME NEW p \in Points, Reach(p)' = Reach(p) PROVE Writing(p)'
  <2>1. /\ Writing(p)
        /\ \A k \in Kinds : extent[k] \in Nat /\ Len(disk[Newest][k]) = extent[k]
    BY <1>1, WritingFacts
  <2>2. /\ Newest' = Newest
        /\ Len(disk'[Newest]["controls"]) = Len(disk[Newest]["controls"]) + 1
        /\ disk'[Newest]["controls"][Len(disk[Newest]["controls"]) + 1] = Frame
        /\ \A k \in Kinds : k # "controls" => disk'[Newest][k] = disk[Newest][k]
    BY <1>1, <1>2, FrameType, AppendFacts DEF Appended
  <2>3. extent' = [extent EXCEPT !["controls"] = @ + 1] /\ before' = before /\ extent = before
    BY <1>1, <1>2, <2>1 DEF Appended, AppendControls, Writing
  <2>4. Lengths(disk[Newest])' = extent'
    <3>1. \A k \in Kinds : Len(disk'[Newest][k]) = extent'[k]
      BY <2>1, <2>2, <2>3, <1>1
    <3> QED
      BY <3>1, <2>2, <2>3, <1>1 DEF Lengths
  <2>5. ~failed' /\ before' = Reach(p)' /\ before'.seals < MaxFrames
    BY <1>3, <2>1 DEF Writing, AppendControls
  <2>6. extent'.seals = before'.seals
    BY <2>3, <1>1 DEF Kinds
  <2>7. Frame' = Frame /\ batch' = batch
    BY DEF AppendControls, Frame
  <2>8. extent'.controls = Len(disk[Newest]["controls"]) + 1
    BY <2>1, <2>3, <1>1
  <2>9. disk'[Newest'].controls[extent'.controls] = Frame'
    BY <2>2, <2>7, <2>8
  <2>10. extent' = [before' EXCEPT !.controls = @ + 1]
    BY <2>3
  <2>11. CASE batch.event
    <3>1. phase' = "events" /\ batch'.event
      BY <2>11, <2>7 DEF AppendControls
    <3> QED
      BY <3>1, <2>4, <2>5, <2>6, <2>9, <2>10 DEF Writing
  <2>12. CASE ~batch.event
    <3>1. phase' = "seals" /\ ~batch'.event
      BY <2>12, <2>7 DEF AppendControls
    <3>2. extent' = [before' EXCEPT !.controls = @ + 1,
                                    !.events = IF batch'.event THEN @ + 1 ELSE @]
      BY <3>1, <2>3, <1>1 DEF Kinds
    <3> QED
      BY <3>1, <3>2, <2>4, <2>5, <2>6, <2>9 DEF Writing
  <2> QED
    BY <2>11, <2>12
<1> QED
  BY <1>1, <1>2, <1>3, WriteFrame DEF AppendControls, history

(* So does writing its event,                                              *)
LEMMA AppendEventInv == Inv /\ AppendEvent => Inv'
<1> SUFFICES ASSUME Inv, AppendEvent PROVE Inv'
  OBVIOUS
<1>1. /\ TypeOK /\ StateInv /\ phase \in Kinds /\ phase = "events" /\ phase' = "seals"
      /\ phase' \in Kinds /\ batch' = batch
      /\ extent \in [Kinds -> Nat] /\ before \in [Kinds -> Nat]
      /\ "controls" \in Kinds /\ "events" \in Kinds
  BY DEF Inv, AppendEvent, Kinds, TypeOK
<1>2. Appended("events", Frame)
  BY DEF AppendEvent, Frame
<1>3. ASSUME NEW p \in Points, Reach(p)' = Reach(p) PROVE Writing(p)'
  <2>1. /\ Writing(p) /\ batch.event
        /\ \A k \in Kinds : extent[k] \in Nat /\ Len(disk[Newest][k]) = extent[k]
        /\ disk[Newest].controls[extent.controls] = Frame
    BY <1>1, WritingFacts DEF Writing
  <2>2. /\ Newest' = Newest
        /\ Len(disk'[Newest]["events"]) = Len(disk[Newest]["events"]) + 1
        /\ disk'[Newest]["events"][Len(disk[Newest]["events"]) + 1] = Frame
        /\ \A k \in Kinds : k # "events" => disk'[Newest][k] = disk[Newest][k]
    BY <1>1, <1>2, FrameType, AppendFacts DEF Appended
  <2>3. /\ extent' = [extent EXCEPT !["events"] = @ + 1] /\ before' = before
        /\ extent = [before EXCEPT !.controls = @ + 1]
    BY <1>1, <1>2, <2>1 DEF Appended, AppendEvent, Writing
  <2>4. Lengths(disk[Newest])' = extent'
    <3>1. \A k \in Kinds : Len(disk'[Newest][k]) = extent'[k]
      BY <2>1, <2>2, <2>3, <1>1
    <3> QED
      BY <3>1, <2>2, <2>3, <1>1 DEF Lengths
  <2>5. ~failed' /\ before' = Reach(p)' /\ before'.seals < MaxFrames
    BY <1>3, <2>1 DEF Writing, AppendEvent
  <2>6. /\ extent' = [before' EXCEPT !.controls = @ + 1,
                                     !.events = IF batch'.event THEN @ + 1 ELSE @]
        /\ extent'.seals = before'.seals /\ extent'.controls = extent.controls
    BY <2>1, <2>3, <1>1 DEF Kinds
  <2>7. Frame' = Frame
    BY DEF AppendEvent, Frame
  <2>8. extent'.events = Len(disk[Newest]["events"]) + 1
    BY <2>1, <2>3, <1>1
  <2>9. disk'[Newest'].events[extent'.events] = Frame'
    BY <2>2, <2>7, <2>8
  <2>10. disk'[Newest'].controls[extent'.controls] = Frame'
    BY <2>1, <2>2, <2>6, <2>7, <1>1
  <2> QED
    BY <1>1, <2>4, <2>5, <2>6, <2>9, <2>10 DEF Writing
<1> QED
  BY <1>1, <1>2, <1>3, WriteFrame DEF AppendEvent, history

-----------------------------------------------------------------------------
(***************************************************************************)
(* A failed write and its rollback.                                        *)
(***************************************************************************)

(* and so does a frame that is written only in part.                       *)
LEMMA AppendFailsInv == Inv /\ AppendFails => Inv'
<1> SUFFICES ASSUME Inv, AppendFails PROVE Inv'
  OBVIOUS
<1>1. /\ TypeOK /\ StateInv /\ phase \in Kinds
      /\ failed' = TRUE /\ phase' = "rollback" /\ batch' = NoBatch
      /\ UNCHANGED <<synced, mode, before, extent, commit, mem, saved, staging, checkpoint,
                     issued, durable, stuck, scrambled>>
      /\ \/ disk' = [disk EXCEPT ![Newest][phase] = Append(@, Torn(phase))]
         \/ disk' = disk
  BY DEF Inv, AppendFails, history
<1>2. mode = "open" /\ mode' = "open"
  BY <1>1, WritingFacts, SomePoint
<1>3. /\ Torn(phase) \in IF phase = "seals" THEN Seals ELSE Frames
      /\ Torn(phase).commit = 0
  BY <1>1, FrameType
<1>4. \A k \in Kinds : extent[k] \in Nat /\ Len(disk[Newest][k]) = extent[k]
  BY <1>1, WritingFacts, SomePoint
<1>5. TypeOK'
  <2>1. /\ disk' \in Seq(Segments)
        /\ synced' \in [Kinds -> Nat] /\ \A k \in Kinds : synced'[k] <= Len(disk'[Newest'][k])
    <3>1. CASE disk' = disk
      BY <3>1, <1>1 DEF TypeOK, Newest
    <3>2. CASE disk' = [disk EXCEPT ![Newest][phase] = Append(@, Torn(phase))]
      BY <3>2, <1>1, <1>3, AppendType
    <3> QED
      BY <3>1, <3>2, <1>1
  <2>2. batch' \in Batches
    BY <1>1 DEF NoBatch, Batches
  <2> QED
    BY <2>1, <2>2, <1>1 DEF TypeOK
<1>6. StateInv'
  <2>1. \A k \in Kinds : \A i \in 1 .. extent[k] : disk[Newest][k][i].commit # 0
    BY <1>1, <1>2, <1>4 DEF StateInv
  <2>2. /\ Newest' = Newest
        /\ \A k \in Kinds : \A i \in 1 .. extent[k] : disk'[Newest][k][i] = disk[Newest][k][i]
    <3>1. CASE disk' = disk
      BY <3>1 DEF Newest
    <3>2. CASE disk' = [disk EXCEPT ![Newest][phase] = Append(@, Torn(phase))]
      <4>1. /\ Newest' = Newest
            /\ \A j \in 1 .. Len(disk[Newest][phase]) :
                 disk'[Newest][phase][j] = disk[Newest][phase][j]
            /\ \A k \in Kinds : k # phase => disk'[Newest][k] = disk[Newest][k]
        BY <3>2, <1>1, <1>3, AppendFacts
      <4>2. ASSUME NEW k \in Kinds, NEW i \in 1 .. extent[k]
            PROVE  disk'[Newest][k][i] = disk[Newest][k][i]
        <5>1. CASE k = phase
          BY <5>1, <4>1, <1>4, <1>1
        <5>2. CASE k # phase
          BY <5>2, <4>1
        <5> QED
          BY <5>1, <5>2
      <4> QED
        BY <4>1, <4>2
    <3> QED
      BY <3>1, <3>2, <1>1
  <2> QED
    BY <2>1, <2>2, <1>1, <1>2 DEF StateInv
<1>7. /\ \A p \in Points : PointInv(p)'
      /\ \A p \in Points : (mode = "open" \/ Sound(p) \/ synced = AllSynced)'
      /\ ~stuck' => \A p \in Points : Aligned(p, Scratch)'
      /\ \A p \in Points : Reach(p)' = Reach(p)
  <2>0. synced'.seals >= synced.seals /\ \A k \in Kinds : synced[k] <= synced'[k]
    <3>1. "seals" \in Kinds /\ synced \in [Kinds -> Nat]
      BY <1>1 DEF TypeOK, Kinds
    <3>2. \A k \in Kinds : synced[k] \in Nat
      BY <3>1
    <3>3. \A k \in Kinds : synced[k] <= synced[k]
      BY <3>2
    <3>4. synced' = synced
      BY <1>1
    <3> QED
      BY <3>1, <3>3, <3>4
  <2>1. CASE disk' = disk
    BY <2>0, <2>1, <1>1, <1>2, <1>5, <1>6, QuietStep
  <2>2. CASE disk' = [disk EXCEPT ![Newest][phase] = Append(@, Torn(phase))]
    <3>1. \A p \in Points : NewestKept(p) /\ ReachKeeps(p)
      BY <2>2, <1>1, <1>2, <1>3, AppendKeeps
    <3> QED
      BY <2>0, <3>1, <1>1, <1>2, <1>5, <1>6, KeepStep
  <2> QED
    BY <2>1, <2>2, <1>1
<1>8. \A p \in Points : (mode = "open" => OpenPart(p))'
  <2> SUFFICES ASSUME NEW p \in Points PROVE OpenPart(p)'
    OBVIOUS
  <2>1. /\ Writing(p) /\ before = Reach(p) /\ extent.seals = before.seals
        /\ before.seals < MaxFrames
        /\ \A k \in Kinds : Reach(p)[k] <= extent[k]
    BY <1>1, WritingFacts DEF Writing
  <2>2. phase' \notin Kinds /\ phase' # "idle"
    BY <1>1 DEF Kinds
  <2> QED
    BY <2>1, <2>2, <1>1, <1>7 DEF OpenPart
<1>9. Points' = Points
  BY <1>1 DEF Points
<1> QED
  BY <1>5, <1>6, <1>7, <1>8, <1>9, Assemble

(* A segment from its three files.                                         *)
LEMMA KindRecord ==
  ASSUME NEW seg, seg = [k \in Kinds |-> seg[k]],
         seg["controls"] \in Seq(Frames), seg["events"] \in Seq(Frames),
         seg["seals"] \in Seq(Seals)
  PROVE  seg \in Segments
BY DEF Segments, Kinds

(* What truncating the files of the newest segment changes.                *)
LEMMA CutFacts ==
  ASSUME TypeOK, StateInv, NEW kept \in [Kinds -> Nat],
         disk' = [disk EXCEPT ![Newest] = Cut(@, kept)], synced' = Lower(synced, kept)
  PROVE  /\ disk' \in Seq(Segments) /\ OlderSame /\ Newest' = Newest
         /\ synced' \in [Kinds -> Nat] /\ \A k \in Kinds : synced'[k] <= Len(disk'[Newest'][k])
         /\ \A k \in Kinds :
              /\ synced'[k] = IF synced[k] < kept[k] THEN synced[k] ELSE kept[k]
              /\ Len(disk'[Newest][k]) =
                   IF kept[k] < Len(disk[Newest][k]) THEN kept[k] ELSE Len(disk[Newest][k])
              /\ \A j \in 1 .. Len(disk'[Newest][k]) : disk'[Newest][k][j] = disk[Newest][k][j]
<1> DEFINE old == disk[Newest]
           new == Cut(old, kept)
<1>1. /\ old \in Segments /\ \A k \in Kinds : Len(old[k]) \in Nat
      /\ old["controls"] \in Seq(Frames) /\ old["events"] \in Seq(Frames)
      /\ old["seals"] \in Seq(Seals)
  BY NewestTypes
<1>2. ASSUME NEW k \in Kinds, NEW T, old[k] \in Seq(T)
      PROVE  /\ new[k] \in Seq(T)
             /\ Len(new[k]) = IF kept[k] < Len(old[k]) THEN kept[k] ELSE Len(old[k])
             /\ \A j \in 1 .. Len(new[k]) : new[k][j] = old[k][j]
  <2>1. CASE kept[k] < Len(old[k])
    <3>1. new[k] = SubSeq(old[k], 1, kept[k])
      BY <2>1 DEF Cut
    <3>2. kept[k] \in 0 .. Len(old[k])
      BY <2>1, <1>1
    <3> HIDE DEF old, new
    <3> QED
      BY <2>1, <3>1, <3>2, <1>2, PrefixFacts
  <2>2. CASE ~(kept[k] < Len(old[k]))
    <3>1. new[k] = old[k]
      BY <2>2 DEF Cut
    <3> QED
      BY <2>2, <3>1, <1>2
  <2> QED
    BY <2>1, <2>2
<1>3. /\ "controls" \in Kinds /\ "events" \in Kinds /\ "seals" \in Kinds
      /\ \A k \in Kinds : k = "controls" \/ k = "events" \/ k = "seals"
  BY DEF Kinds
<1>4. new \in Segments
  <2>1. /\ new["controls"] \in Seq(Frames) /\ new["events"] \in Seq(Frames)
        /\ new["seals"] \in Seq(Seals)
    BY <1>1, <1>2, <1>3
  <2>2. new = [k \in Kinds |-> new[k]]
    BY DEF Cut
  <2> HIDE DEF new
  <2> QED
    BY <2>1, <2>2, KindRecord
<1>5. disk' \in Seq(Segments) /\ OlderSame /\ Newest' = Newest /\ disk'[Newest] = new
  <2> HIDE DEF new
  <2> QED
    BY <1>4, NewSegment DEF new
<1>6. \A k \in Kinds : /\ Len(new[k]) = IF kept[k] < Len(old[k]) THEN kept[k] ELSE Len(old[k])
                       /\ \A j \in 1 .. Len(new[k]) : new[k][j] = old[k][j]
  <2> HIDE DEF old, new
  <2> QED
    BY <1>1, <1>2, <1>3
<1>7. synced \in [Kinds -> Nat] /\ \A k \in Kinds : synced[k] <= Len(old[k])
  BY DEF TypeOK
<1> HIDE DEF new, old
<1>8. /\ synced' \in [Kinds -> Nat]
      /\ \A k \in Kinds : synced'[k] = IF synced[k] < kept[k] THEN synced[k] ELSE kept[k]
  <2>1. synced' = [k \in Kinds |-> IF synced[k] < kept[k] THEN synced[k] ELSE kept[k]]
    BY DEF Lower
  <2> QED
    BY <2>1, <1>7
<1>9. \A k \in Kinds : synced'[k] <= Len(new[k])
  <2> SUFFICES ASSUME NEW k \in Kinds PROVE synced'[k] <= Len(new[k])
    OBVIOUS
  <2>1. /\ kept[k] \in Nat /\ synced[k] \in Nat /\ Len(old[k]) \in Nat
        /\ synced[k] <= Len(old[k])
        /\ synced'[k] = IF synced[k] < kept[k] THEN synced[k] ELSE kept[k]
        /\ Len(new[k]) = IF kept[k] < Len(old[k]) THEN kept[k] ELSE Len(old[k])
    BY <1>1, <1>6, <1>7, <1>8 DEF old
  <2> QED
    BY ONLY <2>1
<1> QED
  BY <1>5, <1>6, <1>8, <1>9 DEF old

(* Cutting the files behind all that is read disturbs no point.            *)
LEMMA CutKeeps ==
  ASSUME Inv, NEW p \in Points, NEW kept \in [Kinds -> Nat],
         disk' = [disk EXCEPT ![Newest] = Cut(@, kept)], synced' = Lower(synced, kept),
         \A k \in Kinds : Reach(p)[k] <= kept[k]
  PROVE  NewestKept(p) /\ ReachKeeps(p)
<1>1. /\ TypeOK /\ StateInv /\ p \in Checkpoints /\ FrozenPart(p) /\ BasePart(p) /\ SealsPart(p)
  BY PointIs
<1>2. /\ OlderSame
      /\ \A k \in Kinds :
           /\ synced'[k] = IF synced[k] < kept[k] THEN synced[k] ELSE kept[k]
           /\ Len(disk'[Newest][k]) =
                IF kept[k] < Len(disk[Newest][k]) THEN kept[k] ELSE Len(disk[Newest][k])
           /\ \A j \in 1 .. Len(disk'[Newest][k]) : disk'[Newest][k][j] = disk[Newest][k][j]
  BY <1>1, CutFacts
<1>3. \A k \in Kinds : /\ Entry(p)[k] \in Nat /\ Reach(p)[k] \in Nat /\ kept[k] \in Nat
                       /\ Len(disk[Newest][k]) \in Nat /\ synced[k] \in Nat
                       /\ Entry(p)[k] <= Reach(p)[k] /\ Entry(p)[k] <= synced[k]
                       /\ Entry(p)[k] <= Len(disk[Newest][k])
  BY <1>1, NewestTypes, BaseFacts, PointFacts DEF BasePart, WholeUpto, TypeOK
<1>4. ASSUME NEW k \in Kinds, NEW n \in Nat, n <= kept[k], n <= Len(disk[Newest][k])
      PROVE  Keeps(disk[Newest][k], disk'[Newest][k], n)
  <2>1. n <= Len(disk'[Newest][k])
    BY <1>2, <1>3, <1>4
  <2>2. \A j \in 1 .. n : j \in 1 .. Len(disk'[Newest][k])
    BY <2>1, <1>2, <1>3
  <2> QED
    BY <2>1, <2>2, <1>2 DEF Keeps
<1>5. \A k \in Kinds : Keeps(disk[Newest][k], disk'[Newest][k], Entry(p)[k])
  <2> SUFFICES ASSUME NEW k \in Kinds PROVE Keeps(disk[Newest][k], disk'[Newest][k], Entry(p)[k])
    OBVIOUS
  <2>1. Entry(p)[k] \in Nat /\ Entry(p)[k] <= kept[k] /\ Entry(p)[k] <= Len(disk[Newest][k])
    <3>1. /\ Entry(p)[k] \in Nat /\ Reach(p)[k] \in Nat /\ kept[k] \in Nat
          /\ Entry(p)[k] <= Reach(p)[k] /\ Reach(p)[k] <= kept[k]
          /\ Entry(p)[k] <= Len(disk[Newest][k])
      BY <1>3
    <3> QED
      BY ONLY <3>1
  <2> QED
    BY <1>4, <2>1
<1>6. ReachKeeps(p)
  BY <1>3, <1>4 DEF ReachKeeps
<1>7. \A k \in Kinds : Entry(p)[k] <= synced'[k]
  <2> SUFFICES ASSUME NEW k \in Kinds PROVE Entry(p)[k] <= synced'[k]
    OBVIOUS
  <2>1. /\ Entry(p)[k] \in Nat /\ Reach(p)[k] \in Nat /\ kept[k] \in Nat /\ synced[k] \in Nat
        /\ Entry(p)[k] <= Reach(p)[k] /\ Reach(p)[k] <= kept[k] /\ Entry(p)[k] <= synced[k]
        /\ synced'[k] = IF synced[k] < kept[k] THEN synced[k] ELSE kept[k]
    BY <1>2, <1>3
  <2> QED
    BY ONLY <2>1
<1>8. \A k \in Kinds : \A n : Fades(disk[Newest][k], disk'[Newest][k], n)
  <2> SUFFICES ASSUME NEW k \in Kinds, NEW j \in 1 .. Len(disk'[Newest][k])
               PROVE  j <= Len(disk[Newest][k]) /\ disk'[Newest][k][j] = disk[Newest][k][j]
    BY DEF Fades
  <2>1. /\ kept[k] \in Nat /\ Len(disk[Newest][k]) \in Nat
        /\ Len(disk'[Newest][k]) =
             IF kept[k] < Len(disk[Newest][k]) THEN kept[k] ELSE Len(disk[Newest][k])
    BY <1>2, <1>3
  <2>2. j <= Len(disk[Newest][k])
    BY ONLY <2>1, j \in 1 .. Len(disk'[Newest][k])
  <2> QED
    BY <2>2, <1>2
<1>9. /\ Fades(disk[Newest].controls, disk'[Newest].controls, Held(p).controls)
      /\ Fades(disk[Newest].events, disk'[Newest].events, Held(p).events)
      /\ Fades(disk[Newest].seals, disk'[Newest].seals, Len(disk'[Newest].seals))
  BY <1>8 DEF Kinds
<1> QED
  BY <1>2, <1>5, <1>6, <1>7, <1>9 DEF NewestKept

(* What the writer has in hand when a transaction failed.                  *)
LEMMA RollbackFacts ==
  ASSUME Inv, phase = "rollback", NEW p \in Points
  PROVE  /\ mode = "open" /\ before = Reach(p) /\ before.seals < MaxFrames
         /\ \A k \in Kinds : before[k] <= extent[k]
         /\ extent.seals = before.seals
         /\ \A k \in Kinds : /\ before[k] \in Nat /\ extent[k] \in Nat
                             /\ Len(disk[Newest][k]) \in Nat
                             /\ before[k] <= Len(disk[Newest][k])
<1>1. /\ TypeOK /\ StateInv /\ p \in Checkpoints /\ FrozenPart(p) /\ BasePart(p) /\ SealsPart(p)
      /\ mode = "open" => OpenPart(p)
  BY PointIs
<1>2. mode = "open"
  <2>1. phase # "idle"
    OBVIOUS
  <2> QED
    BY <1>1, <2>1 DEF TypeOK, StateInv
<1>3. /\ before = Reach(p) /\ before.seals < MaxFrames
      /\ \A k \in Kinds : before[k] <= extent[k]
      /\ extent.seals = before.seals
  BY <1>1, <1>2 DEF OpenPart
<1>4. Sound(p)
  BY <1>2, PointIs DEF PointInv
<1>5. /\ Reach(p).controls <= Len(disk[Newest].controls)
      /\ Reach(p).events <= Len(disk[Newest].events)
  BY <1>4 DEF Sound, WholeUpto
<1>6. Reach(p).seals <= Len(disk[Newest].seals)
  BY <1>1, NewestTypes DEF Reach
<1>7. \A k \in Kinds : before[k] <= Len(disk[Newest][k])
  BY <1>3, <1>5, <1>6, KindsAre
<1>8. \A k \in Kinds : /\ before[k] \in Nat /\ extent[k] \in Nat /\ Len(disk[Newest][k]) \in Nat
  BY <1>1, NewestTypes DEF TypeOK
<1> QED
  BY <1>2, <1>3, <1>7, <1>8

(* Rolling back, as far as it gets, keeps the invariant.                   *)
LEMMA RollbackInv == ASSUME NEW n \in 0 .. 3 PROVE Inv /\ Rollback(n) => Inv'
<1> SUFFICES ASSUME Inv, Rollback(n) PROVE Inv'
  OBVIOUS
<1> DEFINE kept == [k \in Kinds |-> IF k \in FirstKinds(n) THEN before[k]
                                    ELSE Len(disk[Newest][k])]
<1>1. /\ TypeOK /\ StateInv /\ phase = "rollback" /\ phase' = "idle"
      /\ disk' = [disk EXCEPT ![Newest] = Cut(@, kept)] /\ synced' = Lower(synced, kept)
      /\ extent' = IF n = 3 THEN before ELSE extent
      /\ failed' = (n < 3) /\ stuck' = (stuck \/ n < 3)
      /\ UNCHANGED <<mode, batch, before, commit, mem, saved, staging, checkpoint, issued,
                     durable, scrambled>>
  BY DEF Inv, Rollback
<1>2. /\ mode = "open" /\ mode' = "open"
      /\ \A k \in Kinds : before[k] <= extent[k]
      /\ \A k \in Kinds : /\ before[k] \in Nat /\ extent[k] \in Nat
                          /\ Len(disk[Newest][k]) \in Nat
                          /\ before[k] <= Len(disk[Newest][k])
  BY <1>1, RollbackFacts, SomePoint
<1>3. /\ kept \in [Kinds -> Nat]
      /\ \A k \in Kinds : before[k] <= kept[k] /\ kept[k] <= Len(disk[Newest][k])
      /\ n = 3 => kept = before
  <2>1. \A k \in Kinds : kept[k] = before[k] \/ kept[k] = Len(disk[Newest][k])
    OBVIOUS
  <2>2. kept \in [Kinds -> Nat]
    BY <1>2
  <2>3. \A k \in Kinds : before[k] <= kept[k] /\ kept[k] <= Len(disk[Newest][k])
    BY <1>2, <2>1
  <2>4. ASSUME n = 3 PROVE kept = before
    <3>1. \A k \in Kinds : k \in FirstKinds(n)
      <4>1. /\ 1 \in 1 .. n /\ 2 \in 1 .. n /\ 3 \in 1 .. n
            /\ KindOrder[1] = "controls" /\ KindOrder[2] = "events" /\ KindOrder[3] = "seals"
        BY <2>4 DEF KindOrder
      <4> QED
        BY <4>1, KindsAre DEF FirstKinds
    <3>2. before \in [Kinds -> Nat]
      BY <1>1 DEF TypeOK
    <3> QED
      BY <3>1, <3>2
  <2> QED
    BY <2>2, <2>3, <2>4
<1> HIDE DEF kept
<1>4. /\ disk' \in Seq(Segments) /\ Newest' = Newest
      /\ synced' \in [Kinds -> Nat] /\ \A k \in Kinds : synced'[k] <= Len(disk'[Newest][k])
      /\ \A k \in Kinds :
           /\ synced'[k] = IF synced[k] < kept[k] THEN synced[k] ELSE kept[k]
           /\ Len(disk'[Newest][k]) = kept[k]
           /\ \A j \in 1 .. Len(disk'[Newest][k]) : disk'[Newest][k][j] = disk[Newest][k][j]
  <2>1. \A k \in Kinds : kept[k] \in Nat /\ Len(disk[Newest][k]) \in Nat
    BY <1>2, <1>3
  <2>2. \A k \in Kinds : Len(disk'[Newest][k]) =
                           IF kept[k] < Len(disk[Newest][k]) THEN kept[k] ELSE Len(disk[Newest][k])
    BY <1>1, <1>3, CutFacts
  <2>3. \A k \in Kinds : Len(disk'[Newest][k]) = kept[k]
    BY <1>3, <2>1, <2>2
  <2> QED
    BY <2>3, <1>1, <1>3, CutFacts
<1>5. TypeOK'
  <2>1. extent' \in [Kinds -> Nat] /\ before' \in [Kinds -> Nat]
    BY <1>1 DEF TypeOK
  <2>2. failed' \in BOOLEAN /\ stuck' \in BOOLEAN
    <3>1. failed' = (n < 3)
      BY <1>1
    <3>2. stuck' = (stuck \/ n < 3)
      BY <1>1
    <3>3. failed' = TRUE \/ failed' = FALSE
      BY ONLY <3>1
    <3>4. stuck' = TRUE \/ stuck' = FALSE
      BY ONLY <3>2
    <3> QED
      BY ONLY <3>3, <3>4, Zenon
  <2>3. {stuck', scrambled'} \subseteq BOOLEAN
    BY <2>2, <1>1 DEF TypeOK
  <2>4. /\ mode' \in {"open", "closed"} /\ phase' \in {"idle", "rollback"} \cup Kinds
        /\ batch' \in Batches
    BY <1>1 DEF TypeOK
  <2>5. /\ {commit', saved', issued', durable'} \subseteq Nat
        /\ {staging', checkpoint'} \subseteq Checkpoints
        /\ mem' \in [log : Seq(Batches), events : Seq(Batches)]
    BY <1>1 DEF TypeOK
  <2> QED
    BY <2>1, <2>2, <2>3, <2>4, <2>5, <1>4 DEF TypeOK
<1>6. StateInv'
  <2>1. \A k \in Kinds : \A j \in 1 .. extent[k] :
          j <= Len(disk[Newest][k]) => disk[Newest][k][j].commit # 0
    BY <1>1, <1>2 DEF StateInv
  <2>2. ASSUME NEW k \in Kinds, NEW j \in 1 .. extent'[k], j <= Len(disk'[Newest'][k])
        PROVE  disk'[Newest'][k][j].commit # 0
    <3>1. /\ extent'[k] \in Nat /\ extent[k] \in Nat /\ extent'[k] <= extent[k]
          /\ kept[k] \in Nat /\ Len(disk[Newest][k]) \in Nat /\ kept[k] <= Len(disk[Newest][k])
          /\ Len(disk'[Newest][k]) = kept[k] /\ Newest' = Newest
      BY <1>1, <1>2, <1>3, <1>4
    <3>2. /\ j \in 1 .. extent[k] /\ j <= Len(disk[Newest][k])
          /\ j \in 1 .. Len(disk'[Newest][k])
      BY <3>1, <2>2
    <3>3. disk'[Newest][k][j] = disk[Newest][k][j]
      BY <3>2, <1>4
    <3> QED
      BY <2>1, <3>1, <3>2, <3>3
  <2> QED
    BY <2>2, <1>1, <1>2, <1>4 DEF StateInv
<1>7. /\ \A p \in Points : PointInv(p)'
      /\ \A p \in Points : (mode = "open" \/ Sound(p) \/ synced = AllSynced)'
      /\ ~stuck' => \A p \in Points : Aligned(p, Scratch)'
      /\ \A p \in Points : Reach(p)' = Reach(p)
  <2>1. \A p \in Points : NewestKept(p) /\ ReachKeeps(p)
    <3> SUFFICES ASSUME NEW p \in Points PROVE NewestKept(p) /\ ReachKeeps(p)
      OBVIOUS
    <3>1. before = Reach(p)
      BY <1>1, RollbackFacts
    <3> QED
      BY <3>1, <1>1, <1>3, CutKeeps
  <2>2. synced'.seals >= LastSeal(Newest) \/ synced'.seals >= synced.seals
    <3>1. "seals" \in Kinds /\ synced["seals"] \in Nat
      BY <1>1 DEF Kinds, TypeOK
    <3>2. before["seals"] = LastSeal(Newest)
      BY <1>1, RollbackFacts, SomePoint DEF Reach
    <3>3. /\ kept["seals"] \in Nat /\ before["seals"] \in Nat /\ before["seals"] <= kept["seals"]
          /\ synced'["seals"] = IF synced["seals"] < kept["seals"] THEN synced["seals"]
                                ELSE kept["seals"]
      BY <3>1, <1>2, <1>3, <1>4
    <3> QED
      BY <3>1, <3>2, <3>3
  <2> QED
    BY <2>1, <2>2, <1>1, <1>2, <1>5, <1>6, KeepStep
<1>8. \A p \in Points : (mode = "open" => OpenPart(p))'
  <2> SUFFICES ASSUME NEW p \in Points PROVE OpenPart(p)'
    OBVIOUS
  <2>1. /\ before = Reach(p) /\ before.seals < MaxFrames /\ extent.seals = before.seals
        /\ Reach(p)' = before
    BY <1>1, <1>7, RollbackFacts
  <2>2. phase' = "idle" /\ phase' # "rollback" /\ phase' \notin Kinds
    BY <1>1 DEF Kinds
  <2>3. CASE n = 3
    <3>0. ~(n < 3)
      BY <2>3
    <3>1. extent' = before /\ ~failed'
      <4>1. extent' = before
        BY <2>3, <1>1
      <4>2. failed' = (n < 3)
        BY <1>1
      <4>3. ~failed'
        BY ONLY <3>0, <4>2, Zenon
      <4> QED
        BY <4>1, <4>3
    <3>2. Lengths(disk[Newest])' = extent'
      <4>1. before \in [Kinds -> Nat] /\ \A k \in Kinds : Len(disk'[Newest][k]) = before[k]
        BY <2>3, <1>1, <1>3, <1>4 DEF TypeOK
      <4> QED
        BY <4>1, <3>1, <1>4 DEF Lengths
    <3> QED
      BY <2>1, <2>2, <3>1, <3>2 DEF OpenPart
  <2>4. CASE n # 3
    <3>0. n < 3
      BY <2>4
    <3>1. extent' = extent /\ failed' /\ stuck'
      <4>1. extent' = extent
        BY <2>4, <1>1
      <4>2. failed' = (n < 3) /\ stuck' = (stuck \/ n < 3)
        BY <1>1
      <4>3. failed' /\ stuck'
        BY ONLY <3>0, <4>2, Zenon
      <4> QED
        BY <4>1, <4>3
    <3> QED
      BY <2>1, <2>2, <3>1, <1>2 DEF OpenPart
  <2> QED
    BY <2>3, <2>4
<1>9. Points' \subseteq Points
  BY <1>1 DEF Points
<1> QED
  BY <1>5, <1>6, <1>7, <1>8, <1>9, Assemble

-----------------------------------------------------------------------------
(***************************************************************************)
(* The seal: the transaction joins the session.                            *)
(***************************************************************************)

(* An element at the end leaves the prefixes as they were.                 *)
LEMMA AppendPrefix ==
  ASSUME NEW S, NEW s \in Seq(S), NEW b \in S, NEW n \in 0 .. Len(s)
  PROVE  SubSeq(Append(s, b), 1, n) = SubSeq(s, 1, n)
<1>1. /\ Append(s, b) \in Seq(S) /\ Len(Append(s, b)) = Len(s) + 1 /\ Len(s) \in Nat
      /\ \A j \in 1 .. Len(s) : Append(s, b)[j] = s[j]
  BY AppendProperties
<1> DEFINE a == Append(s, b)
<1> HIDE DEF a
<1>2. n \in 0 .. Len(a)
  BY <1>1 DEF a
<1>3. /\ SubSeq(a, 1, n) \in Seq(S) /\ Len(SubSeq(a, 1, n)) = n
      /\ \A j \in 1 .. n : SubSeq(a, 1, n)[j] = a[j]
  BY <1>1, <1>2, PrefixFacts DEF a
<1>4. /\ SubSeq(s, 1, n) \in Seq(S) /\ Len(SubSeq(s, 1, n)) = n
      /\ \A j \in 1 .. n : SubSeq(s, 1, n)[j] = s[j]
  BY PrefixFacts
<1>5. \A j \in 1 .. n : SubSeq(a, 1, n)[j] = SubSeq(s, 1, n)[j]
  BY <1>1, <1>3, <1>4 DEF a
<1> SUFFICES ASSUME NEW u, u = SubSeq(a, 1, n), NEW v, v = SubSeq(s, 1, n) PROVE u = v
  BY DEF a
<1>6. u \in Seq(S) /\ v \in Seq(S) /\ Len(u) = Len(v) /\ \A j \in 1 .. Len(u) : u[j] = v[j]
  BY <1>3, <1>4, <1>5
<1> QED
  BY ONLY <1>6, SeqEqual

(* The seal adds the transaction to the session in memory,                 *)
LEMMA SealMem ==
  ASSUME TypeOK, StateInv, AppendSeal
  PROVE  /\ mem' \in [log : Seq(Batches), events : Seq(Batches)]
         /\ mem'.log \in Seq(Batches) /\ mem'.events \in Seq(Batches)
         /\ Len(mem'.log) = Len(mem.log) + 1
         /\ \A n \in 1 .. Len(mem.log) : mem'.log[n] = mem.log[n]
         /\ mem'.log[Len(mem.log) + 1] = batch
         /\ \A n \in 0 .. Len(mem.log) : SubSeq(mem'.log, 1, n) = SubSeq(mem.log, 1, n)
         /\ SubSeq(mem'.log, 1, Len(mem.log) + 1) = mem'.log
         /\ mem'.events = EventsOf(mem'.log)
         /\ Len(mem'.events) = IF batch.event THEN Len(mem.events) + 1 ELSE Len(mem.events)
         /\ \A n \in 1 .. Len(mem.events) : mem'.events[n] = mem.events[n]
         /\ batch.event => mem'.events[Len(mem.events) + 1] = batch
<1>1. /\ mem.log \in Seq(Batches) /\ mem.events \in Seq(Batches)
      /\ Len(mem.log) \in Nat /\ Len(mem.events) \in Nat
      /\ batch \in Batches /\ mem.events = EventsOf(mem.log)
  BY MemTypes DEF TypeOK, StateInv
<1>2. /\ mem' = [log |-> Append(mem.log, batch),
                 events |-> IF batch.event THEN Append(mem.events, batch) ELSE mem.events]
      /\ mem'.log = Append(mem.log, batch)
      /\ mem'.events = IF batch.event THEN Append(mem.events, batch) ELSE mem.events
  BY DEF AppendSeal
<1>3. /\ mem'.log \in Seq(Batches) /\ mem'.events \in Seq(Batches)
      /\ mem' \in [log : Seq(Batches), events : Seq(Batches)]
  BY <1>1, <1>2
<1>4. /\ Len(mem'.log) = Len(mem.log) + 1
      /\ \A n \in 1 .. Len(mem.log) : mem'.log[n] = mem.log[n]
      /\ mem'.log[Len(mem.log) + 1] = batch
  BY <1>1, <1>2, AppendProperties
<1>5. \A n \in 0 .. Len(mem.log) : SubSeq(mem'.log, 1, n) = SubSeq(mem.log, 1, n)
  BY <1>1, <1>2, AppendPrefix
<1>6. SubSeq(mem'.log, 1, Len(mem.log) + 1) = mem'.log
  BY <1>3, <1>4, SubSeqFull
<1>7. mem'.events = EventsOf(mem'.log)
  BY <1>1, <1>2, EventsOfAppend
<1>8. /\ Len(mem'.events) = IF batch.event THEN Len(mem.events) + 1 ELSE Len(mem.events)
      /\ \A n \in 1 .. Len(mem.events) : mem'.events[n] = mem.events[n]
      /\ batch.event => mem'.events[Len(mem.events) + 1] = batch
  <2>1. CASE batch.event
    BY <2>1, <1>1, <1>2, AppendProperties
  <2>2. CASE ~batch.event
    BY <2>2, <1>1, <1>2
  <2> QED
    BY <2>1, <2>2
<1> QED
  BY <1>3, <1>4, <1>5, <1>6, <1>7, <1>8

(* and to the seals on disk.                                               *)
LEMMA SealDisk ==
  ASSUME Inv, AppendSeal
  PROVE  /\ TypeOK' /\ StateInv' /\ mode = "open" /\ mode' = "open" /\ OlderSame /\ Newest' = Newest
         /\ commit = Len(mem.log) /\ phase \in Kinds
         /\ Len(disk'[Newest]["seals"]) = extent["seals"] + 1
         /\ \A j \in 1 .. extent["seals"] : disk'[Newest]["seals"][j] = disk[Newest]["seals"][j]
         /\ disk'[Newest]["seals"][extent["seals"] + 1] =
              [commit |-> commit + 1, controls |-> extent.controls, events |-> extent.events]
         /\ disk'[Newest]["controls"] = disk[Newest]["controls"]
         /\ disk'[Newest]["events"] = disk[Newest]["events"]
         /\ extent' = [extent EXCEPT !["seals"] = @ + 1]
<1> DEFINE frame == [commit |-> commit + 1, controls |-> extent.controls,
                     events |-> extent.events]
<1>1. /\ TypeOK /\ StateInv /\ phase = "seals" /\ phase \in Kinds /\ phase' = "idle"
      /\ batch' = NoBatch /\ commit' = commit + 1
      /\ disk' = [disk EXCEPT ![Newest]["seals"] = Append(@, frame)]
      /\ extent' = [extent EXCEPT !["seals"] = @ + 1]
      /\ "controls" \in Kinds /\ "events" \in Kinds /\ "seals" \in Kinds
      /\ UNCHANGED <<synced, mode, before, failed, saved, staging, checkpoint, issued,
                     durable, stuck, scrambled>>
  BY DEF Inv, AppendSeal, Appended, Kinds, history
<1>2. /\ mode = "open" /\ mode' = "open" /\ commit = Len(mem.log)
      /\ \A k \in Kinds : extent[k] \in Nat /\ Len(disk[Newest][k]) = extent[k]
  BY <1>1, WritingFacts, SomePoint
<1>3. frame \in (IF "seals" = "seals" THEN Seals ELSE Frames) /\ commit \in Nat
  BY <1>1, <1>2 DEF TypeOK, Seals
<1>4. frame.commit # 0
  BY <1>3
<1> HIDE DEF frame
<1>5. /\ OlderSame /\ Newest' = Newest
      /\ Len(disk'[Newest]["seals"]) = extent["seals"] + 1
      /\ \A j \in 1 .. extent["seals"] : disk'[Newest]["seals"][j] = disk[Newest]["seals"][j]
      /\ disk'[Newest]["seals"][extent["seals"] + 1] = frame
      /\ \A k \in Kinds : k # "seals" => disk'[Newest][k] = disk[Newest][k]
  <2>1. /\ OlderSame /\ Newest' = Newest
        /\ Len(disk'[Newest]["seals"]) = Len(disk[Newest]["seals"]) + 1
        /\ \A j \in 1 .. Len(disk[Newest]["seals"]) :
             disk'[Newest]["seals"][j] = disk[Newest]["seals"][j]
        /\ disk'[Newest]["seals"][Len(disk[Newest]["seals"]) + 1] = frame
        /\ \A k \in Kinds : k # "seals" => disk'[Newest][k] = disk[Newest][k]
    BY <1>1, <1>3, AppendFacts
  <2> QED
    BY <2>1, <1>1, <1>2
<1>6. TypeOK'
  <2>1. /\ disk' \in Seq(Segments)
        /\ synced' \in [Kinds -> Nat] /\ \A k \in Kinds : synced'[k] <= Len(disk'[Newest'][k])
    BY <1>1, <1>3, AppendType
  <2>2. extent' \in [Kinds -> Nat]
    <3>1. extent \in [Kinds -> Nat]
      BY <1>1 DEF TypeOK
    <3>2. extent' = [extent EXCEPT !["seals"] = @ + 1]
      BY <1>1
    <3> QED
      BY ONLY <3>1, <3>2, Increment DEF Kinds
  <2>3. mem' \in [log : Seq(Batches), events : Seq(Batches)]
    BY <1>1, SealMem
  <2>4. commit' \in Nat /\ batch' \in Batches
    BY <1>1, <1>3 DEF NoBatch, Batches
  <2> QED
    BY <2>1, <2>2, <2>3, <2>4, <1>1 DEF TypeOK
<1>7. StateInv'
  <2>1. \A k \in Kinds : \A i \in 1 .. extent[k] : disk[Newest][k][i].commit # 0
    BY <1>1, <1>2 DEF StateInv
  <2>2. ASSUME NEW k \in Kinds, NEW j \in 1 .. extent'[k], j <= Len(disk'[Newest'][k])
        PROVE  disk'[Newest'][k][j].commit # 0
    <3>1. CASE k # "seals"
      <4>1. extent'[k] = extent[k]
        BY <3>1, <1>1 DEF TypeOK
      <4> QED
        BY <3>1, <4>1, <2>1, <2>2, <1>5
    <3>2. CASE k = "seals"
      <4>1. extent'[k] = extent[k] + 1
        BY <3>2, <1>1 DEF TypeOK
      <4>2. CASE j \in 1 .. extent[k]
        BY <4>2, <2>1, <3>2, <1>5
      <4>3. CASE j = extent[k] + 1
        BY <4>3, <3>2, <1>4, <1>5
      <4> QED
        BY <4>1, <4>2, <4>3, <1>2
    <3> QED
      BY <3>1, <3>2
  <2>3. commit' = Len(mem'.log) /\ mem'.events = EventsOf(mem'.log)
    BY <1>1, <1>2, SealMem
  <2> QED
    BY <2>2, <2>3, <1>1, <1>2, <1>5 DEF StateInv
<1> QED
  BY <1>1, <1>2, <1>5, <1>6, <1>7 DEF frame

(* The new transaction lies where a replay from p looks for it next.       *)
LEMMA SealPlace ==
  ASSUME Inv, AppendSeal, NEW p \in Points
  PROVE  /\ Entry(p)' = Entry(p) /\ BaseLog(p)' = BaseLog(p) /\ BaseEvents(p)' = BaseEvents(p)
         /\ FrozenPart(p)'
         /\ LastSeal(Newest)' = LastSeal(Newest) + 1 /\ extent["seals"] = LastSeal(Newest)
         /\ Len(mem.log) = Len(BaseLog(p)) + LastSeal(Newest) - Entry(p).seals
         /\ Count(p)' = Len(mem.log) + 1 /\ Count(p)' = Len(mem'.log)
         /\ extent["controls"] = Entry(p).controls + Len(mem.log) + 1 - Len(BaseLog(p))
         /\ extent["events"] = Entry(p).events + Len(mem'.events) - Len(BaseEvents(p))
         /\ Reach(p)' = extent' /\ Len(mem.log) = Count(p)
         /\ \A n \in 0 .. Len(mem.log) : EventCount(n)' = EventCount(n)
         /\ \A n : n = Len(mem.log) + 1 => EventCount(n)' = Len(mem'.events)
<1>1. /\ TypeOK /\ StateInv /\ p \in Checkpoints /\ FrozenPart(p) /\ BasePart(p) /\ SealsPart(p)
      /\ Newest # 0
  BY PointIs DEF StateInv
<1>2. /\ TypeOK' /\ StateInv' /\ mode = "open" /\ OlderSame /\ Newest' = Newest
      /\ commit = Len(mem.log) /\ phase \in Kinds
      /\ Len(disk'[Newest]["seals"]) = extent["seals"] + 1
      /\ \A j \in 1 .. extent["seals"] : disk'[Newest]["seals"][j] = disk[Newest]["seals"][j]
      /\ disk'[Newest]["seals"][extent["seals"] + 1] =
           [commit |-> commit + 1, controls |-> extent.controls, events |-> extent.events]
      /\ extent' = [extent EXCEPT !["seals"] = @ + 1]
  BY SealDisk
<1>3. p.segment \in 1 .. Newest
  BY <1>1, BaseFacts
<1>4. /\ Entry(p)' = Entry(p) /\ BaseLog(p)' = BaseLog(p) /\ BaseEvents(p)' = BaseEvents(p)
      /\ FrozenPart(p)'
  BY <1>1, <1>2, <1>3, OlderKept
<1>5. /\ Writing(p) /\ before = Reach(p)
      /\ \A k \in Kinds : extent[k] \in Nat /\ Len(disk[Newest][k]) = extent[k]
  BY <1>2, WritingFacts DEF Writing
<1>6. phase = "seals" /\ "controls" \in Kinds /\ "events" \in Kinds /\ "seals" \in Kinds
  BY DEF AppendSeal, Kinds
<1>7. /\ extent = [before EXCEPT !.controls = @ + 1,
                                 !.events = IF batch.event THEN @ + 1 ELSE @]
      /\ before \in [Kinds -> Nat]
  BY <1>1, <1>5, <1>6 DEF Writing, TypeOK
<1>8. /\ extent["seals"] = Reach(p).seals
      /\ extent["controls"] = Reach(p).controls + 1
      /\ extent["events"] = IF batch.event THEN Reach(p).events + 1 ELSE Reach(p).events
  BY <1>5, <1>7 DEF Kinds
<1>9. extent["seals"] = LastSeal(Newest)
  BY <1>8 DEF Reach
<1>10. LastSeal(Newest)' = LastSeal(Newest) + 1
  <2> DEFINE old == disk[Newest].seals
             new == disk'[Newest].seals
             z == LastSeal(Newest)
  <2>1. /\ old \in Seq(Seals) /\ new \in Seq(Seals) /\ Len(new) = z + 1 /\ Len(old) = z
        /\ z \in Nat /\ commit \in Nat
    BY <1>1, <1>2, <1>5, <1>6, <1>9, NewestTypes, NewestTypesNext DEF TypeOK
  <2>2. \A j \in 1 .. z : old[j].commit # 0
    BY <2>1, WholeFacts DEF LastSeal
  <2>3. \A j \in 1 .. z : new[j] = old[j]
    BY <1>2, <1>9
  <2>4. new[z + 1].commit # 0
    <3>1. new[z + 1].commit = commit + 1
      BY <1>2, <1>9
    <3> QED
      BY <3>1, <2>1
  <2> HIDE DEF old, new, z
  <2>5. WholeUpto(new, z + 1)
    <3>1. ASSUME NEW j \in 1 .. z + 1 PROVE new[j].commit # 0
      <4>1. j \in 1 .. z \/ j = z + 1
        BY <2>1
      <4> QED
        BY <4>1, <2>2, <2>3, <2>4
    <3> QED
      BY <3>1, <2>1 DEF WholeUpto
  <2>6. z + 1 \in 0 .. Len(new)
    BY <2>1
  <2>7. Len(Whole(new)) = z + 1
    BY <2>1, <2>5, <2>6, WholeIs
  <2> QED
    BY <2>7, <1>2 DEF LastSeal, new, z
<1>11. /\ \A n \in 0 .. Len(mem.log) : SubSeq(mem'.log, 1, n) = SubSeq(mem.log, 1, n)
       /\ SubSeq(mem'.log, 1, Len(mem.log) + 1) = mem'.log
       /\ mem'.events = EventsOf(mem'.log) /\ Len(mem'.log) = Len(mem.log) + 1
       /\ Len(mem'.events) = IF batch.event THEN Len(mem.events) + 1 ELSE Len(mem.events)
  BY <1>1, SealMem
<1>12. /\ \A n \in 0 .. Len(mem.log) : EventCount(n)' = EventCount(n)
       /\ \A n : n = Len(mem.log) + 1 => EventCount(n)' = Len(mem'.events)
  BY <1>11 DEF EventCount
<1>13. /\ Held(p).controls = Reach(p).controls /\ Held(p).events = Reach(p).events
       /\ Count(p) = Len(mem.log)
  BY <1>2, HeldReach
<1> DEFINE l == Len(BaseLog(p))
           lb == Len(BaseEvents(p))
           x == Entry(p).seals
           y == Entry(p).controls
           w == Entry(p).events
           z == LastSeal(Newest)
           m == Len(mem.log)
           e == Len(mem.events)
           f == Len(mem'.events)
<1>14. /\ l \in Nat /\ lb \in Nat /\ x \in Nat /\ y \in Nat /\ w \in Nat /\ z \in Nat /\ m \in Nat
       /\ e \in Nat /\ f = IF batch.event THEN e + 1 ELSE e
       /\ l + z - x = m /\ Count(p)' = l + (z + 1) - x
       /\ Reach(p).controls = y + m - l /\ Reach(p).events = w + e - lb
  BY <1>1, <1>4, <1>10, <1>11, <1>13, BaseFacts, NewestTypes, MemTypes DEF Count, Held
<1>15. extent["controls"] = y + m + 1 - l /\ extent["events"] = w + f - lb
  <2> HIDE DEF l, lb, x, y, w, z, m, e, f
  <2>1. Reach(p).controls + 1 = y + m + 1 - l
    BY ONLY <1>14
  <2>2. Reach(p).events + (IF batch.event THEN 1 ELSE 0) = w + f - lb
    BY ONLY <1>14
  <2>3. extent["events"] = Reach(p).events + (IF batch.event THEN 1 ELSE 0)
    BY ONLY <1>8, <1>14
  <2> QED
    BY <2>1, <2>2, <2>3, <1>8
<1>16. Count(p)' = m + 1 /\ z + 1 - x = m + 1 - l
  <2> HIDE DEF l, lb, x, y, w, z, m, e, f
  <2> QED
    BY ONLY <1>14
<1>17. Reach(p)' = extent'
  <2>1. /\ Reach(p)'.controls = y + (z + 1) - x
        /\ Reach(p)'.events = w + EventCount(Count(p))' - lb
        /\ Reach(p)'.seals = z + 1
    BY <1>4, <1>10 DEF Reach
  <2>2. EventCount(Count(p))' = f
    <3>1. EventCount(Count(p))' = Len(EventsOf(SubSeq(mem'.log, 1, Count(p)')))
      BY DEF EventCount
    <3> QED
      BY <3>1, <1>16, <1>11
  <2>3. /\ extent'["controls"] = extent["controls"] /\ extent'["events"] = extent["events"]
        /\ extent'["seals"] = extent["seals"] + 1
    BY <1>1, <1>2, <1>6 DEF TypeOK
  <2>4. y + (z + 1) - x = y + m + 1 - l
    <3> HIDE DEF l, lb, x, y, w, z, m, e, f
    <3> QED
      BY ONLY <1>14, <1>16
  <2>5. /\ Reach(p)'["controls"] = extent'["controls"] /\ Reach(p)'["events"] = extent'["events"]
        /\ Reach(p)'["seals"] = extent'["seals"]
    BY <2>1, <2>2, <2>3, <2>4, <1>9, <1>15
  <2>6. extent' = [k \in Kinds |-> extent'[k]]
    BY <1>2 DEF TypeOK
  <2>7. \E a, b, c : Reach(p)' = [controls |-> a, events |-> b, seals |-> c]
    BY DEF Reach
  <2> HIDE DEF Reach
  <2> QED
    BY ONLY <2>5, <2>6, <2>7 DEF Kinds
<1> QED
  BY <1>4, <1>9, <1>10, <1>11, <1>12, <1>13, <1>14, <1>15, <1>16, <1>17

(* The parts of the invariant behind the seal.                             *)
LEMMA SealBase ==
  ASSUME Inv, AppendSeal, NEW p \in Points
  PROVE  BasePart(p)'
<1>1. /\ TypeOK /\ StateInv /\ p \in Checkpoints /\ FrozenPart(p) /\ BasePart(p)
  BY PointIs
<1>2. /\ OlderSame /\ Newest' = Newest /\ TypeOK' /\ StateInv' /\ phase \in Kinds
      /\ \A j \in 1 .. extent["seals"] : disk'[Newest]["seals"][j] = disk[Newest]["seals"][j]
      /\ Len(disk'[Newest]["seals"]) = extent["seals"] + 1
      /\ disk'[Newest]["controls"] = disk[Newest]["controls"]
      /\ disk'[Newest]["events"] = disk[Newest]["events"]
  BY SealDisk
<1>3. /\ Entry(p)' = Entry(p) /\ BaseLog(p)' = BaseLog(p) /\ BaseEvents(p)' = BaseEvents(p)
  BY SealPlace
<1>4. "seals" \in Kinds /\ extent["seals"] \in Nat /\ Len(disk[Newest]["seals"]) = extent["seals"]
  <2>1. "seals" \in Kinds
    BY DEF Kinds
  <2> QED
    BY <2>1, <1>2, WritingFacts, SomePoint
<1>5. \A k \in Kinds : /\ Entry(p)[k] \in Nat /\ Entry(p)[k] <= Len(disk[Newest][k])
                       /\ WholeUpto(disk[Newest][k], Entry(p)[k])
                       /\ Entry(p)[k] <= synced[k]
  BY <1>1, BaseFacts DEF BasePart, WholeUpto
<1>6. ASSUME NEW k \in Kinds PROVE Keeps(disk[Newest][k], disk'[Newest][k], Entry(p)[k])
  <2>1. CASE k = "seals"
    <3>1. /\ Entry(p)["seals"] \in Nat /\ Entry(p)["seals"] <= extent["seals"]
          /\ Entry(p)["seals"] <= extent["seals"] + 1
      BY <1>4, <1>5
    <3>2. \A j \in 1 .. Entry(p)["seals"] : j \in 1 .. extent["seals"]
      BY <3>1, <1>4
    <3> QED
      BY <2>1, <3>1, <3>2, <1>2 DEF Keeps
  <2>2. CASE k # "seals"
    <3>1. disk'[Newest][k] = disk[Newest][k]
      BY <2>2, <1>2, KindsAre
    <3> QED
      BY <3>1, <1>5 DEF Keeps
  <2> QED
    BY <2>1, <2>2
<1>7. synced' = synced
  BY DEF AppendSeal
<1>8. Valid(p)'
  BY <1>1, <1>2, <1>6, ValidKept DEF BasePart
<1>9. IsPrefix(BaseLog(p), mem'.log)
  <2>1. /\ BaseLog(p) \in Seq(Batches) /\ Len(BaseLog(p)) \in Nat
        /\ BaseLog(p) = SubSeq(mem.log, 1, Len(BaseLog(p)))
        /\ Len(BaseLog(p)) <= Len(mem.log) /\ Len(mem.log) \in Nat
    BY <1>1, BaseFacts, MemTypes
  <2>2. SubSeq(mem'.log, 1, Len(BaseLog(p))) = BaseLog(p) /\ Len(mem'.log) = Len(mem.log) + 1
    <3>1. Len(BaseLog(p)) \in 0 .. Len(mem.log)
      BY <2>1
    <3>2. /\ Len(mem'.log) = Len(mem.log) + 1
          /\ SubSeq(mem'.log, 1, Len(BaseLog(p))) = SubSeq(mem.log, 1, Len(BaseLog(p)))
      BY <1>1, <3>1, SealMem
    <3> QED
      BY <2>1, <3>2
  <2>3. SubSeq(BaseLog(p), 1, Len(BaseLog(p))) = BaseLog(p)
    BY <2>1, SubSeqFull
  <2>4. Len(BaseLog(p)) <= Len(mem'.log)
    BY <2>1, <2>2
  <2> QED
    BY <2>2, <2>3, <2>4 DEF IsPrefix
<1>10. \A k \in Kinds : WholeUpto(disk'[Newest][k], Entry(p)[k])
  BY <1>5, <1>6 DEF WholeUpto, Keeps
<1>11. p.commit = Len(p.mem.log) /\ BaseEvents(p) = EventsOf(BaseLog(p))
  BY <1>1 DEF BasePart
<1> QED
  BY <1>2, <1>3, <1>5, <1>7, <1>8, <1>9, <1>10, <1>11 DEF BasePart

(* The new seal counts the frames of its transaction.                      *)
LEMMA SealSeals ==
  ASSUME Inv, AppendSeal, NEW p \in Points
  PROVE  SealsPart(p)'
<1>1. /\ TypeOK /\ StateInv /\ p \in Checkpoints /\ FrozenPart(p) /\ BasePart(p) /\ SealsPart(p)
  BY PointIs
<1>2. /\ Newest' = Newest /\ commit = Len(mem.log) /\ phase \in Kinds
      /\ Len(disk'[Newest]["seals"]) = extent["seals"] + 1
      /\ \A j \in 1 .. extent["seals"] : disk'[Newest]["seals"][j] = disk[Newest]["seals"][j]
      /\ disk'[Newest]["seals"][extent["seals"] + 1] =
           [commit |-> commit + 1, controls |-> extent.controls, events |-> extent.events]
  BY SealDisk
<1>3. /\ Entry(p)' = Entry(p) /\ BaseLog(p)' = BaseLog(p) /\ BaseEvents(p)' = BaseEvents(p)
      /\ extent["seals"] = LastSeal(Newest)
      /\ Len(mem.log) = Len(BaseLog(p)) + LastSeal(Newest) - Entry(p).seals
      /\ extent["controls"] = Entry(p).controls + Len(mem.log) + 1 - Len(BaseLog(p))
      /\ extent["events"] = Entry(p).events + Len(mem'.events) - Len(BaseEvents(p))
      /\ \A n \in 0 .. Len(mem.log) : EventCount(n)' = EventCount(n)
      /\ \A n : n = Len(mem.log) + 1 => EventCount(n)' = Len(mem'.events)
  BY SealPlace
<1>4. Len(disk[Newest]["seals"]) = extent["seals"]
  <2>1. "seals" \in Kinds
    BY DEF Kinds
  <2> QED
    BY <2>1, <1>2, WritingFacts, SomePoint
<1>5. Len(mem'.log) = Len(mem.log) + 1
  BY <1>1, SealMem
<1>6. /\ LastSeal(Newest) \in Nat /\ Entry(p).seals \in Nat /\ Len(BaseLog(p)) \in Nat
      /\ Len(mem.log) \in Nat /\ Entry(p).controls \in Nat
  BY <1>1, BaseFacts, NewestTypes, MemTypes
<1> SUFFICES ASSUME NEW i \in Entry(p).seals + 1 .. extent["seals"] + 1,
                    disk'[Newest]["seals"][i].commit # 0,
                    NEW n, n = Len(BaseLog(p)) + i - Entry(p).seals
             PROVE  n <= Len(mem'.log) /\ disk'[Newest]["seals"][i] = Seal(p, n)'
  BY <1>2, <1>3 DEF SealsPart
<1> DEFINE l == Len(BaseLog(p))
           x == Entry(p).seals
           z == LastSeal(Newest)
           m == Len(mem.log)
<1>7. /\ l \in Nat /\ x \in Nat /\ z \in Nat /\ m \in Nat /\ m = l + z - x
      /\ n = l + i - x /\ i \in x + 1 .. z + 1
  BY <1>3, <1>6
<1>8. CASE i <= z
  <2>1. i \in x + 1 .. z /\ i \in 1 .. z /\ n \in 0 .. m
    <3> HIDE DEF l, x, z, m
    <3> QED
      BY ONLY <1>7, <1>8
  <2>2. disk'[Newest]["seals"][i] = disk[Newest].seals[i]
    BY <2>1, <1>2, <1>3
  <2>3. disk[Newest].seals[i] = Seal(p, n)
    <3>1. i \in Entry(p).seals + 1 .. Len(disk[Newest].seals)
      BY <2>1, <1>3, <1>4
    <3>2. disk[Newest].seals[i].commit # 0
      BY <2>2
    <3> QED
      BY <3>1, <3>2, <1>1 DEF SealsPart
  <2>4. EventCount(n)' = EventCount(n)
    BY <2>1, <1>3
  <2>5. Seal(p, n)' = Seal(p, n)
    BY <2>4, <1>3 DEF Seal
  <2>6. n <= m + 1
    <3> HIDE DEF l, x, z, m
    <3> QED
      BY <2>1, <1>7
  <2> QED
    BY <2>2, <2>3, <2>5, <2>6, <1>5
<1>9. CASE i = z + 1
  <2>1. n = m + 1
    <3> HIDE DEF l, x, z, m
    <3> QED
      BY ONLY <1>7, <1>9
  <2>2. /\ Seal(p, n)'.commit = n
        /\ Seal(p, n)'.controls = Entry(p).controls + n - l
        /\ Seal(p, n)'.events = Entry(p).events + EventCount(n)' - Len(BaseEvents(p))
        /\ Seal(p, n)' = [commit |-> Seal(p, n)'.commit, controls |-> Seal(p, n)'.controls,
                          events |-> Seal(p, n)'.events]
    BY <1>3 DEF Seal
  <2>3. EventCount(n)' = Len(mem'.events)
    BY <2>1, <1>3
  <2>4. extent["controls"] = Entry(p).controls + n - l
    <3>0. Entry(p).controls \in Nat
      BY <1>6
    <3>1. Entry(p).controls + (m + 1) - l = Entry(p).controls + m + 1 - l
      <4> DEFINE y == Entry(p).controls
      <4>1. y \in Nat /\ m \in Nat /\ l \in Nat
        BY <3>0, <1>7
      <4> HIDE DEF l, x, y, z, m
      <4>2. y + (m + 1) - l = y + m + 1 - l
        BY ONLY <4>1
      <4> QED
        BY <4>2 DEF y
    <3> QED
      BY <3>1, <2>1, <1>3
  <2>5. disk'[Newest]["seals"][i] =
          [commit |-> n, controls |-> extent.controls, events |-> extent.events]
    BY <2>1, <1>2, <1>3, <1>9
  <2>6. disk'[Newest]["seals"][i] = Seal(p, n)'
    BY <2>2, <2>3, <2>4, <2>5, <1>3
  <2>7. n <= m + 1
    BY <2>1, <1>7
  <2> QED
    BY <2>6, <2>7, <1>5
<1>10. i <= z \/ i = z + 1
  <2> HIDE DEF l, x, z, m
  <2> QED
    BY <1>7
<1> QED
  BY <1>8, <1>9, <1>10

(* The control frame of the transaction is at its place,                   *)
LEMMA SealControls ==
  ASSUME Inv, AppendSeal, NEW p \in Points
  PROVE  ControlsPart(p)'
<1>1. /\ TypeOK /\ StateInv /\ p \in Checkpoints /\ FrozenPart(p) /\ BasePart(p)
      /\ ControlsPart(p)
  BY PointIs
<1>2. /\ Newest' = Newest /\ commit = Len(mem.log) /\ phase \in Kinds
      /\ disk'[Newest]["controls"] = disk[Newest]["controls"]
  BY SealDisk
<1>3. /\ Entry(p)' = Entry(p) /\ BaseLog(p)' = BaseLog(p)
      /\ extent["controls"] = Entry(p).controls + Len(mem.log) + 1 - Len(BaseLog(p))
  BY SealPlace
<1>4. /\ Len(mem'.log) = Len(mem.log) + 1
      /\ \A n \in 1 .. Len(mem.log) : mem'.log[n] = mem.log[n]
      /\ mem'.log[Len(mem.log) + 1] = batch
  BY <1>1, SealMem
<1>5. disk[Newest]["controls"][extent["controls"]] = [commit |-> commit + 1, batch |-> batch]
  BY <1>2, WritingFacts, SomePoint DEF Writing, Frame, AppendSeal
<1> DEFINE l == Len(BaseLog(p))
           y == Entry(p).controls
           m == Len(mem.log)
           file == disk[Newest]["controls"]
<1>6. l \in Nat /\ y \in Nat /\ m \in Nat
  BY <1>1, BaseFacts, MemTypes
<1> SUFFICES ASSUME NEW n \in l + 1 .. m + 1, NEW j, j = y + n - l,
                    j <= Len(file), file[j].commit # 0
             PROVE  file[j] = [commit |-> n, batch |-> mem'.log[n]]
  BY <1>2, <1>3, <1>4, SMTT(30) DEF ControlsPart
<1>7. CASE n <= m
  <2>1. n \in l + 1 .. m /\ n \in 1 .. m
    <3> HIDE DEF l, m
    <3> QED
      BY <1>6, <1>7
  <2>2. file[j] = [commit |-> n, batch |-> mem.log[n]]
    BY <2>1, <1>1 DEF ControlsPart
  <2> QED
    BY <2>1, <2>2, <1>4
<1>8. CASE n = m + 1
  <2>1. j = y + m + 1 - l
    <3> HIDE DEF l, m, y
    <3> QED
      BY <1>6, <1>8
  <2> QED
    BY <2>1, <1>2, <1>3, <1>4, <1>5, <1>8
<1>9. n <= m \/ n = m + 1
  <2> HIDE DEF l, m
  <2> QED
    BY <1>6
<1> QED
  BY <1>7, <1>8, <1>9

(* and so is its event.                                                    *)
LEMMA SealEvents ==
  ASSUME Inv, AppendSeal, NEW p \in Points
  PROVE  EventsPart(p)'
<1>1. /\ TypeOK /\ StateInv /\ p \in Checkpoints /\ FrozenPart(p) /\ BasePart(p)
      /\ EventsPart(p)
  BY PointIs
<1>2. /\ Newest' = Newest /\ phase \in Kinds
      /\ disk'[Newest]["events"] = disk[Newest]["events"]
  BY SealDisk
<1>3. /\ Entry(p)' = Entry(p) /\ BaseEvents(p)' = BaseEvents(p)
      /\ extent["events"] = Entry(p).events + Len(mem'.events) - Len(BaseEvents(p))
  BY SealPlace
<1>4. /\ Len(mem'.events) = IF batch.event THEN Len(mem.events) + 1 ELSE Len(mem.events)
      /\ \A n \in 1 .. Len(mem.events) : mem'.events[n] = mem.events[n]
      /\ batch.event => mem'.events[Len(mem.events) + 1] = batch
  BY <1>1, SealMem
<1>5. batch.event => disk[Newest]["events"][extent["events"]].batch = batch
  BY <1>2, WritingFacts, SomePoint DEF Writing, Frame, AppendSeal
<1> DEFINE l == Len(BaseEvents(p))
           y == Entry(p).events
           m == Len(mem.events)
           h == Len(mem'.events)
           file == disk[Newest]["events"]
<1>6. l \in Nat /\ y \in Nat /\ m \in Nat
  BY <1>1, BaseFacts, MemTypes
<1> SUFFICES ASSUME NEW n \in l + 1 .. h, NEW j, j = y + n - l,
                    j <= Len(file), file[j].commit # 0
             PROVE  file[j].batch = mem'.events[n]
  BY <1>2, <1>3, <1>4 DEF EventsPart
<1>7. CASE n <= m
  <2>1. n \in l + 1 .. m /\ n \in 1 .. m
    <3>1. h = m \/ h = m + 1
      BY <1>4
    <3> HIDE DEF l, m, h
    <3> QED
      BY <1>6, <1>7, <3>1
  <2>2. file[j].batch = mem.events[n]
    BY <2>1, <1>1 DEF EventsPart
  <2> QED
    BY <2>1, <2>2, <1>4
<1>8. CASE n = m + 1
  <2>1. batch.event /\ h = m + 1
    <3>1. h = IF batch.event THEN m + 1 ELSE m
      BY <1>4
    <3> HIDE DEF l, m, h
    <3> QED
      BY <1>6, <1>8, <3>1
  <2>2. j = extent["events"]
    BY <2>1, <1>3, <1>8
  <2> QED
    BY <2>1, <2>2, <1>2, <1>4, <1>5, <1>8
<1>9. n <= m \/ n = m + 1
  <2>1. h = m \/ h = m + 1
    BY <1>4
  <2> HIDE DEF l, m, h
  <2> QED
    BY <1>6, <2>1
<1> QED
  BY <1>7, <1>8, <1>9

(* A point behind the seal recovers one transaction more.                  *)
LEMMA SealPoint ==
  ASSUME Inv, AppendSeal, NEW p \in Points
  PROVE  PointInv(p)'
<1>1. /\ TypeOK /\ StateInv /\ p \in Checkpoints /\ PointInv(p) /\ DurablePart(p)
      /\ FrozenPart(p) /\ BasePart(p)
  BY PointIs
<1>2. /\ TypeOK' /\ StateInv' /\ mode = "open" /\ mode' = "open" /\ Newest' = Newest
      /\ phase \in Kinds
      /\ disk'[Newest]["controls"] = disk[Newest]["controls"]
      /\ disk'[Newest]["events"] = disk[Newest]["events"]
      /\ extent' = [extent EXCEPT !["seals"] = @ + 1]
  BY SealDisk
<1>3. /\ Entry(p)' = Entry(p) /\ BaseLog(p)' = BaseLog(p) /\ FrozenPart(p)'
      /\ Count(p)' = Len(mem.log) + 1 /\ Count(p)' = Len(mem'.log)
      /\ Reach(p)' = extent' /\ Len(mem.log) = Count(p)
  BY SealPlace
<1>4. Shape(p)'
  BY <1>3, SealBase, SealSeals, SealControls, SealEvents DEF Shape
<1>5. DurablePart(p)'
  <2>1. durable' = durable /\ synced' = synced
    BY DEF AppendSeal
  <2>2. durable <= Count(p)'
    <3>1. durable \in Nat /\ Len(mem.log) \in Nat /\ durable <= Len(mem.log)
      BY <1>1, <1>3, MemTypes DEF DurablePart, TypeOK
    <3> QED
      BY <3>1, <1>3
  <2> QED
    BY <2>1, <2>2, <1>1, <1>3 DEF DurablePart
<1>6. Sound(p)'
  <2>1. /\ "controls" \in Kinds /\ "events" \in Kinds
        /\ \A k \in Kinds : extent[k] \in Nat /\ Len(disk[Newest][k]) = extent[k]
    <3>1. "controls" \in Kinds /\ "events" \in Kinds
      BY DEF Kinds
    <3> QED
      BY <3>1, <1>2, WritingFacts, SomePoint
  <2>2. extent'["controls"] = extent["controls"] /\ extent'["events"] = extent["events"]
    BY <1>1, <1>2, <2>1 DEF TypeOK
  <2>3. \A k \in Kinds : \A j \in 1 .. extent[k] : disk[Newest][k][j].commit # 0
    BY <1>1, <1>2, <2>1 DEF StateInv
  <2>4. \A k \in Kinds : WholeUpto(disk[Newest][k], extent[k])
    BY <2>1, <2>3 DEF WholeUpto
  <2> QED
    BY <2>1, <2>2, <2>4, <1>2, <1>3 DEF Sound
<1> QED
  BY <1>2, <1>3, <1>4, <1>5, <1>6 DEF PointInv

(* Sealing a transaction keeps the invariant.                              *)
LEMMA AppendSealInv == Inv /\ AppendSeal => Inv'
<1> SUFFICES ASSUME Inv, AppendSeal PROVE Inv'
  OBVIOUS
<1>1. /\ TypeOK' /\ StateInv' /\ mode = "open" /\ mode' = "open" /\ Newest' = Newest
      /\ phase \in Kinds
      /\ Len(disk'[Newest]["seals"]) = extent["seals"] + 1
      /\ disk'[Newest]["controls"] = disk[Newest]["controls"]
      /\ disk'[Newest]["events"] = disk[Newest]["events"]
      /\ extent' = [extent EXCEPT !["seals"] = @ + 1]
  BY SealDisk
<1>2. \A p \in Points : PointInv(p)'
  BY SealPoint
<1>3. UNCHANGED <<synced, before, failed, saved, staging, checkpoint, stuck>> /\ phase' = "idle"
  BY DEF AppendSeal, history
<1>4. Points' = Points
  BY <1>3 DEF Points
<1>5. ~stuck' => \A p \in Points : Aligned(p, Scratch)'
  <2> SUFFICES ASSUME ~stuck, NEW p \in Points PROVE Aligned(p, Scratch)'
    BY <1>3
  <2>1. Scratch \in Points /\ Aligned(p, Scratch)
    BY DEF Points, Inv
  <2>2. /\ Entry(p)' = Entry(p) /\ BaseLog(p)' = BaseLog(p) /\ BaseEvents(p)' = BaseEvents(p)
        /\ Entry(Scratch)' = Entry(Scratch) /\ BaseLog(Scratch)' = BaseLog(Scratch)
        /\ BaseEvents(Scratch)' = BaseEvents(Scratch)
    BY <2>1, SealPlace
  <2> QED
    BY <2>1, <2>2 DEF Aligned
<1>6. ASSUME NEW p \in Points PROVE OpenPart(p)'
  <2>1. Reach(p)' = extent'
    BY SealPlace
  <2>2. Lengths(disk[Newest])' = extent'
    <3>1. /\ "seals" \in Kinds /\ extent \in [Kinds -> Nat] /\ extent' \in [Kinds -> Nat]
          /\ \A k \in Kinds : Len(disk[Newest][k]) = extent[k]
      <4>1. "seals" \in Kinds /\ extent \in [Kinds -> Nat] /\ extent' \in [Kinds -> Nat]
        BY <1>1 DEF Kinds, Inv, TypeOK
      <4> QED
        BY <4>1, <1>1, WritingFacts
    <3>2. \A k \in Kinds : Len(disk'[Newest][k]) = extent'[k]
      <4> SUFFICES ASSUME NEW k \in Kinds PROVE Len(disk'[Newest][k]) = extent'[k]
        OBVIOUS
      <4>1. CASE k = "seals"
        BY <4>1, <1>1, <3>1
      <4>2. CASE k # "seals"
        <5>1. disk'[Newest][k] = disk[Newest][k] /\ extent'[k] = extent[k]
          BY <4>2, <1>1, <3>1, KindsAre
        <5> QED
          BY <5>1, <3>1
      <4> QED
        BY <4>1, <4>2
    <3> QED
      BY <3>1, <3>2, <1>1 DEF Lengths
  <2>3. ~failed
    BY <1>1, WritingFacts DEF Writing
  <2>4. phase' \notin Kinds /\ phase' # "rollback" /\ ~failed'
    BY <1>3, <2>3 DEF Kinds
  <2> QED
    BY <2>1, <2>2, <2>4 DEF OpenPart
<1>7. \A p \in Points : (mode = "open" \/ Sound(p) \/ synced = AllSynced)'
  BY <1>1
<1> QED
  BY <1>1, <1>2, <1>4, <1>5, <1>6, <1>7, Assemble

-----------------------------------------------------------------------------
(***************************************************************************)
(* Rolling: everything the session consists of freezes behind the new      *)
(* segment.                                                                *)
(***************************************************************************)

(* What starting a new segment changes.                                    *)
LEMMA RollFiles ==
  ASSUME TypeOK, StateInv, disk' = Append(disk, EmptySegment)
  PROVE  /\ disk' \in Seq(Segments) /\ Newest' = Newest + 1
         /\ \A s \in 1 .. Newest : disk'[s] = disk[s]
         /\ disk'[Newest + 1] = EmptySegment
         /\ \A k \in Kinds : EmptySegment[k] = <<>> /\ NoExtent[k] = 0
         /\ LastSeal(Newest)' = 0
<1>1. EmptySegment \in Segments
  <2>1. EmptySegment = [k \in Kinds |-> EmptySegment[k]]
    BY DEF EmptySegment
  <2>2. /\ EmptySegment["controls"] \in Seq(Frames) /\ EmptySegment["events"] \in Seq(Frames)
        /\ EmptySegment["seals"] \in Seq(Seals)
    BY DEF EmptySegment, Kinds
  <2> QED
    BY <2>1, <2>2, KindRecord
<1>2. /\ disk \in Seq(Segments) /\ Newest = Len(disk) /\ Newest \in Nat
  BY DiskTypes DEF TypeOK, StateInv, Newest
<1> HIDE DEF Newest
<1>3. /\ disk' \in Seq(Segments) /\ Len(disk') = Newest + 1
      /\ \A s \in 1 .. Newest : disk'[s] = disk[s]
      /\ disk'[Newest + 1] = EmptySegment
  BY <1>1, <1>2, AppendProperties
<1>4. Newest' = Newest + 1
  BY <1>3 DEF Newest
<1>5. \A k \in Kinds : EmptySegment[k] = <<>> /\ NoExtent[k] = 0
  BY DEF EmptySegment, NoExtent
<1>6. LastSeal(Newest)' = 0
  <2>1. LastSeal(Newest)' = Len(Whole(<<>>))
    <3>1. disk'[Newest'].seals = <<>>
      BY <1>3, <1>4, <1>5 DEF Kinds
    <3> QED
      BY <3>1 DEF LastSeal
  <2>2. Whole(<<>>) = <<>>
    BY DEF Whole
  <2> QED
    BY <2>1, <2>2
<1> QED
  BY <1>3, <1>4, <1>5, <1>6

(* All that was in the newest segment is now in front of it.               *)
LEMMA RollSegments ==
  ASSUME TypeOK, StateInv, disk' = Append(disk, EmptySegment),
         NEW p \in Checkpoints, p.segment \in 1 .. Newest
  PROVE  /\ \A s \in 1 .. Newest : /\ SealsOf(p, s)' = SealsOf(p, s)
                                   /\ \A kind : FramesOf(p, s, kind)' = FramesOf(p, s, kind)
                                   /\ SegmentReplayable(p, s)' = SegmentReplayable(p, s)
         /\ OlderSeals(p)' = SealsRead(p)
         /\ \A kind : Older(p, kind)' = Replay(p, kind)
         /\ Entry(p)' = NoExtent
         /\ Valid(p) => Valid(p)'
<1>1. /\ Newest' = Newest + 1 /\ Newest \in Nat /\ p.segment \in Nat
      /\ \A s \in 1 .. Newest : disk'[s] = disk[s]
      /\ p.segment >= 1 /\ p.segment <= Newest
  <2>1. Newest' = Newest + 1 /\ \A s \in 1 .. Newest : disk'[s] = disk[s]
    BY RollFiles
  <2>2. Newest \in Nat
    BY NewestTypes
  <2>3. \A g : g \in 1 .. Newest => g \in Nat /\ g >= 1 /\ g <= Newest
    BY ONLY <2>2
  <2>4. p.segment \in 1 .. Newest
    OBVIOUS
  <2> QED
    BY ONLY <2>1, <2>2, <2>3, <2>4
<1>2. \A s \in 1 .. Newest : /\ SealsOf(p, s)' = SealsOf(p, s)
                             /\ \A kind : FramesOf(p, s, kind)' = FramesOf(p, s, kind)
                             /\ SegmentReplayable(p, s)' = SegmentReplayable(p, s)
  BY <1>1, SegmentKept
<1> DEFINE N == Newest - p.segment + 1
<1>3. Newest' - p.segment = N /\ \A n \in 1 .. N : p.segment + n - 1 \in 1 .. Newest
  BY <1>1
<1>4. OlderSeals(p)' = SealsRead(p)
  <2>1. OlderSeals(p)' = FlattenSeq([n \in 1 .. N |-> SealsOf(p, p.segment + n - 1)'])
    BY <1>3 DEF OlderSeals
  <2>2. [n \in 1 .. N |-> SealsOf(p, p.segment + n - 1)']
          = [n \in 1 .. N |-> SealsOf(p, p.segment + n - 1)]
    BY <1>2, <1>3
  <2>3. SealsRead(p) = FlattenSeq([n \in 1 .. N |-> SealsOf(p, p.segment + n - 1)])
    BY DEF SealsRead, SealsOf
  <2> QED
    BY <2>1, <2>2, <2>3
<1>5. ASSUME NEW kind PROVE Older(p, kind)' = Replay(p, kind)
  <2>1. Older(p, kind)' = FlattenSeq([n \in 1 .. N |-> FramesOf(p, p.segment + n - 1, kind)'])
    BY <1>3 DEF Older
  <2>2. [n \in 1 .. N |-> FramesOf(p, p.segment + n - 1, kind)']
          = [n \in 1 .. N |-> FramesOf(p, p.segment + n - 1, kind)]
    BY <1>2, <1>3
  <2>3. Replay(p, kind) = FlattenSeq([n \in 1 .. N |-> FramesOf(p, p.segment + n - 1, kind)])
    BY DEF Replay, FramesOf
  <2> QED
    BY <2>1, <2>2, <2>3
<1>6. Entry(p)' = NoExtent
  BY <1>1 DEF Entry, StartOf
<1>7. Valid(p) => Valid(p)'
  <2>1. disk'[p.segment] = disk[p.segment]
    BY <1>1
  <2>2. p.segment \in 1 .. Newest'
    <3>1. \A g : g \in Nat /\ g >= 1 /\ g <= Newest => g \in 1 .. Newest'
      BY ONLY <1>1
    <3> QED
      BY <1>1, <3>1
  <2> QED
    BY <2>1, <2>2 DEF Valid
<1> QED
  BY <1>2, <1>4, <1>5, <1>6, <1>7

(* When the code starts one.                                               *)
LEMMA RollReady ==
  ASSUME Inv, Roll
  PROVE  /\ TypeOK /\ StateInv /\ mode = "open" /\ ~failed
         /\ disk' = Append(disk, EmptySegment) /\ synced' = NoExtent
         /\ before' = NoExtent /\ extent' = NoExtent /\ failed' = FALSE
         /\ durable' = Len(mem.log) /\ issued' = issued + 1 /\ phase' = "controls"
         /\ UNCHANGED <<mode, commit, mem, saved, staging, checkpoint, stuck, scrambled>>
<1>1. /\ mode = "open" /\ phase = "idle" /\ Full
      /\ disk' = Append(disk, EmptySegment) /\ synced' = NoExtent
      /\ before' = NoExtent /\ extent' = NoExtent /\ failed' = FALSE
      /\ durable' = Len(mem.log) /\ issued' = issued + 1 /\ phase' = "controls"
      /\ UNCHANGED <<mode, commit, mem, saved, staging, checkpoint, stuck, scrambled>>
  BY DEF Roll, Idle, StartBatch, history
<1>2. TypeOK /\ StateInv
  BY DEF Inv
<1>3. ~failed
  <2>1. ASSUME failed PROVE extent.seals < MaxFrames
    BY <2>1, <1>1, SomePoint, PointIs DEF OpenPart
  <2>2. extent.seals \in Nat
    BY <1>2 DEF TypeOK, Kinds
  <2> QED
    BY <2>1, <2>2, <1>1, ConstantsAssumption DEF Full
<1> QED
  BY <1>1, <1>2, <1>3

(* The part of the invariant that speaks of no point.                      *)
LEMMA RollState ==
  ASSUME Inv, Roll
  PROVE  TypeOK' /\ StateInv'
<1>1. /\ TypeOK /\ StateInv /\ mode = "open"
      /\ disk' = Append(disk, EmptySegment) /\ synced' = NoExtent
      /\ before' = NoExtent /\ extent' = NoExtent /\ failed' = FALSE
      /\ durable' = Len(mem.log) /\ issued' = issued + 1 /\ phase' = "controls"
      /\ UNCHANGED <<mode, commit, mem, saved, staging, checkpoint, stuck, scrambled>>
  BY RollReady
<1>2. /\ disk' \in Seq(Segments) /\ Newest' = Newest + 1 /\ disk'[Newest'] = EmptySegment
      /\ Newest \in Nat /\ \A k \in Kinds : EmptySegment[k] = <<>> /\ NoExtent[k] = 0
  BY <1>1, RollFiles, NewestTypes
<1>3. batch' \in Batches
  <2>1. PICK event \in BOOLEAN : batch' = [id |-> issued + 1, event |-> event]
    BY DEF Roll, StartBatch
  <2>2. issued + 1 \in Nat
    BY <1>1 DEF TypeOK
  <2> QED
    BY <2>1, <2>2 DEF Batches
<1>4. NoExtent \in [Kinds -> Nat]
  BY DEF NoExtent
<1>5. TypeOK'
  <2>1. "controls" \in Kinds
    BY DEF Kinds
  <2>2. issued' \in Nat /\ durable' \in Nat
    BY <1>1, MemTypes DEF TypeOK
  <2>3. \A k \in Kinds : synced'[k] <= Len(disk'[Newest'][k])
    BY <1>1, <1>2
  <2> QED
    BY <2>1, <2>2, <2>3, <1>1, <1>2, <1>3, <1>4 DEF TypeOK
<1>6. StateInv'
  <2>1. Newest' # 0
    BY <1>2
  <2>2. \A k \in Kinds : \A j \in 1 .. extent'[k] : FALSE
    BY <1>1, <1>2
  <2> QED
    BY <2>1, <2>2, <1>1 DEF StateInv
<1> QED
  BY <1>5, <1>6

(* A replay enters the new segment with the whole session,                 *)
LEMMA RollBase ==
  ASSUME Inv, Roll, NEW p \in Points
  PROVE  /\ Entry(p)' = NoExtent /\ BaseLog(p)' = mem.log /\ BaseEvents(p)' = mem.events
         /\ FrozenPart(p)' /\ Valid(p)'
<1>1. /\ TypeOK /\ StateInv /\ p \in Checkpoints /\ FrozenPart(p) /\ BasePart(p) /\ SealsPart(p)
      /\ Shape(p) /\ PointInv(p)
  BY PointIs
<1>2. /\ mode = "open" /\ disk' = Append(disk, EmptySegment) /\ mem' = mem
  BY RollReady
<1>3. p.segment \in 1 .. Newest /\ Sound(p) /\ Count(p) = Len(mem.log)
  BY <1>1, <1>2, BaseFacts DEF PointInv
<1>4. /\ \A s \in 1 .. Newest : /\ SealsOf(p, s)' = SealsOf(p, s)
                                /\ \A kind : FramesOf(p, s, kind)' = FramesOf(p, s, kind)
                                /\ SegmentReplayable(p, s)' = SegmentReplayable(p, s)
      /\ OlderSeals(p)' = SealsRead(p)
      /\ \A kind : Older(p, kind)' = Replay(p, kind)
      /\ Entry(p)' = NoExtent
      /\ Valid(p)'
  BY <1>1, <1>2, <1>3, RollSegments DEF BasePart
<1>5. /\ Recovered(p) = [log |-> SubSeq(mem.log, 1, Count(p)),
                         events |-> EventsOf(SubSeq(mem.log, 1, Count(p)))]
      /\ \A k \in {"controls", "events"} : FramesOf(p, Newest, k) \in Seq(Batches)
  BY <1>1, <1>3, Recovers
<1>6. SubSeq(mem.log, 1, Count(p)) = mem.log
  BY <1>1, <1>3, MemTypes, SubSeqFull
<1>7. BaseLog(p)' = mem.log
  <2>1. BaseLog(p)' = Recovered(p).log
    BY <1>4 DEF BaseLog, Recovered
  <2> QED
    BY <2>1, <1>5, <1>6
<1>8. BaseEvents(p)' = mem.events
  <2>1. BaseEvents(p)' = Recovered(p).events
    BY <1>4 DEF BaseEvents, Recovered
  <2>2. mem.events = EventsOf(mem.log)
    BY <1>1 DEF StateInv
  <2>3. Recovered(p).events = EventsOf(SubSeq(mem.log, 1, Count(p)))
    BY ONLY <1>5
  <2>4. EventsOf(SubSeq(mem.log, 1, Count(p))) = EventsOf(mem.log)
    BY ONLY <1>6
  <2> QED
    BY ONLY <2>1, <2>2, <2>3, <2>4
<1>9. Newest' = Newest + 1 /\ Newest \in Nat /\ p.segment \in Nat
  BY <1>1, <1>2, RollFiles, NewestTypes, StartType
<1>10. \A s \in p.segment .. Newest' - 1 :
         s \in 1 .. Newest /\ (s \in p.segment .. Newest - 1 \/ s = Newest)
  <2>1. p.segment >= 1
    BY <1>3, <1>9
  <2> DEFINE g == p.segment
  <2>2. g >= 1 /\ g \in Nat
    BY <2>1, <1>9
  <2> HIDE DEF g
  <2>3. \A s \in g .. Newest' - 1 : s \in 1 .. Newest /\ (s \in g .. Newest - 1 \/ s = Newest)
    BY ONLY <2>2, <1>9
  <2> QED
    BY <2>3 DEF g
<1>11. \A s \in p.segment .. Newest' - 1 : SegmentReplayable(p, s)'
  <2>1. SegmentReplayable(p, Newest)
    BY <1>1, <1>3, SoundReplays
  <2>2. \A s \in p.segment .. Newest - 1 : SegmentReplayable(p, s)
    BY <1>1 DEF FrozenPart
  <2> QED
    BY <2>1, <2>2, <1>4, <1>10
<1>12. OlderRead(p, "controls")' /\ OlderRead(p, "events")'
  <2>1. ASSUME NEW kind \in {"controls", "events"} PROVE OlderRead(p, kind)'
    <3>1. OlderRead(p, kind)
      BY <1>1 DEF FrozenPart
    <3>2. FramesOf(p, Newest, kind) \in Seq(Batches)
      BY <1>5
    <3> QED
      BY <3>1, <3>2, <1>4, <1>10 DEF OlderRead
  <2> QED
    BY <2>1
<1>13. /\ Len(OlderSeals(p))' = Len(Older(p, "controls"))'
       /\ \A i \in 1 .. Len(SealsRead(p)) : SealsRead(p)[i].commit = Len(p.mem.log) + i
  <2>1. /\ Len(p.mem.log) \in Nat
        /\ Len(SealsRead(p)) = Count(p) - Len(p.mem.log)
        /\ \A i \in 1 .. Len(SealsRead(p)) : SealsRead(p)[i].commit = Len(p.mem.log) + i
    BY <1>1, ReadCommits
  <2>2. Replay(p, "controls") \in Seq(Batches) /\ p.mem.log \in Seq(Batches)
    BY <1>1, <1>3, <1>5, ReplaySplit, StartType DEF FrozenPart, StateInv
  <2>3. Len(p.mem.log \o Replay(p, "controls")) = Len(p.mem.log) + Len(Replay(p, "controls"))
    BY <2>2, ConcatProperties
  <2>4. Len(mem.log) = Len(p.mem.log) + Len(Replay(p, "controls"))
    BY <2>3, <1>5, <1>6 DEF Recovered
  <2>5. Len(Replay(p, "controls")) \in Nat
    BY <2>2
  <2>6. Len(SealsRead(p)) = Len(Replay(p, "controls"))
    BY <2>1, <2>4, <2>5, <1>3
  <2> QED
    BY <2>1, <2>6, <1>4
<1>14. FrozenPart(p)'
  BY <1>4, <1>11, <1>12, <1>13 DEF FrozenPart
<1> QED
  BY <1>4, <1>7, <1>8, <1>14

(* and finds nothing in it.                                                *)
LEMMA RollPoint ==
  ASSUME Inv, Roll, NEW p \in Points
  PROVE  PointInv(p)' /\ Reach(p)' = NoExtent
<1>1. /\ TypeOK /\ StateInv /\ p \in Checkpoints /\ BasePart(p)
  BY PointIs
<1>2. /\ Entry(p)' = NoExtent /\ BaseLog(p)' = mem.log /\ BaseEvents(p)' = mem.events
      /\ FrozenPart(p)' /\ Valid(p)'
  BY RollBase
<1>3. /\ mode = "open" /\ disk' = Append(disk, EmptySegment) /\ synced' = NoExtent
      /\ durable' = Len(mem.log) /\ mem' = mem /\ mode' = "open"
  BY RollReady
<1>4. /\ disk'[Newest'] = EmptySegment /\ LastSeal(Newest)' = 0
      /\ \A k \in Kinds : EmptySegment[k] = <<>> /\ NoExtent[k] = 0
      /\ EmptySegment["controls"] = <<>> /\ EmptySegment["events"] = <<>>
      /\ EmptySegment["seals"] = <<>>
      /\ NoExtent["controls"] = 0 /\ NoExtent["events"] = 0 /\ NoExtent["seals"] = 0
  <2>1. /\ disk'[Newest'] = EmptySegment /\ LastSeal(Newest)' = 0
        /\ \A k \in Kinds : EmptySegment[k] = <<>> /\ NoExtent[k] = 0
    BY <1>1, <1>3, RollFiles
  <2> QED
    BY <2>1 DEF Kinds
<1>5. /\ mem.log \in Seq(Batches) /\ mem.events \in Seq(Batches) /\ mem.events = EventsOf(mem.log)
      /\ Len(mem.log) \in Nat /\ Len(mem.events) \in Nat
      /\ SubSeq(mem.log, 1, Len(mem.log)) = mem.log
  BY <1>1, MemTypes, SubSeqFull DEF StateInv
<1>6. Count(p)' = Len(mem.log)
  BY <1>2, <1>3, <1>4, <1>5 DEF Count
<1>7. Reach(p)' = NoExtent
  <2>1. EventCount(Count(p))' = Len(mem.events)
    BY <1>3, <1>5, <1>6 DEF EventCount
  <2>2. /\ Reach(p)'["controls"] = 0 /\ Reach(p)'["events"] = 0 /\ Reach(p)'["seals"] = 0
    BY <2>1, <1>2, <1>3, <1>4, <1>5 DEF Reach
  <2>3. \E a, b, c : Reach(p)' = [controls |-> a, events |-> b, seals |-> c]
    BY DEF Reach
  <2>4. NoExtent = [k \in Kinds |-> 0]
    BY DEF NoExtent
  <2> HIDE DEF Reach
  <2> QED
    BY ONLY <2>2, <2>3, <2>4 DEF Kinds
<1>8. BasePart(p)'
  <2>1. p.commit = Len(p.mem.log)
    BY <1>1 DEF BasePart
  <2>2. IsPrefix(mem.log, mem.log)
    BY <1>5 DEF IsPrefix
  <2>3. WholeUpto(<<>>, 0)
    BY DEF WholeUpto
  <2> QED
    BY <2>1, <2>2, <2>3, <1>2, <1>3, <1>4, <1>5 DEF BasePart
<1>9. SealsPart(p)'
  BY <1>2, <1>4 DEF SealsPart
<1>10. ControlsPart(p)'
  BY <1>2, <1>3, <1>5 DEF ControlsPart
<1>11. EventsPart(p)'
  BY <1>2, <1>3, <1>5 DEF EventsPart
<1>12. DurablePart(p)'
  BY <1>2, <1>3, <1>4, <1>5, <1>6 DEF DurablePart
<1>13. Sound(p)'
  <2>1. WholeUpto(<<>>, 0)
    BY DEF WholeUpto
  <2> QED
    BY <2>1, <1>4, <1>7 DEF Sound
<1>14. Shape(p)'
  BY <1>2, <1>8, <1>9, <1>10, <1>11 DEF Shape
<1> QED
  BY <1>3, <1>6, <1>7, <1>12, <1>13, <1>14 DEF PointInv

(* Starting a new segment keeps the invariant.                             *)
LEMMA RollInv == Inv /\ Roll => Inv'
<1> SUFFICES ASSUME Inv, Roll PROVE Inv'
  OBVIOUS
<1>1. /\ TypeOK /\ StateInv /\ disk' = Append(disk, EmptySegment) /\ synced' = NoExtent
      /\ before' = NoExtent /\ extent' = NoExtent /\ failed' = FALSE /\ phase' = "controls"
      /\ mode' = "open"
      /\ UNCHANGED <<staging, checkpoint, stuck>>
  BY RollReady
<1>2. TypeOK' /\ StateInv'
  BY RollState
<1>3. \A p \in Points : PointInv(p)' /\ Reach(p)' = NoExtent
  BY RollPoint
<1>4. Points' = Points
  BY <1>1 DEF Points
<1>5. ~stuck' => \A p \in Points : Aligned(p, Scratch)'
  <2> SUFFICES ASSUME ~stuck, NEW p \in Points PROVE Aligned(p, Scratch)'
    BY <1>1
  <2>1. Scratch \in Points
    BY DEF Points
  <2>2. /\ Entry(p)' = NoExtent /\ BaseLog(p)' = mem.log /\ BaseEvents(p)' = mem.events
        /\ Entry(Scratch)' = NoExtent /\ BaseLog(Scratch)' = mem.log
        /\ BaseEvents(Scratch)' = mem.events
    BY <2>1, RollBase
  <2> QED
    BY <2>2 DEF Aligned
<1>6. ASSUME NEW p \in Points PROVE OpenPart(p)'
  <2>1. /\ disk'[Newest'] = EmptySegment
        /\ \A k \in Kinds : EmptySegment[k] = <<>> /\ NoExtent[k] = 0
    BY <1>1, RollFiles
  <2>2. Lengths(disk[Newest])' = NoExtent
    <3>1. \A k \in Kinds : Len(disk'[Newest'][k]) = 0
      BY <2>1
    <3> QED
      BY <3>1 DEF Lengths, NoExtent
  <2>3. NoExtent.seals = 0 /\ 0 < MaxFrames
    BY <2>1, ConstantsAssumption DEF Kinds
  <2>4. Writing(p)'
    BY <2>2, <2>3, <1>1, <1>3 DEF Writing
  <2> QED
    BY <2>4, <1>1 DEF OpenPart
<1>7. \A p \in Points : (mode = "open" \/ Sound(p) \/ synced = AllSynced)'
  BY <1>1
<1> QED
  BY <1>2, <1>3, <1>4, <1>5, <1>6, <1>7, Assemble

-----------------------------------------------------------------------------
(***************************************************************************)
(* Power loss: of each file a prefix is left, torn at its end perhaps.     *)
(***************************************************************************)

(* What a power loss leaves of a file.                                     *)
LEMMA RemainsFacts ==
  ASSUME NEW T, NEW old \in Seq(T), NEW n \in 0 .. Len(old), NEW kind,
         Torn(kind) \in T, Torn(kind).commit = 0, NEW new \in Remains(old, n, kind)
  PROVE  /\ new \in Seq(T) /\ n <= Len(new) /\ Len(new) <= Len(old) /\ Len(new) \in Nat
         /\ \A j \in 1 .. n : new[j] = old[j]
         /\ \A j \in 1 .. Len(new) : j \in 1 .. n \/ new[j].commit = 0
         /\ n = Len(new) \/ (n < Len(new) /\ new[n + 1].commit = 0)
<1> DEFINE s == SubSeq(old, 1, n)
<1>1. /\ s \in Seq(T) /\ Len(s) = n /\ n \in Nat /\ n <= Len(old) /\ Len(old) \in Nat
      /\ \A j \in 1 .. n : s[j] = old[j]
  BY PrefixFacts
<1>2. new = s \/ (n < Len(old) /\ new = Append(s, Torn(kind)))
  BY DEF Remains
<1> HIDE DEF s
<1>3. CASE new = s
  BY <1>1, <1>3
<1>4. CASE n < Len(old) /\ new = Append(s, Torn(kind))
  <2>1. /\ new \in Seq(T) /\ Len(new) = n + 1
        /\ \A j \in 1 .. n : new[j] = s[j]
        /\ new[n + 1] = Torn(kind)
    BY <1>1, <1>4, AppendProperties
  <2>2. \A j \in 1 .. n + 1 : j \in 1 .. n \/ j = n + 1
    BY <1>1
  <2> QED
    BY <1>1, <1>4, <2>1, <2>2
<1> QED
  BY <1>2, <1>3, <1>4

(* A seal in front of which its data is whole can be replayed.             *)
LEMMA OrderedSound ==
  ASSUME TypeOK, StateInv, NEW p \in Checkpoints, Shape(p), InOrder(disk[Newest])
  PROVE  Sound(p)
<1>1. FrozenPart(p) /\ BasePart(p) /\ SealsPart(p)
  BY DEF Shape
<1> DEFINE l == Len(BaseLog(p))
           lb == Len(BaseEvents(p))
           x == Entry(p).seals
           y == Entry(p).controls
           w == Entry(p).events
           z == LastSeal(Newest)
           ec == EventCount(Count(p))
<1>2. /\ l \in Nat /\ lb \in Nat /\ x \in Nat /\ y \in Nat /\ w \in Nat /\ z \in Nat /\ ec \in Nat
      /\ x <= z /\ lb = EventCount(l) /\ Count(p) = l + z - x
      /\ Reach(p).controls = y + z - x /\ Reach(p).events = w + ec - lb
  BY <1>1, BaseFacts, PointFacts DEF Count, Reach
<1>3. CASE x = z
  <2>1. Count(p) = l
    <3> HIDE DEF l, x, z
    <3> QED
      BY <1>2, <1>3
  <2>2. ec = lb
    BY <2>1, <1>2
  <2>3. Reach(p).controls = y /\ Reach(p).events = w
    <3> HIDE DEF l, lb, x, y, w, z, ec
    <3> QED
      BY <1>2, <1>3, <2>2
  <2>4. /\ WholeUpto(disk[Newest]["controls"], Entry(p)["controls"])
        /\ WholeUpto(disk[Newest]["events"], Entry(p)["events"])
    BY <1>1 DEF BasePart, Kinds
  <2> QED
    BY <2>3, <2>4 DEF Sound
<1>4. CASE x < z
  <2>1. z \in x + 1 .. z
    <3> HIDE DEF x, z
    <3> QED
      BY <1>2, <1>4
  <2>2. disk[Newest].seals[z] = Seal(p, l + z - x)
    BY <1>1, <2>1, PointFacts
  <2>3. /\ disk[Newest].seals[z].controls = y + (l + z - x) - l
        /\ disk[Newest].seals[z].events = w + EventCount(l + z - x) - lb
    BY <2>2 DEF Seal
  <2>4. y + (l + z - x) - l = y + z - x
    <3> HIDE DEF l, lb, x, y, w, z, ec
    <3> QED
      BY ONLY <1>2
  <2>5. /\ disk[Newest].seals[z].controls = Reach(p).controls
        /\ disk[Newest].seals[z].events = Reach(p).events
    BY <2>3, <2>4, <1>2
  <2>6. z \in DOMAIN Whole(disk[Newest].seals)
    <3>1. /\ Whole(disk[Newest].seals) \in Seq(Seals) /\ z = Len(Whole(disk[Newest].seals))
          /\ z \in 1 .. z
      <4>1. z \in 1 .. z
        <5> HIDE DEF x, z
        <5> QED
          BY <1>2, <1>4
      <4> QED
        BY <4>1, NewestTypes, WholeFacts DEF LastSeal
    <3> QED
      BY <3>1
  <2>7. /\ Reach(p).controls <= Len(Whole(disk[Newest].controls))
        /\ Reach(p).events <= Len(Whole(disk[Newest].events))
    BY <2>5, <2>6 DEF InOrder
  <2>8. Reach(p).controls \in Nat /\ Reach(p).events \in Nat
    BY <1>1, PointFacts
  <2>9. ASSUME NEW file \in Seq(Frames), NEW n \in Nat, n <= Len(Whole(file))
        PROVE  WholeUpto(file, n)
    <3>1. /\ Len(Whole(file)) \in 0 .. Len(file)
          /\ \A j \in 1 .. Len(Whole(file)) : file[j].commit # 0
      BY WholeFacts
    <3>2. n <= Len(file) /\ \A j \in 1 .. n : j \in 1 .. Len(Whole(file))
      BY <3>1, <2>9
    <3> QED
      BY <3>1, <3>2 DEF WholeUpto
  <2> QED
    BY <2>7, <2>8, <2>9, NewestTypes DEF Sound
<1>5. x = z \/ x < z
  <2> HIDE DEF x, z
  <2> QED
    BY <1>2
<1> QED
  BY <1>3, <1>4, <1>5

(* The same as a formula,                                                  *)
LEMMA OrderedSoundNow ==
  \A p \in Checkpoints :
    TypeOK /\ StateInv /\ Shape(p) /\ InOrder(disk[Newest]) => Sound(p)
BY OrderedSound

(* which holds after a step as well.                                       *)
LEMMA OrderedSoundNext ==
  (\A p \in Checkpoints :
    TypeOK /\ StateInv /\ Shape(p) /\ InOrder(disk[Newest]) => Sound(p))'
BY OrderedSoundNow, PTL

(* The first n[k] frames of each file survive.                             *)
Lost(n) ==
  \A k \in Kinds : /\ n[k] \in Nat /\ synced[k] <= n[k] /\ n[k] <= Len(disk[Newest][k])
                   /\ disk'[Newest][k] \in Remains(disk[Newest][k], n[k], k)

(* What a power loss leaves of a file of the newest segment.               *)
LEMMA FileLost ==
  ASSUME TypeOK, StateInv, NEW k \in Kinds, NEW n \in Nat, n <= Len(disk[Newest][k]),
         NEW new, new \in Remains(disk[Newest][k], n, k)
  PROVE  /\ new \in IF k = "seals" THEN Seq(Seals) ELSE Seq(Frames)
         /\ n <= Len(new) /\ Len(new) <= Len(disk[Newest][k]) /\ Len(new) \in Nat
         /\ \A j \in 1 .. n : new[j] = disk[Newest][k][j]
         /\ \A j \in 1 .. Len(new) : j \in 1 .. n \/ new[j].commit = 0
         /\ n = Len(new) \/ (n < Len(new) /\ new[n + 1].commit = 0)
<1> DEFINE old == disk[Newest][k]
           T == IF k = "seals" THEN Seals ELSE Frames
<1>1. Torn(k) \in T /\ Torn(k).commit = 0
  BY FrameType
<1>2. old \in Seq(T)
  <2>1. CASE k = "controls"
    BY <2>1, NewestTypes
  <2>2. CASE k = "events"
    BY <2>2, NewestTypes
  <2>3. CASE k = "seals"
    BY <2>3, NewestTypes
  <2>4. k = "controls" \/ k = "events" \/ k = "seals"
    BY KindsAre
  <2> HIDE DEF old, T
  <2> QED
    BY ONLY <2>1, <2>2, <2>3, <2>4
<1>3. n \in 0 .. Len(old)
  <2>1. Len(old) \in Nat
    BY NewestTypes
  <2> QED
    BY <2>1
<1> HIDE DEF old, T
<1>4. /\ new \in Seq(T) /\ n <= Len(new) /\ Len(new) <= Len(old) /\ Len(new) \in Nat
      /\ \A j \in 1 .. n : new[j] = old[j]
      /\ \A j \in 1 .. Len(new) : j \in 1 .. n \/ new[j].commit = 0
      /\ n = Len(new) \/ (n < Len(new) /\ new[n + 1].commit = 0)
  BY <1>1, <1>2, <1>3, RemainsFacts DEF old
<1> QED
  BY <1>4 DEF old, T

(* What it leaves of the log.                                              *)
LEMMA PowerLossFacts ==
  ASSUME TypeOK, StateInv, PowerLoss
  PROVE  /\ disk' \in Seq(Segments) /\ OlderSame /\ Newest' = Newest
         /\ synced' = Lengths(disk'[Newest])
         /\ scrambled' = (scrambled \/ ~InOrder(disk'[Newest]))
         /\ \E n : Lost(n)
<1>0. PICK c \in synced.controls .. Len(disk[Newest].controls),
           e \in synced.events .. Len(disk[Newest].events),
           s \in synced.seals .. Len(disk[Newest].seals) :
        \E controls \in Remains(disk[Newest].controls, c, "controls"),
           events \in Remains(disk[Newest].events, e, "events"),
           seals \in Remains(disk[Newest].seals, s, "seals") :
             LET left == [k \in Kinds |-> CASE k = "controls" -> controls
                                            [] k = "events" -> events
                                            [] k = "seals" -> seals]
             IN /\ \/ "unordered" \in Crashes
                   \/ "ordered" \in Crashes /\ InOrder(left)
                /\ disk' = [disk EXCEPT ![Newest] = left]
                /\ synced' = Lengths(left)
                /\ scrambled' = (scrambled \/ ~InOrder(left))
  BY DEF PowerLoss
<1>1. PICK controls \in Remains(disk[Newest].controls, c, "controls"),
           events \in Remains(disk[Newest].events, e, "events"),
           seals \in Remains(disk[Newest].seals, s, "seals") :
             LET left == [k \in Kinds |-> CASE k = "controls" -> controls
                                            [] k = "events" -> events
                                            [] k = "seals" -> seals]
             IN /\ \/ "unordered" \in Crashes
                   \/ "ordered" \in Crashes /\ InOrder(left)
                /\ disk' = [disk EXCEPT ![Newest] = left]
                /\ synced' = Lengths(left)
                /\ scrambled' = (scrambled \/ ~InOrder(left))
  BY <1>0
<1> DEFINE left == [k \in Kinds |-> CASE k = "controls" -> controls
                                      [] k = "events" -> events
                                      [] k = "seals" -> seals]
<1>2. /\ left["controls"] = controls /\ left["events"] = events /\ left["seals"] = seals
      /\ left = [k \in Kinds |-> left[k]]
  BY DEF Kinds
<1>10. /\ disk' = [disk EXCEPT ![Newest] = left] /\ synced' = Lengths(left)
       /\ scrambled' = (scrambled \/ ~InOrder(left))
  BY <1>1
<1> HIDE DEF left
<1>3. /\ synced["controls"] \in Nat /\ synced["events"] \in Nat /\ synced["seals"] \in Nat
      /\ Len(disk[Newest]["controls"]) \in Nat /\ Len(disk[Newest]["events"]) \in Nat
      /\ Len(disk[Newest]["seals"]) \in Nat
      /\ "controls" \in Kinds /\ "events" \in Kinds /\ "seals" \in Kinds
  BY NewestTypes DEF TypeOK, Kinds
<1>4. /\ c \in Nat /\ synced["controls"] <= c /\ c <= Len(disk[Newest]["controls"])
      /\ e \in Nat /\ synced["events"] <= e /\ e <= Len(disk[Newest]["events"])
      /\ s \in Nat /\ synced["seals"] <= s /\ s <= Len(disk[Newest]["seals"])
  BY <1>3
<1>5. /\ left["controls"] \in Seq(Frames) /\ left["events"] \in Seq(Frames)
      /\ left["seals"] \in Seq(Seals)
  <2>1. left["controls"] \in Seq(Frames)
    BY <1>2, <1>3, <1>4, FileLost
  <2>2. left["events"] \in Seq(Frames)
    BY <1>2, <1>3, <1>4, FileLost
  <2>3. left["seals"] \in Seq(Seals)
    BY <1>2, <1>3, <1>4, FileLost
  <2> QED
    BY <2>1, <2>2, <2>3
<1>6. left \in Segments
  BY <1>2, <1>5, KindRecord
<1>7. disk' \in Seq(Segments) /\ OlderSame /\ Newest' = Newest /\ disk'[Newest] = left
  BY <1>10, <1>6, NewSegment
<1>8. Lost([controls |-> c, events |-> e, seals |-> s])
  <2> DEFINE n == [controls |-> c, events |-> e, seals |-> s]
  <2>1. ASSUME NEW k \in Kinds
        PROVE  /\ n[k] \in Nat /\ synced[k] <= n[k] /\ n[k] <= Len(disk[Newest][k])
               /\ disk'[Newest][k] \in Remains(disk[Newest][k], n[k], k)
    <3>1. CASE k = "controls"
      BY <3>1, <1>2, <1>4, <1>7
    <3>2. CASE k = "events"
      BY <3>2, <1>2, <1>4, <1>7
    <3>3. CASE k = "seals"
      BY <3>3, <1>2, <1>4, <1>7
    <3> QED
      BY <3>1, <3>2, <3>3, KindsAre
  <2> HIDE DEF n
  <2>2. Lost(n)
    BY <2>1 DEF Lost
  <2> QED
    BY <2>2 DEF n
<1> QED
  BY <1>10, <1>7, <1>8

(* A loss alters no frame that remains, and tears no more than was not synced. *)
LEMMA LostKeeps ==
  ASSUME Inv, OlderSame, synced' = Lengths(disk'[Newest]), NEW n, Lost(n), NEW p \in Points
  PROVE  NewestKept(p)
<1>1. /\ TypeOK /\ StateInv /\ p \in Checkpoints /\ FrozenPart(p) /\ BasePart(p)
  BY PointIs
<1>2. ASSUME NEW k \in Kinds
      PROVE  /\ n[k] \in Nat /\ n[k] <= Len(disk'[Newest][k]) /\ Len(disk'[Newest][k]) \in Nat
             /\ Len(disk'[Newest][k]) <= Len(disk[Newest][k]) /\ Len(disk[Newest][k]) \in Nat
             /\ \A j \in 1 .. n[k] : disk'[Newest][k][j] = disk[Newest][k][j]
             /\ \A j \in 1 .. Len(disk'[Newest][k]) :
                  j \in 1 .. n[k] \/ disk'[Newest][k][j].commit = 0
             /\ Entry(p)[k] \in Nat /\ Entry(p)[k] <= n[k]
  <2>1. /\ n[k] \in Nat /\ synced[k] <= n[k] /\ n[k] <= Len(disk[Newest][k])
        /\ disk'[Newest][k] \in Remains(disk[Newest][k], n[k], k)
    BY DEF Lost
  <2>2. Entry(p)[k] \in Nat /\ Entry(p)[k] <= synced[k] /\ synced[k] \in Nat
    BY <1>1, BaseFacts DEF BasePart, TypeOK
  <2>3. Entry(p)[k] <= n[k]
    BY ONLY <2>1, <2>2
  <2>4. Len(disk[Newest][k]) \in Nat
    BY <1>1, NewestTypes
  <2>5. /\ n[k] <= Len(disk'[Newest][k]) /\ Len(disk'[Newest][k]) \in Nat
        /\ Len(disk'[Newest][k]) <= Len(disk[Newest][k])
        /\ \A j \in 1 .. n[k] : disk'[Newest][k][j] = disk[Newest][k][j]
        /\ \A j \in 1 .. Len(disk'[Newest][k]) :
             j \in 1 .. n[k] \/ disk'[Newest][k][j].commit = 0
    BY <2>1, <1>1, FileLost
  <2> QED
    BY ONLY <2>1, <2>2, <2>3, <2>4, <2>5
<1>3. ASSUME NEW k \in Kinds PROVE Keeps(disk[Newest][k], disk'[Newest][k], Entry(p)[k])
  <2>1. /\ n[k] \in Nat /\ n[k] <= Len(disk'[Newest][k]) /\ Len(disk'[Newest][k]) \in Nat
        /\ \A j \in 1 .. n[k] : disk'[Newest][k][j] = disk[Newest][k][j]
        /\ Entry(p)[k] \in Nat /\ Entry(p)[k] <= n[k]
    BY <1>2
  <2> DEFINE x == Entry(p)[k]
  <2>2. x <= Len(disk'[Newest][k]) /\ \A j \in 1 .. x : j \in 1 .. n[k]
    <3> HIDE DEF x
    <3> QED
      BY ONLY <2>1 DEF x
  <2> QED
    BY <2>1, <2>2 DEF Keeps
<1>4. ASSUME NEW k \in Kinds PROVE Entry(p)[k] <= synced'[k]
  <2>1. synced'[k] = Len(disk'[Newest][k])
    BY DEF Lengths
  <2>2. /\ n[k] \in Nat /\ n[k] <= Len(disk'[Newest][k]) /\ Len(disk'[Newest][k]) \in Nat
        /\ Entry(p)[k] \in Nat /\ Entry(p)[k] <= n[k]
    BY <1>2
  <2> QED
    BY ONLY <2>1, <2>2
<1>5. ASSUME NEW k \in Kinds, NEW m PROVE Fades(disk[Newest][k], disk'[Newest][k], m)
  <2>1. /\ n[k] \in Nat /\ n[k] <= Len(disk'[Newest][k]) /\ Len(disk'[Newest][k]) \in Nat
        /\ Len(disk'[Newest][k]) <= Len(disk[Newest][k]) /\ Len(disk[Newest][k]) \in Nat
        /\ \A j \in 1 .. n[k] : disk'[Newest][k][j] = disk[Newest][k][j]
        /\ \A j \in 1 .. Len(disk'[Newest][k]) :
             j \in 1 .. n[k] \/ disk'[Newest][k][j].commit = 0
    BY <1>2
  <2>2. ASSUME NEW j \in 1 .. Len(disk'[Newest][k])
        PROVE  \/ disk'[Newest][k][j].commit = 0
               \/ j <= Len(disk[Newest][k]) /\ disk'[Newest][k][j] = disk[Newest][k][j]
    BY ONLY <2>1, <2>2
  <2> QED
    BY <2>2 DEF Fades
<1>6. /\ Fades(disk[Newest].controls, disk'[Newest].controls, Held(p).controls)
      /\ Fades(disk[Newest].events, disk'[Newest].events, Held(p).events)
      /\ Fades(disk[Newest].seals, disk'[Newest].seals, Len(disk'[Newest].seals))
  BY <1>5 DEF Kinds
<1> QED
  BY <1>3, <1>4, <1>6 DEF NewestKept

(* The seals that survive: all of the whole ones, or all that were synced. *)
LEMMA LostSeals ==
  ASSUME Inv, TypeOK', StateInv', OlderSame, synced' = Lengths(disk'[Newest]),
         NEW n, Lost(n), NEW p \in Points
  PROVE  /\ LastSeal(Newest)' \in Nat /\ LastSeal(Newest)' <= LastSeal(Newest)
         /\ LastSeal(Newest)' = LastSeal(Newest) \/ synced.seals <= LastSeal(Newest)'
         /\ synced.seals <= synced'.seals /\ synced'.seals \in Nat /\ synced.seals \in Nat
<1>1. TypeOK /\ StateInv /\ Newest' = Newest /\ "seals" \in Kinds
  BY DEF Inv, OlderSame, Kinds
<1> DEFINE old == disk[Newest]["seals"]
           new == disk'[Newest]["seals"]
           m == n["seals"]
           z == LastSeal(Newest)
<1>2. /\ m \in Nat /\ synced["seals"] <= m /\ m <= Len(old)
      /\ new \in Remains(old, m, "seals")
  BY <1>1 DEF Lost
<1>3. /\ m <= Len(new) /\ Len(new) \in Nat
      /\ \A j \in 1 .. m : new[j] = old[j]
      /\ m = Len(new) \/ (m < Len(new) /\ new[m + 1].commit = 0)
  BY <1>1, <1>2, FileLost
<1>4. z \in Nat /\ synced["seals"] \in Nat
  BY <1>1, NewestTypes DEF TypeOK
<1>5. Fades(disk[Newest].seals, disk'[Newest].seals, Len(disk'[Newest].seals))
  BY LostKeeps DEF NewestKept
<1>6. synced'["seals"] = Len(new)
  BY <1>1 DEF Lengths
<1> HIDE DEF old, new, m, z
<1>7. CASE z <= m
  <2>1. Keeps(old, new, z)
    BY <1>2, <1>3, <1>4, <1>7 DEF Keeps
  <2>2. LastSeal(Newest) \in 0 .. LastSeal(Newest)
    BY <1>4 DEF z
  <2>3. LastSeal(Newest)' = LastSeal(Newest)
    <3>1. Keeps(disk[Newest].seals, disk'[Newest].seals, LastSeal(Newest))
      BY <2>1 DEF old, new, z
    <3> QED
      BY <3>1, <2>2, <1>1, <1>5, LastSealKept
  <2> QED
    BY <2>3, <1>2, <1>3, <1>4, <1>6 DEF z
<1>8. CASE m < z
  <2>1. Keeps(old, new, m)
    BY <1>3 DEF Keeps
  <2>2. m \in 0 .. z
    BY <1>2, <1>4, <1>8
  <2>3. LastSeal(Newest)' = m
    <3>1. /\ Keeps(disk[Newest].seals, disk'[Newest].seals, m) /\ m \in 0 .. LastSeal(Newest)
          /\ \/ m = Len(disk'[Newest].seals)
             \/ m < Len(disk'[Newest].seals) /\ disk'[Newest].seals[m + 1].commit = 0
      BY <2>1, <2>2, <1>3 DEF old, new, z
    <3> QED
      BY <3>1, <1>1, <1>5, LastSealKept
  <2> QED
    BY <2>3, <1>2, <1>3, <1>4, <1>6, <1>8 DEF z
<1> QED
  BY <1>2, <1>4, <1>7, <1>8

(* A point recovers a prefix of what it did, with all that was durable.    *)
LEMMA PowerLossPoint ==
  ASSUME Inv, TypeOK', StateInv', OlderSame, synced' = Lengths(disk'[Newest]),
         scrambled' = (scrambled \/ ~InOrder(disk'[Newest])), mode' = "closed",
         mem' = mem, durable' = durable, NEW n, Lost(n), NEW p \in Points
  PROVE  /\ PointInv(p)'
         /\ Entry(p)' = Entry(p) /\ BaseLog(p)' = BaseLog(p) /\ BaseEvents(p)' = BaseEvents(p)
<1>1. /\ TypeOK /\ StateInv /\ p \in Checkpoints /\ Shape(p) /\ DurablePart(p)
      /\ FrozenPart(p) /\ BasePart(p) /\ SealsPart(p) /\ Newest' = Newest
  BY PointIs DEF OlderSame
<1>2. NewestKept(p)
  BY LostKeeps
<1>3. MemCut(Len(mem.log)) /\ Len(mem.log) \in 0 .. Len(mem.log)
  BY <1>1, MemSame
<1>4. Len(BaseLog(p)) <= Len(mem.log) /\ Len(BaseLog(p)) \in Nat /\ Entry(p).seals \in Nat
      /\ LastSeal(Newest) \in Nat
  BY <1>1, BaseFacts, NewestTypes
<1>5. /\ Shape(p)'
      /\ Entry(p)' = Entry(p) /\ BaseLog(p)' = BaseLog(p) /\ BaseEvents(p)' = BaseEvents(p)
  BY <1>1, <1>2, <1>3, <1>4, ShapeKept
<1>6. /\ LastSeal(Newest)' \in Nat /\ LastSeal(Newest)' <= LastSeal(Newest)
      /\ LastSeal(Newest)' = LastSeal(Newest) \/ synced.seals <= LastSeal(Newest)'
      /\ synced.seals <= synced'.seals /\ synced'.seals \in Nat /\ synced.seals \in Nat
  BY LostSeals
<1>7. DurablePart(p)'
  <2> DEFINE l == Len(BaseLog(p))
             x == Entry(p).seals
             z == LastSeal(Newest)
             zz == LastSeal(Newest)'
             s == synced.seals
             t == synced'.seals
             d == durable
  <2>1. /\ l \in Nat /\ x \in Nat /\ z \in Nat /\ zz \in Nat /\ s \in Nat /\ t \in Nat /\ d \in Nat
        /\ s <= t /\ (zz = z \/ s <= zz) /\ d + x <= l + s /\ d <= l + z - x
    BY <1>1, <1>4, <1>6 DEF DurablePart, Count, TypeOK
  <2>2. d + x <= l + t /\ d <= l + zz - x
    <3> HIDE DEF l, x, z, zz, s, t, d
    <3>1. d + x <= l + t
      BY ONLY <2>1
    <3>2. d <= l + zz - x
      BY ONLY <2>1
    <3> QED
      BY <3>1, <3>2
  <2>3. Count(p)' = l + zz - x
    BY <1>5 DEF Count
  <2> QED
    BY <2>2, <2>3, <1>5 DEF DurablePart
<1>8. ~scrambled' => Sound(p)'
  <2> SUFFICES ASSUME ~scrambled' PROVE Sound(p)'
    OBVIOUS
  <2>1. InOrder(disk'[Newest])
    BY Zenon
  <2>2. InOrder(disk[Newest])'
    BY <2>1, <1>1
  <2> QED
    BY <2>2, <1>1, <1>5, OrderedSoundNext
<1>9. mode' # "open"
  OBVIOUS
<1> QED
  BY <1>5, <1>7, <1>8, <1>9 DEF PointInv

(* A power loss keeps the invariant.                                       *)
LEMMA PowerLossInv == Inv /\ PowerLoss => Inv'
<1> SUFFICES ASSUME Inv, PowerLoss PROVE Inv'
  OBVIOUS
<1>1. TypeOK /\ StateInv
  BY DEF Inv
<1>2. /\ disk' \in Seq(Segments) /\ OlderSame /\ Newest' = Newest
      /\ synced' = Lengths(disk'[Newest])
      /\ scrambled' = (scrambled \/ ~InOrder(disk'[Newest]))
  BY <1>1, PowerLossFacts
<1>3. PICK n : Lost(n)
  BY <1>1, PowerLossFacts
<1>4. Closed /\ mode' = "closed" /\ UNCHANGED <<commit, mem, checkpoint, issued, durable, stuck>>
  BY DEF PowerLoss, Closed
<1>5. /\ mode' \in {"open", "closed"} /\ phase' \in {"idle", "rollback"} \cup Kinds
      /\ batch' \in Batches /\ before' \in [Kinds -> Nat] /\ extent' \in [Kinds -> Nat]
      /\ failed' \in BOOLEAN /\ saved' \in Nat /\ staging' \in Checkpoints
      /\ staging'.segment = 0 /\ staging' = NoCheckpoint
  BY <1>1, <1>4, ClosedType
<1>6. TypeOK'
  <2>1. ASSUME NEW k \in Kinds PROVE Len(disk'[Newest][k]) \in Nat
    <3>1. /\ n[k] \in Nat /\ n[k] <= Len(disk[Newest][k])
          /\ disk'[Newest][k] \in Remains(disk[Newest][k], n[k], k)
      BY <1>3 DEF Lost
    <3> QED
      BY <3>1, <1>1, FileLost
  <2>2. synced' \in [Kinds -> Nat] /\ \A k \in Kinds : synced'[k] <= Len(disk'[Newest'][k])
    BY <2>1, <1>2 DEF Lengths
  <2>3. scrambled' \in BOOLEAN
    BY ONLY <1>2, Zenon
  <2> QED
    BY <2>2, <2>3, <1>1, <1>2, <1>4, <1>5 DEF TypeOK
<1>7. StateInv'
  BY <1>1, <1>2, <1>4, <1>5 DEF StateInv, Closed
<1>8. Points' \subseteq Points
  BY <1>4, <1>5 DEF Points
<1>9. \A p \in Points : /\ PointInv(p)'
                        /\ Entry(p)' = Entry(p) /\ BaseLog(p)' = BaseLog(p)
                        /\ BaseEvents(p)' = BaseEvents(p)
  BY <1>2, <1>3, <1>4, <1>6, <1>7, PowerLossPoint
<1>10. ~stuck' => \A p \in Points : Aligned(p, Scratch)'
  <2> SUFFICES ASSUME ~stuck, NEW p \in Points PROVE Aligned(p, Scratch)'
    BY <1>4
  <2>1. Scratch \in Points /\ Aligned(p, Scratch)
    BY DEF Points, Inv
  <2> QED
    BY <2>1, <1>9 DEF Aligned
<1>11. \A p \in Points : (mode = "open" => OpenPart(p))'
  BY <1>4
<1>12. \A p \in Points : (mode = "open" \/ Sound(p) \/ synced = AllSynced)'
  <2>1. synced' = AllSynced'
    BY <1>2 DEF AllSynced
  <2> QED
    BY <2>1
<1> QED
  BY <1>6, <1>7, <1>8, <1>9, <1>10, <1>11, <1>12, Assemble

-----------------------------------------------------------------------------
(***************************************************************************)
(* Loading: the session is what the replay finds, and the files are cut    *)
(* where the replay ended.                                                 *)
(***************************************************************************)

(* While the session is down every point replays to the same place.        *)
LEMMA ClosedPoints ==
  ASSUME Inv, mode = "closed", NEW r, r = Resume, NEW p \in Points
  PROVE  Count(p) = Count(r) /\ Reach(p) = Reach(r)
<1>1. /\ TypeOK /\ StateInv /\ r \in Points /\ r \in Checkpoints
      /\ r = IF checkpoint.segment # 0 THEN checkpoint ELSE Scratch
  BY ResumeIs DEF Inv
<1>2. staging.segment = 0
  <2>1. staging = NoCheckpoint
    BY <1>1 DEF StateInv
  <2> QED
    BY <2>1, ScratchType DEF NoCheckpoint, Checkpoints, Scratch
<1>3. p = r \/ (p = Scratch /\ ~stuck /\ Scratch \in Points)
  BY <1>1, <1>2 DEF Points
<1>4. CASE p = r
  BY <1>4
<1>5. CASE p = Scratch /\ ~stuck /\ Scratch \in Points
  <2>1. Aligned(r, Scratch)
    BY <1>1, <1>5 DEF Inv
  <2>2. /\ FrozenPart(r) /\ BasePart(r) /\ SealsPart(r)
        /\ FrozenPart(Scratch) /\ BasePart(Scratch) /\ SealsPart(Scratch)
    BY <1>1, <1>5, PointIs
  <2> QED
    BY <2>1, <2>2, <1>1, <1>5, ScratchType, AlignedReach
<1> QED
  BY <1>3, <1>4, <1>5

(* What loading a session does: it cuts the files and the session to the reach. *)
LEMMA LoadFacts ==
  ASSUME Inv, Load, NEW r, r = Resume
  PROVE  /\ TypeOK /\ StateInv /\ r \in Points /\ r \in Checkpoints /\ Sound(r)
         /\ mode = "closed" /\ mode' = "open" /\ phase = "idle" /\ ~failed
         /\ Reach(r) \in [Kinds -> Nat] /\ Count(r) \in 0 .. Len(mem.log)
         /\ mem' = [log |-> SubSeq(mem.log, 1, Count(r)),
                    events |-> EventsOf(SubSeq(mem.log, 1, Count(r)))]
         /\ MemCut(Count(r)) /\ commit' = Count(r) /\ extent' = Reach(r)
         /\ disk' = [disk EXCEPT ![Newest] = Cut(@, Reach(r))] /\ synced' = Lower(synced, Reach(r))
         /\ saved' = r.commit
         /\ UNCHANGED <<phase, batch, before, failed, staging, checkpoint, issued, durable,
                        stuck, scrambled>>
         /\ \A k \in Kinds : /\ WholeUpto(disk[Newest][k], Reach(r)[k])
                             /\ Reach(r)[k] \in Nat /\ Reach(r)[k] <= Len(disk[Newest][k])
                             /\ Len(disk[Newest][k]) \in Nat
<1>1. /\ TypeOK /\ StateInv /\ r \in Points /\ r \in Checkpoints /\ Shape(r)
      /\ FrozenPart(r) /\ BasePart(r) /\ SealsPart(r)
  BY ResumeIs DEF Inv, Shape
<1>2. /\ mode = "closed" /\ Replayable(r) /\ mode' = "open" /\ mem' = Recovered(r)
      /\ commit' = RecoveredCommit(r) /\ extent' = RecoveredExtent(r) /\ saved' = r.commit
      /\ disk' = [disk EXCEPT ![Newest] = Cut(@, extent')] /\ synced' = Lower(synced, extent')
      /\ UNCHANGED <<phase, batch, before, failed, staging, checkpoint, issued, durable,
                     stuck, scrambled>>
  BY DEF Load, history
<1>3. phase = "idle" /\ ~failed
  BY <1>1, <1>2 DEF StateInv
<1>4. Sound(r)
  BY <1>1, <1>2, ReplayableIff
<1>5. commit' = Count(r) /\ extent' = Reach(r)
  BY <1>1, <1>2, RecoversCommit, RecoversExtent
<1>6. /\ Reach(r) \in [Kinds -> Nat] /\ Count(r) \in Nat /\ Count(r) <= Len(mem.log)
      /\ Len(mem.log) \in Nat
  BY <1>1, PointFacts, MemTypes
<1>7. mem' = [log |-> SubSeq(mem.log, 1, Count(r)),
              events |-> EventsOf(SubSeq(mem.log, 1, Count(r)))]
  BY <1>1, <1>2, <1>4, Recovers
<1>8. MemCut(Count(r))
  BY ONLY <1>7 DEF MemCut
<1>9. ASSUME NEW k \in Kinds
      PROVE  /\ WholeUpto(disk[Newest][k], Reach(r)[k])
             /\ Reach(r)[k] \in Nat /\ Reach(r)[k] <= Len(disk[Newest][k])
             /\ Len(disk[Newest][k]) \in Nat
  <2>1. CASE k = "controls" \/ k = "events"
    <3>1. WholeUpto(disk[Newest][k], Reach(r)[k])
      BY <2>1, <1>4 DEF Sound
    <3> QED
      BY <3>1, <1>1, <1>6, NewestTypes DEF WholeUpto
  <2>2. CASE k = "seals"
    <3>1. Reach(r)[k] = LastSeal(Newest)
      BY <2>2 DEF Reach
    <3>2. /\ LastSeal(Newest) \in 0 .. Len(disk[Newest].seals)
          /\ LastSeal(Newest) \in Nat /\ Len(disk[Newest][k]) \in Nat
          /\ \A j \in 1 .. LastSeal(Newest) : disk[Newest].seals[j].commit # 0
      BY <1>1, NewestTypes, WholeFacts DEF LastSeal
    <3> QED
      BY <2>2, <3>1, <3>2 DEF WholeUpto
  <2> QED
    BY <2>1, <2>2, KindsAre
<1> QED
  BY <1>1, <1>2, <1>3, <1>4, <1>5, <1>6, <1>7, <1>8, <1>9

(* The files it leaves end where the replay does, and are whole.           *)
LEMMA LoadDisk ==
  ASSUME Inv, Load, NEW r, r = Resume
  PROVE  /\ disk' \in Seq(Segments) /\ Newest' = Newest
         /\ synced' \in [Kinds -> Nat] /\ \A k \in Kinds : synced'[k] <= Len(disk'[Newest'][k])
         /\ \A k \in Kinds :
              /\ synced'[k] = IF synced[k] < Reach(r)[k] THEN synced[k] ELSE Reach(r)[k]
              /\ Len(disk'[Newest][k]) = Reach(r)[k]
              /\ WholeUpto(disk'[Newest][k], Reach(r)[k])
<1>1. /\ TypeOK /\ StateInv /\ Reach(r) \in [Kinds -> Nat]
      /\ disk' = [disk EXCEPT ![Newest] = Cut(@, Reach(r))] /\ synced' = Lower(synced, Reach(r))
      /\ \A k \in Kinds : /\ WholeUpto(disk[Newest][k], Reach(r)[k])
                          /\ Reach(r)[k] \in Nat /\ Reach(r)[k] <= Len(disk[Newest][k])
                          /\ Len(disk[Newest][k]) \in Nat
  BY LoadFacts
<1>2. /\ disk' \in Seq(Segments) /\ OlderSame /\ Newest' = Newest
      /\ synced' \in [Kinds -> Nat] /\ \A k \in Kinds : synced'[k] <= Len(disk'[Newest'][k])
      /\ \A k \in Kinds :
           /\ synced'[k] = IF synced[k] < Reach(r)[k] THEN synced[k] ELSE Reach(r)[k]
           /\ Len(disk'[Newest][k]) =
                IF Reach(r)[k] < Len(disk[Newest][k]) THEN Reach(r)[k] ELSE Len(disk[Newest][k])
           /\ \A j \in 1 .. Len(disk'[Newest][k]) : disk'[Newest][k][j] = disk[Newest][k][j]
  BY <1>1, CutFacts
<1>3. \A k \in Kinds : Len(disk'[Newest][k]) = Reach(r)[k]
  BY <1>1, <1>2
<1>4. \A k \in Kinds : WholeUpto(disk'[Newest][k], Reach(r)[k])
  <2> SUFFICES ASSUME NEW k \in Kinds PROVE WholeUpto(disk'[Newest][k], Reach(r)[k])
    OBVIOUS
  <2>1. /\ Len(disk'[Newest][k]) = Reach(r)[k] /\ Reach(r)[k] \in Nat
        /\ \A j \in 1 .. Reach(r)[k] : disk[Newest][k][j].commit # 0
        /\ \A j \in 1 .. Len(disk'[Newest][k]) : disk'[Newest][k][j] = disk[Newest][k][j]
    BY <1>1, <1>2, <1>3 DEF WholeUpto
  <2> QED
    BY ONLY <2>1 DEF WholeUpto
<1> QED
  BY <1>2, <1>3, <1>4

(* The part of the invariant that speaks of no point.                      *)
LEMMA LoadState ==
  ASSUME Inv, Load
  PROVE  TypeOK' /\ StateInv'
<1> DEFINE r == Resume
<1> HIDE DEF r
<1>1. /\ TypeOK /\ StateInv /\ r \in Checkpoints
      /\ mode' = "open"
      /\ Reach(r) \in [Kinds -> Nat] /\ Count(r) \in 0 .. Len(mem.log)
      /\ mem' = [log |-> SubSeq(mem.log, 1, Count(r)),
                 events |-> EventsOf(SubSeq(mem.log, 1, Count(r)))]
      /\ MemCut(Count(r)) /\ commit' = Count(r) /\ extent' = Reach(r)
      /\ saved' = r.commit
      /\ UNCHANGED <<phase, batch, before, failed, staging, checkpoint, issued, durable,
                     stuck, scrambled>>
  BY LoadFacts DEF r
<1>2. /\ disk' \in Seq(Segments) /\ Newest' = Newest
      /\ synced' \in [Kinds -> Nat] /\ \A k \in Kinds : synced'[k] <= Len(disk'[Newest'][k])
      /\ \A k \in Kinds : WholeUpto(disk'[Newest][k], Reach(r)[k])
  BY LoadDisk DEF r
<1>3. mem' \in [log : Seq(Batches), events : Seq(Batches)]
  <2>1. /\ SubSeq(mem.log, 1, Count(r)) \in Seq(Batches)
        /\ EventsOf(SubSeq(mem.log, 1, Count(r))) \in Seq(Batches)
    BY <1>1, MemTypes, PrefixFacts, EventCountFacts DEF StateInv
  <2> QED
    BY <2>1, <1>1
<1>4. TypeOK'
  <2>1. saved' \in Nat /\ commit' \in Nat
    <3>1. r.commit \in Nat
      BY <1>1, StartType
    <3>2. \A c \in 0 .. Len(mem.log) : c \in Nat
      OBVIOUS
    <3> QED
      BY <3>1, <3>2, <1>1
  <2> QED
    BY <2>1, <1>1, <1>2, <1>3 DEF TypeOK
<1>5. StateInv'
  <2>1. commit' = Len(mem'.log) /\ mem'.events = EventsOf(mem'.log)
    BY <1>1, MemCutFacts DEF MemCut
  <2>2. \A k \in Kinds : \A j \in 1 .. extent'[k] : disk'[Newest'][k][j].commit # 0
    BY <1>1, <1>2 DEF WholeUpto
  <2> QED
    BY <2>1, <2>2, <1>1, <1>2 DEF StateInv
<1> QED
  BY <1>4, <1>5

(* Every other point finds the same transactions in the files that were cut. *)
LEMMA LoadPoint ==
  ASSUME Inv, Load, NEW p \in Points
  PROVE  /\ PointInv(p)' /\ Reach(p)' = extent'
         /\ Entry(p)' = Entry(p) /\ BaseLog(p)' = BaseLog(p) /\ BaseEvents(p)' = BaseEvents(p)
<1> DEFINE r == Resume
<1> HIDE DEF r
<1>1. /\ TypeOK /\ StateInv /\ p \in Checkpoints /\ Shape(p) /\ DurablePart(p)
      /\ FrozenPart(p) /\ BasePart(p) /\ SealsPart(p)
  BY PointIs
<1>2. /\ mode = "closed" /\ mode' = "open" /\ Sound(r)
      /\ Reach(r) \in [Kinds -> Nat] /\ Count(r) \in 0 .. Len(mem.log)
      /\ MemCut(Count(r)) /\ extent' = Reach(r) /\ durable' = durable
      /\ disk' = [disk EXCEPT ![Newest] = Cut(@, Reach(r))] /\ synced' = Lower(synced, Reach(r))
  BY LoadFacts DEF r
<1>3. /\ Newest' = Newest
      /\ \A k \in Kinds :
           /\ synced'[k] = IF synced[k] < Reach(r)[k] THEN synced[k] ELSE Reach(r)[k]
           /\ Len(disk'[Newest][k]) = Reach(r)[k]
  BY LoadDisk DEF r
<1>4. TypeOK' /\ StateInv'
  BY LoadState
<1>5. Count(p) = Count(r) /\ Reach(p) = Reach(r)
  BY <1>2, ClosedPoints DEF r
<1>6. NewestKept(p) /\ ReachKeeps(p)
  <2>1. \A k \in Kinds : Reach(p)[k] <= Reach(r)[k]
    <3>1. \A k \in Kinds : Reach(r)[k] \in Nat
      BY <1>2
    <3>2. \A k \in Kinds : Reach(r)[k] <= Reach(r)[k]
      BY <3>1
    <3> QED
      BY <3>2, <1>5
  <2> QED
    BY <2>1, <1>2, CutKeeps
<1> DEFINE c == Count(r)
           l == Len(BaseLog(p))
           x == Entry(p).seals
           z == LastSeal(Newest)
<1>7. /\ l \in Nat /\ x \in Nat /\ z \in Nat /\ c = l + z - x /\ x <= z /\ l <= c /\ c \in Nat
      /\ z <= Len(disk[Newest].seals) /\ Reach(r)["seals"] = z
  <2>1. c = l + z - x
    BY <1>5 DEF Count
  <2>2. l \in Nat /\ x \in Nat /\ z \in Nat /\ x <= z /\ l <= c /\ c \in Nat
    BY <1>1, <1>5, BaseFacts, PointFacts
  <2>3. z <= Len(disk[Newest].seals) /\ Reach(r)["seals"] = z
    BY <1>1, NewestTypes DEF Reach
  <2> QED
    BY <2>1, <2>2, <2>3
<1>8. Len(disk'[Newest].seals) = z
  BY <1>3, <1>7 DEF Kinds
<1>9. Len(disk'[Newest].seals) + Len(BaseLog(p)) <= c + Entry(p).seals
  <2>1. z + l <= c + x
    <3> HIDE DEF l, x, z, c
    <3> QED
      BY ONLY <1>7
  <2> QED
    BY <2>1, <1>8
<1>10. /\ Shape(p)'
       /\ Entry(p)' = Entry(p) /\ BaseLog(p)' = BaseLog(p) /\ BaseEvents(p)' = BaseEvents(p)
  BY <1>1, <1>2, <1>4, <1>6, <1>7, <1>9, ShapeKept
<1>11. LastSeal(Newest)' = LastSeal(Newest)
  <2>1. LastSeal(Newest) \in 0 .. LastSeal(Newest)
    BY <1>7
  <2>2. Keeps(disk[Newest].seals, disk'[Newest].seals, LastSeal(Newest))
    <3>1. "seals" \in Kinds /\ Reach(p)["seals"] = LastSeal(Newest)
      BY DEF Kinds, Reach
    <3> QED
      BY <3>1, <1>6, <1>7 DEF ReachKeeps
  <2>3. Fades(disk[Newest].seals, disk'[Newest].seals, Len(disk'[Newest].seals))
    BY <1>6 DEF NewestKept
  <2> QED
    BY <2>1, <2>2, <2>3, <1>1, <1>3, <1>4, LastSealKept
<1>12. Count(p)' = Count(p) /\ Reach(p)' = Reach(p)
  <2>1. Count(p) <= c
    BY <1>5, <1>7
  <2> QED
    BY <2>1, <1>1, <1>2, <1>4, <1>10, <1>11, ReachKept
<1>13. DurablePart(p)'
  <2>1. durable' \in Nat /\ durable' <= Count(p)
    BY <1>1, <1>2 DEF DurablePart, TypeOK
  <2>2. "seals" \in Kinds /\ synced["seals"] \in Nat
    BY <1>1 DEF TypeOK, Kinds
  <2>3. synced'["seals"] = IF synced["seals"] < z THEN synced["seals"] ELSE z
    BY <2>2, <1>3, <1>7
  <2>4. /\ synced'.seals \in Nat
        /\ synced'.seals >= LastSeal(Newest)
             \/ (durable' = durable /\ synced'.seals >= synced.seals)
    BY <2>2, <2>3, <1>2, <1>7
  <2> QED
    BY <2>1, <2>4, <1>4, <1>10, <1>12, DurableKept
<1>14. Sound(p)'
  <2>1. \A k \in Kinds : WholeUpto(disk'[Newest][k], Reach(r)[k])
    BY LoadDisk DEF r
  <2> QED
    BY <2>1, <1>3, <1>5, <1>12 DEF Sound, Kinds
<1>15. Len(mem'.log) = c
  BY <1>1, <1>2, MemCutFacts
<1> QED
  BY <1>2, <1>5, <1>10, <1>12, <1>13, <1>14, <1>15 DEF PointInv

(* Loading a session keeps the invariant.                                  *)
LEMMA LoadInv == Inv /\ Load => Inv'
<1> SUFFICES ASSUME Inv, Load PROVE Inv'
  OBVIOUS
<1> DEFINE r == Resume
<1> HIDE DEF r
<1>1. /\ TypeOK /\ StateInv /\ mode' = "open" /\ phase = "idle" /\ ~failed /\ extent' = Reach(r)
      /\ Reach(r) \in [Kinds -> Nat]
      /\ UNCHANGED <<phase, failed, staging, checkpoint, stuck>>
  BY LoadFacts DEF r
<1>2. TypeOK' /\ StateInv'
  BY LoadState
<1>3. \A p \in Points : /\ PointInv(p)' /\ Reach(p)' = extent'
                        /\ Entry(p)' = Entry(p) /\ BaseLog(p)' = BaseLog(p)
                        /\ BaseEvents(p)' = BaseEvents(p)
  BY LoadPoint
<1>4. Points' = Points
  BY <1>1 DEF Points
<1>5. ~stuck' => \A p \in Points : Aligned(p, Scratch)'
  <2> SUFFICES ASSUME ~stuck, NEW p \in Points PROVE Aligned(p, Scratch)'
    BY <1>1
  <2>1. Scratch \in Points /\ Aligned(p, Scratch)
    BY DEF Points, Inv
  <2> QED
    BY <2>1, <1>3 DEF Aligned
<1>6. ASSUME NEW p \in Points PROVE OpenPart(p)'
  <2>1. Lengths(disk[Newest])' = extent'
    <3>1. Newest' = Newest /\ \A k \in Kinds : Len(disk'[Newest][k]) = Reach(r)[k]
      BY LoadDisk DEF r
    <3> QED
      BY <3>1, <1>1 DEF Lengths
  <2>2. phase' \notin Kinds /\ phase' = "idle" /\ ~failed'
    BY <1>1 DEF Kinds
  <2> QED
    BY <2>1, <2>2, <1>3 DEF OpenPart
<1>7. \A p \in Points : (mode = "open" \/ Sound(p) \/ synced = AllSynced)'
  BY <1>1
<1> QED
  BY <1>2, <1>3, <1>4, <1>5, <1>6, <1>7, Assemble
(* The log of a new session.                                               *)
LEMMA InitFacts ==
  ASSUME Init
  PROVE  /\ TypeOK /\ StateInv
         /\ Newest = 1 /\ disk[Newest] = EmptySegment
         /\ Points = {Scratch}
         /\ mem.log = <<>> /\ mem.events = <<>>
<1>1. disk = <<EmptySegment>> /\ Newest = 1 /\ disk[1] = EmptySegment /\ disk[Newest] = EmptySegment
  BY DEF Init, Newest
<1>2. NoCheckpoint \in Checkpoints /\ NoCheckpoint.segment = 0
  BY ScratchType DEF NoCheckpoint, Checkpoints, Scratch
<1>3. NoExtent \in [Kinds -> Nat]
  BY DEF NoExtent
<1>4. mem = NoMem /\ mem \in [log : Seq(Batches), events : Seq(Batches)]
      /\ mem.log = <<>> /\ mem.events = <<>>
  BY DEF Init, NoMem
<1>5. EmptySegment = [controls |-> <<>>, events |-> <<>>, seals |-> <<>>]
  BY DEF EmptySegment, Kinds
<1>6. EmptySegment \in Segments
  BY <1>5 DEF Segments
<1>7. TypeOK
  <2>1. disk \in Seq(Segments)
    BY <1>1, <1>6
  <2>2. synced \in [Kinds -> Nat] /\ \A k \in Kinds : synced[k] <= Len(disk[Newest][k])
    <3>1. \A k \in Kinds : EmptySegment[k] = <<>>
      BY DEF EmptySegment
    <3>2. synced = NoExtent /\ \A k \in Kinds : synced[k] = 0
      BY DEF Init, NoExtent
    <3>3. \A k \in Kinds : Len(disk[Newest][k]) = 0
      BY <3>1, <1>1
    <3> QED
      BY <3>2, <3>3, <1>3
  <2>3. batch \in Batches
    BY DEF Init, NoBatch, Batches
  <2>4. failed \in BOOLEAN /\ {stuck, scrambled} \subseteq BOOLEAN
    BY DEF Init
  <2>5. mode \in {"open", "closed"} /\ phase \in {"idle", "rollback"} \cup Kinds
    BY DEF Init
  <2>6. before \in [Kinds -> Nat] /\ extent \in [Kinds -> Nat]
    BY <1>3 DEF Init
  <2>7. {commit, saved, issued, durable} \subseteq Nat
    BY DEF Init
  <2>8. {staging, checkpoint} \subseteq Checkpoints
    BY <1>2 DEF Init
  <2> QED
    BY <2>1, <2>2, <2>3, <2>4, <2>5, <2>6, <2>7, <2>8, <1>4 DEF TypeOK
<1>8. StateInv
  <2>1. commit = Len(mem.log) /\ mem.events = EventsOf(mem.log)
    BY <1>4, EventsOfEmpty DEF Init
  <2>2. mode = "closed" /\ phase = "idle" /\ batch = NoBatch /\ ~failed
        /\ before = NoExtent /\ extent = NoExtent /\ staging = NoCheckpoint
        /\ checkpoint = NoCheckpoint
    BY DEF Init
  <2> QED
    BY <2>1, <2>2, <1>1 DEF StateInv
<1>9. Points = {Scratch}
  <2>1. checkpoint.segment = 0 /\ staging.segment = 0
    BY <1>2 DEF Init
  <2> QED
    BY <2>1 DEF Points, Init
<1> QED
  BY <1>1, <1>4, <1>7, <1>8, <1>9

(* It satisfies the invariant,                                             *)
LEMMA InitInv == Init => Inv
<1> SUFFICES ASSUME Init PROVE Inv
  OBVIOUS
<1>1. /\ TypeOK /\ StateInv
      /\ Newest = 1 /\ disk[Newest] = EmptySegment
      /\ Points = {Scratch}
      /\ mem.log = <<>> /\ mem.events = <<>>
  BY InitFacts
<1> DEFINE p == Scratch
<1>2. p.segment = 1 /\ p.extent = NoExtent /\ p.ends = [k \in Kinds |-> <<>>]
      /\ p.commit = 0 /\ p.mem.log = <<>> /\ p.mem.events = <<>> /\ p \in Checkpoints
  BY ScratchType DEF Scratch, NoMem
<1> HIDE DEF p
<1>3. \A k \in Kinds : NoExtent[k] = 0 /\ disk[Newest][k] = <<>>
  BY <1>1 DEF NoExtent, EmptySegment
<1>4. Entry(p) = NoExtent
  BY <1>1, <1>2 DEF Entry, StartOf
<1>5. 1 .. Newest - p.segment = {} /\ p.segment .. Newest - 1 = {}
  BY <1>1, <1>2
<1>6. OlderSeals(p) = <<>> /\ \A kind : Older(p, kind) = <<>>
  <2>1. OlderSeals(p) = FlattenSeq(<<>>)
    BY <1>1, <1>2 DEF OlderSeals
  <2>2. \A kind : Older(p, kind) = FlattenSeq(<<>>)
    BY <1>1, <1>2 DEF Older
  <2> QED
    BY <2>1, <2>2, FlattenEmpty
<1>7. BaseLog(p) = <<>> /\ BaseEvents(p) = <<>>
  BY <1>2, <1>6 DEF BaseLog, BaseEvents
<1>8. FrozenPart(p)
  BY <1>5, <1>6 DEF FrozenPart, OlderRead
<1>9. disk[Newest].controls = <<>> /\ disk[Newest].events = <<>> /\ disk[Newest].seals = <<>>
      /\ NoExtent.controls = 0 /\ NoExtent.events = 0 /\ NoExtent.seals = 0
  BY <1>3 DEF Kinds
<1>10. \A k \in Kinds : WholeUpto(disk[Newest][k], 0)
  BY <1>3 DEF WholeUpto
<1>11. BasePart(p)
  <2>1. Valid(p)
    BY <1>1, <1>2, <1>3 DEF Valid, EndsAt
  <2>2. IsPrefix(BaseLog(p), mem.log)
    BY <1>1, <1>7 DEF IsPrefix
  <2>3. \A k \in Kinds : Entry(p)[k] <= synced[k]
    BY <1>3, <1>4 DEF Init
  <2> QED
    BY <2>1, <2>2, <2>3, <1>2, <1>3, <1>4, <1>7, <1>10, EventsOfEmpty DEF BasePart
<1>12. SealsPart(p)
  BY <1>4, <1>9 DEF SealsPart
<1>13. ControlsPart(p)
  BY <1>1, <1>7 DEF ControlsPart
<1>14. EventsPart(p)
  BY <1>1, <1>7 DEF EventsPart
<1>15. Shape(p)
  BY <1>8, <1>11, <1>12, <1>13, <1>14 DEF Shape
<1>16. LastSeal(Newest) = 0
  <2>1. LastSeal(Newest) \in 0 .. Len(disk[Newest].seals)
    BY <1>1, NewestTypes
  <2> QED
    BY <2>1, <1>9
<1>17. Count(p) = 0
  BY <1>4, <1>7, <1>9, <1>16 DEF Count
<1>18. EventCount(0) = 0
  <2>1. Len(<<>>) = 0 /\ SubSeq(mem.log, 1, 0) = <<>>
    BY <1>1
  <2> QED
    BY <2>1, EventsOfEmpty DEF EventCount
<1>19. Reach(p).controls = 0 /\ Reach(p).events = 0 /\ Reach(p).seals = 0
  BY <1>4, <1>7, <1>9, <1>16, <1>17, <1>18 DEF Reach
<1>20. Sound(p)
  BY <1>10, <1>19 DEF Sound, Kinds
<1>21. DurablePart(p)
  <2>1. durable = 0 /\ synced.seals = 0
    BY <1>9 DEF Init
  <2> QED
    BY <2>1, <1>4, <1>7, <1>9, <1>17 DEF DurablePart
<1>22. PointInv(p) /\ Aligned(p, p)
  BY <1>15, <1>17, <1>20, <1>21, <1>1 DEF PointInv, Aligned
<1>23. mode = "closed"
  BY DEF Init
<1> QED
  BY <1>1, <1>20, <1>22, <1>23 DEF Inv, Refused, p

(* and every step keeps it.                                                *)
LEMMA InvStep == Inv /\ [Next]_vars => Inv'
<1> SUFFICES ASSUME Inv, [Next]_vars PROVE Inv'
  OBVIOUS
<1>1. CASE Begin
  BY <1>1, BeginInv
<1>2. CASE Roll
  BY <1>2, RollInv
<1>3. CASE AppendControls
  BY <1>3, AppendControlsInv
<1>4. CASE AppendEvent
  BY <1>4, AppendEventInv
<1>5. CASE AppendSeal
  BY <1>5, AppendSealInv
<1>6. CASE AppendFails
  BY <1>6, AppendFailsInv
<1>7. CASE \E n \in 0 .. 3 : Rollback(n)
  BY <1>7, RollbackInv
<1>8. CASE Flush
  BY <1>8, FlushInv
<1>9. CASE \E n \in 0 .. 2 : FlushFails(n)
  BY <1>9, FlushFailsInv
<1>10. CASE CheckpointPrepare
  BY <1>10, CheckpointPrepareInv
<1>11. CASE CheckpointPublish
  BY <1>11, CheckpointPublishInv
<1>12. CASE CheckpointDiscard
  BY <1>12, CheckpointDiscardInv
<1>13. CASE Evict
  BY <1>13, EvictInv
<1>14. CASE ProcessCrash
  BY <1>14, ProcessCrashInv
<1>15. CASE PowerLoss
  BY <1>15, PowerLossInv
<1>16. CASE Load
  BY <1>16, LoadInv
<1>17. CASE UNCHANGED vars
  BY <1>17, StutterInv
<1> QED
  BY <1>1, <1>2, <1>3, <1>4, <1>5, <1>6, <1>7, <1>8, <1>9, <1>10, <1>11, <1>12, <1>13, <1>14,
     <1>15, <1>16, <1>17 DEF Next

(***************************************************************************)
(* The theorems.                                                           *)
(***************************************************************************)

(* The invariant that every step of the log keeps.                         *)
THEOREM InvariantHolds == Spec => []Inv
<1>1. Init => Inv
  BY InitInv
<1>2. Inv /\ [Next]_vars => Inv'
  BY InvStep
<1> QED
  BY <1>1, <1>2, PTL DEF Spec

(* The variables of the log keep their types; what is on stable media of a *)
(* file is never longer than the file.                                     *)
THEOREM TypeOKHolds == Spec => []TypeOK
<1>1. Inv => TypeOK
  BY DEF Inv
<1> QED
  BY <1>1, InvariantHolds, PTL

(* A process that dies between any two writes, for any number of           *)
(* transactions, segments and failures, leaves a log that replays to the   *)
(* transactions that were sealed, no more and no less.                     *)
THEOREM CrashKeepsCommitsHolds == Spec => []CrashKeepsCommits
BY InvCrashKeepsCommits, InvariantHolds, PTL

(* A session is unreadable only behind a power loss that kept the writes   *)
(* out of their order.                                                     *)
THEOREM OrderedLossReadableHolds == Spec => []OrderedLossReadable
BY InvOrderedLossReadable, InvariantHolds, PTL

(* What was flushed survives every power loss that leaves the log readable, *)
(* and what is read is a prefix of the sealed transactions with exactly    *)
(* their events.                                                           *)
THEOREM FlushedSurvivesHolds == Spec => []FlushedSurvives
BY InvFlushedSurvives, InvariantHolds, PTL

(* As long as no rollback failed, the segments alone replay to what they   *)
(* replay to behind the checkpoint.                                        *)
THEOREM CheckpointRebuildsHolds == Spec => []CheckpointRebuilds
BY InvCheckpointRebuilds, InvariantHolds, PTL

(* A writer that takes transactions has nothing uncommitted in its files.  *)
THEOREM UncommittedDiscardedHolds == Spec => []UncommittedDiscarded
BY InvUncommittedDiscarded, InvariantHolds, PTL

-----------------------------------------------------------------------------
(***************************************************************************)
(* The log implements the durable log its callers see: a step of this      *)
(* specification is a step of DurableLog under the mapping of SegmentLog,  *)
(* or leaves what the callers see alone.                                   *)
(***************************************************************************)

(* What DurableLog calls log and readable. *)
Shown == IF mode = "open" THEN mem.log
         ELSE IF Replayable(Resume) THEN Recovered(Resume).log ELSE <<>>

Readable == mode = "open" \/ Replayable(Resume)

SeenAt(p) ==
  /\ p \in Points
  /\ Sound(p) => Readable = TRUE /\ Shown = SubSeq(mem.log, 1, Count(p))
  /\ ~Sound(p) => mode # "open" /\ Readable = FALSE /\ Shown = <<>>
  /\ mode = "open" => Sound(p) /\ Count(p) = Len(mem.log) /\ Shown = mem.log

(* What is seen is what the point of recovery finds. *)
LEMMA SeenNow == \A p \in Checkpoints : Inv /\ p = Resume => SeenAt(p)
<1> SUFFICES ASSUME NEW p \in Checkpoints, Inv, p = Resume PROVE SeenAt(p)
  OBVIOUS
<1>1. /\ TypeOK /\ StateInv /\ p \in Points /\ Shape(p) /\ PointInv(p)
      /\ mem.log \in Seq(Batches)
  BY ResumeIs, PointIs, MemTypes DEF Inv
<1>2. Replayable(p) <=> Sound(p)
  BY <1>1, ReplayableIff
<1>3. mode = "open" => Sound(p) /\ Count(p) = Len(mem.log)
  BY <1>1 DEF PointInv
<1>4. SubSeq(mem.log, 1, Len(mem.log)) = mem.log
  BY <1>1
<1>5. ASSUME Sound(p) PROVE Readable = TRUE /\ Shown = SubSeq(mem.log, 1, Count(p))
  <2>1. Recovered(p).log = SubSeq(mem.log, 1, Count(p))
    BY <1>1, <1>5, Recovers
  <2>2. Readable
    BY <1>2, <1>5 DEF Readable
  <2>3. Readable = TRUE
    BY <2>2 DEF Readable
  <2>4. Shown = SubSeq(mem.log, 1, Count(p))
    BY <2>1, <1>2, <1>3, <1>4, <1>5 DEF Shown
  <2> QED
    BY <2>3, <2>4
<1>6. ASSUME ~Sound(p) PROVE mode # "open" /\ Readable = FALSE /\ Shown = <<>>
  <2>1. mode # "open" /\ ~Replayable(Resume)
    BY <1>2, <1>3, <1>6
  <2>2. Readable = FALSE
    BY <2>1 DEF Readable
  <2> QED
    BY <2>1, <2>2 DEF Shown
<1>7. mode = "open" => Shown = mem.log
  BY DEF Shown
<1> QED
  BY <1>1, <1>3, <1>5, <1>6, <1>7 DEF SeenAt

(* The same behind a step. *)
LEMMA SeenNext == (\A p \in Checkpoints : Inv /\ p = Resume => SeenAt(p))'
BY SeenNow, PTL

(* The checkpoint decides which point that is. *)
LEMMA ResumeKept ==
  ASSUME Inv, Inv', checkpoint' = checkpoint
  PROVE  Resume' = Resume
<1>1. Resume = IF checkpoint.segment # 0 THEN checkpoint ELSE Scratch
  BY ResumeIs
<1>2. (Inv => Resume = IF checkpoint.segment # 0 THEN checkpoint ELSE Scratch)'
  BY ResumeIs, PTL
<1>3. Scratch' = Scratch
  BY DEF Scratch, NoMem, NoExtent
<1> QED
  BY <1>1, <1>2, <1>3

(* A transaction is under way only in a session that is up, *)
LEMMA WritingUp ==
  ASSUME Inv, phase # "idle"
  PROVE  mode = "open"
BY DEF Inv, TypeOK, StateInv

(* and so is a checkpoint. *)
LEMMA StagingUp ==
  ASSUME Inv, staging # NoCheckpoint
  PROVE  mode = "open"
BY DEF Inv, TypeOK, StateInv

(* Steps of a session that stays up: a caller sees nothing, *)
LEMMA UpStutters ==
  ASSUME Inv, Inv', mode = "open", mode' = "open", mem' = mem, durable' = durable
  PROVE  UNCHANGED Durable!vars
<1>1. Shown = mem.log /\ Shown' = mem'.log /\ Readable = TRUE /\ Readable' = TRUE
  BY DEF Shown, Readable
<1> QED
  BY <1>1 DEF Durable!vars, Shown, Readable

(* or that what was sealed is flushed, *)
LEMMA UpFlushes ==
  ASSUME Inv, Inv', mode = "open", mode' = "open", mem' = mem, durable' = Len(mem.log)
  PROVE  Durable!Flush
<1>1. Shown = mem.log /\ Shown' = mem'.log /\ Readable = TRUE /\ Readable' = TRUE
  BY DEF Shown, Readable
<1> QED
  BY <1>1 DEF Durable!Flush, Shown, Readable

(* or one transaction more. *)
LEMMA SealCommits ==
  ASSUME Inv, Inv', AppendSeal
  PROVE  Durable!Commit
<1>1. /\ mode = "open" /\ mode' = "open" /\ durable' = durable
  BY SealDisk DEF AppendSeal
<1>2. /\ Len(mem'.log) = Len(mem.log) + 1 /\ SubSeq(mem'.log, 1, Len(mem.log)) = mem.log
  <2>1. /\ TypeOK /\ StateInv /\ mem.log \in Seq(Batches)
    BY MemTypes DEF Inv
  <2>2. SubSeq(mem'.log, 1, Len(mem.log)) = SubSeq(mem.log, 1, Len(mem.log))
    BY <2>1, SealMem
  <2> QED
    BY <2>1, <2>2, SealMem
<1>3. Shown = mem.log /\ Shown' = mem'.log /\ Readable = TRUE /\ Readable' = TRUE
  BY <1>1 DEF Shown, Readable
<1> QED
  BY <1>1, <1>2, <1>3 DEF Durable!Commit, Shown, Readable

(* A session that goes down shows what it did, by what a replay finds. *)
LEMMA DownShows ==
  ASSUME Inv, Inv', disk' = disk, mem' = mem, checkpoint' = checkpoint, mode' = "closed"
  PROVE  Shown' = Shown /\ Readable' = Readable
<1>1. PICK p \in Checkpoints : p = Resume /\ Resume' = p
  BY ResumeIs, ResumeKept
<1>2. SeenAt(p)
  BY <1>1, SeenNow
<1>3. SeenAt(p)'
  BY <1>1, SeenNext
<1>4. Count(p)' = Count(p) /\ Sound(p)' = Sound(p)
  BY FilesSame
<1>5. CASE Sound(p)
  BY <1>2, <1>3, <1>4, <1>5 DEF SeenAt
<1>6. CASE ~Sound(p)
  BY <1>2, <1>3, <1>4, <1>6 DEF SeenAt
<1> QED
  BY <1>5, <1>6

(* So it stops in the sense of DurableLog. *)
LEMMA DownStops ==
  ASSUME Inv, Inv', disk' = disk, mem' = mem, checkpoint' = checkpoint,
         mode = "open", mode' = "closed", durable' = durable \/ durable' = Len(mem.log)
  PROVE  Durable!Stop
<1>1. Shown' = Shown /\ Readable' = Readable /\ Shown = mem.log /\ Readable = TRUE
  BY DownShows DEF Shown, Readable
<1> QED
  BY <1>1 DEF Durable!Stop, Shown, Readable

(* A load brings back what was shown. *)
LEMMA LoadRestarts ==
  ASSUME Inv, Inv', Load
  PROVE  Durable!Restart
<1> DEFINE p == Resume
<1>1. p \in Points /\ p \in Checkpoints
  BY ResumeIs
<1>2. /\ Sound(p) /\ mode = "closed" /\ mode' = "open" /\ durable' = durable
      /\ mem'.log = SubSeq(mem.log, 1, Count(p))
  BY LoadFacts
<1>3. SeenAt(p)
  BY <1>1, SeenNow
<1> HIDE DEF p
<1>4. Shown = mem'.log /\ Shown' = mem'.log /\ Readable = TRUE /\ Readable' = TRUE
  BY <1>2, <1>3 DEF SeenAt, Shown, Readable
<1> QED
  BY <1>2, <1>4 DEF Durable!Restart, Shown, Readable

(* Nothing is lost of files that are synced to their ends. *)
LEMMA SyncedStays ==
  ASSUME TypeOK, StateInv, TypeOK', OlderSame, synced = AllSynced, NEW n, Lost(n)
  PROVE  disk' = disk
<1>1. /\ disk \in Seq(Segments) /\ disk' \in Seq(Segments) /\ Len(disk') = Len(disk)
      /\ Newest \in 1 .. Newest /\ Newest = Len(disk)
  BY NewestTypes DEF TypeOK, OlderSame, Newest
<1>2. disk[Newest] \in Segments /\ disk'[Newest] \in Segments
  BY <1>1
<1>3. ASSUME NEW k \in Kinds PROVE disk'[Newest][k] = disk[Newest][k]
  <2> DEFINE old == disk[Newest][k]
             new == disk'[Newest][k]
  <2>1. /\ n[k] \in Nat /\ n[k] <= Len(old) /\ new \in Remains(old, n[k], k)
        /\ Len(old) <= n[k]
    BY <1>3 DEF Lost, AllSynced, Lengths
  <2>2. /\ n[k] <= Len(new) /\ Len(new) <= Len(old) /\ Len(new) \in Nat /\ Len(old) \in Nat
        /\ \A j \in 1 .. n[k] : new[j] = old[j]
    BY <1>3, <2>1, FileLost, NewestTypes
  <2>3. \E S : old \in Seq(S) /\ new \in Seq(S)
    BY <1>2, <1>3, KindsAre DEF Segments
  <2> HIDE DEF old, new
  <2>4. Len(new) = Len(old) /\ \A j \in 1 .. Len(old) : new[j] = old[j]
    BY ONLY <2>1, <2>2
  <2>5. new = old
    BY <2>3, <2>4, SeqEqual
  <2> QED
    BY <2>5 DEF old, new
<1>4. disk'[Newest] = disk[Newest]
  <2> DEFINE old == disk[Newest]
             new == disk'[Newest]
  <2>1. new.controls = old.controls /\ new.events = old.events /\ new.seals = old.seals
    BY <1>3 DEF Kinds
  <2>2. old \in Segments /\ new \in Segments
    BY <1>2
  <2> HIDE DEF old, new
  <2>3. /\ old = [controls |-> old.controls, events |-> old.events, seals |-> old.seals]
        /\ new = [controls |-> new.controls, events |-> new.events, seals |-> new.seals]
    BY ONLY <2>2 DEF Segments
  <2>4. new = old
    BY ONLY <2>1, <2>3
  <2> QED
    BY <2>4 DEF old, new
<1>5. \A s \in 1 .. Len(disk) : disk'[s] = disk[s]
  BY <1>1, <1>4 DEF OlderSame
<1> QED
  BY ONLY <1>1, <1>5

(* A power loss leaves a prefix with all that was durable, or nothing that *)
(* can be read.                                                            *)
LEMMA PowerLossLoses ==
  ASSUME Inv, Inv', PowerLoss
  PROVE  Durable!Lose \/ Durable!Scramble
<1>1. PICK p \in Checkpoints : p = Resume /\ Resume' = p
  BY ResumeIs, ResumeKept DEF PowerLoss
<1>2. SeenAt(p) /\ p \in Points
  BY <1>1, SeenNow DEF SeenAt
<1>3. SeenAt(p)' /\ p \in Points'
  BY <1>1, SeenNext DEF SeenAt
<1>4. mode' = "closed" /\ UNCHANGED <<mem, durable>>
  BY DEF PowerLoss, Closed
<1>5. TypeOK /\ StateInv /\ TypeOK' /\ StateInv'
  BY DEF Inv
<1>6. /\ OlderSame /\ Newest' = Newest /\ synced' = Lengths(disk'[Newest])
      /\ scrambled' = (scrambled \/ ~InOrder(disk'[Newest]))
      /\ \E n : Lost(n)
  BY <1>5, PowerLossFacts
<1>7. PICK n : Lost(n)
  BY <1>6
<1>8. /\ PointInv(p)'
      /\ Entry(p)' = Entry(p) /\ BaseLog(p)' = BaseLog(p) /\ BaseEvents(p)' = BaseEvents(p)
  BY <1>2, <1>4, <1>5, <1>6, <1>7, PowerLossPoint
<1>9. LastSeal(Newest)' \in Nat /\ LastSeal(Newest)' <= LastSeal(Newest)
  BY <1>2, <1>5, <1>6, <1>7, LostSeals
<1>10. CASE ~Sound(p)'
  <2>1. Readable' = FALSE /\ Shown' = <<>>
    BY <1>3, <1>10 DEF SeenAt
  <2>2. Durable!Scramble
    BY <2>1, <1>4 DEF Durable!Scramble, Shown, Readable
  <2> QED
    BY <2>2
<1>11. CASE Sound(p)'
  <2>1. Sound(p)
    <3> SUFFICES ASSUME ~Sound(p) PROVE FALSE
      OBVIOUS
    <3>1. synced = AllSynced
      BY <1>2 DEF SeenAt, Inv, Refused
    <3>2. disk' = disk
      BY <3>1, <1>5, <1>6, <1>7, SyncedStays
    <3> QED
      BY <3>2, <1>4, <1>11, FilesSame
  <2>2. Count(p) \in 0 .. Len(mem.log) /\ Count(p)' \in durable .. Count(p)
    <3>1. /\ Count(p) \in Nat /\ Count(p) <= Len(mem.log) /\ Entry(p).seals \in Nat
          /\ Len(BaseLog(p)) \in Nat /\ Len(mem.log) \in Nat /\ LastSeal(Newest) \in Nat
      BY <1>2, PointIs, PointFacts, BaseFacts, MemTypes
    <3>2. durable <= Count(p)' /\ durable \in Nat
      BY <1>4, <1>5, <1>8 DEF PointInv, DurablePart, TypeOK
    <3>3. /\ Count(p)' = Len(BaseLog(p)) + LastSeal(Newest)' - Entry(p).seals
          /\ Count(p) = Len(BaseLog(p)) + LastSeal(Newest) - Entry(p).seals
      BY <1>8 DEF Count
    <3> DEFINE z == LastSeal(Newest)
               zz == LastSeal(Newest)'
               l == Len(BaseLog(p))
               x == Entry(p).seals
               c == Count(p)
               cc == Count(p)'
               d == durable
               m == Len(mem.log)
    <3>4. /\ z \in Nat /\ zz \in Nat /\ zz <= z /\ l \in Nat /\ x \in Nat /\ c \in Nat /\ c <= m
          /\ m \in Nat /\ d \in Nat /\ d <= cc /\ c = l + z - x /\ cc = l + zz - x
      BY <1>9, <3>1, <3>2, <3>3
    <3> HIDE DEF z, zz, l, x, c, cc, d, m
    <3>5. c \in 0 .. m
      BY ONLY <3>4
    <3>6. cc \in d .. c
      BY ONLY <3>4
    <3> QED
      BY <3>5, <3>6 DEF c, cc, d, m
  <2>3. /\ Readable = TRUE /\ Shown = SubSeq(mem.log, 1, Count(p))
        /\ Readable' = TRUE /\ Shown' = SubSeq(mem.log, 1, Count(p)')
    BY <1>2, <1>3, <1>4, <1>11, <2>1 DEF SeenAt
  <2>4. /\ Len(Shown) = Count(p)
        /\ Shown' = SubSeq(Shown, 1, Count(p)')
    <3>1. mem.log \in Seq(Batches) /\ Count(p)' \in 0 .. Count(p)
      BY <1>5, <2>2, MemTypes DEF TypeOK
    <3>2. Len(SubSeq(mem.log, 1, Count(p))) = Count(p)
      BY <2>2, <3>1, PrefixFacts
    <3>3. SubSeq(SubSeq(mem.log, 1, Count(p)), 1, Count(p)') = SubSeq(mem.log, 1, Count(p)')
      BY <2>2, <3>1, PrefixOfPrefix
    <3> QED
      BY <2>3, <3>2, <3>3
  <2>5. Durable!Lose
    BY <2>2, <2>3, <2>4, <1>4 DEF Durable!Lose, Shown, Readable
  <2> QED
    BY <2>5
<1> QED
  BY <1>10, <1>11

(* A new log. *)
LEMMA InitShows == Init => Durable!Init
<1> SUFFICES ASSUME Init PROVE Durable!Init
  OBVIOUS
<1>1. PICK p \in Checkpoints : p = Resume
  BY InitInv, ResumeIs
<1>2. SeenAt(p) /\ Inv
  BY <1>1, InitInv, SeenNow
<1>3. mode = "closed" /\ durable = 0 /\ mem.log = <<>> /\ ~scrambled
  BY InitFacts DEF Init
<1>4. Sound(p)
  BY <1>2, <1>3, PointIs DEF SeenAt, PointInv
<1>5. Readable = TRUE /\ Shown = SubSeq(mem.log, 1, Count(p))
  BY <1>2, <1>4 DEF SeenAt
<1>6. SubSeq(mem.log, 1, Count(p)) = <<>>
  <2>1. Count(p) \in Nat /\ Count(p) <= Len(mem.log)
    BY <1>2, PointIs, PointFacts DEF SeenAt
  <2>2. Count(p) = 0
    BY <2>1, <1>3
  <2> QED
    BY <2>2, <1>3
<1> QED
  BY <1>3, <1>5, <1>6 DEF Durable!Init, Shown, Readable

(* Every step is one that DurableLog allows. *)
LEMMA StepShows == Inv /\ Inv' /\ [Next]_vars => [Durable!Next]_(Durable!vars)
<1> SUFFICES ASSUME Inv, Inv', [Next]_vars PROVE [Durable!Next]_(Durable!vars)
  OBVIOUS
<1>1. CASE Begin
  BY <1>1, UpStutters DEF Begin, Idle
<1>2. CASE Roll
  <2>1. Durable!Flush
    BY <1>2, UpFlushes DEF Roll, Idle
  <2> QED
    BY <2>1 DEF Durable!Next
<1>3. CASE AppendControls
  BY <1>3, UpStutters, WritingUp DEF AppendControls
<1>4. CASE AppendEvent
  BY <1>4, UpStutters, WritingUp DEF AppendEvent
<1>5. CASE AppendSeal
  <2>1. Durable!Commit
    BY <1>5, SealCommits
  <2> QED
    BY <2>1 DEF Durable!Next
<1>6. CASE AppendFails
  <2>1. phase # "idle"
    BY <1>6 DEF AppendFails, Kinds
  <2> QED
    BY <2>1, <1>6, UpStutters, WritingUp DEF AppendFails
<1>7. CASE \E n \in 0 .. 3 : Rollback(n)
  BY <1>7, UpStutters, WritingUp DEF Rollback
<1>8. CASE Flush
  <2>1. Durable!Flush
    BY <1>8, UpFlushes DEF Flush, Idle
  <2> QED
    BY <2>1 DEF Durable!Next
<1>9. CASE \E n \in 0 .. 2 : FlushFails(n)
  BY <1>9, UpStutters DEF FlushFails, Idle
<1>10. CASE CheckpointPrepare
  <2>1. Durable!Flush
    BY <1>10, UpFlushes DEF CheckpointPrepare, Idle
  <2> QED
    BY <2>1 DEF Durable!Next
<1>11. CASE CheckpointPublish
  BY <1>11, UpStutters, StagingUp DEF CheckpointPublish
<1>12. CASE CheckpointDiscard
  BY <1>12, UpStutters, StagingUp DEF CheckpointDiscard
<1>13. CASE Evict
  <2>1. Durable!Stop
    BY <1>13, DownStops DEF Evict, Idle, Closed
  <2> QED
    BY <2>1 DEF Durable!Next
<1>14. CASE ProcessCrash
  <2>1. Durable!Stop
    BY <1>14, DownStops DEF ProcessCrash, Closed
  <2> QED
    BY <2>1 DEF Durable!Next
<1>15. CASE PowerLoss
  <2>1. Durable!Lose \/ Durable!Scramble
    BY <1>15, PowerLossLoses
  <2> QED
    BY <2>1 DEF Durable!Next
<1>16. CASE Load
  <2>1. Durable!Restart
    BY <1>16, LoadRestarts
  <2> QED
    BY <2>1 DEF Durable!Next
<1>17. CASE UNCHANGED vars
  <2>1. /\ mode' = mode /\ disk' = disk /\ mem' = mem /\ checkpoint' = checkpoint
        /\ durable' = durable
    BY <1>17 DEF vars
  <2>2. CASE mode = "open"
    BY <2>1, <2>2, UpStutters
  <2>3. CASE mode = "closed"
    <3>1. Shown' = Shown /\ Readable' = Readable
      BY <2>1, <2>3, DownShows
    <3> QED
      BY <3>1, <2>1 DEF Durable!vars, Shown, Readable
  <2> QED
    BY <2>2, <2>3 DEF Inv, TypeOK
<1> QED
  BY <1>1, <1>2, <1>3, <1>4, <1>5, <1>6, <1>7, <1>8, <1>9, <1>10, <1>11, <1>12, <1>13, <1>14,
     <1>15, <1>16, <1>17 DEF Next

(* The segmented log is a durable log: transactions are added one at a     *)
(* time, a crash takes a suffix at most and none that were flushed, and a  *)
(* session that a power loss made unreadable is refused for good.          *)
THEOREM DurableLogImplemented == Spec => ImplementsDurableLog
<1>1. Init => Durable!Init
  BY InitShows
<1>2. Inv /\ Inv' /\ [Next]_vars => [Durable!Next]_(Durable!vars)
  BY StepShows
<1> QED
  BY <1>1, <1>2, InvariantHolds, PTL DEF Spec, Durable!Spec, ImplementsDurableLog
=============================================================================
