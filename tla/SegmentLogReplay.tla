-------------------------- MODULE SegmentLogReplay --------------------------
(***************************************************************************)
(* Reading the log back: what a replay finds, in one state of the disk.    *)
(*                                                                         *)
(* A replay starts from a point: the start of the log (Scratch), or a      *)
(* checkpoint.  The invariant of SegmentLogProofs says the same of every   *)
(* point p from which recovery may start:                                  *)
(*                                                                         *)
(*   FrozenPart    the segments behind the newest one are whole;           *)
(*   BasePart      they bring the replay into the newest segment           *)
(*                 (Entry(p)) with a prefix of the session (BaseLog(p),    *)
(*                 BaseEvents(p)), whose frames are on stable media;       *)
(*   SealsPart,    from there on each frame of the newest segment is the   *)
(*   ControlsPart, frame of the transaction whose place it is in, or torn, *)
(*   EventsPart    or missing.                                             *)
(*                 (Shape(p) is all of these.)                             *)
(*   Sound(p)      no frame that a whole seal counts is torn or missing.   *)
(*                                                                         *)
(* The results: with Shape(p), the replay from p is accepted exactly when  *)
(* Sound(p) (ReplayableIff); it then yields the first Count(p)             *)
(* transactions of the session and their events (Recovers), with the       *)
(* commit number and the file lengths the code computes from the seals     *)
(* alone (RecoversCommit, RecoversExtent).                                 *)
(***************************************************************************)
EXTENDS SegmentLog, SequenceLemmas

-----------------------------------------------------------------------------
(* What replaying from p yields of one segment, and of all but the newest. *)
SealsOf(p, s) == SubSeq(disk[s].seals, StartOf(p, s).seals + 1, LastSeal(s))

FramesOf(p, s, kind) ==
  LET start == StartOf(p, s)[kind]
  IN [j \in 1 .. CoveredBy(p, s, LastSeal(s))[kind] - start |-> disk[s][kind][start + j].batch]

OlderSeals(p) == FlattenSeq([n \in 1 .. Newest - p.segment |-> SealsOf(p, p.segment + n - 1)])

Older(p, kind) ==
  FlattenSeq([n \in 1 .. Newest - p.segment |-> FramesOf(p, p.segment + n - 1, kind)])

OlderRead(p, kind) == \A s \in p.segment .. Newest - 1 : FramesOf(p, s, kind) \in Seq(Batches)

SegmentReplayable(p, s) ==
  \A i \in StartOf(p, s).seals + 1 .. LastSeal(s) :
    LET seal == disk[s].seals[i]
        prior == CoveredBy(p, s, i - 1)
    IN /\ HoldsFrames(disk[s].controls, prior.controls, seal.controls, seal.commit)
       /\ HoldsEvents(disk[s].events, prior.events, seal.events)

(* The session as it is where the replay from p enters the newest segment. *)
BaseLog(p) == p.mem.log \o Older(p, "controls")

BaseEvents(p) == p.mem.events \o Older(p, "events")

Entry(p) == StartOf(p, Newest)

(* The points a replay may start from, now or after the next publication.  *)
Points ==
  {c \in {checkpoint, staging} : c.segment # 0} \cup
    IF stuck /\ checkpoint.segment # 0 THEN {} ELSE {Scratch}

(* How many transactions, and how many events, a replay from p finds.      *)
Count(p) == Len(BaseLog(p)) + LastSeal(Newest) - Entry(p).seals

EventCount(n) == Len(EventsOf(SubSeq(mem.log, 1, n)))

(* How far a replay from p gets in the files of the newest segment.        *)
Reach(p) ==
  [controls |-> Entry(p).controls + LastSeal(Newest) - Entry(p).seals,
   events |-> Entry(p).events + EventCount(Count(p)) - Len(BaseEvents(p)),
   seals |-> LastSeal(Newest)]

WholeUpto(file, n) == n <= Len(file) /\ \A j \in 1 .. n : file[j].commit # 0

Sound(p) == /\ WholeUpto(disk[Newest].controls, Reach(p).controls)
            /\ WholeUpto(disk[Newest].events, Reach(p).events)

(* The segments behind the newest one are whole and do not change.         *)
FrozenPart(p) ==
  /\ \A s \in p.segment .. Newest - 1 : SegmentReplayable(p, s)
  /\ OlderRead(p, "controls") /\ OlderRead(p, "events")
  /\ Len(OlderSeals(p)) = Len(Older(p, "controls"))
  /\ \A i \in 1 .. Len(OlderSeals(p)) : OlderSeals(p)[i].commit = Len(p.mem.log) + i

(* The newest segment holds the transactions of the session in their order, *)
(* each at its place, or a torn frame there, or nothing.                   *)
Seal(p, n) == [commit |-> n,
               controls |-> Entry(p).controls + n - Len(BaseLog(p)),
               events |-> Entry(p).events + EventCount(n) - Len(BaseEvents(p))]

BasePart(p) ==
  /\ Valid(p)
  /\ p.commit = Len(p.mem.log)
  /\ IsPrefix(BaseLog(p), mem.log)
  /\ BaseEvents(p) = EventsOf(BaseLog(p))
  /\ \A k \in Kinds : /\ Entry(p)[k] <= synced[k]
                      /\ WholeUpto(disk[Newest][k], Entry(p)[k])

SealsPart(p) ==
  \A i \in Entry(p).seals + 1 .. Len(disk[Newest].seals) :
    disk[Newest].seals[i].commit # 0 =>
      LET n == Len(BaseLog(p)) + i - Entry(p).seals
      IN n <= Len(mem.log) /\ disk[Newest].seals[i] = Seal(p, n)

ControlsPart(p) ==
  \A n \in Len(BaseLog(p)) + 1 .. Len(mem.log) :
    LET j == Entry(p).controls + n - Len(BaseLog(p))
        file == disk[Newest].controls
    IN j <= Len(file) /\ file[j].commit # 0 => file[j] = [commit |-> n, batch |-> mem.log[n]]

EventsPart(p) ==
  \A n \in Len(BaseEvents(p)) + 1 .. Len(mem.events) :
    LET j == Entry(p).events + n - Len(BaseEvents(p))
        file == disk[Newest].events
    IN j <= Len(file) /\ file[j].commit # 0 => file[j].batch = mem.events[n]

DurablePart(p) ==
  /\ durable + Entry(p).seals <= Len(BaseLog(p)) + synced.seals
  /\ durable <= Count(p)

Shape(p) == FrozenPart(p) /\ BasePart(p) /\ SealsPart(p) /\ ControlsPart(p) /\ EventsPart(p)

StateInv ==
  /\ Newest # 0
  /\ commit = Len(mem.log)
  /\ mem.events = EventsOf(mem.log)
  /\ checkpoint.segment = 0 => checkpoint = NoCheckpoint
  /\ staging.segment = 0 => staging = NoCheckpoint
  /\ mode = "open" =>
       \A k \in Kinds : \A j \in 1 .. extent[k] :
         j <= Len(disk[Newest][k]) => disk[Newest][k][j].commit # 0
  /\ mode = "closed" => /\ phase = "idle" /\ batch = NoBatch /\ ~failed
                        /\ before = NoExtent /\ extent = NoExtent
                        /\ staging = NoCheckpoint

-----------------------------------------------------------------------------
(***************************************************************************)
(* Files.                                                                  *)
(***************************************************************************)

(* The first elements of a sequence.                                       *)
LEMMA PrefixFacts ==
  ASSUME NEW S, NEW s \in Seq(S), NEW n \in 0 .. Len(s)
  PROVE  /\ SubSeq(s, 1, n) \in Seq(S)
         /\ Len(SubSeq(s, 1, n)) = n
         /\ \A j \in 1 .. n : SubSeq(s, 1, n)[j] = s[j] /\ s[j] \in S
<1>1. n \in Int /\ 1 \in Int /\ n - 1 + 1 = n /\ Len(s) \in Nat /\ n \in Nat
  OBVIOUS
<1>2. \A i \in 1 .. n : s[i] \in S
  <2> SUFFICES ASSUME NEW i \in 1 .. n PROVE s[i] \in S
    OBVIOUS
  <2>1. i \in 1 .. Len(s)
    BY <1>1
  <2> QED
    BY <2>1, ElementOfSeq
<1>3. /\ SubSeq(s, 1, n) \in Seq(S)
      /\ Len(SubSeq(s, 1, n)) = IF 1 <= n THEN n - 1 + 1 ELSE 0
      /\ \A i \in 1 .. n - 1 + 1 : SubSeq(s, 1, n)[i] = s[1 + i - 1]
  BY <1>1, <1>2, SubSeqProperties
<1>4. \A i \in 1 .. n : 1 + i - 1 = i
  BY <1>1
<1> QED
  BY <1>1, <1>2, <1>3, <1>4

(* Whole(file) is the part of a file before its first torn frame.          *)
LEMMA WholeFacts ==
  ASSUME NEW S, NEW file \in Seq(S)
  PROVE  /\ Whole(file) \in Seq(S)
         /\ Len(Whole(file)) \in 0 .. Len(file)
         /\ \A j \in 1 .. Len(Whole(file)) : file[j].commit # 0 /\ Whole(file)[j] = file[j]
         /\ Len(Whole(file)) < Len(file) => file[Len(Whole(file)) + 1].commit = 0
<1> DEFINE torn == {i \in DOMAIN file : file[i].commit = 0}
<1>1. CASE torn = {}
  <2>1. Whole(file) = file
    BY <1>1 DEF Whole
  <2>2. \A j \in 1 .. Len(file) : file[j].commit # 0
    BY <1>1
  <2> QED
    BY <2>1, <2>2
<1>2. CASE torn # {}
  <2>1. torn \in SUBSET Nat
    OBVIOUS
  <2>2. Min(torn) \in torn /\ \A i \in torn : Min(torn) <= i
    BY <1>2, <2>1, MinIsLeast
  <2>3. Whole(file) = SubSeq(file, 1, Min(torn) - 1)
    BY <1>2 DEF Whole
  <2> SUFFICES ASSUME NEW m, m = Min(torn)
               PROVE  /\ Whole(file) \in Seq(S)
                      /\ Len(Whole(file)) \in 0 .. Len(file)
                      /\ \A j \in 1 .. Len(Whole(file)) :
                           file[j].commit # 0 /\ Whole(file)[j] = file[j]
                      /\ Len(Whole(file)) < Len(file) => file[Len(Whole(file)) + 1].commit = 0
    OBVIOUS
  <2>4. m \in 1 .. Len(file) /\ file[m].commit = 0 /\ \A i \in torn : m <= i
    BY <2>2
  <2>5. \A j \in 1 .. m - 1 : file[j].commit # 0
    BY <2>4
  <2>6. /\ SubSeq(file, 1, m - 1) \in Seq(S)
        /\ Len(SubSeq(file, 1, m - 1)) = m - 1
        /\ \A j \in 1 .. m - 1 : SubSeq(file, 1, m - 1)[j] = file[j]
    <3> HIDE DEF torn
    <3>1. m - 1 \in 0 .. Len(file)
      BY <2>4
    <3> QED
      BY <3>1, PrefixFacts
  <2> HIDE DEF torn
  <2>7. Whole(file) = SubSeq(file, 1, m - 1)
    BY <2>3
  <2>8. Len(file) \in Nat
    OBVIOUS
  <2> QED
    BY <2>4, <2>5, <2>6, <2>7, <2>8
<1> QED
  BY <1>1, <1>2

(* A prefix without torn frames that ends at the end or at one is that part. *)
LEMMA WholeIs ==
  ASSUME NEW S, NEW file \in Seq(S), NEW n \in 0 .. Len(file),
         WholeUpto(file, n), n < Len(file) => file[n + 1].commit = 0
  PROVE  Len(Whole(file)) = n
<1> SUFFICES ASSUME NEW w, w = Len(Whole(file)) PROVE w = n
  OBVIOUS
<1>1. /\ w \in 0 .. Len(file)
      /\ \A j \in 1 .. w : file[j].commit # 0
      /\ w < Len(file) => file[w + 1].commit = 0
  BY WholeFacts
<1>2. n \in Nat /\ Len(file) \in Nat /\ \A j \in 1 .. n : file[j].commit # 0
  BY DEF WholeUpto
<1>3. ~(w < n)
  <2> SUFFICES ASSUME w < n PROVE FALSE
    OBVIOUS
  <2>1. w + 1 \in 1 .. n /\ w < Len(file)
    BY <1>1, <1>2
  <2> QED
    BY <2>1, <1>1, <1>2
<1>4. ~(n < w)
  <2> SUFFICES ASSUME n < w PROVE FALSE
    OBVIOUS
  <2>1. n + 1 \in 1 .. w /\ n < Len(file)
    BY <1>1, <1>2
  <2> QED
    BY <2>1, <1>1, <1>2
<1> QED
  BY <1>1, <1>2, <1>3, <1>4

(***************************************************************************)
(* The events of a log.                                                    *)
(***************************************************************************)
EventPieces(log) == [i \in 1 .. Len(log) |-> IF log[i].event THEN <<log[i]>> ELSE <<>>]

(* The pieces that EventsOf flattens are sequences of batches.             *)
LEMMA EventPiecesType ==
  ASSUME NEW log \in Seq(Batches)
  PROVE  EventPieces(log) \in Seq(Seq(Batches)) /\ Len(EventPieces(log)) = Len(log)
<1>1. \A i \in 1 .. Len(log) : log[i] \in Batches
  OBVIOUS
<1>2. \A i \in 1 .. Len(log) : (IF log[i].event THEN <<log[i]>> ELSE <<>>) \in Seq(Batches)
  BY <1>1
<1>3. Len(log) \in Nat
  OBVIOUS
<1> QED
  BY <1>2, <1>3 DEF EventPieces

(* No transaction, no event.                                               *)
LEMMA EventsOfEmpty == EventsOf(<<>>) = <<>>
<1>1. EventPieces(<<>>) = <<>>
  BY DEF EventPieces
<1> QED
  BY <1>1, FlattenEmpty DEF EventsOf, EventPieces

(* One more transaction adds at most its event.                            *)
LEMMA EventsOfAppend ==
  ASSUME NEW log \in Seq(Batches), NEW b \in Batches
  PROVE  /\ EventsOf(log) \in Seq(Batches)
         /\ EventsOf(Append(log, b)) =
              IF b.event THEN Append(EventsOf(log), b) ELSE EventsOf(log)
<1> DEFINE piece == IF b.event THEN <<b>> ELSE <<>>
<1>1. piece \in Seq(Batches)
  OBVIOUS
<1>2. EventPieces(log) \in Seq(Seq(Batches)) /\ Len(EventPieces(log)) = Len(log)
  BY EventPiecesType
<1>3. Append(log, b) \in Seq(Batches) /\ Len(Append(log, b)) = Len(log) + 1
        /\ Len(log) \in Nat
  OBVIOUS
<1>4. EventPieces(Append(log, b)) \in Seq(Seq(Batches))
        /\ Len(EventPieces(Append(log, b))) = Len(log) + 1
  BY <1>3, EventPiecesType
<1>5. EventPieces(Append(log, b)) = Append(EventPieces(log), piece)
  <2>1. Append(EventPieces(log), piece) \in Seq(Seq(Batches))
          /\ Len(Append(EventPieces(log), piece)) = Len(log) + 1
    BY <1>1, <1>2
  <2>2. ASSUME NEW i \in 1 .. Len(log) + 1
        PROVE  EventPieces(Append(log, b))[i] = Append(EventPieces(log), piece)[i]
    <3>1. CASE i <= Len(log)
      <4>1. i \in 1 .. Len(log) /\ Append(log, b)[i] = log[i]
        BY <3>1
      <4>2. EventPieces(Append(log, b))[i] = EventPieces(log)[i]
        BY <4>1 DEF EventPieces
      <4>3. Append(EventPieces(log), piece)[i] = EventPieces(log)[i]
        BY <4>1, <1>1, <1>2, AppendProperties
      <4> QED
        BY <4>2, <4>3
    <3>2. CASE i = Len(log) + 1
      <4>1. Append(log, b)[i] = b
        BY <3>2
      <4>2. EventPieces(Append(log, b))[i] = piece
        BY <4>1, <3>2 DEF EventPieces
      <4>3. Append(EventPieces(log), piece)[i] = piece
        BY <3>2, <1>1, <1>2, AppendProperties
      <4> QED
        BY <4>2, <4>3
    <3>3. i <= Len(log) \/ i = Len(log) + 1
      BY <1>3
    <3> QED
      BY <3>1, <3>2, <3>3
  <2> HIDE DEF piece
  <2> QED
    BY <1>4, <2>1, <2>2, SeqEqual
<1>6. /\ FlattenSeq(EventPieces(log)) \in Seq(Batches)
      /\ FlattenSeq(EventPieces(Append(log, b))) = FlattenSeq(EventPieces(log)) \o piece
  BY <1>1, <1>2, <1>5, FlattenAppend
<1>7. EventsOf(log) \in Seq(Batches) /\ EventsOf(Append(log, b)) = EventsOf(log) \o piece
  BY <1>6 DEF EventsOf, EventPieces
<1>8. b.event => EventsOf(log) \o <<b>> = Append(EventsOf(log), b)
  BY <1>7, AppendIsConcat
<1>9. EventsOf(log) \o <<>> = EventsOf(log)
  BY <1>7, ConcatEmptySeq
<1> QED
  BY <1>7, <1>8, <1>9

(* A prefix is the shorter prefix and one more element.                    *)
LEMMA PrefixStep ==
  ASSUME NEW S, NEW s \in Seq(S), NEW n \in 1 .. Len(s)
  PROVE  /\ SubSeq(s, 1, n - 1) \in Seq(S)
         /\ SubSeq(s, 1, n) = Append(SubSeq(s, 1, n - 1), s[n])
<1>1. Len(s) \in Nat /\ n \in 0 .. Len(s) /\ n - 1 \in 0 .. Len(s) /\ n - 1 + 1 = n
  OBVIOUS
<1>2. s[n] \in S
  BY ElementOfSeq
<1>3. /\ SubSeq(s, 1, n) \in Seq(S) /\ Len(SubSeq(s, 1, n)) = n
      /\ \A j \in 1 .. n : SubSeq(s, 1, n)[j] = s[j]
  BY <1>1, PrefixFacts
<1>4. /\ SubSeq(s, 1, n - 1) \in Seq(S) /\ Len(SubSeq(s, 1, n - 1)) = n - 1
      /\ \A j \in 1 .. n - 1 : SubSeq(s, 1, n - 1)[j] = s[j]
  BY <1>1, PrefixFacts
<1> SUFFICES ASSUME NEW t, t = SubSeq(s, 1, n - 1), NEW u, u = SubSeq(s, 1, n),
                    NEW e, e = s[n]
             PROVE  t \in Seq(S) /\ u = Append(t, e)
  OBVIOUS
<1>5. /\ Append(t, e) \in Seq(S) /\ Len(Append(t, e)) = n
      /\ \A j \in 1 .. n - 1 : Append(t, e)[j] = t[j]
      /\ Append(t, e)[n] = e
  BY <1>1, <1>2, <1>4, AppendProperties
<1>6. \A j \in 1 .. n : u[j] = Append(t, e)[j]
  <2> SUFFICES ASSUME NEW j \in 1 .. n PROVE u[j] = Append(t, e)[j]
    OBVIOUS
  <2>1. j \in 1 .. n - 1 \/ j = n
    BY <1>1
  <2> QED
    BY <2>1, <1>3, <1>4, <1>5
<1>7. u \in Seq(S) /\ Len(u) = n
  BY <1>3
<1> QED
  BY <1>4, <1>5, <1>6, <1>7, SeqEqual

(* The events of a prefix of the log grow by at most one with each transaction. *)
LEMMA EventsStep ==
  ASSUME NEW log \in Seq(Batches), NEW n \in 1 .. Len(log)
  PROVE  /\ EventsOf(SubSeq(log, 1, n - 1)) \in Seq(Batches)
         /\ EventsOf(SubSeq(log, 1, n)) =
              IF log[n].event THEN Append(EventsOf(SubSeq(log, 1, n - 1)), log[n])
              ELSE EventsOf(SubSeq(log, 1, n - 1))
<1>1. log[n] \in Batches
  BY ElementOfSeq
<1>2. /\ SubSeq(log, 1, n - 1) \in Seq(Batches)
      /\ SubSeq(log, 1, n) = Append(SubSeq(log, 1, n - 1), log[n])
  BY PrefixStep
<1> QED
  BY <1>1, <1>2, EventsOfAppend

(* The events of a log are a sequence of batches.                          *)
LEMMA EventsOfType ==
  ASSUME NEW log \in Seq(Batches)
  PROVE  EventsOf(log) \in Seq(Batches)
<1>1. [id |-> 0, event |-> FALSE] \in Batches
  BY DEF Batches
<1> QED
  BY <1>1, EventsOfAppend

(* The events of a prefix are a prefix of the events.                      *)
LEMMA PrefixEvents ==
  ASSUME NEW log \in Seq(Batches), NEW r \in 0 .. Len(log), NEW q \in 0 .. r
  PROVE  /\ EventsOf(SubSeq(log, 1, q)) \in Seq(Batches)
         /\ Continues(EventsOf(SubSeq(log, 1, r)), EventsOf(SubSeq(log, 1, q)))
<1> DEFINE E(n) == EventsOf(SubSeq(log, 1, n))
           Bad == {n \in Nat : q <= n /\ n <= Len(log) /\ ~Continues(E(n), E(q))}
<1>1. Len(log) \in Nat /\ q \in Nat /\ r \in Nat /\ q \in 0 .. Len(log)
  OBVIOUS
<1>2. \A n \in 0 .. Len(log) : E(n) \in Seq(Batches)
  BY PrefixFacts, EventsOfType
<1>3. \A n \in 1 .. Len(log) : E(n) = IF log[n].event THEN Append(E(n - 1), log[n]) ELSE E(n - 1)
  BY EventsStep
<1>4. \A n \in 1 .. Len(log) : log[n] \in Batches
  BY ElementOfSeq
<1> HIDE DEF E
<1>5. Bad = {}
  <2> SUFFICES ASSUME Bad # {} PROVE FALSE
    OBVIOUS
  <2>1. PICK n \in Bad : \A m \in Bad : n <= m
    BY LeastNumber
  <2>2. n # q
    <3>1. Continues(E(q), E(q))
      BY <1>1, <1>2 DEF Continues
    <3> QED
      BY <3>1
  <2>3. /\ n \in 1 .. Len(log) /\ n - 1 \in 0 .. Len(log) /\ q <= n - 1 /\ n - 1 \in Nat
        /\ ~Continues(E(n), E(q))
    BY <1>1, <2>2
  <2>4. Continues(E(n - 1), E(q))
    BY <2>1, <2>3
  <2>5. E(n - 1) \in Seq(Batches) /\ E(q) \in Seq(Batches)
    BY <1>1, <1>2, <2>3
  <2>6. CASE log[n].event
    <3>1. E(n) = Append(E(n - 1), log[n]) /\ log[n] \in Batches
      BY <1>3, <1>4, <2>3, <2>6
    <3>2. /\ Len(E(n)) = Len(E(n - 1)) + 1
          /\ \A j \in 1 .. Len(E(n - 1)) : E(n)[j] = E(n - 1)[j]
      BY <3>1, <2>5, AppendProperties
    <3>3. Len(E(n - 1)) \in Nat /\ Len(E(q)) \in Nat
      BY <2>5
    <3>4. Continues(E(n), E(q))
      BY <3>2, <3>3, <2>4 DEF Continues
    <3> QED
      BY <3>4, <2>3
  <2>7. CASE ~log[n].event
    <3>1. E(n) = E(n - 1)
      BY <1>3, <2>3, <2>7
    <3> QED
      BY <3>1, <2>3, <2>4
  <2> QED
    BY <2>6, <2>7
<1>6. Continues(E(r), E(q))
  BY <1>1, <1>5
<1> QED
  BY <1>1, <1>2, <1>6 DEF E

-----------------------------------------------------------------------------
(***************************************************************************)
(* Reading the log back.                                                   *)
(***************************************************************************)

(* The three files of a segment.                                           *)
LEMMA KindsAre ==
  ASSUME NEW k \in Kinds
  PROVE  k = "controls" \/ k = "events" \/ k = "seals"
BY DEF Kinds

(* What TypeOK says of the files of a segment.                             *)
LEMMA DiskTypes ==
  ASSUME TypeOK, Newest # 0
  PROVE  /\ Newest \in Nat /\ Newest \in 1 .. Newest
         /\ \A s \in 1 .. Newest : /\ disk[s] \in Segments
                                   /\ disk[s].controls \in Seq(Frames)
                                   /\ disk[s].events \in Seq(Frames)
                                   /\ disk[s].seals \in Seq(Seals)
                                   /\ LastSeal(s) \in 0 .. Len(disk[s].seals)
<1>1. disk \in Seq(Segments)
  BY DEF TypeOK
<1>2. Newest \in Nat /\ Newest \in 1 .. Newest
  BY <1>1 DEF Newest
<1>3. ASSUME NEW s \in 1 .. Newest
      PROVE  /\ disk[s] \in Segments
             /\ disk[s].controls \in Seq(Frames)
             /\ disk[s].events \in Seq(Frames)
             /\ disk[s].seals \in Seq(Seals)
  <2>1. disk[s] \in Segments
    BY <1>1, <1>3, ElementOfSeq DEF Newest
  <2> QED
    BY <2>1 DEF Segments
<1>4. ASSUME NEW s \in 1 .. Newest
      PROVE  LastSeal(s) \in 0 .. Len(disk[s].seals)
  BY <1>3, WholeFacts DEF LastSeal
<1> QED
  BY <1>2, <1>3, <1>4

(* Where a replay starts in a segment is a count for each file.            *)
LEMMA StartType ==
  ASSUME NEW p \in Checkpoints, NEW s
  PROVE  /\ StartOf(p, s) \in [Kinds -> Nat]
         /\ StartOf(p, s).controls \in Nat /\ StartOf(p, s).events \in Nat
         /\ StartOf(p, s).seals \in Nat
         /\ p.mem.log \in Seq(Batches) /\ p.mem.events \in Seq(Batches)
         /\ p.commit \in Nat /\ p.segment \in Nat
BY DEF Checkpoints, StartOf, NoExtent, Kinds

(* The seals read of one segment.                                          *)
LEMMA SealsOfType ==
  ASSUME TypeOK, Newest # 0, NEW p \in Checkpoints, NEW s \in 1 .. Newest
  PROVE  /\ SealsOf(p, s) \in Seq(Seals)
         /\ Len(SealsOf(p, s)) = IF StartOf(p, s).seals < LastSeal(s)
                                 THEN LastSeal(s) - StartOf(p, s).seals ELSE 0
         /\ \A i \in 1 .. Len(SealsOf(p, s)) :
              SealsOf(p, s)[i] = disk[s].seals[StartOf(p, s).seals + i]
<1> SUFFICES ASSUME NEW file, file = disk[s].seals, NEW a, a = StartOf(p, s).seals,
                    NEW b, b = LastSeal(s)
             PROVE  /\ SubSeq(file, a + 1, b) \in Seq(Seals)
                    /\ Len(SubSeq(file, a + 1, b)) = IF a < b THEN b - a ELSE 0
                    /\ \A i \in 1 .. Len(SubSeq(file, a + 1, b)) :
                         SubSeq(file, a + 1, b)[i] = file[a + i]
  BY DEF SealsOf
<1>1. file \in Seq(Seals) /\ a \in Nat /\ b \in 0 .. Len(file)
  BY DiskTypes, StartType
<1>2. b \in Nat /\ a + 1 \in Int /\ b \in Int
  BY <1>1
<1>3. \A i \in a + 1 .. b : file[i] \in Seals
  <2> SUFFICES ASSUME NEW i \in a + 1 .. b PROVE file[i] \in Seals
    OBVIOUS
  <2>1. i \in 1 .. Len(file)
    BY <1>1
  <2> QED
    BY <2>1, <1>1, ElementOfSeq
<1>4. /\ SubSeq(file, a + 1, b) \in Seq(Seals)
      /\ Len(SubSeq(file, a + 1, b)) = IF a + 1 <= b THEN b - (a + 1) + 1 ELSE 0
      /\ \A i \in 1 .. b - (a + 1) + 1 : SubSeq(file, a + 1, b)[i] = file[a + 1 + i - 1]
  BY <1>2, <1>3, SubSeqProperties
<1>5. b - (a + 1) + 1 = b - a /\ (a + 1 <= b <=> a < b)
  BY <1>1, <1>2
<1>6. ASSUME NEW i \in 1 .. Len(SubSeq(file, a + 1, b))
      PROVE  SubSeq(file, a + 1, b)[i] = file[a + i]
  <2>1. i \in 1 .. b - a /\ a + 1 + i - 1 = a + i
    BY <1>1, <1>2, <1>4, <1>5
  <2> QED
    BY <2>1, <1>4, <1>5
<1> QED
  BY <1>4, <1>5, <1>6

(* What is read is what the older segments hold, and then the newest.      *)
LEMMA SealsReadSplit ==
  ASSUME TypeOK, Newest # 0, NEW p \in Checkpoints, p.segment \in 1 .. Newest
  PROVE  /\ OlderSeals(p) \in Seq(Seals)
         /\ SealsRead(p) = OlderSeals(p) \o SealsOf(p, Newest)
         /\ SealsRead(p) \in Seq(Seals)
<1> DEFINE piece(n) == SealsOf(p, p.segment + n - 1)
           older == [n \in 1 .. Newest - p.segment |-> piece(n)]
           all == [n \in 1 .. Newest - p.segment + 1 |-> piece(n)]
<1>1. Newest \in Nat /\ p.segment \in Nat /\ Newest - p.segment \in Nat
  BY DiskTypes
<1>2. \A n \in 1 .. Newest - p.segment + 1 : piece(n) \in Seq(Seals)
  <2> SUFFICES ASSUME NEW n \in 1 .. Newest - p.segment + 1 PROVE piece(n) \in Seq(Seals)
    OBVIOUS
  <2>1. p.segment + n - 1 \in 1 .. Newest
    BY <1>1
  <2> QED
    BY <2>1, SealsOfType
<1>3. p.segment + (Newest - p.segment + 1) - 1 = Newest
  BY <1>1
<1>4. FlattenSeq(all) = SealsRead(p) /\ FlattenSeq(older) = OlderSeals(p)
  BY DEF SealsRead, OlderSeals, SealsOf
<1>5. piece(Newest - p.segment + 1) = SealsOf(p, Newest)
  BY <1>3
<1> HIDE DEF piece
<1>6. /\ all \in [1 .. Newest - p.segment + 1 -> Seq(Seals)]
      /\ older = [n \in 1 .. Newest - p.segment |-> all[n]]
      /\ all[Newest - p.segment + 1] = piece(Newest - p.segment + 1)
  <2>1. \A n \in 1 .. Newest - p.segment : n \in 1 .. Newest - p.segment + 1
    BY <1>1
  <2>2. Newest - p.segment + 1 \in 1 .. Newest - p.segment + 1
    BY <1>1
  <2> QED
    BY <1>2, <2>1, <2>2
<1> HIDE DEF older, all
<1>7. /\ FlattenSeq(older) \in Seq(Seals)
      /\ FlattenSeq(all) = FlattenSeq(older) \o all[Newest - p.segment + 1]
      /\ FlattenSeq(all) \in Seq(Seals)
  BY <1>1, <1>6, FlattenFront
<1> QED
  BY <1>4, <1>5, <1>6, <1>7

(* What is read of the closed segments is a sequence of batches.           *)
LEMMA OlderType ==
  ASSUME TypeOK, Newest # 0, NEW p \in Checkpoints, p.segment \in 1 .. Newest,
         NEW kind, OlderRead(p, kind)
  PROVE  Older(p, kind) \in Seq(Batches)
<1> DEFINE piece(n) == FramesOf(p, p.segment + n - 1, kind)
           older == [n \in 1 .. Newest - p.segment |-> piece(n)]
<1>1. Newest \in Nat /\ p.segment \in Nat /\ Newest - p.segment \in Nat
  BY DiskTypes
<1>2. \A n \in 1 .. Newest - p.segment : piece(n) \in Seq(Batches)
  <2> SUFFICES ASSUME NEW n \in 1 .. Newest - p.segment PROVE piece(n) \in Seq(Batches)
    OBVIOUS
  <2>1. p.segment + n - 1 \in p.segment .. Newest - 1
    BY <1>1
  <2> QED
    BY <2>1 DEF OlderRead
<1> HIDE DEF piece
<1>3. older \in Seq(Seq(Batches))
  BY <1>1, <1>2
<1>4. <<>> \in Seq(Batches)
  OBVIOUS
<1>5. FlattenSeq(older) \in Seq(Batches)
  BY <1>3, <1>4, FlattenAppend
<1> QED
  BY <1>5 DEF Older, piece

(* A replay is what the closed segments yield and then what the newest yields. *)
LEMMA ReplaySplit ==
  ASSUME TypeOK, Newest # 0, NEW p \in Checkpoints, p.segment \in 1 .. Newest,
         NEW kind, OlderRead(p, kind),
         FramesOf(p, Newest, kind) \in Seq(Batches)
  PROVE  /\ Replay(p, kind) = Older(p, kind) \o FramesOf(p, Newest, kind)
         /\ Replay(p, kind) \in Seq(Batches)
<1> DEFINE piece(n) == FramesOf(p, p.segment + n - 1, kind)
           older == [n \in 1 .. Newest - p.segment |-> piece(n)]
           all == [n \in 1 .. Newest - p.segment + 1 |-> piece(n)]
<1>1. Newest \in Nat /\ p.segment \in Nat /\ Newest - p.segment \in Nat
  BY DiskTypes
<1>2. \A n \in 1 .. Newest - p.segment + 1 : piece(n) \in Seq(Batches)
  <2> SUFFICES ASSUME NEW n \in 1 .. Newest - p.segment + 1 PROVE piece(n) \in Seq(Batches)
    OBVIOUS
  <2>1. p.segment + n - 1 \in p.segment .. Newest - 1 \/ p.segment + n - 1 = Newest
    <3> DEFINE s == p.segment
               z == Newest
    <3>1. s \in Nat /\ z \in Nat /\ n \in 1 .. z - s + 1
      BY <1>1
    <3> HIDE DEF s, z
    <3>2. s + n - 1 \in s .. z - 1 \/ s + n - 1 = z
      BY ONLY <3>1
    <3> QED
      BY <3>2 DEF s, z
  <2> QED
    BY <2>1 DEF OlderRead
<1>3. p.segment + (Newest - p.segment + 1) - 1 = Newest
  BY <1>1
<1>4. FlattenSeq(all) = Replay(p, kind) /\ FlattenSeq(older) = Older(p, kind)
  BY DEF Replay, Older, FramesOf
<1>5. piece(Newest - p.segment + 1) = FramesOf(p, Newest, kind)
  BY <1>3
<1> HIDE DEF piece
<1>6. /\ all \in [1 .. Newest - p.segment + 1 -> Seq(Batches)]
      /\ older = [n \in 1 .. Newest - p.segment |-> all[n]]
      /\ all[Newest - p.segment + 1] = piece(Newest - p.segment + 1)
  <2>1. \A n \in 1 .. Newest - p.segment : n \in 1 .. Newest - p.segment + 1
    BY <1>1
  <2>2. Newest - p.segment + 1 \in 1 .. Newest - p.segment + 1
    BY <1>1
  <2> QED
    BY <1>2, <2>1, <2>2
<1> HIDE DEF older, all
<1>7. /\ FlattenSeq(older) \in Seq(Batches)
      /\ FlattenSeq(all) = FlattenSeq(older) \o all[Newest - p.segment + 1]
      /\ FlattenSeq(all) \in Seq(Batches)
  BY <1>1, <1>6, FlattenFront
<1> QED
  BY <1>4, <1>5, <1>6, <1>7

(* What TypeOK says of the session in memory.                              *)
LEMMA MemTypes ==
  ASSUME TypeOK
  PROVE  /\ mem = [log |-> mem.log, events |-> mem.events]
         /\ mem.log \in Seq(Batches) /\ mem.events \in Seq(Batches)
         /\ Len(mem.log) \in Nat /\ Len(mem.events) \in Nat
BY DEF TypeOK

(* The events of the first n transactions are the first events of the session. *)
LEMMA EventCountFacts ==
  ASSUME TypeOK, mem.events = EventsOf(mem.log), NEW n \in 0 .. Len(mem.log)
  PROVE  /\ EventCount(n) \in Nat /\ EventCount(n) <= Len(mem.events)
         /\ EventsOf(SubSeq(mem.log, 1, n)) \in Seq(Batches)
         /\ EventsOf(SubSeq(mem.log, 1, n)) = SubSeq(mem.events, 1, EventCount(n))
         /\ \A m \in 0 .. n : EventCount(m) \in Nat /\ EventCount(m) <= EventCount(n)
<1>1. mem.log \in Seq(Batches) /\ mem.events \in Seq(Batches) /\ Len(mem.log) \in Nat
  BY MemTypes
<1>2. SubSeq(mem.log, 1, Len(mem.log)) = mem.log
  BY <1>1, SubSeqFull
<1> SUFFICES ASSUME NEW e, e = EventsOf(SubSeq(mem.log, 1, n)), NEW all, all = mem.events
             PROVE  /\ Len(e) \in Nat /\ Len(e) <= Len(all)
                    /\ e \in Seq(Batches)
                    /\ e = SubSeq(all, 1, Len(e))
                    /\ \A m \in 0 .. n : EventCount(m) \in Nat /\ EventCount(m) <= EventCount(n)
  BY DEF EventCount
<1>3. e \in Seq(Batches) /\ Continues(all, e)
  <2>1. Len(mem.log) \in 0 .. Len(mem.log)
    BY <1>1
  <2> QED
    BY <1>1, <1>2, <2>1, PrefixEvents
<1>4. Len(e) \in Nat /\ Len(e) <= Len(all) /\ \A j \in 1 .. Len(e) : all[j] = e[j]
  BY <1>3 DEF Continues
<1>5. e = SubSeq(all, 1, Len(e))
  <2>1. Len(e) \in 0 .. Len(all) /\ all \in Seq(Batches)
    BY <1>1, <1>4
  <2>2. /\ SubSeq(all, 1, Len(e)) \in Seq(Batches) /\ Len(SubSeq(all, 1, Len(e))) = Len(e)
        /\ \A j \in 1 .. Len(e) : SubSeq(all, 1, Len(e))[j] = all[j]
    BY <2>1, PrefixFacts
  <2> QED
    BY <1>3, <1>4, <2>2, SeqEqual
<1>6. ASSUME NEW m \in 0 .. n
      PROVE  EventCount(m) \in Nat /\ EventCount(m) <= EventCount(n)
  <2>1. /\ EventsOf(SubSeq(mem.log, 1, m)) \in Seq(Batches)
        /\ Continues(EventsOf(SubSeq(mem.log, 1, n)), EventsOf(SubSeq(mem.log, 1, m)))
    BY <1>1, PrefixEvents
  <2> QED
    BY <2>1 DEF Continues, EventCount
<1> QED
  BY <1>3, <1>4, <1>5, <1>6

(* A replay enters the newest segment with a prefix of the session.        *)
LEMMA BaseFacts ==
  ASSUME TypeOK, StateInv, NEW p \in Checkpoints, FrozenPart(p), BasePart(p)
  PROVE  /\ p.segment \in 1 .. Newest
         /\ Older(p, "controls") \in Seq(Batches) /\ Older(p, "events") \in Seq(Batches)
         /\ BaseLog(p) \in Seq(Batches) /\ BaseEvents(p) \in Seq(Batches)
         /\ Len(BaseLog(p)) \in Nat /\ Len(BaseLog(p)) <= Len(mem.log)
         /\ BaseLog(p) = SubSeq(mem.log, 1, Len(BaseLog(p)))
         /\ BaseEvents(p) = EventsOf(SubSeq(mem.log, 1, Len(BaseLog(p))))
         /\ Len(BaseEvents(p)) = EventCount(Len(BaseLog(p)))
         /\ Len(BaseEvents(p)) \in Nat /\ Len(BaseEvents(p)) <= Len(mem.events)
         /\ Entry(p) \in [Kinds -> Nat]
         /\ Entry(p).controls \in Nat /\ Entry(p).events \in Nat /\ Entry(p).seals \in Nat
         /\ Entry(p).seals <= LastSeal(Newest)
<1>1. p.segment \in 1 .. Newest
  BY DEF BasePart, Valid
<1>2. Newest # 0
  BY DEF StateInv
<1>3. /\ Entry(p) \in [Kinds -> Nat]
      /\ Entry(p).controls \in Nat /\ Entry(p).events \in Nat /\ Entry(p).seals \in Nat
      /\ p.mem.log \in Seq(Batches) /\ p.mem.events \in Seq(Batches)
  BY StartType DEF Entry
<1>4. Older(p, "controls") \in Seq(Batches) /\ Older(p, "events") \in Seq(Batches)
  BY <1>1, <1>2, OlderType DEF FrozenPart
<1>5. BaseLog(p) \in Seq(Batches) /\ BaseEvents(p) \in Seq(Batches)
  BY <1>3, <1>4, ConcatProperties DEF BaseLog, BaseEvents
<1>6. mem.log \in Seq(Batches) /\ Len(mem.log) \in Nat
  BY MemTypes
<1>7. /\ Len(BaseLog(p)) \in Nat /\ Len(BaseLog(p)) <= Len(mem.log)
      /\ BaseLog(p) = SubSeq(mem.log, 1, Len(BaseLog(p)))
  <2>1. IsPrefix(BaseLog(p), mem.log)
    BY DEF BasePart
  <2>2. SubSeq(BaseLog(p), 1, Len(BaseLog(p))) = BaseLog(p)
    BY <1>5, SubSeqFull
  <2> QED
    BY <1>5, <2>1, <2>2 DEF IsPrefix
<1>8. BaseEvents(p) = EventsOf(SubSeq(mem.log, 1, Len(BaseLog(p))))
  BY <1>7 DEF BasePart
<1>9. /\ Len(BaseEvents(p)) = EventCount(Len(BaseLog(p)))
      /\ Len(BaseEvents(p)) \in Nat /\ Len(BaseEvents(p)) <= Len(mem.events)
  <2>1. Len(BaseLog(p)) \in 0 .. Len(mem.log) /\ mem.events = EventsOf(mem.log)
    BY <1>6, <1>7 DEF StateInv
  <2> QED
    BY <1>8, <2>1, EventCountFacts DEF EventCount
<1>10. Entry(p).seals <= LastSeal(Newest)
  <2>1. Newest \in 1 .. Newest
    BY <1>2, DiskTypes
  <2>2. disk[Newest].seals \in Seq(Seals)
    BY <1>2, <2>1, DiskTypes
  <2>3. WholeUpto(disk[Newest].seals, Entry(p).seals)
    BY DEF BasePart, Kinds
  <2>4. /\ LastSeal(Newest) \in 0 .. Len(disk[Newest].seals)
        /\ LastSeal(Newest) < Len(disk[Newest].seals)
             => disk[Newest].seals[LastSeal(Newest) + 1].commit = 0
    BY <2>2, WholeFacts DEF LastSeal
  <2>5. SUFFICES ASSUME LastSeal(Newest) < Entry(p).seals PROVE FALSE
    BY <1>3, <2>4
  <2>6. LastSeal(Newest) + 1 \in 1 .. Entry(p).seals
    BY <1>3, <2>4, <2>5
  <2>7. disk[Newest].seals[LastSeal(Newest) + 1].commit # 0
    BY <2>3, <2>6 DEF WholeUpto
  <2>8. Entry(p).seals <= Len(disk[Newest].seals) /\ Len(disk[Newest].seals) \in Nat
    BY <2>2, <2>3 DEF WholeUpto
  <2> QED
    BY <1>3, <2>4, <2>5, <2>7, <2>8
<1> QED
  BY <1>1, <1>3, <1>4, <1>5, <1>7, <1>8, <1>9, <1>10

(* It goes on from there to transactions of the session, in all three files. *)
LEMMA PointFacts ==
  ASSUME TypeOK, StateInv, NEW p \in Checkpoints, FrozenPart(p), BasePart(p), SealsPart(p)
  PROVE  /\ Count(p) \in Nat /\ LastSeal(Newest) \in Nat
         /\ Len(BaseLog(p)) <= Count(p) /\ Count(p) <= Len(mem.log)
         /\ EventCount(Count(p)) \in Nat
         /\ Len(BaseEvents(p)) <= EventCount(Count(p))
         /\ EventCount(Count(p)) <= Len(mem.events)
         /\ Reach(p) \in [Kinds -> Nat]
         /\ Reach(p).controls \in Nat /\ Reach(p).events \in Nat /\ Reach(p).seals \in Nat
         /\ \A k \in Kinds : Entry(p)[k] <= Reach(p)[k]
         /\ \A i \in Entry(p).seals + 1 .. LastSeal(Newest) :
              disk[Newest].seals[i] = Seal(p, Len(BaseLog(p)) + i - Entry(p).seals)
<1>1. /\ Len(BaseLog(p)) \in Nat /\ Len(BaseLog(p)) <= Len(mem.log)
      /\ Len(BaseEvents(p)) = EventCount(Len(BaseLog(p)))
      /\ Len(BaseEvents(p)) \in Nat
      /\ Entry(p).controls \in Nat /\ Entry(p).events \in Nat /\ Entry(p).seals \in Nat
      /\ Entry(p).seals <= LastSeal(Newest)
  BY BaseFacts
<1>2. Len(mem.log) \in Nat /\ mem.events = EventsOf(mem.log) /\ Newest # 0
  BY MemTypes DEF StateInv
<1>3. disk[Newest].seals \in Seq(Seals)
  BY <1>2, DiskTypes
<1>4. /\ LastSeal(Newest) \in 0 .. Len(disk[Newest].seals)
      /\ LastSeal(Newest) \in Nat
      /\ \A i \in 1 .. LastSeal(Newest) : disk[Newest].seals[i].commit # 0
  BY <1>3, WholeFacts DEF LastSeal
<1>5. \A i \in Entry(p).seals + 1 .. LastSeal(Newest) :
        LET n == Len(BaseLog(p)) + i - Entry(p).seals
        IN n <= Len(mem.log) /\ disk[Newest].seals[i] = Seal(p, n)
  <2> SUFFICES ASSUME NEW i \in Entry(p).seals + 1 .. LastSeal(Newest)
               PROVE  LET n == Len(BaseLog(p)) + i - Entry(p).seals
                      IN n <= Len(mem.log) /\ disk[Newest].seals[i] = Seal(p, n)
    OBVIOUS
  <2>1. i \in Entry(p).seals + 1 .. Len(disk[Newest].seals) /\ i \in 1 .. LastSeal(Newest)
    BY <1>1, <1>3, <1>4
  <2>2. disk[Newest].seals[i].commit # 0
    BY <1>4, <2>1
  <2> QED
    BY <2>1, <2>2 DEF SealsPart
<1>6. /\ Count(p) \in Nat /\ Len(BaseLog(p)) <= Count(p)
  BY <1>1, <1>4 DEF Count
<1>7. Count(p) <= Len(mem.log)
  <2>1. CASE Entry(p).seals = LastSeal(Newest)
    BY <2>1, <1>1 DEF Count
  <2>2. CASE Entry(p).seals # LastSeal(Newest)
    <3>1. LastSeal(Newest) \in Entry(p).seals + 1 .. LastSeal(Newest)
      BY <2>2, <1>1, <1>4
    <3> QED
      BY <3>1, <1>5 DEF Count
  <2> QED
    BY <2>1, <2>2
<1>8. /\ EventCount(Count(p)) \in Nat
      /\ Len(BaseEvents(p)) <= EventCount(Count(p))
      /\ EventCount(Count(p)) <= Len(mem.events)
  <2>1. Count(p) \in 0 .. Len(mem.log) /\ Len(BaseLog(p)) \in 0 .. Count(p)
    BY <1>1, <1>2, <1>6, <1>7
  <2> QED
    BY <1>1, <1>2, <2>1, EventCountFacts
<1>9. /\ Reach(p).controls = Entry(p).controls + LastSeal(Newest) - Entry(p).seals
      /\ Reach(p).events = Entry(p).events + EventCount(Count(p)) - Len(BaseEvents(p))
      /\ Reach(p).seals = LastSeal(Newest)
  BY DEF Reach
<1>10. /\ Reach(p).controls \in Nat /\ Reach(p).events \in Nat /\ Reach(p).seals \in Nat
       /\ Entry(p).controls <= Reach(p).controls /\ Entry(p).events <= Reach(p).events
       /\ Entry(p).seals <= Reach(p).seals
  <2> DEFINE x == Entry(p).controls
             y == Entry(p).events
             s == Entry(p).seals
             z == LastSeal(Newest)
             h == Len(BaseEvents(p))
             e == EventCount(Count(p))
  <2>1. /\ x \in Nat /\ y \in Nat /\ s \in Nat /\ z \in Nat /\ h \in Nat /\ e \in Nat
        /\ s <= z /\ h <= e
    BY <1>1, <1>4, <1>8
  <2>2. /\ Reach(p).controls = x + z - s /\ Reach(p).events = y + e - h /\ Reach(p).seals = z
    BY <1>9
  <2> HIDE DEF x, y, s, z, h, e
  <2>3. x + z - s \in Nat /\ x <= x + z - s /\ y + e - h \in Nat /\ y <= y + e - h
    BY ONLY <2>1
  <2>4. /\ Reach(p).controls \in Nat /\ Reach(p).events \in Nat /\ Reach(p).seals \in Nat
        /\ x <= Reach(p).controls /\ y <= Reach(p).events /\ s <= Reach(p).seals
    BY ONLY <2>1, <2>2, <2>3
  <2> QED
    BY ONLY <2>4 DEF x, y, s
<1>11. Reach(p) \in [Kinds -> Nat]
  BY <1>9, <1>10 DEF Reach, Kinds
<1>12. \A k \in Kinds : Entry(p)[k] <= Reach(p)[k]
  BY <1>10, KindsAre
<1> QED
  BY <1>4, <1>5, <1>6, <1>7, <1>8, <1>10, <1>11, <1>12

(* The frames that the seals of the newest segment cover.                  *)
LEMMA Covered ==
  ASSUME TypeOK, StateInv, NEW p \in Checkpoints, FrozenPart(p), BasePart(p), SealsPart(p),
         NEW i \in Entry(p).seals .. LastSeal(Newest)
  PROVE  /\ CoveredBy(p, Newest, i).controls = Entry(p).controls + i - Entry(p).seals
         /\ CoveredBy(p, Newest, i).events =
              Entry(p).events + EventCount(Len(BaseLog(p)) + i - Entry(p).seals)
                - Len(BaseEvents(p))
<1>1. /\ Len(BaseLog(p)) \in Nat /\ Len(BaseEvents(p)) \in Nat
      /\ Len(BaseEvents(p)) = EventCount(Len(BaseLog(p)))
      /\ Entry(p).controls \in Nat /\ Entry(p).events \in Nat /\ Entry(p).seals \in Nat
  BY BaseFacts
<1>2. LastSeal(Newest) \in Nat
  BY PointFacts
<1>3. CASE i = Entry(p).seals
  <2>1. CoveredBy(p, Newest, i) = Entry(p)
    BY <1>3 DEF CoveredBy, Entry
  <2>2. Len(BaseLog(p)) + i - Entry(p).seals = Len(BaseLog(p))
    BY <1>1, <1>3
  <2>3. EventCount(Len(BaseLog(p)) + i - Entry(p).seals) = Len(BaseEvents(p))
    BY <1>1, <2>2
  <2>4. Entry(p).controls + i - Entry(p).seals = Entry(p).controls
    BY <1>1, <1>3
  <2>5. Entry(p).events + Len(BaseEvents(p)) - Len(BaseEvents(p)) = Entry(p).events
    BY <1>1
  <2> QED
    BY <2>1, <2>3, <2>4, <2>5
<1>4. CASE i # Entry(p).seals
  <2>1. i \in Entry(p).seals + 1 .. LastSeal(Newest)
    BY <1>1, <1>2, <1>4
  <2>2. disk[Newest].seals[i] = Seal(p, Len(BaseLog(p)) + i - Entry(p).seals)
    BY <2>1, PointFacts
  <2>3. CoveredBy(p, Newest, i) = [controls |-> disk[Newest].seals[i].controls,
                                   events |-> disk[Newest].seals[i].events]
    BY <1>4 DEF CoveredBy, Entry
  <2>4. Len(BaseLog(p)) + i - Entry(p).seals \in Nat
    BY <2>1, <1>1, <1>2
  <2> QED
    BY <2>1, <2>2, <2>3, <2>4, <1>1 DEF Seal
<1> QED
  BY <1>3, <1>4

(* A prefix and the elements behind it make the longer prefix.             *)
LEMMA ExtendPrefix ==
  ASSUME NEW S, NEW s \in Seq(S), NEW a \in 0 .. Len(s), NEW b \in a .. Len(s),
         NEW t \in Seq(S), Len(t) = b - a, \A j \in 1 .. b - a : t[j] = s[a + j]
  PROVE  SubSeq(s, 1, a) \o t = SubSeq(s, 1, b)
<1>1. a \in Nat /\ b \in Nat /\ Len(s) \in Nat /\ b \in 0 .. Len(s) /\ a <= b
  OBVIOUS
<1>2. /\ SubSeq(s, 1, a) \in Seq(S) /\ Len(SubSeq(s, 1, a)) = a
      /\ \A j \in 1 .. a : SubSeq(s, 1, a)[j] = s[j]
  BY PrefixFacts
<1>3. /\ SubSeq(s, 1, b) \in Seq(S) /\ Len(SubSeq(s, 1, b)) = b
      /\ \A j \in 1 .. b : SubSeq(s, 1, b)[j] = s[j]
  BY <1>1, PrefixFacts
<1> SUFFICES ASSUME NEW u, u = SubSeq(s, 1, a), NEW v, v = SubSeq(s, 1, b) PROVE u \o t = v
  OBVIOUS
<1>4. /\ u \o t \in Seq(S) /\ Len(u \o t) = a + (b - a)
      /\ \A j \in 1 .. a + (b - a) : (u \o t)[j] = IF j <= a THEN u[j] ELSE t[j - a]
  <2>1. u \in Seq(S) /\ Len(u) = a
    BY <1>2
  <2>2. /\ u \o t \in Seq(S) /\ Len(u \o t) = Len(u) + Len(t)
        /\ \A j \in 1 .. Len(u) + Len(t) :
             (u \o t)[j] = IF j <= Len(u) THEN u[j] ELSE t[j - Len(u)]
    BY ONLY <2>1, t \in Seq(S), ConcatProperties
  <2> QED
    BY ONLY <2>1, <2>2, Len(t) = b - a
<1>5. ASSUME NEW j \in 1 .. b PROVE (u \o t)[j] = v[j]
  <2>1. v[j] = s[j] /\ j \in 1 .. a + (b - a)
    BY <1>1, <1>3
  <2>2. CASE j <= a
    <3>1. j \in 1 .. a
      BY <2>2, <1>1
    <3> QED
      BY <3>1, <2>1, <2>2, <1>2, <1>4
  <2>3. CASE ~(j <= a)
    <3>1. j - a \in 1 .. b - a /\ a + (j - a) = j
      BY <2>3, <1>1
    <3> QED
      BY <3>1, <2>1, <2>3, <1>4
  <2> QED
    BY <2>2, <2>3
<1>6. Len(u \o t) = b /\ Len(v) = b /\ v \in Seq(S)
  BY <1>1, <1>3, <1>4
<1> QED
  BY <1>4, <1>5, <1>6, SeqEqual

(* The frames of a file from x on are the transactions of a log from a on. *)
Carries(file, x, log, a, b) ==
  \A n \in a + 1 .. b : file[x + n - a].batch = log[n]

ReadFrom(t, file, x, y) == t = [j \in 1 .. y - x |-> file[x + j].batch]

(* The same for a file that carries a stretch of the log.                  *)
LEMMA CarriedOn ==
  ASSUME NEW log \in Seq(Batches), NEW a \in Nat, NEW b \in Nat, a <= b, b <= Len(log),
         NEW file, NEW x \in Nat, NEW y, y = x + (b - a), Carries(file, x, log, a, b),
         NEW t, ReadFrom(t, file, x, y)
  PROVE  /\ t \in Seq(Batches) /\ Len(t) = b - a
         /\ SubSeq(log, 1, a) \o t = SubSeq(log, 1, b)
<1>1. y - x = b - a /\ b - a \in Nat /\ Len(log) \in Nat
  OBVIOUS
<1>2. ASSUME NEW j \in 1 .. b - a
      PROVE  file[x + j].batch = log[a + j] /\ log[a + j] \in Batches
  <2>1. a + j \in a + 1 .. b /\ a + j \in 1 .. Len(log) /\ x + (a + j) - a = x + j
    BY <1>1
  <2> QED
    BY <2>1, ElementOfSeq DEF Carries
<1>3. t = [j \in 1 .. b - a |-> file[x + j].batch]
  BY <1>1 DEF ReadFrom
<1>4. t \in [1 .. b - a -> Batches] /\ \A j \in 1 .. b - a : t[j] = log[a + j]
  BY <1>2, <1>3
<1>5. t \in Seq(Batches) /\ Len(t) = b - a
  <2> SUFFICES ASSUME NEW w \in Nat, t \in [1 .. w -> Batches]
               PROVE  t \in Seq(Batches) /\ Len(t) = w
    BY <1>1, <1>4
  <2> QED
    OBVIOUS
<1>6. a \in 0 .. Len(log) /\ b \in a .. Len(log)
  BY <1>1
<1>7. \A j \in 1 .. b - a : t[j] = log[a + j]
  BY <1>4
<1> QED
  BY <1>5, <1>6, <1>7, ExtendPrefix

(* Control frames that are whole are read back as transactions of the session. *)
LEMMA ControlsRead ==
  ASSUME TypeOK, StateInv, NEW p \in Checkpoints, FrozenPart(p), BasePart(p), SealsPart(p),
         ControlsPart(p), Sound(p)
  PROVE  /\ FramesOf(p, Newest, "controls") \in Seq(Batches)
         /\ Len(FramesOf(p, Newest, "controls")) = Count(p) - Len(BaseLog(p))
         /\ BaseLog(p) \o FramesOf(p, Newest, "controls") = SubSeq(mem.log, 1, Count(p))
<1> DEFINE x == Entry(p).controls
           n0 == Len(BaseLog(p))
           file == disk[Newest].controls
           y == CoveredBy(p, Newest, LastSeal(Newest)).controls
<1>1. /\ n0 \in Nat /\ n0 <= Len(mem.log) /\ x \in Nat
      /\ Entry(p).seals \in Nat /\ Entry(p).seals <= LastSeal(Newest)
  BY BaseFacts
<1>2. BaseLog(p) = SubSeq(mem.log, 1, n0)
  BY BaseFacts
<1>3. /\ Count(p) \in Nat /\ n0 <= Count(p) /\ Count(p) <= Len(mem.log)
      /\ LastSeal(Newest) \in Nat
  BY PointFacts
<1>4. Count(p) = n0 + LastSeal(Newest) - Entry(p).seals
  BY DEF Count
<1>5. mem.log \in Seq(Batches) /\ Len(mem.log) \in Nat
  BY MemTypes
<1>6. Reach(p).controls = x + (Count(p) - n0)
  <2>1. Reach(p).controls = x + LastSeal(Newest) - Entry(p).seals
    BY DEF Reach
  <2> QED
    BY <2>1, <1>1, <1>3, <1>4
<1>7. y = x + (Count(p) - n0)
  <2>1. LastSeal(Newest) \in Entry(p).seals .. LastSeal(Newest)
    BY <1>1, <1>3
  <2>2. y = x + LastSeal(Newest) - Entry(p).seals
    BY <2>1, Covered
  <2> QED
    BY <2>2, <1>1, <1>3, <1>4
<1>8. Carries(file, x, mem.log, n0, Count(p))
  <2> SUFFICES ASSUME NEW n \in n0 + 1 .. Count(p)
               PROVE  file[x + n - n0].batch = mem.log[n]
    BY DEF Carries
  <2> HIDE DEF x, n0, file, y
  <2>1. n \in n0 + 1 .. Len(mem.log) /\ x + n - n0 \in 1 .. Reach(p).controls
    BY <1>1, <1>3, <1>5, <1>6
  <2>2. /\ Reach(p).controls <= Len(file)
        /\ \A i \in 1 .. Reach(p).controls : file[i].commit # 0
    BY DEF Sound, WholeUpto, file
  <2>3. file \in Seq(Frames) /\ Len(file) \in Nat
    BY DiskTypes DEF StateInv, file
  <2>4. x + n - n0 <= Len(file) /\ file[x + n - n0].commit # 0
    BY <2>1, <2>2, <2>3, <1>1, <1>3, <1>6
  <2>5. file[x + n - n0] = [commit |-> n, batch |-> mem.log[n]]
    BY <2>1, <2>4 DEF ControlsPart, x, n0, file
  <2> QED
    BY <2>5
<1>9. ReadFrom(FramesOf(p, Newest, "controls"), file, x, y)
  BY DEF FramesOf, Entry, ReadFrom
<1> HIDE DEF x, n0, file, y
<1>10. /\ FramesOf(p, Newest, "controls") \in Seq(Batches)
       /\ Len(FramesOf(p, Newest, "controls")) = Count(p) - n0
       /\ SubSeq(mem.log, 1, n0) \o FramesOf(p, Newest, "controls") = SubSeq(mem.log, 1, Count(p))
  <2> DEFINE c == Count(p)
             log == mem.log
             t == FramesOf(p, Newest, "controls")
  <2>1. /\ x \in Nat /\ n0 \in Nat /\ c \in Nat /\ n0 <= c /\ c <= Len(log)
        /\ log \in Seq(Batches)
    BY <1>1, <1>3, <1>5
  <2>2. y = x + (c - n0) /\ Carries(file, x, log, n0, c) /\ ReadFrom(t, file, x, y)
    BY <1>7, <1>8, <1>9
  <2> HIDE DEF c, log, t
  <2>3. /\ t \in Seq(Batches) /\ Len(t) = c - n0
        /\ SubSeq(log, 1, n0) \o t = SubSeq(log, 1, c)
    BY ONLY <2>1, <2>2, CarriedOn
  <2> QED
    BY ONLY <2>3 DEF c, log, t
<1> QED
  BY <1>2, <1>10 DEF n0

(* Event frames that are whole are read back as its events.                *)
LEMMA EventsRead ==
  ASSUME TypeOK, StateInv, NEW p \in Checkpoints, FrozenPart(p), BasePart(p), SealsPart(p),
         EventsPart(p), Sound(p)
  PROVE  /\ FramesOf(p, Newest, "events") \in Seq(Batches)
         /\ BaseEvents(p) \o FramesOf(p, Newest, "events")
              = EventsOf(SubSeq(mem.log, 1, Count(p)))
<1> DEFINE x == Entry(p).events
           h0 == Len(BaseEvents(p))
           h == EventCount(Count(p))
           file == disk[Newest].events
           y == CoveredBy(p, Newest, LastSeal(Newest)).events
<1>1. /\ h0 \in Nat /\ h0 <= Len(mem.events) /\ x \in Nat
      /\ Len(BaseLog(p)) \in Nat /\ Len(BaseLog(p)) <= Len(mem.log)
      /\ Entry(p).seals \in Nat /\ Entry(p).seals <= LastSeal(Newest)
  BY BaseFacts
<1>2. BaseEvents(p) = EventsOf(SubSeq(mem.log, 1, Len(BaseLog(p))))
      /\ h0 = EventCount(Len(BaseLog(p)))
  BY BaseFacts
<1>3. /\ h \in Nat /\ h0 <= h /\ h <= Len(mem.events)
      /\ LastSeal(Newest) \in Nat /\ Count(p) \in Nat /\ Count(p) <= Len(mem.log)
  BY PointFacts
<1>4. mem.events \in Seq(Batches) /\ Len(mem.events) \in Nat /\ Len(mem.log) \in Nat
  BY MemTypes
<1>5. /\ EventsOf(SubSeq(mem.log, 1, Count(p))) = SubSeq(mem.events, 1, h)
      /\ BaseEvents(p) = SubSeq(mem.events, 1, h0)
  <2>1. mem.events = EventsOf(mem.log) /\ Count(p) \in 0 .. Len(mem.log)
        /\ Len(BaseLog(p)) \in 0 .. Len(mem.log)
    BY <1>1, <1>3, <1>4 DEF StateInv
  <2> QED
    BY <1>2, <2>1, EventCountFacts
<1>6. Reach(p).events = x + (h - h0)
  <2>1. Reach(p).events = x + h - h0
    BY DEF Reach
  <2> QED
    BY <2>1, <1>1, <1>3
<1>7. y = x + (h - h0)
  <2>1. LastSeal(Newest) \in Entry(p).seals .. LastSeal(Newest)
    BY <1>1, <1>3
  <2>2. y = x + h - h0
    BY <2>1, Covered DEF Count
  <2> HIDE DEF x, h, h0, y
  <2> QED
    BY <2>2, <1>1, <1>3
<1>8. Carries(file, x, mem.events, h0, h)
  <2> SUFFICES ASSUME NEW n \in h0 + 1 .. h
               PROVE  file[x + n - h0].batch = mem.events[n]
    BY DEF Carries
  <2> HIDE DEF x, h, h0, file, y
  <2>1. n \in h0 + 1 .. Len(mem.events) /\ x + n - h0 \in 1 .. Reach(p).events
    BY <1>1, <1>3, <1>4, <1>6
  <2>2. /\ Reach(p).events <= Len(file)
        /\ \A i \in 1 .. Reach(p).events : file[i].commit # 0
    BY DEF Sound, WholeUpto, file
  <2>3. file \in Seq(Frames) /\ Len(file) \in Nat
    BY DiskTypes DEF StateInv, file
  <2>4. x + n - h0 <= Len(file) /\ file[x + n - h0].commit # 0
    BY <2>1, <2>2, <2>3, <1>1, <1>3, <1>6
  <2>5. file[x + n - h0].batch = mem.events[n]
    BY <2>1, <2>4 DEF EventsPart, x, h0, file
  <2> QED
    BY <2>5
<1>9. ReadFrom(FramesOf(p, Newest, "events"), file, x, y)
  BY DEF FramesOf, Entry, ReadFrom
<1> HIDE DEF x, h, h0, file, y
<1>10. /\ FramesOf(p, Newest, "events") \in Seq(Batches)
       /\ SubSeq(mem.events, 1, h0) \o FramesOf(p, Newest, "events") = SubSeq(mem.events, 1, h)
  <2> DEFINE log == mem.events
             t == FramesOf(p, Newest, "events")
  <2>1. /\ x \in Nat /\ h0 \in Nat /\ h \in Nat /\ h0 <= h /\ h <= Len(log)
        /\ log \in Seq(Batches)
    BY <1>1, <1>3, <1>4
  <2>2. y = x + (h - h0) /\ Carries(file, x, log, h0, h) /\ ReadFrom(t, file, x, y)
    BY <1>7, <1>8, <1>9
  <2> HIDE DEF log, t
  <2>3. t \in Seq(Batches) /\ SubSeq(log, 1, h0) \o t = SubSeq(log, 1, h)
    BY ONLY <2>1, <2>2, CarriedOn
  <2> QED
    BY ONLY <2>3 DEF log, t
<1> QED
  BY <1>5, <1>10

(* A sound point recovers the first Count(p) transactions and their events. *)
LEMMA Recovers ==
  ASSUME TypeOK, StateInv, NEW p \in Checkpoints, Shape(p), Sound(p)
  PROVE  /\ Recovered(p) = [log |-> SubSeq(mem.log, 1, Count(p)),
                            events |-> EventsOf(SubSeq(mem.log, 1, Count(p)))]
         /\ \A k \in {"controls", "events"} : FramesOf(p, Newest, k) \in Seq(Batches)
<1>1. /\ p.segment \in 1 .. Newest
      /\ Older(p, "controls") \in Seq(Batches) /\ Older(p, "events") \in Seq(Batches)
  BY BaseFacts DEF Shape
<1>2. p.mem.log \in Seq(Batches) /\ p.mem.events \in Seq(Batches)
  BY StartType
<1>3. /\ FramesOf(p, Newest, "controls") \in Seq(Batches)
      /\ BaseLog(p) \o FramesOf(p, Newest, "controls") = SubSeq(mem.log, 1, Count(p))
  BY ControlsRead DEF Shape
<1>4. /\ FramesOf(p, Newest, "events") \in Seq(Batches)
      /\ BaseEvents(p) \o FramesOf(p, Newest, "events") = EventsOf(SubSeq(mem.log, 1, Count(p)))
  BY EventsRead DEF Shape
<1>5. Newest # 0
  BY DEF StateInv
<1>6. OlderRead(p, "controls") /\ OlderRead(p, "events")
  BY DEF Shape, FrozenPart
<1>7. Replay(p, "controls") = Older(p, "controls") \o FramesOf(p, Newest, "controls")
  BY <1>1, <1>3, <1>5, <1>6, ReplaySplit
<1>8. Replay(p, "events") = Older(p, "events") \o FramesOf(p, Newest, "events")
  BY <1>1, <1>4, <1>5, <1>6, ReplaySplit
<1>9. p.mem.log \o Replay(p, "controls") = BaseLog(p) \o FramesOf(p, Newest, "controls")
  <2> DEFINE a == p.mem.log
             b == Older(p, "controls")
             c == FramesOf(p, Newest, "controls")
  <2>1. a \in Seq(Batches) /\ b \in Seq(Batches) /\ c \in Seq(Batches)
    BY <1>1, <1>2, <1>3
  <2> HIDE DEF a, b, c
  <2>3. a \o (b \o c) = (a \o b) \o c
    BY ONLY <2>1, Associates
  <2>2. p.mem.log \o (Older(p, "controls") \o FramesOf(p, Newest, "controls"))
          = (p.mem.log \o Older(p, "controls")) \o FramesOf(p, Newest, "controls")
    BY ONLY <2>3 DEF a, b, c
  <2> QED
    BY ONLY <2>2, <1>7 DEF BaseLog
<1>10. p.mem.events \o Replay(p, "events") = BaseEvents(p) \o FramesOf(p, Newest, "events")
  <2> DEFINE a == p.mem.events
             b == Older(p, "events")
             c == FramesOf(p, Newest, "events")
  <2>1. a \in Seq(Batches) /\ b \in Seq(Batches) /\ c \in Seq(Batches)
    BY <1>1, <1>2, <1>4
  <2> HIDE DEF a, b, c
  <2>3. a \o (b \o c) = (a \o b) \o c
    BY ONLY <2>1, Associates
  <2>2. p.mem.events \o (Older(p, "events") \o FramesOf(p, Newest, "events"))
          = (p.mem.events \o Older(p, "events")) \o FramesOf(p, Newest, "events")
    BY ONLY <2>3 DEF a, b, c
  <2> QED
    BY ONLY <2>2, <1>8 DEF BaseEvents
<1>11. Recovered(p) = [log |-> SubSeq(mem.log, 1, Count(p)),
                       events |-> EventsOf(SubSeq(mem.log, 1, Count(p)))]
  BY <1>3, <1>4, <1>9, <1>10 DEF Recovered
<1> QED
  BY <1>3, <1>4, <1>11

(* The seals that are read count the transactions.                         *)
LEMMA ReadCommits ==
  ASSUME TypeOK, StateInv, NEW p \in Checkpoints, FrozenPart(p), BasePart(p), SealsPart(p)
  PROVE  /\ SealsRead(p) \in Seq(Seals)
         /\ Len(p.mem.log) \in Nat
         /\ Len(SealsRead(p)) = Count(p) - Len(p.mem.log)
         /\ \A i \in 1 .. Len(SealsRead(p)) : SealsRead(p)[i].commit = Len(p.mem.log) + i
<1> DEFINE older == OlderSeals(p)
           newest == SealsOf(p, Newest)
           l == Len(p.mem.log)
<1>1. /\ p.segment \in 1 .. Newest /\ Older(p, "controls") \in Seq(Batches)
      /\ Entry(p).seals \in Nat /\ Entry(p).seals <= LastSeal(Newest)
      /\ Len(BaseLog(p)) \in Nat
  BY BaseFacts
<1>2. /\ Newest # 0 /\ Newest \in 1 .. Newest /\ LastSeal(Newest) \in Nat
  BY DiskTypes, PointFacts DEF StateInv
<1>3. p.mem.log \in Seq(Batches) /\ l \in Nat
  BY StartType
<1>4. /\ older \in Seq(Seals) /\ SealsRead(p) = older \o newest /\ SealsRead(p) \in Seq(Seals)
  BY <1>1, <1>2, SealsReadSplit
<1>5. /\ newest \in Seq(Seals) /\ Len(newest) = LastSeal(Newest) - Entry(p).seals
      /\ \A i \in 1 .. Len(newest) : newest[i] = disk[Newest].seals[Entry(p).seals + i]
  <2>1. /\ newest \in Seq(Seals)
        /\ Len(newest) = IF Entry(p).seals < LastSeal(Newest)
                         THEN LastSeal(Newest) - Entry(p).seals ELSE 0
        /\ \A i \in 1 .. Len(newest) : newest[i] = disk[Newest].seals[Entry(p).seals + i]
    BY <1>2, SealsOfType DEF Entry
  <2> QED
    BY <2>1, <1>1, <1>2
<1>6. /\ Len(older) = Len(Older(p, "controls"))
      /\ \A i \in 1 .. Len(older) : older[i].commit = l + i
  BY DEF FrozenPart
<1>7. Len(BaseLog(p)) = l + Len(older) /\ Len(older) \in Nat
  BY <1>1, <1>3, <1>4, <1>6, ConcatProperties DEF BaseLog
<1>8. \A i \in Entry(p).seals + 1 .. LastSeal(Newest) :
        disk[Newest].seals[i] = Seal(p, Len(BaseLog(p)) + i - Entry(p).seals)
  BY PointFacts
<1>9. Count(p) = Len(BaseLog(p)) + LastSeal(Newest) - Entry(p).seals
  BY DEF Count
<1> HIDE DEF older, newest, l
<1>10. ASSUME NEW i \in 1 .. Len(newest)
       PROVE  newest[i].commit = l + Len(older) + i
  <2>1. Entry(p).seals + i \in Entry(p).seals + 1 .. LastSeal(Newest)
    <3> DEFINE x == Entry(p).seals
               z == LastSeal(Newest)
    <3>1. x \in Nat /\ z \in Nat /\ x <= z /\ i \in 1 .. z - x
      BY <1>1, <1>2, <1>5, <1>10
    <3> HIDE DEF x, z
    <3>2. x + i \in x + 1 .. z
      BY ONLY <3>1
    <3> QED
      BY <3>2 DEF x, z
  <2>2. newest[i] = Seal(p, Len(BaseLog(p)) + (Entry(p).seals + i) - Entry(p).seals)
    BY <2>1, <1>5, <1>8
  <2>3. newest[i].commit = Len(BaseLog(p)) + (Entry(p).seals + i) - Entry(p).seals
    BY <2>2 DEF Seal
  <2> QED
    BY <2>3, <1>1, <1>3, <1>7
<1>11. /\ Len(older \o newest) = Len(older) + Len(newest)
       /\ \A i \in 1 .. Len(older) + Len(newest) :
            (older \o newest)[i] = IF i <= Len(older) THEN older[i] ELSE newest[i - Len(older)]
  <2>1. older \in Seq(Seals) /\ newest \in Seq(Seals)
    BY <1>4, <1>5
  <2> QED
    BY ONLY <2>1, ConcatProperties, Zenon
<1>12. Len(older \o newest) = Count(p) - l
  <2> DEFINE x == Entry(p).seals
             z == LastSeal(Newest)
             o == Len(older)
             c == Len(older \o newest)
             t == Count(p)
             b == Len(BaseLog(p))
             m == Len(newest)
  <2>1. x \in Nat /\ z \in Nat /\ l \in Nat /\ o \in Nat
    BY <1>1, <1>2, <1>3, <1>7
  <2>2. m = z - x /\ b = l + o /\ t = b + z - x /\ c = o + m
    BY <1>5, <1>7, <1>9, <1>11
  <2> HIDE DEF x, z, l, o, c, t, b, m
  <2>3. c = t - l
    BY ONLY <2>1, <2>2
  <2> QED
    BY <2>3 DEF c, t
<1>13. ASSUME NEW i \in 1 .. Len(older) + Len(newest)
       PROVE  (older \o newest)[i].commit = l + i
  <2>1. CASE i <= Len(older)
    <3>1. i \in 1 .. Len(older)
      BY <2>1, <1>7
    <3> QED
      BY <3>1, <2>1, <1>6, <1>11
  <2>2. CASE ~(i <= Len(older))
    <3>1. i - Len(older) \in 1 .. Len(newest)
      BY <2>2, <1>5, <1>7
    <3>2. newest[i - Len(older)].commit = l + Len(older) + (i - Len(older))
      BY <3>1, <1>10
    <3> QED
      BY <3>2, <2>2, <1>3, <1>7, <1>11
  <2> QED
    BY <2>1, <2>2
<1> QED
  BY <1>3, <1>4, <1>11, <1>12, <1>13 DEF l

(* The commit that recovery computes is the number of those transactions.  *)
LEMMA RecoversCommit ==
  ASSUME TypeOK, StateInv, NEW p \in Checkpoints, FrozenPart(p), BasePart(p), SealsPart(p)
  PROVE  RecoveredCommit(p) = Count(p)
<1> DEFINE read == SealsRead(p)
<1>1. /\ read \in Seq(Seals) /\ Len(p.mem.log) \in Nat
      /\ Len(read) = Count(p) - Len(p.mem.log)
      /\ \A i \in 1 .. Len(read) : read[i].commit = Len(p.mem.log) + i
  BY ReadCommits
<1>2. p.commit = Len(p.mem.log) /\ Count(p) \in Nat
  BY PointFacts DEF BasePart
<1>3. RecoveredCommit(p) = IF read = <<>> THEN p.commit ELSE read[Len(read)].commit
  BY DEF RecoveredCommit, Last
<1> HIDE DEF read
<1>4. CASE Len(read) = 0
  <2>1. read = <<>>
    BY <1>1, <1>4, EmptySeq
  <2> QED
    BY <2>1, <1>1, <1>2, <1>3, <1>4
<1>5. CASE Len(read) # 0
  <2>1. read # <<>>
    BY <1>5, EmptySeq
  <2>2. Len(read) \in 1 .. Len(read)
    BY <1>1, <1>5
  <2> QED
    BY <2>1, <2>2, <1>1, <1>2, <1>3
<1> QED
  BY <1>4, <1>5

(* The lengths to which recovery cuts the files are what the replay reaches. *)
LEMMA RecoversExtent ==
  ASSUME TypeOK, StateInv, NEW p \in Checkpoints, FrozenPart(p), BasePart(p), SealsPart(p)
  PROVE  RecoveredExtent(p) = Reach(p)
<1>1. Entry(p).seals \in Nat /\ Entry(p).seals <= LastSeal(Newest)
  BY BaseFacts
<1>2. LastSeal(Newest) \in Nat
  BY PointFacts
<1>3. LastSeal(Newest) \in Entry(p).seals .. LastSeal(Newest)
  BY <1>1, <1>2
<1>4. /\ CoveredBy(p, Newest, LastSeal(Newest)).controls
           = Entry(p).controls + LastSeal(Newest) - Entry(p).seals
      /\ CoveredBy(p, Newest, LastSeal(Newest)).events =
           Entry(p).events + EventCount(Count(p)) - Len(BaseEvents(p))
  BY <1>3, Covered DEF Count
<1> QED
  BY <1>4 DEF RecoveredExtent, Reach


(* Where the i-th seal leaves off.                                         *)
LEMMA SealStep ==
  ASSUME TypeOK, StateInv, NEW p \in Checkpoints, FrozenPart(p), BasePart(p), SealsPart(p),
         NEW i \in Entry(p).seals + 1 .. LastSeal(Newest)
  PROVE  /\ i \in Nat /\ i - 1 \in Entry(p).seals .. LastSeal(Newest)
         /\ i \in Entry(p).seals .. LastSeal(Newest)
         /\ disk[Newest].seals[i].commit = Len(BaseLog(p)) + i - Entry(p).seals
         /\ disk[Newest].seals[i].commit \in Len(BaseLog(p)) + 1 .. Count(p)
         /\ disk[Newest].seals[i].controls = CoveredBy(p, Newest, i).controls
         /\ disk[Newest].seals[i].events = CoveredBy(p, Newest, i).events
         /\ CoveredBy(p, Newest, i).controls = CoveredBy(p, Newest, i - 1).controls + 1
         /\ CoveredBy(p, Newest, i).controls = Entry(p).controls + i - Entry(p).seals
<1>1. /\ Len(BaseLog(p)) \in Nat /\ Entry(p).seals \in Nat /\ Entry(p).controls \in Nat
      /\ Entry(p).seals <= LastSeal(Newest)
  BY BaseFacts
<1>2. LastSeal(Newest) \in Nat /\ Count(p) \in Nat
      /\ disk[Newest].seals[i] = Seal(p, Len(BaseLog(p)) + i - Entry(p).seals)
  BY PointFacts
<1> DEFINE l == Len(BaseLog(p))
           s == Entry(p).seals
           x == Entry(p).controls
           z == LastSeal(Newest)
           now == CoveredBy(p, Newest, i).controls
           prior == CoveredBy(p, Newest, i - 1).controls
<1>a. l \in Nat /\ s \in Nat /\ x \in Nat /\ z \in Nat /\ s <= z /\ i \in s + 1 .. z
  BY <1>1, <1>2
<1>3. /\ i \in Nat /\ i - 1 \in Entry(p).seals .. LastSeal(Newest)
      /\ i \in Entry(p).seals .. LastSeal(Newest) /\ i # Entry(p).seals
  <2> HIDE DEF s, z
  <2>1. i \in Nat /\ i - 1 \in s .. z /\ i \in s .. z /\ i # s
    BY ONLY <1>a
  <2> QED
    BY <2>1 DEF s, z
<1>4. disk[Newest].seals[i].commit = Len(BaseLog(p)) + i - Entry(p).seals
  BY <1>2 DEF Seal
<1>5. Count(p) = Len(BaseLog(p)) + LastSeal(Newest) - Entry(p).seals
  BY DEF Count
<1>6. Len(BaseLog(p)) + i - Entry(p).seals \in Len(BaseLog(p)) + 1 .. Count(p)
  <2> HIDE DEF l, s, z
  <2>1. l + i - s \in l + 1 .. l + z - s
    BY ONLY <1>a
  <2> QED
    BY <2>1, <1>5 DEF l, s, z
<1>7. /\ disk[Newest].seals[i].controls = CoveredBy(p, Newest, i).controls
      /\ disk[Newest].seals[i].events = CoveredBy(p, Newest, i).events
  BY <1>3 DEF CoveredBy, Entry
<1>8. /\ CoveredBy(p, Newest, i).controls = Entry(p).controls + i - Entry(p).seals
      /\ CoveredBy(p, Newest, i - 1).controls = Entry(p).controls + (i - 1) - Entry(p).seals
  BY <1>3, Covered
<1>9. CoveredBy(p, Newest, i).controls = CoveredBy(p, Newest, i - 1).controls + 1
  <2>1. now = x + i - s /\ prior = x + (i - 1) - s
    BY <1>8
  <2> HIDE DEF x, s, z, now, prior
  <2>2. now = prior + 1
    BY ONLY <2>1, <1>a
  <2> QED
    BY <2>2 DEF now, prior
<1> QED
  BY <1>3, <1>4, <1>6, <1>7, <1>8, <1>9

(* The events covered by the seals grow from the entry to the reach.       *)
LEMMA EventsCovered ==
  ASSUME TypeOK, StateInv, NEW p \in Checkpoints, FrozenPart(p), BasePart(p), SealsPart(p),
         NEW j \in Entry(p).seals .. LastSeal(Newest), NEW i \in Entry(p).seals .. j
  PROVE  /\ CoveredBy(p, Newest, i).events \in Nat /\ CoveredBy(p, Newest, j).events \in Nat
         /\ CoveredBy(p, Newest, i).events <= CoveredBy(p, Newest, j).events
         /\ Entry(p).events <= CoveredBy(p, Newest, i).events
         /\ CoveredBy(p, Newest, Entry(p).seals).events = Entry(p).events
         /\ CoveredBy(p, Newest, LastSeal(Newest)).events = Reach(p).events
         /\ CoveredBy(p, Newest, j).events <= Reach(p).events
<1> DEFINE n(m) == Len(BaseLog(p)) + m - Entry(p).seals
<1>1. /\ Len(BaseLog(p)) \in Nat /\ Entry(p).seals \in Nat /\ Entry(p).events \in Nat
      /\ Entry(p).seals <= LastSeal(Newest)
      /\ Len(BaseEvents(p)) = EventCount(Len(BaseLog(p)))
  BY BaseFacts
<1>2. /\ LastSeal(Newest) \in Nat /\ Count(p) \in Nat /\ Count(p) <= Len(mem.log)
      /\ Reach(p).events \in Nat
  BY PointFacts
<1>3. Count(p) = n(LastSeal(Newest))
  BY DEF Count
<1>4. /\ n(i) \in Nat /\ n(j) \in Nat /\ Len(BaseLog(p)) <= n(i) /\ n(i) <= n(j)
      /\ n(j) <= Count(p)
  <2>1. i \in Nat /\ j \in Nat /\ Entry(p).seals <= i /\ i <= j /\ j <= LastSeal(Newest)
    BY <1>1, <1>2
  <2>2. ASSUME NEW l \in Nat, NEW x \in Nat, NEW a \in Nat, NEW b \in Nat, NEW z \in Nat,
               x <= a, a <= b, b <= z
        PROVE  /\ l + a - x \in Nat /\ l + b - x \in Nat /\ l <= l + a - x
               /\ l + a - x <= l + b - x /\ l + b - x <= l + z - x
    BY <2>2
  <2>3. Count(p) = Len(BaseLog(p)) + LastSeal(Newest) - Entry(p).seals
    BY DEF Count
  <2> DEFINE l == Len(BaseLog(p))
             x == Entry(p).seals
             z == LastSeal(Newest)
             c == Count(p)
  <2>4. l \in Nat /\ x \in Nat /\ z \in Nat /\ c = l + z - x
    BY <1>1, <1>2, <2>3
  <2>5. i \in Nat /\ j \in Nat /\ x <= i /\ i <= j /\ j <= z
    BY <2>1
  <2>6. n(i) = l + i - x /\ n(j) = l + j - x
    OBVIOUS
  <2> HIDE DEF l, x, z, c, n
  <2>7. /\ n(i) \in Nat /\ n(j) \in Nat /\ l <= n(i) /\ n(i) <= n(j) /\ n(j) <= c
    BY ONLY <2>4, <2>5, <2>6, <2>2
  <2> QED
    BY <2>7 DEF l, c
<1>5. n(Entry(p).seals) = Len(BaseLog(p))
  BY <1>1
<1>6. /\ i \in Entry(p).seals .. LastSeal(Newest)
      /\ Entry(p).seals \in Entry(p).seals .. LastSeal(Newest)
      /\ LastSeal(Newest) \in Entry(p).seals .. LastSeal(Newest)
  BY <1>1, <1>2
<1>7. \A m \in Entry(p).seals .. LastSeal(Newest) :
        CoveredBy(p, Newest, m).events = Entry(p).events + EventCount(n(m)) - Len(BaseEvents(p))
  BY Covered
<1>8. Reach(p).events = Entry(p).events + EventCount(n(LastSeal(Newest))) - Len(BaseEvents(p))
  BY <1>3 DEF Reach
<1> HIDE DEF n
<1>9. /\ EventCount(Len(BaseLog(p))) \in Nat /\ EventCount(n(i)) \in Nat
      /\ EventCount(n(j)) \in Nat /\ EventCount(Count(p)) \in Nat
      /\ EventCount(Len(BaseLog(p))) <= EventCount(n(i))
      /\ EventCount(n(i)) <= EventCount(n(j))
      /\ EventCount(n(j)) <= EventCount(Count(p))
  <2>1. mem.events = EventsOf(mem.log) /\ Len(mem.log) \in Nat
    BY MemTypes DEF StateInv
  <2>2. /\ Count(p) \in 0 .. Len(mem.log) /\ n(j) \in 0 .. Count(p)
        /\ n(j) \in 0 .. Len(mem.log) /\ n(i) \in 0 .. n(j)
        /\ n(i) \in 0 .. Len(mem.log) /\ Len(BaseLog(p)) \in 0 .. n(i)
    BY <2>1, <1>1, <1>2, <1>4
  <2> QED
    BY <2>1, <2>2, EventCountFacts
<1>10. /\ i \in Entry(p).seals .. LastSeal(Newest) /\ j \in Entry(p).seals .. LastSeal(Newest)
       /\ Entry(p).seals \in Entry(p).seals .. LastSeal(Newest)
       /\ LastSeal(Newest) \in Entry(p).seals .. LastSeal(Newest)
  BY <1>6
<1>11. /\ CoveredBy(p, Newest, i).events = Entry(p).events + EventCount(n(i)) - Len(BaseEvents(p))
       /\ CoveredBy(p, Newest, j).events = Entry(p).events + EventCount(n(j)) - Len(BaseEvents(p))
       /\ CoveredBy(p, Newest, LastSeal(Newest)).events = Reach(p).events
  BY <1>7, <1>8, <1>10
<1>12. CoveredBy(p, Newest, Entry(p).seals).events = Entry(p).events
  BY <1>10, <1>7, <1>5, <1>1
<1>13. Reach(p).events = Entry(p).events + EventCount(Count(p)) - Len(BaseEvents(p))
  BY <1>3, <1>8
<1>14. /\ CoveredBy(p, Newest, i).events \in Nat /\ CoveredBy(p, Newest, j).events \in Nat
       /\ CoveredBy(p, Newest, i).events <= CoveredBy(p, Newest, j).events
       /\ Entry(p).events <= CoveredBy(p, Newest, i).events
       /\ CoveredBy(p, Newest, j).events <= Reach(p).events
  <2> DEFINE y == Entry(p).events
             h == Len(BaseEvents(p))
             a == EventCount(n(i))
             b == EventCount(n(j))
             c == EventCount(Count(p))
  <2>1. /\ y \in Nat /\ h \in Nat /\ a \in Nat /\ b \in Nat /\ c \in Nat
        /\ h <= a /\ a <= b /\ b <= c
    BY <1>1, <1>9
  <2>2. /\ CoveredBy(p, Newest, i).events = y + a - h
        /\ CoveredBy(p, Newest, j).events = y + b - h
        /\ Reach(p).events = y + c - h
    BY <1>11, <1>13
  <2> HIDE DEF y, h, a, b, c
  <2>3. /\ y + a - h \in Nat /\ y + b - h \in Nat /\ y + a - h <= y + b - h
        /\ y <= y + a - h /\ y + b - h <= y + c - h
    BY ONLY <2>1
  <2> QED
    BY <2>2, <2>3 DEF y
<1> QED
  BY <1>11, <1>12, <1>14

(* A replay accepts the newest segment exactly if the data is there up to  *)
(* where the seals reach.                                                  *)
LEMMA SoundReplays ==
  ASSUME TypeOK, StateInv, NEW p \in Checkpoints, Shape(p), Sound(p)
  PROVE  SegmentReplayable(p, Newest)
<1> USE DEF Shape
<1> SUFFICES ASSUME NEW i \in Entry(p).seals + 1 .. LastSeal(Newest)
             PROVE  LET seal == disk[Newest].seals[i]
                        prior == CoveredBy(p, Newest, i - 1)
                    IN /\ HoldsFrames(disk[Newest].controls, prior.controls, seal.controls,
                                      seal.commit)
                       /\ HoldsEvents(disk[Newest].events, prior.events, seal.events)
  BY DEF SegmentReplayable, Entry
<1> DEFINE seal == disk[Newest].seals[i]
           prior == CoveredBy(p, Newest, i - 1)
           controls == disk[Newest].controls
           events == disk[Newest].events
<1>1. /\ i \in Nat /\ i - 1 \in Entry(p).seals .. LastSeal(Newest)
      /\ i \in Entry(p).seals .. LastSeal(Newest)
      /\ seal.commit = Len(BaseLog(p)) + i - Entry(p).seals
      /\ seal.commit \in Len(BaseLog(p)) + 1 .. Count(p)
      /\ seal.controls = CoveredBy(p, Newest, i).controls
      /\ seal.events = CoveredBy(p, Newest, i).events
      /\ seal.controls = prior.controls + 1
      /\ seal.controls = Entry(p).controls + i - Entry(p).seals
  BY SealStep
<1>2. /\ Len(BaseLog(p)) \in Nat /\ Entry(p).seals \in Nat /\ Entry(p).controls \in Nat
      /\ Entry(p).seals <= LastSeal(Newest)
  BY BaseFacts
<1>3. /\ LastSeal(Newest) \in Nat /\ Count(p) \in Nat /\ Count(p) <= Len(mem.log)
      /\ Reach(p).controls \in Nat /\ Reach(p).events \in Nat
  BY PointFacts
<1>4. /\ Reach(p).controls <= Len(controls)
      /\ \A j \in 1 .. Reach(p).controls : controls[j].commit # 0
      /\ Reach(p).events <= Len(events) /\ \A j \in 1 .. Reach(p).events : events[j].commit # 0
  BY DEF Sound, WholeUpto
<1>5. controls \in Seq(Frames) /\ events \in Seq(Frames) /\ Len(mem.log) \in Nat
      /\ Len(controls) \in Nat /\ Len(events) \in Nat
  BY DiskTypes, MemTypes DEF StateInv
<1>6. Reach(p).controls = Entry(p).controls + LastSeal(Newest) - Entry(p).seals
  BY DEF Reach
<1>7. /\ prior.events \in Nat /\ seal.events \in Nat /\ prior.events <= seal.events
      /\ seal.events <= Reach(p).events
  <2>1. i - 1 \in Entry(p).seals .. i
    BY <1>1, <1>2
  <2>2. /\ CoveredBy(p, Newest, i - 1).events \in Nat /\ CoveredBy(p, Newest, i).events \in Nat
        /\ CoveredBy(p, Newest, i - 1).events <= CoveredBy(p, Newest, i).events
        /\ CoveredBy(p, Newest, i).events <= Reach(p).events
    BY <2>1, <1>1, EventsCovered
  <2>3. seal.events = CoveredBy(p, Newest, i).events
    BY <1>1
  <2> QED
    BY ONLY <2>2, <2>3 DEF prior
<1>8. HoldsFrames(controls, prior.controls, seal.controls, seal.commit)
  <2>1. seal.controls \in 1 .. Reach(p).controls
    <3>1. seal.controls = Entry(p).controls + i - Entry(p).seals
          /\ i \in Nat /\ Entry(p).seals + 1 <= i /\ i <= LastSeal(Newest)
      BY <1>1, <1>2, <1>3
    <3> DEFINE c == seal.controls
               x == Entry(p).controls
               s == Entry(p).seals
               z == LastSeal(Newest)
               r == Reach(p).controls
    <3>2. /\ x \in Nat /\ s \in Nat /\ z \in Nat /\ i \in Nat /\ s + 1 <= i /\ i <= z
          /\ c = x + i - s /\ r = x + z - s
      BY <3>1, <1>2, <1>3, <1>6
    <3> HIDE DEF c, x, s, z, r
    <3>3. c \in 1 .. r
      BY ONLY <3>2
    <3> QED
      BY <3>3 DEF c, r
  <2>2. seal.controls <= Len(controls) /\ controls[seal.controls].commit # 0
    <3> DEFINE c == seal.controls
               r == Reach(p).controls
    <3>1. /\ c \in 1 .. r /\ r \in Nat /\ r <= Len(controls) /\ Len(controls) \in Nat
          /\ \A j \in 1 .. r : controls[j].commit # 0
      BY <2>1, <1>3, <1>4, <1>5
    <3> HIDE DEF c, r, controls
    <3>2. c <= Len(controls) /\ controls[c].commit # 0
      BY ONLY <3>1
    <3> QED
      BY <3>2 DEF c
  <2>3. /\ seal.commit \in Len(BaseLog(p)) + 1 .. Len(mem.log)
        /\ seal.controls = Entry(p).controls + seal.commit - Len(BaseLog(p))
    <3> DEFINE n == seal.commit
               l == Len(BaseLog(p))
               c == seal.controls
               x == Entry(p).controls
               s == Entry(p).seals
               k == Count(p)
               m == Len(mem.log)
    <3>1. /\ l \in Nat /\ x \in Nat /\ s \in Nat /\ k \in Nat /\ m \in Nat /\ i \in Nat
          /\ k <= m /\ n \in l + 1 .. k /\ n = l + i - s /\ c = x + i - s
      BY <1>1, <1>2, <1>3, <1>5
    <3> HIDE DEF n, l, c, x, s, k, m
    <3>2. n \in l + 1 .. m /\ c = x + n - l
      BY ONLY <3>1
    <3> QED
      BY <3>2 DEF n, l, c, x, m
  <2>4. controls[seal.controls] = [commit |-> seal.commit, batch |-> mem.log[seal.commit]]
    BY <2>2, <2>3 DEF ControlsPart
  <2> HIDE DEF seal, prior, controls
  <2>5. prior.controls \in Int /\ \A j \in prior.controls + 1 .. seal.controls : j = seal.controls
    <3>1. prior.controls \in Int
      <4>1. CoveredBy(p, Newest, i - 1).controls = Entry(p).controls + (i - 1) - Entry(p).seals
        BY <1>1, Covered
      <4>2. \A x, s \in Nat : x + (i - 1) - s \in Int
        BY <1>1
      <4> QED
        BY <4>1, <4>2, <1>2 DEF prior
    <3> QED
      BY <3>1, <1>1
  <2>6. prior.controls <= seal.controls
    BY <2>5, <1>1
  <2> QED
    BY <2>2, <2>4, <2>5, <2>6 DEF HoldsFrames
<1>9. HoldsEvents(events, prior.events, seal.events)
  <2> HIDE DEF seal, prior, events
  <2>1. \A j \in prior.events + 1 .. seal.events : j \in 1 .. Reach(p).events
    BY <1>3, <1>7
  <2>2. seal.events <= Len(events)
    BY <1>3, <1>4, <1>5, <1>7
  <2> QED
    BY <2>1, <2>2, <1>4, <1>7 DEF HoldsEvents
<1> QED
  BY <1>8, <1>9

(* A newest segment that replays holds whole frames as far as it is covered. *)
LEMMA ReplaysSound ==
  ASSUME TypeOK, StateInv, NEW p \in Checkpoints, Shape(p), SegmentReplayable(p, Newest)
  PROVE  Sound(p)
<1> USE DEF Shape
<1> DEFINE controls == disk[Newest].controls
           events == disk[Newest].events
<1>1. /\ Len(BaseLog(p)) \in Nat /\ Entry(p).seals \in Nat
      /\ Entry(p).controls \in Nat /\ Entry(p).events \in Nat
      /\ Entry(p).seals <= LastSeal(Newest)
  BY BaseFacts
<1>2. /\ LastSeal(Newest) \in Nat /\ Reach(p).controls \in Nat /\ Reach(p).events \in Nat
  BY PointFacts
<1>3. controls \in Seq(Frames) /\ events \in Seq(Frames)
      /\ Len(controls) \in Nat /\ Len(events) \in Nat
  BY DiskTypes DEF StateInv
<1>4. /\ Entry(p).controls <= Len(controls)
      /\ \A j \in 1 .. Entry(p).controls : controls[j].commit # 0
      /\ Entry(p).events <= Len(events) /\ \A j \in 1 .. Entry(p).events : events[j].commit # 0
  BY DEF BasePart, WholeUpto, Kinds
<1>5. ASSUME NEW i \in Entry(p).seals + 1 .. LastSeal(Newest)
      PROVE  LET seal == disk[Newest].seals[i]
                 prior == CoveredBy(p, Newest, i - 1)
             IN /\ HoldsFrames(controls, prior.controls, seal.controls, seal.commit)
                /\ HoldsEvents(events, prior.events, seal.events)
  BY DEF SegmentReplayable, Entry
<1>6. Reach(p).controls = Entry(p).controls + LastSeal(Newest) - Entry(p).seals
  BY DEF Reach
<1> HIDE DEF controls, events
<1>7. ASSUME NEW j \in Entry(p).controls + 1 .. Reach(p).controls
      PROVE  j <= Len(controls) /\ controls[j].commit # 0
  <2> DEFINE i == Entry(p).seals + j - Entry(p).controls
             seal == disk[Newest].seals[i]
             prior == CoveredBy(p, Newest, i - 1)
  <2>1. i \in Entry(p).seals + 1 .. LastSeal(Newest)
    <3> DEFINE x == Entry(p).controls
               s == Entry(p).seals
               z == LastSeal(Newest)
               r == Reach(p).controls
    <3>1. /\ x \in Nat /\ s \in Nat /\ z \in Nat /\ r = x + z - s /\ j \in x + 1 .. r
          /\ i = s + j - x
      BY <1>1, <1>2, <1>6, <1>7
    <3> HIDE DEF x, s, z, r, i
    <3>2. i \in s + 1 .. z
      BY ONLY <3>1
    <3> QED
      BY <3>2 DEF s, z
  <2>2. HoldsFrames(controls, prior.controls, seal.controls, seal.commit)
    BY <2>1, <1>5
  <2>3. /\ seal.commit \in Len(BaseLog(p)) + 1 .. Count(p)
        /\ seal.controls = prior.controls + 1
        /\ seal.controls = Entry(p).controls + i - Entry(p).seals
        /\ i \in Nat /\ i - 1 \in Entry(p).seals .. LastSeal(Newest)
    BY <2>1, SealStep
  <2>4. prior.controls = Entry(p).controls + (i - 1) - Entry(p).seals
    BY <2>3, Covered
  <2>5. Entry(p).controls + i - Entry(p).seals = j
    BY <1>1, <1>2
  <2>6. Count(p) \in Nat
    BY PointFacts
  <2> HIDE DEF i, seal, prior
  <2>7. prior.controls \in Int /\ j \in prior.controls + 1 .. seal.controls
    <3> DEFINE x == Entry(p).controls
               s == Entry(p).seals
               a == prior.controls
               b == seal.controls
    <3>1. /\ x \in Nat /\ s \in Nat /\ i \in Nat /\ a = x + (i - 1) - s /\ b = a + 1
          /\ b = x + i - s /\ b = j
      BY <2>3, <2>4, <2>5, <1>1
    <3> HIDE DEF x, s, a, b
    <3>2. a \in Int /\ b \in Int
      BY ONLY <3>1
    <3>3. j \in a + 1 .. b
      BY ONLY <3>1, <3>2
    <3> QED
      BY <3>2, <3>3 DEF a, b
  <2>8. seal.commit # 0
    <3> DEFINE l == Len(BaseLog(p))
               n == seal.commit
               c == Count(p)
    <3>1. l \in Nat /\ c \in Nat /\ n \in l + 1 .. c
      BY <2>3, <2>6, <1>1
    <3> HIDE DEF l, n, c
    <3>2. n # 0
      BY ONLY <3>1
    <3> QED
      BY <3>2 DEF n
  <2> QED
    BY <2>2, <2>3, <2>5, <2>7, <2>8, <1>3 DEF HoldsFrames
<1>8. ASSUME NEW j \in Entry(p).events + 1 .. Reach(p).events
      PROVE  j <= Len(events) /\ events[j].commit # 0
  <2> DEFINE S == {i \in Nat : /\ Entry(p).seals <= i /\ i <= LastSeal(Newest)
                               /\ j <= CoveredBy(p, Newest, i).events}
  <2>1. LastSeal(Newest) \in S
    <3>1. LastSeal(Newest) \in Entry(p).seals .. LastSeal(Newest)
      BY <1>1, <1>2
    <3>2. CoveredBy(p, Newest, LastSeal(Newest)).events = Reach(p).events
      BY <3>1, EventsCovered
    <3> QED
      BY <3>2, <1>1, <1>2
  <2>2. PICK i \in S : \A m \in S : i <= m
    <3>1. S \in SUBSET Nat /\ S # {}
      BY <2>1
    <3> HIDE DEF S
    <3> QED
      BY <3>1, LeastNumber
  <2>3. i \in Nat /\ Entry(p).seals <= i /\ i <= LastSeal(Newest)
        /\ j <= CoveredBy(p, Newest, i).events
    OBVIOUS
  <2>4. i # Entry(p).seals
    <3>1. Entry(p).seals \in Entry(p).seals .. LastSeal(Newest)
          /\ Entry(p).seals \in Entry(p).seals .. Entry(p).seals
      BY <1>1, <1>2
    <3>2. CoveredBy(p, Newest, Entry(p).seals).events = Entry(p).events
      BY <3>1, EventsCovered
    <3> QED
      BY <3>2, <2>3, <1>1
  <2>5. /\ i \in Entry(p).seals + 1 .. LastSeal(Newest)
        /\ i - 1 \in Entry(p).seals .. LastSeal(Newest) /\ i - 1 \in Nat
        /\ i - 1 \in Entry(p).seals .. i /\ i \in Entry(p).seals .. LastSeal(Newest)
    BY <2>3, <2>4, <1>1, <1>2
  <2>6. CoveredBy(p, Newest, i - 1).events \in Nat /\ CoveredBy(p, Newest, i).events \in Nat
    BY <2>5, EventsCovered
  <2>7. ~(j <= CoveredBy(p, Newest, i - 1).events)
    <3>1. i - 1 \notin S
      <4>1. ~(i <= i - 1)
        BY <2>3
      <4> HIDE DEF S
      <4> QED
        BY <4>1, <2>2
    <3> QED
      BY <3>1, <2>5, <1>1, <1>2
  <2>8. /\ HoldsEvents(events, CoveredBy(p, Newest, i - 1).events, disk[Newest].seals[i].events)
        /\ disk[Newest].seals[i].events = CoveredBy(p, Newest, i).events
    BY <2>5, <1>5, SealStep
  <2>9. j \in CoveredBy(p, Newest, i - 1).events + 1 .. CoveredBy(p, Newest, i).events
    BY <2>3, <2>6, <2>7, <1>1, <1>2
  <2> HIDE DEF S
  <2>10. j <= Len(events)
    BY <2>3, <2>6, <2>8, <1>1, <1>2, <1>3 DEF HoldsEvents
  <2> QED
    BY <2>8, <2>9, <2>10 DEF HoldsEvents
<1>9. WholeUpto(controls, Reach(p).controls)
  <2>1. \A j \in 1 .. Reach(p).controls :
          j \in 1 .. Entry(p).controls \/ j \in Entry(p).controls + 1 .. Reach(p).controls
    BY <1>1, <1>2
  <2>2. \A j \in 1 .. Reach(p).controls : controls[j].commit # 0
    BY <2>1, <1>4, <1>7
  <2>3. Reach(p).controls = Entry(p).controls
          \/ Reach(p).controls \in Entry(p).controls + 1 .. Reach(p).controls
    BY <1>1, <1>2, <1>6
  <2>4. Reach(p).controls <= Len(controls)
    BY <2>3, <1>4, <1>7
  <2> QED
    BY <2>2, <2>4 DEF WholeUpto
<1>10. WholeUpto(events, Reach(p).events)
  <2>1. Entry(p).events <= Reach(p).events
    BY PointFacts DEF Kinds
  <2>2. \A j \in 1 .. Reach(p).events :
          j \in 1 .. Entry(p).events \/ j \in Entry(p).events + 1 .. Reach(p).events
    BY <1>1, <1>2
  <2>3. \A j \in 1 .. Reach(p).events : events[j].commit # 0
    BY <2>2, <1>4, <1>8
  <2>4. Reach(p).events = Entry(p).events
          \/ Reach(p).events \in Entry(p).events + 1 .. Reach(p).events
    BY <2>1, <1>1, <1>2
  <2>5. Reach(p).events <= Len(events)
    BY <2>4, <1>4, <1>8
  <2> QED
    BY <2>3, <2>5 DEF WholeUpto
<1> QED
  BY <1>9, <1>10 DEF Sound, controls, events

(* Sound(p) is what the replay from p checks.                              *)
LEMMA ReplayableIff ==
  ASSUME TypeOK, StateInv, NEW p \in Checkpoints, Shape(p)
  PROVE  Replayable(p) <=> Sound(p)
<1> DEFINE read == SealsRead(p)
<1>1. /\ p.segment \in 1 .. Newest /\ Newest \in Nat
  BY BaseFacts, DiskTypes DEF Shape, StateInv
<1>2. /\ read \in Seq(Seals) /\ Len(p.mem.log) \in Nat
      /\ \A i \in 1 .. Len(read) : read[i].commit = Len(p.mem.log) + i
  BY ReadCommits DEF Shape
<1>3. p.commit = Len(p.mem.log)
  BY DEF Shape, BasePart
<1>4. \A i \in DOMAIN read :
        read[i].commit > IF i = 1 THEN p.commit ELSE read[i - 1].commit
  <2> HIDE DEF read
  <2> SUFFICES ASSUME NEW i \in 1 .. Len(read)
               PROVE  read[i].commit > IF i = 1 THEN p.commit ELSE read[i - 1].commit
    BY <1>2
  <2>1. CASE i = 1
    BY <2>1, <1>2, <1>3
  <2>2. CASE i # 1
    <3>1. i - 1 \in 1 .. Len(read)
      BY <2>2, <1>2
    <3> QED
      BY <3>1, <2>2, <1>2
  <2> QED
    BY <2>1, <2>2
<1>5. Replayable(p) <=> \A s \in p.segment .. Newest : SegmentReplayable(p, s)
  BY <1>4 DEF Replayable, SegmentReplayable
<1>6. \A s \in p.segment .. Newest - 1 : SegmentReplayable(p, s)
  BY DEF Shape, FrozenPart
<1>7. \A s \in p.segment .. Newest : s = Newest \/ s \in p.segment .. Newest - 1
  BY <1>1
<1>8. Newest \in p.segment .. Newest
  BY <1>1
<1>9. (\A s \in p.segment .. Newest : SegmentReplayable(p, s)) <=> SegmentReplayable(p, Newest)
  BY <1>6, <1>7, <1>8
<1> QED
  BY <1>5, <1>9, SoundReplays, ReplaysSound
=============================================================================
