------------------------- MODULE EventFanoutProofs -------------------------
(***************************************************************************)
(* Proofs about EventFanout, for every window, mailbox, number of credits  *)
(* and every bound: what the user interface shows is a prefix of the       *)
(* session, no reader is ever told that it asked for what does not exist,  *)
(* and no event falls between the replayed events and the live ones.  The  *)
(* second needs to know what is under way on both wires, the third that a  *)
(* session without events in memory refuses a reader that is behind it.    *)
(***************************************************************************)
EXTENDS EventFanout, TLAPS, SequenceTheorems, FiniteSetTheorems

(* What the wires carry, and the shapes of the records. *)
Entry == [type : Types, n : Nat]
Request == [type : {"ui_snapshot", "subscribe", "credit"}, n : Nat]
Pumps == [on : BOOLEAN, backlog : Seq(Nat), pending : Nat \cup {None},
          out : SUBSET Nat, sent : Nat, acked : Nat]
Channels == [open : BOOLEAN, mail : Seq(Nat)]
Readers == [state : {"closed", "open", "live"}, cursor : Nat \cup {None},
            acked : Nat, applying : Nat \cup {None}]

(* Every variable has its shape. *)
TypeInv ==
  /\ cursor \in Nat /\ retained \in Nat /\ first \in Nat
  /\ channel \in Channels /\ pump \in Pumps
  /\ toReader \in Seq(Entry) /\ toServer \in Seq(Request)
  /\ reader \in Readers /\ view \in Seq(Nat)

(* Only a reader that has a cursor is subscribed, or gets events. *)
Knows ==
  /\ pump.on \/ reader.state = "live" => reader.cursor # None
  /\ \A f \in Range(toReader) : f.type \in {"snapshot", "event"} => reader.cursor # None
  /\ \A f \in Range(toServer) : f.type = "subscribe" => reader.cursor # None

(* The cursor never runs ahead of what was applied. *)
Applied ==
  /\ reader.cursor # None => reader.cursor <= Len(view)
  /\ reader.applying # None => reader.applying <= Len(view)

(* Nothing is sent to the reader, and it applies nothing. *)
Quiet == ~pump.on /\ reader.applying = None

(* While a question or its answer is under way, nothing else is: the reader *)
(* asks once per connection, and waits.                                     *)
Handshake ==
  /\ reader.state = "closed" => Quiet /\ toReader = <<>> /\ toServer = <<>>
  /\ \A f \in Range(toServer) : f.type # "credit" =>
       /\ Quiet /\ reader.state = "open" /\ toServer = <<f>> /\ toReader = <<>>
       /\ f.type = "subscribe" => reader.cursor = f.n
  /\ \A f \in Range(toReader) : f.type = "ui_snapshot" =>
       Quiet /\ reader.state = "open" /\ toServer = <<>> /\ toReader = <<f>>

(* The backlog continues the pending event without a gap. *)
InOrder(p) ==
  /\ p.backlog # <<>> => p.pending \notin {None, Ephemeral}
  /\ \A i \in 1 .. Len(p.backlog) : p.backlog[i] = p.pending + i

(* Nobody is ahead of the session. *)
Behind ==
  /\ pump.sent <= cursor
  /\ pump.pending # None => pump.pending + Len(pump.backlog) <= cursor
  /\ \A i \in 1 .. Len(channel.mail) : channel.mail[i] <= cursor
  /\ reader.cursor # None => reader.cursor <= cursor
  /\ reader.applying # None => reader.applying <= cursor
  /\ \A f \in Range(toReader) : f.type \in {"ui_snapshot", "event"} => f.n <= cursor

(* What a subscription has still to send is newer than what it sent, and in *)
(* the order of the session.                                                *)
Ascending ==
  /\ pump.pending \notin {None, Ephemeral} => pump.pending > pump.sent
  /\ InOrder(pump)
  /\ \A i \in 1 .. Len(channel.mail) : channel.mail[i] # Ephemeral =>
       /\ channel.mail[i] > pump.sent
       /\ pump.pending # None => channel.mail[i] > pump.pending + Len(pump.backlog)
       /\ \A j \in 1 .. i - 1 : channel.mail[j] < channel.mail[i]

(* What the reader has, or is about to get, was sent. *)
Sent == pump.on =>
  /\ reader.cursor # None => reader.cursor <= pump.sent
  /\ reader.applying # None => reader.applying <= pump.sent
  /\ \A f \in Range(toReader) : f.type = "event" => f.n <= pump.sent
  /\ \A f \in Range(toServer) : f.type = "credit" => f.n <= pump.sent

(* Appending adds one element. *)
LEMMA RangeAppend ==
  ASSUME NEW S, NEW s \in Seq(S), NEW e \in S
  PROVE  Range(Append(s, e)) = Range(s) \cup {e}
<1> DEFINE t == Append(s, e)
<1>1. t \in Seq(S) /\ Len(t) = Len(s) + 1 /\ t[Len(s) + 1] = e
     /\ \A i \in 1 .. Len(s) : t[i] = s[i]
  BY AppendProperties
<1>2. DOMAIN t = 1 .. Len(s) + 1 /\ DOMAIN s = 1 .. Len(s) /\ Len(s) \in Nat
  BY <1>1, LenProperties
<1> QED
  BY <1>1, <1>2 DEF Range

(* A sequence holds its head and what its tail holds. *)
LEMMA RangeTail ==
  ASSUME NEW S, NEW s \in Seq(S), s # <<>>
  PROVE  Range(Tail(s)) \subseteq Range(s) /\ Head(s) \in Range(s)
<1>1. Tail(s) \in Seq(S) /\ Len(Tail(s)) = Len(s) - 1
     /\ \A i \in 1 .. Len(Tail(s)) : Tail(s)[i] = s[i + 1]
  BY HeadTailProperties
<1>2. DOMAIN s = 1 .. Len(s) /\ Len(s) \in Nat \ {0} /\ DOMAIN Tail(s) = 1 .. Len(s) - 1
  BY <1>1, LenProperties, EmptySeq
<1>3. Head(s) = s[1]
  BY <1>2
<1> QED
  BY <1>1, <1>2, <1>3 DEF Range

(* The elements of a sequence over S are in S. *)
LEMMA RangeType ==
  ASSUME NEW S, NEW s \in Seq(S)
  PROVE  Range(s) \subseteq S
BY ElementOfSeq, LenProperties DEF Range

(* The elements of short sequences. *)
LEMMA RangeSmall == Range(<<>>) = {} /\ \A e : Range(<<e>>) = {e}
BY DEF Range

(* NextOf takes the next of the backlog and leaves the credit window alone. *)
LEMMA NextOfType ==
  ASSUME NEW p \in Pumps
  PROVE  NextOf(p) \in Pumps /\ NextOf(p).on = p.on /\ NextOf(p).sent = p.sent
         /\ NextOf(p).out = p.out /\ NextOf(p).acked = p.acked
<1>1. CASE p.backlog = <<>>
  BY <1>1 DEF Pumps, NextOf
<1>2. CASE p.backlog # <<>>
  <2>1. Head(p.backlog) \in Nat /\ Tail(p.backlog) \in Seq(Nat)
    BY <1>2, HeadTailProperties DEF Pumps
  <2> QED
    BY <1>2, <2>1 DEF Pumps, NextOf
<1> QED
  BY <1>1, <1>2

(* What NextOf makes pending. *)
LEMMA NextOfPending ==
  ASSUME NEW p \in Pumps
  PROVE  NextOf(p).pending = IF p.backlog = <<>> THEN None ELSE Head(p.backlog)
BY DEF Pumps, NextOf

(* What NextOf leaves. *)
LEMMA NextOfBacklog ==
  ASSUME NEW p \in Pumps
  PROVE  NextOf(p).backlog = IF p.backlog = <<>> THEN <<>> ELSE Tail(p.backlog)
BY DEF Pumps, NextOf

(* Since(n) are the events after n. *)
LEMMA SinceType ==
  ASSUME cursor \in Nat, NEW n \in Nat
  PROVE  /\ Since(n) \in Seq(Nat)
         /\ Len(Since(n)) = IF n <= cursor THEN cursor - n ELSE 0
         /\ \A i \in 1 .. Len(Since(n)) : Since(n)[i] = n + i
<1> DEFINE k == IF n <= cursor THEN cursor - n ELSE 0
<1>1. k \in Nat /\ 1 .. cursor - n = 1 .. k
  OBVIOUS
<1>2. Since(n) = [i \in 1 .. k |-> n + i]
  BY <1>1 DEF Since
<1>3. Since(n) \in Seq(Nat) /\ Len(Since(n)) = k
  BY <1>1, <1>2
<1> QED
  BY <1>2, <1>3

(* A mailbox stays a mailbox. *)
LEMMA FanOutType ==
  ASSUME channel \in Channels, NEW e \in Nat, FanOut(e)
  PROVE  channel' \in Channels
<1>1. channel.mail \in Seq(Nat) /\ Append(channel.mail, e) \in Seq(Nat)
  BY AppendProperties DEF Channels
<1>2. CASE channel.open /\ Len(channel.mail) < Capacity
  BY <1>1, <1>2 DEF FanOut, Channels
<1>3. CASE ~(channel.open /\ Len(channel.mail) < Capacity)
  BY <1>3 DEF FanOut, Channels
<1> QED
  BY <1>2, <1>3

(* The projector appends the next event, or nothing. *)
LEMMA ProjectType ==
  ASSUME view \in Seq(Nat), NEW n \in Nat, Project(n)
  PROVE  /\ view' \in Seq(Nat)
         /\ Len(view') >= Len(view)
         /\ n <= Len(view) + 1 => n <= Len(view')
         /\ ViewIsPrefix /\ n <= Len(view) + 1 => ViewIsPrefix'
<1>1. CASE n <= Len(view)
  BY <1>1 DEF Project, ViewIsPrefix
<1>2. CASE n > Len(view)
  BY <1>2, AppendProperties DEF Project, ViewIsPrefix
<1> QED
  BY <1>1, <1>2

(* UpTo(n) are the first n events. *)
LEMMA UpToType ==
  ASSUME NEW n \in Nat
  PROVE  UpTo(n) \in Seq(Nat) /\ Len(UpTo(n)) = n /\ \A i \in 1 .. n : UpTo(n)[i] = i
BY DEF UpTo

(* Frames for the sidecar. *)
LEMMA RequestType ==
  ASSUME NEW t \in {"ui_snapshot", "subscribe", "credit"}, NEW n \in Nat
  PROVE  /\ <<Frame(t, n)>> \in Seq(Request)
         /\ toServer \in Seq(Request) => Append(toServer, Frame(t, n)) \in Seq(Request)
<1>1. Frame(t, n) \in Request
  BY DEF Frame, Request
<1> QED
  BY <1>1

(* Frames for the reader. *)
LEMMA FrameType ==
  ASSUME toReader \in Seq(Entry), NEW t \in Types, NEW n \in Nat
  PROVE  Append(toReader, Frame(t, n)) \in Seq(Entry)
BY DEF Frame, Entry

(* The first frame of a wire. *)
LEMMA HeadType ==
  /\ toServer \in Seq(Request) /\ toServer # <<>> =>
       Head(toServer).n \in Nat /\ Tail(toServer) \in Seq(Request)
  /\ toReader \in Seq(Entry) /\ toReader # <<>> =>
       Head(toReader).n \in Nat /\ Tail(toReader) \in Seq(Entry)
<1>1. ASSUME toServer \in Seq(Request), toServer # <<>>
     PROVE  Head(toServer).n \in Nat /\ Tail(toServer) \in Seq(Request)
  <2>1. Head(toServer) \in Request /\ Tail(toServer) \in Seq(Request)
    BY <1>1, HeadTailProperties
  <2> QED
    BY <2>1 DEF Request
<1>2. ASSUME toReader \in Seq(Entry), toReader # <<>>
     PROVE  Head(toReader).n \in Nat /\ Tail(toReader) \in Seq(Entry)
  <2>1. Head(toReader) \in Entry /\ Tail(toReader) \in Seq(Entry)
    BY <1>2, HeadTailProperties
  <2> QED
    BY <2>1 DEF Entry
<1> QED
  BY <1>1, <1>2

(* A dropped connection leaves records of the right shape. *)
LEMMA DropType == Drop => channel' \in Channels /\ pump' \in Pumps
                          /\ toReader' \in Seq(Entry) /\ toServer' \in Seq(Request)
BY ConstantsAssumption DEF Drop, NoChannel, NoPump, Channels, Pumps

(* A loaded session has a window. *)
LEMMA LoadType == TypeInv /\ Load => first' \in Nat /\ retained' \in Nat
BY ConstantsAssumption DEF TypeInv, Load, WindowStart

(* A connection that is made anew leaves records of the right shape. *)
LEMMA RecoverType ==
  ASSUME TypeInv, NEW reset \in BOOLEAN, Recover(reset), UNCHANGED session
  PROVE  TypeInv'
BY DropType DEF TypeInv, Recover, Readers, session

(* The replayed events are events. *)
LEMMA BacklogType ==
  ASSUME TypeInv, NEW after \in Nat
  PROVE  Backlog(after) \in Seq(Nat)
<1>1. Later(after, first - 1) \in Nat
  BY DEF Later, TypeInv
<1> QED
  BY <1>1, SinceType DEF Backlog, TypeInv

(* A subscription starts with records of the right shape. *)
LEMMA AcceptType ==
  ASSUME TypeInv, NEW after \in Nat, Accept(after)
  PROVE  channel' \in Channels /\ pump' \in Pumps /\ toReader' \in Seq(Entry)
<1>1. channel' \in Channels
  BY DEF Accept, Channels
<1>2. Backlog(after) # <<>> =>
        Head(Backlog(after)) \in Nat /\ Tail(Backlog(after)) \in Seq(Nat)
  BY BacklogType, HeadTailProperties
<1>3. pump' \in Pumps
  BY <1>2, BacklogType DEF Accept, Pumps
<1>4. toReader' \in Seq(Entry)
  BY FrameType DEF Accept, TypeInv, Types
<1> QED
  BY <1>1, <1>3, <1>4

(* A refusal changes no record. *)
LEMMA RefuseType ==
  ASSUME TypeInv, NEW code \in Types, Refuse(code)
  PROVE  channel' \in Channels /\ pump' \in Pumps /\ toReader' \in Seq(Entry)
BY FrameType DEF TypeInv, Refuse, server

(* Every step keeps the shapes. *)
LEMMA TypeStep == TypeInv /\ Knows /\ Applied /\ [Next]_vars => TypeInv'
<1> SUFFICES ASSUME TypeInv, Knows, Applied, [Next]_vars PROVE TypeInv'
  OBVIOUS
<1> USE DEF session, server, wires
<1>1. CASE Commit
  <2>1. cursor' \in Nat /\ retained' \in Nat
    <3>1. cursor' \in Nat /\ retained' = WindowStart(cursor')
      BY <1>1 DEF Commit, TypeInv
    <3>2. \A n \in Nat : WindowStart(n) \in Nat
      BY ConstantsAssumption DEF WindowStart
    <3> QED
      BY <3>1, <3>2
  <2>3. first' \in Nat
    BY <1>1, <2>1 DEF Commit, Later, TypeInv
  <2>2. channel' \in Channels
    BY <1>1, <2>1, FanOutType DEF Commit, TypeInv
  <2> QED
    BY <1>1, <2>1, <2>2, <2>3 DEF Commit, TypeInv
<1>2. CASE SendEphemeral
  BY <1>2, FanOutType DEF SendEphemeral, TypeInv, Ephemeral
<1>3. CASE Evict
  BY <1>3, LoadType DEF Evict, TypeInv
<1>4. CASE Restart
  BY <1>4, LoadType, DropType DEF Restart, TypeInv, Readers
<1>5. CASE AnswerSnapshot
  BY <1>5, HeadType, FrameType DEF AnswerSnapshot, TypeInv, Types
<1>6. CASE Subscribe
  <2>1. toServer' \in Seq(Request) /\ Head(toServer).n \in Nat
    BY <1>6, HeadType DEF Subscribe, TypeInv
  <2>2. channel' \in Channels /\ pump' \in Pumps /\ toReader' \in Seq(Entry)
    BY <1>6, <2>1, AcceptType, RefuseType DEF Subscribe, Types, ResetCodes, OtherCodes
  <2> QED
    BY <1>6, <2>1, <2>2 DEF Subscribe, TypeInv
<1>7. CASE ReadCredit
  <2>1. toServer' \in Seq(Request) /\ Head(toServer).n \in Nat
    BY <1>7, HeadType DEF ReadCredit, TypeInv
  <2>2. channel' \in Channels /\ pump' \in Pumps /\ toReader' \in Seq(Entry)
    <3>1. CASE Head(toServer).n > pump.sent
      BY <1>7, <3>1, RefuseType DEF ReadCredit, Types, OtherCodes
    <3>2. CASE ~(Head(toServer).n > pump.sent)
      <4>1. /\ pump' = [pump EXCEPT !.acked = Later(@, Head(toServer).n),
                                    !.out = {e \in @ : e > Head(toServer).n}]
            /\ UNCHANGED <<channel, toReader>>
        BY <1>7, <3>2 DEF ReadCredit
      <4>2. Later(pump.acked, Head(toServer).n) \in Nat /\ pump.out \subseteq Nat
        BY <2>1 DEF TypeInv, Pumps, Later
      <4> QED
        BY <4>1, <4>2 DEF TypeInv, Pumps
    <3> QED
      BY <3>1, <3>2
  <2> QED
    BY <1>7, <2>1, <2>2 DEF ReadCredit, TypeInv
<1>8. CASE PumpSend
  <2>1. pump.pending \in Nat /\ NextOf(pump) \in Pumps /\ pump \in Pumps
    BY <1>8, NextOfType DEF PumpSend, TypeInv, Pumps
  <2>2. pump' \in Pumps
    BY <1>8, <2>1 DEF PumpSend, Pumps
  <2>3. toReader' \in Seq(Entry)
    BY <1>8, <2>1, FrameType DEF PumpSend, TypeInv, Types
  <2> QED
    BY <1>8, <2>2, <2>3 DEF PumpSend, TypeInv
<1>9. CASE PumpDropEphemeral
  BY <1>9, NextOfType DEF PumpDropEphemeral, TypeInv
<1>10. CASE PumpReceive
  <2>1. Head(channel.mail) \in Nat /\ Tail(channel.mail) \in Seq(Nat)
    BY <1>10, HeadTailProperties DEF PumpReceive, TypeInv, Channels
  <2> QED
    BY <1>10, <2>1 DEF PumpReceive, TypeInv, Channels, Pumps
<1>11. CASE PumpOverflow
  <2>1. pump' \in Pumps
    BY <1>11, ConstantsAssumption DEF PumpOverflow, NoPump, Pumps
  <2> QED
    BY <1>11, <2>1, FrameType DEF PumpOverflow, TypeInv, Types, ResetCodes
<1>12. CASE Connect
  <2>1. toServer' \in Seq(Request)
    BY <1>12, RequestType DEF Connect, TypeInv, Readers
  <2>2. reader' \in Readers
    BY <1>12 DEF Connect, TypeInv, Readers
  <2> QED
    BY <1>12, <2>1, <2>2 DEF Connect, TypeInv
<1>13. CASE Break
  BY <1>13, RecoverType DEF Break
<1>14. CASE ReceiveError
  <2> PICK code \in ResetCodes \cup OtherCodes : Receiving(code) /\ Recover(code \in ResetCodes)
    BY <1>14 DEF ReceiveError
  <2>1. (code \in ResetCodes) \in BOOLEAN
    OBVIOUS
  <2> QED
    BY <2>1, RecoverType DEF Receiving
<1>15. CASE ReceiveSnapshot
  <2> DEFINE n == Head(toReader).n
  <2>1. n \in Nat /\ toReader' \in Seq(Entry)
    BY <1>15, HeadType DEF ReceiveSnapshot, Receiving, TypeInv
  <2>2. view' \in Seq(Nat)
    BY <1>15, <2>1, UpToType DEF ReceiveSnapshot
  <2>3. toServer' \in Seq(Request)
    BY <1>15, <2>1, RequestType DEF ReceiveSnapshot, TypeInv
  <2>4. reader' \in Readers
    BY <1>15, <2>1 DEF ReceiveSnapshot, TypeInv, Readers
  <2> QED
    BY <1>15, <2>1, <2>2, <2>3, <2>4 DEF ReceiveSnapshot, Receiving, TypeInv
<1>16. CASE ReceiveSubscribed
  <2>1. CASE Head(toReader).n > reader.cursor + 1
    BY <1>16, <2>1, RecoverType DEF ReceiveSubscribed, Receiving
  <2>2. CASE ~(Head(toReader).n > reader.cursor + 1)
    BY <1>16, <2>2, HeadType DEF ReceiveSubscribed, Receiving, TypeInv, Readers
  <2> QED
    BY <2>1, <2>2
<1>17. CASE ReceiveEvent
  <2>1. CASE Head(toReader).n > reader.cursor + 1
    BY <1>17, <2>1, RecoverType DEF ReceiveEvent, Receiving
  <2>2. CASE ~(Head(toReader).n > reader.cursor + 1)
    <3>1. Head(toReader).n \in Nat /\ toReader' \in Seq(Entry)
      BY <1>17, <2>2, HeadType DEF ReceiveEvent, Receiving, TypeInv
    <3>2. view' \in Seq(Nat)
      BY <1>17, <2>2, <3>1, ProjectType DEF ReceiveEvent, TypeInv
    <3>3. reader' \in Readers
      BY <1>17, <2>2, <3>1 DEF ReceiveEvent, TypeInv, Readers
    <3> QED
      BY <1>17, <2>2, <3>1, <3>2, <3>3 DEF ReceiveEvent, Receiving, TypeInv
  <2> QED
    BY <2>1, <2>2
<1>18. CASE Advance
  BY <1>18 DEF Advance, TypeInv, Readers
<1>19. CASE Acknowledge
  <2>1. reader.cursor \in Nat
    BY <1>19 DEF Acknowledge, TypeInv, Readers, Knows
  <2> QED
    <3>1. toServer' \in Seq(Request)
      BY <1>19, <2>1, RequestType DEF Acknowledge, TypeInv
    <3>2. reader' \in Readers
      BY <1>19, <2>1 DEF Acknowledge, TypeInv, Readers
    <3> QED
      BY <1>19, <3>1, <3>2 DEF Acknowledge, TypeInv
<1>20. CASE UNCHANGED vars
  BY <1>20 DEF vars, TypeInv
<1> QED
  BY <1>1, <1>2, <1>3, <1>4, <1>5, <1>6, <1>7, <1>8, <1>9, <1>10, <1>11, <1>12, <1>13,
     <1>14, <1>15, <1>16, <1>17, <1>18, <1>19, <1>20
  DEF Next, Session, Server, Receive

(* Nothing is left of a dropped connection. *)
LEMMA DropRange == Drop => /\ toReader' = <<>> /\ toServer' = <<>>
                           /\ ~pump'.on /\ pump'.pending = None /\ pump'.backlog = <<>>
                           /\ pump'.sent = 0 /\ channel'.mail = <<>>
                           /\ Range(toReader') = {} /\ Range(toServer') = {}
BY RangeSmall DEF Drop, NoPump, NoChannel

(* A frame is added to the wire to the reader. *)
LEMMA PushReader ==
  ASSUME TypeInv, NEW t \in Types, NEW n \in Nat, toReader' = Append(toReader, Frame(t, n))
  PROVE  Range(toReader') = Range(toReader) \cup {Frame(t, n)}
<1>1. Frame(t, n) \in Entry
  BY DEF Frame, Entry
<1> QED
  BY <1>1, RangeAppend DEF TypeInv

(* A frame is added to the wire to the sidecar. *)
LEMMA PushServer ==
  ASSUME TypeInv, NEW t \in {"ui_snapshot", "subscribe", "credit"}, NEW n \in Nat,
         toServer' = Append(toServer, Frame(t, n))
  PROVE  Range(toServer') = Range(toServer) \cup {Frame(t, n)}
<1>1. Frame(t, n) \in Request
  BY DEF Frame, Request
<1> QED
  BY <1>1, RangeAppend DEF TypeInv

(* A frame is taken from the wire to the reader. *)
LEMMA PopReader ==
  ASSUME TypeInv, toReader # <<>>, toReader' = Tail(toReader)
  PROVE  /\ Range(toReader') \subseteq Range(toReader) /\ Head(toReader) \in Range(toReader)
         /\ Head(toReader).n \in Nat /\ Head(toReader).type \in Types
<1>1. Head(toReader) \in Entry
  BY HeadTailProperties DEF TypeInv
<1> QED
  BY <1>1, RangeTail DEF TypeInv, Entry

(* A frame is taken from the wire to the sidecar. *)
LEMMA PopServer ==
  ASSUME TypeInv, toServer # <<>>, toServer' = Tail(toServer)
  PROVE  /\ Range(toServer') \subseteq Range(toServer) /\ Head(toServer) \in Range(toServer)
         /\ Head(toServer).n \in Nat
         /\ Head(toServer).type \in {"ui_snapshot", "subscribe", "credit"}
<1>1. Head(toServer) \in Request
  BY HeadTailProperties DEF TypeInv
<1> QED
  BY <1>1, RangeTail DEF TypeInv, Request

(* A connection that is made anew knows nothing of the old one. *)
LEMMA RecoverKnows ==
  ASSUME NEW reset, Recover(reset), TypeInv
  PROVE  Knows' /\ Handshake' /\ Sent'
BY DropRange DEF Recover, Knows, Handshake, Quiet, Sent, TypeInv, Readers

(* Steps that neither the reader nor the wires see. *)
LEMMA QuietSteps ==
  ASSUME TypeInv,
         Commit \/ SendEphemeral \/ Evict \/ PumpDropEphemeral \/ PumpReceive \/ UNCHANGED vars
  PROVE  /\ UNCHANGED <<wires, reader>>
         /\ pump'.on = pump.on /\ pump'.sent = pump.sent
<1>1. CASE Commit \/ SendEphemeral \/ Evict \/ UNCHANGED vars
  BY <1>1 DEF Commit, SendEphemeral, Evict, vars, server, wires
<1>2. CASE PumpDropEphemeral
  BY <1>2, NextOfType DEF PumpDropEphemeral, TypeInv
<1>3. CASE PumpReceive
  BY <1>3 DEF PumpReceive, TypeInv, Pumps
<1> QED
  BY <1>1, <1>2, <1>3

(* Every step keeps Knows. *)
LEMMA KnowsStep == TypeInv /\ Knows /\ [Next]_vars => Knows'
<1> SUFFICES ASSUME TypeInv, Knows, [Next]_vars PROVE Knows'
  OBVIOUS
<1> USE DEF session, server, wires
<1>1. CASE Commit \/ SendEphemeral \/ Evict \/ PumpDropEphemeral \/ PumpReceive \/ UNCHANGED vars
  BY <1>1, QuietSteps DEF Knows, TypeInv
<1>4. CASE Restart
  BY <1>4, DropRange DEF Restart, Knows, TypeInv, Readers
<1>5. CASE AnswerSnapshot
  <2>1. Range(toReader') = Range(toReader) \cup {Frame("ui_snapshot", cursor)}
    BY <1>5, PushReader DEF AnswerSnapshot, TypeInv, Types
  <2>2. Range(toServer') \subseteq Range(toServer) /\ reader' = reader /\ pump' = pump
    BY <1>5, PopServer DEF AnswerSnapshot
  <2> QED
    BY <2>1, <2>2 DEF Frame, Knows
<1>6. CASE Subscribe
  <2>1. Head(toServer) \in Range(toServer) /\ Range(toServer') \subseteq Range(toServer)
       /\ Head(toServer).n \in Nat
    BY <1>6, PopServer DEF Subscribe
  <2>2. reader.cursor # None /\ reader' = reader
    BY <1>6, <2>1 DEF Subscribe, Knows
  <2> QED
    BY <2>1, <2>2 DEF Knows
<1>7. CASE ReadCredit
  <2>1. reader.cursor # None /\ reader' = reader
    BY <1>7 DEF ReadCredit, Knows
  <2> QED
    BY <2>1 DEF Knows
<1>8. CASE PumpSend \/ PumpOverflow
  BY <1>8 DEF PumpSend, PumpOverflow, Knows
<1>12. CASE Connect
  BY <1>12, RangeSmall DEF Connect, TypeInv, Readers, Knows, Frame
<1>13. CASE Break
  BY <1>13, RecoverKnows DEF Break
<1>14. CASE ReceiveError
  BY <1>14, RecoverKnows DEF ReceiveError
<1>15. CASE ReceiveSnapshot
  <2>1. Head(toReader).n \in Nat
    BY <1>15, PopReader DEF ReceiveSnapshot, Receiving
  <2>2. reader'.cursor # None
    BY <1>15, <2>1, ConstantsAssumption DEF ReceiveSnapshot, TypeInv, Readers
  <2> QED
    BY <2>2 DEF Knows
<1>16. CASE ReceiveSubscribed
  <2>1. CASE Head(toReader).n > reader.cursor + 1
    BY <1>16, <2>1, RecoverKnows DEF ReceiveSubscribed
  <2>2. CASE ~(Head(toReader).n > reader.cursor + 1)
    <3>1. reader.cursor # None /\ reader'.cursor = reader.cursor
      BY <1>16, <2>2, PopReader DEF ReceiveSubscribed, Receiving, TypeInv, Readers, Knows
    <3> QED
      BY <3>1 DEF Knows
  <2> QED
    BY <2>1, <2>2
<1>17. CASE ReceiveEvent
  <2>1. CASE Head(toReader).n > reader.cursor + 1
    BY <1>17, <2>1, RecoverKnows DEF ReceiveEvent
  <2>2. CASE ~(Head(toReader).n > reader.cursor + 1)
    <3>1. reader.cursor # None /\ reader'.cursor = reader.cursor
      BY <1>17, <2>2, PopReader DEF ReceiveEvent, Receiving, TypeInv, Readers, Knows
    <3> QED
      BY <3>1 DEF Knows
  <2> QED
    BY <2>1, <2>2
<1>18. CASE Advance
  BY <1>18 DEF Advance, TypeInv, Readers, Knows
<1>19. CASE Acknowledge
  <2>1. reader.cursor # None /\ reader'.cursor = reader.cursor
    BY <1>19 DEF Acknowledge, TypeInv, Readers, Knows
  <2> QED
    BY <2>1 DEF Knows
<1> QED
  BY <1>1, <1>4, <1>5, <1>6, <1>7, <1>8, <1>12, <1>13,
     <1>14, <1>15, <1>16, <1>17, <1>18, <1>19
  DEF Next, Session, Server, Receive

(* Every step keeps the view a prefix: the reader applies the event after its *)
(* cursor, and the projector has let through at least as many.                *)
LEMMA AppliedStep == TypeInv /\ Knows /\ Applied /\ ViewIsPrefix /\ [Next]_vars
                     => Applied' /\ ViewIsPrefix'
<1> SUFFICES ASSUME TypeInv, Knows, Applied, ViewIsPrefix, [Next]_vars
             PROVE  Applied' /\ ViewIsPrefix'
  OBVIOUS
<1> USE DEF session, server, wires
<1>1. ASSUME UNCHANGED <<reader, view>>
     PROVE  Applied' /\ ViewIsPrefix'
  BY <1>1 DEF Applied, ViewIsPrefix
<1>2. ASSUME NEW reset, Recover(reset)
     PROVE  Applied' /\ ViewIsPrefix'
  BY <1>2 DEF Recover, Applied, ViewIsPrefix, TypeInv, Readers
<1>3. CASE Session
  <2>1. CASE Restart
    BY <2>1 DEF Restart, Applied, ViewIsPrefix, TypeInv, Readers
  <2>2. CASE ~Restart
    BY <1>3, <2>2, <1>1 DEF Session, Commit, SendEphemeral, Evict
  <2> QED
    BY <2>1, <2>2
<1>4. CASE Server
  BY <1>4, <1>1 DEF Server, AnswerSnapshot, Subscribe, ReadCredit, PumpSend, PumpDropEphemeral,
     PumpReceive, PumpOverflow
<1>5. CASE Connect
  BY <1>5 DEF Connect, Applied, ViewIsPrefix, TypeInv, Readers
<1>6. CASE Break
  BY <1>6, <1>2 DEF Break
<1>7. CASE ReceiveError
  BY <1>7, <1>2 DEF ReceiveError
<1>8. CASE ReceiveSnapshot
  <2>1. Head(toReader).n \in Nat
    BY <1>8, PopReader DEF ReceiveSnapshot, Receiving
  <2>2. ViewIsPrefix' /\ Len(view') = Head(toReader).n
    BY <1>8, <2>1, UpToType DEF ReceiveSnapshot, ViewIsPrefix
  <2>3. Applied'
    BY <1>8, <2>1, <2>2 DEF ReceiveSnapshot, Receiving, Applied, TypeInv, Readers
  <2> QED
    BY <2>2, <2>3
<1>9. CASE ReceiveSubscribed
  <2>1. CASE Head(toReader).n > reader.cursor + 1
    BY <1>9, <2>1, <1>2 DEF ReceiveSubscribed
  <2>2. CASE ~(Head(toReader).n > reader.cursor + 1)
    BY <1>9, <2>2 DEF ReceiveSubscribed, Applied, ViewIsPrefix, TypeInv, Readers
  <2> QED
    BY <2>1, <2>2
<1>10. CASE ReceiveEvent
  <2> DEFINE n == Head(toReader).n
  <2>1. CASE n > reader.cursor + 1
    BY <1>10, <2>1, <1>2 DEF ReceiveEvent
  <2>2. CASE ~(n > reader.cursor + 1) /\ n = reader.cursor + 1
    <3>1. n \in Nat /\ reader.cursor \in Nat
      <4>1. Head(toReader) \in Range(toReader) /\ n \in Nat
        <5>1. toReader # <<>> /\ toReader' = Tail(toReader)
          BY <1>10, <2>2 DEF ReceiveEvent, Receiving
        <5> QED
          BY <5>1, PopReader
      <4>2. reader.cursor # None
        BY <1>10, <4>1 DEF ReceiveEvent, Receiving, Knows
      <4> QED
        BY <4>1, <4>2 DEF TypeInv, Readers
    <3>2. Project(n) /\ reader' = [reader EXCEPT !.applying = n]
      BY <1>10, <2>2, <3>1 DEF ReceiveEvent
    <3>6. reader.cursor <= Len(view) /\ Len(view) \in Nat
      BY <3>1, ConstantsAssumption DEF Applied, TypeInv
    <3>5. n <= Len(view) + 1
      BY <2>2, <3>1, <3>6
    <3>3. ViewIsPrefix' /\ Len(view') >= Len(view) /\ n <= Len(view')
      BY <3>1, <3>2, <3>5, ProjectType DEF TypeInv
    <3>4. Len(view) \in Nat /\ Len(view') \in Nat
      BY <3>1, <3>2, ProjectType DEF TypeInv
    <3> HIDE DEF n
    <3> QED
      BY <3>1, <3>2, <3>3, <3>4 DEF Applied, TypeInv, Readers
  <2>3. CASE ~(n > reader.cursor + 1) /\ n # reader.cursor + 1
    BY <1>10, <2>3, <1>1 DEF ReceiveEvent
  <2> QED
    BY <2>1, <2>2, <2>3
<1>11. CASE Advance
  BY <1>11 DEF Advance, Applied, ViewIsPrefix, TypeInv, Readers
<1>12. CASE Acknowledge
  BY <1>12 DEF Acknowledge, Applied, ViewIsPrefix, TypeInv, Readers
<1>13. CASE UNCHANGED vars
  BY <1>13, <1>1 DEF vars
<1> QED
  BY <1>3, <1>4, <1>5, <1>6, <1>7, <1>8, <1>9, <1>10, <1>11, <1>12, <1>13 DEF Next, Receive

(* A subscription is under way: no question and no snapshot is. *)
Talking ==
  /\ \A f \in Range(toServer) : f.type = "credit"
  /\ \A f \in Range(toReader) : f.type # "ui_snapshot"

(* A subscribed reader has asked all its questions. *)
LEMMA OnlyTalk == Handshake /\ (~Quiet \/ reader.state # "open") => Talking
BY DEF Handshake, Talking

(* A subscription that is under way satisfies Handshake. *)
LEMMA StillTalking == Talking' /\ reader'.state # "closed" => Handshake'
BY DEF Handshake, Talking

(* Sequences of one element. *)
LEMMA HeadOfOne == \A f : Head(<<f>>) = f /\ Tail(<<f>>) = <<>> /\ Append(<<>>, f) = <<f>>
OBVIOUS

(* Every step keeps Handshake. *)
LEMMA HandshakeStep == TypeInv /\ Knows /\ Handshake /\ [Next]_vars => Handshake'
<1> SUFFICES ASSUME TypeInv, Knows, Handshake, [Next]_vars PROVE Handshake'
  OBVIOUS
<1> USE DEF session, server, wires
<1>1. CASE Commit \/ SendEphemeral \/ Evict \/ PumpDropEphemeral \/ PumpReceive \/ UNCHANGED vars
  BY <1>1, QuietSteps DEF Handshake, Quiet
<1>2. CASE Restart
  BY <1>2, DropRange DEF Restart, Handshake, Quiet, TypeInv, Readers
<1>3. CASE AnswerSnapshot
  <2> DEFINE f == Head(toServer)
  <2>1. f \in Range(toServer) /\ f.type # "credit"
    BY <1>3, PopServer DEF AnswerSnapshot
  <2>2. Quiet /\ reader.state = "open" /\ toServer = <<f>> /\ toReader = <<>>
    BY <2>1 DEF Handshake
  <2>3. toServer' = <<>> /\ toReader' = <<Frame("ui_snapshot", cursor)>> /\ Quiet'
       /\ reader' = reader
    BY <1>3, <2>2 DEF AnswerSnapshot, Quiet
  <2> QED
    BY <2>2, <2>3, RangeSmall DEF Handshake
<1>4. CASE Subscribe
  <2> DEFINE f == Head(toServer)
  <2>1. f \in Range(toServer) /\ f.type # "credit"
    BY <1>4, PopServer DEF Subscribe
  <2>2. Quiet /\ reader.state = "open" /\ toServer = <<f>> /\ toReader = <<>>
    BY <2>1 DEF Handshake
  <2>3. toServer' = <<>> /\ reader' = reader
    BY <1>4, <2>2 DEF Subscribe
  <2>4. \/ toReader' = <<Frame("INVALID_COMMAND", 0)>>
       \/ toReader' = <<Frame("CURSOR_EXPIRED", 0)>>
       \/ toReader' = <<Frame("snapshot", retained)>>
    BY <1>4, <2>2 DEF Subscribe, Refuse, Accept
  <2>5. \A g \in Range(toReader') : g.type # "ui_snapshot"
    BY <2>4, RangeSmall DEF Frame
  <2> QED
    BY <2>2, <2>3, <2>5, RangeSmall DEF Handshake
<1>5. CASE ReadCredit
  <2>1. Talking /\ reader.state # "closed"
    BY <1>5, OnlyTalk DEF ReadCredit, Quiet, Handshake
  <2>2. Range(toServer') \subseteq Range(toServer) /\ reader' = reader
    BY <1>5, PopServer DEF ReadCredit
  <2>3. \/ toReader' = toReader
       \/ Range(toReader') = Range(toReader) \cup {Frame("INVALID_CREDIT", 0)}
    BY <1>5, PushReader DEF ReadCredit, Refuse, Types, OtherCodes
  <2> QED
    BY <2>1, <2>2, <2>3, StillTalking DEF Talking, Frame
<1>6. CASE PumpSend
  <2>1. Talking /\ reader.state # "closed"
    BY <1>6, OnlyTalk DEF PumpSend, Quiet, Handshake
  <2>2. Range(toReader') = Range(toReader) \cup {Frame("event", pump.pending)}
    BY <1>6, PushReader DEF PumpSend, TypeInv, Pumps, Types
  <2> QED
    BY <1>6, <2>1, <2>2, StillTalking DEF Talking, Frame, PumpSend
<1>7. CASE PumpOverflow
  <2>1. Talking /\ reader.state # "closed"
    BY <1>7, OnlyTalk DEF PumpOverflow, Quiet, Handshake
  <2>2. Range(toReader') = Range(toReader) \cup {Frame("RESYNC_REQUIRED", 0)}
    BY <1>7, PushReader DEF PumpOverflow, Types, ResetCodes
  <2> QED
    BY <1>7, <2>1, <2>2, StillTalking DEF Talking, Frame, PumpOverflow
<1>8. CASE Connect
  BY <1>8, RangeSmall DEF Connect, Handshake, Quiet, TypeInv, Readers, Frame
<1>9. CASE Break
  BY <1>9, RecoverKnows DEF Break
<1>10. CASE ReceiveError
  BY <1>10, RecoverKnows DEF ReceiveError
<1>11. CASE ReceiveSnapshot
  <2> DEFINE f == Head(toReader)
  <2>1. f \in Range(toReader) /\ f.type = "ui_snapshot" /\ f.n \in Nat
    BY <1>11, PopReader DEF ReceiveSnapshot, Receiving
  <2>2. Quiet /\ reader.state = "open" /\ toServer = <<>> /\ toReader = <<f>>
    BY <2>1 DEF Handshake
  <2>3. toReader' = <<>> /\ toServer' = <<Frame("subscribe", f.n)>> /\ pump' = pump
    <3>1. toReader' = Tail(toReader) /\ toServer' = Append(toServer, Frame("subscribe", f.n))
         /\ pump' = pump
      BY <1>11 DEF ReceiveSnapshot
    <3> HIDE DEF f
    <3> QED
      BY <2>2, <3>1, HeadOfOne
  <2>4. reader'.state = "open" /\ reader'.cursor = f.n /\ reader'.applying = None
    BY <1>11, <2>2 DEF ReceiveSnapshot, TypeInv, Readers, Quiet
  <2> QED
    BY <2>2, <2>3, <2>4, RangeSmall DEF Handshake, Quiet, Frame
<1>12. CASE ReceiveSubscribed
  <2>1. CASE Head(toReader).n > reader.cursor + 1
    BY <1>12, <2>1, RecoverKnows DEF ReceiveSubscribed
  <2>2. CASE ~(Head(toReader).n > reader.cursor + 1)
    <3>1. /\ Range(toReader') \subseteq Range(toReader) /\ Head(toReader) \in Range(toReader)
          /\ Head(toReader).type # "ui_snapshot" /\ toReader # <<>>
          /\ toServer' = toServer
      BY <1>12, <2>2, PopReader DEF ReceiveSubscribed, Receiving
    <3>2. Talking /\ reader.state # "closed"
      BY <3>1, HeadOfOne DEF Handshake, Talking
    <3>3. reader'.state # "closed"
      BY <1>12, <2>2, <3>2 DEF ReceiveSubscribed, TypeInv, Readers
    <3> QED
      BY <3>1, <3>2, <3>3, StillTalking DEF Talking
  <2> QED
    BY <2>1, <2>2
<1>13. CASE ReceiveEvent
  <2>1. CASE Head(toReader).n > reader.cursor + 1
    BY <1>13, <2>1, RecoverKnows DEF ReceiveEvent
  <2>2. CASE ~(Head(toReader).n > reader.cursor + 1)
    <3>1. /\ Range(toReader') \subseteq Range(toReader) /\ Head(toReader) \in Range(toReader)
          /\ Head(toReader).type # "ui_snapshot" /\ toReader # <<>>
          /\ toServer' = toServer
      BY <1>13, <2>2, PopReader DEF ReceiveEvent, Receiving
    <3>2. Talking /\ reader.state # "closed"
      BY <3>1, HeadOfOne DEF Handshake, Talking
    <3>3. reader'.state # "closed"
      BY <1>13, <2>2, <3>2 DEF ReceiveEvent, TypeInv, Readers
    <3> QED
      BY <3>1, <3>2, <3>3, StillTalking DEF Talking
  <2> QED
    BY <2>1, <2>2
<1>14. CASE Advance
  <2>1. Talking /\ reader.state # "closed"
    BY <1>14, OnlyTalk DEF Advance, Quiet, Handshake
  <2>2. reader'.state = reader.state /\ UNCHANGED wires
    BY <1>14 DEF Advance, TypeInv, Readers
  <2> QED
    BY <2>1, <2>2, StillTalking DEF Talking
<1>15. CASE Acknowledge
  <2>1. Talking
    BY <1>15, OnlyTalk DEF Acknowledge
  <2>2. reader'.state = "live" /\ toReader' = toReader /\ reader.cursor \in Nat
    BY <1>15 DEF Acknowledge, TypeInv, Readers, Knows
  <2>3. Range(toServer') = Range(toServer) \cup {Frame("credit", reader.cursor)}
    BY <1>15, <2>2, PushServer DEF Acknowledge
  <2> QED
    BY <2>1, <2>2, <2>3, StillTalking DEF Talking, Frame
<1> QED
  BY <1>1, <1>2, <1>3, <1>4, <1>5, <1>6, <1>7, <1>8, <1>9, <1>10, <1>11, <1>12, <1>13,
     <1>14, <1>15
  DEF Next, Session, Server, Receive

(* A new event goes to the end of the mailbox, or nowhere. *)
LEMMA FanOutMail ==
  ASSUME channel \in Channels, NEW e \in Nat, FanOut(e)
  PROVE  \A i \in 1 .. Len(channel'.mail) :
           \/ i \in 1 .. Len(channel.mail) /\ channel'.mail[i] = channel.mail[i]
           \/ i = Len(channel.mail) + 1 /\ channel'.mail[i] = e
<1>1. channel.mail \in Seq(Nat)
  BY DEF Channels
<1>2. \/ channel'.mail = channel.mail
     \/ channel'.mail = Append(channel.mail, e)
  BY DEF FanOut, Channels
<1> QED
  BY <1>1, <1>2, AppendProperties

(* The tail of consecutive events is consecutive. *)
LEMMA Shifted ==
  ASSUME NEW k \in Nat, NEW s \in Seq(Nat), s # <<>>, \A i \in 1 .. Len(s) : s[i] = k + i
  PROVE  /\ Head(s) = k + 1
         /\ Len(s) \in Nat \ {0} /\ Len(Tail(s)) = Len(s) - 1
         /\ \A i \in 1 .. Len(Tail(s)) : Tail(s)[i] = k + 1 + i
<1>1. /\ Tail(s) \in Seq(Nat) /\ Len(Tail(s)) = Len(s) - 1 /\ Len(s) \in Nat \ {0}
      /\ \A i \in 1 .. Len(Tail(s)) : Tail(s)[i] = s[i + 1]
      /\ Head(s) = s[1]
  BY HeadTailProperties, EmptySeq
<1>2. ASSUME NEW i \in 1 .. Len(Tail(s))
     PROVE  Tail(s)[i] = k + 1 + i
  <2>1. i + 1 \in 1 .. Len(s)
    BY <1>1
  <2>2. s[i + 1] = k + (i + 1)
    BY <2>1
  <2> QED
    BY <1>1, <2>2
<1> QED
  BY <1>1, <1>2

(* NextOf keeps the order. *)
LEMMA NextOfFeed ==
  ASSUME NEW p \in Pumps, InOrder(p)
  PROVE  /\ InOrder(NextOf(p))
         /\ NextOf(p).pending # None =>
              /\ p.pending \in Nat \ {0} /\ NextOf(p).pending = p.pending + 1
              /\ NextOf(p).pending + Len(NextOf(p).backlog) = p.pending + Len(p.backlog)
<1>1. CASE p.backlog = <<>>
  <2>1. NextOf(p).pending = None /\ NextOf(p).backlog = <<>>
    BY <1>1, NextOfPending, NextOfBacklog
  <2> QED
    BY <2>1 DEF InOrder
<1>2. CASE p.backlog # <<>>
  <2>1. p.backlog \in Seq(Nat) /\ p.pending \in Nat \ {0}
       /\ \A i \in 1 .. Len(p.backlog) : p.backlog[i] = p.pending + i
    BY <1>2 DEF Pumps, InOrder, Ephemeral
  <2>2. NextOf(p).pending = Head(p.backlog) /\ NextOf(p).backlog = Tail(p.backlog)
    BY <1>2, NextOfPending, NextOfBacklog
  <2>3. /\ NextOf(p).pending = p.pending + 1
        /\ Len(p.backlog) \in Nat \ {0} /\ Len(NextOf(p).backlog) = Len(p.backlog) - 1
        /\ \A i \in 1 .. Len(NextOf(p).backlog) : NextOf(p).backlog[i] = p.pending + 1 + i
    BY <1>2, <2>1, <2>2, Shifted
  <2>4. NextOf(p).pending + Len(NextOf(p).backlog) = p.pending + Len(p.backlog)
    BY <2>1, <2>3
  <2>5. InOrder(NextOf(p))
    BY <2>1, <2>3, ConstantsAssumption DEF InOrder, Ephemeral
  <2> QED
    BY <2>1, <2>3, <2>4, <2>5
<1> QED
  BY <1>1, <1>2

(* An empty sequence has no element. *)
LEMMA EmptyMail == \A s : s = <<>> => \A i \in 1 .. Len(s) : FALSE
OBVIOUS

(* What a subscription starts with. *)
LEMMA AcceptPump ==
  ASSUME NEW after, NEW s, s = Backlog(after), Accept(after)
  PROVE  /\ channel'.mail = <<>> /\ pump'.sent = after
         /\ pump'.pending = IF s = <<>> THEN None ELSE Head(s)
         /\ pump'.backlog = IF s = <<>> THEN <<>> ELSE Tail(s)
BY DEF Accept

(* The replayed events start after the reader's cursor and reach to the last *)
(* event of the session.                                                     *)
LEMMA AcceptFeed ==
  ASSUME TypeInv, NEW after \in Nat, after <= cursor, Accept(after)
  PROVE  /\ channel'.mail = <<>> /\ pump'.sent = after
         /\ InOrder(pump')
         /\ pump'.pending # None => pump'.pending \in Nat /\ pump'.pending > after
                                   /\ pump'.pending + Len(pump'.backlog) = cursor
<1>1. PICK n \in Nat : n = Later(after, first - 1) /\ n >= after
  BY DEF Later, TypeInv
<1>2. PICK s \in Seq(Nat) :
        /\ s = Backlog(after)
        /\ Len(s) = IF n <= cursor THEN cursor - n ELSE 0
        /\ \A i \in 1 .. Len(s) : s[i] = n + i
  BY <1>1, SinceType DEF Backlog, TypeInv
<1>3. /\ channel'.mail = <<>> /\ pump'.sent = after
      /\ pump'.pending = IF s = <<>> THEN None ELSE Head(s)
      /\ pump'.backlog = IF s = <<>> THEN <<>> ELSE Tail(s)
  BY <1>2, AcceptPump
<1>4. CASE s = <<>>
  <2>1. pump'.backlog = <<>> /\ pump'.pending = None
    BY <1>3, <1>4
  <2>2. \A i \in 1 .. Len(pump'.backlog) : FALSE
    BY <2>1, EmptyMail
  <2> QED
    BY <1>3, <2>1, <2>2 DEF InOrder
<1>5. CASE s # <<>>
  <2>1. pump'.pending = Head(s) /\ pump'.backlog = Tail(s)
    BY <1>3, <1>5
  <2>2. /\ pump'.pending = n + 1
        /\ Len(s) \in Nat \ {0} /\ Len(pump'.backlog) = Len(s) - 1
        /\ \A i \in 1 .. Len(pump'.backlog) : pump'.backlog[i] = n + 1 + i
    BY <1>2, <1>5, <2>1, Shifted
  <2>3. pump'.pending + Len(pump'.backlog) = cursor
    BY <1>1, <1>2, <2>2 DEF TypeInv
  <2>4. InOrder(pump')
    BY <1>1, <2>2, ConstantsAssumption DEF InOrder, Ephemeral
  <2> QED
    BY <1>1, <1>3, <2>2, <2>3, <2>4
<1> QED
  BY <1>4, <1>5

(* The next pending event exists. *)
LEMMA NextFeedBehind ==
  ASSUME TypeInv, Behind, Ascending
  PROVE  LET q == NextOf(pump) IN q.pending # None => q.pending + Len(q.backlog) <= cursor
BY NextOfFeed, ConstantsAssumption DEF TypeInv, Behind, Ascending

(* Every step keeps Behind. *)
LEMMA BehindStep ==
  TypeInv /\ Knows /\ Handshake /\ Behind /\ Ascending /\ [Next]_vars => Behind'
<1> SUFFICES ASSUME TypeInv, Knows, Handshake, Behind, Ascending, [Next]_vars PROVE Behind'
  OBVIOUS
<1> USE DEF session, server, wires
<1>0. ASSUME UNCHANGED <<channel, pump, cursor>>,
            reader'.cursor = None \/ (reader'.cursor \in Nat /\ reader'.cursor <= cursor),
            reader'.applying = None \/ (reader'.applying \in Nat /\ reader'.applying <= cursor),
            \A f \in Range(toReader') : f.type \in {"ui_snapshot", "event"} => f.n <= cursor
     PROVE  Behind'
  BY <1>0 DEF Behind
<1>1. ASSUME NEW reset, Recover(reset), cursor' = cursor
     PROVE  Behind'
  BY <1>1, DropRange DEF Recover, Behind, TypeInv, Readers
<1>2. CASE Commit
  <2>1. /\ cursor' \in Nat /\ cursor' = cursor + 1 /\ FanOut(cursor')
        /\ UNCHANGED <<pump, reader, toReader>>
    BY <1>2 DEF Commit, TypeInv
  <2>2. channel.mail \in Seq(Nat)
    BY DEF TypeInv, Channels
  <2>3. \A i \in 1 .. Len(channel'.mail) : channel'.mail[i] <= cursor'
    <3> TAKE i \in 1 .. Len(channel'.mail)
    <3>1. CASE i \in 1 .. Len(channel.mail) /\ channel'.mail[i] = channel.mail[i]
      <4>1. channel.mail[i] \in Nat /\ channel.mail[i] <= cursor
        BY <2>2, <3>1, ElementOfSeq DEF Behind
      <4> QED
        BY <2>1, <3>1, <4>1 DEF TypeInv
    <3>2. CASE channel'.mail[i] = cursor'
      BY <2>1, <3>2
    <3> QED
      BY <2>1, <3>1, <3>2, FanOutMail DEF TypeInv
  <2>4. /\ reader.cursor \in Nat \cup {None} /\ reader.applying \in Nat \cup {None}
        /\ pump.sent \in Nat
        /\ pump.pending \in Nat \cup {None} /\ Len(pump.backlog) \in Nat /\ cursor \in Nat
    BY DEF TypeInv, Pumps, Readers
  <2>5. \A f \in Range(toReader) : f.type \in {"ui_snapshot", "event"} => f.n <= cursor'
    <3> TAKE f \in Range(toReader)
    <3>1. f.n \in Nat
      BY RangeType DEF TypeInv, Entry
    <3> QED
      BY <2>1, <2>4, <3>1 DEF Behind
  <2>6. /\ pump.sent <= cursor'
        /\ pump.pending # None => pump.pending + Len(pump.backlog) <= cursor'
        /\ reader.cursor # None => reader.cursor <= cursor'
        /\ reader.applying # None => reader.applying <= cursor'
    BY <2>1, <2>4 DEF Behind
  <2>7. UNCHANGED <<pump, reader, toReader>>
    BY <2>1
  <2> QED
    BY <2>3, <2>5, <2>6, <2>7 DEF Behind
<1>3. CASE SendEphemeral
  <2>1. FanOut(0) /\ UNCHANGED <<cursor, pump, reader, toReader>>
    BY <1>3 DEF SendEphemeral, Ephemeral
  <2>2. ASSUME NEW i \in 1 .. Len(channel'.mail)
        PROVE  channel'.mail[i] <= cursor
    <3>1. CASE i \in 1 .. Len(channel.mail) /\ channel'.mail[i] = channel.mail[i]
      BY <3>1 DEF Behind
    <3>2. CASE channel'.mail[i] = 0
      BY <3>2 DEF TypeInv
    <3> QED
      BY <2>1, <3>1, <3>2, FanOutMail DEF TypeInv
  <2> QED
    BY <2>1, <2>2 DEF Behind
<1>4. CASE Evict
  BY <1>4 DEF Evict, Behind
<1>5. CASE Restart
  BY <1>5, DropRange DEF Restart, Behind, TypeInv, Readers
<1>6. CASE AnswerSnapshot
  <2>1. Range(toReader') = Range(toReader) \cup {Frame("ui_snapshot", cursor)}
    BY <1>6, PushReader DEF AnswerSnapshot, TypeInv, Types
  <2> QED
    BY <1>6, <2>1, <1>0 DEF AnswerSnapshot, Behind, Frame, TypeInv, Readers
<1>7. CASE Subscribe
  <2> DEFINE after == Head(toServer).n
  <2>1. after \in Nat
    BY <1>7, PopServer DEF Subscribe
  <2>2. UNCHANGED <<cursor, reader>>
    BY <1>7 DEF Subscribe
  <2>3. \A f \in Range(toReader') : f.type \in {"ui_snapshot", "event"} => f.n <= cursor
    <3>1. \E t \in Types \ {"ui_snapshot", "event"}, n \in Nat :
            toReader' = Append(toReader, Frame(t, n))
      BY <1>7, <2>1 DEF Subscribe, Refuse, Accept, Types, ResetCodes, OtherCodes, TypeInv
    <3> QED
      BY <3>1, PushReader DEF Frame, Behind
  <2>4. CASE after <= cursor /\ Accept(after)
    <3>1. /\ channel'.mail = <<>> /\ pump'.sent = after
          /\ pump'.pending # None => pump'.pending + Len(pump'.backlog) <= cursor
      BY <2>1, <2>4, AcceptFeed DEF TypeInv
    <3> QED
      BY <2>2, <2>3, <2>4, <3>1, EmptyMail DEF Behind
  <2>5. CASE UNCHANGED server
    BY <2>2, <2>3, <2>5 DEF Behind
  <2> HIDE DEF after
  <2>6. (after <= cursor /\ Accept(after)) \/ UNCHANGED server
    BY <1>7, <2>1 DEF Subscribe, Refuse, after, TypeInv
  <2> QED
    BY <2>4, <2>5, <2>6
<1>8. CASE ReadCredit
  <2>1. UNCHANGED <<cursor, reader, channel>>
    BY <1>8 DEF ReadCredit, Refuse
  <2>2. \/ toReader' = toReader
       \/ Range(toReader') = Range(toReader) \cup {Frame("INVALID_CREDIT", 0)}
    BY <1>8, PushReader DEF ReadCredit, Refuse, Types, OtherCodes
  <2>3. pump'.sent = pump.sent /\ pump'.pending = pump.pending /\ pump'.backlog = pump.backlog
    BY <1>8 DEF ReadCredit, Refuse, TypeInv, Pumps
  <2> QED
    BY <2>1, <2>2, <2>3 DEF Behind, Frame
<1>9. CASE PumpSend
  <2>1. pump.pending \in Nat /\ pump.pending <= cursor /\ UNCHANGED <<cursor, reader, channel>>
    BY <1>9 DEF PumpSend, TypeInv, Pumps, Behind
  <2>2. Range(toReader') = Range(toReader) \cup {Frame("event", pump.pending)}
    BY <1>9, <2>1, PushReader DEF PumpSend, Types
  <2>3. pump'.sent \in {pump.sent, pump.pending}
       /\ pump'.pending = NextOf(pump).pending /\ pump'.backlog = NextOf(pump).backlog
    BY <1>9, NextOfType DEF PumpSend, TypeInv, Pumps
  <2> QED
    BY <2>1, <2>2, <2>3, NextFeedBehind DEF Behind, Frame
<1>10. CASE PumpDropEphemeral
  <2>1. /\ pump'.sent = pump.sent /\ pump' = NextOf(pump)
        /\ UNCHANGED <<cursor, reader, channel, toReader>>
    BY <1>10, NextOfType DEF PumpDropEphemeral, TypeInv
  <2> QED
    BY <2>1, NextFeedBehind DEF Behind
<1>11. CASE PumpReceive
  <2> DEFINE m == channel.mail
  <2>1. /\ m \in Seq(Nat) /\ Tail(m) \in Seq(Nat)
        /\ Len(Tail(m)) = Len(m) - 1 /\ Len(m) \in Nat \ {0}
        /\ \A i \in 1 .. Len(Tail(m)) : Tail(m)[i] = m[i + 1]
        /\ Head(m) = m[1]
    BY <1>11, HeadTailProperties, EmptySeq DEF PumpReceive, TypeInv, Channels
  <2>2. pump'.sent = pump.sent /\ pump'.pending = Head(m) /\ pump'.backlog = <<>>
       /\ channel'.mail = Tail(m) /\ UNCHANGED <<cursor, reader, toReader>>
    BY <1>11 DEF PumpReceive, TypeInv, Pumps, Channels, Ascending, InOrder
  <2>3. \A i \in 1 .. Len(m) : m[i] <= cursor
    BY DEF Behind
  <2>4. Head(m) <= cursor /\ Head(m) \in Nat /\ \A i \in 1 .. Len(Tail(m)) : Tail(m)[i] <= cursor
    BY <2>1, <2>3
  <2> QED
    BY <2>2, <2>4 DEF Behind
<1>12. CASE PumpOverflow
  <2>1. Range(toReader') = Range(toReader) \cup {Frame("RESYNC_REQUIRED", 0)}
    BY <1>12, PushReader DEF PumpOverflow, Types, ResetCodes
  <2> QED
    BY <1>12, <2>1 DEF PumpOverflow, Behind, Frame, NoPump, TypeInv
<1>13. CASE Connect
  BY <1>13, <1>0 DEF Connect, Behind, TypeInv, Readers
<1>14. CASE Break
  BY <1>14, <1>1 DEF Break
<1>15. CASE ReceiveError
  BY <1>15, <1>1 DEF ReceiveError, Receiving
<1>16. CASE ReceiveSnapshot
  <2> DEFINE f == Head(toReader)
  <2>1. f \in Range(toReader) /\ Range(toReader') \subseteq Range(toReader)
       /\ f.n \in Nat /\ f.n <= cursor
    BY <1>16, PopReader DEF ReceiveSnapshot, Receiving, Behind
  <2>2. UNCHANGED <<channel, pump, cursor>> /\ reader'.cursor = f.n
       /\ reader'.applying = reader.applying
    BY <1>16 DEF ReceiveSnapshot, Receiving, TypeInv, Readers
  <2> QED
    BY <2>1, <2>2 DEF Behind
<1>17. CASE ReceiveSubscribed
  <2>1. CASE Head(toReader).n > reader.cursor + 1
    BY <1>17, <2>1, <1>1 DEF ReceiveSubscribed, Receiving
  <2>2. CASE ~(Head(toReader).n > reader.cursor + 1)
    <3>1. Range(toReader') \subseteq Range(toReader) /\ UNCHANGED <<channel, pump, cursor>>
      BY <1>17, <2>2, PopReader DEF ReceiveSubscribed, Receiving
    <3>2. reader'.cursor = reader.cursor /\ reader'.applying = reader.applying
      BY <1>17, <2>2 DEF ReceiveSubscribed, TypeInv, Readers
    <3> QED
      BY <3>1, <3>2 DEF Behind
  <2> QED
    BY <2>1, <2>2
<1>18. CASE ReceiveEvent
  <2>1. CASE Head(toReader).n > reader.cursor + 1
    BY <1>18, <2>1, <1>1 DEF ReceiveEvent, Receiving
  <2>2. CASE ~(Head(toReader).n > reader.cursor + 1)
    <3>1. /\ Range(toReader') \subseteq Range(toReader) /\ UNCHANGED <<channel, pump, cursor>>
          /\ Head(toReader) \in Range(toReader) /\ Head(toReader).type = "event"
      BY <1>18, <2>2, PopReader DEF ReceiveEvent, Receiving
    <3>2. Head(toReader).n <= cursor
      BY <3>1 DEF Behind
    <3>3. reader'.cursor = reader.cursor
         /\ reader'.applying \in {reader.applying, Head(toReader).n}
      BY <1>18, <2>2 DEF ReceiveEvent, TypeInv, Readers
    <3> QED
      BY <3>1, <3>2, <3>3 DEF Behind
  <2> QED
    BY <2>1, <2>2
<1>19. CASE Advance
  BY <1>19, <1>0 DEF Advance, Behind, TypeInv, Readers
<1>20. CASE Acknowledge
  BY <1>20, <1>0 DEF Acknowledge, Behind, TypeInv, Readers
<1>21. CASE UNCHANGED vars
  BY <1>21 DEF vars, Behind
<1> QED
  BY <1>2, <1>3, <1>4, <1>5, <1>6, <1>7, <1>8, <1>9, <1>10, <1>11, <1>12, <1>13,
     <1>14, <1>15, <1>16, <1>17, <1>18, <1>19, <1>20, <1>21
  DEF Next, Session, Server, Receive

(* Nothing is owed on a dropped connection. *)
LEMMA DropAscending == Drop => Ascending' /\ Sent'
BY DropRange, EmptyMail DEF Ascending, Sent, InOrder, Ephemeral

(* A new event is newer than what the mailbox holds. *)
LEMMA Newest ==
  ASSUME TypeInv, Behind, Ascending, NEW e \in Nat, e = Ephemeral \/ e > cursor, FanOut(e),
         pump' = pump
  PROVE  Ascending'
<1> DEFINE m == channel.mail
<1>1. m \in Seq(Nat) /\ Len(m) \in Nat
  BY DEF TypeInv, Channels
<1>2. /\ pump.sent \in Nat /\ pump.sent <= cursor /\ cursor \in Nat
      /\ pump.pending # None => pump.pending + Len(pump.backlog) \in Nat
                                /\ pump.pending + Len(pump.backlog) <= cursor
  BY DEF TypeInv, Pumps, Behind
<1>3. ASSUME NEW i \in 1 .. Len(channel'.mail), channel'.mail[i] # Ephemeral
      PROVE  /\ channel'.mail[i] > pump.sent
             /\ pump.pending # None => channel'.mail[i] > pump.pending + Len(pump.backlog)
             /\ \A j \in 1 .. i - 1 : channel'.mail[j] < channel'.mail[i]
  <2>1. \A j \in 1 .. Len(channel'.mail) :
          \/ j \in 1 .. Len(m) /\ channel'.mail[j] = m[j]
          \/ j = Len(m) + 1 /\ channel'.mail[j] = e
    BY FanOutMail DEF TypeInv
  <2>2. Len(channel'.mail) \in Nat
    BY FanOutType DEF TypeInv, Channels
  <2>3. CASE i \in 1 .. Len(m) /\ channel'.mail[i] = m[i]
    <3>1. \A j \in 1 .. i - 1 : j \in 1 .. Len(m) /\ j # Len(m) + 1 /\ j \in 1 .. Len(channel'.mail)
      BY <1>1, <2>2, <2>3
    <3>2. \A j \in 1 .. i - 1 : channel'.mail[j] = m[j]
      BY <2>1, <3>1
    <3> QED
      BY <1>3, <2>3, <3>2 DEF Ascending
  <2>4. CASE i = Len(m) + 1 /\ channel'.mail[i] = e
    <3>1. e > cursor
      BY <1>3, <2>4
    <3>2. \A j \in 1 .. i - 1 : j \in 1 .. Len(m) /\ j # Len(m) + 1 /\ j \in 1 .. Len(channel'.mail)
      BY <1>1, <2>2, <2>4
    <3>3. \A j \in 1 .. i - 1 : channel'.mail[j] = m[j] /\ m[j] <= cursor /\ m[j] \in Nat
      BY <1>1, <2>1, <3>2, ElementOfSeq DEF Behind
    <3>4. e > pump.sent
      BY <1>2, <3>1
    <3>5. pump.pending # None => e > pump.pending + Len(pump.backlog)
      BY <1>2, <3>1
    <3>6. \A j \in 1 .. i - 1 : channel'.mail[j] < e
      BY <1>2, <3>1, <3>3
    <3> QED
      BY <2>4, <3>4, <3>5, <3>6
  <2> QED
    BY <2>1, <2>3, <2>4
<1> QED
  BY <1>3 DEF Ascending

(* Every step keeps Ascending. *)
LEMMA AscendingStep == TypeInv /\ Behind /\ Ascending /\ [Next]_vars => Ascending'
<1> SUFFICES ASSUME TypeInv, Behind, Ascending, [Next]_vars PROVE Ascending'
  OBVIOUS
<1> USE DEF session, server, wires
<1>0. ASSUME UNCHANGED server
      PROVE  Ascending'
  BY <1>0 DEF Ascending
<1>1. CASE Commit
  <2>1. cursor' \in Nat /\ cursor' > cursor /\ FanOut(cursor') /\ pump' = pump
    BY <1>1 DEF Commit, TypeInv
  <2> QED
    BY <2>1, Newest
<1>2. CASE SendEphemeral
  BY <1>2, Newest DEF SendEphemeral, Ephemeral
<1>3. CASE Restart
  BY <1>3, DropAscending DEF Restart
<1>4. CASE Evict \/ AnswerSnapshot \/ Connect \/ Advance \/ Acknowledge \/ UNCHANGED vars
  BY <1>4, <1>0 DEF Evict, AnswerSnapshot, Connect, Advance, Acknowledge, vars
<1>5. CASE Break \/ Receive
  <2>1. Drop \/ UNCHANGED server
    BY <1>5 DEF Break, Receive, ReceiveError, ReceiveSnapshot, ReceiveSubscribed, ReceiveEvent,
       Advance, Recover
  <2> QED
    BY <2>1, <1>0, DropAscending
<1>6. CASE Subscribe
  <2> DEFINE after == Head(toServer).n
  <2>1. after \in Nat
    BY <1>6, PopServer DEF Subscribe
  <2>2. (after <= cursor /\ Accept(after)) \/ UNCHANGED server
    BY <1>6, <2>1 DEF Subscribe, Refuse, TypeInv
  <2> HIDE DEF after
  <2>3. CASE after <= cursor /\ Accept(after)
    BY <2>1, <2>3, AcceptFeed, EmptyMail DEF Ascending
  <2> QED
    BY <2>2, <2>3, <1>0
<1>7. CASE ReadCredit
  <2>1. /\ pump'.sent = pump.sent /\ pump'.pending = pump.pending /\ pump'.backlog = pump.backlog
        /\ channel' = channel
    BY <1>7 DEF ReadCredit, Refuse, TypeInv, Pumps
  <2> QED
    BY <2>1 DEF Ascending, InOrder
<1>8. ASSUME pump.pending # None, channel' = channel,
             pump'.pending = NextOf(pump).pending, pump'.backlog = NextOf(pump).backlog,
             pump'.sent = IF pump.pending = Ephemeral THEN pump.sent ELSE pump.pending
      PROVE  Ascending'
  <2> DEFINE q == NextOf(pump)
  <2>1. /\ pump.sent \in Nat /\ pump.pending \in Nat /\ Len(pump.backlog) \in Nat
        /\ pump'.sent \in Nat /\ pump'.sent >= pump.sent
        /\ pump'.sent = pump.sent \/ pump'.sent = pump.pending
    BY <1>8 DEF TypeInv, Pumps, Ascending, Ephemeral
  <2>2. /\ InOrder(q)
        /\ q.pending # None => /\ pump.pending # Ephemeral /\ q.pending = pump.pending + 1
                               /\ q.pending + Len(q.backlog) = pump.pending + Len(pump.backlog)
    BY NextOfFeed DEF TypeInv, Ascending, Ephemeral
  <2> HIDE DEF q
  <2>3. /\ InOrder(pump')
        /\ pump'.pending # None =>
             /\ pump.pending # Ephemeral /\ pump'.pending = pump.pending + 1
             /\ pump'.pending + Len(pump'.backlog) = pump.pending + Len(pump.backlog)
    BY <1>8, <2>2 DEF InOrder, q
  <2>4. pump'.pending \notin {None, Ephemeral} => pump'.pending > pump'.sent
    BY <1>8, <2>1, <2>3
  <2>5. ASSUME NEW i \in 1 .. Len(channel.mail), channel.mail[i] # Ephemeral
        PROVE  /\ channel.mail[i] > pump'.sent
               /\ pump'.pending # None => channel.mail[i] > pump'.pending + Len(pump'.backlog)
    <3>1. /\ channel.mail[i] > pump.sent /\ channel.mail[i] > pump.pending + Len(pump.backlog)
          /\ channel.mail[i] \in Nat
      BY <1>8, <2>5, ElementOfSeq DEF Ascending, TypeInv, Channels
    <3> QED
      BY <2>1, <2>3, <3>1
  <2> QED
    BY <1>8, <2>3, <2>4, <2>5 DEF Ascending
<1>9. CASE PumpSend
  <2>1. /\ pump'.pending = NextOf(pump).pending /\ pump'.backlog = NextOf(pump).backlog
        /\ pump'.sent = IF pump.pending = Ephemeral THEN pump.sent ELSE pump.pending
    BY <1>9, NextOfType DEF PumpSend, TypeInv, Pumps
  <2> QED
    BY <1>9, <2>1, <1>8 DEF PumpSend
<1>10. CASE PumpDropEphemeral
  <2>1. pump' = NextOf(pump) /\ pump'.sent = pump.sent
    BY <1>10, NextOfType DEF PumpDropEphemeral, TypeInv
  <2> QED
    BY <1>10, <2>1, <1>8, ConstantsAssumption DEF PumpDropEphemeral, Ephemeral
<1>11. CASE PumpReceive
  <2> DEFINE m == channel.mail
             t == Tail(m)
  <2>1. /\ m \in Seq(Nat) /\ t \in Seq(Nat) /\ Len(t) = Len(m) - 1 /\ Len(m) \in Nat \ {0}
        /\ \A i \in 1 .. Len(t) : t[i] = m[i + 1]
        /\ Head(m) = m[1]
    BY <1>11, HeadTailProperties, EmptySeq DEF PumpReceive, TypeInv, Channels
  <2>2. /\ pump'.sent = pump.sent /\ pump'.pending = Head(m) /\ pump'.backlog = <<>>
        /\ channel'.mail = t
    BY <1>11 DEF PumpReceive, TypeInv, Pumps, Channels, Ascending, InOrder
  <2>3. \A i \in 1 .. Len(m) : m[i] # Ephemeral =>
          m[i] > pump.sent /\ \A j \in 1 .. i - 1 : m[j] < m[i]
    BY DEF Ascending
  <2> HIDE DEF m, t
  <2>4. \A i \in 1 .. Len(pump'.backlog) : FALSE
    BY <2>2, EmptyMail
  <2>5. InOrder(pump') /\ (pump'.pending \notin {None, Ephemeral} => pump'.pending > pump'.sent)
    BY <2>1, <2>2, <2>3, <2>4 DEF InOrder
  <2>6. ASSUME NEW i \in 1 .. Len(t), t[i] # Ephemeral
        PROVE  t[i] > pump.sent /\ t[i] > Head(m) /\ \A j \in 1 .. i - 1 : t[j] < t[i]
    <3>1. i + 1 \in 1 .. Len(m) /\ t[i] = m[i + 1] /\ i \in Nat
      BY <2>1, <2>6
    <3>2. m[i + 1] > pump.sent /\ \A j \in 1 .. i : m[j] < m[i + 1]
      BY <2>3, <2>6, <3>1
    <3>3. i \in Nat /\ i <= Len(t) /\ Len(t) \in Nat
      BY <2>1, <2>6
    <3>4. ASSUME NEW j \in 1 .. i - 1
          PROVE  t[j] < t[i]
      <4>1. j \in 1 .. Len(t) /\ j + 1 \in 1 .. i
        BY <3>3
      <4> QED
        BY <2>1, <3>1, <3>2, <4>1
    <3>5. m[i + 1] > m[1]
      BY <3>2, <3>3, <2>6
    <3> QED
      BY <2>1, <3>1, <3>2, <3>4, <3>5
  <2>7. Head(m) + Len(pump'.backlog) = Head(m)
    BY <2>1, <2>2
  <2> QED
    BY <2>2, <2>5, <2>6, <2>7 DEF Ascending
<1>12. CASE PumpOverflow
  <2>1. channel'.mail = <<>> /\ pump' = NoPump
    BY <1>12 DEF PumpOverflow
  <2> QED
    BY <2>1, EmptyMail DEF Ascending, InOrder, NoPump
<1> QED
  BY <1>1, <1>2, <1>3, <1>4, <1>5, <1>6, <1>7, <1>9, <1>10, <1>11, <1>12
  DEF Next, Session, Server

(* Frames carry numbers. *)
LEMMA ItemsType ==
  TypeInv => /\ \A f \in Range(toReader) : f.n \in Nat
             /\ \A f \in Range(toServer) : f.n \in Nat
<1>1. TypeInv => Range(toReader) \subseteq Entry /\ Range(toServer) \subseteq Request
  BY RangeType DEF TypeInv
<1> QED
  BY <1>1 DEF Entry, Request

(* Every step keeps Sent: the cursor of a new subscription is where the *)
(* subscription starts, and what is sent next is newer.                 *)
LEMMA SentStep == TypeInv /\ Knows /\ Handshake /\ Ascending /\ Sent /\ [Next]_vars => Sent'
<1> SUFFICES ASSUME TypeInv, Knows, Handshake, Ascending, Sent, [Next]_vars PROVE Sent'
  OBVIOUS
<1> USE DEF session, server, wires
<1>1. CASE Commit \/ SendEphemeral \/ Evict \/ PumpDropEphemeral \/ PumpReceive \/ UNCHANGED vars
  BY <1>1, QuietSteps DEF Sent
<1>2. CASE Restart
  BY <1>2, DropAscending DEF Restart
<1>3. CASE AnswerSnapshot
  <2>1. ~pump.on
    BY <1>3, PopServer DEF AnswerSnapshot, Handshake, Quiet
  <2> QED
    BY <1>3, <2>1 DEF AnswerSnapshot, Sent
<1>4. CASE Subscribe
  <2> DEFINE f == Head(toServer)
  <2>1. f \in Range(toServer) /\ f.type = "subscribe" /\ f.n \in Nat /\ f.type # "credit"
    BY <1>4, PopServer DEF Subscribe
  <2>2. /\ ~pump.on /\ reader.applying = None /\ reader.cursor = f.n
        /\ toServer = <<f>> /\ toReader = <<>>
    BY <2>1 DEF Handshake, Quiet
  <2>3. toServer' = <<>> /\ reader' = reader
    <3>1. toServer' = Tail(toServer) /\ reader' = reader
      BY <1>4 DEF Subscribe
    <3> HIDE DEF f
    <3> QED
      BY <2>2, <3>1, HeadOfOne
  <2>4. CASE UNCHANGED server
    BY <2>2, <2>4 DEF Sent
  <2>5. CASE Accept(f.n)
    <3>1. pump'.sent = f.n /\ toReader' = <<Frame("snapshot", retained)>>
      BY <2>2, <2>5 DEF Accept
    <3> QED
      BY <2>1, <2>2, <2>3, <3>1, RangeSmall DEF Sent, Frame
  <2> QED
    BY <1>4, <2>4, <2>5 DEF Subscribe, Refuse
<1>5. CASE ReadCredit
  <2>1. /\ Range(toServer') \subseteq Range(toServer) /\ reader' = reader /\ pump.on
        /\ pump'.on = pump.on /\ pump'.sent = pump.sent
    BY <1>5, PopServer DEF ReadCredit, Refuse, TypeInv, Pumps
  <2>2. \/ toReader' = toReader
        \/ Range(toReader') = Range(toReader) \cup {Frame("INVALID_CREDIT", 0)}
    BY <1>5, PushReader DEF ReadCredit, Refuse, Types, OtherCodes
  <2> QED
    BY <2>1, <2>2 DEF Sent, Frame
<1>6. CASE PumpSend
  <2>1. Range(toReader') = Range(toReader) \cup {Frame("event", pump.pending)}
    BY <1>6, PushReader DEF PumpSend, TypeInv, Pumps, Types
  <2>2. pump'.on = pump.on
        /\ pump'.sent = IF pump.pending = Ephemeral THEN pump.sent ELSE pump.pending
    BY <1>6, NextOfType DEF PumpSend, TypeInv, Pumps
  <2>3. pump'.sent \in Nat /\ pump'.sent >= pump.sent
    BY <1>6, <2>2 DEF PumpSend, TypeInv, Pumps, Ascending
  <2>4. pump.pending = Ephemeral \/ pump.pending = pump'.sent
    BY <2>2
  <2>5. reader' = reader /\ toServer' = toServer
    BY <1>6 DEF PumpSend
  <2>6. \A f \in Range(toReader') : f.type = "event" => f \in Range(toReader) \/ f.n = pump'.sent
                                                        \/ f.n = Ephemeral
    BY <2>1, <2>4 DEF Frame
  <2> QED
    <3>1. pump.on /\ pump.sent \in Nat
      BY <1>6 DEF PumpSend, TypeInv, Pumps
    <3>2. /\ reader'.cursor # None => reader'.cursor <= pump'.sent
          /\ reader'.applying # None => reader'.applying <= pump'.sent
      BY <2>3, <2>5, <3>1 DEF Sent, TypeInv, Readers
    <3>3. \A f \in Range(toReader') : f.type = "event" => f.n <= pump'.sent
      BY <2>3, <2>6, <3>1, ItemsType DEF Sent, Ephemeral
    <3>4. \A f \in Range(toServer') : f.type = "credit" => f.n <= pump'.sent
      BY <2>3, <2>5, <3>1, ItemsType DEF Sent
    <3> QED
      BY <3>2, <3>3, <3>4 DEF Sent
<1>7. CASE PumpOverflow
  BY <1>7 DEF PumpOverflow, NoPump, Sent
<1>8. CASE Connect
  <2>1. ~pump.on /\ pump' = pump
    BY <1>8 DEF Connect, Handshake, Quiet
  <2> QED
    BY <2>1 DEF Sent
<1>9. CASE Break
  BY <1>9, RecoverKnows DEF Break
<1>10. CASE ReceiveError
  BY <1>10, RecoverKnows DEF ReceiveError
<1>11. CASE ReceiveSnapshot
  <2>1. ~pump.on /\ pump' = pump
    BY <1>11, PopReader DEF ReceiveSnapshot, Receiving, Handshake, Quiet
  <2> QED
    BY <2>1 DEF Sent
<1>12. CASE ReceiveSubscribed
  <2>1. CASE Head(toReader).n > reader.cursor + 1
    BY <1>12, <2>1, RecoverKnows DEF ReceiveSubscribed
  <2>2. CASE ~(Head(toReader).n > reader.cursor + 1)
    <3>1. Range(toReader') \subseteq Range(toReader) /\ UNCHANGED <<pump, toServer>>
      BY <1>12, <2>2, PopReader DEF ReceiveSubscribed, Receiving
    <3>2. reader'.cursor = reader.cursor /\ reader'.applying = reader.applying
      BY <1>12, <2>2 DEF ReceiveSubscribed, TypeInv, Readers
    <3> QED
      BY <3>1, <3>2 DEF Sent
  <2> QED
    BY <2>1, <2>2
<1>13. CASE ReceiveEvent
  <2>1. CASE Head(toReader).n > reader.cursor + 1
    BY <1>13, <2>1, RecoverKnows DEF ReceiveEvent
  <2>2. CASE ~(Head(toReader).n > reader.cursor + 1)
    <3>1. /\ Range(toReader') \subseteq Range(toReader) /\ UNCHANGED <<pump, toServer>>
          /\ Head(toReader) \in Range(toReader) /\ Head(toReader).type = "event"
      BY <1>13, <2>2, PopReader DEF ReceiveEvent, Receiving
    <3>2. reader'.cursor = reader.cursor
          /\ reader'.applying \in {reader.applying, Head(toReader).n}
      BY <1>13, <2>2 DEF ReceiveEvent, TypeInv, Readers
    <3> QED
      BY <3>1, <3>2 DEF Sent
  <2> QED
    BY <2>1, <2>2
<1>14. CASE Advance
  <2>1. reader'.cursor = reader.applying /\ reader'.applying = None /\ UNCHANGED <<server, wires>>
    BY <1>14 DEF Advance, TypeInv, Readers
  <2> QED
    BY <2>1 DEF Sent
<1>15. CASE Acknowledge
  <2>1. /\ reader.cursor \in Nat /\ reader.cursor # None
        /\ reader'.cursor = reader.cursor /\ reader'.applying = reader.applying
        /\ UNCHANGED <<server, toReader>>
    BY <1>15 DEF Acknowledge, TypeInv, Readers, Knows
  <2>2. Range(toServer') = Range(toServer) \cup {Frame("credit", reader.cursor)}
    BY <1>15, <2>1, PushServer DEF Acknowledge
  <2> QED
    BY <2>1, <2>2 DEF Sent, Frame
<1> QED
  BY <1>1, <1>2, <1>3, <1>4, <1>5, <1>6, <1>7, <1>8, <1>9, <1>10, <1>11, <1>12, <1>13,
     <1>14, <1>15
  DEF Next, Session, Server, Receive

(* NeverMisjudged, for the elements of the wire. *)
Fair == \A f \in Range(toReader) : f.type \notin OtherCodes

(* The two say the same. *)
LEMMA FairIsNeverMisjudged == TypeInv => (Fair <=> NeverMisjudged)
BY LenProperties DEF TypeInv, Fair, NeverMisjudged, Range

(* Every step keeps Fair: a cursor that the reader subscribes with exists, and *)
(* a credit is for what was sent.                                              *)
LEMMA FairStep ==
  TypeInv /\ Knows /\ Handshake /\ Behind /\ Sent /\ Fair /\ [Next]_vars => Fair'
<1> SUFFICES ASSUME TypeInv, Knows, Handshake, Behind, Sent, Fair, [Next]_vars PROVE Fair'
  OBVIOUS
<1> USE DEF session, server, wires
<1>1. ASSUME Range(toReader') \subseteq Range(toReader) PROVE Fair'
  BY <1>1 DEF Fair
<1>2. CASE \/ Session \/ PumpDropEphemeral \/ PumpReceive \/ UNCHANGED vars
           \/ Connect \/ Break \/ Acknowledge \/ Advance
  <2>1. UNCHANGED toReader \/ Drop
    BY <1>2
    DEF Session, Commit, SendEphemeral, Evict, Restart, PumpDropEphemeral, PumpReceive, vars,
        Connect, Break, Recover, Acknowledge, Advance
  <2> QED
    BY <2>1, <1>1, DropRange
<1>3. CASE ReceiveError \/ ReceiveSnapshot \/ ReceiveSubscribed \/ ReceiveEvent
  <2>1. Drop \/ (toReader # <<>> /\ toReader' = Tail(toReader))
    BY <1>3 DEF ReceiveError, ReceiveSnapshot, ReceiveSubscribed, ReceiveEvent, Receiving, Recover
  <2> QED
    BY <2>1, <1>1, DropRange, PopReader
<1>4. ASSUME NEW t \in Types \ OtherCodes, NEW n \in Nat,
             toReader' = Append(toReader, Frame(t, n))
      PROVE  Fair'
  BY <1>4, PushReader DEF Fair, Frame
<1>5. CASE AnswerSnapshot
  BY <1>5, <1>4 DEF AnswerSnapshot, TypeInv, Types, OtherCodes
<1>6. CASE PumpSend
  BY <1>6, <1>4 DEF PumpSend, TypeInv, Pumps, Types, OtherCodes
<1>7. CASE PumpOverflow
  BY <1>7, <1>4 DEF PumpOverflow, Types, OtherCodes, ResetCodes
<1>8. CASE Subscribe
  <2> DEFINE f == Head(toServer)
  <2>1. f \in Range(toServer) /\ f.type = "subscribe" /\ f.n \in Nat /\ f.type # "credit"
    BY <1>8, PopServer DEF Subscribe
  <2>2. f.n <= cursor
    <3>1. reader.cursor = f.n
      BY <2>1 DEF Handshake
    <3> HIDE DEF f
    <3> QED
      BY <2>1, <3>1, ConstantsAssumption DEF Behind
  <2>3. \/ toReader' = Append(toReader, Frame("CURSOR_EXPIRED", 0))
        \/ toReader' = Append(toReader, Frame("snapshot", retained))
    BY <1>8, <2>1, <2>2 DEF Subscribe, Refuse, Accept, TypeInv
  <2> QED
    BY <2>3, <1>4 DEF Types, OtherCodes, ResetCodes, TypeInv
<1>9. CASE ReadCredit
  <2>1. Head(toServer) \in Range(toServer) /\ Head(toServer).type = "credit" /\ pump.on
        /\ Head(toServer).n \in Nat
    BY <1>9, PopServer DEF ReadCredit
  <2>2. Head(toServer).n <= pump.sent
    BY <2>1 DEF Sent
  <2>3. toReader' = toReader
    BY <1>9, <2>1, <2>2 DEF ReadCredit, TypeInv, Pumps
  <2> QED
    BY <2>3, <1>1
<1> QED
  BY <1>2, <1>3, <1>5, <1>6, <1>7, <1>8, <1>9 DEF Next, Server, Receive

(* What a subscription owes, as a set. *)
Due == ({pump.pending} \cup Range(pump.backlog) \cup Range(channel.mail)) \ {None, Ephemeral}

(* What is owed has no gap, and an open mailbox reaches to the last event. *)
Gapless ==
  /\ \A a \in Due, b \in Due : a .. b \subseteq Due
  /\ channel.open => IF Due = {} THEN pump.sent = cursor ELSE cursor \in Due

(* The window is part of the session, and a session that has no event in   *)
(* memory retains none: it refuses every reader that is behind it.         *)
Windowed ==
  /\ retained \in 1 .. cursor + 1 /\ first \in retained .. cursor + 1
  /\ first = cursor + 1 => retained = first

(* A sequence holds its head and what its tail holds. *)
LEMMA RangeHeadTail ==
  ASSUME NEW S, NEW s \in Seq(S), s # <<>>
  PROVE  Range(s) = {Head(s)} \cup Range(Tail(s))
<1>1. Tail(s) \in Seq(S) /\ Len(Tail(s)) = Len(s) - 1
     /\ \A i \in 1 .. Len(Tail(s)) : Tail(s)[i] = s[i + 1]
  BY HeadTailProperties
<1>2. DOMAIN s = 1 .. Len(s) /\ Len(s) \in Nat \ {0} /\ DOMAIN Tail(s) = 1 .. Len(s) - 1
  BY <1>1, LenProperties, EmptySeq
<1>3. Head(s) = s[1]
  BY <1>2
<1>4. ASSUME NEW i \in 1 .. Len(s) PROVE s[i] \in {Head(s)} \cup Range(Tail(s))
  <2>1. CASE i = 1
    BY <2>1, <1>3
  <2>2. CASE i # 1
    <3>1. i - 1 \in 1 .. Len(s) - 1 /\ s[i] = Tail(s)[i - 1]
      BY <1>1, <1>2, <2>2
    <3> QED
      BY <3>1, <1>2 DEF Range
  <2> QED
    BY <2>1, <2>2
<1>5. Range(s) \subseteq {Head(s)} \cup Range(Tail(s))
  BY <1>2, <1>4 DEF Range
<1> QED
  BY <1>5, RangeTail

(* What is owed are events of the session, none older than the pending one. *)
LEMMA DueType ==
  ASSUME TypeInv, Behind, Ascending
  PROVE  /\ Due \subseteq 1 .. cursor
         /\ \A d \in Due : pump.pending # None => d >= pump.pending
         /\ pump.pending = None => pump.backlog = <<>> /\ Range(pump.backlog) = {}
<1>1. /\ pump.backlog \in Seq(Nat) /\ channel.mail \in Seq(Nat) /\ cursor \in Nat
      /\ pump.pending \in Nat \cup {None}
      /\ Len(pump.backlog) \in Nat
      /\ Range(pump.backlog) = {pump.backlog[i] : i \in 1 .. Len(pump.backlog)}
      /\ Range(channel.mail) = {channel.mail[i] : i \in 1 .. Len(channel.mail)}
  BY LenProperties DEF TypeInv, Pumps, Channels, Range
<1>2. pump.pending = None => pump.backlog = <<>> /\ Range(pump.backlog) = {}
  BY RangeSmall DEF Ascending, InOrder
<1>3. ASSUME NEW d \in Range(pump.backlog)
      PROVE  d \in 1 .. cursor /\ (pump.pending # None => d >= pump.pending)
  <2>1. PICK i \in 1 .. Len(pump.backlog) : d = pump.backlog[i]
    BY <1>1, <1>3
  <2>2. pump.pending # None /\ pump.pending \in Nat
    BY <1>1, <1>2, <1>3
  <2>3. pump.pending + Len(pump.backlog) <= cursor
    BY <2>2 DEF Behind
  <2>4. d = pump.pending + i
    <3>1. InOrder(pump)
      BY DEF Ascending
    <3> QED
      BY <2>1, <3>1 DEF InOrder
  <2>5. PICK k \in Nat, l \in Nat, c \in Nat :
          k = pump.pending /\ l = Len(pump.backlog) /\ c = cursor
    BY <1>1, <2>2
  <2>6. d = k + i /\ k + l <= c /\ i \in 1 .. l
    BY <2>1, <2>3, <2>4, <2>5
  <2>7. d \in 1 .. c /\ d >= k
    BY ONLY <2>6
  <2> QED
    BY <2>5, <2>7
<1>4. ASSUME NEW d \in Range(channel.mail), d # Ephemeral
      PROVE  d \in 1 .. cursor /\ (pump.pending # None => d >= pump.pending)
  <2>1. PICK i \in 1 .. Len(channel.mail) : d = channel.mail[i]
    BY <1>1, <1>4
  <2>2. d \in Nat \ {0} /\ d <= cursor
    BY <1>1, <1>4, <2>1, ElementOfSeq DEF Behind, Ephemeral
  <2>3. pump.pending # None => d > pump.pending + Len(pump.backlog)
    BY <1>4, <2>1 DEF Ascending
  <2> QED
    BY <1>1, <2>2, <2>3
<1>5. pump.pending \notin {None, Ephemeral} => pump.pending \in 1 .. cursor
  BY <1>1 DEF Behind, Ephemeral
<1> QED
  BY <1>1, <1>2, <1>3, <1>4, <1>5 DEF Due

(* What the pump passes on is no longer owed. *)
LEMMA NextDue ==
  ASSUME TypeInv, Ascending, pump.pending # None, channel' = channel,
         pump'.pending = NextOf(pump).pending, pump'.backlog = NextOf(pump).backlog
  PROVE  Due \subseteq Due' \cup {pump.pending} /\ Due' \subseteq Due
<1>1. pump \in Pumps /\ pump.backlog \in Seq(Nat)
  BY DEF TypeInv, Pumps
<1>2. CASE pump.backlog = <<>>
  <2>1. pump'.pending = None /\ pump'.backlog = <<>>
    BY <1>1, <1>2, NextOfPending, NextOfBacklog
  <2> QED
    BY <1>2, <2>1, RangeSmall DEF Due
<1>3. CASE pump.backlog # <<>>
  <2>1. pump'.pending = Head(pump.backlog) /\ pump'.backlog = Tail(pump.backlog)
    BY <1>1, <1>3, NextOfPending, NextOfBacklog
  <2>2. Range(pump.backlog) = {Head(pump.backlog)} \cup Range(Tail(pump.backlog))
    BY <1>1, <1>3, RangeHeadTail
  <2> QED
    BY <2>1, <2>2 DEF Due
<1> QED
  BY <1>2, <1>3

(* The window moves with the session, and a load starts it anew. *)
LEMMA WindowedStep == TypeInv /\ Windowed /\ [Next]_vars => Windowed'
<1> SUFFICES ASSUME TypeInv, Windowed, [Next]_vars PROVE Windowed'
  OBVIOUS
<1> USE DEF session, server, wires
<1>1. CASE UNCHANGED session
  BY <1>1 DEF Windowed
<1>2. CASE Commit
  <2>1. cursor \in Nat /\ cursor' = cursor + 1 /\ first \in 1 .. cursor + 1
        /\ retained' \in 1 .. cursor + 1
    <3>1. cursor \in Nat /\ cursor' = cursor + 1 /\ retained' = WindowStart(cursor')
      BY <1>2 DEF Commit, TypeInv
    <3>2. first \in 1 .. cursor + 1
      BY <3>1 DEF Windowed
    <3>3. \A n \in Nat : WindowStart(n + 1) \in 1 .. n + 1
      BY ConstantsAssumption DEF WindowStart
    <3> QED
      BY <3>1, <3>2, <3>3
  <2>2. first' \in retained' .. cursor + 1
    BY <1>2, <2>1 DEF Commit, Later
  <2> QED
    BY <2>1, <2>2 DEF Windowed
<1>3. CASE Load /\ cursor' = cursor
  <2>1. cursor \in Nat /\ WindowStart(cursor) \in 1 .. cursor + 1
    BY ConstantsAssumption DEF TypeInv, WindowStart
  <2> QED
    BY <1>3, <2>1 DEF Load, Windowed
<1>4. Session => Commit \/ (Load /\ cursor' = cursor) \/ UNCHANGED session
  BY DEF Session, SendEphemeral, Evict, Restart
<1>5. Server => UNCHANGED session
  BY DEF Server, AnswerSnapshot, Subscribe, ReadCredit, PumpSend, PumpDropEphemeral,
     PumpReceive, PumpOverflow
<1>6. Connect \/ Break \/ Receive \/ Acknowledge \/ UNCHANGED vars => UNCHANGED session
  BY DEF Connect, Break, Receive, ReceiveError, ReceiveSnapshot, ReceiveSubscribed, ReceiveEvent,
     Receiving, Advance, Acknowledge, vars
<1> QED
  BY <1>1, <1>2, <1>3, <1>4, <1>5, <1>6 DEF Next

(* A pending event and its backlog are an interval. *)
LEMMA InOrderRange ==
  ASSUME NEW p \in Pumps, InOrder(p), p.pending \notin {None, Ephemeral}
  PROVE  {p.pending} \cup Range(p.backlog) = p.pending .. p.pending + Len(p.backlog)
<1> DEFINE k == p.pending
           s == p.backlog
<1>1. k \in Nat /\ s \in Seq(Nat) /\ Len(s) \in Nat /\ \A i \in 1 .. Len(s) : s[i] = k + i
  BY DEF Pumps, InOrder
<1>2. Range(s) = {s[i] : i \in 1 .. Len(s)}
  BY <1>1, LenProperties DEF Range
<1> HIDE DEF k, s
<1>3. Range(s) = k + 1 .. k + Len(s)
  <2>1. ASSUME NEW d \in k + 1 .. k + Len(s) PROVE d \in Range(s)
    <3>1. d - k \in 1 .. Len(s) /\ d = k + (d - k)
      BY <1>1
    <3> QED
      BY <1>1, <1>2, <3>1
  <2>2. ASSUME NEW d \in Range(s) PROVE d \in k + 1 .. k + Len(s)
    <3>1. PICK i \in 1 .. Len(s) : d = s[i]
      BY <1>2, <2>2
    <3>2. d = k + i
      BY <1>1, <3>1
    <3> QED
      BY <1>1, <3>2
  <2> QED
    BY <2>1, <2>2
<1>4. {k} \cup Range(s) = k .. k + Len(s)
  BY <1>1, <1>3
<1> QED
  BY <1>4 DEF k, s

(* A subscription that is accepted owes everything after the reader's cursor *)
(* that is in memory, up to the last event.                                  *)
LEMMA AcceptDue ==
  ASSUME TypeInv, Windowed, NEW after \in Nat, after <= cursor, after + 1 >= retained,
         Accept(after)
  PROVE  /\ pump'.sent = after
         /\ \/ Due' = {} /\ after = cursor
            \/ \E n \in Nat : n <= cursor /\ Due' = n .. cursor
<1>1. /\ channel'.mail = <<>> /\ pump'.sent = after /\ pump' \in Pumps
      /\ InOrder(pump')
      /\ pump'.pending # None => pump'.pending \in Nat /\ pump'.pending > after
                                 /\ pump'.pending + Len(pump'.backlog) = cursor
  BY AcceptFeed, AcceptType
<1>2. Range(channel'.mail) = {}
  BY <1>1, RangeSmall
<1>3. CASE pump'.pending = None
  <2>1. Range(pump'.backlog) = {}
    BY <1>1, <1>3, RangeSmall DEF InOrder
  <2>2. Due' = {}
    BY <1>2, <1>3, <2>1 DEF Due
  <2>3. PICK n \in Nat : n = Later(after, first - 1)
    BY DEF Later, TypeInv
  <2>4. PICK s \in Seq(Nat) : s = Backlog(after) /\ Len(s) = IF n <= cursor THEN cursor - n ELSE 0
    BY <2>3, SinceType DEF Backlog, TypeInv
  <2>5. s = <<>>
    <3>1. s # <<>> => Head(s) \in Nat
      BY HeadTailProperties
    <3> QED
      BY <1>3, <2>4, <3>1, AcceptPump, ConstantsAssumption
  <2>6. n >= cursor
    BY <2>4, <2>5 DEF TypeInv
  <2>7. after = cursor
    BY <2>3, <2>6 DEF Later, TypeInv, Windowed
  <2> QED
    BY <1>1, <2>2, <2>7
<1>4. CASE pump'.pending # None
  <2>1. pump'.pending \in Nat \ {0} /\ Len(pump'.backlog) \in Nat
    BY <1>1, <1>4 DEF Pumps
  <2>2. {pump'.pending} \cup Range(pump'.backlog) = pump'.pending .. cursor
    BY <1>1, <1>4, <2>1, InOrderRange DEF Ephemeral
  <2>3. PICK n \in Nat \ {0} : n = pump'.pending
    BY <2>1
  <2>4. None \notin n .. cursor /\ Ephemeral \notin n .. cursor
    BY ConstantsAssumption DEF Ephemeral, TypeInv
  <2>5. Due' = n .. cursor
    BY <1>2, <2>2, <2>3, <2>4 DEF Due
  <2>6. n <= cursor
    BY <1>1, <1>4, <2>1, <2>3 DEF TypeInv
  <2> QED
    BY <1>1, <2>5, <2>6
<1> QED
  BY <1>3, <1>4

(* What a mailbox gets is owed, or the mailbox is closed. *)
LEMMA FanOutDue ==
  ASSUME TypeInv, NEW e \in Nat, FanOut(e), pump' = pump
  PROVE  \/ channel.open /\ Due' = (Due \cup {e}) \ {Ephemeral}
         \/ ~channel'.open /\ Due' = Due
<1>1. channel \in Channels /\ channel.mail \in Seq(Nat) /\ e # None
  BY ConstantsAssumption DEF TypeInv, Channels
<1>2. \/ channel.open /\ channel'.mail = Append(channel.mail, e)
      \/ ~channel'.open /\ channel'.mail = channel.mail
  BY <1>1 DEF FanOut, Channels
<1>3. Range(Append(channel.mail, e)) = Range(channel.mail) \cup {e}
  BY <1>1, RangeAppend
<1> QED
  BY <1>1, <1>2, <1>3 DEF Due

(* What the pump sends is the least that is owed. *)
LEMMA GaplessNext ==
  ASSUME TypeInv, Behind, Ascending, Gapless, pump.pending # None,
         channel' = channel, cursor' = cursor,
         pump'.pending = NextOf(pump).pending, pump'.backlog = NextOf(pump).backlog,
         pump'.sent = IF pump.pending = Ephemeral THEN pump.sent ELSE pump.pending
  PROVE  Gapless'
<1> DEFINE k == pump.pending
           D == Due
<1>1. PICK E : E = Due'
  OBVIOUS
<1>2. /\ D \subseteq E \cup {k} /\ E \subseteq D /\ D \subseteq 1 .. cursor
      /\ \A d \in D : d >= k
      /\ cursor \in Nat /\ k \in Nat
      /\ \A a \in D, b \in D : a .. b \subseteq D
      /\ channel.open => IF D = {} THEN pump.sent = cursor ELSE cursor \in D
  BY <1>1, NextDue, DueType DEF Gapless, TypeInv, Pumps
<1>3. pump'.sent = IF k = 0 THEN pump.sent ELSE k
  BY DEF Ephemeral
<1> HIDE DEF k, D
<1>4. ASSUME NEW a \in E, NEW b \in E
      PROVE  a .. b \subseteq E
  <2>1. a .. b \subseteq D /\ a >= k /\ a \in Nat /\ b \in Nat
    BY <1>2
  <2>2. k \in a .. b => k \in E
    BY <1>2, <2>1
  <2> QED
    BY <1>2, <2>1, <2>2
<1>5. ASSUME channel.open
      PROVE  IF E = {} THEN pump'.sent = cursor ELSE cursor \in E
  <2>1. CASE k = 0
    BY <1>2, <1>3, <1>5, <2>1
  <2>2. CASE k # 0
    <3>1. CASE E = {}
      <4>1. D \subseteq {k} /\ pump'.sent = k
        BY <1>2, <1>3, <2>2, <3>1
      <4>2. CASE D = {}
        <5>1. k \in D
          BY <2>2, ConstantsAssumption DEF k, D, Due, Ephemeral, TypeInv, Pumps
        <5> QED
          BY <4>2, <5>1
      <4> QED
        BY <1>2, <1>5, <3>1, <4>1, <4>2
    <3>2. CASE E # {}
      <4>1. PICK d \in E : TRUE
        BY <3>2
      <4>2. D # {} /\ cursor \in D /\ d >= k /\ d \in 1 .. cursor
        BY <1>2, <1>5, <4>1
      <4>3. cursor \in E \/ cursor = k
        BY <1>2, <4>2
      <4> QED
        BY <1>2, <3>2, <4>1, <4>2, <4>3
    <3> QED
      BY <3>1, <3>2
  <2> QED
    BY <2>1, <2>2
<1> QED
  BY <1>1, <1>4, <1>5 DEF Gapless

(* Every step keeps Gapless. *)
LEMMA GaplessStep ==
  TypeInv /\ Behind /\ Ascending /\ Windowed /\ Gapless /\ [Next]_vars => Gapless'
<1> SUFFICES ASSUME TypeInv, Behind, Ascending, Windowed, Gapless, [Next]_vars PROVE Gapless'
  OBVIOUS
<1> USE DEF session, server, wires
<1>1. ASSUME Due' = Due, channel'.open => channel.open,
             pump'.sent = pump.sent, cursor' = cursor
      PROVE  Gapless'
  BY <1>1 DEF Gapless
<1>2. ASSUME Drop PROVE Gapless'
  <2>1. Due' = {} /\ ~channel'.open
    BY <1>2, RangeSmall DEF Drop, NoChannel, NoPump, Due
  <2> QED
    BY <2>1 DEF Gapless
<1>3. CASE UNCHANGED <<server, cursor>>
  BY <1>3, <1>1 DEF Due
<1>4. CASE Commit
  <2>1. /\ cursor \in Nat /\ cursor' = cursor + 1 /\ FanOut(cursor') /\ pump' = pump
        /\ cursor' \in Nat
    BY <1>4 DEF Commit, TypeInv
  <2>2. CASE ~channel'.open /\ Due' = Due
    BY <2>2 DEF Gapless
  <2>3. CASE channel.open /\ Due' = (Due \cup {cursor'}) \ {Ephemeral}
    <3> DEFINE D == Due
    <3>1. PICK E : E = Due'
      OBVIOUS
    <3>2. PICK c \in Nat : c = cursor /\ cursor' = c + 1
      BY <2>1
    <3>3. /\ D \subseteq 1 .. c
          /\ \A a \in D, b \in D : a .. b \subseteq D
          /\ D # {} => c \in D
      BY <2>3, <3>2, DueType DEF Gapless
    <3>4. E = D \cup {c + 1}
      BY <2>3, <3>1, <3>2, <3>3 DEF Ephemeral
    <3> HIDE DEF D
    <3>5. ASSUME NEW a \in E, NEW b \in E
          PROVE  a .. b \subseteq E
      <4>1. a \in Nat /\ b \in Nat /\ a <= c + 1 /\ b <= c + 1
        BY <3>2, <3>3, <3>4
      <4>2. CASE a = c + 1
        BY <3>4, <4>1, <4>2
      <4>3. CASE a \in D
        <5>1. a .. c \subseteq D
          BY <3>3, <4>3
        <5> QED
          BY <3>2, <3>4, <4>1, <5>1
      <4> QED
        BY <3>4, <4>2, <4>3
    <3>6. E # {} /\ cursor' \in E
      BY <3>2, <3>4
    <3> QED
      BY <3>1, <3>5, <3>6 DEF Gapless
  <2> QED
    BY <2>1, <2>2, <2>3, FanOutDue
<1>5. CASE SendEphemeral
  <2>1. FanOut(0) /\ pump' = pump /\ cursor' = cursor
    BY <1>5 DEF SendEphemeral, Ephemeral
  <2>2. 0 \notin Due /\ Ephemeral = 0
    BY DEF Due, Ephemeral
  <2>3. Due' = Due /\ (channel'.open => channel.open)
    BY <2>1, <2>2, FanOutDue
  <2> QED
    BY <1>1, <2>1, <2>3
<1>6. CASE Evict \/ AnswerSnapshot \/ Connect \/ Advance \/ Acknowledge \/ UNCHANGED vars
  BY <1>6, <1>3 DEF Evict, AnswerSnapshot, Connect, Advance, Acknowledge, vars
<1>7. CASE Restart
  BY <1>7, <1>2 DEF Restart
<1>8. CASE Break \/ Receive
  <2>1. Drop \/ UNCHANGED <<server, cursor>>
    BY <1>8 DEF Break, Receive, ReceiveError, ReceiveSnapshot, ReceiveSubscribed, ReceiveEvent,
       Receiving, Advance, Recover
  <2> QED
    BY <2>1, <1>2, <1>3
<1>9. CASE Subscribe
  <2>1. PICK after \in Nat : after = Head(toServer).n
    BY <1>9, PopServer DEF Subscribe
  <2>2. cursor' = cursor
    BY <1>9 DEF Subscribe
  <2>3. \/ after <= cursor /\ after + 1 >= retained /\ Accept(after)
        \/ UNCHANGED server
    BY <1>9, <2>1 DEF Subscribe, Refuse, TypeInv
  <2>4. CASE after <= cursor /\ after + 1 >= retained /\ Accept(after)
    <3>1. cursor \in Nat
      BY DEF TypeInv
    <3>2. /\ pump'.sent = after
          /\ \/ Due' = {} /\ after = cursor
             \/ \E n \in Nat : n <= cursor /\ Due' = n .. cursor
      BY <2>4, AcceptDue
    <3>3. CASE Due' = {} /\ after = cursor
      BY <2>2, <3>2, <3>3 DEF Gapless
    <3>4. CASE \E n \in Nat : n <= cursor /\ Due' = n .. cursor
      <4>1. PICK n \in Nat : n <= cursor /\ Due' = n .. cursor
        BY <3>4
      <4>2. PICK E : E = n .. cursor
        OBVIOUS
      <4>3. E # {} /\ cursor \in E
        BY <3>1, <4>1, <4>2
      <4>4. \A a \in E, b \in E : a .. b \subseteq E
        BY <3>1, <4>1, <4>2
      <4> QED
        BY <2>2, <4>1, <4>2, <4>3, <4>4 DEF Gapless
    <3> QED
      BY <3>2, <3>3, <3>4
  <2> QED
    BY <2>2, <2>3, <2>4, <1>3
<1>10. CASE ReadCredit
  <2>1. /\ pump'.sent = pump.sent /\ pump'.pending = pump.pending /\ pump'.backlog = pump.backlog
        /\ channel' = channel /\ cursor' = cursor
    BY <1>10 DEF ReadCredit, Refuse, TypeInv, Pumps
  <2>2. Due' = Due
    BY <2>1 DEF Due
  <2> QED
    BY <2>1, <2>2, <1>1
<1>11. CASE PumpSend
  <2>1. /\ pump'.pending = NextOf(pump).pending /\ pump'.backlog = NextOf(pump).backlog
        /\ pump'.sent = IF pump.pending = Ephemeral THEN pump.sent ELSE pump.pending
    BY <1>11, NextOfType DEF PumpSend, TypeInv, Pumps
  <2> QED
    BY <1>11, <2>1, GaplessNext DEF PumpSend
<1>12. CASE PumpDropEphemeral
  <2>1. pump' = NextOf(pump) /\ pump'.sent = pump.sent
    BY <1>12, NextOfType DEF PumpDropEphemeral, TypeInv
  <2> QED
    BY <1>12, <2>1, GaplessNext, ConstantsAssumption DEF PumpDropEphemeral, Ephemeral
<1>13. CASE PumpReceive
  <2>1. /\ pump'.sent = pump.sent /\ pump'.pending = Head(channel.mail)
        /\ pump'.backlog = pump.backlog /\ pump.pending = None
        /\ channel'.mail = Tail(channel.mail) /\ channel'.open = channel.open /\ cursor' = cursor
    BY <1>13 DEF PumpReceive, TypeInv, Pumps, Channels
  <2>2. Range(channel.mail) = {Head(channel.mail)} \cup Range(Tail(channel.mail))
    BY <1>13, RangeHeadTail DEF PumpReceive, TypeInv, Channels
  <2>3. Due' = Due
    BY <2>1, <2>2 DEF Due
  <2> QED
    BY <2>1, <2>3, <1>1
<1>14. CASE PumpOverflow
  <2>1. pump' = NoPump /\ channel'.mail = <<>> /\ ~channel'.open
    BY <1>14 DEF PumpOverflow
  <2>2. Due' = {}
    BY <2>1, RangeSmall DEF NoPump, Due
  <2> QED
    BY <2>1, <2>2 DEF Gapless
<1> QED
  BY <1>4, <1>5, <1>6, <1>7, <1>8, <1>9, <1>10, <1>11, <1>12, <1>13, <1>14
  DEF Next, Session, Server

(* The elements of two sequences in a row. *)
LEMMA TwoParts ==
  ASSUME NEW s \in Seq(Nat), NEW t \in Seq(Nat)
  PROVE  /\ s \o t \in Seq(Nat) /\ Len(s \o t) = Len(s) + Len(t)
         /\ Len(s) \in Nat /\ Len(t) \in Nat
         /\ \A i \in 1 .. Len(s) : (s \o t)[i] = s[i]
         /\ \A i \in 1 .. Len(t) : (s \o t)[Len(s) + i] = t[i]
         /\ Range(s \o t) = Range(s) \cup Range(t)
<1> DEFINE u == s \o t
<1>1. /\ u \in Seq(Nat) /\ Len(u) = Len(s) + Len(t)
      /\ Len(s) \in Nat /\ Len(t) \in Nat
      /\ \A i \in 1 .. Len(s) : u[i] = s[i]
      /\ \A i \in 1 .. Len(t) : u[Len(s) + i] = t[i]
  BY ConcatProperties, LenProperties
<1>2. /\ Range(u) = {u[i] : i \in 1 .. Len(u)}
      /\ Range(s) = {s[i] : i \in 1 .. Len(s)} /\ Range(t) = {t[i] : i \in 1 .. Len(t)}
  BY <1>1, LenProperties DEF Range
<1> HIDE DEF u
<1>3. \A i \in 1 .. Len(u) : i \in 1 .. Len(s) \/ (i - Len(s) \in 1 .. Len(t)
                                                   /\ u[i] = t[i - Len(s)])
  <2> TAKE i \in 1 .. Len(u)
  <2>1. CASE i \notin 1 .. Len(s)
    <3>1. i - Len(s) \in 1 .. Len(t) /\ Len(s) + (i - Len(s)) = i
      BY <1>1, <2>1
    <3> QED
      BY <1>1, <3>1
  <2> QED
    BY <2>1
<1>4. Range(u) \subseteq Range(s) \cup Range(t)
  BY <1>1, <1>2, <1>3
<1>5. Range(s) \subseteq Range(u) /\ Range(t) \subseteq Range(u)
  <2>1. /\ \A i \in 1 .. Len(s) : i \in 1 .. Len(u)
        /\ \A i \in 1 .. Len(t) : Len(s) + i \in 1 .. Len(u)
    BY <1>1
  <2> QED
    BY <1>1, <1>2, <2>1
<1> QED
  BY <1>1, <1>4, <1>5 DEF u

(* The pending event and its backlog. *)
Replay == (IF pump.pending = None THEN <<>> ELSE <<pump.pending>>) \o pump.backlog

(* What comes before the mailbox ascends, and is older than what the mailbox *)
(* holds.                                                                    *)
LEMMA ReplayShape ==
  ASSUME TypeInv, Ascending
  PROVE  /\ Replay \in Seq(Nat)
         /\ Range(Replay) = ({pump.pending} \ {None}) \cup Range(pump.backlog)
         /\ \A i \in 1 .. Len(Replay) : /\ pump.pending # None
                                        /\ Replay[i] = pump.pending + (i - 1)
                                        /\ Replay[i] <= pump.pending + Len(pump.backlog)
<1> DEFINE k == pump.pending
           b == pump.backlog
           x == IF k = None THEN <<>> ELSE <<k>>
<1>1. k \in Nat \cup {None} /\ b \in Seq(Nat) /\ Len(b) \in Nat
      /\ (k = None => b = <<>>)
      /\ \A i \in 1 .. Len(b) : b[i] = k + i
  BY DEF TypeInv, Pumps, Ascending, InOrder
<1>2. Replay = x \o b
  BY DEF Replay
<1> HIDE DEF k, b
<1>3. CASE k = None
  <2>1. Replay = <<>>
    BY <1>1, <1>2, <1>3
  <2>2. Range(Replay) = {} /\ Range(b) = {} /\ Len(Replay) = 0 /\ Replay \in Seq(Nat)
    BY <1>1, <1>3, <2>1, RangeSmall
  <2> QED
    BY <1>3, <2>2 DEF k, b
<1>4. CASE k # None
  <2>1. k \in Nat /\ x = <<k>> /\ x \in Seq(Nat) /\ Len(x) = 1 /\ x[1] = k /\ Range(x) = {k}
    BY <1>1, <1>4, RangeSmall
  <2> HIDE DEF x
  <2>2. /\ x \o b \in Seq(Nat) /\ Len(x \o b) = Len(x) + Len(b)
        /\ \A i \in 1 .. Len(x) : (x \o b)[i] = x[i]
        /\ \A i \in 1 .. Len(b) : (x \o b)[Len(x) + i] = b[i]
        /\ Range(x \o b) = Range(x) \cup Range(b)
    BY ONLY <1>1, <2>1, TwoParts
  <2>3. /\ Replay \in Seq(Nat) /\ Len(Replay) = 1 + Len(b) /\ Replay[1] = k
        /\ \A i \in 1 .. Len(b) : Replay[1 + i] = b[i]
        /\ Range(Replay) = {k} \cup Range(b)
    BY <1>2, <2>1, <2>2
  <2>4. ASSUME NEW i \in 1 .. Len(Replay)
        PROVE  Replay[i] = k + (i - 1) /\ Replay[i] <= k + Len(b)
    <3>1. CASE i = 1
      BY <1>1, <2>1, <2>3, <3>1
    <3>2. CASE i # 1
      <4>1. i - 1 \in 1 .. Len(b) /\ 1 + (i - 1) = i
        BY <1>1, <2>3, <3>2
      <4>2. Replay[i] = k + (i - 1)
        BY <1>1, <2>3, <4>1
      <4> QED
        BY <1>1, <2>1, <4>1, <4>2
    <3> QED
      BY <3>1, <3>2
  <2> QED
    BY <1>4, <2>3, <2>4 DEF k, b
<1> QED
  BY <1>3, <1>4

(* What a subscription owes is in order, has no gap and reaches to the last *)
(* event.                                                                   *)
LEMMA FeedComplete == TypeInv /\ Ascending /\ Gapless => FeedIsComplete
<1> SUFFICES ASSUME TypeInv, Ascending, Gapless PROVE FeedIsComplete
  OBVIOUS
<1> DEFINE r == Replay
           m == channel.mail
           top == pump.pending + Len(pump.backlog)
<1>1. Feed = r \o m
  BY DEF Feed, Replay
<1>2. /\ r \in Seq(Nat) /\ m \in Seq(Nat) /\ Len(r) \in Nat
      /\ \A i \in 1 .. Len(r) : /\ pump.pending # None
                                /\ r[i] = pump.pending + (i - 1)
                                /\ r[i] <= top /\ r[i] \in Nat
      /\ pump.pending # None => pump.pending \in Nat /\ top \in Nat
  <2>1. /\ r \in Seq(Nat)
        /\ \A i \in 1 .. Len(r) : /\ pump.pending # None
                                  /\ r[i] = pump.pending + (i - 1)
                                  /\ r[i] <= top
    BY ReplayShape
  <2>2. m \in Seq(Nat)
    BY DEF TypeInv, Channels
  <2>3. Len(r) \in Nat /\ \A i \in 1 .. Len(r) : r[i] \in Nat
    BY ONLY <2>1, ElementOfSeq, LenProperties
  <2>4. pump.pending # None => pump.pending \in Nat /\ top \in Nat
    BY DEF TypeInv, Pumps
  <2> QED
    BY <2>1, <2>2, <2>3, <2>4
<1>3. \A i \in 1 .. Len(m) : m[i] # Ephemeral =>
       /\ pump.pending # None => m[i] > top
       /\ \A j \in 1 .. i - 1 : m[j] < m[i]
  BY DEF Ascending
<1>4. Owed = Due
  <2>1. Range(Feed) = Range(r) \cup Range(m)
    BY <1>1, <1>2, TwoParts
  <2>2. None \notin Range(m) /\ None \notin Range(pump.backlog)
    BY <1>2, RangeType, ConstantsAssumption DEF TypeInv, Pumps
  <2>3. Range(r) = ({pump.pending} \ {None}) \cup Range(pump.backlog)
    BY ReplayShape
  <2> QED
    BY <2>1, <2>2, <2>3 DEF Owed, Due
<1>5. /\ Feed \in Seq(Nat) /\ Len(Feed) = Len(r) + Len(m) /\ Len(m) \in Nat
      /\ \A i \in 1 .. Len(r) : Feed[i] = r[i]
      /\ \A i \in 1 .. Len(m) : Feed[Len(r) + i] = m[i]
  BY <1>1, <1>2, TwoParts
<1>6. ASSUME NEW j \in 1 .. Len(Feed), NEW i \in 1 .. j - 1,
             Feed[i] # Ephemeral, Feed[j] # Ephemeral
      PROVE  Feed[i] < Feed[j]
  <2> DEFINE n == Len(r)
  <2>1. i \in Nat \ {0} /\ j \in Nat \ {0} /\ i < j /\ j <= n + Len(m) /\ n \in Nat
    BY <1>2, <1>5
  <2> HIDE DEF r, m, top, n
  <2>2. CASE j <= n
    <3>1. i \in 1 .. n /\ j \in 1 .. n
      BY <2>1, <2>2
    <3>2. /\ Feed[i] = pump.pending + (i - 1) /\ Feed[j] = pump.pending + (j - 1)
          /\ pump.pending \in Nat
      BY <1>2, <1>5, <3>1 DEF n
    <3> QED
      BY <2>1, <3>2
  <2>3. CASE j > n
    <3> DEFINE q == j - n
    <3>1. q \in 1 .. Len(m) /\ n + q = j
      BY <1>5, <2>1, <2>3
    <3>2. Feed[j] = m[q]
      BY <1>5, <3>1 DEF n
    <3>3. CASE i <= n
      <4>1. i \in 1 .. n
        BY <2>1, <3>3
      <4>2. Feed[i] = r[i] /\ pump.pending # None /\ r[i] <= top /\ r[i] \in Nat /\ top \in Nat
        BY <1>2, <1>5, <4>1 DEF n
      <4>3. m[q] > top /\ m[q] \in Nat
        BY <1>2, <1>3, <1>6, <3>1, <3>2, <4>2, ElementOfSeq
      <4> QED
        BY <3>2, <4>2, <4>3
    <3>4. CASE i > n
      <4>1. i - n \in 1 .. q - 1 /\ i - n \in 1 .. Len(m) /\ n + (i - n) = i
        BY <1>5, <2>1, <3>1, <3>4
      <4>2. Feed[i] = m[i - n]
        BY <1>5, <4>1 DEF n
      <4> QED
        BY <1>3, <1>6, <3>1, <3>2, <4>1, <4>2
    <3> QED
      BY <2>1, <3>3, <3>4
  <2> QED
    BY <2>1, <2>2, <2>3
<1> QED
  BY <1>4, <1>6 DEF FeedIsComplete, Gapless

(* The bounded counters are within their bounds. *)
Counted == cursor <= MaxEvents /\ faults \in 0 .. MaxFaults /\ fleeting \in 0 .. MaxFleeting

(* A mailbox never exceeds its capacity. *)
Roomy == Len(channel.mail) <= Capacity

(* What is sent and not acknowledged was sent, and fits the credits. *)
Credited ==
  /\ IsFiniteSet(pump.out) /\ Cardinality(pump.out) <= Credits
  /\ pump.out \subseteq 1 .. pump.sent
  /\ pump.acked <= pump.sent

(* Nobody speaks of an event that does not exist. *)
Known ==
  /\ \A f \in Range(toReader) : f.n <= cursor + 1
  /\ \A f \in Range(toServer) : f.n <= cursor
  /\ reader.acked <= cursor /\ Len(view) <= cursor

(* The session only grows, and the counters have their guards. *)
LEMMA CountedStep ==
  TypeInv /\ Counted /\ [Next]_vars =>
    Counted' /\ cursor' \in Nat /\ cursor \in Nat /\ (cursor' = cursor \/ cursor' = cursor + 1)
<1> SUFFICES ASSUME TypeInv, Counted, [Next]_vars
             PROVE  /\ Counted' /\ cursor' \in Nat /\ cursor \in Nat
                    /\ cursor' = cursor \/ cursor' = cursor + 1
  OBVIOUS
<1> USE DEF session, server, wires
<1>0. cursor \in Nat /\ ConstantsAssumption
  BY ConstantsAssumption DEF TypeInv, ConstantsAssumption
<1>1. CASE UNCHANGED <<cursor, faults, fleeting>>
  BY <1>0, <1>1 DEF Counted
<1>2. CASE Commit
  <2>1. cursor < MaxEvents /\ cursor' = cursor + 1 /\ UNCHANGED <<faults, fleeting>>
    BY <1>2 DEF Commit
  <2> QED
    BY <1>0, <2>1 DEF Counted, ConstantsAssumption
<1>6. CASE SendEphemeral
  BY <1>0, <1>6 DEF SendEphemeral, Counted, ConstantsAssumption
<1>3. CASE Restart \/ Break
  <2>1. faults < MaxFaults /\ faults' = faults + 1 /\ UNCHANGED <<cursor, fleeting>>
    BY <1>3 DEF Restart, Break
  <2> QED
    BY <1>0, <2>1 DEF Counted, ConstantsAssumption
<1>4. Server => UNCHANGED <<cursor, faults, fleeting>>
  BY DEF Server, AnswerSnapshot, Subscribe, ReadCredit, PumpSend, PumpDropEphemeral,
     PumpReceive, PumpOverflow
<1>5. Evict \/ Connect \/ Receive \/ Acknowledge \/ UNCHANGED vars
      => UNCHANGED <<cursor, faults, fleeting>>
  BY DEF Evict, Connect, Receive, ReceiveError, ReceiveSnapshot, ReceiveSubscribed, ReceiveEvent,
     Receiving, Advance, Acknowledge, vars
<1> QED
  BY <1>1, <1>2, <1>3, <1>4, <1>5, <1>6 DEF Next, Session

(* A mailbox gets an event only while it has room. *)
LEMMA RoomyStep == TypeInv /\ Roomy /\ [Next]_vars => Roomy'
<1> SUFFICES ASSUME TypeInv, Roomy, [Next]_vars PROVE Roomy'
  OBVIOUS
<1> USE DEF session, server, wires
<1>1. channel \in Channels /\ channel.mail \in Seq(Nat) /\ Len(channel.mail) \in Nat
      /\ Capacity \in Nat
  BY ConstantsAssumption DEF TypeInv, Channels
<1>2. CASE channel' = channel
  BY <1>2 DEF Roomy
<1>3. ASSUME NEW e \in Nat, FanOut(e) PROVE Roomy'
  <2>1. \/ channel'.mail = channel.mail
        \/ Len(channel.mail) < Capacity /\ channel'.mail = Append(channel.mail, e)
    BY <1>1, <1>3 DEF FanOut, Channels
  <2>2. Len(Append(channel.mail, e)) = Len(channel.mail) + 1
    BY <1>1
  <2> QED
    BY <1>1, <2>1, <2>2 DEF Roomy
<1>4. CASE Session
  <2>1. CASE Commit
    BY <1>3, <2>1 DEF Commit, TypeInv
  <2>2. CASE SendEphemeral
    BY <1>3, <2>2 DEF SendEphemeral, Ephemeral
  <2>3. CASE Evict \/ Restart
    BY <1>1, <1>2, <2>3, DropRange DEF Evict, Restart, Roomy
  <2> QED
    BY <1>4, <2>1, <2>2, <2>3 DEF Session
<1>5. CASE channel'.mail = <<>>
  BY <1>1, <1>5 DEF Roomy
<1>6. CASE Server
  <2>1. CASE PumpReceive
    <3>1. channel'.mail = Tail(channel.mail) /\ channel.mail # <<>>
      BY <1>1, <2>1 DEF PumpReceive, Channels
    <3>2. Len(channel'.mail) = Len(channel.mail) - 1
      BY <1>1, <3>1, HeadTailProperties
    <3> QED
      BY <1>1, <3>2 DEF Roomy
  <2>2. CASE Subscribe
    BY <1>2, <1>5, <2>2 DEF Subscribe, Refuse, Accept
  <2>3. CASE ~PumpReceive /\ ~Subscribe
    BY <1>2, <1>6, <2>3 DEF Server, AnswerSnapshot, ReadCredit, Refuse, PumpSend,
       PumpDropEphemeral, PumpOverflow
  <2> QED
    BY <2>1, <2>2, <2>3
<1>7. CASE Connect \/ Break \/ Receive \/ Acknowledge \/ UNCHANGED vars
  <2>1. Drop \/ channel' = channel
    BY <1>7 DEF Connect, Break, Receive, ReceiveError, ReceiveSnapshot, ReceiveSubscribed,
       ReceiveEvent, Advance, Recover, Acknowledge, vars
  <2> QED
    BY <2>1, <1>2, <1>5, DropRange
<1> QED
  BY <1>4, <1>6, <1>7 DEF Next

(* What is sent takes a credit, and an acknowledgement gives some back. *)
LEMMA CreditedStep == TypeInv /\ Ascending /\ Credited /\ [Next]_vars => Credited'
<1> SUFFICES ASSUME TypeInv, Ascending, Credited, [Next]_vars PROVE Credited'
  OBVIOUS
<1> USE DEF session, server, wires
<1>1. CASE pump'.out = pump.out /\ pump'.sent = pump.sent /\ pump'.acked = pump.acked
  BY <1>1 DEF Credited
<1>2. ASSUME pump'.out = {}, pump'.sent \in Nat, pump'.acked = pump'.sent PROVE Credited'
  BY <1>2, FS_EmptySet, ConstantsAssumption DEF Credited
<1>3. CASE PumpSend
  <2>1. /\ pump \in Pumps /\ pump.pending \in Nat /\ pump.sent \in Nat /\ pump.acked \in Nat
        /\ NextOf(pump).out = pump.out /\ NextOf(pump).sent = pump.sent
        /\ NextOf(pump).acked = pump.acked /\ NextOf(pump) \in Pumps
    BY <1>3, NextOfType DEF PumpSend, TypeInv, Pumps
  <2>2. CASE pump.pending = Ephemeral
    BY <1>1, <1>3, <2>1, <2>2 DEF PumpSend
  <2>3. CASE pump.pending # Ephemeral
    <3>1. /\ pump'.out = pump.out \cup {pump.pending} /\ pump'.sent = pump.pending
          /\ pump'.acked = pump.acked
      BY <1>3, <2>1, <2>3 DEF PumpSend, Pumps
    <3>2. pump.pending > pump.sent
      BY <2>1, <2>3, ConstantsAssumption DEF Ascending
    <3>3. IsFiniteSet(pump'.out) /\ Cardinality(pump'.out) <= Cardinality(pump.out) + 1
          /\ Cardinality(pump.out) \in Nat /\ Cardinality(pump'.out) \in Nat
      <4> DEFINE S == pump.out
                 T == S \cup {pump.pending}
      <4>1. IsFiniteSet(S)
        BY DEF Credited
      <4> HIDE DEF S
      <4>2. /\ IsFiniteSet(T)
            /\ Cardinality(T) = IF pump.pending \in S THEN Cardinality(S) ELSE Cardinality(S) + 1
        BY ONLY <4>1, FS_AddElement
      <4>3. Cardinality(S) \in Nat
        BY ONLY <4>1, FS_CardinalityType
      <4>4. Cardinality(T) \in Nat /\ Cardinality(T) <= Cardinality(S) + 1
        <5> HIDE DEF T
        <5> QED
          BY <4>2, <4>3
      <4> QED
        BY <3>1, <4>2, <4>3, <4>4 DEF S
    <3>4. Cardinality(pump'.out) <= Credits
      BY <1>3, <3>3, ConstantsAssumption DEF PumpSend, Available
    <3>5. pump'.out \subseteq 1 .. pump'.sent
      BY <2>1, <3>1, <3>2 DEF Credited
    <3>6. pump'.acked <= pump'.sent
      BY <2>1, <3>1, <3>2 DEF Credited
    <3> QED
      BY <3>3, <3>4, <3>5, <3>6 DEF Credited
  <2> QED
    BY <2>2, <2>3
<1>4. CASE ReadCredit
  <2> DEFINE n == Head(toServer).n
  <2>1. /\ n \in Nat /\ pump.sent \in Nat /\ pump.acked \in Nat
    BY <1>4, PopServer DEF ReadCredit, TypeInv, Pumps
  <2>2. CASE n > pump.sent
    BY <1>1, <1>4, <2>2 DEF ReadCredit, Refuse
  <2>3. CASE ~(n > pump.sent)
    <3>1. /\ pump'.out = {e \in pump.out : e > n} /\ pump'.sent = pump.sent
          /\ pump'.acked = Later(pump.acked, n)
      BY <1>4, <2>3 DEF ReadCredit, TypeInv, Pumps
    <3>2. pump'.out \in SUBSET pump.out
      BY <3>1
    <3>3. IsFiniteSet(pump'.out) /\ Cardinality(pump'.out) <= Cardinality(pump.out)
          /\ Cardinality(pump.out) \in Nat /\ Cardinality(pump'.out) \in Nat
      BY <3>2, FS_Subset, FS_CardinalityType DEF Credited
    <3>4. pump'.acked <= pump'.sent
      BY <2>1, <2>3, <3>1 DEF Later, Credited
    <3>5. Cardinality(pump'.out) <= Credits
      BY <3>3, ConstantsAssumption DEF Credited
    <3>6. pump'.out \subseteq 1 .. pump'.sent
      BY <3>1, <3>2 DEF Credited
    <3> QED
      BY <3>3, <3>4, <3>5, <3>6 DEF Credited
  <2> QED
    BY <2>2, <2>3
<1>5. CASE Subscribe
  <2>1. PICK after \in Nat : after = Head(toServer).n
    BY <1>5, PopServer DEF Subscribe
  <2>2. Accept(after) \/ UNCHANGED server
    BY <1>5, <2>1 DEF Subscribe, Refuse
  <2>3. Accept(after) => pump'.out = {} /\ pump'.sent = after /\ pump'.acked = after
    BY DEF Accept
  <2> QED
    BY <1>1, <1>2, <2>1, <2>2, <2>3
<1>6. CASE PumpDropEphemeral
  BY <1>1, <1>6, NextOfType DEF PumpDropEphemeral, TypeInv
<1>7. CASE PumpReceive
  BY <1>1, <1>7 DEF PumpReceive, TypeInv, Pumps
<1>8. CASE PumpOverflow
  BY <1>2, <1>8 DEF PumpOverflow, NoPump
<1>9. CASE AnswerSnapshot \/ Connect \/ Acknowledge \/ Commit \/ SendEphemeral \/ Evict
           \/ UNCHANGED vars
  BY <1>1, <1>9 DEF AnswerSnapshot, Connect, Acknowledge, Commit, SendEphemeral, Evict, vars
<1>10. CASE Restart \/ Break \/ Receive
  <2>1. Drop \/ pump' = pump
    BY <1>10 DEF Restart, Break, Receive, ReceiveError, ReceiveSnapshot, ReceiveSubscribed,
       ReceiveEvent, Advance, Recover
  <2>2. Drop => pump'.out = {} /\ pump'.sent = 0 /\ pump'.acked = 0
    BY DEF Drop, NoPump
  <2> QED
    BY <1>1, <1>2, <2>1, <2>2
<1> QED
  BY <1>3, <1>4, <1>5, <1>6, <1>7, <1>8, <1>9, <1>10 DEF Next, Session, Server

(* A connection that is made anew speaks of nothing. *)
LEMMA RecoverKnown ==
  ASSUME TypeInv, Known, NEW reset, Recover(reset), UNCHANGED session
  PROVE  Known'
<1>1. Range(toReader') = {} /\ Range(toServer') = {}
  BY DropRange DEF Recover
<1>2. reader'.acked = reader.acked /\ view' = view /\ cursor' = cursor
  BY DEF Recover, TypeInv, Readers, session
<1> QED
  BY <1>1, <1>2 DEF Known

(* Every step keeps Known: what is asked and answered is taken from a state *)
(* that the session has reached.                                            *)
LEMMA KnownStep ==
  TypeInv /\ Knows /\ Behind /\ Windowed /\ Counted /\ Known /\ [Next]_vars => Known'
<1> SUFFICES ASSUME TypeInv, Knows, Behind, Windowed, Counted, Known, [Next]_vars PROVE Known'
  OBVIOUS
<1> USE DEF session, server, wires
<1>1. cursor' \in Nat /\ cursor \in Nat /\ cursor' >= cursor
  BY CountedStep
<1>2. /\ \A f \in Range(toReader) : f.n <= cursor' + 1
      /\ \A f \in Range(toServer) : f.n <= cursor'
      /\ reader.acked <= cursor' /\ Len(view) <= cursor'
  <2>1. reader.acked \in Nat /\ Len(view) \in Nat
    BY DEF TypeInv, Readers
  <2> QED
    BY <1>1, <2>1, ItemsType DEF Known
<1>3. CASE UNCHANGED <<wires, reader, view>>
  BY <1>2, <1>3 DEF Known
<1>4. CASE Commit \/ SendEphemeral \/ Evict \/ PumpDropEphemeral \/ PumpReceive \/ UNCHANGED vars
  BY <1>3, <1>4 DEF Commit, SendEphemeral, Evict, PumpDropEphemeral, PumpReceive, vars
<1>5. CASE Restart
  <2>1. Range(toReader') = {} /\ Range(toServer') = {}
    BY <1>5, DropRange DEF Restart
  <2>2. reader'.acked = reader.acked /\ view' = view
    BY <1>5 DEF Restart, TypeInv, Readers
  <2> QED
    BY <1>2, <2>1, <2>2 DEF Known
<1>6. ASSUME NEW t \in Types, NEW n \in Nat, n <= cursor + 1,
             toReader' = Append(toReader, Frame(t, n)) \/ toReader' = toReader,
             Range(toServer') \subseteq Range(toServer), UNCHANGED <<reader, view>>
      PROVE  Known'
  <2>1. Range(toReader') \subseteq Range(toReader) \cup {Frame(t, n)}
    <3>1. CASE toReader' = Append(toReader, Frame(t, n))
      BY <3>1, PushReader
    <3>2. CASE toReader' = toReader
      BY <3>2
    <3> QED
      BY <1>6, <3>1, <3>2
  <2>2. Frame(t, n).n <= cursor' + 1
    <3>1. Frame(t, n).n = n
      BY DEF Frame
    <3>2. PICK c \in Nat, d \in Nat : c = cursor /\ d = cursor' /\ d >= c
      BY <1>1
    <3>3. n <= c + 1 /\ d >= c
      BY <1>6, <3>2
    <3>4. n <= d + 1
      BY ONLY <3>3
    <3> QED
      BY <3>1, <3>2, <3>4
  <2> QED
    BY <1>2, <1>6, <2>1, <2>2 DEF Known
<1>7. CASE AnswerSnapshot
  BY <1>1, <1>6, <1>7, PopServer DEF AnswerSnapshot, Types
<1>8. CASE Subscribe
  <2>1. Range(toServer') \subseteq Range(toServer) /\ UNCHANGED <<reader, view>>
    BY <1>8, PopServer DEF Subscribe
  <2>2. \/ toReader' = Append(toReader, Frame("INVALID_COMMAND", 0))
        \/ toReader' = Append(toReader, Frame("CURSOR_EXPIRED", 0))
        \/ toReader' = Append(toReader, Frame("snapshot", retained))
    BY <1>8 DEF Subscribe, Refuse, Accept
  <2>3. retained \in Nat /\ retained <= cursor + 1
    BY <1>1 DEF Windowed
  <2>4. {"INVALID_COMMAND", "CURSOR_EXPIRED", "snapshot"} \subseteq Types
    BY DEF Types, ResetCodes, OtherCodes
  <2>5. 0 \in Nat /\ 0 <= cursor + 1
    BY <1>1
  <2> QED
    BY <1>6, <2>1, <2>2, <2>3, <2>4, <2>5
<1>9. CASE ReadCredit
  <2>1. Range(toServer') \subseteq Range(toServer) /\ UNCHANGED <<reader, view>>
    BY <1>9, PopServer DEF ReadCredit
  <2>2. \/ toReader' = Append(toReader, Frame("INVALID_CREDIT", 0))
        \/ toReader' = toReader
    BY <1>9 DEF ReadCredit, Refuse
  <2>3. "INVALID_CREDIT" \in Types /\ 0 <= cursor + 1
    BY <1>1 DEF Types, OtherCodes
  <2> QED
    BY <1>6, <2>1, <2>2, <2>3
<1>10. CASE PumpSend
  <2>1. pump.pending \in Nat /\ pump.pending <= cursor + 1
    <3>1. pump.pending \in Nat /\ Len(pump.backlog) \in Nat
      BY <1>10 DEF PumpSend, TypeInv, Pumps
    <3> QED
      BY <1>1, <1>10, <3>1 DEF Behind, PumpSend
  <2> QED
    BY <1>6, <1>10, <2>1 DEF PumpSend, Types
<1>11. CASE PumpOverflow
  <2>1. "RESYNC_REQUIRED" \in Types /\ 0 <= cursor + 1
    BY <1>1 DEF Types, ResetCodes
  <2> QED
    BY <1>6, <1>11, <2>1 DEF PumpOverflow
<1>12. ASSUME NEW t \in {"ui_snapshot", "subscribe", "credit"}, NEW n \in Nat, n <= cursor,
              Range(toServer') \subseteq Range(toServer) \cup {Frame(t, n)},
              reader'.acked = n \/ reader'.acked = reader.acked,
              Range(toReader') \subseteq Range(toReader),
              view' = view \/ view' = UpTo(n)
      PROVE  Known'
  <2>1. Frame(t, n).n <= cursor' /\ n <= cursor'
    BY <1>1, <1>12 DEF Frame
  <2>2. Len(view') <= cursor'
    BY <1>2, <1>12, <2>1, UpToType
  <2> QED
    BY <1>2, <1>12, <2>1, <2>2 DEF Known
<1>13. CASE Connect
  <2> DEFINE n == IF reader.cursor = None THEN 0 ELSE reader.cursor
  <2>1. n \in Nat /\ n <= cursor
    BY <1>1 DEF Behind, TypeInv, Readers
  <2>2. \E t \in {"ui_snapshot", "subscribe", "credit"} : toServer' = <<Frame(t, n)>>
    BY <1>13 DEF Connect
  <2>3. reader'.acked = n /\ toReader' = toReader /\ view' = view
    BY <1>13 DEF Connect, TypeInv, Readers
  <2> HIDE DEF n
  <2>4. PICK t \in {"ui_snapshot", "subscribe", "credit"} : Range(toServer') = {Frame(t, n)}
    BY <2>2, RangeSmall
  <2> QED
    BY <1>12, <2>1, <2>3, <2>4
<1>14. CASE Acknowledge
  <2>1. reader.cursor \in Nat /\ reader.cursor <= cursor
    BY <1>14 DEF Acknowledge, Knows, Behind, TypeInv, Readers
  <2>2. Range(toServer') = Range(toServer) \cup {Frame("credit", reader.cursor)}
    BY <1>14, <2>1, PushServer DEF Acknowledge
  <2>3. reader'.acked = reader.cursor /\ toReader' = toReader /\ view' = view
    BY <1>14 DEF Acknowledge, TypeInv, Readers
  <2> QED
    BY <1>12, <2>1, <2>2, <2>3
<1>15. CASE Advance
  BY <1>2, <1>15 DEF Advance, TypeInv, Readers, Known
<1>16. CASE Break
  BY <1>16, RecoverKnown DEF Break
<1>17. CASE ReceiveError
  BY <1>17, RecoverKnown DEF ReceiveError, Receiving
<1>18. CASE ReceiveSnapshot
  <2>1. PICK n \in Nat : n = Head(toReader).n /\ n <= cursor
    BY <1>18, PopReader DEF ReceiveSnapshot, Receiving, Behind
  <2>2. /\ Range(toReader') \subseteq Range(toReader) /\ view' = UpTo(n)
        /\ toServer' = Append(toServer, Frame("subscribe", n))
    BY <1>18, <2>1, PopReader DEF ReceiveSnapshot, Receiving
  <2>3. Range(toServer') = Range(toServer) \cup {Frame("subscribe", n)}
    BY <2>2, PushServer
  <2>4. reader'.acked = n
    BY <1>18, <2>1 DEF ReceiveSnapshot, TypeInv, Readers
  <2> QED
    BY <1>12, <2>1, <2>2, <2>3, <2>4
<1>19. CASE ReceiveSubscribed
  <2>1. CASE Head(toReader).n > reader.cursor + 1
    BY <1>19, <2>1, RecoverKnown DEF ReceiveSubscribed, Receiving
  <2>2. CASE ~(Head(toReader).n > reader.cursor + 1)
    <3>1. Range(toReader') \subseteq Range(toReader) /\ toServer' = toServer /\ view' = view
      BY <1>19, <2>2, PopReader DEF ReceiveSubscribed, Receiving
    <3>2. reader'.acked = reader.acked
      BY <1>19, <2>2 DEF ReceiveSubscribed, TypeInv, Readers
    <3> QED
      BY <1>2, <3>1, <3>2 DEF Known
  <2> QED
    BY <2>1, <2>2
<1>20. CASE ReceiveEvent
  <2>1. CASE Head(toReader).n > reader.cursor + 1
    BY <1>20, <2>1, RecoverKnown DEF ReceiveEvent, Receiving
  <2>2. CASE ~(Head(toReader).n > reader.cursor + 1)
    <3>1. /\ Range(toReader') \subseteq Range(toReader) /\ toServer' = toServer
          /\ Head(toReader) \in Range(toReader) /\ Head(toReader).type = "event"
          /\ Head(toReader).n \in Nat
      BY <1>20, <2>2, PopReader DEF ReceiveEvent, Receiving
    <3>2. Head(toReader).n <= cursor
      BY <3>1 DEF Behind
    <3>3. reader'.acked = reader.acked
      BY <1>20, <2>2 DEF ReceiveEvent, TypeInv, Readers
    <3>4. \/ view' = view
          \/ Head(toReader).n > Len(view) /\ view' = Append(view, Head(toReader).n)
      BY <1>20, <2>2, <3>1 DEF ReceiveEvent, Project, TypeInv
    <3>5. Len(view') <= cursor'
      BY <1>1, <1>2, <3>1, <3>2, <3>4 DEF TypeInv
    <3> QED
      BY <1>2, <3>1, <3>3, <3>5 DEF Known
  <2> QED
    BY <2>1, <2>2
<1> QED
  BY <1>4, <1>5, <1>7, <1>8, <1>9, <1>10, <1>11, <1>13, <1>14, <1>15, <1>16, <1>17, <1>18, <1>19,
     <1>20
  DEF Next, Session, Server, Receive

(* A sequence whose elements are all in a set is a sequence over it. *)
LEMMA SeqOver ==
  ASSUME NEW S, NEW T, NEW s \in Seq(S), Range(s) \subseteq T
  PROVE  s \in Seq(T)
<1>1. Len(s) \in Nat /\ s = [i \in 1 .. Len(s) |-> s[i]] /\ \A i \in 1 .. Len(s) : s[i] \in T
  BY LenProperties DEF Range
<1>2. s \in [1 .. Len(s) -> T]
  BY <1>1
<1> QED
  BY <1>1, <1>2, SeqDef

(* The bounds of the type invariant follow from the parts. *)
LEMMA TypeOKFollows ==
  /\ TypeInv /\ Applied /\ ViewIsPrefix /\ Behind /\ Ascending /\ Windowed
  /\ Counted /\ Roomy /\ Credited /\ Known
  => TypeOK
<1> SUFFICES ASSUME TypeInv, Applied, ViewIsPrefix, Behind, Ascending, Windowed,
                    Counted, Roomy, Credited, Known
             PROVE  TypeOK
  OBVIOUS
<1>1. cursor \in 0 .. MaxEvents /\ retained \in 1 .. cursor + 1 /\ first \in retained .. cursor + 1
  BY ConstantsAssumption DEF Counted, Windowed, TypeInv
<1>2. PICK c \in Nat : c = cursor
  BY DEF TypeInv
<1>3. /\ channel.open \in BOOLEAN /\ channel.mail \in Seq(0 .. c)
      /\ channel = [open |-> channel.open, mail |-> channel.mail]
  <2>1. /\ channel.mail \in Seq(Nat)
        /\ Range(channel.mail) = {channel.mail[i] : i \in 1 .. Len(channel.mail)}
    BY LenProperties DEF TypeInv, Channels, Range
  <2>2. \A i \in 1 .. Len(channel.mail) : channel.mail[i] \in 0 .. c
    BY <1>2, <2>1, ElementOfSeq DEF Behind
  <2>3. channel.mail \in Seq(0 .. c)
    BY <2>1, <2>2, SeqOver
  <2> QED
    BY <2>3 DEF TypeInv, Channels
<1>4. channel \in [open : BOOLEAN, mail : Seq(0 .. cursor)]
  BY <1>2, <1>3
<1>5. /\ pump.on \in BOOLEAN /\ pump.pending \in 0 .. c \cup {None}
      /\ pump.out \in SUBSET (1 .. c) /\ pump.sent \in 0 .. c /\ pump.acked \in 0 .. c
  <2>1. /\ pump.on \in BOOLEAN /\ pump.pending \in Nat \cup {None} /\ Len(pump.backlog) \in Nat
        /\ pump.sent \in Nat /\ pump.acked \in Nat
    BY DEF TypeInv, Pumps
  <2>2. pump.pending \in 0 .. c \cup {None}
    BY <1>2, <2>1 DEF Behind
  <2>3. pump.sent \in 0 .. c /\ pump.acked \in 0 .. c
    BY <1>2, <2>1 DEF Behind, Credited
  <2>4. pump.out \in SUBSET (1 .. c)
    BY <1>2, <2>3 DEF Credited
  <2> QED
    BY <2>1, <2>2, <2>3, <2>4
<1>6. pump.backlog \in Seq(1 .. c)
  <2>1. /\ pump.backlog \in Seq(Nat) /\ Len(pump.backlog) \in Nat
        /\ Range(pump.backlog) = {pump.backlog[i] : i \in 1 .. Len(pump.backlog)}
    BY LenProperties DEF TypeInv, Pumps, Range
  <2>2. ASSUME NEW i \in 1 .. Len(pump.backlog)
        PROVE  pump.backlog[i] \in 1 .. c
    <3>1. pump.backlog # <<>>
      BY EmptyMail
    <3>2. pump.pending \in Nat /\ pump.backlog[i] = pump.pending + i
      BY <3>1 DEF Ascending, InOrder, TypeInv, Pumps
    <3>3. pump.pending + Len(pump.backlog) <= c
      BY <1>2, <3>1 DEF Behind, Ascending, InOrder
    <3> QED
      BY <1>2, <2>1, <3>2, <3>3
  <2>3. Range(pump.backlog) \subseteq 1 .. c
    BY <2>1, <2>2
  <2> QED
    BY <2>1, <2>3, SeqOver
<1>7. pump \in [on : BOOLEAN, backlog : Seq(1 .. cursor), pending : 0 .. cursor \cup {None},
                out : SUBSET (1 .. cursor), sent : 0 .. cursor, acked : 0 .. cursor]
  <2>1. pump = [on |-> pump.on, backlog |-> pump.backlog, pending |-> pump.pending,
                out |-> pump.out, sent |-> pump.sent, acked |-> pump.acked]
    BY DEF TypeInv, Pumps
  <2> QED
    BY <1>2, <1>5, <1>6, <2>1
<1>8. toReader \in Seq([type : Types, n : 0 .. cursor + 1])
  <2> DEFINE T == [type : Types, n : 0 .. c + 1]
  <2>1. ASSUME NEW f \in Range(toReader) PROVE f \in T
    <3>1. f \in Entry /\ f.n <= c + 1
      BY <1>2, RangeType DEF TypeInv, Known
    <3>2. f = [type |-> f.type, n |-> f.n] /\ f.type \in Types /\ f.n \in 0 .. c + 1
      BY <1>2, <3>1 DEF Entry
    <3> QED
      BY <3>2
  <2> HIDE DEF T
  <2>2. toReader \in Seq(T)
    BY <2>1, SeqOver DEF TypeInv
  <2> QED
    BY <1>2, <2>2 DEF T
<1>9. toServer \in Seq([type : {"ui_snapshot", "subscribe", "credit"}, n : 0 .. cursor])
  <2> DEFINE T == [type : {"ui_snapshot", "subscribe", "credit"}, n : 0 .. c]
  <2>1. ASSUME NEW f \in Range(toServer) PROVE f \in T
    <3>1. f \in Request /\ f.n <= c
      BY <1>2, RangeType DEF TypeInv, Known
    <3>2. /\ f = [type |-> f.type, n |-> f.n] /\ f.n \in 0 .. c
          /\ f.type \in {"ui_snapshot", "subscribe", "credit"}
      BY <1>2, <3>1 DEF Request
    <3> QED
      BY <3>2
  <2> HIDE DEF T
  <2>2. toServer \in Seq(T)
    BY <2>1, SeqOver DEF TypeInv
  <2> QED
    BY <1>2, <2>2 DEF T
<1>10. reader \in [state : {"closed", "open", "live"}, cursor : 0 .. cursor \cup {None},
                   acked : 0 .. cursor, applying : 0 .. cursor \cup {None}]
  <2>1. reader = [state |-> reader.state, cursor |-> reader.cursor, acked |-> reader.acked,
                  applying |-> reader.applying]
        /\ reader.state \in {"closed", "open", "live"}
    BY DEF TypeInv, Readers
  <2>2. reader.cursor \in 0 .. c \cup {None}
    BY <1>2 DEF TypeInv, Readers, Behind
  <2>3. reader.applying \in 0 .. c \cup {None}
    BY <1>2 DEF TypeInv, Readers, Behind
  <2>4. reader.acked \in 0 .. c
    BY <1>2 DEF TypeInv, Readers, Known
  <2> QED
    BY <1>2, <2>1, <2>2, <2>3, <2>4
<1>11. view \in Seq(1 .. cursor)
  <2>1. /\ view \in Seq(Nat) /\ Len(view) \in Nat /\ Len(view) <= c
        /\ Range(view) = {view[i] : i \in 1 .. Len(view)}
    BY <1>2, LenProperties DEF TypeInv, Known, Range
  <2>2. \A i \in 1 .. Len(view) : view[i] \in 1 .. c
    BY <2>1 DEF ViewIsPrefix
  <2>3. Range(view) \subseteq 1 .. c
    BY <2>1, <2>2
  <2> QED
    BY <1>2, <2>1, <2>3, SeqOver
<1>12. Len(channel.mail) <= Capacity
  BY DEF Roomy
<1>13. Cardinality(pump.out) <= Credits
  BY DEF Credited
<1>14. faults \in 0 .. MaxFaults /\ fleeting \in 0 .. MaxFleeting
  BY DEF Counted
<1> QED
  BY <1>1, <1>4, <1>7, <1>8, <1>9, <1>10, <1>11, <1>12, <1>13, <1>14 DEF TypeOK

(* The inductive invariant. *)
IInv ==
  /\ TypeInv /\ Knows /\ Handshake /\ Behind /\ Ascending /\ Sent /\ Applied
  /\ ViewIsPrefix /\ Fair
  /\ Windowed /\ Gapless
  /\ Counted /\ Roomy /\ Credited /\ Known

(* It holds at the start. *)
LEMMA InitHolds == Init => IInv
<1> SUFFICES ASSUME Init PROVE IInv
  OBVIOUS
<1>1. TypeInv
  BY ConstantsAssumption
  DEF Init, TypeInv, NoChannel, NoPump, Channels, Pumps, Readers
<1>2. Knows /\ Handshake /\ Applied /\ ViewIsPrefix /\ Fair
  BY RangeSmall DEF Init, Knows, Handshake, Applied, ViewIsPrefix, Fair, Quiet, NoPump
<1>3. Behind /\ Ascending /\ Sent
  BY RangeSmall, EmptyMail
  DEF Init, Behind, Ascending, Sent, InOrder, NoPump, NoChannel, Ephemeral
<1>4. Windowed
  BY DEF Init, Windowed
<1>5. Gapless
  <2>1. Due = {} /\ ~channel.open
    BY RangeSmall DEF Init, Due, NoPump, NoChannel
  <2> QED
    BY <2>1 DEF Gapless
<1>6. Counted
  BY ConstantsAssumption DEF Init, Counted
<1>7. Roomy
  BY ConstantsAssumption DEF Init, Roomy, NoChannel
<1>8. Credited
  BY FS_EmptySet, ConstantsAssumption DEF Init, Credited, NoPump
<1>9. Known
  BY RangeSmall DEF Init, Known
<1> QED
  BY <1>1, <1>2, <1>3, <1>4, <1>5, <1>6, <1>7, <1>8, <1>9 DEF IInv

(* It holds in every state. *)
THEOREM InvariantHolds == Spec => []IInv
<1>1. IInv /\ [Next]_vars => IInv'
  BY TypeStep, KnowsStep, HandshakeStep, BehindStep, AscendingStep, SentStep, AppliedStep, FairStep,
     WindowedStep, GaplessStep, CountedStep, RoomyStep, CreditedStep, KnownStep
  DEF IInv
<1> QED
  BY <1>1, InitHolds, PTL DEF Spec

(* Everything has its type: no mailbox exceeds its capacity, no subscription *)
(* its credits, and nobody speaks of an event that the session does not have. *)
THEOREM TypeOKHolds == Spec => []TypeOK
<1>1. IInv => TypeOK
  BY TypeOKFollows DEF IInv
<1> QED
  BY <1>1, InvariantHolds, PTL

(* What a subscription still has to send is in order and has no gap, and     *)
(* while its mailbox is registered it reaches to the last event: no event    *)
(* falls between the replayed events and the live ones.                      *)
THEOREM FeedIsCompleteHolds == Spec => []FeedIsComplete
<1>1. IInv => FeedIsComplete
  BY FeedComplete DEF IInv
<1> QED
  BY <1>1, InvariantHolds, PTL

(* What the user interface has applied are the first events of the session, *)
(* each once and in order, whatever breaks, restarts, overflows or expires. *)
THEOREM ViewIsPrefixHolds == Spec => []ViewIsPrefix
<1>1. IInv => ViewIsPrefix
  BY DEF IInv
<1> QED
  BY <1>1, InvariantHolds, PTL

(* No reader is told that its cursor is ahead of the session, or that it  *)
(* acknowledged what was not sent: it could only come back with the same. *)
THEOREM NeverMisjudgedHolds == Spec => []NeverMisjudged
<1>1. IInv => NeverMisjudged
  BY FairIsNeverMisjudged DEF IInv
<1> QED
  BY <1>1, InvariantHolds, PTL
=============================================================================
