---------------------------- MODULE EventFanout ----------------------------
(***************************************************************************)
(* The events of one session on their way to one reader.  The session      *)
(* keeps the last events in memory and puts each new one into the mailbox  *)
(* of every subscription; a task per subscription sends what its reader    *)
(* has not acknowledged yet, up to a number of credits.  A mailbox that is *)
(* full ends the subscription, and a reader that missed something starts   *)
(* again from a snapshot.  The reader applies a record first and advances  *)
(* its cursor after an await, so a connection that is replaced in between  *)
(* gets the record a second time.                                          *)
(*                                                                         *)
(* Events are their sequence numbers, and their bytes are not counted: the *)
(* limits on bytes refuse and stop like those on numbers.  The reader runs *)
(* on the same machine as the sidecar: it dies when the power goes, so the *)
(* log it follows never gets shorter.                                      *)
(***************************************************************************)
EXTENDS Integers, SequencesExt

CONSTANTS Window,     \* EVENT_WINDOW
          Capacity,   \* SUBSCRIBER_CAPACITY
          Credits,    \* events of a CreditWindow
          MaxEvents,  \* bound: events of the session
          MaxFaults,  \* bound: broken connections and restarts of the sidecar
          MaxFleeting,  \* bound: ephemeral frames
          None

ASSUME ConstantsAssumption ==
  /\ {Window, Capacity, Credits} \subseteq Nat \ {0}
  /\ {MaxEvents, MaxFaults, MaxFleeting} \subseteq Nat
  /\ None \notin Nat

VARIABLES
  cursor,    \* SnapshotCond.cursor: the last committed event
  retained,  \* SnapshotCond.retained_from
  first,     \* the oldest event that is in memory
  channel,   \* the subscription's mailbox: still registered, and its contents
  pump,      \* handle_wire_subscription: backlog, pending event, credit window
  toReader,  \* frames on the way to the reader
  toServer,  \* frames on the way to the sidecar
  reader,    \* RustRuntimeConnection: state, cursor, last credit, record being applied
  view,      \* RuntimeStreamProjector: what it has let through
  faults,
  fleeting   \* ephemeral frames so far

session == <<cursor, retained, first>>
server == <<channel, pump>>
wires == <<toReader, toServer>>
vars == <<session, server, wires, reader, view, faults, fleeting>>

Ephemeral == 0

NoChannel == [open |-> FALSE, mail |-> <<>>]
NoPump == [on |-> FALSE, backlog |-> <<>>, pending |-> None,
           out |-> {}, sent |-> 0, acked |-> 0]

Init ==
  /\ cursor = 0 /\ retained = 1 /\ first = 1
  /\ channel = NoChannel /\ pump = NoPump
  /\ toReader = <<>> /\ toServer = <<>>
  /\ reader = [state |-> "closed", cursor |-> None, acked |-> 0, applying |-> None]
  /\ view = <<>>
  /\ faults = 0 /\ fleeting = 0

UpTo(n) == [i \in 1 .. n |-> i]
Since(n) == [i \in 1 .. cursor - n |-> n + i]
Frame(type, n) == [type |-> type, n |-> n]

(***************************************************************************)
(* The session                                                             *)
(***************************************************************************)

WindowStart(last) == IF last > Window THEN last - Window + 1 ELSE 1
Later(a, b) == IF a > b THEN a ELSE b

(* Mutant: a full mailbox only loses the event. *)
FanOutLossy(event) == channel' =
  IF channel.open /\ Len(channel.mail) < Capacity
  THEN [channel EXCEPT !.mail = Append(@, event)] ELSE channel

(* A subscription whose mailbox is full is dropped; its task still finds   *)
(* what the mailbox holds.                                                 *)
FanOut(event) == channel' =
  IF ~channel.open THEN channel
  ELSE IF Len(channel.mail) < Capacity
       THEN [channel EXCEPT !.mail = Append(@, event)]
       ELSE [channel EXCEPT !.open = FALSE]

Commit ==
  /\ cursor < MaxEvents
  /\ cursor' = cursor + 1
  /\ retained' = WindowStart(cursor')
  /\ first' = Later(first, retained')
  /\ FanOut(cursor')
  /\ UNCHANGED <<pump, wires, reader, view, faults, fleeting>>

(* A frame that is never stored. *)
SendEphemeral ==
  /\ channel.open
  /\ fleeting < MaxFleeting /\ fleeting' = fleeting + 1
  /\ FanOut(Ephemeral)
  /\ UNCHANGED <<session, pump, wires, reader, view, faults>>

(* What the sidecar holds of the connection is gone with it. *)
Drop ==
  /\ channel' = NoChannel /\ pump' = NoPump
  /\ toReader' = <<>> /\ toServer' = <<>>

(* A session in the old format may be loaded without the events before its *)
(* last snapshot.                                                          *)
Load ==
  /\ first' \in {WindowStart(cursor), cursor + 1}
  /\ retained' = first'

(* A session that nobody is subscribed to is evicted and loaded again.     *)
Evict ==
  /\ ~channel.open
  /\ Load
  /\ UNCHANGED <<cursor, server, wires, reader, view, faults, fleeting>>

(* The sidecar restarts. *)
Restart ==
  /\ faults < MaxFaults /\ faults' = faults + 1
  /\ Load
  /\ Drop
  /\ reader' = [reader EXCEPT !.state = "closed", !.applying = None]
  /\ UNCHANGED <<cursor, view, fleeting>>

(***************************************************************************)
(* The subscription in the sidecar                                         *)
(***************************************************************************)

AnswerSnapshot ==
  /\ toServer # <<>> /\ Head(toServer).type = "ui_snapshot"
  /\ toServer' = Tail(toServer)
  /\ toReader' = Append(toReader, Frame("ui_snapshot", cursor))
  /\ UNCHANGED <<session, server, reader, view, faults, fleeting>>

(* What is in memory after the reader's cursor. *)
Backlog(after) == Since(Later(after, first - 1))

Refuse(code) ==
  /\ toReader' = Append(toReader, Frame(code, 0))
  /\ UNCHANGED server

(* Under the lock of the session, so no event falls between the backlog    *)
(* and the mailbox.                                                        *)
Accept(after) == LET backlog == Backlog(after) IN
  /\ channel' = [open |-> TRUE, mail |-> <<>>]
  /\ pump' = [on |-> TRUE, backlog |-> IF backlog = <<>> THEN <<>> ELSE Tail(backlog),
              pending |-> IF backlog = <<>> THEN None ELSE Head(backlog),
              out |-> {}, sent |-> after, acked |-> after]
  /\ toReader' = Append(toReader, Frame("snapshot", retained))

Subscribe ==
  /\ toServer # <<>> /\ Head(toServer).type = "subscribe"
  /\ toServer' = Tail(toServer)
  /\ LET after == Head(toServer).n IN
       IF after > cursor THEN Refuse("INVALID_COMMAND")
       ELSE IF after + 1 < retained THEN Refuse("CURSOR_EXPIRED")
       ELSE Accept(after)
  /\ UNCHANGED <<session, reader, view, faults, fleeting>>

ReadCredit ==
  /\ pump.on /\ toServer # <<>> /\ Head(toServer).type = "credit"
  /\ toServer' = Tail(toServer)
  /\ LET through == Head(toServer).n IN
       IF through > pump.sent THEN Refuse("INVALID_CREDIT")
       ELSE /\ pump' = [pump EXCEPT !.acked = Later(@, through),
                                    !.out = {e \in @ : e > through}]
            /\ UNCHANGED <<channel, toReader>>
  /\ UNCHANGED <<session, reader, view, faults, fleeting>>

NextOf(p) == IF p.backlog = <<>> THEN [p EXCEPT !.pending = None]
             ELSE [p EXCEPT !.pending = Head(p.backlog), !.backlog = Tail(p.backlog)]

Available == Cardinality(pump.out) < Credits

(* Mutant: events are sent whatever the reader has acknowledged. *)
PumpSendFreely ==
  /\ pump.on /\ pump.pending # None
  /\ toReader' = Append(toReader, Frame("event", pump.pending))
  /\ pump' = IF pump.pending = Ephemeral THEN NextOf(pump)
             ELSE [NextOf(pump) EXCEPT !.out = @ \cup {pump.pending}, !.sent = pump.pending]
  /\ UNCHANGED <<session, channel, toServer, reader, view, faults, fleeting>>

(* Mutant: the last sent event is noted only while nothing is outstanding. *)
PumpSendUnnoted ==
  /\ pump.on /\ pump.pending # None
  /\ Available
  /\ toReader' = Append(toReader, Frame("event", pump.pending))
  /\ pump' = IF pump.pending = Ephemeral THEN NextOf(pump)
             ELSE [NextOf(pump) EXCEPT !.out = @ \cup {pump.pending},
                                       !.sent = IF pump.out = {} THEN pump.pending ELSE @]
  /\ UNCHANGED <<session, channel, toServer, reader, view, faults, fleeting>>

PumpSend ==
  /\ pump.on /\ pump.pending # None
  /\ Available
  /\ toReader' = Append(toReader, Frame("event", pump.pending))
  /\ pump' = IF pump.pending = Ephemeral THEN NextOf(pump)
             ELSE [NextOf(pump) EXCEPT !.out = @ \cup {pump.pending}, !.sent = pump.pending]
  /\ UNCHANGED <<session, channel, toServer, reader, view, faults, fleeting>>

PumpDropEphemeral ==
  /\ pump.on /\ pump.pending = Ephemeral
  /\ ~Available
  /\ pump' = NextOf(pump)
  /\ UNCHANGED <<session, channel, wires, reader, view, faults, fleeting>>

PumpReceive ==
  /\ pump.on /\ pump.pending = None /\ channel.mail # <<>>
  /\ pump' = [pump EXCEPT !.pending = Head(channel.mail)]
  /\ channel' = [channel EXCEPT !.mail = Tail(@)]
  /\ UNCHANGED <<session, wires, reader, view, faults, fleeting>>

(* Mutant: the task ends without a word. *)
PumpOverflowSilent ==
  /\ pump.on /\ pump.pending = None /\ channel.mail = <<>> /\ ~channel.open
  /\ pump' = NoPump
  /\ UNCHANGED <<session, channel, wires, reader, view, faults, fleeting>>

PumpOverflow ==
  /\ pump.on /\ pump.pending = None /\ channel.mail = <<>> /\ ~channel.open
  /\ pump' = NoPump
  /\ toReader' = Append(toReader, Frame("RESYNC_REQUIRED", 0))
  /\ UNCHANGED <<session, channel, toServer, reader, view, faults, fleeting>>

(***************************************************************************)
(* The reader                                                              *)
(***************************************************************************)

Connect ==
  /\ reader.state = "closed"
  /\ reader' = [reader EXCEPT !.state = "open",
                              !.acked = IF reader.cursor = None THEN 0 ELSE reader.cursor]
  /\ toServer' = <<IF reader.cursor = None THEN Frame("ui_snapshot", 0)
                   ELSE Frame("subscribe", reader.cursor)>>
  /\ UNCHANGED <<session, server, toReader, view, faults, fleeting>>

(* recover: the connection is made anew, from a snapshot if it was reset. *)
Recover(reset) ==
  /\ Drop
  /\ reader' = [reader EXCEPT !.state = "closed", !.applying = None,
                              !.cursor = IF reset THEN None ELSE @]
  /\ UNCHANGED view

(* The socket fails, a heartbeat is missed, or the window wakes up. *)
Break ==
  /\ faults < MaxFaults /\ faults' = faults + 1
  /\ reader.state # "closed"
  /\ Recover(FALSE)
  /\ UNCHANGED <<session, fleeting>>

ResetCodes == {"RESYNC_REQUIRED", "CURSOR_EXPIRED"}
OtherCodes == {"INVALID_COMMAND", "INVALID_CREDIT"}

Receiving(type) ==
  /\ reader.applying = None
  /\ toReader # <<>> /\ Head(toReader).type = type
  /\ UNCHANGED <<session, faults, fleeting>>

ReceiveError == \E code \in ResetCodes \cup OtherCodes :
  /\ Receiving(code)
  /\ Recover(code \in ResetCodes)

ReceiveSnapshot ==
  /\ Receiving("ui_snapshot")
  /\ LET n == Head(toReader).n IN
       /\ view' = UpTo(n)
       /\ reader' = [reader EXCEPT !.cursor = n, !.acked = n]
       /\ toServer' = Append(toServer, Frame("subscribe", n))
  /\ toReader' = Tail(toReader)
  /\ UNCHANGED server

ReceiveSubscribed ==
  /\ Receiving("snapshot")
  /\ IF Head(toReader).n > reader.cursor + 1
     THEN Recover(TRUE)
     ELSE /\ reader' = [reader EXCEPT !.state = "live"]
          /\ toReader' = Tail(toReader)
          /\ UNCHANGED <<server, toServer, view>>

(* Mutant: the projector trusts the connection. *)
ProjectAll(n) == view' = Append(view, n)

(* The projector drops what it has seen. *)
Project(n) == view' = IF n <= Len(view) THEN view ELSE Append(view, n)

ReceiveEvent ==
  /\ Receiving("event")
  /\ LET n == Head(toReader).n IN
       IF n > reader.cursor + 1 THEN Recover(TRUE)
       ELSE /\ toReader' = Tail(toReader)
            /\ UNCHANGED <<server, toServer>>
            /\ IF n = reader.cursor + 1
               THEN Project(n) /\ reader' = [reader EXCEPT !.applying = n]
               ELSE UNCHANGED <<view, reader>>

Advance ==
  /\ reader.applying # None
  /\ reader' = [reader EXCEPT !.cursor = reader.applying, !.applying = None]
  /\ UNCHANGED <<session, server, wires, view, faults, fleeting>>

(* After 16 records, or 25 ms after the first. *)
Acknowledge ==
  /\ reader.state = "live" /\ reader.cursor > reader.acked
  /\ reader' = [reader EXCEPT !.acked = reader.cursor]
  /\ toServer' = Append(toServer, Frame("credit", reader.cursor))
  /\ UNCHANGED <<session, server, toReader, view, faults, fleeting>>

Server ==
  \/ AnswerSnapshot \/ Subscribe \/ ReadCredit
  \/ PumpSend \/ PumpDropEphemeral \/ PumpReceive \/ PumpOverflow
Receive == ReceiveError \/ ReceiveSnapshot \/ ReceiveSubscribed \/ ReceiveEvent \/ Advance

Session == Commit \/ SendEphemeral \/ Evict \/ Restart

Next == Session \/ Server \/ Connect \/ Break \/ Receive \/ Acknowledge

(* The sidecar's task and the reader's timers and promises run. *)
Fairness == WF_vars(Server) /\ WF_vars(Receive) /\ WF_vars(Connect) /\ WF_vars(Acknowledge)

Spec == Init /\ [][Next]_vars /\ Fairness

(***************************************************************************)
(* Properties                                                              *)
(***************************************************************************)

Types == {"ui_snapshot", "snapshot", "event"} \cup ResetCodes \cup OtherCodes

(* Everything has its type; a mailbox never exceeds its capacity and a     *)
(* subscription never exceeds its credits.                                 *)
TypeOK ==
  /\ cursor \in 0 .. MaxEvents
  /\ retained \in 1 .. cursor + 1
  /\ first \in retained .. cursor + 1
  /\ channel \in [open : BOOLEAN, mail : Seq(0 .. cursor)] /\ Len(channel.mail) <= Capacity
  /\ pump \in [on : BOOLEAN, backlog : Seq(1 .. cursor), pending : 0 .. cursor \cup {None},
               out : SUBSET (1 .. cursor), sent : 0 .. cursor, acked : 0 .. cursor]
  /\ Cardinality(pump.out) <= Credits
  /\ toReader \in Seq([type : Types, n : 0 .. cursor + 1])
  /\ toServer \in Seq([type : {"ui_snapshot", "subscribe", "credit"}, n : 0 .. cursor])
  /\ reader \in [state : {"closed", "open", "live"}, cursor : 0 .. cursor \cup {None},
                 acked : 0 .. cursor, applying : 0 .. cursor \cup {None}]
  /\ view \in Seq(1 .. cursor)
  /\ faults \in 0 .. MaxFaults /\ fleeting \in 0 .. MaxFleeting

(* What the user interface has applied are the first events of the         *)
(* session, each once and in order: across reconnects, snapshots, restarts *)
(* of the sidecar, overflows, and a connection that breaks after a record  *)
(* was applied and before the cursor says so (record in sessionLive.ts is  *)
(* called before the await, cursor assigned after it).                     *)
ViewIsPrefix == \A i \in 1 .. Len(view) : view[i] = i

Feed ==
  (IF pump.pending = None THEN <<>> ELSE <<pump.pending>>) \o pump.backlog \o channel.mail

Owed == Range(Feed) \ {Ephemeral}

(* What a subscription still has to send is in order and has no gap, and   *)
(* while its mailbox is registered it reaches to the last event of the     *)
(* session: no event falls between the replayed events and the live ones,  *)
(* and a full mailbox never loses one without ending the subscription.     *)
FeedIsComplete ==
  /\ \A j \in 1 .. Len(Feed) : \A i \in 1 .. j - 1 :
       Feed[i] # Ephemeral /\ Feed[j] # Ephemeral => Feed[i] < Feed[j]
  /\ \A a \in Owed, b \in Owed : a .. b \subseteq Owed
  /\ channel.open => IF Owed = {} THEN pump.sent = cursor ELSE cursor \in Owed

(* A reader is never told that its cursor is ahead of the session or that  *)
(* it acknowledged what was not sent.  After such an answer it would keep  *)
(* its cursor, reconnect and be told the same again, for ever.             *)
NeverMisjudged == \A i \in 1 .. Len(toReader) : toReader[i].type \notin OtherCodes

(* Every event reaches the user interface in the end, although overflows   *)
(* end subscriptions, windows expire and connections break.                *)
ReaderCatchesUp == \A n \in 1 .. MaxEvents : cursor >= n ~> Len(view) >= n
=============================================================================
