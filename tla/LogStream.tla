----------------------------- MODULE LogStream ------------------------------
(***************************************************************************)
(* The log of a session as its clients receive it: the logger              *)
(* (engine/pubsub) hands every record to a queue for each subscriber, a    *)
(* pump for each moves them into a channel, and two goroutines of the API  *)
(* server serve the WebSocket at its other end.                            *)
(*                                                                         *)
(* Clients come, stop reading and disappear, and the session ends, between *)
(* any two steps of the six goroutines a record passes through.            *)
(***************************************************************************)
EXTENDS Integers, FiniteSets, Sequences

CONSTANTS
  Clients,     \* one connection each
  MaxRecords,  \* bound on the records queued
  ChanCap      \* capacity of the channel of a subscriber

ASSUME LogStreamAssumption ==
  /\ IsFiniteSet(Clients)
  /\ MaxRecords \in Nat /\ ChanCap \in Nat \ {0}

VARIABLES
  next, writer,       \* records queued so far; the goroutine that holds the log's lock
  queue, bcast, bhand,    \* the logger's queue, its broadcaster, and what that has in its hands
  closed, closer,     \* l.done; the call of Close
  drained,            \* history: what Close took from the queue
  subscribed,         \* l.subscribed, of the Clients
  others,             \* l.subscribed holds further clients, who are not followed
  sq, pump, phand,    \* per subscriber: its queue, its pump, and what that has in its hands
  ended, ch, chClosed,\* s.done, s.ch, and whether that is closed
  reader, sender,     \* the two goroutines of the connection
  shand, open,        \* the record the sender writes; the server's end of the connection
  peer, sent          \* the client, and what was written to it

logVars  == <<next, writer, queue, bcast, bhand, closed, closer, drained>>
subVars  == <<subscribed, others, sq, pump, phand, ended>>
chanVars == <<ch, chClosed>>
connVars == <<reader, sender, shand, open, peer, sent>>
vars == <<logVars, subVars, chanVars, connVars>>

Records == 1 .. MaxRecords
NoRecord == 0
Hand == Records \union {NoRecord}

TypeOK ==
  /\ next \in 0 .. MaxRecords /\ writer \in {"idle", "loaded"}
  /\ queue \in Seq(Records) /\ bcast \in {"waiting", "processing", "stopped"} /\ bhand \in Hand
  /\ closed \in BOOLEAN /\ closer \in {"idle", "draining", "ending", "returned"}
  /\ drained \subseteq Records /\ subscribed \subseteq Clients /\ others \in BOOLEAN
  /\ sq \in [Clients -> Seq(Records)] /\ phand \in [Clients -> Hand]
  /\ pump \in [Clients -> {"none", "waiting", "taking", "sending", "exited"}]
  /\ ended \in [Clients -> BOOLEAN] /\ chClosed \in [Clients -> BOOLEAN]
  /\ ch \in [Clients -> Seq(Records)] /\ \A c \in Clients : Len(ch[c]) <= ChanCap
  /\ reader \in [Clients -> {"none", "reading", "unsubscribing", "closing", "exited"}]
  /\ sender \in [Clients -> {"none", "waiting", "writing", "unsubscribing", "closing", "exited"}]
  /\ shand \in [Clients -> Hand]
  /\ peer \in [Clients -> {"absent", "upgraded", "reading", "stalled", "left"}]
  /\ open \in [Clients -> BOOLEAN] /\ sent \in [Clients -> Seq(Records)]

Init ==
  /\ next = 0 /\ writer = "idle"
  /\ queue = <<>> /\ bcast = "waiting" /\ bhand = NoRecord
  /\ closed = FALSE /\ closer = "idle" /\ drained = {}
  /\ subscribed = {} /\ others = FALSE
  /\ sq = [c \in Clients |-> <<>>] /\ pump = [c \in Clients |-> "none"]
  /\ phand = [c \in Clients |-> NoRecord] /\ ended = [c \in Clients |-> FALSE]
  /\ ch = [c \in Clients |-> <<>>] /\ chClosed = [c \in Clients |-> FALSE]
  /\ reader = [c \in Clients |-> "none"] /\ sender = [c \in Clients |-> "none"]
  /\ shand = [c \in Clients |-> NoRecord] /\ open = [c \in Clients |-> FALSE]
  /\ peer = [c \in Clients |-> "absent"] /\ sent = [c \in Clients |-> <<>>]

------------------------------------------------------------------------------
(* The logger.  The JSON handler of slog holds a lock while it writes, so    *)
(* one goroutine of the session publishes at a time.                         *)

\* The number of subscribers is read without the logger's lock.
PublishLoad ==
  /\ writer = "idle" /\ next < MaxRecords /\ (subscribed # {} \/ others)
  /\ writer' = "loaded"
  /\ UNCHANGED <<next, queue, bcast, bhand, closed, closer, drained, subVars, chanVars, connVars>>

PublishAppend ==
  /\ writer = "loaded" /\ writer' = "idle"
  /\ next' = next + 1 /\ queue' = Append(queue, next')
  /\ UNCHANGED <<bcast, bhand, closed, closer, drained, subVars, chanVars, connVars>>

\* The broadcaster waits for the end and for the queue, and takes either.
BroadcastStop ==
  /\ bcast = "waiting" /\ closed
  /\ bcast' = "stopped"
  /\ UNCHANGED <<next, writer, queue, bhand, closed, closer, drained, subVars, chanVars, connVars>>

\* Mutant: the signal is given only for the record that finds the queue empty.
BroadcastWakeOnFirst ==
  /\ bcast = "waiting" /\ Len(queue) = 1
  /\ bcast' = "processing"
  /\ UNCHANGED <<next, writer, queue, bhand, closed, closer, drained, subVars, chanVars, connVars>>

BroadcastWake ==
  /\ bcast = "waiting" /\ queue # <<>>
  /\ bcast' = "processing"
  /\ UNCHANGED <<next, writer, queue, bhand, closed, closer, drained, subVars, chanVars, connVars>>

\* queue.Process: until the queue is empty.
BroadcastNext ==
  /\ bcast = "processing" /\ bhand = NoRecord
  /\ IF queue = <<>> THEN bcast' = "waiting" /\ UNCHANGED <<queue, bhand>>
                 ELSE bhand' = Head(queue) /\ queue' = Tail(queue) /\ UNCHANGED bcast
  /\ UNCHANGED <<next, writer, closed, closer, drained, subVars, chanVars, connVars>>

MsgToSubscribers ==
  /\ bcast = "processing" /\ bhand # NoRecord
  /\ sq' = [c \in Clients |-> IF c \in subscribed THEN Append(sq[c], bhand) ELSE sq[c]]
  /\ bhand' = NoRecord
  /\ UNCHANGED <<next, writer, queue, bcast, closed, closer, drained, subscribed, others, pump,
                 phand, ended, chanVars, connVars>>

\* Close, once: l.done first, then the queue is emptied, which the broadcaster
\* may be doing as well, and last the subscriptions end under the lock.
CloseStart ==
  /\ closer = "idle"
  /\ closer' = "draining" /\ closed' = TRUE
  /\ UNCHANGED <<next, writer, queue, bcast, bhand, drained, subVars, chanVars, connVars>>

CloseDrain ==
  /\ closer = "draining"
  /\ IF queue = <<>> THEN closer' = "ending" /\ UNCHANGED <<queue, drained>>
                 ELSE drained' = drained \union {Head(queue)} /\ queue' = Tail(queue) /\ UNCHANGED closer
  /\ UNCHANGED <<next, writer, bcast, bhand, closed, subVars, chanVars, connVars>>

\* Mutant: the list is emptied and no subscription is ended.
CloseForgetting ==
  /\ closer = "ending" /\ closer' = "returned"
  /\ subscribed' = {} /\ others' = FALSE
  /\ UNCHANGED <<next, writer, queue, bcast, bhand, closed, drained, sq, pump, phand, ended,
                 chanVars, connVars>>

CloseEnd ==
  /\ closer = "ending" /\ closer' = "returned"
  /\ ended' = [c \in Clients |-> ended[c] \/ c \in subscribed]
  /\ subscribed' = {} /\ others' = FALSE
  /\ UNCHANGED <<next, writer, queue, bcast, bhand, closed, drained, sq, pump, phand, chanVars, connVars>>

------------------------------------------------------------------------------
(* The pump of a subscriber.                                                 *)

PumpTake(c) ==
  /\ pump[c] \in {"waiting", "taking"} /\ sq[c] # <<>>
  /\ pump' = [pump EXCEPT ![c] = "sending"]
  /\ phand' = [phand EXCEPT ![c] = Head(sq[c])] /\ sq' = [sq EXCEPT ![c] = Tail(@)]
  /\ UNCHANGED <<logVars, subscribed, others, ended, chanVars, connVars>>

PumpPause(c) ==
  /\ pump[c] = "taking" /\ sq[c] = <<>>
  /\ pump' = [pump EXCEPT ![c] = "waiting"]
  /\ UNCHANGED <<logVars, subscribed, others, sq, phand, ended, chanVars, connVars>>

\* Mutant: the record is dropped when the channel is full.
PumpSendOrDrop(c) ==
  /\ pump[c] = "sending"
  /\ ch' = [ch EXCEPT ![c] = IF Len(@) < ChanCap THEN Append(@, phand[c]) ELSE @]
  /\ phand' = [phand EXCEPT ![c] = NoRecord]
  /\ pump' = [pump EXCEPT ![c] = "taking"]
  /\ UNCHANGED <<logVars, subscribed, others, sq, ended, chClosed, connVars>>

PumpSend(c) ==
  /\ pump[c] = "sending" /\ Len(ch[c]) < ChanCap
  /\ ch' = [ch EXCEPT ![c] = Append(@, phand[c])]
  /\ phand' = [phand EXCEPT ![c] = NoRecord]
  /\ pump' = [pump EXCEPT ![c] = "taking"]
  /\ UNCHANGED <<logVars, subscribed, others, sq, ended, chClosed, connVars>>

\* It sees the end wherever it waits.
PumpWaits(c) == pump[c] \in {"waiting", "sending"}

PumpEnd(c) ==
  /\ PumpWaits(c) /\ ended[c]
  /\ pump' = [pump EXCEPT ![c] = "exited"]
  /\ phand' = [phand EXCEPT ![c] = NoRecord] /\ chClosed' = [chClosed EXCEPT ![c] = TRUE]
  /\ UNCHANGED <<logVars, subscribed, others, sq, ended, ch, connVars>>

------------------------------------------------------------------------------
(* WSLogsHandler and its two loops.                                          *)

Upgrade(c) ==
  /\ peer[c] = "absent"
  /\ peer' = [peer EXCEPT ![c] = "upgraded"] /\ open' = [open EXCEPT ![c] = TRUE]
  /\ UNCHANGED <<logVars, subVars, chanVars, reader, sender, shand, sent>>

\* A logger that is closed returns a closed channel.
Subscribe(c) ==
  /\ peer[c] = "upgraded"
  /\ IF closed
     THEN chClosed' = [chClosed EXCEPT ![c] = TRUE] /\ UNCHANGED <<subscribed, pump>>
     ELSE /\ subscribed' = subscribed \union {c}
          /\ pump' = [pump EXCEPT ![c] = "waiting"] /\ UNCHANGED chClosed
  /\ peer' = [peer EXCEPT ![c] = "reading"]
  /\ reader' = [reader EXCEPT ![c] = "reading"] /\ sender' = [sender EXCEPT ![c] = "waiting"]
  /\ UNCHANGED <<logVars, others, sq, phand, ended, ch, shand, open, sent>>

\* Mutant: nobody notices that a client has gone.
ReadFailsOnClose(c) == ~open[c]

\* The read fails when the connection is closed or the client has gone, and at
\* its deadline when the client answers no pings.
ReadFails(c) == ~open[c] \/ peer[c] \in {"stalled", "left"}

ReadLoop(c) ==
  /\ reader[c] = "reading" /\ ReadFails(c)
  /\ reader' = [reader EXCEPT ![c] = "unsubscribing"]
  /\ UNCHANGED <<logVars, subVars, chanVars, sender, shand, open, peer, sent>>

SendTake(c) ==
  /\ sender[c] = "waiting" /\ ch[c] # <<>>
  /\ shand' = [shand EXCEPT ![c] = Head(ch[c])] /\ ch' = [ch EXCEPT ![c] = Tail(@)]
  /\ sender' = [sender EXCEPT ![c] = "writing"]
  /\ UNCHANGED <<logVars, subVars, chClosed, reader, open, peer, sent>>

\* A closed channel is emptied first; then comes the close frame.
SendCloseFrame(c) ==
  /\ sender[c] = "waiting" /\ ch[c] = <<>> /\ chClosed[c]
  /\ sender' = [sender EXCEPT ![c] = "unsubscribing"]
  /\ UNCHANGED <<logVars, subVars, chanVars, reader, shand, open, peer, sent>>

SendRecord(c) ==
  /\ sender[c] = "writing" /\ open[c]
  /\ sent' = [sent EXCEPT ![c] = Append(@, shand[c])]
  /\ shand' = [shand EXCEPT ![c] = NoRecord]
  /\ sender' = [sender EXCEPT ![c] = "waiting"]
  /\ UNCHANGED <<logVars, subVars, chanVars, reader, open, peer>>

\* A write, of a record or a ping, fails as the read does; what the network
\* buffers of a client that has gone is still written.
SendFails(c) ==
  /\ sender[c] \in {"waiting", "writing"} /\ ReadFails(c)
  /\ shand' = [shand EXCEPT ![c] = NoRecord]
  /\ sender' = [sender EXCEPT ![c] = "unsubscribing"]
  /\ UNCHANGED <<logVars, subVars, chanVars, reader, open, peer, sent>>

\* Either loop ends the subscription, if it is still there, and the connection.
Unsubscribe(c) ==
  /\ subscribed' = subscribed \ {c}
  /\ ended' = [ended EXCEPT ![c] = @ \/ c \in subscribed]

End(c) ==
  \/ /\ reader[c] = "unsubscribing" /\ reader' = [reader EXCEPT ![c] = "closing"]
     /\ Unsubscribe(c) /\ UNCHANGED <<sender, open>>
  \/ /\ sender[c] = "unsubscribing" /\ sender' = [sender EXCEPT ![c] = "closing"]
     /\ Unsubscribe(c) /\ UNCHANGED <<reader, open>>
  \/ /\ reader[c] = "closing" /\ reader' = [reader EXCEPT ![c] = "exited"]
     /\ open' = [open EXCEPT ![c] = FALSE] /\ UNCHANGED <<subscribed, ended, sender>>
  \/ /\ sender[c] = "closing" /\ sender' = [sender EXCEPT ![c] = "exited"]
     /\ open' = [open EXCEPT ![c] = FALSE] /\ UNCHANGED <<subscribed, ended, reader>>

EndStep(c) ==
  End(c) /\ UNCHANGED <<logVars, others, sq, pump, phand, chanVars, shand, peer, sent>>

\* The client: it may stop reading, as the enumeration does with its messages
\* when it is done, or go away.
Stall(c) ==
  /\ peer[c] = "reading" /\ peer' = [peer EXCEPT ![c] = "stalled"]
  /\ UNCHANGED <<logVars, subVars, chanVars, reader, sender, shand, open, sent>>

Depart(c) ==
  /\ peer[c] \in {"reading", "stalled"} /\ peer' = [peer EXCEPT ![c] = "left"]
  /\ UNCHANGED <<logVars, subVars, chanVars, reader, sender, shand, open, sent>>

\* The first of the others subscribes, or the last of them leaves.
OthersChange ==
  /\ others \/ ~closed
  /\ others' = ~others
  /\ UNCHANGED <<logVars, subscribed, sq, pump, phand, ended, chanVars, connVars>>

------------------------------------------------------------------------------
Logger == PublishAppend \/ BroadcastStop \/ BroadcastWake \/ BroadcastNext \/ MsgToSubscribers
            \/ CloseDrain \/ CloseEnd
Pump(c) == PumpTake(c) \/ PumpPause(c) \/ PumpSend(c) \/ PumpEnd(c)
Sender(c) == SendTake(c) \/ SendCloseFrame(c) \/ SendRecord(c) \/ SendFails(c)

Next ==
  \/ PublishLoad \/ CloseStart \/ Logger \/ OthersChange
  \/ \E c \in Clients :
       Upgrade(c) \/ Subscribe(c) \/ Stall(c) \/ Depart(c)
         \/ Pump(c) \/ ReadLoop(c) \/ Sender(c) \/ EndStep(c)

\* Goroutines that can run do run; nobody has to log, connect, leave or close.
Fairness ==
  /\ WF_vars(PublishAppend) /\ WF_vars(CloseDrain \/ CloseEnd)
  /\ WF_vars(BroadcastWake \/ BroadcastNext \/ MsgToSubscribers \/ BroadcastStop)
  /\ \A c \in Clients :
       /\ WF_vars(Subscribe(c)) /\ WF_vars(Pump(c))
       /\ WF_vars(ReadLoop(c)) /\ WF_vars(Sender(c)) /\ WF_vars(EndStep(c))

Spec == Init /\ [][Next]_vars /\ Fairness

------------------------------------------------------------------------------
(* Properties.                                                               *)

Held(r) == IF r = NoRecord THEN <<>> ELSE <<r>>

\* What is on its way to a client.
OnItsWay(c) == Held(shand[c]) \o ch[c] \o Held(phand[c]) \o sq[c] \o Held(bhand) \o queue

\* logger.go (Close), websocket.go: once the session has closed its log, every connection is
\* closed in the end and none of its goroutines remains, even if the client does not read.
StreamEnds ==
  \A c \in Clients :
    closed ~> (peer[c] # "absent" =>
                 ~open[c] /\ pump[c] \in {"none", "exited"}
                   /\ reader[c] = "exited" /\ sender[c] = "exited")

\* websocket.go (readLoop): a client that has gone does not stay subscribed for the rest of the
\* session, and none of its goroutines remains.
GoneIsUnsubscribed ==
  \A c \in Clients :
    (peer[c] = "left") ~> (c \notin subscribed /\ pump[c] \in {"none", "exited"})

\* logger.go (Subscribe): what is logged while a client is subscribed all reaches it, unless it
\* stops reading, leaves, or the log is closed.
SubscribedReceives ==
  \A c \in Clients :
    (c \in subscribed) ~> (OnItsWay(c) = <<>> \/ closed \/ peer[c] # "reading")
=============================================================================
