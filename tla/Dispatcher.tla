------------------------------ MODULE Dispatcher ------------------------------
(***************************************************************************)
(* The engine's dispatcher (engine/dispatcher) with everything it moves    *)
(* work through: the backlog of each session, the metadata map, the pump,  *)
(* the pipelines and the completion loop.                                  *)
(*                                                                         *)
(*   callers --> meta map, backlog (queued)                                *)
(*   pump    : backlog (leased) --> pipeline queue                         *)
(*   pipeline: queue --> handlers --> cchan (or straight to the backlog)   *)
(*   completion loop: cchan --> cqueue --> backlog (done), meta map        *)
(*                                                                         *)
(* Callers are the goroutines that submit assets: API requests, plugin     *)
(* callbacks and end-of-session sweeps.  A caller makes the calls of its   *)
(* script in order; each call is several steps, and any step of anybody    *)
(* else may come between two of them.  A backlog operation is one atomic   *)
(* step (a mutex and a single connection); it fails when the session's     *)
(* context is cancelled, and may fail now and then on its timeout.         *)
(***************************************************************************)
EXTENDS BacklogRows, Sequences

CONSTANTS
  Sessions,
  Metas,            \* values of Event.Meta; nil is NoMeta
  Callers,
  Scripts,          \* the calls the callers may make: functions to sequences
  Started,          \* the sessions that exist at the start
  Killable,         \* the sessions that may be terminated
  MaxQueued, LowWater, PerSessBurst,   \* limits of an asset type
  MayShutdown,      \* may the engine shut the dispatcher down?
  PipeDepth,        \* how many elements a pipeline works on at a time
  Peers,            \* the most handlers that share a stage of a pipeline
  CChanCap,         \* capacity of cchan (1000 in the code)
  MaxFaults,        \* bound on transient failures of the databases
  NoMeta, NoType, NoElement

ASSUME DispatcherAssumption ==
  /\ MaxQueued \in Nat \ {0} /\ LowWater \in Nat /\ PerSessBurst \in Nat \ {0}
  /\ PipeDepth \in Nat \ {0} /\ CChanCap \in Nat /\ MaxFaults \in Nat
  /\ Peers \in Nat \ {0}
  /\ MayShutdown \in BOOLEAN
  /\ Started \subseteq Sessions /\ Killable \subseteq Sessions
  /\ NoMeta \notin Metas /\ NoType \notin AssetTypes
  /\ IsFiniteSet(Entities) /\ IsFiniteSet(Callers)
  \* A session's backlog claims as <<session id, asset type>>.
  /\ Sessions \X AssetTypes \subseteq Owners

\* Rows of one session never compete by age in this module: the clock stands
\* still, so ClaimNext takes rows in any order.
Now == 0
LeaseTTL == 0      \* CreateSession: SetLeaseTTL(0)

\* An EventDataElement: an event for entity e of session s with metadata m.
Element == [s : Sessions, e : Entities, m : Metas \cup {NoMeta}]

\* The calls that queue an asset: DispatchEvent, ResubmitEvent, and the Enqueue
\* that Horizontals calls on the backlog itself.
Call == [kind : {"dispatch", "resubmit", "requeue"}, s : Sessions, e : Entities,
         m : Metas \cup {NoMeta}]

\* What marks an empty slot is not an element.
ASSUME ElementAssumption == NoElement \notin Element

ASSUME ScriptsAssumption == \A f \in Scripts : f \in [Callers -> Seq(Call)]

\* One slot for each element a pipeline may hold between its source and sink.
Workers == Sessions \X AssetTypes \X (1 .. PipeDepth)

Items == Sessions \X Entities

VARIABLES
  rows,      \* the backlog of each session
  entries,   \* metaMap.entries: metadata by session and entity
  sids,      \* the sessions that have a map in metaMap.entries
  live,      \* manager.sessions
  killed,    \* sessions whose context is cancelled and whose Done() is true
  calls,     \* what each caller still has to do, its current call first
  pc,        \* where each caller is in its current call
  wake,      \* the channel wake, of capacity one
  pump,      \* runPump and pumpOnce
  queue,     \* the queue of each session's pipelines
  worker,    \* the element in each slot of a pipeline
  given,     \* how many handlers of its stage have given that element up
  cchan,     \* completed elements, sent by the pipelines
  cqueue,    \* completed elements, received by the completion loop
  comp,      \* processCompletedEvents
  upd,       \* updateMetaMap
  down,      \* the channel done is closed
  faults,    \* transient database failures so far
  \* History, by <<session, entity>>; no step depends on it.
  traversed,  \* all handlers of the pipeline returned for it
  abandoned,  \* a handler gave it up, or it could not be loaded
  asked,      \* how many calls had reason to queue it
  overlapped, \* it was under way when it was last queued
  kept        \* an ack that left its metadata in the map

callerVars == <<calls, pc>>
metaVars   == <<entries, sids>>
sessVars   == <<live, killed>>
compVars   == <<cqueue, comp>>
slotVars   == <<worker, given>>
histVars   == <<traversed, abandoned, asked, overlapped, kept>>
vars == <<rows, entries, sids, live, killed, calls, pc, wake, pump, queue,
          worker, given, cchan, cqueue, comp, upd, down, faults, histVars>>

IdlePump == [pc |-> "idle", due |-> {}, t |-> NoType, visit |-> {}, loading |-> {},
             batch |-> {}]

\* The asset types still due, the current one with the sessions still to visit,
\* the claimed entities still to load and the loaded ones still to append.
PumpStates == [pc      : {"idle", "types", "sessions", "load", "append", "exit"},
               due     : SUBSET AssetTypes,
               t       : AssetTypes \cup {NoType},
               visit   : SUBSET Sessions,
               loading : SUBSET (Sessions \X Entities),
               batch   : SUBSET (Sessions \X Entities)]

CompStates == [pc : {"idle", "ack", "meta", "wake", "exit"},
               el : Element \cup {NoElement}]

UpdStates == [pc : {"idle", "keys", "remove", "exit"}, sids : SUBSET Sessions]

HistoryOK ==
  /\ traversed \subseteq Items /\ abandoned \subseteq Items
  /\ asked \in [Sessions -> [Entities -> Nat]]
  /\ overlapped \subseteq Items /\ kept \subseteq Items

TypeOK ==
  /\ rows \in [Sessions -> Tables]
  /\ entries \in [Sessions -> [Entities -> Metas \cup {NoMeta}]]
  /\ sids \subseteq Sessions
  /\ live \subseteq Sessions /\ killed \subseteq Sessions
  /\ calls \in [Callers -> Seq(Call)]
  /\ pc \in [Callers -> {"has", "insert", "enqueue", "undo", "signal"}]
  /\ wake \in AssetTypes \cup {NoType}
  /\ pump \in PumpStates
  /\ queue \in [Sessions -> [AssetTypes -> Seq(Element)]]
  /\ worker \in [Workers -> Element \cup {NoElement}]
  /\ given \in [Workers -> 0 .. Peers]
  /\ cchan \in Seq(Element) /\ Len(cchan) <= CChanCap
  /\ cqueue \in Seq(Element)
  /\ comp \in CompStates
  /\ upd \in UpdStates
  /\ down \in BOOLEAN
  /\ faults \in 0 .. MaxFaults
  /\ HistoryOK

Init ==
  /\ rows = [s \in Sessions |-> EmptyTable]
  /\ entries = [s \in Sessions |-> [e \in Entities |-> NoMeta]]
  /\ sids = {}
  /\ live = Started
  /\ killed = {}
  /\ calls \in Scripts
  /\ pc = [c \in Callers |-> "has"]
  /\ wake = NoType
  /\ pump = IdlePump
  /\ queue = [s \in Sessions |-> [t \in AssetTypes |-> << >>]]
  /\ worker = [w \in Workers |-> NoElement] /\ given = [w \in Workers |-> 0]
  /\ cchan = << >> /\ cqueue = << >>
  /\ comp = [pc |-> "idle", el |-> NoElement]
  /\ upd = [pc |-> "idle", sids |-> {}]
  /\ down = FALSE
  /\ faults = 0
  /\ traversed = {} /\ abandoned = {}
  /\ asked = [s \in Sessions |-> [e \in Entities |-> 0]]
  /\ overlapped = {} /\ kept = {}

------------------------------------------------------------------------------
(* Where the work is.                                                      *)

RowIs(s, e, st) == InState(rows[s], e, st)

InSeq(seq, s, e) == \E i \in 1 .. Len(seq) : seq[i].s = s /\ seq[i].e = e

InPump(s, e) == <<s, e>> \in pump.loading \cup pump.batch

\* The slots of the pipeline that hold an element for entity e of session s.
Slots(s, e) == {k \in 1 .. PipeDepth : LET el == worker[<<s, TypeOf[e], k>>]
                                       IN  el # NoElement /\ el.e = e}

\* An element that was given up is no longer on its way to the sink: what
\* counts is the copy of it that was sent.
InPipeline(s, e) ==
  \/ InSeq(queue[s][TypeOf[e]], s, e)
  \/ \E k \in Slots(s, e) : given[<<s, TypeOf[e], k>>] = 0

\* Between the pipeline's exit and the ack.
InCompletion(s, e) ==
  \/ InSeq(cchan, s, e)
  \/ InSeq(cqueue, s, e)
  \/ comp.pc = "ack" /\ comp.el.s = s /\ comp.el.e = e

InFlight(s, e) == InPump(s, e) \/ InPipeline(s, e) \/ InCompletion(s, e)

\* Something may still ack the row for an earlier run.
UnderWay(s, e) == InFlight(s, e) \/ Slots(s, e) # {}

------------------------------------------------------------------------------
(* Outcomes of a database operation of session s.                          *)

Works(s) == s \notin killed /\ UNCHANGED faults

Fails(s) == \/ s \in killed /\ UNCHANGED faults
            \/ s \notin killed /\ faults < MaxFaults /\ faults' = faults + 1

(* The backlog of a session (engine/sessions/backlog.go).                  *)

\* Has: an error of the database reads as "not there".
BacklogHas(s, e, found) ==
  \/ Works(s) /\ found = Has(rows[s], e)
  \/ Fails(s) /\ ~found

BacklogEnqueue(s, e) ==
  /\ Works(s)
  /\ rows' = [rows EXCEPT ![s] = Enqueue(@, e, Now)]
  /\ overlapped' = IF UnderWay(s, e) THEN overlapped \cup {<<s, e>>}
                   ELSE overlapped \ {<<s, e>>}

\* Ack without ownership.
BacklogAck(s, e) == Works(s) /\ rows' = [rows EXCEPT ![s] = Ack(@, e, NoOwner)]

\* The metadata an ack leaves in the map.
Remaining(s, e) == IF entries[s][e] # NoMeta THEN {<<s, e>>} ELSE {}

\* Counts, and what they are used for: is there something to claim?
HasQueued(s, t) == Counts(rows[s], t).queued > 0

\* The first half of ClaimNext: lease up to n rows.
BacklogClaim(s, t, n, C) ==
  /\ Works(s)
  /\ C \in ClaimSets(rows[s], t, n, LeaseTTL, Now) \ {{}}
  /\ rows' = [rows EXCEPT ![s] = Lease(@, C, <<s, t>>, LeaseTTL, Now)]

\* The second half, for one claimed entity: load it from the asset database.
FindEntity(s) == Works(s) /\ UNCHANGED rows

\* One that cannot be loaded is acked, with ownership enforced; that ack may
\* fail like any other.
AckMissing(s, e) ==
  /\ Fails(s)
  /\ \/ UNCHANGED <<rows, kept>>
     \/ /\ s \notin killed
        /\ rows' = [rows EXCEPT ![s] = Ack(@, e, <<s, TypeOf[e]>>)]
        /\ kept' = kept \cup Remaining(s, e)
  /\ abandoned' = abandoned \cup {<<s, e>>}

(* metaMap.InsertEntry, GetEntry and DeleteSessionEntry.                   *)

InsertEntry(s, e, m) ==
  /\ sids' = sids \cup {s}
  /\ entries' = [entries EXCEPT ![s][e] = m]
  /\ kept' = kept \ {<<s, e>>}

GetEntry(s, e) == IF s \in sids THEN entries[s][e] ELSE NoMeta

DeleteSessionEntry(s, e) ==
  /\ entries' = [entries EXCEPT ![s][e] = NoMeta]
  /\ kept' = kept \ {<<s, e>>}
  /\ UNCHANGED sids

\* wakePump: the send is dropped when the channel is full.
WakePump(t) == wake' = IF wake = NoType THEN t ELSE wake

\* The pipeline of type t of session s runs low: somebody wakes the pump.
WakeIfLow(s, t) ==
  IF Len(queue[s][t]) <= LowWater THEN WakePump(t) ELSE UNCHANGED wake

------------------------------------------------------------------------------
(* DispatchEvent, ResubmitEvent and addToScopeAndEnqueue, by caller c.     *)

Cur(c) == Head(calls[c])

\* The caller has found the session of its call with the manager.
Active(c) == calls[c] # << >> /\ Cur(c).s \in live \cup killed

Return(c) ==
  /\ calls' = [calls EXCEPT ![c] = Tail(@)]
  /\ pc' = [pc EXCEPT ![c] = "has"]

Goto(c, l) == pc' = [pc EXCEPT ![c] = l] /\ UNCHANGED calls

\* Mutant: an asset that is in the backlog is scheduled again.
ProceedsAlways(kind, found) == kind = "dispatch" \/ found

\* DispatchEvent goes on with an asset that has no row, ResubmitEvent with one
\* that has.
Proceeds(kind, found) == found <=> kind = "resubmit"

\* A call had reason to queue the asset: it resubmits it, or there is no row.
Asks(s, e) == asked' = [asked EXCEPT ![s][e] = @ + 1]

CheckBacklog(c) ==
  /\ Active(c) /\ pc[c] = "has" /\ Cur(c).kind # "requeue"
  /\ LET call == Cur(c) IN
     \E found \in BOOLEAN :
       /\ BacklogHas(call.s, call.e, found)
       /\ IF Proceeds(call.kind, found) THEN Goto(c, "insert") ELSE Return(c)
       /\ IF /\ Proceeds(call.kind, found)
             /\ call.kind = "resubmit" \/ ~Has(rows[call.s], call.e)
            THEN Asks(call.s, call.e)
            ELSE UNCHANGED asked
  /\ UNCHANGED <<rows, metaVars, sessVars, wake, pump, queue, slotVars, cchan,
                 compVars, upd, down, traversed, abandoned, overlapped, kept>>

InsertMeta(c) ==
  /\ Active(c) /\ pc[c] = "insert"
  /\ InsertEntry(Cur(c).s, Cur(c).e, Cur(c).m)
  /\ Goto(c, "enqueue")
  /\ UNCHANGED <<rows, sessVars, wake, pump, queue, slotVars, cchan, compVars, upd,
                 down, faults, traversed, abandoned, asked, overlapped>>

EnqueueRow(c) ==
  /\ Active(c) /\ pc[c] = "enqueue"
  /\ LET call == Cur(c) IN
     \/ BacklogEnqueue(call.s, call.e) /\ Goto(c, "signal")
     \/ Fails(call.s) /\ UNCHANGED <<rows, overlapped>> /\ Goto(c, "undo")
  /\ UNCHANGED <<metaVars, sessVars, wake, pump, queue, slotVars, cchan, compVars,
                 upd, down, traversed, abandoned, asked, kept>>

\* Mutant: the metadata stays.
UndoNothing(c) ==
  /\ Active(c) /\ pc[c] = "undo"
  /\ Return(c)
  /\ UNCHANGED <<rows, metaVars, sessVars, wake, pump, queue, slotVars, cchan,
                 compVars, upd, down, faults, histVars>>

\* The enqueue failed: drop the metadata and return the error.
UndoMeta(c) ==
  /\ Active(c) /\ pc[c] = "undo"
  /\ DeleteSessionEntry(Cur(c).s, Cur(c).e)
  /\ Return(c)
  /\ UNCHANGED <<rows, sessVars, wake, pump, queue, slotVars, cchan, compVars, upd,
                 down, faults, traversed, abandoned, asked, overlapped>>

SignalScheduling(c) ==
  /\ Active(c) /\ pc[c] = "signal"
  /\ WakeIfLow(Cur(c).s, TypeOf[Cur(c).e])
  /\ Return(c)
  /\ UNCHANGED <<rows, metaVars, sessVars, pump, queue, slotVars, cchan, compVars,
                 upd, down, faults, histVars>>

\* An asset that Horizontals has added to the scope is queued whatever state its
\* row is in: without metadata, without a wake-up, and an error is ignored.
Requeue(c) ==
  /\ Active(c) /\ pc[c] = "has" /\ Cur(c).kind = "requeue"
  /\ LET call == Cur(c) IN
     \/ BacklogEnqueue(call.s, call.e) /\ Asks(call.s, call.e)
     \/ Fails(call.s) /\ UNCHANGED <<rows, asked, overlapped>>
  /\ Return(c)
  /\ UNCHANGED <<metaVars, sessVars, wake, pump, queue, slotVars, cchan, compVars,
                 upd, down, traversed, abandoned, kept>>

CallerStep(c) == CheckBacklog(c) \/ InsertMeta(c) \/ EnqueueRow(c) \/ UndoMeta(c)
                 \/ SignalScheduling(c) \/ Requeue(c)

------------------------------------------------------------------------------
(* The pump: runPump and pumpOnce.                                         *)

PumpUnchanged == UNCHANGED <<metaVars, sessVars, callerVars, slotVars, cchan, compVars,
                             upd, down, traversed, asked, overlapped>>

NothingLeft == UNCHANGED <<abandoned, kept>>

PumpOnWake ==
  /\ pump.pc = "idle" /\ wake # NoType
  /\ pump' = [IdlePump EXCEPT !.pc = "types", !.due = {wake}]
  /\ wake' = NoType
  /\ UNCHANGED <<rows, queue, faults>> /\ PumpUnchanged /\ NothingLeft

\* Every ten seconds the pump looks at all asset types.
PumpOnTick ==
  /\ pump.pc = "idle"
  /\ pump' = [IdlePump EXCEPT !.pc = "types", !.due = AssetTypes]
  /\ UNCHANGED <<rows, wake, queue, faults>> /\ PumpUnchanged /\ NothingLeft

\* snapshotSessBacklogStats: the live sessions with something queued; one
\* whose counts cannot be read is left out.
PumpSnapshot(t) ==
  LET counted == {s \in live \ killed : HasQueued(s, t)} IN
  /\ pump.pc = "types" /\ t \in pump.due
  /\ \E visit \in SUBSET counted :
       /\ \/ visit = counted /\ UNCHANGED faults
          \/ \E s \in counted : visit = counted \ {s} /\ Fails(s)
       /\ pump' = [pump EXCEPT !.pc = "sessions", !.t = t, !.due = @ \ {t},
                               !.visit = visit]
  /\ UNCHANGED <<rows, wake, queue>> /\ PumpUnchanged /\ NothingLeft

\* Mutants: the wrong limit, and a burst that ignores the room.
RoomToLowWater(s, t) == LowWater - Len(queue[s][t])
NumOfClaimsBurst(s, t) == PerSessBurst

Room(s, t) == MaxQueued - Len(queue[s][t])

NumOfClaims(s, t) == IF Room(s, t) < PerSessBurst THEN Room(s, t) ELSE PerSessBurst

\* The pump turns to a session of the snapshot, in any order (Shuffle).  No
\* room in the pipeline's queue, an error and an empty claim skip the session.
PumpClaim(s) ==
  LET t == pump.t IN
  /\ pump.pc = "sessions" /\ s \in pump.visit
  /\ \/ \E C \in SUBSET Entities :
          /\ Room(s, t) > 0 /\ BacklogClaim(s, t, NumOfClaims(s, t), C)
          /\ pump' = [pump EXCEPT !.pc = "load", !.visit = @ \ {s},
                                  !.loading = {s} \X C]
     \/ /\ \/ Room(s, t) <= 0 /\ UNCHANGED faults
           \/ Room(s, t) > 0 /\ Fails(s)
           \/ ~HasQueued(s, t) /\ Works(s)
        /\ pump' = [pump EXCEPT !.visit = @ \ {s}]
        /\ UNCHANGED rows
  /\ UNCHANGED <<wake, queue>> /\ PumpUnchanged /\ NothingLeft

PumpNextType ==
  /\ pump.pc = "sessions" /\ pump.visit = {}
  /\ pump' = IF pump.due = {} THEN IdlePump ELSE [pump EXCEPT !.pc = "types"]
  /\ UNCHANGED <<rows, wake, queue, faults>> /\ PumpUnchanged /\ NothingLeft

\* The entities that could be loaded are what ClaimNext returns.
PumpLoad(s, e) ==
  /\ pump.pc = "load" /\ <<s, e>> \in pump.loading
  /\ LET rest == pump.loading \ {<<s, e>>}
         Loaded(batch) ==
           [pump EXCEPT !.loading = rest, !.batch = batch,
                        !.pc = IF rest # {} THEN "load"
                               ELSE IF batch # {} THEN "append" ELSE "sessions"]
     IN \/ FindEntity(s) /\ NothingLeft /\ pump' = Loaded(pump.batch \cup {<<s, e>>})
        \/ AckMissing(s, e) /\ pump' = Loaded(pump.batch)
  /\ UNCHANGED <<wake, queue>> /\ PumpUnchanged

\* The element of a loaded entity joins the pipeline's queue with whatever
\* metadata the map has by now.
PumpAppend(s, e) ==
  /\ pump.pc = "append" /\ <<s, e>> \in pump.batch
  /\ queue' = [queue EXCEPT ![s][pump.t] =
                 Append(@, [s |-> s, e |-> e, m |-> GetEntry(s, e)])]
  /\ pump' = [pump EXCEPT !.batch = @ \ {<<s, e>>},
                          !.pc = IF pump.batch = {<<s, e>>} THEN "sessions" ELSE @]
  /\ UNCHANGED <<rows, wake, faults>> /\ PumpUnchanged /\ NothingLeft

PumpExit ==
  /\ down /\ pump.pc = "idle"
  /\ pump' = [pump EXCEPT !.pc = "exit"]
  /\ UNCHANGED <<rows, wake, queue, faults>> /\ PumpUnchanged /\ NothingLeft

PumpWork ==
  \/ \E t \in AssetTypes : PumpSnapshot(t)
  \/ \E s \in Sessions : PumpClaim(s)
  \/ PumpNextType
  \/ \E s \in Sessions, e \in Entities : PumpLoad(s, e) \/ PumpAppend(s, e)

PumpStep == PumpOnWake \/ PumpOnTick \/ PumpWork \/ PumpExit

------------------------------------------------------------------------------
(* The pipelines.                                                          *)

\* The source of the pipeline: PipelineQueue.Next and Data.
PipelineTake(s, t, k) ==
  /\ s \notin killed /\ queue[s][t] # << >> /\ worker[<<s, t, k>>] = NoElement
  /\ worker' = [worker EXCEPT ![<<s, t, k>>] = Head(queue[s][t])]
  /\ queue' = [queue EXCEPT ![s][t] = Tail(@)]
  /\ UNCHANGED <<rows, metaVars, sessVars, callerVars, wake, pump, given, cchan,
                 compVars, upd, down, faults, histVars>>

\* Data drops the elements of a session that is done.
PipelineDrop(s, t) ==
  /\ s \in killed /\ queue[s][t] # << >>
  /\ queue' = [queue EXCEPT ![s][t] = << >>]
  /\ UNCHANGED <<rows, metaVars, sessVars, callerVars, wake, pump, slotVars, cchan,
                 compVars, upd, down, faults, histVars>>

\* Mutant: the non-blocking send drops the element.
AckOnExitDropped(el) == UNCHANGED <<rows, faults, kept>>

CChanFull == Len(cchan) >= CChanCap

\* The ack of sendElementOnExit.
AckOnExit(el) ==
  \/ BacklogAck(el.s, el.e) /\ kept' = kept \cup Remaining(el.s, el.e)
  \/ Fails(el.s) /\ UNCHANGED <<rows, kept>>

\* The send never blocks: if cchan is full the row is acked on the spot.
SendElementOnExit(el) ==
  IF CChanFull
    THEN AckOnExit(el) /\ UNCHANGED cchan
    ELSE cchan' = Append(cchan, el) /\ UNCHANGED <<rows, faults, kept>>

Vacate(w) ==
  /\ worker' = [worker EXCEPT ![w] = NoElement]
  /\ given' = [given EXCEPT ![w] = 0]

PipelineUnchanged == UNCHANGED <<metaVars, sessVars, callerVars, wake, pump, queue,
                                 compVars, upd, down, asked, overlapped>>

\* Every handler of the pipeline has returned: the element reaches the sink.
PipelineExit(w) ==
  LET el == worker[w] IN
  /\ el # NoElement /\ given[w] = 0
  /\ Vacate(w)
  /\ SendElementOnExit(el)
  /\ traversed' = traversed \cup {<<el.s, el.e>>}
  /\ UNCHANGED abandoned /\ PipelineUnchanged

\* A handler gives the element up before the others have seen it, because it
\* panicked or found the session done, and sends it itself.  The handlers that
\* share its stage may do so too.
GiveUp(w) ==
  LET el == worker[w] IN
  /\ el # NoElement /\ given[w] < Peers
  /\ given' = [given EXCEPT ![w] = @ + 1]
  /\ SendElementOnExit(el)
  /\ abandoned' = abandoned \cup {<<el.s, el.e>>}
  /\ UNCHANGED <<worker, traversed>> /\ PipelineUnchanged

\* The stage passes nothing on for an element that was given up, and drops what
\* it holds once the context of the session is cancelled.
Discard(w) ==
  LET el == worker[w] IN
  /\ el # NoElement /\ (given[w] > 0 \/ el.s \in killed)
  /\ Vacate(w)
  /\ UNCHANGED <<rows, cchan, faults, traversed, abandoned, kept>>
  /\ PipelineUnchanged

PipelineStep ==
  \/ \E s \in Sessions, t \in AssetTypes, k \in 1 .. PipeDepth : PipelineTake(s, t, k)
  \/ \E s \in Sessions, t \in AssetTypes : PipelineDrop(s, t)
  \/ \E w \in Workers : PipelineExit(w) \/ GiveUp(w) \/ Discard(w)

------------------------------------------------------------------------------
(* The completion loop: processCompletedEvents and completedCallback.      *)

CompUnchanged == UNCHANGED <<sessVars, callerVars, pump, queue, slotVars, upd, down,
                             traversed, abandoned, asked, overlapped>>

CompReceive ==
  /\ comp.pc = "idle" /\ cchan # << >>
  /\ cqueue' = Append(cqueue, Head(cchan))
  /\ cchan' = Tail(cchan)
  /\ UNCHANGED <<rows, metaVars, wake, comp, faults>> /\ UNCHANGED kept /\ CompUnchanged

CompNext ==
  /\ comp.pc = "idle" /\ cqueue # << >>
  /\ comp' = [pc |-> "ack", el |-> Head(cqueue)]
  /\ cqueue' = Tail(cqueue)
  /\ UNCHANGED <<rows, metaVars, wake, cchan, faults>> /\ UNCHANGED kept /\ CompUnchanged

\* The ack does not ask who owns the row or in which state it is.
CompAck ==
  /\ comp.pc = "ack"
  /\ \/ BacklogAck(comp.el.s, comp.el.e) /\ comp' = [comp EXCEPT !.pc = "meta"]
     \/ Fails(comp.el.s) /\ UNCHANGED rows /\ comp' = [comp EXCEPT !.pc = "wake"]
  /\ UNCHANGED <<metaVars, wake, cchan, cqueue>> /\ UNCHANGED kept /\ CompUnchanged

CompDeleteMeta ==
  /\ comp.pc = "meta"
  /\ DeleteSessionEntry(comp.el.s, comp.el.e)
  /\ comp' = [comp EXCEPT !.pc = "wake"]
  /\ UNCHANGED <<rows, wake, cchan, cqueue, faults>> /\ CompUnchanged

CompWake ==
  /\ comp.pc = "wake"
  /\ WakeIfLow(comp.el.s, TypeOf[comp.el.e])
  /\ comp' = [pc |-> "idle", el |-> NoElement]
  /\ UNCHANGED <<rows, metaVars, cchan, cqueue, faults>> /\ UNCHANGED kept /\ CompUnchanged

CompExit ==
  /\ down /\ comp.pc = "idle"
  /\ comp' = [comp EXCEPT !.pc = "exit"]
  /\ UNCHANGED <<rows, metaVars, wake, cchan, cqueue, faults>> /\ UNCHANGED kept /\ CompUnchanged

CompStep == CompReceive \/ CompNext \/ CompAck \/ CompDeleteMeta \/ CompWake \/ CompExit

------------------------------------------------------------------------------
(* updateMetaMap, every two seconds: the sessions are listed first, the    *)
(* keys of the map next, and what is in the second list only is deleted.   *)

UpdUnchanged == UNCHANGED <<rows, sessVars, callerVars, wake, pump, queue, slotVars,
                            cchan, compVars, down, faults, traversed, abandoned, asked,
                            overlapped>>

\* Mutant: no key is stale.
StaleNone(keys, listed) == {}

\* mset.Subtract(sset).
Stale(keys, listed) == keys \ listed

ListSessions ==
  /\ upd.pc = "idle"
  /\ upd' = [pc |-> "keys", sids |-> live]
  /\ UNCHANGED <<metaVars, kept>> /\ UpdUnchanged

ListKeys ==
  /\ upd.pc = "keys"
  /\ upd' = LET stale == Stale(sids, upd.sids)
            IN  IF stale = {} THEN [pc |-> "idle", sids |-> {}]
                ELSE [pc |-> "remove", sids |-> stale]
  /\ UNCHANGED <<metaVars, kept>> /\ UpdUnchanged

RemoveInactiveSessions ==
  /\ upd.pc = "remove"
  /\ sids' = sids \ upd.sids
  /\ entries' = [s \in Sessions |->
                   IF s \in upd.sids THEN [e \in Entities |-> NoMeta] ELSE entries[s]]
  /\ kept' = kept \ (upd.sids \X Entities)
  /\ upd' = [pc |-> "idle", sids |-> {}]
  /\ UpdUnchanged

UpdExit ==
  /\ down /\ upd.pc = "idle"
  /\ upd' = [upd EXCEPT !.pc = "exit"]
  /\ UNCHANGED <<metaVars, kept>> /\ UpdUnchanged

UpdStep == ListSessions \/ ListKeys \/ RemoveInactiveSessions \/ UpdExit

------------------------------------------------------------------------------
(* The session manager and the engine, as far as the dispatcher sees them. *)

EnvUnchanged == UNCHANGED <<rows, metaVars, callerVars, wake, pump, queue, slotVars,
                            cchan, compVars, upd, faults, histVars>>

AddSession(s) ==
  /\ s \notin live \cup killed
  /\ live' = live \cup {s}
  /\ UNCHANGED <<killed, down>> /\ EnvUnchanged

\* Session.Kill, the first half of CancelSession: the context is cancelled,
\* so that every backlog operation of the session fails from now on.
KillSession(s) ==
  /\ s \in (live \cap Killable) \ killed
  /\ killed' = killed \cup {s}
  /\ UNCHANGED <<live, down>> /\ EnvUnchanged

\* The other half: the session leaves the manager's map.
RemoveSession(s) ==
  /\ s \in live \cap killed
  /\ live' = live \ {s}
  /\ UNCHANGED <<killed, down>> /\ EnvUnchanged

Shutdown ==
  /\ MayShutdown /\ ~down
  /\ down' = TRUE
  /\ UNCHANGED sessVars /\ EnvUnchanged

SessionStep ==
  \/ \E s \in Sessions : AddSession(s) \/ KillSession(s) \/ RemoveSession(s)
  \/ Shutdown

------------------------------------------------------------------------------
Next ==
  \/ \E c \in Callers : CallerStep(c)
  \/ PumpStep
  \/ PipelineStep
  \/ CompStep
  \/ UpdStep
  \/ SessionStep

Spec == Init /\ [][Next]_vars

\* Goroutines that can run do run, the tickers keep firing, and every handler
\* returns: callbacks work under deadlines (see README).
Fairness ==
  /\ \A c \in Callers : WF_vars(CallerStep(c))
  /\ WF_vars(PumpOnTick) /\ WF_vars(PumpWork)
  /\ \A s \in Sessions, t \in AssetTypes :
       WF_vars(\E k \in 1 .. PipeDepth : PipelineTake(s, t, k))
  /\ \A w \in Workers : WF_vars(PipelineExit(w) \/ Discard(w))
  /\ WF_vars(CompReceive) /\ WF_vars(CompNext)
  /\ WF_vars(CompAck \/ CompDeleteMeta \/ CompWake)
  /\ WF_vars(UpdStep)
  /\ \A s \in Sessions : WF_vars(RemoveSession(s))

FairSpec == Spec /\ Fairness

------------------------------------------------------------------------------
(* Safety.                                                                 *)

\* The pump never overfills a pipeline: what a session's queue holds, plus
\* what the pump has claimed for it and not yet appended, stays within
\* MaxQueued, although claims are computed before the elements are appended
\* and several sessions and types share one pump.
QueueBounded ==
  \A s \in Sessions, t \in AssetTypes :
    Len(queue[s][t]) + Cardinality({e \in Entities : TypeOf[e] = t /\ InPump(s, e)})
      <= MaxQueued

\* No lease is lost: with a TTL of zero nobody reclaims a lease, so a leased
\* row whose element is nowhere is stuck and the session never becomes idle.
\* A live session has at most one such row for each database failure.
LeasesAccounted ==
  Cardinality({i \in Sessions \X Entities :
                 /\ i[1] \notin killed
                 /\ RowIs(i[1], i[2], "leased") /\ ~InFlight(i[1], i[2])})
    <= faults

\* How often seq holds an element for entity e of session s.
Count(seq, s, e) == Cardinality({i \in 1 .. Len(seq) : seq[i].s = s /\ seq[i].e = e})

\* The runs of one asset between its claim and the end of its pipeline.
Runs(s, e) ==
  (IF InPump(s, e) THEN 1 ELSE 0)
  + Count(queue[s][TypeOf[e]], s, e) + Cardinality(Slots(s, e))

\* "do not schedule the same asset more than once" (DispatchEvent): the runs of
\* an asset, together with the one its queued row stands for, are never more
\* than the calls that had reason to queue it: those that resubmit it, and
\* those that looked before it had a row.  Each failure of a database may add
\* one, and only callers that raced to submit the asset first can make it more
\* than one when nobody resubmits it.
ScheduledOnce ==
  \A s \in Sessions, e \in Entities :
    Runs(s, e) + (IF RowIs(s, e, "queued") THEN 1 ELSE 0) <= asked[s][e] + faults

\* A call that has inserted metadata and still has to enqueue or to undo, or
\* the completion loop between its ack and its delete.
Handling(s, e) ==
  \/ \E c \in Callers : /\ pc[c] \in {"enqueue", "undo"} /\ calls[c] # << >>
                        /\ Cur(c).s = s /\ Cur(c).e = e
  \/ comp.pc = "meta" /\ comp.el.s = s /\ comp.el.e = e

\* No metadata is forgotten in the map of a live session: it belongs to a row
\* that is queued or leased, or to somebody who is about to queue the row or
\* to delete the metadata, whatever callers, completions and failed enqueues
\* do to the same asset meanwhile.  What stays behind is the metadata of
\* assets acked by somebody other than the completion loop (kept).
MetaAccounted ==
  \A s \in Sessions \ killed, e \in Entities :
    entries[s][e] # NoMeta /\ <<s, e>> \notin kept =>
      RowIs(s, e, "queued") \/ RowIs(s, e, "leased") \/ Handling(s, e)

------------------------------------------------------------------------------
(* Action properties.                                                      *)

\* An asset that nothing was working on when it was queued is claimed before it
\* is done.  (If an earlier run of it is still under way, the ack of that run
\* finishes the queued row: ResubmitEvent's "the pump will claim it and the
\* asset will traverse its pipeline again" (engine/types/events.go) holds of
\* the other assets only.)
QueuedIsClaimedFirst ==
  [][\A s \in Sessions, e \in Entities :
       RowIs(s, e, "queued") /\ InState(rows'[s], e, "done") =>
         <<s, e>> \in overlapped]_vars

------------------------------------------------------------------------------
(* Liveness.                                                               *)

Settled(s) == s \in killed \/ down \/ faults > 0

\* What is queued is eventually done, although wake-ups are dropped whenever
\* one is pending and an exit may find cchan full.
QueuedIsProcessed ==
  \A s \in Sessions, e \in Entities :
    RowIs(s, e, "queued") ~> (RowIs(s, e, "done") \/ Settled(s))

\* The metadata of a session that was removed is reclaimed for good, even if
\* a caller in the middle of a call puts some back after a clean-up.
MetaReclaimed ==
  \A s \in Sessions : (s \in killed \ live) ~> [](s \notin sids \/ down)

------------------------------------------------------------------------------
(* The dispatcher keeps the ledger's promise for each asset of a session.  *)

Ledger == INSTANCE WorkLedger WITH
  status <- [i \in Items |->
               IF ~Has(rows[i[1]], i[2]) THEN "new"
               ELSE IF RowIs(i[1], i[2], "done") THEN "done" ELSE "pending"],
  passed <- traversed, excused <- abandoned

LedgerSpec == Ledger!Spec
==============================================================================
