----------------------------- MODULE Pipelines ------------------------------
(***************************************************************************)
(* The handler registry (engine/registry): the plugins are started one     *)
(* after the other and register their handlers; a pipeline is then built   *)
(* for each asset type, with one stage for each position that has a        *)
(* handler, and an event passes through the stages.  The handlers of one   *)
(* stage work on the same event at the same time.  A name that was found   *)
(* and is not a domain of the scope is routed around the sources of names. *)
(*                                                                         *)
(* One event is followed from its type's first stage to its completion,    *)
(* with handlers that fail or panic and a session that may end anywhere.   *)
(***************************************************************************)
EXTENDS Handlers, SequencesExt

CONSTANT Configs   \* the transformations a session may be configured with

VARIABLES
  phase,       \* "load", "failed", "refused" (build panics), "ready"
  started,     \* how many plugins have been started
  config,      \* the transformations configured for the event's type
  event,       \* the event, or None
  flagged,     \* the event's name is marked as a domain in scope
  place,       \* its position; Sink behind the last, Gone once it was dropped
  stage,       \* what the handlers of the stage are doing with it
  called,      \* the handlers it has been given to
  completed,   \* how often its completion was reported
  ended        \* the session is done

pipeVars == <<phase, started, config, event, flagged, place, stage, called,
          completed, ended>>
loading == <<phase, started, config>>

\* The last position, and where an event is when it has left the pipeline.
MaxPosition == 50
Sink == MaxPosition + 1
Gone == MaxPosition + 2

None == [type |-> "none", scope |-> "none"]

\* Names are configured domains, domains of the scope found during the run, or
\* other names.
Events ==
  {[type |-> t, scope |-> "none"] : t \in {h.type : h \in UNION Range(Plugins)}}
    \union {[type |-> "FQDN", scope |-> s] : s \in {"configured", "found"}}

\* The registry, when the first n plugins have been started.  A position is kept
\* within 1..50.
Clamp(p) == IF p <= 0 THEN 1 ELSE IF p > MaxPosition THEN MaxPosition ELSE p
RegisteredBy(n) == {[h EXCEPT !.at = Clamp(@)] : h \in UNION {Plugins[i] : i \in 1..n}}

\* What a pipeline is built from: every plugin has been started.
Registered == RegisteredBy(Len(Plugins))
Types == {h.type : h \in Registered}
At == [t \in Types |-> [p \in 1..MaxPosition |-> {h \in Registered : h.type = t /\ h.at = p}]]
Positions == [t \in Types |-> {h.at : h \in {g \in Registered : g.type = t}}]

Key(h) == <<h.plugin, h.name>>
Keys == {Key(h) : h \in Registered}


\* Transformation.Validate: "none" is the only transformation of its type.
Valid(c) == "none" \in c.to => c.to = {"none"} /\ ~c.all

PipeTypeOK ==
  /\ phase \in {"load", "failed", "refused", "ready"} /\ started \in 0..Len(Plugins)
  /\ event = None => {h.at : h \in RegisteredBy(started)} \subseteq 1..MaxPosition
  /\ event \in Events \union {None} /\ flagged \in BOOLEAN /\ ended \in BOOLEAN
  /\ place \in {0, Sink, Gone} \union (IF event = None THEN {} ELSE Positions[event.type])
  /\ completed \in Nat
  /\ called \union DOMAIN stage \subseteq Keys
  /\ \A k \in DOMAIN stage : stage[k] \in {"waiting", "running", "returned", "left"}

PipeInit ==
  /\ phase = "load" /\ started = 0 /\ config \in {c \in Configs : Valid(c)}
  /\ event = None /\ flagged = FALSE /\ place = 0 /\ stage = <<>> /\ called = {}
  /\ completed = 0 /\ ended = FALSE

-----------------------------------------------------------------------------
\* Registration.

Peers(h) == {g \in RegisteredBy(started) : g.type = h.type}

\* RegisterHandler refuses a handler it has, and an exclusive one whose position is
\* taken.
Refused(h) ==
  \/ \E g \in Peers(h) : g.plugin = h.plugin /\ g.name = h.name
  \/ h.exclusive /\ \E g \in Peers(h) : g.at = Clamp(h.at)

\* LoadAndStartPlugins: the next plugin starts and registers its handlers.
StartPlugin ==
  /\ phase = "load" /\ started < Len(Plugins)
  /\ {h \in Plugins[started + 1] : Refused(h)} = {}
  /\ started' = started + 1
  /\ UNCHANGED <<phase, config, event, flagged, place, stage, called, completed, ended>>

\* A plugin that cannot be started, for a handler the registry refuses or for a
\* reason of its own, stops the engine; the plugins before it stay as they are.
StartFails ==
  /\ phase = "load" /\ started < Len(Plugins)
  /\ phase' = "failed"
  /\ UNCHANGED <<started, config, event, flagged, place, stage, called, completed, ended>>

-----------------------------------------------------------------------------
\* BuildAssetPipeline.

OSINTFirst == 20
OSINTLast == 40

\* osintBypassSkippable: the handlers that names may be routed around.
Skippable ==
  {"BinaryEdge", "Chaos", "AlienVault", "CertSpotter", "crt.sh", "DNSRepo", "Grep.App",
   "CommonCrawl", "DNSDumpster", "HackerTarget", "IP-THC", "SubdomainCenter", "URLScan",
   "LeakIX", "PassiveTotal", "Prospeo", "SecurityTrails", "VirusTotal", "ZETAlytics",
   "DNSHistory", "RapidDNS", "SiteDossier"}

\* assertOSINTBypassInvariant
BypassInvariant ==
  \A h \in Registered : h.type = "FQDN" /\ h.at \in OSINTFirst..OSINTLast
                        => h.plugin \in Skippable

\* The stage where names that skip the sources go on; without one there is no gate.
Resume == {p \in Positions["FQDN"] : p > OSINTLast}
ResumeAt == Min(Resume)

\* Mutant: the gate stands one stage too early.
GateEarly == Max({p \in Positions["FQDN"] : p < OSINTFirst})

\* The gate stands before the first stage at or behind OSINTFirst.
GateAt == Min({p \in Positions["FQDN"] : p >= OSINTFirst})

BuildPipelines ==
  /\ phase = "load" /\ started = Len(Plugins)
  /\ phase' = IF BypassInvariant THEN "ready" ELSE "refused"
  /\ UNCHANGED <<started, config, event, flagged, place, stage, called, completed, ended>>

-----------------------------------------------------------------------------
\* handlerTask

\* CheckTransformations: some result of the handler is wanted.
CheckTransformations(h) ==
  \/ h.to \intersect config.to # {}
  \/ config.all /\ h.to \ config.exclude # {}

Matches(h) ==
  /\ config.all \/ config.to # {}
  /\ ~(config.all /\ h.plugin \in config.exclude)
  /\ h.plugin \in config.to \/ CheckTransformations(h)

\* The next stage of the event's pipeline, or the sink.
Following(p) ==
  LET more == {q \in Positions[event.type] : q > p}
  IN IF more = {} THEN Sink ELSE Min(more)

\* The handlers of the stage at p are about to get the event.
Enter(p) ==
  /\ place' = p
  /\ stage' = IF p > MaxPosition THEN <<>> ELSE [k \in {Key(h) : h \in At[event.type][p]} |-> "waiting"]

\* An event enters its pipeline.
Take(e) ==
  /\ event' = e /\ flagged' = FALSE /\ called' = {} /\ completed' = 0
  /\ place' = 0 /\ stage' = <<>>
  /\ UNCHANGED <<loading, ended>>

\* Done: what completes an event, sendElementOnExit.
SendElementOnExit == completed' = completed + 1

\* The gate before the sources of names (osintBypassTask).
Gated(p) == /\ event.type = "FQDN" /\ Resume # {}
            /\ p = GateAt

\* At the gate, too, the event of a session that is done is completed.
GateOnDone == SendElementOnExit

Advance ==
  /\ event # None /\ place < Sink
  /\ {stage[k] : k \in DOMAIN stage} \subseteq {"returned", "left"}
  /\ LET next == Following(place)
         marked == flagged \/ event.scope = "configured"
     IN \/ /\ "left" \in {stage[k] : k \in DOMAIN stage}
           /\ Enter(Gone) /\ UNCHANGED <<flagged, completed>>
        \/ /\ "left" \notin {stage[k] : k \in DOMAIN stage} /\ ~Gated(next)
           /\ Enter(next) /\ UNCHANGED <<flagged, completed>>
        \/ /\ "left" \notin {stage[k] : k \in DOMAIN stage} /\ Gated(next) /\ ended
           /\ Enter(Gone) /\ GateOnDone /\ UNCHANGED flagged
        \/ /\ "left" \notin {stage[k] : k \in DOMAIN stage} /\ Gated(next) /\ ~ended
           /\ flagged' = marked
           /\ Enter(IF marked THEN next ELSE ResumeAt) /\ UNCHANGED completed
  /\ UNCHANGED <<loading, event, called, ended>>

\* A handler gets the event: it gives it up when the session is done, and
\* returns at once when none of its results is wanted.
Call(h) ==
  /\ stage[Key(h)] = "waiting"
  /\ \/ /\ ended /\ stage' = [stage EXCEPT ![Key(h)] = "left"] /\ SendElementOnExit
        /\ UNCHANGED called
     \/ /\ ~ended /\ ~Matches(h) /\ stage' = [stage EXCEPT ![Key(h)] = "returned"]
        /\ UNCHANGED <<called, completed>>
     \/ /\ ~ended /\ Matches(h) /\ stage' = [stage EXCEPT ![Key(h)] = "running"]
        /\ called' = called \union {Key(h)} /\ UNCHANGED completed
  /\ UNCHANGED <<loading, event, flagged, place, ended>>

\* Its callback returns, with or without an error.  Known-FQDN marks the
\* domains of the scope, but for one that lies below another.
Return(h) ==
  /\ stage[Key(h)] = "running"
  /\ stage' = [stage EXCEPT ![Key(h)] = "returned"]
  /\ \/ flagged' = (flagged \/ (h.plugin = "Known-FQDN" /\ event.scope # "none"))
     \/ event.scope = "configured" /\ flagged' = flagged
  /\ UNCHANGED <<loading, event, place, called, completed, ended>>

\* Mutant: the event goes on after a panic.
PanicGoesOn(h) == "returned"

\* It panics: the event is completed, and goes no further.
AfterPanic(h) == "left"

\* Mutant: the recovered panic just ends the handler.
ForgetPanicked == UNCHANGED completed

CompletePanicked == SendElementOnExit

Panic(h) ==
  /\ stage[Key(h)] = "running"
  /\ stage' = [stage EXCEPT ![Key(h)] = AfterPanic(h)]
  /\ CompletePanicked
  /\ UNCHANGED <<loading, event, flagged, place, called, ended>>

\* makeSink
Leave ==
  /\ event # None /\ place = Sink /\ completed = 0
  /\ SendElementOnExit
  /\ UNCHANGED <<loading, event, flagged, place, stage, called, ended>>

\* The pipeline runs under the context of the session: when that is cancelled,
\* its stages return, and an event that no handler is working on is dropped
\* where it is, without a completion.
Drop ==
  /\ ended /\ event # None /\ place < Gone /\ (place = Sink => completed = 0)
  /\ "running" \notin {stage[k] : k \in DOMAIN stage}
  /\ Enter(Gone)
  /\ UNCHANGED <<loading, event, flagged, called, completed, ended>>

\* Session.Kill cancels the context, and the session is done from then on.
EndSession ==
  /\ phase = "ready" /\ ~ended
  /\ ended' = TRUE
  /\ UNCHANGED <<loading, event, flagged, place, stage, called, completed>>

\* The handlers of the stage the event is in.
Working == IF place \in 1..MaxPosition THEN At[event.type][place] ELSE {}

Traverse ==
  \/ Advance \/ Leave \/ Drop
  \/ \E h \in Working : Call(h) \/ Return(h) \/ Panic(h)

PipeNext ==
  \/ StartPlugin \/ StartFails \/ BuildPipelines
  \/ event = None /\ phase = "ready" /\ \E e \in Events : Take(e)
  \/ Traverse \/ EndSession

\* The handlers return and the stages go on.
PipeSpec == PipeInit /\ [][PipeNext]_pipeVars /\ WF_pipeVars(Traverse)

-----------------------------------------------------------------------------
\* A handler that asks for a position of its own has it, whichever plugin came
\* first: registration checks this for the exclusive handler only, and a
\* handler that comes later may still join it.
ExclusiveAlone ==
  event = None =>
    LET now == RegisteredBy(started)
    IN \A h \in now : h.exclusive => {g \in now : g.type = h.type /\ g.at = h.at} = {h}

\* An event that reaches the end of its pipeline has met every handler that
\* had something to do for it: what a name was routed around are only handlers
\* that return at once for a name without the mark, although the gate decides
\* by position.
BypassLosesNothing ==
  place = Sink => \A h \in Registered :
    h.type = event.type /\ Matches(h) => Key(h) \in called \/ (h.sld /\ ~flagged)

\* Once the completion of an event has been reported, no handler is called with
\* it, but for the peers in its stage of the handler that gave it up.
NoCallAfterCompletion ==
  [][completed > 0 => called' = called \/ Cardinality(DOMAIN stage) > 1]_pipeVars

\* Every event that enters a pipeline is completed, unless the session ends: none
\* stays leased in the backlog of a session that goes on, whatever its handlers
\* do, however many of a stage give it up, and wherever the gate sends it.
EventCompletes == event # None ~> completed > 0 \/ ended
=============================================================================
