------------------------------- MODULE EndWork -------------------------------
(***************************************************************************)
(* How an enumeration comes to its end: the wait loop of the client        *)
(* (internal/enum/cli.go), the statistics of the session, the session-end  *)
(* hook (FinishOwnedNetblockFills, then SweepMissedIPs), the goroutine     *)
(* that fills an owned netblock, and the termination of the session by     *)
(* somebody else.                                                          *)
(*                                                                         *)
(* The backlog is reduced to the number of rows in each state: addresses,  *)
(* which the hook watches, and the names that stand for all other types.   *)
(* Reading the counts of one type is atomic, reading both is not.          *)
(***************************************************************************)
EXTENDS Integers

CONSTANTS
  Polls,        \* idle polls in a row that end a pass; 5 in the code
  MaxItems,     \* bound on the rows that the pipelines create
  FillSize,     \* usable addresses of the owned netblock
  SweepCap,     \* sweepMaxResubmit
  MaxStranded,  \* bound on rows whose lease is never acked
  MaxFaults,    \* bound on reads that fail while the session exists, and on
                \* requests or replies lost by POST /end-work, together
  Deadlines,    \* the waits of the hook may reach their deadlines
  MayKill       \* somebody else may terminate the session

ASSUME EndWorkAssumption ==
  /\ Polls \in Nat \ {0} /\ FillSize \in Nat /\ SweepCap \in Nat
  /\ MaxItems \in Nat /\ MaxStranded \in Nat /\ MaxFaults \in Nat
  /\ MayKill \in BOOLEAN /\ Deadlines \in BOOLEAN

Types == {"FQDN", "IPAddress"}

VARIABLES
  queued, leased, completed,  \* rows of each type
  stranded,                   \* leased rows that no pipeline works on any more
  active,                     \* the session's configuration
  killed,
  counting, pending,          \* calculateStats: next type, rows seen in flight
  idle,                       \* the published totals are equal
  cli, finished, endWork,     \* the wait loop: place, idle polls, hook requested
  polled,                     \* what the last reading of the statistics said
  hookSeen,                   \* the client has seen the hook done
  hook,                       \* place in the hook
  hookDone,                   \* endWorkDone of the manager
  walk, submitted,            \* rows the sweep has listed and requeued
  fill, toFill,               \* the goroutine of the netblock, addresses left
  late,                       \* rows that hook and fill have queued after the kill
  faults, lost

rowVars   == <<queued, leased, completed, stranded>>
statVars  == <<counting, pending, idle>>
cliVars   == <<cli, finished, endWork, polled, hookSeen>>
hookVars  == <<hook, hookDone, walk, submitted>>
fillVars  == <<fill, toFill>>
rest      == <<active, killed, late>>
badVars   == <<faults, lost>>
vars == <<rowVars, statVars, cliVars, hookVars, fillVars, rest, badVars>>

HookPCs == {"none", "start", "fills", "fill_wait", "sweep", "idle_wait", "listing",
            "requeue", "submit", "drain", "return", "done"}

Created == queued["FQDN"] + leased["FQDN"] + completed["FQDN"]
             + queued["IPAddress"] + leased["IPAddress"] + completed["IPAddress"]

TypeOK ==
  /\ queued \in [Types -> Nat] /\ leased \in [Types -> Nat] /\ completed \in [Types -> Nat]
  /\ stranded \in [Types -> 0 .. MaxStranded]
  /\ \A t \in Types : stranded[t] <= leased[t]
  /\ Created <= MaxItems + FillSize + 1
  /\ active \in BOOLEAN /\ killed \in BOOLEAN
  /\ counting \in Types \cup {"none"} /\ pending \in BOOLEAN /\ idle \in BOOLEAN
  /\ cli \in {"wait", "ask", "post", "exit"} /\ finished \in 0 .. Polls
  /\ endWork \in BOOLEAN /\ polled \in BOOLEAN /\ hookSeen \in BOOLEAN
  /\ hook \in HookPCs /\ hookDone \in BOOLEAN
  /\ walk \in Nat /\ submitted \in 0 .. SweepCap
  /\ fill \in {"none", "check", "submit", "ended"} /\ toFill \in 0 .. FillSize
  /\ late \in [{"hook", "fill"} -> Nat]
  /\ faults \in 0 .. MaxFaults /\ lost \in 0 .. MaxFaults

\* The client has submitted a seed; the totals are zero until the first count.
Init ==
  /\ queued = [t \in Types |-> IF t = "FQDN" THEN 1 ELSE 0]
  /\ leased = [t \in Types |-> 0] /\ completed = [t \in Types |-> 0]
  /\ stranded = [t \in Types |-> 0]
  /\ active \in BOOLEAN /\ killed = FALSE
  /\ counting = "none" /\ pending = FALSE /\ idle = TRUE
  /\ cli = "wait" /\ finished = 0 /\ endWork = FALSE /\ polled = FALSE /\ hookSeen = FALSE
  /\ hook = "none" /\ hookDone = FALSE /\ walk = 0 /\ submitted = 0
  /\ fill = "none" /\ toFill = FillSize
  /\ late = [p \in {"hook", "fill"} |-> 0] /\ faults = 0 /\ lost = 0

InFlight(t) == queued[t] + leased[t]

MayFail == faults + lost < MaxFaults

------------------------------------------------------------------------------
(* The pipelines (module Dispatcher); they stop when the session is killed. *)

PipeUnchanged == UNCHANGED <<counting, pending, idle, cliVars, hookVars, rest, badVars>>

Claim(t) ==
  /\ ~killed /\ queued[t] > 0
  /\ queued' = [queued EXCEPT ![t] = @ - 1] /\ leased' = [leased EXCEPT ![t] = @ + 1]
  /\ UNCHANGED <<completed, stranded, fillVars>> /\ PipeUnchanged

\* A handler that works on an item of type t discovers one of type u.
Discover(t, u) ==
  /\ ~killed /\ leased[t] > stranded[t] /\ Created < MaxItems
  /\ queued' = [queued EXCEPT ![u] = @ + 1]
  /\ UNCHANGED <<leased, completed, stranded, fillVars>> /\ PipeUnchanged

Complete(t) ==
  /\ leased[t] > stranded[t]
  /\ leased' = [leased EXCEPT ![t] = @ - 1]
  /\ completed' = [completed EXCEPT ![t] = @ + 1]
  /\ UNCHANGED <<queued, stranded, fillVars>> /\ PipeUnchanged

\* The Ack failed, and with no expiry the lease is for ever.
Strand(t) ==
  /\ leased[t] > stranded[t] /\ stranded[t] < MaxStranded
  /\ stranded' = [stranded EXCEPT ![t] = @ + 1]
  /\ UNCHANGED <<queued, leased, completed, fillVars>> /\ PipeUnchanged

\* startOwnedFill: once for each netblock.
FillStarts == fill' = IF fill = "none" THEN "check" ELSE fill

\* A handler finds that the netblock is owned before the first pass is over.
AdmitOwnedNetblock(t) ==
  /\ active /\ ~killed /\ leased[t] > stranded[t] /\ fill = "none"
  /\ FillStarts
  /\ UNCHANGED <<rowVars, toFill>> /\ PipeUnchanged

PipelineStep ==
  \E t \in Types :
    Claim(t) \/ Complete(t) \/ Strand(t) \/ AdmitOwnedNetblock(t)
      \/ \E u \in Types : Discover(t, u)

------------------------------------------------------------------------------
(* calculateStats, every two seconds.                                      *)

StatUnchanged == UNCHANGED <<rowVars, cliVars, hookVars, fillVars, rest, lost>>

CountFQDN ==
  /\ ~killed /\ counting = "none"
  /\ counting' = "IPAddress"
  /\ \/ pending' = (InFlight("FQDN") # 0) /\ UNCHANGED faults
     \/ MayFail /\ faults' = faults + 1 /\ pending' = FALSE
  /\ UNCHANGED idle /\ StatUnchanged

\* The last type, after which the totals are published.  Counts that could not
\* be read are left out.
CountIPAddress ==
  /\ counting = "IPAddress"
  /\ counting' = "none" /\ pending' = FALSE
  /\ \/ idle' = (~pending /\ InFlight("IPAddress") = 0) /\ UNCHANGED faults
     \/ MayFail /\ faults' = faults + 1 /\ idle' = ~pending
  /\ StatUnchanged

StatStep == CountFQDN \/ CountIPAddress

------------------------------------------------------------------------------
(* The client.                                                             *)

CliUnchanged == UNCHANGED <<rowVars, statVars, fillVars, rest>>

ReadFails ==
  \/ killed /\ UNCHANGED faults
  \/ ~killed /\ MayFail /\ faults' = faults + 1

\* The tick, before the hook is requested.
PollFirstPass ==
  /\ cli = "wait" /\ ~endWork /\ ~killed
  /\ IF idle
       THEN /\ cli' = IF finished + 1 = Polls THEN "post" ELSE "wait"
            /\ finished' = IF finished + 1 = Polls THEN 0 ELSE finished + 1
            /\ endWork' = (finished + 1 = Polls)
       ELSE finished' = 0 /\ UNCHANGED <<cli, endWork>>
  /\ UNCHANGED <<polled, hookSeen, hookVars, badVars>> /\ CliUnchanged

\* The tick, afterwards: first the statistics ...
PollEndWork ==
  /\ cli = "wait" /\ endWork /\ ~killed
  /\ polled' = idle /\ cli' = "ask"
  /\ UNCHANGED <<finished, endWork, hookSeen, hookVars, badVars>> /\ CliUnchanged

\* A failed reading of the statistics skips the tick.
PollFails ==
  /\ cli = "wait" /\ ReadFails
  /\ UNCHANGED <<cliVars, hookVars, lost>> /\ CliUnchanged

AskDone == hookDone

\* ... then the hook, which must be done while the session is idle ...
AskIdle ==
  /\ cli = "ask" /\ ~killed
  /\ IF AskDone
       THEN /\ hookSeen' = TRUE
            /\ finished' = IF polled THEN finished + 1 ELSE 0
            /\ cli' = IF polled /\ finished + 1 = Polls THEN "exit" ELSE "wait"
       ELSE finished' = 0 /\ cli' = "wait" /\ UNCHANGED hookSeen
  /\ UNCHANGED <<endWork, polled, hookVars, badVars>> /\ CliUnchanged

\* Mutant: no safety net.
OverdueNever == FALSE

\* ... or have been done for two minutes, if leases are stranded ...
Overdue == hookSeen /\ AskDone /\ ~polled

AskOverdue ==
  /\ cli = "ask" /\ ~killed /\ Overdue
  /\ cli' = "exit"
  /\ UNCHANGED <<finished, endWork, polled, hookSeen, hookVars, badVars>> /\ CliUnchanged

\* ... and if it cannot be asked, it is requested again.
AskFails ==
  /\ cli = "ask" /\ ReadFails
  /\ cli' = "post" /\ finished' = 0
  /\ UNCHANGED <<endWork, polled, hookSeen, hookVars, lost>> /\ CliUnchanged

\* The timer that runs out when nothing has been completed for long.
TimerFires ==
  /\ cli = "wait" /\ ~endWork
  /\ cli' = "post" /\ endWork' = TRUE /\ finished' = 0
  /\ UNCHANGED <<polled, hookSeen, hookVars, badVars>> /\ CliUnchanged

\* RunEndWork: only the first request runs the hook.
Accepted == hook' = IF hook = "none" /\ ~killed THEN "start" ELSE hook

\* POST /end-work: delivered, or lost, or its reply lost; the client goes on
\* in the same way.
RequestEndWork ==
  /\ cli = "post"
  /\ cli' = "wait"
  /\ \/ Accepted /\ UNCHANGED lost
     \/ MayFail /\ lost' = lost + 1 /\ (Accepted \/ UNCHANGED hook)
  /\ UNCHANGED <<finished, endWork, polled, hookSeen, hookDone, walk, submitted, faults>>
  /\ CliUnchanged

CliTick ==
  PollFirstPass \/ PollEndWork \/ PollFails \/ AskIdle \/ AskOverdue \/ AskFails
    \/ RequestEndWork

------------------------------------------------------------------------------
(* The hook.                                                               *)

Counted(p) == IF killed THEN [late EXCEPT ![p] = @ + 1] ELSE late

HookUnchanged == UNCHANGED <<statVars, cliVars, active, killed, lost>>
HookGoes(pc) == hook' = pc

\* A passive or killed session has no end work.
HookStart ==
  /\ hook = "start"
  /\ HookGoes(IF active THEN "fills" ELSE "return")
  /\ UNCHANGED <<rowVars, fillVars, hookDone, walk, submitted, late, faults>> /\ HookUnchanged

\* FinishOwnedNetblockFills: the netblock is owned, or it is not or cannot be
\* looked up.
FinishFills ==
  /\ hook = "fills"
  /\ IF killed THEN HookGoes("sweep") /\ UNCHANGED fill
               ELSE HookGoes("fill_wait") /\ (FillStarts \/ UNCHANGED fill)
  /\ UNCHANGED <<rowVars, toFill, hookDone, walk, submitted, late, faults>> /\ HookUnchanged

\* The loops that wait until no address is queued or leased, with a deadline.
NextPhase == CASE hook = "fill_wait" -> "sweep"
               [] hook = "idle_wait" -> "listing"
               [] hook = "drain" -> "return"

Waiting == hook \in {"fill_wait", "idle_wait", "drain"}

WaitIPIdle ==
  /\ Waiting
  /\ killed \/ InFlight("IPAddress") = 0
  /\ HookGoes(NextPhase)
  /\ UNCHANGED <<rowVars, fillVars, hookDone, walk, submitted, late, faults>> /\ HookUnchanged

Deadline == Deadlines /\ Waiting

WaitTimesOut ==
  /\ Deadline
  /\ HookGoes(NextPhase)
  /\ UNCHANGED <<rowVars, fillVars, hookDone, walk, submitted, late, faults>> /\ HookUnchanged

\* SweepMissedIPs.
SweepStart ==
  /\ hook = "sweep"
  /\ HookGoes(IF killed THEN "return" ELSE "idle_wait")
  /\ UNCHANGED <<rowVars, fillVars, hookDone, walk, submitted, late, faults>> /\ HookUnchanged

\* Some of the addresses that are done were missed; or the list fails.
SweepList ==
  /\ hook = "listing"
  /\ \/ walk' \in 0 .. completed["IPAddress"] /\ HookGoes("requeue") /\ UNCHANGED faults
     \/ MayFail /\ faults' = faults + 1 /\ HookGoes("return") /\ UNCHANGED walk
  /\ UNCHANGED <<rowVars, fillVars, hookDone, submitted, late>> /\ HookUnchanged

\* Mutant: the sweep goes on after the session was killed.
StopsNever == FALSE

Stops == killed

SweepFull == submitted >= SweepCap

\* The head of the loop over the list.
SweepNext ==
  /\ hook = "requeue"
  /\ IF walk # 0 /\ Stops THEN HookGoes("return") /\ UNCHANGED walk
     ELSE IF walk = 0 \/ SweepFull
            THEN HookGoes(IF submitted = 0 THEN "return" ELSE "drain") /\ UNCHANGED walk
            ELSE HookGoes("submit") /\ walk' = walk - 1
  /\ UNCHANGED <<rowVars, fillVars, hookDone, submitted, late, faults>> /\ HookUnchanged

\* ResubmitEvent for the address; the entity may not be found.
SweepSubmit ==
  /\ hook = "submit"
  /\ HookGoes("requeue")
  /\ \/ /\ completed["IPAddress"] > 0
        /\ completed' = [completed EXCEPT !["IPAddress"] = @ - 1]
        /\ queued' = [queued EXCEPT !["IPAddress"] = @ + 1]
        /\ submitted' = submitted + 1
        /\ late' = Counted("hook")
     \/ UNCHANGED <<completed, queued, submitted, late>>
  /\ UNCHANGED <<leased, stranded, fillVars, hookDone, walk, faults>> /\ HookUnchanged

\* RunEndWork marks the end work done when the hook has returned.
HookReturns ==
  /\ hook = "return"
  /\ HookGoes("done") /\ hookDone' = TRUE
  /\ UNCHANGED <<rowVars, fillVars, walk, submitted, late, faults>> /\ HookUnchanged

HookStep ==
  HookStart \/ FinishFills \/ WaitIPIdle \/ SweepStart \/ SweepList \/ SweepNext
    \/ SweepSubmit \/ HookReturns

------------------------------------------------------------------------------
(* fillOwnedNetblock.                                                      *)

FillCheck ==
  /\ fill = "check"
  /\ fill' = IF killed \/ toFill = 0 THEN "ended" ELSE "submit"
  /\ UNCHANGED <<rowVars, toFill, hookVars, late, faults>> /\ HookUnchanged

FillSubmit ==
  /\ fill = "submit"
  /\ fill' = "check" /\ toFill' = toFill - 1
  /\ \/ /\ queued' = [queued EXCEPT !["IPAddress"] = @ + 1]
        /\ late' = Counted("fill")
     \/ UNCHANGED <<queued, late>>
  /\ UNCHANGED <<leased, completed, stranded, hookVars, faults>> /\ HookUnchanged

FillStep == FillCheck \/ FillSubmit

Kill ==
  /\ MayKill /\ ~killed
  /\ killed' = TRUE
  /\ UNCHANGED <<rowVars, statVars, cliVars, hookVars, fillVars, active, late, badVars>>

------------------------------------------------------------------------------
Next ==
  \/ PipelineStep \/ StatStep \/ CliTick \/ TimerFires
  \/ HookStep \/ WaitTimesOut \/ FillStep \/ Kill

Spec == Init /\ [][Next]_vars

\* Tickers, timers and goroutines run on, a handler finishes its item, and a
\* session that has been idle or stuck long enough is noticed: the client's
\* two minutes pass, however often its polls say something else meanwhile.
FairSpec ==
  /\ Spec
  /\ WF_vars(CliTick) /\ SF_vars(AskOverdue) /\ WF_vars(TimerFires)
  /\ WF_vars(StatStep) /\ WF_vars(FillStep)
  /\ WF_vars(HookStep) /\ WF_vars(WaitTimesOut)
  /\ \A t \in Types : WF_vars(Claim(t)) /\ WF_vars(Complete(t))

------------------------------------------------------------------------------
\* The client comes to its end although leases are stranded and readings fail,
\* unless its request is lost or somebody else ends the session
\* (cli.go:363-381).
CliFinishes == <>(cli = "exit" \/ lost > 0 \/ killed)

\* Once the session is killed, the sweep and the fill of a netblock queue at
\* most one address each, the one that was past its check (sweep.go:98-101,
\* owned_netblock.go:288).
StopsWhenKilled == late["hook"] <= 1 /\ late["fill"] <= 1

==============================================================================
