--------------------------- MODULE SessionManager ---------------------------
(***************************************************************************)
(* Creation, cancellation and shutdown of sessions, and their end work     *)
(* (engine/sessions/manager.go, Session.Kill, the handlers of the API that *)
(* call them, and the shutdown of the server).                             *)
(*                                                                         *)
(* A canceller is a goroutine inside CancelSession: one for each accepted  *)
(* request to terminate a session, and one for each session that Shutdown  *)
(* has listed.  Every lock of the manager is held for one step only.       *)
(***************************************************************************)
EXTENDS Integers, FiniteSets

CONSTANTS
  Sessions,    \* ids of the sessions
  Requests,    \* requests to terminate a session
  Posts,       \* requests to start the end work of a session
  MayShutdown, \* the engine may be shut down
  NoSession

ASSUME SessionManagerAssumption ==
  /\ NoSession \notin Sessions
  /\ Requests \cap Sessions = {}
  /\ MayShutdown \in BOOLEAN

\* The goroutine of Shutdown that cancels session s is called s.
Cancellers == Requests \cup Sessions

VARIABLES
  creating,    \* sessions inside CreateSession
  created,     \* sessions that were added to the manager
  sessions,    \* those it still has
  done, ctxCancelled, finished,  \* effects of Kill
  released,    \* sessions whose databases and directories are closed
  at, of,      \* where each canceller is, and its session
  work, for,   \* where each end-work request is, and its session
  endWork, endWorkDone,          \* the sync.Maps of the manager
  listed,      \* sessions that Shutdown found
  engine       \* "up", "listed", "down", or "panicked"

sessVars == <<done, ctxCancelled, finished, released>>
workVars == <<work, for, endWork, endWorkDone>>
downVars == <<listed, engine>>
vars == <<creating, created, sessions, sessVars, at, of, workVars, downVars>>

CancelPCs == {"idle", "get", "select", "close", "cancel", "delete", "release", "end"}
WorkPCs == {"idle", "get", "claim", "hook", "end"}

TypeOK ==
  /\ creating \subseteq Sessions /\ created \subseteq Sessions
  /\ sessions \subseteq created
  /\ done \subseteq Sessions /\ ctxCancelled \subseteq Sessions
  /\ finished \subseteq Sessions /\ released \subseteq Sessions
  /\ at \in [Cancellers -> CancelPCs] /\ of \in [Cancellers -> Sessions \cup {NoSession}]
  /\ work \in [Posts -> WorkPCs] /\ for \in [Posts -> Sessions \cup {NoSession}]
  /\ endWork \subseteq Sessions /\ endWorkDone \subseteq Sessions
  /\ listed \subseteq Sessions /\ engine \in {"up", "listed", "down", "panicked"}

Init ==
  /\ creating = {} /\ created = {} /\ sessions = {}
  /\ done = {} /\ ctxCancelled = {} /\ finished = {} /\ released = {}
  /\ at = [c \in Cancellers |-> "idle"] /\ of = [c \in Cancellers |-> NoSession]
  /\ work = [p \in Posts |-> "idle"] /\ for = [p \in Posts |-> NoSession]
  /\ endWork = {} /\ endWorkDone = {}
  /\ listed = {} /\ engine = "up"

------------------------------------------------------------------------------
(* NewSession.                                                             *)

BeginCreate(s) ==
  /\ engine = "up" /\ s \notin creating \cup created
  /\ creating' = creating \cup {s}
  /\ UNCHANGED <<created, sessions, sessVars, at, of, workVars, downVars>>

\* A configuration without a scope, a proxy that is not usable, a directory
\* that cannot be made: the session never reaches the manager.
FailCreate(s) ==
  /\ s \in creating
  /\ creating' = creating \ {s}
  /\ UNCHANGED <<created, sessions, sessVars, at, of, workVars, downVars>>

\* Shutting the server down cancels the context its own Shutdown waits with,
\* so a request may still be inside CreateSession when the manager is shut
\* down (engine/api/server/server.go:64-79).
AddSession(s) ==
  /\ s \in creating
  /\ creating' = creating \ {s}
  /\ created' = created \cup {s} /\ sessions' = sessions \cup {s}
  /\ UNCHANGED <<sessVars, at, of, workVars, downVars>>

------------------------------------------------------------------------------
(* CancelSession, by canceller c.                                          *)

Goto(c, pc) == at' = [at EXCEPT ![c] = pc]

\* DELETE /sessions/{session_token}: 404, or 204 and a goroutine.
TerminateSessionHandler(r, s) ==
  /\ engine = "up" /\ at[r] = "idle" /\ s \in created
  /\ Goto(r, IF s \in sessions THEN "get" ELSE "end")
  /\ of' = [of EXCEPT ![r] = s]
  /\ UNCHANGED <<creating, created, sessions, sessVars, workVars, downVars>>

CancelGet(c) ==
  /\ at[c] = "get"
  /\ Goto(c, IF of[c] \in sessions THEN "select" ELSE "end")
  /\ UNCHANGED <<creating, created, sessions, sessVars, of, workVars, downVars>>

\* Mutant: Kill returns if done is still open.
KillInverted(c) ==
  /\ at[c] = "select"
  /\ Goto(c, IF of[c] \in done THEN "close" ELSE "delete")
  /\ UNCHANGED <<creating, created, sessions, sessVars, of, workVars, downVars>>

\* Kill returns at once if done is closed ...
KillSelect(c) ==
  /\ at[c] = "select"
  /\ Goto(c, IF of[c] \in done THEN "delete" ELSE "close")
  /\ UNCHANGED <<creating, created, sessions, sessVars, of, workVars, downVars>>

\* ... and closes it otherwise; a second close is a panic of the engine.
KillClose(c) ==
  /\ at[c] = "close"
  /\ IF of[c] \in done
       THEN engine' = "panicked" /\ UNCHANGED <<done, at>>
       ELSE done' = done \cup {of[c]} /\ Goto(c, "cancel") /\ UNCHANGED engine
  /\ UNCHANGED <<creating, created, sessions, ctxCancelled, finished, released, of,
                 workVars, listed>>

KillCancel(c) ==
  /\ at[c] = "cancel"
  /\ ctxCancelled' = ctxCancelled \cup {of[c]}
  /\ finished' = finished \cup {of[c]}
  /\ Goto(c, "delete")
  /\ UNCHANGED <<creating, created, sessions, done, released, of, workVars, downVars>>

\* Mutant: the resources are released before the session is deleted.
ReleaseFirst(c) ==
  /\ at[c] = "delete"
  /\ released' = released \cup {of[c]}
  /\ Goto(c, "release")
  /\ UNCHANGED <<creating, created, sessions, done, ctxCancelled, finished, of,
                 workVars, downVars>>

DeleteSession(c) ==
  /\ at[c] = "delete"
  /\ sessions' = sessions \ {of[c]}
  /\ Goto(c, "release")
  /\ UNCHANGED <<creating, created, sessVars, of, workVars, downVars>>

\* After ten seconds: backlog, temporary directory, database and logger, each
\* of which may be closed twice.
ReleaseResources(c) ==
  /\ at[c] = "release"
  /\ released' = released \cup {of[c]}
  /\ Goto(c, "end")
  /\ UNCHANGED <<creating, created, sessions, done, ctxCancelled, finished, of,
                 workVars, downVars>>

CancelStep(c) ==
  CancelGet(c) \/ KillSelect(c) \/ KillClose(c) \/ KillCancel(c)
    \/ DeleteSession(c) \/ ReleaseResources(c)

------------------------------------------------------------------------------
(* The end work, for request p.                                            *)

GotoWork(p, pc) == work' = [work EXCEPT ![p] = pc]
WorkUnchanged == UNCHANGED <<creating, created, sessions, sessVars, at, of, downVars>>

\* POST /sessions/{session_token}/end-work: 404, or 202 and a goroutine.
EndWorkHandler(p, s) ==
  /\ engine = "up" /\ work[p] = "idle" /\ s \in created
  /\ GotoWork(p, IF s \in sessions THEN "get" ELSE "end")
  /\ for' = [for EXCEPT ![p] = s]
  /\ UNCHANGED <<endWork, endWorkDone>> /\ WorkUnchanged

RunEndWorkGet(p) ==
  /\ work[p] = "get"
  /\ GotoWork(p, IF for[p] \in sessions THEN "claim" ELSE "end")
  /\ UNCHANGED <<for, endWork, endWorkDone>> /\ WorkUnchanged

\* Mutant: a request that does not see the earlier one.
StartedNever(s) == FALSE

Started(s) == s \in endWork

RunEndWorkClaim(p) ==
  /\ work[p] = "claim"
  /\ GotoWork(p, IF Started(for[p]) THEN "end" ELSE "hook")
  /\ endWork' = endWork \cup {for[p]}
  /\ UNCHANGED <<for, endWorkDone>> /\ WorkUnchanged

\* Mutant: the end of the hook is not recorded.
HookForgotten(p) ==
  /\ work[p] = "hook"
  /\ GotoWork(p, "end")
  /\ UNCHANGED <<for, endWork, endWorkDone>> /\ WorkUnchanged

\* The hook has returned, early if the session was killed meanwhile.
HookReturns(p) ==
  /\ work[p] = "hook"
  /\ GotoWork(p, "end")
  /\ endWorkDone' = endWorkDone \cup {for[p]}
  /\ UNCHANGED <<for, endWork>> /\ WorkUnchanged

WorkStep(p) == RunEndWorkGet(p) \/ RunEndWorkClaim(p) \/ HookReturns(p)

------------------------------------------------------------------------------
(* Shutdown of the server and of the manager.                              *)

ShutdownList ==
  /\ MayShutdown /\ engine = "up"
  /\ engine' = "listed" /\ listed' = sessions
  /\ at' = [c \in Cancellers |-> IF c \in sessions THEN "get" ELSE at[c]]
  /\ of' = [c \in Cancellers |-> IF c \in sessions THEN c ELSE of[c]]
  /\ UNCHANGED <<creating, created, sessions, sessVars, workVars>>

\* Mutant: Shutdown does not wait.
ReturnEarly ==
  /\ engine = "listed"
  /\ engine' = "down"
  /\ UNCHANGED <<creating, created, sessions, sessVars, at, of, workVars, listed>>

\* The WaitGroup waits for the goroutines of Shutdown, and for no other.
ShutdownReturn ==
  /\ engine = "listed" /\ \A s \in listed : at[s] = "end"
  /\ engine' = "down"
  /\ UNCHANGED <<creating, created, sessions, sessVars, at, of, workVars, listed>>

Running == engine \in {"up", "listed"}

Next ==
  /\ Running
  /\ \/ \E s \in Sessions : BeginCreate(s) \/ FailCreate(s) \/ AddSession(s)
     \/ \E r \in Requests, s \in Sessions : TerminateSessionHandler(r, s)
     \/ \E c \in Cancellers : CancelStep(c)
     \/ \E p \in Posts, s \in Sessions : EndWorkHandler(p, s)
     \/ \E p \in Posts : WorkStep(p)
     \/ ShutdownList
     \/ ShutdownReturn

Spec == Init /\ [][Next]_vars

\* Goroutines that were started run on, and the hook comes to its end: it has
\* deadlines and sees that the session was killed.  No request has to come.
FairSpec ==
  /\ Spec
  /\ \A c \in Cancellers : WF_vars(Running /\ CancelStep(c))
  /\ \A p \in Posts : WF_vars(Running /\ WorkStep(p))
  /\ WF_vars(Running /\ ShutdownReturn)

------------------------------------------------------------------------------
\* The end work of a session runs once, however many requests start it
\* (manager.go:127-130).
HookOnce ==
  \A p, q \in Posts :
    p # q /\ work[p] = "hook" /\ for[p] = for[q] =>
      work[q] # "hook" /\ for[q] \notin endWorkDone

\* As long as requests find a session, its databases are open
\* (manager.go:97-114): no handler meets a closed backlog.
OpenWhileListed == sessions \cap released = {}

\* A session that is gone was killed, so the pipelines and plugins that still
\* hold it see that they have to stop (manager.go:97-101).
GoneIsKilled == created \ sessions \subseteq done

\* A 202 ends in end work that is done, unless the session is gone or the
\* engine down.
EndWorkAnswered ==
  \A p \in Posts :
    work[p] = "get" ~> for[p] \in endWorkDone \/ for[p] \notin sessions \/ ~Running

\* When the manager is down, each session it found was killed and deleted,
\* whoever did it.
ListedAreGone == engine = "down" => listed \subseteq done /\ listed \cap sessions = {}
=============================================================================
