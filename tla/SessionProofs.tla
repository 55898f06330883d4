---------------------------- MODULE SessionProofs ----------------------------
(***************************************************************************)
(* Theorems about the session manager, for any number of sessions and      *)
(* requests, and about the budget of a session, for any number of users,   *)
(* any capacity and any number of sessions and resizes.                    *)
(*                                                                         *)
(* Each property of the manager is about what several cancellers have done *)
(* together, so the invariant says for each place in CancelSession what    *)
(* holds there whoever made it true: past Kill the session is killed, past *)
(* the deletion it is deleted.                                             *)
(***************************************************************************)
EXTENDS SessionManager, SessionSemaphore, FiniteSetTheorems, TLAPS

------------------------------------------------------------------------------
(* The manager.                                                            *)


\* No session is created twice, and each canceller has one that was created.
CancelInv ==
  /\ creating \cap created = {} /\ released \subseteq created
  /\ \A c \in Cancellers :
       /\ at[c] # "idle" => of[c] \in created
       /\ at[c] \in {"cancel", "delete", "release"} => of[c] \in done
       /\ at[c] \in {"release", "end"} => of[c] \notin sessions
  /\ OpenWhileListed
  /\ GoneIsKilled

ShutdownInv ==
  /\ \A s \in listed : at[s] # "idle" /\ of[s] = s
  /\ engine = "down" => \A s \in listed : at[s] = "end"

\* At most one request runs the hook of a session, and none once it is done.
WorkInv ==
  /\ \A p \in Posts : work[p] # "idle" => for[p] \in Sessions
  /\ \A p \in Posts : work[p] = "hook" => for[p] \in endWork \ endWorkDone
  /\ \A p, q \in Posts :
       p # q /\ work[p] = "hook" /\ work[q] = "hook" => for[p] # for[q]
  /\ endWorkDone \subseteq endWork

Inv == TypeOK /\ CancelInv /\ ShutdownInv /\ WorkInv

LEMMA InitInv == Init => Inv
<1> SUFFICES ASSUME Init PROVE Inv
  OBVIOUS
<1>1. TypeOK
  BY DEF Init, TypeOK, CancelPCs, WorkPCs
<1>2. CancelInv /\ ShutdownInv /\ WorkInv
  BY <1>1 DEF Init, CancelInv, ShutdownInv, WorkInv, OpenWhileListed, GoneIsKilled
<1> QED BY <1>1, <1>2 DEF Inv

------------------------------------------------------------------------------
(* One lemma for each group of actions.                                    *)

LEMMA CreateInv ==
  ASSUME Inv, NEW s \in Sessions, BeginCreate(s) \/ FailCreate(s) \/ AddSession(s)
  PROVE  Inv'
<1>1. UNCHANGED <<done, ctxCancelled, finished, released, at, of, work, for, endWork,
                  endWorkDone, listed, engine>>
  BY DEF BeginCreate, FailCreate, AddSession, sessVars, workVars, downVars
<1>2. /\ creating' \subseteq Sessions /\ created' \subseteq Sessions
      /\ sessions' \subseteq created' /\ creating' \cap created' = {}
      /\ created \subseteq created'
      /\ \A x \in created : x \in sessions' <=> x \in sessions
      /\ created' \ sessions' = created \ sessions
  BY DEF BeginCreate, FailCreate, AddSession, Inv, TypeOK, CancelInv
<1>3. TypeOK'
  BY <1>1, <1>2 DEF Inv, TypeOK
<1>4. CancelInv'
  <2>1. OpenWhileListed' /\ GoneIsKilled'
    BY <1>1, <1>2 DEF Inv, CancelInv, OpenWhileListed, GoneIsKilled
  <2>2. ASSUME NEW c \in Cancellers
        PROVE  /\ at[c] # "idle" => of[c] \in created'
               /\ at[c] \in {"cancel", "delete", "release"} => of[c] \in done
               /\ at[c] \in {"release", "end"} => of[c] \notin sessions'
    BY <1>2 DEF Inv, CancelInv
  <2> QED BY <1>1, <1>2, <2>1, <2>2 DEF Inv, CancelInv
<1>5. ShutdownInv' /\ WorkInv'
  BY <1>1 DEF Inv, ShutdownInv, WorkInv
<1> QED BY <1>3, <1>4, <1>5 DEF Inv

\* A canceller goes from one place to the next.
LEMMA GotoFacts ==
  ASSUME at \in [Cancellers -> CancelPCs], NEW c \in Cancellers, NEW pc \in CancelPCs, Goto(c, pc)
  PROVE  /\ at' \in [Cancellers -> CancelPCs] /\ at'[c] = pc
         /\ \A d \in Cancellers : d # c => at'[d] = at[d]
BY DEF Goto

LEMMA HandlerInv ==
  ASSUME Inv, NEW r \in Requests, NEW s \in Sessions, TerminateSessionHandler(r, s)
  PROVE  Inv'
<1> DEFINE pc == IF s \in sessions THEN "get" ELSE "end"
<1>0. r \in Cancellers /\ pc \in CancelPCs /\ r \notin Sessions
  BY SessionManagerAssumption DEF Cancellers, CancelPCs
<1>1. /\ UNCHANGED <<creating, created, sessions, done, ctxCancelled, finished, released,
                     work, for, endWork, endWorkDone, listed, engine>>
      /\ Goto(r, pc) /\ of' = [of EXCEPT ![r] = s] /\ s \in created /\ engine = "up"
  BY DEF TerminateSessionHandler, sessVars, workVars, downVars
<1>2. /\ at' \in [Cancellers -> CancelPCs] /\ at'[r] = pc
      /\ \A d \in Cancellers : d # r => at'[d] = at[d]
  BY <1>0, <1>1, GotoFacts DEF Inv, TypeOK
<1>3. /\ of' \in [Cancellers -> Sessions \cup {NoSession}] /\ of'[r] = s
      /\ \A d \in Cancellers : d # r => of'[d] = of[d]
  BY <1>0, <1>1 DEF Inv, TypeOK
<1>4. TypeOK'
  BY <1>1, <1>2, <1>3 DEF Inv, TypeOK
<1>5. CancelInv'
  <2>1. OpenWhileListed' /\ GoneIsKilled'
    BY <1>1 DEF Inv, CancelInv, OpenWhileListed, GoneIsKilled
  <2>2. ASSUME NEW c \in Cancellers
        PROVE  /\ at'[c] # "idle" => of'[c] \in created
               /\ at'[c] \in {"cancel", "delete", "release"} => of'[c] \in done
               /\ at'[c] \in {"release", "end"} => of'[c] \notin sessions
    BY <1>1, <1>2, <1>3 DEF Inv, CancelInv
  <2> QED BY <1>1, <2>1, <2>2 DEF Inv, CancelInv
<1>6. ShutdownInv'
  <2>1. \A x \in listed : x \in Cancellers /\ x # r
    BY <1>0 DEF Inv, TypeOK, Cancellers
  <2> QED BY <1>1, <1>2, <1>3, <2>1 DEF Inv, ShutdownInv
<1>7. WorkInv'
  BY <1>1 DEF Inv, WorkInv
<1> QED BY <1>4, <1>5, <1>6, <1>7 DEF Inv

LEMMA CancelStepInv ==
  ASSUME Inv, NEW c \in Cancellers, CancelStep(c)
  PROVE  Inv'
<1>1. /\ UNCHANGED <<creating, created, of, work, for, endWork, endWorkDone, listed>>
      /\ at[c] \notin {"idle", "end"}
  BY DEF CancelStep, CancelGet, KillSelect, KillClose, KillCancel, DeleteSession,
         ReleaseResources, sessVars, workVars, downVars
<1>2. /\ of[c] \in created /\ of[c] \in Sessions
      /\ at \in [Cancellers -> CancelPCs] /\ of \in [Cancellers -> Sessions \cup {NoSession}]
  BY <1>1 DEF Inv, TypeOK, CancelInv
<1>3. \* Where c goes, and what it has done by then.
      /\ at' \in [Cancellers -> CancelPCs] /\ at'[c] # "idle"
      /\ \A d \in Cancellers : d # c => at'[d] = at[d]
      /\ at'[c] \in {"cancel", "delete", "release"} => of[c] \in done'
      /\ at'[c] \in {"release", "end"} => of[c] \notin sessions'
  <2> USE GotoFacts
  <2>1. CASE CancelGet(c)
    <3> DEFINE pc == IF of[c] \in sessions THEN "select" ELSE "end"
    <3>1. pc \in CancelPCs /\ Goto(c, pc) /\ sessions' = sessions
      BY <2>1 DEF CancelGet, CancelPCs
    <3> QED BY <1>2, <3>1
  <2>2. CASE KillSelect(c)
    <3> DEFINE pc == IF of[c] \in done THEN "delete" ELSE "close"
    <3>1. pc \in CancelPCs /\ Goto(c, pc) /\ done' = done
      BY <2>2 DEF KillSelect, CancelPCs, sessVars
    <3> QED BY <1>2, <3>1
  <2>3. CASE KillClose(c)
    <3>1. CASE of[c] \in done
      BY <1>1, <1>2, <2>3, <3>1 DEF KillClose
    <3>2. CASE of[c] \notin done
      <4>1. "cancel" \in CancelPCs /\ Goto(c, "cancel") /\ of[c] \in done'
        BY <2>3, <3>2 DEF KillClose, CancelPCs
      <4> QED BY <1>2, <4>1
    <3> QED BY <3>1, <3>2
  <2>4. CASE KillCancel(c)
    <3>1. "delete" \in CancelPCs /\ Goto(c, "delete") /\ of[c] \in done'
      BY <2>4 DEF KillCancel, CancelPCs, Inv, CancelInv
    <3> QED BY <1>2, <3>1
  <2>5. CASE DeleteSession(c)
    <3>1. /\ "release" \in CancelPCs /\ Goto(c, "release")
          /\ of[c] \in done' /\ of[c] \notin sessions'
      BY <2>5 DEF DeleteSession, CancelPCs, Inv, CancelInv, sessVars
    <3> QED BY <1>2, <3>1
  <2>6. CASE ReleaseResources(c)
    <3>1. "end" \in CancelPCs /\ Goto(c, "end") /\ of[c] \notin sessions'
      BY <2>6 DEF ReleaseResources, CancelPCs, Inv, CancelInv
    <3> QED BY <1>2, <3>1
  <2> QED BY <2>1, <2>2, <2>3, <2>4, <2>5, <2>6 DEF CancelStep
<1>4. \* What it has done to its session.
      /\ done \subseteq done' /\ done' \subseteq Sessions
      /\ sessions' \subseteq sessions /\ released' \subseteq released \cup {of[c]}
      /\ ctxCancelled' \subseteq Sessions /\ finished' \subseteq Sessions
      /\ sessions \ sessions' \subseteq done
      /\ released' \cap sessions' = {}
      /\ engine' \in {engine, "panicked"}
  <2>1. CASE CancelGet(c) \/ KillSelect(c)
    BY <2>1 DEF CancelGet, KillSelect, sessVars, downVars, Inv, TypeOK, CancelInv, OpenWhileListed
  <2>2. CASE KillClose(c) \/ KillCancel(c)
    BY <1>2, <2>2 DEF KillClose, KillCancel, downVars, Inv, TypeOK, CancelInv, OpenWhileListed
  <2>3. CASE DeleteSession(c)
    BY <1>2, <2>3 DEF DeleteSession, sessVars, downVars, Inv, TypeOK, CancelInv, OpenWhileListed
  <2>4. CASE ReleaseResources(c)
    BY <1>2, <2>4 DEF ReleaseResources, downVars, Inv, TypeOK, CancelInv, OpenWhileListed
  <2> QED BY <2>1, <2>2, <2>3, <2>4 DEF CancelStep
<1>5. TypeOK'
  BY <1>1, <1>2, <1>4, <1>3 DEF Inv, TypeOK
<1>6. CancelInv'
  <2>1. released' \subseteq created /\ OpenWhileListed'
    BY <1>2, <1>4 DEF Inv, CancelInv, OpenWhileListed
  <2>2. GoneIsKilled'
    BY <1>1, <1>4 DEF Inv, CancelInv, GoneIsKilled
  <2>3. ASSUME NEW d \in Cancellers
        PROVE  /\ at'[d] # "idle" => of[d] \in created
               /\ at'[d] \in {"cancel", "delete", "release"} => of[d] \in done'
               /\ at'[d] \in {"release", "end"} => of[d] \notin sessions'
    <3>1. CASE d = c
      BY <1>2, <1>3, <3>1
    <3>2. CASE d # c
      BY <1>4, <1>3, <3>2 DEF Inv, CancelInv
    <3> QED BY <3>1, <3>2
  <2> QED BY <1>1, <2>1, <2>2, <2>3 DEF Inv, CancelInv
<1>7. ShutdownInv'
  <2>1. \A s \in listed : s \in Cancellers
    BY DEF Inv, TypeOK, Cancellers
  <2>2. \A s \in listed : at'[s] # "idle" /\ of[s] = s
    BY <1>3, <2>1 DEF Inv, ShutdownInv
  <2>3. engine' = "down" => \A s \in listed : at'[s] = "end"
    BY <1>1, <1>4, <1>3, <2>1 DEF Inv, ShutdownInv
  <2> QED BY <1>1, <2>2, <2>3 DEF ShutdownInv
<1>8. WorkInv'
  BY <1>1 DEF Inv, WorkInv
<1> QED BY <1>5, <1>6, <1>7, <1>8 DEF Inv

LEMMA WorkStepInv ==
  ASSUME Inv, NEW p \in Posts,
         WorkStep(p) \/ \E s \in Sessions : EndWorkHandler(p, s)
  PROVE  Inv'
<1>1. UNCHANGED <<creating, created, sessions, done, ctxCancelled, finished, released,
                  at, of, listed, engine>>
  BY DEF WorkStep, RunEndWorkGet, RunEndWorkClaim, HookReturns, EndWorkHandler,
         WorkUnchanged, sessVars, downVars
<1>2. CancelInv' /\ ShutdownInv'
  BY <1>1 DEF Inv, CancelInv, ShutdownInv, OpenWhileListed, GoneIsKilled
<1>3. work \in [Posts -> WorkPCs] /\ for \in [Posts -> Sessions \cup {NoSession}]
  BY DEF Inv, TypeOK
<1>4. CASE \E s \in Sessions : EndWorkHandler(p, s)
  <2>1. PICK s \in Sessions : EndWorkHandler(p, s)
    BY <1>4
  <2>2. /\ work' = [work EXCEPT ![p] = IF s \in sessions THEN "get" ELSE "end"]
        /\ for' = [for EXCEPT ![p] = s] /\ UNCHANGED <<endWork, endWorkDone>>
    BY <2>1 DEF EndWorkHandler, GotoWork
  <2>3. work' \in [Posts -> WorkPCs] /\ for' \in [Posts -> Sessions \cup {NoSession}]
    BY <1>3, <2>2 DEF WorkPCs
  <2>4. WorkInv'
    BY <1>3, <2>2 DEF Inv, WorkInv
  <2> QED BY <1>1, <1>2, <2>2, <2>3, <2>4 DEF Inv, TypeOK
<1>5. CASE RunEndWorkGet(p)
  <2>1. /\ work' = [work EXCEPT ![p] = IF for[p] \in sessions THEN "claim" ELSE "end"]
        /\ work[p] = "get" /\ UNCHANGED <<for, endWork, endWorkDone>>
    BY <1>5 DEF RunEndWorkGet, GotoWork
  <2>2. work' \in [Posts -> WorkPCs]
    BY <1>3, <2>1 DEF WorkPCs
  <2>3. WorkInv'
    BY <1>3, <2>1 DEF Inv, WorkInv
  <2> QED BY <1>1, <1>2, <2>1, <2>2, <2>3 DEF Inv, TypeOK
<1>6. CASE RunEndWorkClaim(p)
  <2>1. /\ work' = [work EXCEPT ![p] = IF for[p] \in endWork THEN "end" ELSE "hook"]
        /\ work[p] = "claim" /\ for[p] \in Sessions
        /\ endWork' = endWork \cup {for[p]} /\ UNCHANGED <<for, endWorkDone>>
    BY <1>6 DEF RunEndWorkClaim, GotoWork, Started, Inv, WorkInv
  <2>2. work' \in [Posts -> WorkPCs] /\ endWork' \subseteq Sessions
    BY <1>3, <2>1 DEF WorkPCs, Inv, TypeOK
  <2>3. WorkInv'
    BY <1>3, <2>1 DEF Inv, WorkInv
  <2> QED BY <1>1, <1>2, <2>1, <2>2, <2>3 DEF Inv, TypeOK
<1>7. CASE HookReturns(p)
  <2>1. /\ work' = [work EXCEPT ![p] = "end"] /\ work[p] = "hook" /\ for[p] \in Sessions
        /\ endWorkDone' = endWorkDone \cup {for[p]} /\ UNCHANGED <<for, endWork>>
    BY <1>7 DEF HookReturns, GotoWork, Inv, WorkInv
  <2>2. work' \in [Posts -> WorkPCs] /\ endWorkDone' \subseteq Sessions
    BY <1>3, <2>1 DEF WorkPCs, Inv, TypeOK
  <2>3. WorkInv'
    BY <1>3, <2>1 DEF Inv, WorkInv
  <2> QED BY <1>1, <1>2, <2>1, <2>2, <2>3 DEF Inv, TypeOK
<1> QED BY <1>4, <1>5, <1>6, <1>7 DEF WorkStep

LEMMA ShutdownStepInv ==
  ASSUME Inv, ShutdownList \/ ShutdownReturn
  PROVE  Inv'
<1>1. UNCHANGED <<creating, created, sessions, done, ctxCancelled, finished, released,
                  work, for, endWork, endWorkDone>>
  BY DEF ShutdownList, ShutdownReturn, sessVars, workVars
<1>2. WorkInv'
  BY <1>1 DEF Inv, WorkInv
<1>3. OpenWhileListed' /\ GoneIsKilled'
  BY <1>1 DEF Inv, CancelInv, OpenWhileListed, GoneIsKilled
<1>4. CASE ShutdownReturn
  <2>1. UNCHANGED <<at, of, listed>> /\ engine' = "down" /\ \A s \in listed : at[s] = "end"
    BY <1>4 DEF ShutdownReturn
  <2> QED BY <1>1, <1>2, <1>3, <2>1 DEF Inv, TypeOK, CancelInv, ShutdownInv
<1>5. CASE ShutdownList
  <2>1. /\ engine' = "listed" /\ listed' = sessions
        /\ at' = [c \in Cancellers |-> IF c \in sessions THEN "get" ELSE at[c]]
        /\ of' = [c \in Cancellers |-> IF c \in sessions THEN c ELSE of[c]]
    BY <1>5 DEF ShutdownList
  <2>2. /\ at' \in [Cancellers -> CancelPCs] /\ of' \in [Cancellers -> Sessions \cup {NoSession}]
        /\ listed' \subseteq Sessions /\ sessions \subseteq created
    BY <2>1 DEF Inv, TypeOK, CancelPCs
  <2>3. ShutdownInv'
    <3>1. \A s \in sessions : s \in Cancellers
      BY DEF Inv, TypeOK, Cancellers
    <3> QED BY <2>1, <3>1 DEF ShutdownInv
  <2>4. ASSUME NEW c \in Cancellers
        PROVE  /\ at'[c] # "idle" => of'[c] \in created
               /\ at'[c] \in {"cancel", "delete", "release"} => of'[c] \in done
               /\ at'[c] \in {"release", "end"} => of'[c] \notin sessions
    BY <2>1, <2>2 DEF Inv, CancelInv
  <2>5. CancelInv'
    BY <1>1, <1>3, <2>4 DEF Inv, CancelInv
  <2>6. TypeOK'
    BY <1>1, <2>1, <2>2 DEF Inv, TypeOK
  <2> QED BY <1>2, <2>3, <2>5, <2>6 DEF Inv
<1> QED BY <1>4, <1>5

LEMMA StepInv == Inv /\ [Next]_vars => Inv'
<1> SUFFICES ASSUME Inv, [Next]_vars PROVE Inv'
  OBVIOUS
<1>1. CASE Next
  BY <1>1, CreateInv, HandlerInv, CancelStepInv, WorkStepInv, ShutdownStepInv DEF Next
<1>2. CASE UNCHANGED vars
  BY <1>2 DEF vars, sessVars, workVars, downVars, Inv, TypeOK, CancelInv, ShutdownInv, WorkInv,
              OpenWhileListed, GoneIsKilled
<1> QED BY <1>1, <1>2

LEMMA Invariance == Spec => []Inv
<1> QED BY InitInv, StepInv, PTL DEF Spec

------------------------------------------------------------------------------
\* Every step of requests, cancellers and shutdown keeps the state well typed.
THEOREM TypeCorrect == Spec => []TypeOK
<1>1. Inv => TypeOK
  BY DEF Inv
<1> QED BY <1>1, Invariance, PTL

\* However many requests start it, the end work of a session runs once.
THEOREM EndWorkOnce == Spec => []HookOnce
<1>1. Inv => HookOnce
  BY DEF Inv, WorkInv, HookOnce
<1> QED BY <1>1, Invariance, PTL

\* No request that finds a session finds its databases closed.
THEOREM NeverClosed == Spec => []OpenWhileListed
<1>1. Inv => OpenWhileListed
  BY DEF Inv, CancelInv
<1> QED BY <1>1, Invariance, PTL

\* A session leaves the manager only after it was killed.
THEOREM KilledFirst == Spec => []GoneIsKilled
<1>1. Inv => GoneIsKilled
  BY DEF Inv, CancelInv
<1> QED BY <1>1, Invariance, PTL

\* Shutdown waits until each session it found is killed and deleted, also
\* when a request is cancelling the same session.
THEOREM ShutdownKills == Spec => []ListedAreGone
<1>1. Inv => ListedAreGone
  <2> SUFFICES ASSUME Inv, engine = "down", NEW s \in listed
               PROVE  s \in done /\ s \notin sessions
    BY DEF ListedAreGone
  <2>1. s \in Cancellers /\ at[s] = "end" /\ of[s] = s
    BY DEF Inv, TypeOK, ShutdownInv, Cancellers
  <2>2. s \in created /\ s \notin sessions
    BY <2>1 DEF Inv, CancelInv
  <2> QED BY <2>2 DEF Inv, CancelInv, GoneIsKilled
<1> QED BY <1>1, Invariance, PTL

------------------------------------------------------------------------------
(* The semaphore.  That no token is lost needs the users waiting at a      *)
(* channel to be known: a token is handed to the head of a queue, which    *)
(* must be a user that is parked there and nowhere else, and not one that  *)
(* already has a token.                                                    *)

\* The queues hold parked users, each once, in the channel it parked on; no
\* user has seen a channel newer than the current one.
QueuesTidy ==
  /\ \A c \in Chans : \A i \in 1 .. Len(parked[c]) :
       place[parked[c][i]] = "parked" /\ on[parked[c][i]] = c
  /\ \A c \in Chans : \A i, j \in 1 .. Len(parked[c]) :
       parked[c][i] = parked[c][j] => i = j
  /\ \A u \in Users : on[u] <= sem

\* While a resize goes on there is a next channel, with a token for each round
\* left; a session that exists is counted.
ResizeTidy ==
  /\ rz = "carrying" => sem < MaxResizes /\ left <= free[sem + 1]
  /\ ~removed => num >= 1

SemInv == SemTypeOK /\ QueuesTidy /\ ResizeTidy

------------------------------------------------------------------------------
\* A share of the budget is a number of connections within it.
LEMMA LimitType ==
  ASSUME NEW n \in Nat, n > 0
  PROVE  Limit(n) \in 0 .. MaxConns
<1>1. MaxConns \in Nat
  BY SessionSemaphoreAssumption
<1>2. MaxConns \div n \in Int /\ n * (MaxConns \div n) <= MaxConns
      /\ MaxConns < n * (MaxConns \div n) + n
  BY <1>1
<1> DEFINE q == MaxConns \div n
<1>3. q >= 0
  <2>1. SUFFICES ASSUME q <= -1 PROVE FALSE
    BY <1>2
  <2>2. n * q <= n * (-1)
    BY <1>2, <2>1
  <2> QED BY <1>1, <1>2, <2>2
<1>4. q <= n * q
  BY <1>2, <1>3
<1> QED BY <1>1, <1>2, <1>3, <1>4 DEF Limit

LEMMA SemInitInv == SemInit => SemInv
<1> SUFFICES ASSUME SemInit PROVE SemInv
  OBVIOUS
<1>1. Limit(numOfSess) \in 0 .. MaxConns
  BY LimitType, SessionSemaphoreAssumption DEF SemInit
<1>2. cap \in [Chans -> Nat] /\ free \in [Chans -> Nat]
  BY <1>1, SessionSemaphoreAssumption DEF SemInit
<1>3. parked \in [Chans -> Seq(Users)]
  <2>1. << >> \in Seq(Users)
    OBVIOUS
  <2> QED BY <2>1 DEF SemInit
<1>4. SemTypeOK
  <2>1. num \in 0 .. MaxSessions /\ numOfSess \in 0 .. MaxSessions /\ 0 \in Chans
        /\ 0 \in 0 .. MaxConns
    BY SessionSemaphoreAssumption DEF SemInit, Chans
  <2>2. place \in [Users -> UserPCs] /\ on \in [Users -> Chans]
    BY <2>1 DEF SemInit, UserPCs
  <2> QED BY <1>2, <1>3, <2>1, <2>2 DEF SemInit, SemTypeOK
<1>5. QueuesTidy
  BY SessionSemaphoreAssumption DEF SemInit, QueuesTidy, Chans
<1> QED BY <1>4, <1>5, SessionSemaphoreAssumption DEF SemInv, ResizeTidy, SemInit

\* The user at the head of a queue is parked, and leaves the queue for good.
LEMMA HandedInv ==
  ASSUME SemInv, NEW c \in Chans, NEW who \in [Users -> UserPCs],
         \A v \in Users : place[v] = "parked" => who[v] = "parked",
         Handed(c, who), UNCHANGED <<on, sem>>
  PROVE  /\ parked' \in [Chans -> Seq(Users)] /\ place' \in [Users -> UserPCs]
         /\ QueuesTidy'
         /\ \E w \in Users : place[w] = "parked" /\ place' = [who EXCEPT ![w] = "holding"]
<1> DEFINE w == Head(parked[c])
<1>1. /\ parked[c] \in Seq(Users) /\ parked[c] # << >>
      /\ w = parked[c][1] /\ w \in Users /\ 1 \in 1 .. Len(parked[c])
  BY DEF SemInv, SemTypeOK, Handed
<1>2. place[w] = "parked" /\ on[w] = c
  BY <1>1 DEF SemInv, QueuesTidy
<1>3. place' = [who EXCEPT ![w] = "holding"] /\ parked' = [parked EXCEPT ![c] = Tail(parked[c])]
  BY DEF Handed
<1>4. parked' \in [Chans -> Seq(Users)] /\ place' \in [Users -> UserPCs]
  <2>1. Tail(parked[c]) \in Seq(Users) /\ parked \in [Chans -> Seq(Users)]
    BY <1>1 DEF SemInv, SemTypeOK
  <2>2. parked' \in [Chans -> Seq(Users)]
    BY <1>3, <2>1, Zenon
  <2>3. "holding" \in UserPCs
    BY DEF UserPCs
  <2>4. place' \in [Users -> UserPCs]
    BY <1>3, <2>3, Zenon
  <2> QED BY <2>2, <2>4
<1>5. \A d \in Chans : d # c => parked'[d] = parked[d]
  BY <1>3 DEF SemInv, SemTypeOK
<1>6. /\ Len(parked'[c]) = Len(parked[c]) - 1 /\ Len(parked[c]) \in Nat
      /\ \A i \in 1 .. Len(parked'[c]) :
           parked'[c][i] = parked[c][i + 1] /\ i + 1 \in 1 .. Len(parked[c])
  <2>1. parked'[c] = Tail(parked[c])
    BY <1>3 DEF SemInv, SemTypeOK
  <2> QED BY <1>1, <2>1
<1>7. ASSUME NEW d \in Chans, NEW i \in 1 .. Len(parked'[d])
      PROVE  place'[parked'[d][i]] = "parked" /\ on'[parked'[d][i]] = d
  <2>1. CASE d = c
    <3>1. parked[c][i + 1] # w
      BY <1>1, <1>6, <2>1 DEF SemInv, QueuesTidy
    <3>2. parked[c][i + 1] \in Users /\ place[parked[c][i + 1]] = "parked"
          /\ on[parked[c][i + 1]] = c
      BY <1>1, <1>6, <2>1 DEF SemInv, QueuesTidy
    <3>3. who[parked[c][i + 1]] = "parked"
      BY <3>2
    <3> QED BY <1>3, <1>6, <2>1, <3>1, <3>2, <3>3
  <2>2. CASE d # c
    <3>1. parked[d] \in Seq(Users) /\ i \in 1 .. Len(parked[d])
      BY <1>5, <2>2 DEF SemInv, SemTypeOK
    <3>2. parked[d][i] \in Users /\ place[parked[d][i]] = "parked" /\ on[parked[d][i]] = d
      BY <3>1 DEF SemInv, QueuesTidy
    <3>3. who[parked[d][i]] = "parked" /\ parked[d][i] # w
      BY <1>2, <2>2, <3>2
    <3> QED BY <1>3, <1>5, <2>2, <3>2, <3>3
  <2> QED BY <2>1, <2>2
<1>8. ASSUME NEW d \in Chans, NEW i \in 1 .. Len(parked'[d]), NEW j \in 1 .. Len(parked'[d]),
             parked'[d][i] = parked'[d][j]
      PROVE  i = j
  <2>1. CASE d = c
    <3>1. i \in 1 .. Len(parked'[c]) /\ j \in 1 .. Len(parked'[c])
      BY <2>1
    <3>2. /\ i + 1 \in 1 .. Len(parked[c]) /\ j + 1 \in 1 .. Len(parked[c])
          /\ parked[c][i + 1] = parked[c][j + 1]
      BY <1>6, <1>8, <2>1, <3>1
    <3>4. i + 1 = j + 1
      BY <3>2 DEF SemInv, QueuesTidy
    <3>3. i \in Int /\ j \in Int
      BY <1>6, <3>1
    <3> QED BY <3>3, <3>4
  <2>2. CASE d # c
    BY <1>5, <1>8, <2>2 DEF SemInv, QueuesTidy
  <2> QED BY <2>1, <2>2
<1>9. QueuesTidy'
  BY <1>7, <1>8 DEF QueuesTidy, SemInv
<1> QED BY <1>1, <1>2, <1>3, <1>4, <1>9

\* A step in which only users that are not parked move, and to nowhere near a
\* queue, keeps the queues tidy.
LEMMA MovedInv ==
  ASSUME SemInv, UNCHANGED <<parked, sem>>,
         \A v \in Users : place[v] = "parked" => place'[v] = "parked" /\ on'[v] = on[v],
         \A v \in Users : on'[v] <= sem
  PROVE  QueuesTidy'
<1>1. ASSUME NEW c \in Chans, NEW i \in 1 .. Len(parked[c])
      PROVE  place'[parked[c][i]] = "parked" /\ on'[parked[c][i]] = c
  <2>1. parked[c][i] \in Users
    BY <1>1 DEF SemInv, SemTypeOK
  <2> QED BY <1>1, <2>1 DEF SemInv, QueuesTidy
<1>2. \A c \in Chans : \A i, j \in 1 .. Len(parked'[c]) :
        parked'[c][i] = parked'[c][j] => i = j
  BY DEF SemInv, QueuesTidy
<1> QED BY <1>1, <1>2 DEF QueuesTidy

\* A goroutine that finds the channel empty joins the end of its queue.
LEMMA ParkInv ==
  ASSUME SemInv, NEW u \in Users, place[u] = "acquiring",
         place' = [place EXCEPT ![u] = "parked"],
         parked' = [parked EXCEPT ![on[u]] = Append(@, u)],
         UNCHANGED <<on, sem>>
  PROVE  parked' \in [Chans -> Seq(Users)] /\ QueuesTidy'
<1> DEFINE c == on[u]
<1>1. c \in Chans /\ parked[c] \in Seq(Users)
  BY DEF SemInv, SemTypeOK
<1>2. parked'[c] = Append(parked[c], u) /\ \A d \in Chans : d # c => parked'[d] = parked[d]
  BY <1>1 DEF SemInv, SemTypeOK
<1>3. parked' \in [Chans -> Seq(Users)]
  BY <1>1 DEF SemInv, SemTypeOK
<1>4. /\ Len(parked'[c]) = Len(parked[c]) + 1 /\ Len(parked[c]) \in Nat
      /\ parked'[c][Len(parked[c]) + 1] = u
      /\ \A i \in 1 .. Len(parked[c]) : parked'[c][i] = parked[c][i]
  BY <1>1, <1>2
<1>5. \A d \in Chans : \A i \in 1 .. Len(parked[d]) : parked[d][i] \in Users /\ parked[d][i] # u
  BY DEF SemInv, SemTypeOK, QueuesTidy
<1>6. ASSUME NEW d \in Chans, NEW i \in 1 .. Len(parked'[d])
      PROVE  place'[parked'[d][i]] = "parked" /\ on'[parked'[d][i]] = d
  <2>1. CASE d = c /\ i = Len(parked[c]) + 1
    BY <1>4, <2>1 DEF SemInv, SemTypeOK
  <2>2. CASE ~(d = c /\ i = Len(parked[c]) + 1)
    <3>1. i \in 1 .. Len(parked[d]) /\ parked'[d][i] = parked[d][i]
      BY <1>2, <1>4, <2>2
    <3> DEFINE v == parked[d][i]
    <3>2. v \in Users /\ v # u
      BY <1>5, <3>1
    <3>3. place[v] = "parked" /\ on[v] = d
      BY <3>1 DEF SemInv, QueuesTidy
    <3> QED BY <3>1, <3>2, <3>3 DEF SemInv, SemTypeOK
  <2> QED BY <2>1, <2>2
<1>7. ASSUME NEW d \in Chans, NEW i \in 1 .. Len(parked'[d]), NEW j \in 1 .. Len(parked'[d]),
             parked'[d][i] = parked'[d][j]
      PROVE  i = j
  <2>1. CASE d # c
    BY <1>2, <1>7, <2>1 DEF SemInv, QueuesTidy
  <2>2. CASE d = c
    <3>1. i \in 1 .. Len(parked[c]) + 1 /\ j \in 1 .. Len(parked[c]) + 1
      BY <1>4, <2>2
    <3>2. CASE i = Len(parked[c]) + 1 \/ j = Len(parked[c]) + 1
      BY <1>1, <1>4, <1>5, <1>7, <2>2, <3>1, <3>2
    <3>3. CASE i \in 1 .. Len(parked[c]) /\ j \in 1 .. Len(parked[c])
      BY <1>1, <1>4, <1>7, <2>2, <3>3 DEF SemInv, QueuesTidy
    <3> QED BY <1>4, <3>1, <3>2, <3>3
  <2> QED BY <2>1, <2>2
<1>8. \A v \in Users : on'[v] <= sem'
  BY DEF SemInv, QueuesTidy
<1> QED BY <1>3, <1>6, <1>7, <1>8 DEF QueuesTidy

\* A release: handed over, buffered or dropped.
LEMMA ReleasedInv ==
  ASSUME SemInv, NEW u \in Users, SendBack(u)
  PROVE  SemInv'
<1> DEFINE c == on[u]
           who == [place EXCEPT ![u] = "idle"]
<1>1. /\ c \in Chans /\ who \in [Users -> UserPCs] /\ place[u] = "releasing"
      /\ \A v \in Users : place[v] = "parked" => who[v] = "parked"
  BY DEF SemInv, SemTypeOK, UserPCs, SendBack
<1>2. Released(c, who) /\ UNCHANGED <<num, killed, removed, sem, cap, on, numOfSess, rz, left>>
  BY DEF SendBack, manVars
<1>3. /\ parked' \in [Chans -> Seq(Users)] /\ place' \in [Users -> UserPCs]
      /\ QueuesTidy'
  <2>1. CASE Handed(c, who)
    BY <1>1, <1>2, <2>1, HandedInv
  <2>2. CASE place' = who /\ UNCHANGED parked
    <3>1. QueuesTidy'
      BY <1>1, <1>2, <2>2, MovedInv DEF SemInv, QueuesTidy
    <3> QED BY <1>1, <2>2, <3>1 DEF SemInv, SemTypeOK
  <2> QED BY <1>2, <2>1, <2>2 DEF Released, Returned
<1>4. free' \in [Chans -> Nat] /\ \A d \in Chans : free'[d] >= free[d]
  <2>1. CASE UNCHANGED free
    BY <2>1 DEF SemInv, SemTypeOK
  <2>2. CASE free' = [free EXCEPT ![c] = @ + 1]
    BY <1>1, <2>2 DEF SemInv, SemTypeOK
  <2> QED BY <1>2, <2>1, <2>2 DEF Released, Returned
<1>5. SemTypeOK'
  BY <1>2, <1>3, <1>4 DEF SemInv, SemTypeOK
<1>6. ResizeTidy'
  <2>1. rz = "carrying" => sem + 1 \in Chans /\ left \in Nat
    BY SessionSemaphoreAssumption DEF SemInv, SemTypeOK, ResizeTidy, Chans
  <2>2. rz = "carrying" => left <= free'[sem + 1]
    <3>1. rz = "carrying" => free[sem + 1] <= free'[sem + 1] /\ left <= free[sem + 1]
      BY <1>4, <2>1 DEF SemInv, ResizeTidy
    <3>2. rz = "carrying" => free[sem + 1] \in Nat /\ free'[sem + 1] \in Nat
      BY <1>4, <2>1 DEF SemInv, SemTypeOK
    <3> QED BY <2>1, <3>1, <3>2
  <2> QED BY <1>2, <2>2 DEF SemInv, ResizeTidy
<1> QED BY <1>3, <1>5, <1>6 DEF SemInv

LEMMA UserInv ==
  ASSUME SemInv, NEW u \in Users, UserStep(u)
  PROVE  SemInv'
<1>0. 0 \in Chans /\ sem \in Chans /\ \A c \in Chans : c \in Nat
  BY SessionSemaphoreAssumption DEF SemInv, SemTypeOK, Chans
<1>1. CASE Acquire(u) \/ Release(u)
  <2>1. /\ UNCHANGED <<num, killed, removed, sem, cap, free, parked, numOfSess, rz, left>>
        /\ place' \in [Users -> UserPCs] /\ on' = [on EXCEPT ![u] = sem]
        /\ \A v \in Users : place[v] = "parked" => v # u /\ place'[v] = "parked"
    BY <1>1 DEF Acquire, Release, manVars, chanVars, SemInv, SemTypeOK, UserPCs
  <2>2. on' \in [Users -> Chans] /\ \A v \in Users : on'[v] <= sem
    BY <1>0, <2>1 DEF SemInv, SemTypeOK, QueuesTidy
  <2>3. \A v \in Users : v # u => on'[v] = on[v]
    BY <2>1 DEF SemInv, SemTypeOK
  <2>4. QueuesTidy'
    BY <2>1, <2>2, <2>3, MovedInv
  <2> QED BY <2>1, <2>2, <2>4 DEF SemInv, SemTypeOK, ResizeTidy
<1>2. CASE Receive(u)
  <2>0. /\ place[u] = "acquiring" /\ on[u] \in Chans /\ on[u] <= sem
        /\ UNCHANGED <<num, killed, removed, sem, cap, on, numOfSess, rz, left>>
    BY <1>2 DEF Receive, manVars, SemInv, SemTypeOK, QueuesTidy
  <2>1. CASE Receives(u)
    <3>1. /\ place' = [place EXCEPT ![u] = "holding"] /\ UNCHANGED parked
          /\ free' = [free EXCEPT ![on[u]] = @ - 1] /\ free[on[u]] > 0
      BY <1>2, <2>1 DEF Receive, Receives
    <3>2. place' \in [Users -> UserPCs] /\ \A v \in Users : place[v] = "parked" => place'[v] = "parked"
      BY <2>0, <3>1 DEF SemInv, SemTypeOK, UserPCs
    <3>3. free' \in [Chans -> Nat] /\ \A d \in Chans : d # on[u] => free'[d] = free[d]
      BY <2>0, <3>1 DEF SemInv, SemTypeOK
    <3>4. QueuesTidy'
      BY <2>0, <3>1, <3>2, MovedInv DEF SemInv, QueuesTidy
    <3>5. ResizeTidy'
      <4>1. rz = "carrying" => sem + 1 \in Chans /\ sem + 1 # on[u]
        BY <1>0, <2>0, SessionSemaphoreAssumption DEF SemInv, ResizeTidy, Chans
      <4> QED BY <2>0, <3>3, <4>1 DEF SemInv, ResizeTidy
    <3> QED BY <2>0, <3>1, <3>2, <3>3, <3>4, <3>5 DEF SemInv, SemTypeOK
  <2>2. CASE ~Receives(u)
    <3>1. /\ place' = [place EXCEPT ![u] = "parked"] /\ UNCHANGED free
          /\ parked' = [parked EXCEPT ![on[u]] = Append(@, u)]
      BY <1>2, <2>2 DEF Receive
    <3>2. place' \in [Users -> UserPCs]
      BY <3>1 DEF SemInv, SemTypeOK, UserPCs
    <3>3. parked' \in [Chans -> Seq(Users)] /\ QueuesTidy'
      BY <2>0, <3>1, ParkInv
    <3> QED BY <2>0, <3>1, <3>2, <3>3 DEF SemInv, SemTypeOK, ResizeTidy
  <2> QED BY <2>1, <2>2
<1>3. CASE SendBack(u)
  BY <1>3, ReleasedInv
<1> QED BY <1>1, <1>2, <1>3 DEF UserStep

\* One round of the loop takes a token out of the new channel.
LEMMA CarryInv ==
  ASSUME SemInv, Carry
  PROVE  SemInv'
<1>1. /\ rz = "carrying" /\ left > 0 /\ left' = left - 1
      /\ UNCHANGED <<num, killed, removed, sem, cap, on, numOfSess, rz>>
  BY DEF Carry, ResizeUnchanged, manVars
<1>2. /\ sem \in Chans /\ sem + 1 \in Chans /\ sem # sem + 1
      /\ free[sem + 1] \in Nat /\ left <= free[sem + 1] /\ left \in 0 .. MaxConns
      /\ free \in [Chans -> Nat]
  BY <1>1, SessionSemaphoreAssumption DEF SemInv, SemTypeOK, ResizeTidy, Chans
<1>3. free' \in [Chans -> Nat] /\ free'[sem + 1] = free[sem + 1] - 1
  <2>1. CASE free' = [free EXCEPT ![sem + 1] = @ - 1]
    BY <1>1, <1>2, <2>1
  <2>2. CASE free' = [free EXCEPT ![sem] = @ + 1, ![sem + 1] = @ - 1]
    BY <1>1, <1>2, <2>2
  <2> QED BY <2>1, <2>2 DEF Carry
<1>4. left' \in 0 .. MaxConns /\ left' <= free'[sem + 1]
  BY <1>1, <1>2, <1>3, SessionSemaphoreAssumption
<1>5. /\ parked' \in [Chans -> Seq(Users)] /\ place' \in [Users -> UserPCs]
      /\ QueuesTidy'
  <2>1. CASE Handed(sem, place)
    BY <1>1, <1>2, <2>1, HandedInv DEF SemInv, SemTypeOK
  <2>2. CASE UNCHANGED <<place, parked>>
    <3>1. QueuesTidy'
      BY <1>1, <2>2, MovedInv DEF SemInv, QueuesTidy
    <3> QED BY <2>2, <3>1 DEF SemInv, SemTypeOK
  <2> QED BY <2>1, <2>2 DEF Carry
<1> QED BY <1>1, <1>3, <1>4, <1>5 DEF SemInv, SemTypeOK, ResizeTidy

LEMMA ResizeInv ==
  ASSUME SemInv, ResizeStep
  PROVE  SemInv'
<1>1. CASE Tick \/ Stop
  <2>1. /\ UNCHANGED <<num, killed, removed, sem, cap, free, parked, place, on, numOfSess, left>>
        /\ rz' \in {"ticked", "exit"}
    BY <1>1 DEF Tick, Stop, ResizeUnchanged, manVars, chanVars
  <2>2. QueuesTidy'
    BY <2>1, MovedInv DEF SemInv, QueuesTidy
  <2> QED BY <2>1, <2>2 DEF SemInv, SemTypeOK, ResizeTidy
<1>2. CASE CompareNumber
  <2>1. /\ rz = "ticked" /\ numOfSess' = num
        /\ UNCHANGED <<num, killed, removed, sem, parked, place, on>>
    BY <1>2 DEF CompareNumber, ResizeUnchanged, manVars
  <2>2. QueuesTidy'
    BY <2>1, MovedInv DEF SemInv, QueuesTidy
  <2>3. CASE rz' \in {"idle", "crashed"} /\ UNCHANGED <<cap, free, left>>
    BY <2>1, <2>2, <2>3 DEF SemInv, SemTypeOK, ResizeTidy
  <2>4. CASE /\ num # numOfSess /\ num > 0 /\ sem < MaxResizes
             /\ rz' = "carrying" /\ left' = Limit(num)
             /\ cap' = [cap EXCEPT ![sem + 1] = Limit(num)]
             /\ free' = [free EXCEPT ![sem + 1] = Limit(num)]
    <3>1. Limit(num) \in 0 .. MaxConns
      BY <2>4, LimitType, SessionSemaphoreAssumption DEF SemInv, SemTypeOK
    <3>2. sem + 1 \in Chans /\ Limit(num) \in Nat
      BY <2>4, <3>1, SessionSemaphoreAssumption DEF SemInv, SemTypeOK, Chans
    <3>3. cap' \in [Chans -> Nat] /\ free' \in [Chans -> Nat] /\ free'[sem + 1] = Limit(num)
      BY <2>4, <3>2 DEF SemInv, SemTypeOK
    <3>4. ResizeTidy'
      BY <2>1, <2>4, <3>2, <3>3 DEF SemInv, ResizeTidy
    <3> QED BY <2>1, <2>2, <2>4, <3>1, <3>3, <3>4 DEF SemInv, SemTypeOK
  <2> QED BY <1>2, <2>3, <2>4 DEF CompareNumber
<1>3. CASE Carry
  BY <1>3, CarryInv
<1>4. CASE Swap
  <2>1. /\ rz = "carrying" /\ sem' = sem + 1 /\ rz' = "idle" /\ left' = 0
        /\ UNCHANGED <<num, killed, removed, cap, free, parked, place, on, numOfSess>>
    BY <1>4 DEF Swap, ResizeUnchanged, manVars
  <2>2. sem + 1 \in Chans /\ sem \in Nat /\ 0 \in 0 .. MaxConns
    BY <2>1, SessionSemaphoreAssumption DEF SemInv, SemTypeOK, ResizeTidy, Chans
  <2>3. \A u \in Users : on[u] <= sem + 1
    <3>1. \A u \in Users : on[u] \in Nat /\ on[u] <= sem
      BY SessionSemaphoreAssumption DEF SemInv, SemTypeOK, QueuesTidy, Chans
    <3> QED BY <2>2, <3>1
  <2>4. QueuesTidy'
    BY <2>1, <2>3 DEF SemInv, QueuesTidy
  <2> QED BY <2>1, <2>2, <2>4 DEF SemInv, SemTypeOK, ResizeTidy
<1> QED BY <1>1, <1>2, <1>3, <1>4 DEF ResizeStep

LEMMA ManagerInv ==
  ASSUME SemInv, ManagerStep
  PROVE  SemInv'
<1>1. UNCHANGED <<sem, cap, free, parked, place, on, numOfSess, rz, left>>
  BY DEF ManagerStep, SessionComes, SessionGoes, Kill, Remove, ManagerUnchanged, chanVars
<1>2. QueuesTidy'
  BY <1>1, MovedInv DEF SemInv, QueuesTidy
<1>3. /\ num' \in 0 .. MaxSessions /\ killed' \in BOOLEAN /\ removed' \in BOOLEAN
      /\ ~removed' => num' >= 1
  <2>1. /\ num \in Nat /\ num <= MaxSessions /\ MaxSessions \in Nat
        /\ killed \in BOOLEAN /\ removed \in BOOLEAN /\ (~removed => num >= 1)
    BY SessionSemaphoreAssumption DEF SemInv, SemTypeOK, ResizeTidy
  <2>2. CASE SessionComes
    BY <2>1, <2>2 DEF SessionComes
  <2>3. CASE SessionGoes
    <3>1. num >= 1 /\ (~removed => num >= 2) /\ num' = num - 1 /\ UNCHANGED <<killed, removed>>
      BY <2>1, <2>3 DEF SessionGoes, Others
    <3> QED BY <2>1, <3>1
  <2>4. CASE Kill
    BY <2>1, <2>4 DEF Kill
  <2>5. CASE Remove
    BY <2>1, <2>5 DEF Remove
  <2> QED BY <2>2, <2>3, <2>4, <2>5 DEF ManagerStep
<1> QED BY <1>1, <1>2, <1>3 DEF SemInv, SemTypeOK, ResizeTidy

LEMMA SemStepInv == SemInv /\ [SemNext]_semVars => SemInv'
<1> SUFFICES ASSUME SemInv, [SemNext]_semVars PROVE SemInv'
  OBVIOUS
<1>1. CASE SemNext
  BY <1>1, UserInv, ResizeInv, ManagerInv DEF SemNext
<1>2. CASE UNCHANGED semVars
  BY <1>2 DEF semVars, SemInv, SemTypeOK, QueuesTidy, ResizeTidy
<1> QED BY <1>1, <1>2

LEMMA SemInvariance == SemSpec => []SemInv
<1> QED BY SemInitInv, SemStepInv, PTL DEF SemSpec

\* Every step of users, resizer and manager keeps the state well typed: no
\* channel is ever asked for a token it does not have.
THEOREM SemTypeCorrect == SemSpec => []SemTypeOK
<1>1. SemInv => SemTypeOK
  BY DEF SemInv
<1> QED BY <1>1, SemInvariance, PTL

------------------------------------------------------------------------------
(* Conservation of tokens.                                                 *)

LEMMA HoldersFinite == IsFiniteSet(Holders) /\ Cardinality(Holders) \in Nat
BY FS_Subset, FS_CardinalityType, SessionSemaphoreAssumption DEF Holders

LEMMA OneMore ==
  ASSUME NEW u \in Users \ Holders, Holders' = Holders \cup {u}
  PROVE  Cardinality(Holders') = Cardinality(Holders) + 1
BY HoldersFinite, FS_AddElement

LEMMA OneLess ==
  ASSUME NEW u \in Holders, Holders' = Holders \ {u}
  PROVE  Cardinality(Holders') = Cardinality(Holders) - 1
BY HoldersFinite, FS_RemoveElement

LEMMA OneForAnother ==
  ASSUME NEW u \in Holders, NEW w \in Users \ Holders, Holders' = (Holders \ {u}) \cup {w}
  PROVE  Cardinality(Holders') = Cardinality(Holders)
<1>1. IsFiniteSet(Holders \ {u}) /\ Cardinality(Holders \ {u}) = Cardinality(Holders) - 1
  BY HoldersFinite, FS_RemoveElement
<1>2. Cardinality((Holders \ {u}) \cup {w}) = Cardinality(Holders \ {u}) + 1
  BY <1>1, FS_AddElement
<1> QED BY <1>1, <1>2, HoldersFinite

\* What changes nobody's token changes no count.
LEMMA Unmoved ==
  ASSUME TokensConserved, UNCHANGED <<cap, free>>, Holders' = Holders,
         sem' = 0 /\ rz' # "carrying" => sem = 0 /\ rz # "carrying"
  PROVE  TokensConserved'
BY DEF TokensConserved

LEMMA InitConserved == SemInit => TokensConserved
<1> SUFFICES ASSUME SemInit PROVE TokensConserved
  OBVIOUS
<1>1. Holders = {}
  BY DEF SemInit, Holders
<1>2. Cardinality(Holders) = 0
  BY <1>1, FS_EmptySet
<1>3. SemTypeOK /\ 0 \in Chans
  BY SemInitInv, SessionSemaphoreAssumption DEF SemInv, Chans
<1> QED BY <1>2, <1>3 DEF SemInit, TokensConserved, SemTypeOK

\* While the first channel is the current one, a holder's token is missing in
\* it, so a release finds room or somebody waiting.
LEMMA ReleaseConserves ==
  ASSUME SemInv, TokensConserved, NEW u \in Users, SendBack(u)
  PROVE  TokensConserved'
<1> SUFFICES ASSUME sem = 0, rz # "carrying"
             PROVE  Cardinality(Holders') + free'[0] = cap[0]
  BY DEF TokensConserved, SendBack
<1> DEFINE who == [place EXCEPT ![u] = "idle"]
<1>1. /\ on[u] = 0 /\ 0 \in Chans /\ u \in Holders
      /\ free \in [Chans -> Nat] /\ cap \in [Chans -> Nat] /\ place \in [Users -> UserPCs]
  BY SessionSemaphoreAssumption
     DEF SemInv, SemTypeOK, QueuesTidy, Chans, Holders, SendBack
<1>2. Cardinality(Holders) + free[0] = cap[0]
  BY DEF TokensConserved
<1>3. Cardinality(Holders \ {u}) = Cardinality(Holders) - 1 /\ Cardinality(Holders \ {u}) \in Nat
  BY <1>1, HoldersFinite, FS_RemoveElement, FS_CardinalityType
<1>4. Released(0, who)
  BY <1>1 DEF SendBack
<1>5. CASE Handed(0, who) /\ UNCHANGED free
  <2>1. \A v \in Users : place[v] = "parked" => who[v] = "parked"
    BY <1>1 DEF SendBack
  <2>2. who \in [Users -> UserPCs]
    BY <1>1 DEF UserPCs
  <2>3. UNCHANGED <<on, sem>>
    BY DEF SendBack
  <2>4. PICK w \in Users : place[w] = "parked" /\ place' = [who EXCEPT ![w] = "holding"]
    BY <1>1, <1>5, <2>1, <2>2, <2>3, HandedInv
  <2>5. w \in Users \ Holders /\ Holders' = (Holders \ {u}) \cup {w}
    BY <1>1, <2>4 DEF Holders, UserPCs
  <2>6. Cardinality(Holders') = Cardinality(Holders)
    BY <1>1, <2>5, OneForAnother
  <2> QED BY <1>2, <1>5, <2>6
<1>6. CASE place' = who /\ free' = [free EXCEPT ![0] = @ + 1]
  <2>1. Holders' = Holders \ {u}
    BY <1>1, <1>6 DEF Holders, UserPCs
  <2>2. free'[0] = free[0] + 1 /\ free[0] \in Nat /\ cap[0] \in Nat
    BY <1>1, <1>6
  <2> QED BY <1>2, <1>3, <2>1, <2>2, HoldersFinite
<1>7. ~Full(0)
  <2>1. free[0] \in Nat /\ cap[0] \in Nat
    BY <1>1
  <2> QED BY <1>2, <1>3, <2>1, HoldersFinite DEF Full
<1> QED BY <1>4, <1>5, <1>6, <1>7 DEF Released, Returned

LEMMA ReceiveConserves ==
  ASSUME SemInv, TokensConserved, NEW u \in Users, Receive(u)
  PROVE  TokensConserved'
<1> SUFFICES ASSUME sem = 0, rz # "carrying"
             PROVE  Cardinality(Holders') + free'[0] = cap[0]
  BY DEF TokensConserved, Receive
<1>1. /\ on[u] = 0 /\ 0 \in Chans /\ u \in Users \ Holders
      /\ free[0] \in Nat /\ cap[0] \in Nat /\ place \in [Users -> UserPCs]
      /\ free \in [Chans -> Nat]
  BY SessionSemaphoreAssumption
     DEF SemInv, SemTypeOK, QueuesTidy, Chans, Holders, Receive
<1>2. Cardinality(Holders) + free[0] = cap[0]
  BY DEF TokensConserved
<1>3. CASE Receives(u)
  <2>1. place' = [place EXCEPT ![u] = "holding"] /\ free' = [free EXCEPT ![0] = @ - 1]
    BY <1>1, <1>3 DEF Receive
  <2>2. Holders' = Holders \cup {u} /\ free'[0] = free[0] - 1
    BY <1>1, <2>1 DEF Holders, UserPCs
  <2>3. Cardinality(Holders') = Cardinality(Holders) + 1
    BY <1>1, <2>2, OneMore
  <2> QED BY <1>1, <1>2, <2>2, <2>3, HoldersFinite
<1>4. CASE ~Receives(u)
  <2>1. place' = [place EXCEPT ![u] = "parked"] /\ UNCHANGED free
    BY <1>4 DEF Receive
  <2>2. Holders' = Holders
    BY <1>1, <2>1 DEF Holders, UserPCs
  <2> QED BY <1>2, <2>1, <2>2
<1> QED BY <1>3, <1>4

LEMMA StepConserved == SemInv /\ TokensConserved /\ [SemNext]_semVars => TokensConserved'
<1> SUFFICES ASSUME SemInv, TokensConserved, [SemNext]_semVars PROVE TokensConserved'
  OBVIOUS
<1>0. place \in [Users -> UserPCs]
  BY DEF SemInv, SemTypeOK
<1>1. ASSUME NEW u \in Users, Acquire(u) \/ Release(u) PROVE TokensConserved'
  <2>1. Holders' = Holders
    BY <1>0, <1>1 DEF Acquire, Release, Holders, UserPCs
  <2> QED BY <1>1, <2>1, Unmoved DEF Acquire, Release, chanVars
<1>2. CASE ResizeStep
  <2>1. CASE Tick \/ Stop \/ \E n \in {"idle", "crashed"} :
               /\ CompareNumber /\ rz' = n /\ UNCHANGED <<cap, free>>
    <3>1. Holders' = Holders
      BY <2>1 DEF Tick, Stop, CompareNumber, Holders
    <3> QED BY <2>1, <3>1, Unmoved DEF Tick, Stop, CompareNumber, chanVars
  <2>2. CASE rz' = "carrying" \/ sem' # 0
    BY <2>2 DEF TokensConserved
  <2>3. CASE Swap
    <3>1. sem' # 0
      BY <2>3, SessionSemaphoreAssumption DEF Swap, SemInv, SemTypeOK, Chans
    <3> QED BY <2>2, <3>1
  <2> QED BY <1>2, <2>1, <2>2, <2>3 DEF ResizeStep, CompareNumber, Carry
<1>3. CASE ManagerStep
  <2>1. UNCHANGED <<cap, free, place, sem, rz>>
    BY <1>3 DEF ManagerStep, SessionComes, SessionGoes, Kill, Remove, ManagerUnchanged, chanVars
  <2> QED BY <2>1, Unmoved DEF Holders
<1>4. CASE UNCHANGED semVars
  BY <1>4, Unmoved DEF semVars, Holders
<1> QED BY <1>1, <1>2, <1>3, <1>4, ReceiveConserves, ReleaseConserves DEF SemNext, UserStep

\* As long as the number of sessions has not changed, the tokens in use and
\* those in the channel are exactly the budget; the scan budget keeps to this
\* for ever.
THEOREM Conserved == SemSpec => []TokensConserved
BY InitConserved, StepConserved, SemInvariance, PTL DEF SemSpec

------------------------------------------------------------------------------
\* The order in which the manager ends a session: it is killed, then deleted;
\* the count of sessions reaches zero only once this one is deleted.
CrashInv == (removed => killed) /\ CrashOnlyAfterKill

\* Deleting is guarded by the kill, and nothing takes a kill back.
LEMMA RemovedIsKilled ==
  ASSUME SemInv, removed => killed, [SemNext]_semVars
  PROVE  (removed' => killed') /\ (killed => killed')
<1>1. \/ UNCHANGED <<killed, removed>>
      \/ killed' = TRUE /\ removed' = removed
      \/ killed /\ killed' = killed
  <2>1. CASE UNCHANGED manVars
    BY <2>1 DEF manVars
  <2>2. CASE ManagerStep
    <3>1. CASE SessionComes \/ SessionGoes
      BY <3>1 DEF SessionComes, SessionGoes
    <3>2. CASE Kill
      BY <3>2 DEF Kill
    <3>3. CASE Remove
      BY <3>3 DEF Remove
    <3> QED BY <2>2, <3>1, <3>2, <3>3 DEF ManagerStep
  <2>3. CASE ResizeStep
    BY <2>1, <2>3 DEF ResizeStep, Tick, Stop, CompareNumber, Carry, Swap, ResizeUnchanged
  <2>4. ASSUME NEW u \in Users, UserStep(u) PROVE UNCHANGED manVars
    BY <2>4 DEF UserStep, Acquire, Receive, Release, SendBack
  <2> QED BY <2>1, <2>2, <2>3, <2>4 DEF SemNext, semVars, manVars
<1> QED BY <1>1 DEF SemInv, SemTypeOK

\* Only the comparison with a count of zero makes the engine crash.
LEMMA CrashFromZero ==
  ASSUME [SemNext]_semVars, rz' = "crashed"
  PROVE  rz = "crashed" \/ num = 0
<1>1. ASSUME NEW u \in Users, UserStep(u) PROVE rz' = rz
  BY <1>1 DEF UserStep, Acquire, Receive, Release, SendBack
<1>2. CASE ResizeStep
  BY <1>2 DEF ResizeStep, Tick, Stop, CompareNumber, Carry, Swap
<1>3. CASE ManagerStep
  BY <1>3 DEF ManagerStep, SessionComes, SessionGoes, Kill, Remove, ManagerUnchanged
<1> QED BY <1>1, <1>2, <1>3 DEF SemNext, semVars

LEMMA StepCrash == SemInv /\ CrashInv /\ [SemNext]_semVars => CrashInv'
<1> SUFFICES ASSUME SemInv, CrashInv, [SemNext]_semVars PROVE CrashInv'
  OBVIOUS
<1>1. (removed' => killed') /\ (killed => killed')
  BY RemovedIsKilled DEF CrashInv
<1>2. ASSUME rz' = "crashed" PROVE killed'
  <2>1. CASE rz = "crashed"
    BY <1>1, <2>1 DEF CrashInv, CrashOnlyAfterKill
  <2>2. CASE num = 0
    <3>1. removed
      BY <2>2 DEF SemInv, ResizeTidy
    <3> QED BY <1>1, <3>1 DEF CrashInv
  <2> QED BY <1>2, <2>1, <2>2, CrashFromZero
<1> QED BY <1>1, <1>2 DEF CrashInv, CrashOnlyAfterKill

\* While a session that nobody killed exists the number of sessions that
\* updateSessionSemaphore divides by is not zero, so the goroutine of that
\* session cannot bring the engine down, whatever other sessions do.
THEOREM NoEarlyCrash == SemSpec => []CrashOnlyAfterKill
<1>1. SemInit => CrashInv
  BY DEF SemInit, CrashInv, CrashOnlyAfterKill
<1>2. CrashInv => CrashOnlyAfterKill
  BY DEF CrashInv
<1> QED BY <1>1, <1>2, StepCrash, SemInvariance, PTL DEF SemSpec
==============================================================================
