-------------------------- MODULE SessionSemaphore --------------------------
(***************************************************************************)
(* The connection budget of a session (sessSemaphore in engine/sessions):  *)
(* a channel of tokens, exchanged for one of another capacity whenever the *)
(* number of sessions has changed.                                         *)
(*                                                                         *)
(* Acquire and Release copy the reference to the channel under a lock and  *)
(* use the copy without it, so a resize may come between the two steps.  A *)
(* goroutine that finds the channel empty parks on that channel, and a     *)
(* send to the channel hands its token to the one that has parked longest. *)
(***************************************************************************)
EXTENDS Integers, FiniteSets, Sequences

CONSTANTS
  Users,        \* goroutines of the session that use the network
  MaxConns,     \* MaxNetworkConns, shared by all sessions of the process
  MaxSessions,  \* bound on the number of sessions
  MaxResizes    \* bound on the number of channels made after the first

ASSUME SessionSemaphoreAssumption ==
  /\ IsFiniteSet(Users)
  /\ MaxSessions \in Nat \ {0} /\ MaxConns \in Nat /\ MaxConns >= MaxSessions
  /\ MaxResizes \in Nat

Chans == 0 .. MaxResizes

VARIABLES
  num,       \* sessions of the manager, this one included until it is removed
  numOfSess, \* what this session has last seen of it
  killed,    \* s.done is closed
  removed,   \* the manager has deleted this session
  sem,       \* the current channel
  cap, free, \* capacity and tokens of each channel
  parked,    \* users waiting in a receive from each channel, oldest first
  place, on, \* where each user is, and on which channel
  rz, left   \* updateSessionSemaphore, and the tokens still to carry over

manVars  == <<num, killed, removed>>
chanVars == <<sem, cap, free, parked>>
semVars == <<num, numOfSess, killed, removed, sem, cap, free, parked, place, on, rz, left>>

UserPCs == {"idle", "acquiring", "parked", "holding", "releasing"}

SemTypeOK ==
  /\ num \in 0 .. MaxSessions /\ numOfSess \in 0 .. MaxSessions
  /\ killed \in BOOLEAN /\ removed \in BOOLEAN
  /\ sem \in Chans
  /\ cap \in [Chans -> Nat] /\ free \in [Chans -> Nat]
  /\ parked \in [Chans -> Seq(Users)]
  /\ place \in [Users -> UserPCs] /\ on \in [Users -> Chans]
  /\ rz \in {"idle", "ticked", "carrying", "exit", "crashed"}
  /\ left \in 0 .. MaxConns

\* MaxNetworkConns / numOfSessions.
Limit(n) == MaxConns \div n

\* CreateSession counts the sessions before the manager adds this one; others
\* may come and go in between.
SemInit ==
  /\ num \in 1 .. MaxSessions /\ numOfSess \in 1 .. MaxSessions
  /\ killed = FALSE /\ removed = FALSE
  /\ sem = 0
  /\ cap = [c \in Chans |-> IF c = 0 THEN Limit(numOfSess) ELSE 0]
  /\ free = cap /\ parked = [c \in Chans |-> <<>>]
  /\ place = [u \in Users |-> "idle"] /\ on = [u \in Users |-> 0]
  /\ rz = "idle" /\ left = 0

Unlocked == rz # "carrying"

------------------------------------------------------------------------------
(* The channel (internal/net/network.go).                                  *)

\* A send to channel c by a goroutine whose step makes who of the users: to the
\* one that has parked longest, or to the buffer.
Handed(c, who) ==
  /\ parked[c] # <<>>
  /\ place' = [who EXCEPT ![Head(parked[c])] = "holding"]
  /\ parked' = [parked EXCEPT ![c] = Tail(@)]

CanBuffer(c) == parked[c] = <<>> /\ free[c] < cap[c]

Full(c) == parked[c] = <<>> /\ free[c] >= cap[c]

(* Acquire and Release of sessSemaphore, by user u.                        *)

Acquire(u) ==
  /\ place[u] = "idle" /\ Unlocked
  /\ place' = [place EXCEPT ![u] = "acquiring"]
  /\ on' = [on EXCEPT ![u] = sem]
  /\ UNCHANGED <<manVars, chanVars, numOfSess, rz, left>>

Receives(u) == free[on[u]] > 0

Receive(u) ==
  /\ place[u] = "acquiring"
  /\ IF Receives(u)
       THEN /\ place' = [place EXCEPT ![u] = "holding"]
            /\ free' = [free EXCEPT ![on[u]] = @ - 1]
            /\ UNCHANGED parked
       ELSE /\ place' = [place EXCEPT ![u] = "parked"]
            /\ parked' = [parked EXCEPT ![on[u]] = Append(@, u)]
            /\ UNCHANGED free
  /\ UNCHANGED <<manVars, sem, cap, on, numOfSess, rz, left>>

Release(u) ==
  /\ place[u] = "holding" /\ Unlocked
  /\ place' = [place EXCEPT ![u] = "releasing"]
  /\ on' = [on EXCEPT ![u] = sem]
  /\ UNCHANGED <<manVars, chanVars, numOfSess, rz, left>>

Returned(c, who) ==
  \/ Handed(c, who) /\ UNCHANGED free
  \/ /\ CanBuffer(c)
     /\ free' = [free EXCEPT ![c] = @ + 1]
     /\ place' = who /\ UNCHANGED parked

\* Mutants: a token that is not sent back, a send that blocks on a full channel.
ReleasedNever(c, who) == place' = who /\ UNCHANGED <<free, parked>>

ReleasedBlocking(c, who) == Returned(c, who)

Released(c, who) ==
  \/ Returned(c, who)
  \/ Full(c) /\ place' = who /\ UNCHANGED <<free, parked>>

SendBack(u) ==
  /\ place[u] = "releasing"
  /\ Released(on[u], [place EXCEPT ![u] = "idle"])
  /\ UNCHANGED <<manVars, sem, cap, on, numOfSess, rz, left>>

UserStep(u) == Acquire(u) \/ Receive(u) \/ Release(u) \/ SendBack(u)

------------------------------------------------------------------------------
(* updateSessionSemaphore and buildNewSessionSemaphore.                    *)

ResizeUnchanged == UNCHANGED <<manVars, on>>

\* The select takes the tick; it may do so even if the session is done.
Tick ==
  /\ rz = "idle"
  /\ rz' = "ticked"
  /\ UNCHANGED <<chanVars, place, numOfSess, left>> /\ ResizeUnchanged

Stop ==
  /\ rz = "idle" /\ killed
  /\ rz' = "exit"
  /\ UNCHANGED <<chanVars, place, numOfSess, left>> /\ ResizeUnchanged

\* A number of zero is a division by zero, and the engine goes down.
CompareNumber ==
  /\ rz = "ticked"
  /\ numOfSess' = num
  /\ \/ num = numOfSess /\ rz' = "idle" /\ UNCHANGED <<cap, free, left>>
     \/ num = 0 /\ rz' = "crashed" /\ UNCHANGED <<cap, free, left>>
     \/ /\ num # numOfSess /\ num > 0 /\ sem < MaxResizes
        /\ rz' = "carrying" /\ left' = Limit(num)
        /\ cap' = [cap EXCEPT ![sem + 1] = Limit(num)]
        /\ free' = [free EXCEPT ![sem + 1] = Limit(num)]
  /\ UNCHANGED <<sem, parked, place>> /\ ResizeUnchanged

\* One round of the loop: each token the old channel takes is one in use, and
\* is taken out of the new one.
Carry ==
  /\ rz = "carrying" /\ left > 0
  /\ \/ /\ Handed(sem, place)
        /\ free' = [free EXCEPT ![sem + 1] = @ - 1]
     \/ /\ CanBuffer(sem)
        /\ free' = [free EXCEPT ![sem] = @ + 1, ![sem + 1] = @ - 1]
        /\ UNCHANGED <<place, parked>>
  /\ left' = left - 1
  /\ UNCHANGED <<sem, cap, rz, numOfSess>> /\ ResizeUnchanged

Swap ==
  /\ rz = "carrying" /\ (left = 0 \/ Full(sem))
  /\ sem' = sem + 1
  /\ rz' = "idle" /\ left' = 0
  /\ UNCHANGED <<cap, free, parked, place, numOfSess>> /\ ResizeUnchanged

ResizeStep == Tick \/ Stop \/ CompareNumber \/ Carry \/ Swap

------------------------------------------------------------------------------
(* The session manager: other sessions come and go, this one is cancelled. *)

ManagerUnchanged == UNCHANGED <<chanVars, place, on, numOfSess, rz, left>>

Others == num - (IF removed THEN 0 ELSE 1)

SessionComes ==
  /\ num < MaxSessions
  /\ num' = num + 1
  /\ UNCHANGED <<killed, removed>> /\ ManagerUnchanged

SessionGoes ==
  /\ Others > 0
  /\ num' = num - 1
  /\ UNCHANGED <<killed, removed>> /\ ManagerUnchanged

Kill ==
  /\ ~killed /\ killed' = TRUE
  /\ UNCHANGED <<num, removed>> /\ ManagerUnchanged

\* Mutant: the session is deleted before it is killed.
RemoveFirst ==
  /\ ~removed
  /\ removed' = TRUE /\ num' = num - 1
  /\ UNCHANGED killed /\ ManagerUnchanged

Remove ==
  /\ killed /\ ~removed
  /\ removed' = TRUE /\ num' = num - 1
  /\ UNCHANGED killed /\ ManagerUnchanged

ManagerStep == SessionComes \/ SessionGoes \/ Kill \/ Remove

SemNext ==
  /\ rz # "crashed"
  /\ \/ \E u \in Users : UserStep(u)
     \/ ResizeStep
     \/ ManagerStep

SemSpec == SemInit /\ [][SemNext]_semVars

\* A goroutine that got a token finishes its connection, they all have
\* timeouts; locks are not held across anything that blocks.  Nobody has to
\* acquire again, and no session has to come or go.
SemFairSpec ==
  /\ SemSpec
  /\ \A u \in Users :
       WF_semVars(Receive(u)) /\ WF_semVars(Release(u)) /\ WF_semVars(SendBack(u))
  /\ WF_semVars(ResizeStep)

------------------------------------------------------------------------------
\* Users whose connection counts against the budget.
Holders == {u \in Users : place[u] \in {"holding", "releasing"}}

\* Until the number of sessions first changes no token is lost or made up:
\* those in use and those in the channel are the whole budget (session.go:387).
\* The scan budget is never resized, so for it this always holds.
TokensConserved ==
  sem = 0 /\ rz # "carrying" => Cardinality(Holders) + free[0] = cap[0]

\* A division by the number of sessions cannot bring the engine down while a
\* session that was not killed exists (session.go:455-467, manager.go:97-100).
CrashOnlyAfterKill == rz = "crashed" => killed

\* While no resize happens, whoever asks for a connection gets one.
AcquireServed ==
  \A u \in Users :
    place[u] = "acquiring" ~> place[u] = "holding" \/ rz = "crashed" \/ sem > 0

\* No holder is ever stuck giving its token back, whatever resizes do: neither
\* the lock nor a full channel holds it up (session.go:388-399).
ReleaseCompletes ==
  \A u \in Users : place[u] = "holding" ~> place[u] = "idle" \/ rz = "crashed"

=============================================================================
