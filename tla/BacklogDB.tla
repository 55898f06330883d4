------------------------------ MODULE BacklogDB ------------------------------
(***************************************************************************)
(* The backlog database of one session (engine/sessions/backlogdb) under   *)
(* several consumers.  A mutex and a single connection make each operation *)
(* one atomic step.  A consumer keeps the claims ClaimNext returned to it  *)
(* and later acks or releases them, by which time its lease may have       *)
(* expired, or the row may have been queued again by someone else.         *)
(***************************************************************************)
EXTENDS BacklogRows

CONSTANTS
  TTL,           \* the lease time given to ClaimNext, in seconds
  Resubmitted,   \* entities that callers may queue again and delete
  MaxTime,       \* bound on the clock
  MaxEnqueues,   \* bound on how often an entity is queued
  MaxClaims      \* the largest n given to ClaimNext

ASSUME BacklogDBAssumption ==
  /\ TTL \in Nat /\ MaxTime \in Nat /\ MaxEnqueues \in Nat /\ MaxClaims \in Nat
  /\ Resubmitted \subseteq Entities

VARIABLES
  rows,       \* the table
  now,        \* the clock, in seconds
  claims,     \* the end of each claim a consumer believes it has, 0: none
  enqueues,   \* how often each entity was queued by a caller
  finished    \* how often each entity was acked by an owner that held it

vars == <<rows, now, claims, enqueues, finished>>

NoClaim == [e \in Entities |-> 0]

TypeOK ==
  /\ rows \in Tables
  /\ now \in 0 .. MaxTime
  /\ claims \in [Owners -> [Entities -> Nat]]
  /\ enqueues \in [Entities -> 0 .. MaxEnqueues]
  /\ finished \in [Entities -> Nat]

Init ==
  /\ rows = EmptyTable
  /\ now = 0
  /\ claims = [o \in Owners |-> NoClaim]
  /\ enqueues = [e \in Entities |-> 0]
  /\ finished = [e \in Entities |-> 0]

Claimed(o, e) == claims[o][e] > 0

Forget(o, e) == [claims EXCEPT ![o][e] = 0]

\* Queue an entity: a new one, or one that has a row already.
EnqueueItem(e) ==
  /\ enqueues[e] < MaxEnqueues
  /\ Has(rows, e) => e \in Resubmitted
  /\ rows' = Enqueue(rows, e, now)
  /\ enqueues' = [enqueues EXCEPT ![e] = @ + 1]
  /\ UNCHANGED <<now, claims, finished>>

\* Record an entity that needs no work; it has no row yet.
EnqueueItemDone(e) ==
  /\ Has(rows, e) => e \in Resubmitted
  /\ rows' = EnqueueDone(rows, e, now)
  /\ UNCHANGED <<now, claims, enqueues, finished>>

ClaimNext(o, t, n) ==
  \E C \in ClaimSets(rows, t, n, TTL, now) :
    /\ C # {}
    /\ rows' = Lease(rows, C, o, TTL, now)
    /\ claims' = [claims EXCEPT ![o] =
                    [e \in Entities |->
                       IF e \in C THEN rows'[e].lease_until ELSE @[e]]]
    /\ UNCHANGED <<now, enqueues, finished>>

\* Ack with ownership enforced; a mismatch is an error and changes no row.
AckItem(o, e) ==
  /\ Claimed(o, e)
  /\ claims' = Forget(o, e)
  /\ rows' = Ack(rows, e, o)
  /\ finished' = IF AckMatches(rows, e, o)
                   THEN [finished EXCEPT ![e] = @ + 1] ELSE finished
  /\ UNCHANGED <<now, enqueues>>

ReleaseItem(o, e) ==
  /\ Claimed(o, e)
  /\ claims' = Forget(o, e)
  /\ rows' = Release(rows, e, o)
  /\ UNCHANGED <<now, enqueues, finished>>

\* The consumer stops without a word: its claims are gone, its leases stay.
Crash(o) ==
  /\ claims[o] # NoClaim
  /\ claims' = [claims EXCEPT ![o] = NoClaim]
  /\ UNCHANGED <<rows, now, enqueues, finished>>

Requeue ==
  /\ rows' = RequeueExpired(rows, now)
  /\ UNCHANGED <<now, claims, enqueues, finished>>

DeleteItem(e) ==
  /\ Has(rows, e) /\ e \in Resubmitted
  /\ rows' = Delete(rows, e)
  /\ UNCHANGED <<now, claims, enqueues, finished>>

Tick ==
  /\ now < MaxTime
  /\ now' = now + 1
  /\ UNCHANGED <<rows, claims, enqueues, finished>>

Next ==
  \/ \E e \in Entities : EnqueueItem(e) \/ EnqueueItemDone(e) \/ DeleteItem(e)
  \/ \E o \in Owners, t \in AssetTypes, n \in 1 .. MaxClaims : ClaimNext(o, t, n)
  \/ \E o \in Owners, e \in Entities : AckItem(o, e) \/ ReleaseItem(o, e)
  \/ \E o \in Owners : Crash(o)
  \/ Requeue
  \/ Tick

Spec == Init /\ [][Next]_vars

------------------------------------------------------------------------------
(* Properties.                                                             *)

\* The completions of an entity never outnumber the times it was queued,
\* however leases expire, change hands or are released in between: an owner
\* whose lease was taken over cannot complete the item a second time.
CompletedOncePerEnqueue == \A e \in Entities : finished[e] <= enqueues[e]

\* The claim of o on e has not expired.
Holds(o, e) == now < claims[o][e]

\* A claimed item is not handed out again before ack, release or expiry: no
\* two consumers hold live claims on one entity, and the row of a live claim
\* is leased to its holder.  (The interface promises this of Backlog in
\* engine/types/sessions.go; it needs callers that do not queue the row again.)
ExclusiveClaims ==
  \A o \in Owners, e \in Entities \ Resubmitted :
    Holds(o, e) =>
      /\ InState(rows, e, "leased") /\ rows[e].lease_owner = o
      /\ \A p \in Owners \ {o} : ~Holds(p, e)

\* An older item is never overtaken: when a step leases an item, no item of
\* the same type that was queued before and after the step is older.
OldestFirst ==
  [][\A c, d \in Entities :
       /\ ~InState(rows, c, "leased") /\ InState(rows', c, "leased")
       /\ InState(rows, d, "queued") /\ InState(rows', d, "queued")
       /\ TypeOf[c] = TypeOf[d]
       => rows[c].created_at <= rows[d].created_at]_vars
==============================================================================
