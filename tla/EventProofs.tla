---------------------------- MODULE EventProofs -----------------------------
(***************************************************************************)
(* An event in the backlog and on its way: theorems about the backlog      *)
(* database, for any set of entities, consumers and asset types, any lease *)
(* time and any interleaving, and about the pipelines that the handlers of *)
(* load.go make up, for any configured transformations.                    *)
(***************************************************************************)
EXTENDS BacklogDB, Pipelines, FiniteSetTheorems, WellFoundedInduction, TLAPS


------------------------------------------------------------------------------
(* The statements of the backlog keep the table well typed.                *)

LEMMA UpsertType ==
  ASSUME NEW r \in Tables, NEW e \in Entities, NEW st \in States, NEW t \in Nat
  PROVE  Upsert(r, e, st, t) \in Tables
BY DEF Upsert, Tables, Row, Has

LEMMA UnleaseType ==
  ASSUME NEW r \in Tables, NEW S, NEW st \in States, \A e \in S : r[e] # NoRow
  PROVE  Unlease(r, S, st) \in Tables
<1> SUFFICES ASSUME NEW e \in Entities
             PROVE  Unlease(r, S, st)[e] \in Row \cup {NoRow}
  BY DEF Unlease, Tables
<1>1. CASE e \in S
  <2>1. r[e] \in Row
    BY <1>1 DEF Tables
  <2>2. [r[e] EXCEPT !.state = st, !.lease_owner = NoOwner, !.lease_until = 0] \in Row
    BY <2>1 DEF Row
  <2> QED BY <1>1, <2>2 DEF Unlease
<1>2. CASE e \notin S
  BY <1>2 DEF Unlease, Tables
<1> QED BY <1>1, <1>2

LEMMA LeaseType ==
  ASSUME NEW r \in Tables, NEW C, \A e \in C : r[e] # NoRow,
         NEW o \in Owners, NEW ttl \in Nat, NEW t \in Nat
  PROVE  Lease(r, C, o, ttl, t) \in Tables
<1> SUFFICES ASSUME NEW e \in Entities
             PROVE  Lease(r, C, o, ttl, t)[e] \in Row \cup {NoRow}
  BY DEF Lease, Tables
<1>1. CASE e \in C
  <2>1. r[e] \in Row
    BY <1>1 DEF Tables
  <2>2. t + (IF ttl > 0 THEN ttl ELSE DefaultLease) \in Nat
    BY DEF DefaultLease
  <2>3. [r[e] EXCEPT !.state = "leased", !.lease_owner = o,
                     !.lease_until = t + (IF ttl > 0 THEN ttl ELSE DefaultLease)] \in Row
    BY <2>1, <2>2 DEF Row, States
  <2> QED BY <1>1, <2>3 DEF Lease
<1>2. CASE e \notin C
  BY <1>2 DEF Lease, Tables
<1> QED BY <1>1, <1>2

\* Only rows that exist are claimed, and each of them is queued or expired.
LEMMA ClaimedRows ==
  ASSUME NEW r, NEW t, NEW n, NEW ttl, NEW now_, NEW C \in ClaimSets(r, t, n, ttl, now_)
  PROVE  /\ C \subseteq Entities
         /\ \A e \in C : /\ r[e] # NoRow /\ TypeOf[e] = t
                         /\ \/ r[e].state = "queued"
                            \/ r[e].state = "leased" /\ r[e].lease_until <= now_
BY DEF ClaimSets, Eligible, Select, InState

\* The columns of a leased row.
LEMMA LeasedRow ==
  ASSUME NEW r \in Tables, NEW C \in SUBSET Entities, NEW e \in C, r[e] # NoRow,
         NEW o \in Owners, NEW ttl \in Nat, NEW t \in Nat
  PROVE  LET row == Lease(r, C, o, ttl, t)[e] IN
         /\ row.state = "leased" /\ row.lease_owner = o
         /\ row.lease_until = t + (IF ttl > 0 THEN ttl ELSE DefaultLease)
         /\ row.lease_until \in Nat /\ row.lease_until > t
         /\ row # NoRow
<1>1. r[e] \in Row
  BY DEF Tables
<1> DEFINE until == t + (IF ttl > 0 THEN ttl ELSE DefaultLease)
           row == [r[e] EXCEPT !.state = "leased", !.lease_owner = o,
                               !.lease_until = until]
<1>2. until \in Nat /\ until > t
  BY DEF DefaultLease
<1> HIDE DEF until
<1>3. row.state = "leased" /\ row.lease_owner = o /\ row.lease_until = until
  BY <1>1 DEF Row
<1>4. Lease(r, C, o, ttl, t)[e] = row
  BY DEF Lease, until
<1>5. row \in Row
  BY <1>1, <1>2 DEF Row, States
<1> QED BY <1>2, <1>3, <1>4, <1>5, BacklogRowsAssumption DEF until

LEMMA AckType ==
  ASSUME NEW r \in Tables, NEW e \in Entities, NEW o
  PROVE  Ack(r, e, o) \in Tables
BY UnleaseType DEF Ack, AckMatches, Has, States

LEMMA ReleaseType ==
  ASSUME NEW r \in Tables, NEW e \in Entities, NEW o
  PROVE  Release(r, e, o) \in Tables
BY UnleaseType DEF Release, ReleaseMatches, InState, States

LEMMA RequeueType ==
  ASSUME NEW r \in Tables, NEW t
  PROVE  RequeueExpired(r, t) \in Tables
BY UnleaseType DEF RequeueExpired, InState, States

LEMMA DeleteType ==
  ASSUME NEW r \in Tables, NEW e \in Entities
  PROVE  Delete(r, e) \in Tables
BY DEF Delete, Tables

------------------------------------------------------------------------------
(* What the statements do to one row.                                      *)

LEMMA UpsertRow ==
  ASSUME NEW r \in Tables, NEW e \in Entities, NEW st, NEW t, NEW x \in Entities
  PROVE  /\ x # e => Upsert(r, e, st, t)[x] = r[x]
         /\ x = e => Upsert(r, e, st, t)[x].state = st
BY DEF Upsert, Tables

LEMMA UnleaseRow ==
  ASSUME NEW r \in Tables, NEW S, \A e \in S : r[e] # NoRow, NEW st \in States,
         NEW x \in Entities
  PROVE  /\ x \notin S => Unlease(r, S, st)[x] = r[x]
         /\ x \in S => /\ Unlease(r, S, st)[x] \in Row
                       /\ Unlease(r, S, st)[x].state = st
                       /\ Unlease(r, S, st)[x].lease_owner = NoOwner
                       /\ Unlease(r, S, st)[x].lease_until = 0
<1>1. CASE x \in S
  <2>1. r[x] \in Row
    BY <1>1 DEF Tables
  <2> DEFINE row == [r[x] EXCEPT !.state = st, !.lease_owner = NoOwner, !.lease_until = 0]
  <2>2. /\ row \in Row
        /\ row.state = st /\ row.lease_owner = NoOwner /\ row.lease_until = 0
    BY <2>1 DEF Row
  <2> QED BY <1>1, <2>2 DEF Unlease
<1>2. CASE x \notin S
  BY <1>2 DEF Unlease
<1> QED BY <1>1, <1>2

\* An ack finishes the row it matches and changes no other.
LEMMA AckRow ==
  ASSUME NEW r \in Tables, NEW e \in Entities, NEW o, NEW x \in Entities
  PROVE  /\ x # e \/ ~AckMatches(r, e, o) => Ack(r, e, o)[x] = r[x]
         /\ x = e /\ AckMatches(r, e, o) => Ack(r, e, o)[x].state = "done"
<1> DEFINE S == {y \in {e} : AckMatches(r, y, o)}
<1>1. \A y \in S : r[y] # NoRow
  BY DEF AckMatches, Has
<1>2. Ack(r, e, o) = Unlease(r, S, "done")
  BY DEF Ack
<1> QED BY <1>1, <1>2, UnleaseRow DEF States

LEMMA ReleaseRow ==
  ASSUME NEW r \in Tables, NEW e \in Entities, NEW o, NEW x \in Entities
  PROVE  /\ x # e \/ ~ReleaseMatches(r, e, o) => Release(r, e, o)[x] = r[x]
         /\ x = e /\ ReleaseMatches(r, e, o) => Release(r, e, o)[x].state = "queued"
<1> DEFINE S == {y \in {e} : ReleaseMatches(r, y, o)}
<1>1. \A y \in S : r[y] # NoRow
  BY DEF ReleaseMatches, InState
<1>2. Release(r, e, o) = Unlease(r, S, "queued")
  BY DEF Release
<1> QED BY <1>1, <1>2, UnleaseRow DEF States

LEMMA RequeueRow ==
  ASSUME NEW r \in Tables, NEW t, NEW x \in Entities
  PROVE  \/ RequeueExpired(r, t)[x] = r[x]
         \/ /\ InState(r, x, "leased") /\ r[x].lease_until <= t
            /\ RequeueExpired(r, t)[x].state = "queued"
<1> DEFINE S == {y \in Entities : InState(r, y, "leased") /\ r[y].lease_until <= t}
<1>1. \A y \in S : r[y] # NoRow
  BY DEF InState
<1>2. RequeueExpired(r, t) = Unlease(r, S, "queued")
  BY DEF RequeueExpired
<1> QED BY <1>1, <1>2, UnleaseRow DEF States

------------------------------------------------------------------------------
(* Types.                                                                  *)

\* The type invariant: every statement leaves a well-typed table, the clock
\* and the number of enqueues stay within their bounds.
THEOREM TypeCorrect == Spec => []TypeOK
<1>1. Init => TypeOK
  BY BacklogDBAssumption DEF Init, TypeOK, EmptyTable, Tables, NoClaim
<1>2. TypeOK /\ [Next]_vars => TypeOK'
  <2> SUFFICES ASSUME TypeOK, [Next]_vars PROVE TypeOK'
    OBVIOUS
  <2> USE BacklogDBAssumption
  <2> USE DEF TypeOK
  <2>1. ASSUME NEW e \in Entities, EnqueueItem(e) PROVE TypeOK'
    <3>1. rows' \in Tables
      BY <2>1, UpsertType DEF EnqueueItem, Enqueue, States
    <3>2. enqueues' \in [Entities -> 0 .. MaxEnqueues]
      BY <2>1 DEF EnqueueItem
    <3> QED BY <2>1, <3>1, <3>2 DEF EnqueueItem
  <2>2. ASSUME NEW e \in Entities, EnqueueItemDone(e) PROVE TypeOK'
    BY <2>2, UpsertType DEF EnqueueItemDone, EnqueueDone, States
  <2>3. ASSUME NEW e \in Entities, DeleteItem(e) PROVE TypeOK'
    BY <2>3, DeleteType DEF DeleteItem
  <2>4. ASSUME NEW o \in Owners, NEW t \in AssetTypes, NEW n \in 1 .. MaxClaims,
               ClaimNext(o, t, n)
        PROVE  TypeOK'
    <3> PICK C \in ClaimSets(rows, t, n, TTL, now) :
          /\ rows' = Lease(rows, C, o, TTL, now)
          /\ claims' = [claims EXCEPT ![o] =
                          [e \in Entities |->
                             IF e \in C THEN rows'[e].lease_until ELSE @[e]]]
          /\ UNCHANGED <<now, enqueues, finished>>
      BY <2>4 DEF ClaimNext
    <3>1. rows' \in Tables
      BY ClaimedRows, LeaseType
    <3>2. \A e \in C : rows'[e].lease_until \in Nat
      BY ClaimedRows, LeasedRow
    <3>3. claims' \in [Owners -> [Entities -> Nat]]
      BY <3>2
    <3> QED BY <3>1, <3>3
  <2>5. ASSUME NEW o \in Owners, NEW e \in Entities, AckItem(o, e) PROVE TypeOK'
    BY <2>5, AckType DEF AckItem, Forget
  <2>6. ASSUME NEW o \in Owners, NEW e \in Entities, ReleaseItem(o, e) PROVE TypeOK'
    BY <2>6, ReleaseType DEF ReleaseItem, Forget
  <2>7. ASSUME NEW o \in Owners, Crash(o) PROVE TypeOK'
    BY <2>7 DEF Crash, NoClaim
  <2>8. CASE Requeue
    BY <2>8, RequeueType DEF Requeue
  <2>9. CASE Tick
    BY <2>9 DEF Tick
  <2>10. CASE UNCHANGED vars
    BY <2>10 DEF vars
  <2> QED BY <2>1, <2>2, <2>3, <2>4, <2>5, <2>6, <2>7, <2>8, <2>9, <2>10 DEF Next
<1> QED BY <1>1, <1>2, PTL DEF Spec

------------------------------------------------------------------------------
(* Completions never outnumber enqueues.                                   *)

Unfinished(e) == Has(rows, e) /\ rows[e].state # "done"

\* The inductive strengthening: an unfinished row is an enqueue that has not
\* been completed yet.
Pending == \A e \in Entities :
             finished[e] + (IF Unfinished(e) THEN 1 ELSE 0) <= enqueues[e]

\* A step that queues nothing and completes nothing keeps Pending if no row
\* becomes unfinished in it.
LEMMA PendingKept ==
  ASSUME TypeOK, Pending, UNCHANGED <<enqueues, finished>>,
         \A x \in Entities : Unfinished(x)' => Unfinished(x)
  PROVE  Pending'
<1> SUFFICES ASSUME NEW e \in Entities
             PROVE  finished'[e] + (IF Unfinished(e)' THEN 1 ELSE 0) <= enqueues'[e]
  BY DEF Pending
<1>1. finished[e] \in Nat /\ enqueues[e] \in Nat
  BY DEF TypeOK
<1>2. finished[e] + (IF Unfinished(e) THEN 1 ELSE 0) <= enqueues[e]
  BY DEF Pending
<1> QED BY <1>1, <1>2

\* However leases expire and change hands, an item is completed by an owner at
\* most once for each time it was queued.
THEOREM CompletedOnce == Spec => []CompletedOncePerEnqueue
<1>1. Init => Pending
  BY DEF Init, Pending, Unfinished, Has, EmptyTable
<1>2. TypeOK /\ Pending /\ [Next]_vars => Pending'
  <2> SUFFICES ASSUME TypeOK, Pending, [Next]_vars PROVE Pending'
    OBVIOUS
  <2>0. /\ rows \in Tables
        /\ finished \in [Entities -> Nat] /\ enqueues \in [Entities -> Nat]
    BY DEF TypeOK
  <2>1. ASSUME NEW e \in Entities, EnqueueItem(e) PROVE Pending'
    <3> SUFFICES ASSUME NEW x \in Entities
                 PROVE  finished'[x] + (IF Unfinished(x)' THEN 1 ELSE 0) <= enqueues'[x]
      BY DEF Pending
    <3>1. finished[x] \in Nat /\ enqueues[x] \in Nat
          /\ finished[x] + (IF Unfinished(x) THEN 1 ELSE 0) <= enqueues[x]
      BY <2>0 DEF Pending
    <3>2. finished'[x] = finished[x]
      BY <2>1 DEF EnqueueItem
    <3>3. CASE x = e
      <4>1. enqueues'[x] = enqueues[x] + 1
        BY <2>0, <2>1, <3>3 DEF EnqueueItem
      <4> QED BY <3>1, <3>2, <4>1
    <3>4. CASE x # e
      <4>1. enqueues'[x] = enqueues[x] /\ rows'[x] = rows[x]
        BY <2>0, <2>1, <3>4, UpsertRow DEF EnqueueItem, Enqueue, States
      <4> QED BY <3>1, <3>2, <4>1 DEF Unfinished, Has
    <3> QED BY <3>3, <3>4
  <2>2. ASSUME NEW e \in Entities, EnqueueItemDone(e) PROVE Pending'
    <3>1. \A x \in Entities : Unfinished(x)' => Unfinished(x)
      BY <2>0, <2>2, UpsertRow DEF EnqueueItemDone, EnqueueDone, Unfinished, Has
    <3> QED BY <2>2, <3>1, PendingKept DEF EnqueueItemDone
  <2>3. ASSUME NEW e \in Entities, DeleteItem(e) PROVE Pending'
    <3>1. \A x \in Entities : Unfinished(x)' => Unfinished(x)
      BY <2>0, <2>3 DEF DeleteItem, Delete, Unfinished, Has, Tables
    <3> QED BY <2>3, <3>1, PendingKept DEF DeleteItem
  <2>4. ASSUME NEW o \in Owners, NEW t \in AssetTypes, NEW n \in 1 .. MaxClaims,
               ClaimNext(o, t, n)
        PROVE  Pending'
    <3> PICK C \in ClaimSets(rows, t, n, TTL, now) :
          rows' = Lease(rows, C, o, TTL, now) /\ UNCHANGED <<enqueues, finished>>
      BY <2>4 DEF ClaimNext
    <3>1. ASSUME NEW x \in Entities PROVE Unfinished(x)' => Unfinished(x)
      <4>1. CASE x \in C
        BY <4>1, ClaimedRows DEF Unfinished, Has
      <4>2. CASE x \notin C
        BY <4>2 DEF Lease, Unfinished, Has
      <4> QED BY <4>1, <4>2
    <3> QED BY <3>1, PendingKept
  <2>5. ASSUME NEW o \in Owners, NEW e \in Entities, AckItem(o, e) PROVE Pending'
    <3>1. CASE AckMatches(rows, e, o)
      <4> SUFFICES ASSUME NEW x \in Entities
                   PROVE  finished'[x] + (IF Unfinished(x)' THEN 1 ELSE 0) <= enqueues'[x]
        BY DEF Pending
      <4>1. finished[x] \in Nat /\ enqueues[x] \in Nat
            /\ finished[x] + (IF Unfinished(x) THEN 1 ELSE 0) <= enqueues[x]
        BY <2>0 DEF Pending
      <4>2. enqueues'[x] = enqueues[x]
        BY <2>5 DEF AckItem
      <4>3. CASE x = e
        <5>1. Unfinished(x)
          BY <3>1, <4>3, BacklogRowsAssumption DEF AckMatches, Unfinished, Has
        <5>2. ~Unfinished(x)'
          BY <2>0, <2>5, <3>1, <4>3, AckRow DEF AckItem, Unfinished, Has
        <5>3. finished'[x] = finished[x] + 1
          BY <2>0, <2>5, <3>1, <4>3 DEF AckItem
        <5> QED BY <4>1, <4>2, <5>1, <5>2, <5>3
      <4>4. CASE x # e
        <5>1. finished'[x] = finished[x] /\ rows'[x] = rows[x]
          BY <2>0, <2>5, <3>1, <4>4, AckRow DEF AckItem
        <5> QED BY <4>1, <4>2, <5>1 DEF Unfinished, Has
      <4> QED BY <4>3, <4>4
    <3>2. CASE ~AckMatches(rows, e, o)
      <4>1. \A x \in Entities : Unfinished(x)' => Unfinished(x)
        BY <2>0, <2>5, <3>2, AckRow DEF AckItem, Unfinished, Has
      <4> QED BY <2>5, <3>2, <4>1, PendingKept DEF AckItem
    <3> QED BY <3>1, <3>2
  <2>6. ASSUME NEW o \in Owners, NEW e \in Entities, ReleaseItem(o, e) PROVE Pending'
    <3>1. ASSUME NEW x \in Entities PROVE Unfinished(x)' => Unfinished(x)
      BY <2>0, <2>6, ReleaseRow
         DEF ReleaseItem, ReleaseMatches, InState, Unfinished, Has
    <3> QED BY <2>6, <3>1, PendingKept DEF ReleaseItem
  <2>7. ASSUME NEW o \in Owners, Crash(o) PROVE Pending'
    BY <2>7, PendingKept DEF Crash, Unfinished, Has
  <2>8. CASE Requeue
    <3>1. ASSUME NEW x \in Entities PROVE Unfinished(x)' => Unfinished(x)
      BY <2>0, <2>8, RequeueRow DEF Requeue, InState, Unfinished, Has
    <3> QED BY <2>8, <3>1, PendingKept DEF Requeue
  <2>9. CASE Tick
    BY <2>9, PendingKept DEF Tick, Unfinished, Has
  <2>10. CASE UNCHANGED vars
    BY <2>10, PendingKept DEF vars, Unfinished, Has
  <2> QED BY <2>1, <2>2, <2>3, <2>4, <2>5, <2>6, <2>7, <2>8, <2>9, <2>10 DEF Next
<1>3. TypeOK /\ Pending => CompletedOncePerEnqueue
  <2> SUFFICES ASSUME TypeOK, Pending, NEW e \in Entities
               PROVE  finished[e] <= enqueues[e]
    BY DEF CompletedOncePerEnqueue
  <2>1. finished[e] \in Nat /\ enqueues[e] \in Nat
    BY DEF TypeOK
  <2> QED BY <2>1 DEF Pending
<1> QED BY <1>1, <1>2, <1>3, TypeCorrect, PTL DEF Spec

------------------------------------------------------------------------------
(* Claims on an item that callers never queue again are exclusive.         *)

Once == Entities \ Resubmitted

\* The inductive strengthening: the row of a live claim is leased to its
\* holder until exactly the end the holder knows.
ClaimsMatchRows ==
  \A o \in Owners, e \in Once :
    Holds(o, e) => /\ InState(rows, e, "leased") /\ rows[e].lease_owner = o
                   /\ rows[e].lease_until = claims[o][e]

\* A step keeps ClaimsMatchRows if it makes no claim and leaves the rows of
\* the live claims alone.
LEMMA ClaimsKept ==
  ASSUME TypeOK, ClaimsMatchRows,
         \A o \in Owners, e \in Once :
           Holds(o, e)' => /\ Holds(o, e) /\ claims'[o][e] = claims[o][e]
                           /\ rows'[e] = rows[e]
  PROVE  ClaimsMatchRows'
BY DEF ClaimsMatchRows, InState

\* Two consumers never hold live claims on an item that no caller queues,
\* finishes or deletes once it has a row, and the row of a live claim is leased
\* to its holder: for any lease time, clock and number of consumers.
THEOREM Exclusive == Spec => []ExclusiveClaims
<1>1. Init => ClaimsMatchRows
  BY DEF Init, ClaimsMatchRows, Holds, NoClaim, Once
<1>2. TypeOK /\ ClaimsMatchRows /\ [Next]_vars => ClaimsMatchRows'
  <2> SUFFICES ASSUME TypeOK, ClaimsMatchRows, [Next]_vars
               PROVE  ClaimsMatchRows'
    OBVIOUS
  <2>0. /\ rows \in Tables /\ now \in Nat
        /\ claims \in [Owners -> [Entities -> Nat]]
    BY DEF TypeOK
  <2>a. \A o \in Owners, e \in Once : Holds(o, e) => Has(rows, e)
    BY DEF ClaimsMatchRows, InState, Has
  <2>1. ASSUME NEW e \in Entities, EnqueueItem(e) PROVE ClaimsMatchRows'
    <3>1. (e \in Once => ~Has(rows, e)) /\ UNCHANGED <<now, claims>>
      BY <2>1 DEF EnqueueItem, Once
    <3>2. \A x \in Entities : x # e => rows'[x] = rows[x]
      BY <2>0, <2>1, UpsertRow DEF EnqueueItem, Enqueue
    <3> QED BY <2>a, <3>1, <3>2, ClaimsKept DEF Holds, Once
  <2>2. ASSUME NEW e \in Entities, EnqueueItemDone(e) PROVE ClaimsMatchRows'
    <3>1. (e \in Once => ~Has(rows, e)) /\ UNCHANGED <<now, claims>>
      BY <2>2 DEF EnqueueItemDone, Once
    <3>2. \A x \in Entities : x # e => rows'[x] = rows[x]
      BY <2>0, <2>2, UpsertRow DEF EnqueueItemDone, EnqueueDone
    <3> QED BY <2>a, <3>1, <3>2, ClaimsKept DEF Holds, Once
  <2>3. ASSUME NEW e \in Entities, DeleteItem(e) PROVE ClaimsMatchRows'
    <3>1. e \notin Once /\ UNCHANGED <<now, claims>>
      BY <2>3 DEF DeleteItem, Once
    <3>2. \A x \in Entities : x # e => rows'[x] = rows[x]
      BY <2>0, <2>3 DEF DeleteItem, Delete, Tables
    <3> QED BY <3>1, <3>2, ClaimsKept DEF Holds, Once
  <2>4. ASSUME NEW o \in Owners, NEW t \in AssetTypes, NEW n \in 1 .. MaxClaims,
               ClaimNext(o, t, n)
        PROVE  ClaimsMatchRows'
    <3> PICK C \in ClaimSets(rows, t, n, TTL, now) :
          /\ rows' = Lease(rows, C, o, TTL, now)
          /\ claims' = [claims EXCEPT ![o] =
                          [e \in Entities |->
                             IF e \in C THEN rows'[e].lease_until ELSE @[e]]]
          /\ UNCHANGED now
      BY <2>4 DEF ClaimNext
    <3> SUFFICES ASSUME NEW p \in Owners, NEW x \in Once, Holds(p, x)'
                 PROVE  /\ InState(rows', x, "leased") /\ rows'[x].lease_owner = p
                        /\ rows'[x].lease_until = claims'[p][x]
      BY DEF ClaimsMatchRows
    <3>0. x \in Entities
      BY DEF Once
    <3>1. CASE x \in C
      <4>1. /\ rows'[x].state = "leased" /\ rows'[x].lease_owner = o
            /\ rows'[x] # NoRow
        BY <2>0, <3>0, <3>1, ClaimedRows, LeasedRow, BacklogDBAssumption
      <4>2. p = o
        \* a live claim of somebody else would have kept x out of C
        <5> SUFFICES ASSUME p # o PROVE FALSE
          OBVIOUS
        <5>1. Holds(p, x)
          BY <2>0, <3>0 DEF Holds
        <5>2. rows[x].state = "leased" /\ rows[x].lease_until > now
          BY <2>0, <3>0, <5>1 DEF ClaimsMatchRows, InState, Holds
        <5>3. rows[x] \in Row
          BY <2>0, <3>0, <3>1, ClaimedRows DEF Tables
        <5> QED BY <2>0, <3>1, <5>2, <5>3, ClaimedRows DEF Row
      <4>3. claims'[o][x] = rows'[x].lease_until
        BY <2>0, <3>0, <3>1
      <4> QED BY <4>1, <4>2, <4>3 DEF InState
    <3>2. CASE x \notin C
      <4>1. rows'[x] = rows[x] /\ claims'[p][x] = claims[p][x]
        BY <2>0, <3>0, <3>2 DEF Lease
      <4> QED BY <4>1 DEF ClaimsMatchRows, Holds, InState
    <3> QED BY <3>1, <3>2
  <2>5. ASSUME NEW o \in Owners, NEW e \in Entities, AckItem(o, e) PROVE ClaimsMatchRows'
    <3> SUFFICES ASSUME NEW p \in Owners, NEW x \in Once, Holds(p, x)'
                 PROVE  Holds(p, x) /\ claims'[p][x] = claims[p][x] /\ rows'[x] = rows[x]
      BY ClaimsKept
    <3>0. x \in Entities
      BY DEF Once
    <3>1. ~(p = o /\ x = e) /\ claims'[p][x] = claims[p][x] /\ Holds(p, x)
      BY <2>0, <2>5, <3>0 DEF AckItem, Forget, Holds
    <3>2. x = e => ~AckMatches(rows, e, o)
      BY <3>1, BacklogRowsAssumption DEF ClaimsMatchRows, AckMatches
    <3> QED BY <2>0, <2>5, <3>0, <3>1, <3>2, AckRow DEF AckItem
  <2>6. ASSUME NEW o \in Owners, NEW e \in Entities, ReleaseItem(o, e)
        PROVE  ClaimsMatchRows'
    <3> SUFFICES ASSUME NEW p \in Owners, NEW x \in Once, Holds(p, x)'
                 PROVE  Holds(p, x) /\ claims'[p][x] = claims[p][x] /\ rows'[x] = rows[x]
      BY ClaimsKept
    <3>0. x \in Entities
      BY DEF Once
    <3>1. ~(p = o /\ x = e) /\ claims'[p][x] = claims[p][x] /\ Holds(p, x)
      BY <2>0, <2>6, <3>0 DEF ReleaseItem, Forget, Holds
    <3>2. x = e => ~ReleaseMatches(rows, e, o)
      BY <3>1, BacklogRowsAssumption DEF ClaimsMatchRows, ReleaseMatches
    <3> QED BY <2>0, <2>6, <3>0, <3>1, <3>2, ReleaseRow DEF ReleaseItem
  <2>7. ASSUME NEW o \in Owners, Crash(o) PROVE ClaimsMatchRows'
    BY <2>0, <2>7, ClaimsKept DEF Crash, Holds, NoClaim, Once
  <2>8. CASE Requeue
    <3>1. ASSUME NEW p \in Owners, NEW x \in Once, Holds(p, x)
          PROVE  rows'[x] = rows[x]
      <4>1. rows[x].state = "leased" /\ rows[x].lease_until > now /\ rows[x] \in Row
        BY <2>0, <3>1 DEF ClaimsMatchRows, InState, Holds, Tables, Once
      <4> QED BY <2>0, <2>8, <4>1, RequeueRow DEF Requeue, Row, Once
    <3> QED BY <2>8, <3>1, ClaimsKept DEF Requeue, Holds
  <2>9. CASE Tick
    BY <2>0, <2>9, ClaimsKept DEF Tick, Holds, Once
  <2>10. CASE UNCHANGED vars
    BY <2>10, ClaimsKept DEF vars, Holds
  <2> QED BY <2>1, <2>2, <2>3, <2>4, <2>5, <2>6, <2>7, <2>8, <2>9, <2>10 DEF Next
<1>3. ClaimsMatchRows => ExclusiveClaims
  BY DEF ClaimsMatchRows, ExclusiveClaims, Once
<1> QED BY <1>1, <1>2, <1>3, TypeCorrect, PTL DEF Spec

------------------------------------------------------------------------------
(* The order of claims.                                                    *)

\* A statement other than a claim leases no row.
LEMMA OnlyClaimsLease ==
  ASSUME TypeOK, [Next]_vars, NEW c \in Entities,
         ~InState(rows, c, "leased"), InState(rows', c, "leased")
  PROVE  \E o \in Owners, t \in AssetTypes, n \in 1 .. MaxClaims : ClaimNext(o, t, n)
<1>0. rows \in Tables
  BY DEF TypeOK
<1>1. ASSUME rows'[c] = rows[c] PROVE FALSE
  BY <1>1 DEF InState
<1>2. ASSUME NEW e \in Entities, EnqueueItem(e) \/ EnqueueItemDone(e) PROVE FALSE
  BY <1>0, <1>1, <1>2, UpsertRow DEF EnqueueItem, EnqueueItemDone, Enqueue, EnqueueDone, InState
<1>3. ASSUME NEW e \in Entities, DeleteItem(e) PROVE FALSE
  BY <1>0, <1>1, <1>3 DEF DeleteItem, Delete, Tables, InState
<1>4. ASSUME NEW o \in Owners, NEW e \in Entities, AckItem(o, e) PROVE FALSE
  BY <1>0, <1>1, <1>4, AckRow DEF AckItem, InState
<1>5. ASSUME NEW o \in Owners, NEW e \in Entities, ReleaseItem(o, e) PROVE FALSE
  BY <1>0, <1>1, <1>5, ReleaseRow DEF ReleaseItem, InState
<1>6. CASE Requeue
  BY <1>0, <1>1, <1>6, RequeueRow DEF Requeue, InState
<1>7. CASE UNCHANGED rows
  BY <1>1, <1>7
<1> QED BY <1>2, <1>3, <1>4, <1>5, <1>6, <1>7 DEF Next, vars, Crash, Tick

\* A claim takes the oldest rows of its type: a row of that type that is in the
\* queue before it and after it is no older than any row it takes.
LEMMA ClaimTakesOldest ==
  ASSUME TypeOK, NEW o \in Owners, NEW t \in AssetTypes, NEW n \in 1 .. MaxClaims,
         ClaimNext(o, t, n),
         NEW c \in Entities, ~InState(rows, c, "leased"), InState(rows', c, "leased"),
         NEW d \in Entities, InState(rows, d, "queued"), InState(rows', d, "queued"),
         TypeOf[c] = TypeOf[d]
  PROVE  rows[c].created_at <= rows[d].created_at
<1> PICK C \in ClaimSets(rows, t, n, TTL, now) : rows' = Lease(rows, C, o, TTL, now)
  BY DEF ClaimNext
<1>1. \A e \in Entities \ C : rows'[e] = rows[e]
  BY DEF Lease
<1>2. c \in C
  BY <1>1 DEF InState
<1>3. d \notin C
  <2>1. C \in SUBSET Entities /\ \A e \in C : rows[e] # NoRow
    BY ClaimedRows
  <2>2. ASSUME d \in C PROVE rows'[d].state = "leased"
    BY <2>1, <2>2, LeasedRow, BacklogDBAssumption DEF TypeOK
  <2> QED BY <2>2 DEF InState
<1>4. TypeOf[d] = t
  BY <1>2, ClaimedRows
<1>5. d \in Eligible(rows, t, TTL, now)
  BY <1>4 DEF Eligible, Select
<1> QED BY <1>2, <1>3, <1>5 DEF ClaimSets

\* Whatever is queued, leased, released or has expired in between, a claim
\* never leases an item while an older one of its type stays in the queue.
THEOREM InOrder == Spec => OldestFirst
<1>1. TypeOK /\ [Next]_vars =>
        [\A c, d \in Entities :
           /\ ~InState(rows, c, "leased") /\ InState(rows', c, "leased")
           /\ InState(rows, d, "queued") /\ InState(rows', d, "queued")
           /\ TypeOf[c] = TypeOf[d]
           => rows[c].created_at <= rows[d].created_at]_vars
  BY OnlyClaimsLease, ClaimTakesOldest
<1> QED BY <1>1, TypeCorrect, PTL DEF Spec, OldestFirst

-----------------------------------------------------------------------------
(* What the plugins of load.go register, read off Handlers.                *)

\* The positions that a handler wants for itself, and whose it is.
Slots ==
  {<<"FQDN", 2, "DNS", "cname">>, <<"FQDN", 3, "DNS", "ip">>, <<"FQDN", 7, "DNS", "subs">>,
   <<"FQDN", 8, "DNS", "apex">>, <<"FQDN", 9, "DNS", "txt">>,
   <<"FQDN", 10, "Horizontals", "horizontals">>, <<"FQDN", 14, "WHOIS", "fqdn">>,
   <<"FQDN", 30, "SecurityTrails", "SecurityTrails">>, <<"FQDN", 32, "ZETAlytics", "ZETAlytics">>,
   <<"FQDN", 34, "DNSHistory", "DNSHistory">>, <<"FQDN", 36, "RapidDNS", "RapidDNS">>,
   <<"FQDN", 37, "SiteDossier", "SiteDossier">>, <<"FQDN", 41, "HTTP-Probes", "fqdnend">>,
   <<"IPAddress", 2, "BGP.Tools", "netblock">>, <<"IPAddress", 8, "DNS", "reverse">>,
   <<"IPAddress", 10, "Horizontals", "horizontals">>,
   <<"IPAddress", 41, "Port-Prefilter", "prefilter">>,
   <<"IPAddress", 42, "HTTP-Probes", "ipaddr">>,
   <<"Identifier", 41, "Aviato", "employees">>, <<"Identifier", 42, "Aviato", "companyRounds">>,
   <<"Identifier", 43, "Aviato", "companyEnrich">>, <<"Identifier", 48, "GLEIF", "related">>,
   <<"Organization", 10, "Horizontals", "horizontals">>,
   <<"Organization", 41, "Aviato", "companySearch">>, <<"Organization", 48, "GLEIF", "fuzzy">>,
   <<"Location", 10, "Horizontals", "horizontals">>,
   <<"Netblock", 2, "BGP.Tools", "autsys">>, <<"Netblock", 40, "RDAP", "netblock">>,
   <<"AutonomousSystem", 30, "GitHub-IPVerse", "ipverse">>,
   <<"AutonomousSystem", 40, "RDAP", "autsys">>,
   <<"AutnumRecord", 2, "RDAP", "autnum">>, <<"AutnumRecord", 10, "Horizontals", "horizontals">>,
   <<"DomainRecord", 2, "WHOIS", "domrec">>, <<"DomainRecord", 10, "Horizontals", "horizontals">>,
   <<"IPNetRecord", 2, "RDAP", "ipnet">>, <<"IPNetRecord", 10, "Horizontals", "horizontals">>,
   <<"TLSCertificate", 2, "TLSCert-Expansion", "tls_cert">>,
   <<"TLSCertificate", 10, "Horizontals", "horizontals">>}

\* A handler keeps to the positions, and leaves those that others want for themselves.  The
\* sources of names, and nobody else, skip a name without the mark (sld), and the mark is
\* set before the gate.
Suits(plugin, name, type, at, exclusive, sld) ==
  /\ at \in 1..MaxPosition
  /\ exclusive => <<type, at, plugin, name>> \in Slots
  /\ \A s \in Slots : s[1] = type /\ s[2] = at => s[3] = plugin /\ s[4] = name
  /\ type = "FQDN" /\ at \in OSINTFirst..OSINTLast <=> sld
  /\ sld => plugin \in Skippable
  /\ plugin = "Known-FQDN" => type = "FQDN" /\ at < OSINTFirst

Fits(h) ==
  /\ h = [plugin |-> h.plugin, name |-> h.name, type |-> h.type, at |-> h.at,
          exclusive |-> h.exclusive, instances |-> h.instances, to |-> h.to, sld |-> h.sld]
  /\ Suits(h.plugin, h.name, h.type, h.at, h.exclusive, h.sld)

\* What holds of each plugin's handlers.
Sound(P) ==
  /\ IsFiniteSet(P)
  /\ \A h \in P : Fits(h)
  /\ \A h, g \in P : h.type = g.type /\ h.plugin = g.plugin /\ h.name = g.name => h = g

\* The mark of a source, in the record it is put into.
LEMMA Marked ==
  \A p, n, t, at, ex, in, to, f, g :
    [[plugin |-> p, name |-> n, type |-> t, at |-> at, exclusive |-> ex, instances |-> in,
      to |-> to, sld |-> f] EXCEPT !.sld = g]
      = [plugin |-> p, name |-> n, type |-> t, at |-> at, exclusive |-> ex, instances |-> in,
         to |-> to, sld |-> g]
OBVIOUS

LEMMA OSINTIs ==
  ASSUME NEW plugin, NEW at, NEW exclusive, NEW to
  PROVE  OSINT(plugin, at, exclusive, to) =
           {[plugin |-> plugin, name |-> plugin, type |-> "FQDN", at |-> at,
             exclusive |-> exclusive, instances |-> MidInstances, to |-> to, sld |-> TRUE]}
BY Marked, SMT DEF OSINT, Handler

LEMMA RecordFits ==
  \A p, n, t, at, ex, in, to, f :
    Suits(p, n, t, at, ex, f)
      => Fits([plugin |-> p, name |-> n, type |-> t, at |-> at, exclusive |-> ex,
               instances |-> in, to |-> to, sld |-> f])
BY DEF Fits

LEMMA SourceSound ==
  ASSUME NEW plugin, NEW at, NEW exclusive, NEW to,
         Suits(plugin, plugin, "FQDN", at, exclusive, TRUE)
  PROVE  Sound(OSINT(plugin, at, exclusive, to))
BY OSINTIs, RecordFits, FS_Singleton DEF Sound

\* A handler is the record of its data.
LEMMA HandlerIs ==
  ASSUME NEW p, NEW n, NEW t, NEW at, NEW ex, NEW in, NEW to,
         Suits(p, n, t, at, ex, FALSE)
  PROVE  LET h == Handler(p, n, t, at, ex, in, to)
         IN Fits(h) /\ h.plugin = p /\ h.name = n /\ h.type = t
BY RecordFits DEF Handler

LEMMA HandlerSound ==
  ASSUME NEW p, NEW n, NEW t, NEW at, NEW ex, NEW in, NEW to,
         Suits(p, n, t, at, ex, FALSE)
  PROVE  Sound({Handler(p, n, t, at, ex, in, to)})
BY RecordFits, FS_Singleton DEF Sound, Handler

LEMMA TwoSound ==
  ASSUME NEW P, NEW Q, Sound(P), Sound(Q),
         \A h \in P, g \in Q : ~ (h.type = g.type /\ h.plugin = g.plugin /\ h.name = g.name)
  PROVE  Sound(P \cup Q)
BY FS_Union DEF Sound

\* A set of handlers with these names.
Named(P, N) == Sound(P) /\ \A h \in P : h.name \in N

LEMMA OneNamed ==
  ASSUME NEW p, NEW n, NEW t, NEW at, NEW ex, NEW in, NEW to,
         Suits(p, n, t, at, ex, FALSE)
  PROVE  Named({Handler(p, n, t, at, ex, in, to)}, {n})
<1> DEFINE h == Handler(p, n, t, at, ex, in, to)
<1>1. Sound({h}) /\ h.name = n
  BY HandlerSound, HandlerIs DEF Handler
<1> HIDE DEF h
<1> QED
  BY <1>1 DEF Named, h

LEMMA MoreNamed ==
  ASSUME NEW P, NEW N, Named(P, N), NEW p, NEW n, NEW t, NEW at, NEW ex, NEW in, NEW to,
         Suits(p, n, t, at, ex, FALSE), n \notin N
  PROVE  Named(P \cup {Handler(p, n, t, at, ex, in, to)}, N \cup {n})
<1> DEFINE h == Handler(p, n, t, at, ex, in, to)
<1>1. Sound({h}) /\ h.name = n
  BY HandlerSound, HandlerIs DEF Handler
<1> HIDE DEF h
<1>2. Sound(P \cup {h})
  BY <1>1, TwoSound DEF Named
<1> QED
  BY <1>1, <1>2 DEF Named, h

\* The sources of names.
LEMMA SourcesSuit ==
  /\ Suits("AlienVault", "AlienVault", "FQDN", 22, FALSE, TRUE)
  /\ Suits("BinaryEdge", "BinaryEdge", "FQDN", 20, FALSE, TRUE)
  /\ Suits("CertSpotter", "CertSpotter", "FQDN", 22, FALSE, TRUE)
  /\ Suits("Chaos", "Chaos", "FQDN", 21, FALSE, TRUE)
  /\ Suits("CommonCrawl", "CommonCrawl", "FQDN", 25, FALSE, TRUE)
  /\ Suits("crt.sh", "crt.sh", "FQDN", 22, FALSE, TRUE)
  /\ Suits("DNSDumpster", "DNSDumpster", "FQDN", 25, FALSE, TRUE)
  /\ Suits("DNSRepo", "DNSRepo", "FQDN", 23, FALSE, TRUE)
  /\ Suits("Grep.App", "Grep.App", "FQDN", 24, FALSE, TRUE)
  /\ Suits("HackerTarget", "HackerTarget", "FQDN", 25, FALSE, TRUE)
  /\ Suits("IP-THC", "IP-THC", "FQDN", 25, FALSE, TRUE)
  /\ Suits("LeakIX", "LeakIX", "FQDN", 27, FALSE, TRUE)
  /\ Suits("Prospeo", "Prospeo", "FQDN", 29, FALSE, TRUE)
  /\ Suits("SecurityTrails", "SecurityTrails", "FQDN", 30, TRUE, TRUE)
  /\ Suits("SubdomainCenter", "SubdomainCenter", "FQDN", 25, FALSE, TRUE)
  /\ Suits("URLScan", "URLScan", "FQDN", 25, FALSE, TRUE)
  /\ Suits("VirusTotal", "VirusTotal", "FQDN", 31, FALSE, TRUE)
  /\ Suits("ZETAlytics", "ZETAlytics", "FQDN", 32, TRUE, TRUE)
  /\ Suits("DNSHistory", "DNSHistory", "FQDN", 34, TRUE, TRUE)
  /\ Suits("RapidDNS", "RapidDNS", "FQDN", 36, TRUE, TRUE)
  /\ Suits("SiteDossier", "SiteDossier", "FQDN", 37, TRUE, TRUE)
BY DEF Suits, Slots, MaxPosition, OSINTFirst, OSINTLast, Skippable

\* The other handlers of names.
LEMMA NameHandlersSuit ==
  /\ Suits("FQDN-Alterations", "alterations", "FQDN", 13, FALSE, FALSE)
  /\ Suits("DNS", "cname", "FQDN", 2, TRUE, FALSE)
  /\ Suits("DNS", "ip", "FQDN", 3, TRUE, FALSE)
  /\ Suits("DNS", "subs", "FQDN", 7, TRUE, FALSE)
  /\ Suits("DNS", "apex", "FQDN", 8, TRUE, FALSE)
  /\ Suits("DNS", "txt", "FQDN", 9, TRUE, FALSE)
  /\ Suits("DNS-SD", "txt", "FQDN", 12, FALSE, FALSE)
  /\ Suits("HTTP-Probes", "fqdnend", "FQDN", 41, TRUE, FALSE)
  /\ Suits("WHOIS", "fqdn", "FQDN", 14, TRUE, FALSE)
  /\ Suits("Known-FQDN", "known_fqdn", "FQDN", 11, FALSE, FALSE)
  /\ Suits("Horizontals", "horizontals", "FQDN", 10, TRUE, FALSE)
BY DEF Suits, Slots, MaxPosition, OSINTFirst, OSINTLast, Skippable

\* The handlers of addresses, identifiers and organizations.
LEMMA AssetHandlersSuit ==
  /\ Suits("IP-THC", "IP", "IPAddress", 22, FALSE, FALSE)
  /\ Suits("Aviato", "employees", "Identifier", 41, TRUE, FALSE)
  /\ Suits("Aviato", "companyRounds", "Identifier", 42, TRUE, FALSE)
  /\ Suits("Aviato", "companyEnrich", "Identifier", 43, TRUE, FALSE)
  /\ Suits("Aviato", "companySearch", "Organization", 41, TRUE, FALSE)
  /\ Suits("BGP.Tools", "netblock", "IPAddress", 2, TRUE, FALSE)
  /\ Suits("DNS", "reverse", "IPAddress", 8, TRUE, FALSE)
  /\ Suits("Email-Expansion", "email", "Identifier", 15, FALSE, FALSE)
  /\ Suits("GLEIF", "fuzzy", "Organization", 48, TRUE, FALSE)
  /\ Suits("GLEIF", "related", "Identifier", 48, TRUE, FALSE)
  /\ Suits("HTTP-Probes", "ipaddr", "IPAddress", 42, TRUE, FALSE)
  /\ Suits("Port-Prefilter", "prefilter", "IPAddress", 41, TRUE, FALSE)
  /\ Suits("Protocol-Probes", "probes", "IPAddress", 43, FALSE, FALSE)
  /\ Suits("IP-Netblock", "ip_netblock", "IPAddress", 4, FALSE, FALSE)
BY DEF Suits, Slots, MaxPosition, OSINTFirst, OSINTLast, Skippable

\* And of registrations, certificates and services.
LEMMA RecordHandlersSuit ==
  /\ Suits("BGP.Tools", "autsys", "Netblock", 2, TRUE, FALSE)
  /\ Suits("Service-Banner-URLs", "banner_url", "Service", 10, FALSE, FALSE)
  /\ Suits("Contract-Record-Expansion", "contact", "ContactRecord", 40, FALSE, FALSE)
  /\ Suits("Tech-Stack", "techstack", "Service", 44, FALSE, FALSE)
  /\ Suits("TLSCert-Expansion", "tls_cert", "TLSCertificate", 2, TRUE, FALSE)
  /\ Suits("URL-Expansion", "url", "URL", 10, FALSE, FALSE)
  /\ Suits("RDAP", "autsys", "AutonomousSystem", 40, TRUE, FALSE)
  /\ Suits("RDAP", "autnum", "AutnumRecord", 2, TRUE, FALSE)
  /\ Suits("RDAP", "netblock", "Netblock", 40, TRUE, FALSE)
  /\ Suits("RDAP", "ipnet", "IPNetRecord", 2, TRUE, FALSE)
  /\ Suits("GitHub-IPVerse", "ipverse", "AutonomousSystem", 30, TRUE, FALSE)
  /\ Suits("WHOIS", "domrec", "DomainRecord", 2, TRUE, FALSE)
  /\ Suits("JARM-Fingerprint", "jarm", "Service", 42, FALSE, FALSE)
  /\ Suits("Page-Links", "pagelinks", "Service", 43, FALSE, FALSE)
BY DEF Suits, Slots, MaxPosition, OSINTFirst, OSINTLast, Skippable

\* Horizontals has a handler for each of these types.
HorizontalTypes ==
  {"FQDN", "IPAddress", "Organization", "Location", "AutnumRecord", "DomainRecord",
   "IPNetRecord", "TLSCertificate"}

LEMMA HorizontalsSuit ==
  \A t \in HorizontalTypes : Suits("Horizontals", "horizontals", t, 10, TRUE, FALSE)
BY DEF HorizontalTypes, Suits, Slots, MaxPosition, OSINTFirst, OSINTLast, Skippable

LEMMA SourcesSound ==
  /\ Sound(AlienVault) /\ Sound(BinaryEdge) /\ Sound(CertSpotter) /\ Sound(Chaos)
  /\ Sound(CommonCrawl) /\ Sound(Crtsh) /\ Sound(DNSDumpster) /\ Sound(DNSRepo)
  /\ Sound(GrepApp) /\ Sound(HackerTarget) /\ Sound(LeakIX) /\ Sound(Prospeo)
  /\ Sound(SecurityTrails) /\ Sound(SubdomainCenter) /\ Sound(URLScan) /\ Sound(VirusTotal)
  /\ Sound(ZETAlytics) /\ Sound(DNSHistory) /\ Sound(RapidDNS) /\ Sound(SiteDossier)
BY SourcesSuit, SourceSound DEF AlienVault, BinaryEdge, CertSpotter, Chaos, CommonCrawl, Crtsh,
  DNSDumpster, DNSRepo, GrepApp, HackerTarget, LeakIX, Prospeo, SecurityTrails, SubdomainCenter,
  URLScan, VirusTotal, ZETAlytics, DNSHistory, RapidDNS, SiteDossier

LEMMA NameHandlersSound ==
  /\ Sound(FQDNAlterations) /\ Sound(DNSSD) /\ Sound(KnownFQDN)
BY NameHandlersSuit, HandlerSound DEF FQDNAlterations, DNSSD, KnownFQDN

LEMMA SinglesSound ==
  /\ Sound(BannerURLs) /\ Sound(Contacts) /\ Sound(TechStack) /\ Sound(Emails)
  /\ Sound(TLSCerts) /\ Sound(URLs) /\ Sound(PortPrefilter) /\ Sound(ProtocolProbes)
  /\ Sound(IPVerse) /\ Sound(IPNetblock) /\ Sound(JARMFingerprints) /\ Sound(PageLinks)
BY AssetHandlersSuit, RecordHandlersSuit, HandlerSound DEF BannerURLs, Contacts, TechStack, Emails,
  TLSCerts, URLs, PortPrefilter, ProtocolProbes, IPVerse, IPNetblock, JARMFingerprints, PageLinks

LEMMA AviatoSound == Sound(Aviato)
<1> DEFINE h1 == Handler("Aviato", "employees", "Identifier", 41, TRUE, MinInstances,
                   {"Person"})
           h2 == Handler("Aviato", "companyRounds", "Identifier", 42, TRUE, MinInstances,
                   {"Organization", "Account", "FundsTransfer"})
           h3 == Handler("Aviato", "companyEnrich", "Identifier", 43, TRUE, MinInstances,
                   {"Organization"})
           h4 == Handler("Aviato", "companySearch", "Organization", 41, TRUE, MinInstances,
                   {"Identifier"})
<1>1. Named({h1}, {"employees"})
  BY NameHandlersSuit, AssetHandlersSuit, RecordHandlersSuit, OneNamed
<1>2. Named({h1} \cup {h2}, {"employees"} \cup {"companyRounds"})
  BY <1>1, NameHandlersSuit, AssetHandlersSuit, RecordHandlersSuit, MoreNamed
<1>3. Named({h1} \cup {h2} \cup {h3},
            {"employees"} \cup {"companyRounds"} \cup {"companyEnrich"})
  BY <1>2, NameHandlersSuit, AssetHandlersSuit, RecordHandlersSuit, MoreNamed
<1>4. Named({h1} \cup {h2} \cup {h3} \cup {h4},
            {"employees"} \cup {"companyRounds"} \cup {"companyEnrich"} \cup {"companySearch"})
  BY <1>3, NameHandlersSuit, AssetHandlersSuit, RecordHandlersSuit, MoreNamed
<1>5. Aviato = {h1} \cup {h2} \cup {h3} \cup {h4}
  BY DEF Aviato
<1> QED
  BY <1>4, <1>5 DEF Named

LEMMA BGPToolsSound == Sound(BGPTools)
<1> DEFINE h1 == Handler("BGP.Tools", "netblock", "IPAddress", 2, TRUE, MinInstances,
                   {"Netblock"})
           h2 == Handler("BGP.Tools", "autsys", "Netblock", 2, TRUE, MinInstances,
                   {"AutonomousSystem"})
<1>1. Named({h1}, {"netblock"})
  BY NameHandlersSuit, AssetHandlersSuit, RecordHandlersSuit, OneNamed
<1>2. Named({h1} \cup {h2}, {"netblock"} \cup {"autsys"})
  BY <1>1, NameHandlersSuit, AssetHandlersSuit, RecordHandlersSuit, MoreNamed
<1>3. BGPTools = {h1} \cup {h2}
  BY DEF BGPTools
<1> QED
  BY <1>2, <1>3 DEF Named

LEMMA DNSSound == Sound(DNS)
<1> DEFINE h1 == Handler("DNS", "cname", "FQDN", 2, TRUE, MidInstances, {"FQDN"})
           h2 == Handler("DNS", "ip", "FQDN", 3, TRUE, MidInstances, {"IPAddress"})
           h3 == Handler("DNS", "subs", "FQDN", 7, TRUE, MidInstances, {"FQDN"})
           h4 == Handler("DNS", "apex", "FQDN", 8, TRUE, MaxInstances, {"FQDN"})
           h5 == Handler("DNS", "txt", "FQDN", 9, TRUE, MidInstances, {"FQDN"})
           h6 == Handler("DNS", "reverse", "IPAddress", 8, TRUE, MidInstances, {"FQDN"})
<1>1. Named({h1}, {"cname"})
  BY NameHandlersSuit, AssetHandlersSuit, RecordHandlersSuit, OneNamed
<1>2. Named({h1} \cup {h2}, {"cname"} \cup {"ip"})
  BY <1>1, NameHandlersSuit, AssetHandlersSuit, RecordHandlersSuit, MoreNamed
<1>3. Named({h1} \cup {h2} \cup {h3}, {"cname"} \cup {"ip"} \cup {"subs"})
  BY <1>2, NameHandlersSuit, AssetHandlersSuit, RecordHandlersSuit, MoreNamed
<1>4. Named({h1} \cup {h2} \cup {h3} \cup {h4},
            {"cname"} \cup {"ip"} \cup {"subs"} \cup {"apex"})
  BY <1>3, NameHandlersSuit, AssetHandlersSuit, RecordHandlersSuit, MoreNamed
<1>5. Named({h1} \cup {h2} \cup {h3} \cup {h4} \cup {h5},
            {"cname"} \cup {"ip"} \cup {"subs"} \cup {"apex"} \cup {"txt"})
  BY <1>4, NameHandlersSuit, AssetHandlersSuit, RecordHandlersSuit, MoreNamed
<1>6. Named({h1} \cup {h2} \cup {h3} \cup {h4} \cup {h5} \cup {h6},
            {"cname"} \cup {"ip"} \cup {"subs"} \cup {"apex"} \cup {"txt"} \cup {"reverse"})
  BY <1>5, NameHandlersSuit, AssetHandlersSuit, RecordHandlersSuit, MoreNamed
<1>7. DNS = {h1} \cup {h2} \cup {h3} \cup {h4} \cup {h5} \cup {h6}
  BY DEF DNS
<1> QED
  BY <1>6, <1>7 DEF Named

LEMMA GLEIFSound == Sound(GLEIF)
<1> DEFINE h1 == Handler("GLEIF", "fuzzy", "Organization", 48, TRUE, MinInstances,
                   {"Identifier"})
           h2 == Handler("GLEIF", "related", "Identifier", 48, TRUE, MinInstances,
                   {"Organization"})
<1>1. Named({h1}, {"fuzzy"})
  BY NameHandlersSuit, AssetHandlersSuit, RecordHandlersSuit, OneNamed
<1>2. Named({h1} \cup {h2}, {"fuzzy"} \cup {"related"})
  BY <1>1, NameHandlersSuit, AssetHandlersSuit, RecordHandlersSuit, MoreNamed
<1>3. GLEIF = {h1} \cup {h2}
  BY DEF GLEIF
<1> QED
  BY <1>2, <1>3 DEF Named

LEMMA HTTPProbingSound == Sound(HTTPProbing)
<1> DEFINE h1 == Handler("HTTP-Probes", "fqdnend", "FQDN", 41, TRUE, MidInstances, {"Service",
                   "TLSCertificate"})
           h2 == Handler("HTTP-Probes", "ipaddr", "IPAddress", 42, TRUE, HighInstances,
                   {"Service", "TLSCertificate"})
<1>1. Named({h1}, {"fqdnend"})
  BY NameHandlersSuit, AssetHandlersSuit, RecordHandlersSuit, OneNamed
<1>2. Named({h1} \cup {h2}, {"fqdnend"} \cup {"ipaddr"})
  BY <1>1, NameHandlersSuit, AssetHandlersSuit, RecordHandlersSuit, MoreNamed
<1>3. HTTPProbing = {h1} \cup {h2}
  BY DEF HTTPProbing
<1> QED
  BY <1>2, <1>3 DEF Named

LEMMA RDAPSound == Sound(RDAP)
<1> DEFINE h1 == Handler("RDAP", "autsys", "AutonomousSystem", 40, TRUE, MinInstances,
                   {"AutnumRecord"})
           h2 == Handler("RDAP", "autnum", "AutnumRecord", 2, TRUE, MidInstances, Registration)
           h3 == Handler("RDAP", "netblock", "Netblock", 40, TRUE, MinInstances,
                   {"IPNetRecord"})
           h4 == Handler("RDAP", "ipnet", "IPNetRecord", 2, TRUE, MidInstances, Registration)
<1>1. Named({h1}, {"autsys"})
  BY NameHandlersSuit, AssetHandlersSuit, RecordHandlersSuit, OneNamed
<1>2. Named({h1} \cup {h2}, {"autsys"} \cup {"autnum"})
  BY <1>1, NameHandlersSuit, AssetHandlersSuit, RecordHandlersSuit, MoreNamed
<1>3. Named({h1} \cup {h2} \cup {h3}, {"autsys"} \cup {"autnum"} \cup {"netblock"})
  BY <1>2, NameHandlersSuit, AssetHandlersSuit, RecordHandlersSuit, MoreNamed
<1>4. Named({h1} \cup {h2} \cup {h3} \cup {h4},
            {"autsys"} \cup {"autnum"} \cup {"netblock"} \cup {"ipnet"})
  BY <1>3, NameHandlersSuit, AssetHandlersSuit, RecordHandlersSuit, MoreNamed
<1>5. RDAP = {h1} \cup {h2} \cup {h3} \cup {h4}
  BY DEF RDAP
<1> QED
  BY <1>4, <1>5 DEF Named

LEMMA WHOISSound == Sound(WHOIS)
<1> DEFINE h1 == Handler("WHOIS", "fqdn", "FQDN", 14, TRUE, MidInstances, {"DomainRecord"})
           h2 == Handler("WHOIS", "domrec", "DomainRecord", 2, TRUE, MidInstances, Registration)
<1>1. Named({h1}, {"fqdn"})
  BY NameHandlersSuit, AssetHandlersSuit, RecordHandlersSuit, OneNamed
<1>2. Named({h1} \cup {h2}, {"fqdn"} \cup {"domrec"})
  BY <1>1, NameHandlersSuit, AssetHandlersSuit, RecordHandlersSuit, MoreNamed
<1>3. WHOIS = {h1} \cup {h2}
  BY DEF WHOIS
<1> QED
  BY <1>2, <1>3 DEF Named

LEMMA IPTHCSound == Sound(IPTHC)
<1> DEFINE P == OSINT("IP-THC", 25, FALSE, {"FQDN"})
           h == Handler("IP-THC", "IP", "IPAddress", 22, FALSE, MidInstances, {"FQDN"})
<1>1. Sound(P)
  BY SourcesSuit, SourceSound
<1>2. Sound({h}) /\ h.type = "IPAddress"
  <2>1. Sound({h})
    BY AssetHandlersSuit, HandlerSound
  <2> QED
    BY <2>1 DEF Handler
<1>3. \A g \in P : g.type = "FQDN"
  <2>1. P = {[plugin |-> "IP-THC", name |-> "IP-THC", type |-> "FQDN", at |-> 25,
              exclusive |-> FALSE, instances |-> MidInstances, to |-> {"FQDN"}, sld |-> TRUE]}
    BY OSINTIs
  <2>2. \A p, n, t, at, ex, in, to, g :
          [plugin |-> p, name |-> n, type |-> t, at |-> at, exclusive |-> ex, instances |-> in,
           to |-> to, sld |-> g].type = t
    OBVIOUS
  <2> HIDE DEF P
  <2> QED
    BY <2>1, <2>2
<1>4. IPTHC = P \cup {h}
  BY DEF IPTHC
<1> HIDE DEF P, h
<1> QED
  BY <1>1, <1>2, <1>3, <1>4, TwoSound

LEMMA HorizontalsSound == Sound(Horizontals)
<1> DEFINE H(t) == Handler("Horizontals", "horizontals", t, 10, TRUE, MinInstances, {t})
           f == [t \in HorizontalTypes |-> H(t)]
<1>1. IsFiniteSet(HorizontalTypes)
  <2>1. \A a, b : IsFiniteSet({a, b})
    <3> SUFFICES ASSUME NEW a, NEW b PROVE IsFiniteSet({a, b})
      OBVIOUS
    <3>1. IsFiniteSet({a} \cup {b}) /\ {a} \cup {b} = {a, b}
      BY FS_Singleton, FS_AddElement
    <3> QED
      BY <3>1
  <2>2. IsFiniteSet({"FQDN", "IPAddress"} \cup {"Organization", "Location"})
    BY <2>1, FS_Union
  <2>3. IsFiniteSet({"AutnumRecord", "DomainRecord"} \cup {"IPNetRecord", "TLSCertificate"})
    BY <2>1, FS_Union
  <2>4. HorizontalTypes = ({"FQDN", "IPAddress"} \cup {"Organization", "Location"})
          \cup ({"AutnumRecord", "DomainRecord"} \cup {"IPNetRecord", "TLSCertificate"})
    BY DEF HorizontalTypes
  <2> QED
    BY <2>2, <2>3, <2>4, FS_Union
<1>2. Horizontals = {H(t) : t \in HorizontalTypes}
  BY DEF Horizontals, HorizontalTypes
<1>3. \A t \in HorizontalTypes : Fits(H(t)) /\ H(t).type = t
  <2> TAKE t \in HorizontalTypes
  <2>1. Suits("Horizontals", "horizontals", t, 10, TRUE, FALSE)
    BY HorizontalsSuit
  <2>2. Fits(H(t))
    BY <2>1, HandlerIs
  <2> QED
    BY <2>2 DEF Handler
<1> HIDE DEF H
<1>4. f \in Surjection(HorizontalTypes, Horizontals)
  BY <1>2 DEF Surjection
<1>5. IsFiniteSet(Horizontals)
  BY <1>1, <1>4, FS_Surjection
<1> QED
  BY <1>2, <1>3, <1>5 DEF Sound

\* Every plugin of load.go.
LEMMA PluginsSound == \A i \in 1..Len(Plugins) : Sound(Plugins[i])
<1>1. Len(Plugins) = 44
  BY DEF Plugins
<1> QED
  BY <1>1, SourcesSound, NameHandlersSound, SinglesSound, IPTHCSound, HorizontalsSound,
     AviatoSound, BGPToolsSound, DNSSound, GLEIFSound, HTTPProbingSound, RDAPSound, WHOISSound
     DEF Plugins

-----------------------------------------------------------------------------
(* The registry.                                                           *)

LEMMA PluginsIndices == DOMAIN Plugins = 1..Len(Plugins) /\ Len(Plugins) \in Nat
BY DEF Plugins

LEMMA ClampIs == \A p \in 1..MaxPosition : Clamp(p) = p
BY DEF Clamp, MaxPosition

\* The positions of load.go lie within 1..50 already: the registry has the handlers as they are.
LEMMA RegisteredIs ==
  ASSUME NEW n \in 0..Len(Plugins)
  PROVE  RegisteredBy(n) = UNION {Plugins[i] : i \in 1..n}
<1>1. \A h \in UNION {Plugins[i] : i \in 1..n} : [h EXCEPT !.at = Clamp(@)] = h
  <2> SUFFICES ASSUME NEW i \in 1..n, NEW h \in Plugins[i]
               PROVE  [h EXCEPT !.at = Clamp(@)] = h
    OBVIOUS
  <2>1. Fits(h)
    BY PluginsSound, PluginsIndices DEF Sound
  <2>2. Clamp(h.at) = h.at
    <3>1. Suits(h.plugin, h.name, h.type, h.at, h.exclusive, h.sld)
      BY <2>1 DEF Fits
    <3>2. h.at \in 1..MaxPosition
      BY <3>1 DEF Suits
    <3> QED
      BY <3>2, ClampIs
  <2>3. h = [plugin |-> h.plugin, name |-> h.name, type |-> h.type, at |-> h.at,
             exclusive |-> h.exclusive, instances |-> h.instances, to |-> h.to, sld |-> h.sld]
    BY <2>1 DEF Fits
  <2> HIDE DEF Clamp
  <2> QED
    BY <2>2, <2>3
<1> QED
  BY <1>1 DEF RegisteredBy

LEMMA RegisteredFits ==
  ASSUME NEW n \in 0..Len(Plugins)
  PROVE  \A h \in RegisteredBy(n) : Fits(h)
BY RegisteredIs, PluginsSound, PluginsIndices DEF Sound

LEMMA KeysFinite == IsFiniteSet(Keys)
<1> DEFINE f == [i \in 1..Len(Plugins) |-> Plugins[i]]
           S == {Plugins[i] : i \in 1..Len(Plugins)}
           g == [h \in Registered |-> Key(h)]
<1>1. f \in Surjection(1..Len(Plugins), S)
  BY DEF Surjection
<1>2. IsFiniteSet(1..Len(Plugins))
  BY FS_Interval, PluginsIndices
<1>3. IsFiniteSet(S)
  BY <1>1, <1>2, FS_Surjection
<1>4. \A P \in S : IsFiniteSet(P)
  BY PluginsSound DEF Sound
<1>5. IsFiniteSet(UNION S)
  BY <1>3, <1>4, FS_UNION
<1>6. Registered = UNION S
  BY RegisteredIs, PluginsIndices DEF Registered
<1>7. g \in Surjection(Registered, Keys)
  BY DEF Surjection, Keys
<1> QED
  BY <1>5, <1>6, <1>7, FS_Surjection

\* A handler is known by its plugin and its name among those of its type.
Unique(S) == \A h, g \in S : h.type = g.type /\ Key(h) = Key(g) => h = g

\* What the registry's check is for.
LEMMA StartKeepsUnique ==
  ASSUME started \in 0..Len(Plugins), Unique(RegisteredBy(started)), StartPlugin
  PROVE  Unique(RegisteredBy(started'))
<1> DEFINE old == RegisteredBy(started)
           new == Plugins[started + 1]
<1>1. started + 1 \in 1..Len(Plugins) /\ started' = started + 1
  BY PluginsIndices DEF StartPlugin
<1>2. RegisteredBy(started') = old \cup new
  <2>1. old = UNION {Plugins[i] : i \in 1..started}
    BY RegisteredIs
  <2>2. RegisteredBy(started') = UNION {Plugins[i] : i \in 1..(started + 1)}
    BY <1>1, RegisteredIs
  <2>3. 1..(started + 1) = (1..started) \cup {started + 1}
    BY PluginsIndices
  <2> QED
    BY <2>1, <2>2, <2>3
<1>3. \A h \in new, g \in old : h.type = g.type => Key(h) # Key(g)
  BY DEF StartPlugin, Refused, Peers, Key
<1>4. Unique(new)
  BY <1>1, PluginsSound DEF Sound, Unique, Key
<1> HIDE DEF old, new
<1> QED
  BY <1>2, <1>3, <1>4 DEF Unique, old

\* Whoever asks for a position of its own has it.
LEMMA AloneInSlot ==
  ASSUME NEW n \in 0..Len(Plugins), Unique(RegisteredBy(n)),
         NEW h \in RegisteredBy(n), h.exclusive, NEW g \in RegisteredBy(n),
         g.type = h.type, g.at = h.at
  PROVE  g = h
<1>1. Fits(h) /\ Fits(g)
  BY RegisteredFits
<1>2. <<h.type, h.at, h.plugin, h.name>> \in Slots
  BY <1>1 DEF Fits, Suits
<1>3. g.plugin = h.plugin /\ g.name = h.name
  BY <1>1, <1>2 DEF Fits, Suits
<1> QED
  BY <1>3 DEF Unique, Key

LEMMA RegisteredPlaced ==
  \A h \in Registered :
    /\ h.at \in 1..MaxPosition
    /\ h.type = "FQDN" /\ h.at \in OSINTFirst..OSINTLast <=> h.sld
    /\ h.sld => h.plugin \in Skippable
    /\ h.plugin = "Known-FQDN" => h.at < OSINTFirst
<1> SUFFICES ASSUME NEW h \in Registered
             PROVE  /\ h.at \in 1..MaxPosition
                    /\ h.type = "FQDN" /\ h.at \in OSINTFirst..OSINTLast <=> h.sld
                    /\ h.sld => h.plugin \in Skippable
                    /\ h.plugin = "Known-FQDN" => h.at < OSINTFirst
  OBVIOUS
<1>1. Suits(h.plugin, h.name, h.type, h.at, h.exclusive, h.sld)
  BY RegisteredFits, PluginsIndices DEF Registered, Fits
<1> QED
  BY <1>1 DEF Suits

\* assertOSINTBypassInvariant holds of the plugins of load.go.
LEMMA NoneRefused == BypassInvariant
BY RegisteredPlaced DEF BypassInvariant

LEMMA EventTypes == \A e \in Events : e.type \in Types
<1>1. Registered = UNION {Plugins[i] : i \in 1..Len(Plugins)}
  BY RegisteredIs, PluginsIndices DEF Registered
<1>2. UNION Range(Plugins) = Registered
  BY <1>1, PluginsIndices DEF Range
<1>3. \E h \in Registered : h.type = "FQDN"
  <2>1. AlienVault \subseteq Registered
    BY <1>1, PluginsIndices, Plugins[1] = AlienVault, 1 \in 1..Len(Plugins) DEF Plugins
  <2> QED
    BY <2>1, OSINTIs DEF AlienVault
<1> QED
  BY <1>2, <1>3 DEF Events, Types

LEMMA PositionsIn == \A t \in Types : Positions[t] \subseteq 1..MaxPosition
BY RegisteredPlaced DEF Positions

LEMMA AtIs ==
  ASSUME NEW t \in Types, NEW p \in 1..MaxPosition
  PROVE  At[t][p] = {h \in Registered : h.type = t /\ h.at = p}
BY DEF At

LEMMA PositionsAre ==
  ASSUME NEW t \in Types
  PROVE  /\ \A h \in Registered : h.type = t => h.at \in Positions[t]
         /\ \A p \in Positions[t] : \E h \in Registered : h.type = t /\ h.at = p
BY DEF Positions

\* Every set of numbers that has one has a least element: of the sets 0 .. n of its members, one
\* includes no other.
LEMMA LeastElement ==
  ASSUME NEW T \in SUBSET Nat, T # {}
  PROVE  \E n \in T : \A m \in T : n <= m
<1> DEFINE U == {0 .. n : n \in T}
<1>1. U \subseteq FiniteSubsetsOf(Nat) /\ U # {}
  <2>1. \A n \in T : 0 .. n \in SUBSET Nat /\ IsFiniteSet(0 .. n)
    BY FS_Interval
  <2> QED
    BY <2>1 DEF FiniteSubsetsOf
<1>2. IsWellFoundedOn(StrictSubsetOrdering(Nat), FiniteSubsetsOf(Nat))
  BY FS_StrictSubsetOrderingWellFounded
<1>3. PICK X \in U : \A Y \in U : ~(<<Y, X>> \in StrictSubsetOrdering(Nat))
  <2> HIDE DEF U
  <2> QED
    BY <1>1, <1>2, WFMin
<1>4. PICK n \in T : X = 0 .. n
  BY <1>3
<1>5. ASSUME NEW m \in T, m < n PROVE FALSE
  <2>1. 0 .. m \in U /\ 0 .. m \in SUBSET Nat /\ 0 .. n \in SUBSET Nat
    OBVIOUS
  <2>2. 0 .. m \subseteq 0 .. n /\ 0 .. m # 0 .. n
    BY <1>5
  <2> QED
    BY <1>3, <1>4, <2>1, <2>2 DEF StrictSubsetOrdering
<1> QED
  BY <1>5

LEMMA MinIs ==
  ASSUME NEW T \in SUBSET Nat, T # {}
  PROVE  Min(T) \in T /\ \A m \in T : Min(T) <= m
BY LeastElement DEF Min

-----------------------------------------------------------------------------
(* The inductive invariant.                                                *)

\* Pipelines are built of all plugins, and events come only then.
Loaded ==
  /\ Unique(RegisteredBy(started))
  /\ phase = "ready" => started = Len(Plugins)
  /\ event # None => phase = "ready"

\* The stage has the handlers of the event's position.
Staged ==
  /\ event = None => place = 0
  /\ DOMAIN stage =
       IF place \in 1..MaxPosition THEN {Key(h) : h \in At[event.type][place]} ELSE {}

\* An event whose completion was reported has left, or a handler has given it up.
Reported ==
  completed > 0 => place \in {Sink, Gone} \/ \E k \in DOMAIN stage : stage[k] = "left"

\* Of the stages behind it, and of the handlers of this one that are working or done, an event
\* has met all that had something to do for it, up to those that skip it.
MetBy(h) == h.at < place \/ (h.at = place /\ stage[Key(h)] \in {"running", "returned"})
Spared(h) == h.sld /\ ~flagged /\ place > OSINTLast
Met ==
  event # None /\ place <= Sink =>
    \A h \in Registered : h.type = event.type /\ Matches(h) /\ MetBy(h)
                          => Key(h) \in called \/ Spared(h)

IInv == PipeTypeOK /\ Loaded /\ Staged /\ Reported /\ Met

LEMMA InitHolds == PipeInit => IInv
<1> SUFFICES ASSUME PipeInit PROVE IInv
  OBVIOUS
<1> USE DEF PipeInit
<1>1. 0 \in 0..Len(Plugins)
  BY PluginsIndices
<1>2. RegisteredBy(0) = {}
  BY <1>1, RegisteredIs
<1>3. PipeTypeOK
  <2>1. {h.at : h \in RegisteredBy(started)} \subseteq 1..MaxPosition
    BY <1>2
  <2>2. called \cup DOMAIN stage = {}
    OBVIOUS
  <2>3. event \in Events \cup {None} /\ event = None
    OBVIOUS
  <2>4. place \in {0, Sink, Gone}
    OBVIOUS
  <2> QED
    BY <1>1, <2>1, <2>2, <2>3, <2>4 DEF PipeTypeOK
<1>4. Loaded
  BY <1>2 DEF Loaded, Unique
<1>5. Staged /\ Reported /\ Met
  BY DEF Staged, Reported, Met, MaxPosition
<1> QED
  BY <1>3, <1>4, <1>5 DEF IInv

\* What the steps of the registry leave alone.
LEMMA NoEventYet ==
  ASSUME IInv, event = None, UNCHANGED <<event, flagged, place, stage, called, completed, ended>>,
         phase' \in {"load", "failed", "refused", "ready"}, started' \in 0..Len(Plugins),
         Unique(RegisteredBy(started')), phase' = "ready" => started' = Len(Plugins)
  PROVE  IInv'
<1>1. {h.at : h \in RegisteredBy(started')} \subseteq 1..MaxPosition
  <2> SUFFICES ASSUME NEW h \in RegisteredBy(started') PROVE h.at \in 1..MaxPosition
    OBVIOUS
  <2>1. Suits(h.plugin, h.name, h.type, h.at, h.exclusive, h.sld)
    BY RegisteredFits DEF Fits
  <2> QED
    BY <2>1 DEF Suits
<1>2. PipeTypeOK'
  BY <1>1 DEF IInv, PipeTypeOK
<1>3. Loaded'
  BY DEF Loaded
<1>4. Staged'
  BY DEF IInv, Staged, MaxPosition
<1>5. Reported' /\ Met'
  BY DEF IInv, Staged, Reported, Met, Sink, Gone, MaxPosition
<1> QED
  BY <1>2, <1>3, <1>4, <1>5 DEF IInv

LEMMA RegistrySteps ==
  ASSUME IInv, StartPlugin \/ StartFails \/ BuildPipelines
  PROVE  IInv'
<1>1. started \in 0..Len(Plugins) /\ Unique(RegisteredBy(started))
  BY DEF IInv, PipeTypeOK, Loaded
<1>2. event = None
  BY DEF IInv, Loaded, StartPlugin, StartFails, BuildPipelines
<1>3. CASE StartPlugin
  <2>1. Unique(RegisteredBy(started')) /\ started' \in 0..Len(Plugins)
    BY <1>1, <1>3, StartKeepsUnique, PluginsIndices DEF StartPlugin
  <2> QED
    BY <1>2, <1>3, <2>1, NoEventYet DEF StartPlugin
<1>4. CASE StartFails
  BY <1>1, <1>2, <1>4, NoEventYet DEF StartFails
<1>5. CASE BuildPipelines
  BY <1>1, <1>2, <1>5, NoEventYet DEF BuildPipelines
<1> QED
  BY <1>3, <1>4, <1>5

-----------------------------------------------------------------------------
(* Along the pipeline.                                                     *)

\* What the steps of an event rely on and keep.
LEMMA OnItsWay ==
  ASSUME IInv, event # None
  PROVE  /\ event \in Events /\ event.type \in Types
         /\ Positions[event.type] \subseteq 1..MaxPosition
         /\ Unique(Registered)
         /\ place \in {0, Sink, Gone} \cup Positions[event.type]
         /\ phase = "ready" /\ started = Len(Plugins)
BY EventTypes, PositionsIn DEF IInv, PipeTypeOK, Loaded, Registered

LEMMA WantedStays ==
  ASSUME UNCHANGED config
  PROVE  \A h : Matches(h)' <=> Matches(h)
BY DEF Matches, CheckTransformations

LEMMA FollowingIs ==
  ASSUME event.type \in Types, NEW p \in Nat
  PROVE  \/ Following(p) = Sink /\ \A q \in Positions[event.type] : q <= p
         \/ /\ Following(p) \in Positions[event.type] /\ Following(p) > p
            /\ \A q \in Positions[event.type] : q > p => Following(p) <= q
<1> DEFINE more == {q \in Positions[event.type] : q > p}
<1>1. more \in SUBSET Nat /\ Positions[event.type] \subseteq Nat
  BY PositionsIn DEF MaxPosition
<1>2. CASE more = {}
  BY <1>1, <1>2 DEF Following
<1>3. CASE more # {}
  BY <1>1, <1>3, MinIs DEF Following
<1> QED
  BY <1>2, <1>3

\* The gate stands before the first stage at or behind 20, and leads to the first behind 40.
LEMMA GateIs ==
  ASSUME Resume # {}, "FQDN" \in Types
  PROVE  /\ GateAt \in Positions["FQDN"] /\ GateAt >= OSINTFirst
         /\ \A q \in Positions["FQDN"] : q >= OSINTFirst => GateAt <= q
         /\ ResumeAt \in Positions["FQDN"] /\ ResumeAt > OSINTLast
         /\ \A q \in Positions["FQDN"] : q > OSINTLast => ResumeAt <= q
<1> DEFINE behind == {p \in Positions["FQDN"] : p >= OSINTFirst}
<1>1. Resume \in SUBSET Nat /\ behind \in SUBSET Nat /\ Positions["FQDN"] \subseteq Nat
  BY PositionsIn DEF Resume, MaxPosition
<1>2. behind # {}
  BY <1>1 DEF Resume, OSINTFirst, OSINTLast
<1>3. GateAt \in behind /\ \A q \in behind : GateAt <= q
  BY <1>1, <1>2, MinIs DEF GateAt
<1>4. ResumeAt \in Resume /\ \A q \in Resume : ResumeAt <= q
  BY <1>1, MinIs DEF ResumeAt
<1> QED
  BY <1>1, <1>3, <1>4 DEF Resume

\* Every handler of the stage that an event enters waits for it.
LEMMA Entered ==
  ASSUME event.type \in Types, NEW p \in {Sink, Gone} \cup Positions[event.type], Enter(p)
  PROVE  /\ place' = p
         /\ DOMAIN stage' =
              IF p \in 1..MaxPosition THEN {Key(h) : h \in At[event.type][p]} ELSE {}
         /\ DOMAIN stage' \subseteq Keys
         /\ \A k \in DOMAIN stage' : stage'[k] = "waiting"
<1>1. CASE p \in {Sink, Gone}
  <2>1. p > MaxPosition /\ p \notin 1..MaxPosition
    BY <1>1 DEF Sink, Gone, MaxPosition
  <2>2. place' = p /\ stage' = <<>>
    BY <2>1 DEF Enter
  <2> QED
    BY <2>1, <2>2
<1>2. CASE p \in Positions[event.type]
  <2>1. p \in 1..MaxPosition /\ ~ (p > MaxPosition)
    BY <1>2, PositionsIn DEF MaxPosition
  <2>2. stage' = [k \in {Key(h) : h \in At[event.type][p]} |-> "waiting"] /\ place' = p
    BY <2>1 DEF Enter
  <2>3. {Key(h) : h \in At[event.type][p]} \subseteq Keys
    BY <2>1, AtIs DEF Keys
  <2> QED
    BY <2>1, <2>2, <2>3
<1> QED
  BY <1>1, <1>2

-----------------------------------------------------------------------------
(* The steps of an event.                                                  *)

LEMMA TakeStep ==
  ASSUME IInv, event = None, phase = "ready", NEW e \in Events, Take(e)
  PROVE  IInv'
<1>1. started = Len(Plugins) /\ UNCHANGED <<phase, started, ended>>
  BY DEF IInv, Loaded, Take, loading
<1>2. /\ event' = e /\ place' = 0 /\ stage' = <<>>
      /\ called' = {} /\ completed' = 0 /\ flagged' = FALSE
  BY DEF Take
<1>3. PipeTypeOK'
  <2>1. {h.at : h \in RegisteredBy(started)} \subseteq 1..MaxPosition
    BY DEF IInv, PipeTypeOK
  <2>2. called' \cup DOMAIN stage' = {}
    BY <1>2
  <2>3. /\ event' \in Events \cup {None} /\ place' \in {0, Sink, Gone}
        /\ flagged' \in BOOLEAN /\ completed' \in Nat
    BY <1>2
  <2>4. {h.at : h \in RegisteredBy(started')} \subseteq 1..MaxPosition
    BY <1>1, <2>1
  <2> QED
    BY <1>1, <2>2, <2>3, <2>4 DEF IInv, PipeTypeOK
<1>4. Loaded'
  BY <1>1, <1>2 DEF IInv, Loaded
<1>5. Staged' /\ Reported'
  BY <1>2 DEF Staged, Reported, MaxPosition
<1>6. Met'
  <2>1. \A h \in Registered : h.at \in Nat /\ h.at > 0
    BY RegisteredPlaced DEF MaxPosition
  <2>2. \A h \in Registered : ~ MetBy(h)'
    BY <1>2, <2>1 DEF MetBy
  <2> QED
    BY <2>2 DEF Met
<1> QED
  BY <1>3, <1>4, <1>5, <1>6 DEF IInv

\* The step of an event that leaves the registry alone, what it needs to keep.
LEMMA EventSteps ==
  ASSUME IInv, event # None, UNCHANGED <<loading, event>>,
         flagged' \in BOOLEAN, ended' \in BOOLEAN, completed' \in Nat,
         place' \in {0, Sink, Gone} \cup Positions[event.type], called' \subseteq Keys,
         DOMAIN stage' =
           IF place' \in 1..MaxPosition THEN {Key(h) : h \in At[event.type][place']} ELSE {},
         \A k \in DOMAIN stage' : stage'[k] \in {"waiting", "running", "returned", "left"}
  PROVE  PipeTypeOK' /\ Loaded' /\ Staged'
<1>1. phase' = phase /\ started' = started
  BY DEF loading
<1>2. DOMAIN stage' \subseteq Keys
  BY OnItsWay, AtIs DEF Keys
<1>3. PipeTypeOK'
  BY <1>1, <1>2 DEF IInv, PipeTypeOK
<1>4. Loaded'
  BY <1>1 DEF IInv, Loaded
<1>5. Staged'
  BY DEF Staged
<1> QED
  BY <1>3, <1>4, <1>5

\* The handlers of the stage.
LEMMA Workers ==
  ASSUME IInv, NEW h \in Working, event # None
  PROVE  /\ place \in 1..MaxPosition /\ place \in Positions[event.type]
         /\ h \in Registered /\ h.type = event.type /\ h.at = place
         /\ Key(h) \in DOMAIN stage /\ Key(h) \in Keys
         /\ \A g \in Registered : g.type = event.type /\ Key(g) = Key(h) => g = h
<1>1. place \in 1..MaxPosition /\ h \in At[event.type][place]
  BY DEF Working
<1>2. h \in Registered /\ h.type = event.type /\ h.at = place
  BY <1>1, OnItsWay, AtIs
<1>3. Key(h) \in DOMAIN stage
  BY <1>1 DEF IInv, Staged
<1>4. place \in Positions[event.type]
  BY <1>1, OnItsWay DEF Sink, Gone, MaxPosition
<1>5. \A g \in Registered : g.type = event.type /\ Key(g) = Key(h) => g = h
  BY <1>2, OnItsWay DEF Unique
<1> QED
  BY <1>1, <1>2, <1>3, <1>4, <1>5 DEF Keys

LEMMA Busy == ASSUME IInv, Working # {} PROVE event # None
BY DEF IInv, Staged, Working, MaxPosition

LEMMA CallStep ==
  ASSUME IInv, NEW h \in Working, Call(h)
  PROVE  IInv'
<1>1. event # None
  BY Busy
<1> DEFINE k == Key(h)
<1>2. /\ place \in 1..MaxPosition /\ place \in Positions[event.type]
      /\ h \in Registered /\ h.type = event.type /\ h.at = place
      /\ k \in DOMAIN stage /\ k \in Keys
      /\ \A g \in Registered : g.type = event.type /\ Key(g) = k => g = h
  BY <1>1, Workers
<1>3. UNCHANGED <<loading, event, flagged, place, ended>> /\ stage[k] = "waiting"
  BY DEF Call
<1>4. PICK s \in {"left", "returned", "running"} :
        /\ stage' = [stage EXCEPT ![k] = s]
        /\ s = "left" => completed' = completed + 1 /\ called' = called
        /\ s = "returned" => ~ Matches(h) /\ UNCHANGED <<called, completed>>
        /\ s = "running" => called' = called \cup {k} /\ completed' = completed
  BY DEF Call, SendElementOnExit
<1> HIDE DEF k
<1>5. /\ DOMAIN stage' = DOMAIN stage /\ stage'[k] = s
      /\ \A j \in DOMAIN stage : j # k => stage'[j] = stage[j]
  BY <1>2, <1>4
<1>6. completed \in Nat /\ called \subseteq Keys /\ flagged \in BOOLEAN /\ ended \in BOOLEAN
      /\ \A j \in DOMAIN stage : stage[j] \in {"waiting", "running", "returned", "left"}
  BY DEF IInv, PipeTypeOK
<1>7. completed' \in Nat /\ called' \subseteq Keys /\ called \subseteq called'
  BY <1>2, <1>4, <1>6
<1>8. PipeTypeOK' /\ Loaded' /\ Staged'
  <2>1. DOMAIN stage' =
          IF place' \in 1..MaxPosition THEN {Key(g) : g \in At[event.type][place']} ELSE {}
    BY <1>3, <1>5 DEF IInv, Staged
  <2>2. \A j \in DOMAIN stage' : stage'[j] \in {"waiting", "running", "returned", "left"}
    BY <1>5, <1>6
  <2>3. place' \in {0, Sink, Gone} \cup Positions[event.type]
    BY <1>2, <1>3
  <2> QED
    BY <1>1, <1>3, <1>6, <1>7, <2>1, <2>2, <2>3, EventSteps
<1>9. Reported'
  <2>1. CASE s = "left"
    BY <1>2, <1>5, <2>1 DEF Reported
  <2>2. CASE s # "left"
    <3>1. completed' = completed
      BY <1>4, <2>2
    <3>2. \A j \in DOMAIN stage : stage[j] = "left" => stage'[j] = "left"
      BY <1>3, <1>5
    <3> QED
      BY <1>3, <1>5, <3>1, <3>2 DEF IInv, Reported
  <2> QED
    BY <2>1, <2>2
<1>10. Met'
  <2> SUFFICES ASSUME place' <= Sink, NEW g \in Registered, g.type = event'.type,
                      Matches(g)', MetBy(g)'
               PROVE  Key(g) \in called' \/ Spared(g)'
    BY DEF Met
  <2>1. Matches(g) /\ g.type = event.type /\ place <= Sink
    BY <1>3, WantedStays DEF loading
  <2>2. CASE g = h
    <3>1. stage'[k] \in {"running", "returned"}
      BY <1>2, <1>3, <2>2, RegisteredPlaced DEF MetBy, k, MaxPosition
    <3>2. s = "running"
      BY <1>4, <1>5, <2>1, <2>2, <3>1
    <3> QED
      BY <1>4, <2>2, <3>2 DEF k
  <2>3. CASE g # h
    <3>1. Key(g) # k
      BY <1>2, <2>1, <2>3
    <3>2. g.at = place => Key(g) \in DOMAIN stage
      BY <1>1, <1>2, <2>1, OnItsWay, AtIs DEF IInv, Staged
    <3>3. MetBy(g)
      BY <1>3, <1>5, <3>1, <3>2 DEF MetBy
    <3>4. Key(g) \in called \/ Spared(g)
      BY <1>1, <2>1, <3>3 DEF IInv, Met
    <3> QED
      BY <1>3, <1>7, <3>4 DEF Spared
  <2> QED
    BY <2>2, <2>3
<1> QED
  BY <1>8, <1>9, <1>10 DEF IInv

LEMMA ReturnStep ==
  ASSUME IInv, NEW h \in Working, Return(h)
  PROVE  IInv'
<1>1. event # None
  BY Busy
<1> DEFINE k == Key(h)
<1>2. /\ place \in 1..MaxPosition /\ place \in Positions[event.type]
      /\ h \in Registered /\ h.type = event.type /\ h.at = place
      /\ k \in DOMAIN stage /\ k \in Keys
  BY <1>1, Workers
<1>3. /\ UNCHANGED <<loading, event, place, called, completed, ended>> /\ stage[k] = "running"
      /\ stage' = [stage EXCEPT ![k] = "returned"]
  BY DEF Return
<1>4. flagged' \in BOOLEAN /\ (h.plugin # "Known-FQDN" => flagged' = flagged)
  <2>1. flagged \in BOOLEAN
    BY DEF IInv, PipeTypeOK
  <2>2. \/ flagged' = (flagged \/ (h.plugin = "Known-FQDN" /\ event.scope # "none"))
        \/ flagged' = flagged
    BY DEF Return
  <2>3. CASE flagged = TRUE
    BY <2>2, <2>3
  <2>4. CASE flagged = FALSE
    BY <2>2, <2>4
  <2> QED
    BY <2>1, <2>3, <2>4
<1> HIDE DEF k
<1>5. /\ DOMAIN stage' = DOMAIN stage /\ stage'[k] = "returned"
      /\ \A j \in DOMAIN stage : j # k => stage'[j] = stage[j]
  BY <1>2, <1>3
<1>6. completed \in Nat /\ called \subseteq Keys /\ flagged \in BOOLEAN /\ ended \in BOOLEAN
      /\ \A j \in DOMAIN stage : stage[j] \in {"waiting", "running", "returned", "left"}
  BY DEF IInv, PipeTypeOK
<1>7. PipeTypeOK' /\ Loaded' /\ Staged'
  <2>1. DOMAIN stage' =
          IF place' \in 1..MaxPosition THEN {Key(g) : g \in At[event.type][place']} ELSE {}
    BY <1>3, <1>5 DEF IInv, Staged
  <2>2. \A j \in DOMAIN stage' : stage'[j] \in {"waiting", "running", "returned", "left"}
    BY <1>5, <1>6
  <2>3. place' \in {0, Sink, Gone} \cup Positions[event.type]
    BY <1>2, <1>3
  <2> QED
    BY <1>1, <1>3, <1>4, <1>6, <2>1, <2>2, <2>3, EventSteps
<1>8. Reported'
  <2>1. \A j \in DOMAIN stage : stage[j] = "left" => stage'[j] = "left"
    BY <1>3, <1>5
  <2> QED
    BY <1>3, <1>5, <2>1 DEF IInv, Reported
<1>9. Met'
  <2> SUFFICES ASSUME place' <= Sink, NEW g \in Registered, g.type = event'.type,
                      Matches(g)', MetBy(g)'
               PROVE  Key(g) \in called' \/ Spared(g)'
    BY DEF Met
  <2>1. Matches(g) /\ g.type = event.type /\ place <= Sink
    BY <1>3, WantedStays DEF loading
  <2>2. g.at = place => Key(g) \in DOMAIN stage
    BY <1>1, <1>2, <2>1, OnItsWay, AtIs DEF IInv, Staged
  <2>3. MetBy(g)
    BY <1>3, <1>5, <2>2 DEF MetBy
  <2>4. Key(g) \in called \/ Spared(g)
    BY <1>1, <2>1, <2>3 DEF IInv, Met
  <2>5. Spared(g) => flagged' = flagged
    BY <1>2, <1>4, RegisteredPlaced DEF Spared, OSINTFirst, OSINTLast, MaxPosition
  <2> QED
    BY <1>3, <2>4, <2>5 DEF Spared
<1> QED
  BY <1>7, <1>8, <1>9 DEF IInv

LEMMA PanicStep ==
  ASSUME IInv, NEW h \in Working, Panic(h)
  PROVE  IInv'
<1>1. event # None
  BY Busy
<1> DEFINE k == Key(h)
<1>2. /\ place \in 1..MaxPosition /\ place \in Positions[event.type]
      /\ h \in Registered /\ h.type = event.type /\ h.at = place
      /\ k \in DOMAIN stage /\ k \in Keys
  BY <1>1, Workers
<1>3. /\ UNCHANGED <<loading, event, flagged, place, called, ended>> /\ stage[k] = "running"
      /\ stage' = [stage EXCEPT ![k] = "left"] /\ completed' = completed + 1
  BY DEF Panic, AfterPanic, CompletePanicked, SendElementOnExit
<1> HIDE DEF k
<1>4. /\ DOMAIN stage' = DOMAIN stage /\ stage'[k] = "left"
      /\ \A j \in DOMAIN stage : j # k => stage'[j] = stage[j]
  BY <1>2, <1>3
<1>5. completed \in Nat /\ called \subseteq Keys /\ flagged \in BOOLEAN /\ ended \in BOOLEAN
      /\ \A j \in DOMAIN stage : stage[j] \in {"waiting", "running", "returned", "left"}
  BY DEF IInv, PipeTypeOK
<1>6. PipeTypeOK' /\ Loaded' /\ Staged'
  <2>1. DOMAIN stage' =
          IF place' \in 1..MaxPosition THEN {Key(g) : g \in At[event.type][place']} ELSE {}
    BY <1>3, <1>4 DEF IInv, Staged
  <2>2. \A j \in DOMAIN stage' : stage'[j] \in {"waiting", "running", "returned", "left"}
    BY <1>4, <1>5
  <2>3. place' \in {0, Sink, Gone} \cup Positions[event.type] /\ completed' \in Nat
    BY <1>2, <1>3, <1>5
  <2> QED
    BY <1>1, <1>3, <1>5, <2>1, <2>2, <2>3, EventSteps
<1>7. Reported'
  BY <1>2, <1>4 DEF Reported
<1>8. Met'
  <2> SUFFICES ASSUME place' <= Sink, NEW g \in Registered, g.type = event'.type,
                      Matches(g)', MetBy(g)'
               PROVE  Key(g) \in called' \/ Spared(g)'
    BY DEF Met
  <2>1. Matches(g) /\ g.type = event.type /\ place <= Sink
    BY <1>3, WantedStays DEF loading
  <2>2. g.at = place => Key(g) \in DOMAIN stage
    BY <1>1, <1>2, <2>1, OnItsWay, AtIs DEF IInv, Staged
  <2>3. MetBy(g)
    BY <1>3, <1>4, <2>2 DEF MetBy
  <2>4. Key(g) \in called \/ Spared(g)
    BY <1>1, <2>1, <2>3 DEF IInv, Met
  <2> QED
    BY <1>3, <2>4 DEF Spared
<1> QED
  BY <1>6, <1>7, <1>8 DEF IInv

\* The sink takes the event, the session ends, or nothing happens: it stays where it is.
LEMMA InPlace ==
  ASSUME IInv, UNCHANGED <<loading, event, flagged, place, stage, called>>, ended' \in BOOLEAN,
         completed' = completed \/ (place = Sink /\ completed' = completed + 1)
  PROVE  IInv'
<1>1. UNCHANGED <<phase, started, config>>
  BY DEF loading
<1>2. completed \in Nat /\ completed' \in Nat
  BY DEF IInv, PipeTypeOK
<1>3. PipeTypeOK'
  <2>1. UNCHANGED RegisteredBy(started)
    BY <1>1
  <2> QED
    BY <1>1, <1>2, <2>1 DEF IInv, PipeTypeOK
<1>4. Loaded'
  BY <1>1 DEF IInv, Loaded
<1>5. Staged' /\ Reported'
  BY DEF IInv, Staged, Reported
<1>6. Met'
  <2> SUFFICES ASSUME event' # None, place' <= Sink, NEW g \in Registered, g.type = event'.type,
                      Matches(g)', MetBy(g)'
               PROVE  Key(g) \in called' \/ Spared(g)'
    BY DEF Met
  <2>1. Matches(g) /\ g.type = event.type /\ MetBy(g) /\ place <= Sink /\ event # None
    BY <1>1, WantedStays DEF MetBy
  <2> QED
    BY <2>1 DEF IInv, Met, Spared
<1> QED
  BY <1>3, <1>4, <1>5, <1>6 DEF IInv

LEMMA AdvanceStep ==
  ASSUME IInv, Advance
  PROVE  IInv'
<1> DEFINE next == Following(place)
           given == "left" \in {stage[k] : k \in DOMAIN stage}
           marked == flagged \/ event.scope = "configured"
<1>1. /\ event # None /\ place < Sink
      /\ {stage[k] : k \in DOMAIN stage} \subseteq {"returned", "left"}
      /\ UNCHANGED <<loading, event, called, ended>>
  BY DEF Advance
<1>2. /\ event \in Events /\ event.type \in Types
      /\ Positions[event.type] \subseteq 1..MaxPosition
      /\ place \in {0} \cup Positions[event.type]
  <2>1. /\ event \in Events /\ event.type \in Types
        /\ Positions[event.type] \subseteq 1..MaxPosition
        /\ place \in {0, Sink, Gone} \cup Positions[event.type]
    BY <1>1, OnItsWay
  <2>2. ~ (Sink < Sink) /\ ~ (Gone < Sink)
    BY DEF Sink, Gone, MaxPosition
  <2> QED
    BY <1>1, <2>1, <2>2
<1>3. completed \in Nat /\ called \subseteq Keys /\ flagged \in BOOLEAN /\ ended \in BOOLEAN
  BY DEF IInv, PipeTypeOK
<1>4. ASSUME NEW p \in {Sink, Gone} \cup Positions[event.type], Enter(p), completed' \in Nat,
             flagged' \in BOOLEAN
      PROVE  /\ place' = p /\ PipeTypeOK' /\ Loaded' /\ Staged'
             /\ \A k \in DOMAIN stage' : stage'[k] = "waiting"
  <2>1. /\ place' = p
        /\ DOMAIN stage' = IF p \in 1..MaxPosition THEN {Key(h) : h \in At[event.type][p]} ELSE {}
        /\ \A k \in DOMAIN stage' : stage'[k] = "waiting"
    BY <1>2, <1>4, Entered
  <2> QED
    BY <1>1, <1>2, <1>3, <1>4, <2>1, EventSteps
<1>5. ASSUME Enter(Gone), completed' \in Nat, flagged' = flagged
      PROVE  IInv'
  <2>1. place' = Gone /\ PipeTypeOK' /\ Loaded' /\ Staged'
    BY <1>3, <1>4, <1>5
  <2>2. Reported' /\ Met'
    BY <2>1 DEF Reported, Met, Sink, Gone, MaxPosition
  <2> QED
    BY <2>1, <2>2 DEF IInv
\* What holds of an event that goes on.
<1>6. ASSUME NEW p \in {Sink} \cup Positions[event.type], Enter(p), completed' = completed,
             ~ given, flagged' \in BOOLEAN, p > place,
             \A h \in Registered : h.type = event.type /\ h.sld /\ ~ flagged /\ place > OSINTLast
                                   => ~ flagged',
             \A h \in Registered : h.type = event.type /\ h.at > place /\ h.at < p
                                   => h.sld /\ ~ flagged' /\ p > OSINTLast
      PROVE  IInv'
  <2>1. /\ place' = p /\ PipeTypeOK' /\ Loaded' /\ Staged'
        /\ \A k \in DOMAIN stage' : stage'[k] = "waiting"
    BY <1>3, <1>4, <1>6
  <2>2. completed' = 0
    <3>1. place # Sink /\ place # Gone
      BY <1>1 DEF Sink, Gone, MaxPosition
    <3>2. ~ (completed > 0)
      BY <1>6, <3>1 DEF IInv, Reported
    <3> QED
      BY <1>3, <1>6, <3>2
  <2>3. Met'
    <3> SUFFICES ASSUME NEW g \in Registered, g.type = event'.type, Matches(g)', MetBy(g)'
                 PROVE  Key(g) \in called' \/ Spared(g)'
      BY DEF Met
    <3>1. Matches(g) /\ g.type = event.type
      BY <1>1, WantedStays DEF loading
    <3>2. g.at < p
      <4>1. g.at = p => Key(g) \in DOMAIN stage'
        BY <1>1, <1>2, <2>1, <3>1, RegisteredPlaced, AtIs DEF Staged
      <4> QED
        BY <2>1, <4>1 DEF MetBy
    <3>3. p \in Nat /\ place \in Nat /\ g.at \in Nat
      BY <1>2, RegisteredPlaced DEF Sink, MaxPosition
    <3>4. CASE g.at > place
      BY <1>6, <2>1, <3>1, <3>2, <3>4 DEF Spared
    <3>5. CASE g.at <= place
      <4>1. g.at = place => stage[Key(g)] = "returned"
        <5>1. g.at = place => Key(g) \in DOMAIN stage
          BY <1>1, <3>1, <1>2, AtIs, RegisteredPlaced DEF IInv, Staged
        <5> QED
          BY <1>1, <1>6, <5>1
      <4>2. MetBy(g)
        BY <3>3, <3>5, <4>1 DEF MetBy
      <4>3. Key(g) \in called \/ Spared(g)
        BY <1>1, <3>1, <4>2, <3>3 DEF IInv, Met, Sink, MaxPosition
      <4>4. Spared(g) => Spared(g)'
        BY <1>6, <2>1, <3>1, <3>3 DEF Spared, OSINTLast
      <4> QED
        BY <1>1, <4>3, <4>4
    <3> QED
      BY <3>3, <3>4, <3>5
  <2> QED
    BY <2>1, <2>2, <2>3 DEF IInv, Reported
<1>7. \/ next = Sink /\ \A q \in Positions[event.type] : q <= place
      \/ /\ next \in Positions[event.type] /\ next > place
         /\ \A q \in Positions[event.type] : q > place => next <= q
  BY <1>2, FollowingIs DEF MaxPosition
<1>8. next \in {Sink} \cup Positions[event.type] /\ next > place
      /\ \A h \in Registered : h.type = event.type => h.at <= place \/ h.at >= next
  BY <1>1, <1>2, <1>7, PositionsAre DEF Sink, MaxPosition
<1>9. \A h \in Registered : h.at \in Nat /\ place \in Nat /\ next \in Nat
  BY <1>2, <1>8, RegisteredPlaced DEF Sink, MaxPosition
<1> HIDE DEF next
<1>10. CASE given /\ Enter(Gone) /\ UNCHANGED <<flagged, completed>>
  BY <1>3, <1>5, <1>10
<1>11. CASE ~ given /\ ~ Gated(next) /\ Enter(next) /\ UNCHANGED <<flagged, completed>>
  BY <1>3, <1>6, <1>8, <1>9, <1>11
<1>12. CASE ~ given /\ Gated(next) /\ ended /\ Enter(Gone) /\ GateOnDone /\ UNCHANGED flagged
  BY <1>3, <1>5, <1>12 DEF GateOnDone, SendElementOnExit
<1>13. CASE ~ given /\ Gated(next) /\ ~ ended /\ flagged' = marked
            /\ Enter(IF marked THEN next ELSE ResumeAt) /\ UNCHANGED completed
  <2>1. event.type = "FQDN" /\ Resume # {} /\ next = GateAt
    BY <1>13 DEF Gated
  <2>2. /\ GateAt \in Positions["FQDN"] /\ GateAt >= OSINTFirst
        /\ \A q \in Positions["FQDN"] : q >= OSINTFirst => GateAt <= q
        /\ ResumeAt \in Positions["FQDN"] /\ ResumeAt > OSINTLast
        /\ \A q \in Positions["FQDN"] : q > OSINTLast => ResumeAt <= q
    BY <1>2, <2>1, GateIs
  <2>3. \A h \in Registered : h.type = event.type /\ h.sld
                              => h.at \in OSINTFirst..OSINTLast /\ GateAt <= h.at
    BY <1>2, <2>1, <2>2, RegisteredPlaced, PositionsAre
  <2>4. CASE marked
    <3>1. \A h \in Registered : h.type = event.type /\ h.sld => ~ (place > OSINTLast)
      BY <1>8, <1>9, <2>1, <2>3 DEF OSINTFirst, OSINTLast
    <3> QED
      BY <1>6, <1>8, <1>9, <1>13, <2>4, <3>1
  <2>5. CASE ~ marked
    <3>1. flagged' = FALSE /\ Enter(ResumeAt)
      BY <1>3, <1>13, <2>5
    <3>2. \A h \in Registered : h.type = event.type /\ h.at > place /\ h.at < ResumeAt => h.sld
      <4> SUFFICES ASSUME NEW h \in Registered, h.type = event.type, h.at > place, h.at < ResumeAt
                   PROVE  h.sld
        OBVIOUS
      <4>1. h.at >= OSINTFirst
        BY <1>8, <1>9, <2>1, <2>2 DEF OSINTFirst
      <4>2. h.at <= OSINTLast
        BY <1>2, <1>9, <2>1, <2>2, PositionsAre DEF MaxPosition, OSINTLast
      <4> QED
        BY <1>9, <2>1, <4>1, <4>2, RegisteredPlaced DEF OSINTFirst, OSINTLast
    <3>3. ResumeAt > place
      BY <1>2, <1>8, <2>1, <2>2, <1>7 DEF Sink, MaxPosition, OSINTLast, OSINTFirst
    <3> QED
      BY <1>6, <1>13, <2>1, <2>2, <3>1, <3>2, <3>3
  <2> QED
    BY <2>4, <2>5
<1> QED
  BY <1>10, <1>11, <1>12, <1>13 DEF Advance, next

LEMMA DropStep ==
  ASSUME IInv, Drop
  PROVE  IInv'
<1>1. event # None /\ Enter(Gone) /\ UNCHANGED <<loading, event, flagged, called, completed, ended>>
  BY DEF Drop
<1>2. event.type \in Types
  BY <1>1, OnItsWay
<1>3. /\ place' = Gone /\ \A k \in DOMAIN stage' : stage'[k] = "waiting"
      /\ DOMAIN stage' =
           IF place' \in 1..MaxPosition THEN {Key(h) : h \in At[event.type][place']} ELSE {}
  BY <1>1, <1>2, Entered
<1>4. PipeTypeOK' /\ Loaded' /\ Staged'
  <2>1. completed \in Nat /\ called \subseteq Keys /\ flagged \in BOOLEAN /\ ended \in BOOLEAN
    BY DEF IInv, PipeTypeOK
  <2> QED
    BY <1>1, <1>3, <2>1, EventSteps
<1>5. Reported' /\ Met'
  BY <1>3 DEF Reported, Met, Sink, Gone, MaxPosition
<1> QED
  BY <1>4, <1>5 DEF IInv

-----------------------------------------------------------------------------
(* The theorems.                                                           *)

LEMMA TwoElements ==
  ASSUME NEW S, IsFiniteSet(S), NEW a \in S, NEW b \in S, a # b
  PROVE  Cardinality(S) > 1
BY FS_CardinalityType, FS_EmptySet, FS_Singleton

LEMMA StepHolds == IInv /\ [PipeNext]_pipeVars => IInv'
<1> SUFFICES ASSUME IInv, [PipeNext]_pipeVars PROVE IInv'
  OBVIOUS
<1>1. ended \in BOOLEAN
  BY DEF IInv, PipeTypeOK
<1>2. CASE StartPlugin \/ StartFails \/ BuildPipelines
  BY <1>2, RegistrySteps
<1>3. CASE event = None /\ phase = "ready" /\ \E e \in Events : Take(e)
  BY <1>3, TakeStep
<1>4. CASE Advance
  BY <1>4, AdvanceStep
<1>5. CASE Leave
  BY <1>1, <1>5, InPlace DEF Leave, SendElementOnExit
<1>6. ASSUME NEW h \in Working, Call(h) \/ Return(h) \/ Panic(h)
      PROVE  IInv'
  BY <1>6, CallStep, ReturnStep, PanicStep
<1>7. CASE EndSession
  BY <1>7, InPlace DEF EndSession
<1>8. CASE UNCHANGED pipeVars
  BY <1>1, <1>8, InPlace DEF pipeVars, loading
<1>9. CASE Drop
  BY <1>9, DropStep
<1> QED
  BY <1>2, <1>3, <1>4, <1>5, <1>6, <1>7, <1>8, <1>9 DEF PipeNext, Traverse

\* The inductive invariant holds of every state: an event has met all wanted handlers behind it,
\* up to those the gate routed it around, and a reported completion has its reason.
THEOREM PipelineInvariant == PipeSpec => []IInv
BY InitHolds, StepHolds, PTL DEF PipeSpec

\* Whatever is configured, an event is where its type has a stage, and each handler of the stage
\* is in one of its states.
THEOREM PipeTypeCorrect == PipeSpec => []PipeTypeOK
<1>1. IInv => PipeTypeOK
  BY DEF IInv
<1> QED
  BY <1>1, PipelineInvariant, PTL

\* A handler that asks for a position of its own has it, while the plugins of load.go register
\* and when all have.
THEOREM SlotsAreExclusive == PipeSpec => []ExclusiveAlone
<1>1. IInv => ExclusiveAlone
  <2> SUFFICES ASSUME IInv, NEW h \in RegisteredBy(started), h.exclusive
               PROVE  {g \in RegisteredBy(started) : g.type = h.type /\ g.at = h.at} = {h}
    BY DEF ExclusiveAlone
  <2>1. started \in 0..Len(Plugins) /\ Unique(RegisteredBy(started))
    BY DEF IInv, PipeTypeOK, Loaded
  <2>2. \A g \in RegisteredBy(started) : g.type = h.type /\ g.at = h.at => g = h
    BY <2>1, AloneInSlot
  <2> QED
    BY <2>2
<1> QED
  BY <1>1, PipelineInvariant, PTL

\* An event that reaches the sink has met every handler that had something to do for it, for any
\* configured transformations, wherever the gate sent it.
THEOREM NothingIsLost == PipeSpec => []BypassLosesNothing
<1>1. IInv => BypassLosesNothing
  <2> SUFFICES ASSUME IInv, place = Sink, NEW h \in Registered, h.type = event.type, Matches(h)
               PROVE  Key(h) \in called \/ (h.sld /\ ~ flagged)
    BY DEF BypassLosesNothing
  <2>1. event # None
    BY DEF IInv, Staged, Sink, MaxPosition
  <2>2. MetBy(h)
    BY RegisteredPlaced DEF MetBy, Sink, MaxPosition
  <2> QED
    BY <2>1, <2>2 DEF IInv, Met, Spared, Sink, MaxPosition
<1> QED
  BY <1>1, PipelineInvariant, PTL

\* After the completion of an event was reported, only the peers of a handler that gave it up are
\* called with it, for any configured transformations.
THEOREM CompletedIsDone == PipeSpec => NoCallAfterCompletion
<1> DEFINE Done == completed > 0 => called' = called \/ Cardinality(DOMAIN stage) > 1
<1>1. IInv /\ [PipeNext]_pipeVars => [Done]_pipeVars
  <2> SUFFICES ASSUME IInv, PipeNext, completed > 0, called' # called
               PROVE  Cardinality(DOMAIN stage) > 1
    OBVIOUS
  <2>1. PICK h \in Working : Call(h) /\ stage[Key(h)] = "waiting"
    <3>1. event # None
      BY DEF IInv, Staged, Reported, Sink, Gone, MaxPosition
    <3> QED
      BY <3>1 DEF PipeNext, Traverse, StartPlugin, StartFails, BuildPipelines, Advance, Leave,
                  Call, Return, Panic, Drop, EndSession
  <2>2. event # None
    BY <2>1, Busy
  <2>3. Key(h) \in DOMAIN stage /\ place \in 1..MaxPosition
    BY <2>1, <2>2, Workers
  <2>4. PICK k \in DOMAIN stage : stage[k] = "left"
    BY <2>3 DEF IInv, Reported, Sink, Gone, MaxPosition
  <2>5. IsFiniteSet(DOMAIN stage)
    BY KeysFinite, FS_Subset DEF IInv, PipeTypeOK
  <2> QED
    BY <2>1, <2>3, <2>4, <2>5, TwoElements
<1> QED
  BY <1>1, PipelineInvariant, PTL DEF PipeSpec, NoCallAfterCompletion
=============================================================================
