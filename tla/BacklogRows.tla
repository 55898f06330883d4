----------------------------- MODULE BacklogRows -----------------------------
(***************************************************************************)
(* The table backlog_items of engine/sessions/backlogdb, and the effect of *)
(* every statement the package runs on it.  A table is a function "rows"   *)
(* from entity ids to rows; NoRow stands for an id that has no row.  Each  *)
(* operator takes the table before the statement and yields the table      *)
(* after it, so the state machine of the database (BacklogDB) and that of  *)
(* the dispatcher (Dispatcher) use one and the same translation.           *)
(*                                                                         *)
(* The asset type of an entity never changes, so the column etype is the   *)
(* constant function TypeOf.  Times are in seconds (nowUnix).              *)
(***************************************************************************)
EXTENDS Integers, FiniteSets

CONSTANTS
  Entities,     \* entity ids of the asset database
  AssetTypes,   \* values of the column etype
  TypeOf,       \* the asset type of an entity
  Owners,       \* values of the column lease_owner
  NoOwner,      \* SQL NULL in that column
  NoRow         \* an entity id that is not in the table

States == {"queued", "leased", "done"}

Row == [state       : States,
        lease_owner : Owners \cup {NoOwner},
        lease_until : Nat,
        created_at  : Nat]

ASSUME BacklogRowsAssumption ==
  /\ TypeOf \in [Entities -> AssetTypes]
  /\ NoOwner \notin Owners
  /\ NoRow \notin Row

Tables == [Entities -> Row \cup {NoRow}]

EmptyTable == [e \in Entities |-> NoRow]

\* ClaimNext leases for 30 seconds when the session's TTL is zero.
DefaultLease == 30

------------------------------------------------------------------------------
(* Queries.                                                                *)

Has(rows, e) == rows[e] # NoRow

InState(rows, e, st) == rows[e] # NoRow /\ rows[e].state = st

\* The entities of asset type t whose row is in state st.
Select(rows, t, st) == {e \in Entities : TypeOf[e] = t /\ InState(rows, e, st)}

\* The three sums of Counts.
Counts(rows, t) == [queued |-> Cardinality(Select(rows, t, "queued")),
                    leased |-> Cardinality(Select(rows, t, "leased")),
                    done   |-> Cardinality(Select(rows, t, "done"))]

\* The ids ListDone returns; their order (created_at) matters to no caller.
ListDone(rows, t) == Select(rows, t, "done")

------------------------------------------------------------------------------
(* Statements that write rows.                                             *)

\* INSERT ... ON CONFLICT(entity_id) DO UPDATE: the state is forced, the
\* lease cleared, and the created_at of an existing row is kept.
Upsert(rows, e, st, now) ==
  [rows EXCEPT ![e] =
     [state       |-> st,
      lease_owner |-> NoOwner,
      lease_until |-> 0,
      created_at  |-> IF Has(rows, e) THEN rows[e].created_at ELSE now]]

\* Mutant: the wrong state constant.
EnqueueAsDone(rows, e, now) == Upsert(rows, e, "done", now)

Enqueue(rows, e, now) == Upsert(rows, e, "queued", now)

EnqueueDone(rows, e, now) == Upsert(rows, e, "done", now)

\* UPDATE ... SET state, lease_owner = NULL, lease_until = 0.
Unlease(rows, S, st) ==
  [e \in Entities |->
     IF e \in S
       THEN [rows[e] EXCEPT !.state = st, !.lease_owner = NoOwner, !.lease_until = 0]
       ELSE rows[e]]

\* Mutant: the expiry test the wrong way round.
EligibleUnexpired(rows, t, ttl, now) ==
  Select(rows, t, "queued") \cup
  {e \in Select(rows, t, "leased") : ttl > 0 /\ rows[e].lease_until >= now}

\* The rows a claim may take.  Without a TTL a lease is never reclaimed.
Eligible(rows, t, ttl, now) ==
  Select(rows, t, "queued") \cup
  {e \in Select(rows, t, "leased") : ttl > 0 /\ rows[e].lease_until <= now}

\* Mutant: no ORDER BY.
ClaimSetsUnordered(rows, t, n, ttl, now) ==
  LET el == Eligible(rows, t, ttl, now)
  IN  {C \in SUBSET el :
         Cardinality(C) = IF Cardinality(el) < n THEN Cardinality(el) ELSE n}

\* ORDER BY created_at LIMIT n: every set that query may return; rows created
\* in the same second come in any order.
ClaimSets(rows, t, n, ttl, now) ==
  LET el == Eligible(rows, t, ttl, now)
  IN  {C \in SUBSET el :
         /\ Cardinality(C) = IF Cardinality(el) < n THEN Cardinality(el) ELSE n
         /\ \A c \in C, d \in el \ C : rows[c].created_at <= rows[d].created_at}

\* Mutant: the claim forgets to change the state.
LeaseKeepsState(rows, C, owner, ttl, now) ==
  [e \in Entities |->
     IF e \in C THEN [rows[e] EXCEPT !.lease_owner = owner] ELSE rows[e]]

\* The UPDATE of ClaimNext for the selected ids.
Lease(rows, C, owner, ttl, now) ==
  [e \in Entities |->
     IF e \in C
       THEN [rows[e] EXCEPT !.state       = "leased",
                            !.lease_owner = owner,
                            !.lease_until = now + (IF ttl > 0 THEN ttl ELSE DefaultLease)]
       ELSE rows[e]]

\* Mutant: ownership is not checked.
AckMatchesAny(rows, e, owner) == Has(rows, e)

\* The WHERE clauses of Ack: an owner must hold the lease; without an owner
\* any row matches, whatever its state.
AckMatches(rows, e, owner) ==
  /\ Has(rows, e)
  /\ owner # NoOwner => rows[e].state = "leased" /\ rows[e].lease_owner = owner

Ack(rows, e, owner) ==
  Unlease(rows, {x \in {e} : AckMatches(rows, x, owner)}, "done")

\* The WHERE clauses of Release: the row must be leased, by the owner if one
\* is given.
ReleaseMatches(rows, e, owner) ==
  /\ InState(rows, e, "leased")
  /\ owner # NoOwner => rows[e].lease_owner = owner

Release(rows, e, owner) ==
  Unlease(rows, {x \in {e} : ReleaseMatches(rows, x, owner)}, "queued")

RequeueExpired(rows, now) ==
  Unlease(rows, {e \in Entities : InState(rows, e, "leased")
                                  /\ rows[e].lease_until <= now}, "queued")

Delete(rows, e) == [rows EXCEPT ![e] = NoRow]
==============================================================================
