-------------------------- MODULE DispatcherProofs --------------------------
(***************************************************************************)
(* Theorems about the dispatcher, for any number of sessions, entities,    *)
(* callers and pipeline slots, any limits and any number of failures.      *)
(***************************************************************************)
EXTENDS Dispatcher, FiniteSetTheorems, TLAPS

------------------------------------------------------------------------------
(* The statements of the backlog keep the table well typed.                *)

LEMMA UpsertType ==
  ASSUME NEW r \in Tables, NEW e \in Entities, NEW st \in States, NEW t \in Nat
  PROVE  Upsert(r, e, st, t) \in Tables
BY DEF Upsert, Tables, Row, Has

LEMMA UnleaseType ==
  ASSUME NEW r \in Tables, NEW S, NEW st \in States, \A e \in S : r[e] # NoRow
  PROVE  Unlease(r, S, st) \in Tables
<1> SUFFICES ASSUME NEW e \in Entities
             PROVE  Unlease(r, S, st)[e] \in Row \cup {NoRow}
  BY DEF Unlease, Tables
<1>1. CASE e \in S
  <2>1. r[e] \in Row
    BY <1>1 DEF Tables
  <2>2. [r[e] EXCEPT !.state = st, !.lease_owner = NoOwner, !.lease_until = 0] \in Row
    BY <2>1 DEF Row
  <2> QED BY <1>1, <2>2 DEF Unlease
<1>2. CASE e \notin S
  BY <1>2 DEF Unlease, Tables
<1> QED BY <1>1, <1>2

LEMMA LeaseType ==
  ASSUME NEW r \in Tables, NEW C, \A e \in C : r[e] # NoRow,
         NEW o \in Owners, NEW ttl \in Nat, NEW t \in Nat
  PROVE  Lease(r, C, o, ttl, t) \in Tables
<1> SUFFICES ASSUME NEW e \in Entities
             PROVE  Lease(r, C, o, ttl, t)[e] \in Row \cup {NoRow}
  BY DEF Lease, Tables
<1>1. CASE e \in C
  <2>1. r[e] \in Row
    BY <1>1 DEF Tables
  <2>2. t + (IF ttl > 0 THEN ttl ELSE DefaultLease) \in Nat
    BY DEF DefaultLease
  <2>3. [r[e] EXCEPT !.state = "leased", !.lease_owner = o,
                     !.lease_until = t + (IF ttl > 0 THEN ttl ELSE DefaultLease)] \in Row
    BY <2>1, <2>2 DEF Row, States
  <2> QED BY <1>1, <2>3 DEF Lease
<1>2. CASE e \notin C
  BY <1>2 DEF Lease, Tables
<1> QED BY <1>1, <1>2

\* Only rows that exist are claimed, and each of them is queued or expired.
LEMMA ClaimedRows ==
  ASSUME NEW r, NEW t, NEW n, NEW ttl, NEW now_, NEW C \in ClaimSets(r, t, n, ttl, now_)
  PROVE  /\ C \subseteq Entities
         /\ \A e \in C : /\ r[e] # NoRow /\ TypeOf[e] = t
                         /\ \/ r[e].state = "queued"
                            \/ r[e].state = "leased" /\ r[e].lease_until <= now_
BY DEF ClaimSets, Eligible, Select, InState

\* The columns of a leased row.
LEMMA LeasedRow ==
  ASSUME NEW r \in Tables, NEW C \in SUBSET Entities, NEW e \in C, r[e] # NoRow,
         NEW o \in Owners, NEW ttl \in Nat, NEW t \in Nat
  PROVE  LET row == Lease(r, C, o, ttl, t)[e] IN
         /\ row.state = "leased" /\ row.lease_owner = o
         /\ row.lease_until = t + (IF ttl > 0 THEN ttl ELSE DefaultLease)
         /\ row.lease_until \in Nat /\ row.lease_until > t
         /\ row # NoRow
<1>1. r[e] \in Row
  BY DEF Tables
<1> DEFINE until == t + (IF ttl > 0 THEN ttl ELSE DefaultLease)
           row == [r[e] EXCEPT !.state = "leased", !.lease_owner = o,
                               !.lease_until = until]
<1>2. until \in Nat /\ until > t
  BY DEF DefaultLease
<1> HIDE DEF until
<1>3. row.state = "leased" /\ row.lease_owner = o /\ row.lease_until = until
  BY <1>1 DEF Row
<1>4. Lease(r, C, o, ttl, t)[e] = row
  BY DEF Lease, until
<1>5. row \in Row
  BY <1>1, <1>2 DEF Row, States
<1> QED BY <1>2, <1>3, <1>4, <1>5, BacklogRowsAssumption DEF until

LEMMA AckType ==
  ASSUME NEW r \in Tables, NEW e \in Entities, NEW o
  PROVE  Ack(r, e, o) \in Tables
BY UnleaseType DEF Ack, AckMatches, Has, States

------------------------------------------------------------------------------
(* What the statements do to one row.                                      *)

LEMMA UpsertRow ==
  ASSUME NEW r \in Tables, NEW e \in Entities, NEW st, NEW t, NEW x \in Entities
  PROVE  /\ x # e => Upsert(r, e, st, t)[x] = r[x]
         /\ x = e => Upsert(r, e, st, t)[x].state = st
BY DEF Upsert, Tables

LEMMA UnleaseRow ==
  ASSUME NEW r \in Tables, NEW S, \A e \in S : r[e] # NoRow, NEW st \in States,
         NEW x \in Entities
  PROVE  /\ x \notin S => Unlease(r, S, st)[x] = r[x]
         /\ x \in S => /\ Unlease(r, S, st)[x] \in Row
                       /\ Unlease(r, S, st)[x].state = st
                       /\ Unlease(r, S, st)[x].lease_owner = NoOwner
                       /\ Unlease(r, S, st)[x].lease_until = 0
<1>1. CASE x \in S
  <2>1. r[x] \in Row
    BY <1>1 DEF Tables
  <2> DEFINE row == [r[x] EXCEPT !.state = st, !.lease_owner = NoOwner, !.lease_until = 0]
  <2>2. /\ row \in Row
        /\ row.state = st /\ row.lease_owner = NoOwner /\ row.lease_until = 0
    BY <2>1 DEF Row
  <2> QED BY <1>1, <2>2 DEF Unlease
<1>2. CASE x \notin S
  BY <1>2 DEF Unlease
<1> QED BY <1>1, <1>2

\* An ack finishes the row it matches and changes no other.
LEMMA AckRow ==
  ASSUME NEW r \in Tables, NEW e \in Entities, NEW o, NEW x \in Entities
  PROVE  /\ x # e \/ ~AckMatches(r, e, o) => Ack(r, e, o)[x] = r[x]
         /\ x = e /\ AckMatches(r, e, o) => Ack(r, e, o)[x].state = "done"
<1> DEFINE S == {y \in {e} : AckMatches(r, y, o)}
<1>1. \A y \in S : r[y] # NoRow
  BY DEF AckMatches, Has
<1>2. Ack(r, e, o) = Unlease(r, S, "done")
  BY DEF Ack
<1> QED BY <1>1, <1>2, UnleaseRow DEF States

------------------------------------------------------------------------------
(* Which ids have a row after a statement.                                 *)

LEMMA UpsertHas ==
  ASSUME NEW r \in Tables, NEW e \in Entities, NEW st \in States, NEW t \in Nat,
         NEW x \in Entities
  PROVE  Has(Upsert(r, e, st, t), x) <=> (x = e \/ Has(r, x))
<1> DEFINE row == [state |-> st, lease_owner |-> NoOwner, lease_until |-> 0,
                   created_at |-> IF Has(r, e) THEN r[e].created_at ELSE t]
<1>1. row \in Row
  BY DEF Tables, Has, Row
<1>2. Upsert(r, e, st, t) = [r EXCEPT ![e] = row]
  BY DEF Upsert
<1> HIDE DEF row
<1> QED BY <1>1, <1>2, BacklogRowsAssumption DEF Tables, Has

\* An ack neither makes nor removes a row.
LEMMA AckHas ==
  ASSUME NEW r \in Tables, NEW e \in Entities, NEW o, NEW x \in Entities
  PROVE  Has(Ack(r, e, o), x) <=> Has(r, x)
<1> DEFINE S == {y \in {e} : AckMatches(r, y, o)}
<1>1. \A y \in S : r[y] # NoRow
  BY DEF AckMatches, Has
<1>2. Ack(r, e, o) = Unlease(r, S, "done")
  BY DEF Ack
<1>3. x \in S => r[x] # NoRow /\ Unlease(r, S, "done")[x] \in Row
  BY <1>1, UnleaseRow DEF States
<1>4. x \notin S => Unlease(r, S, "done")[x] = r[x]
  BY <1>1, UnleaseRow DEF States
<1> HIDE DEF S
<1> QED BY <1>2, <1>3, <1>4, BacklogRowsAssumption DEF Has

\* Nor does a claim.
LEMMA LeaseHas ==
  ASSUME NEW r \in Tables, NEW C \in SUBSET Entities, \A e \in C : r[e] # NoRow,
         NEW o \in Owners, NEW ttl \in Nat, NEW t \in Nat, NEW x \in Entities
  PROVE  Has(Lease(r, C, o, ttl, t), x) <=> Has(r, x)
<1>1. CASE x \in C
  BY <1>1, LeasedRow DEF Has
<1>2. CASE x \notin C
  BY <1>2 DEF Lease, Has
<1> QED BY <1>1, <1>2

\* Without an owner an ack finishes any row.
LEMMA AckAnyRow ==
  ASSUME NEW r \in Tables, NEW e \in Entities, NEW x \in Entities
  PROVE  /\ x # e => Ack(r, e, NoOwner)[x] = r[x]
         /\ InState(Ack(r, e, NoOwner), e, "done") <=> Has(r, e)
         /\ ~InState(Ack(r, e, NoOwner), e, "leased")
<1>1. AckMatches(r, e, NoOwner) <=> Has(r, e)
  BY DEF AckMatches
<1>2. Has(Ack(r, e, NoOwner), e) <=> Has(r, e)
  BY AckHas
<1>3. Has(r, e) => Ack(r, e, NoOwner)[e].state = "done"
  BY <1>1, AckRow
<1> QED BY <1>2, <1>3, AckRow DEF InState, Has

------------------------------------------------------------------------------
(* Types.                                                                  *)

LEMMA InitType == Init => TypeOK
<1> SUFFICES ASSUME Init PROVE TypeOK
  OBVIOUS
<1>1. rows \in [Sessions -> Tables]
  BY DEF Init, EmptyTable, Tables
<1>2. calls \in [Callers -> Seq(Call)]
  BY ScriptsAssumption DEF Init
<1>3. cchan \in Seq(Element) /\ Len(cchan) <= CChanCap /\ cqueue \in Seq(Element)
  BY DispatcherAssumption DEF Init
<1>4. /\ entries \in [Sessions -> [Entities -> Metas \cup {NoMeta}]]
      /\ queue \in [Sessions -> [AssetTypes -> Seq(Element)]]
      /\ worker \in [Workers -> Element \cup {NoElement}] /\ given \in [Workers -> 0 .. Peers]
      /\ HistoryOK
  <2>1. entries \in [Sessions -> [Entities -> Metas \cup {NoMeta}]]
    BY DEF Init
  <2>2. << >> \in Seq(Element)
    OBVIOUS
  <2>3. queue \in [Sessions -> [AssetTypes -> Seq(Element)]]
    BY <2>2 DEF Init
  <2>4. worker \in [Workers -> Element \cup {NoElement}]
    BY DEF Init
  <2>5. given \in [Workers -> 0 .. Peers]
    BY DispatcherAssumption DEF Init
  <2>6. asked \in [Sessions -> [Entities -> Nat]]
    BY DEF Init
  <2>7. HistoryOK
    BY <2>6 DEF Init, HistoryOK
  <2> QED BY <2>1, <2>3, <2>4, <2>5, <2>7
<1>5. /\ sids \subseteq Sessions /\ live \subseteq Sessions /\ killed \subseteq Sessions
      /\ down \in BOOLEAN /\ faults \in 0 .. MaxFaults
      /\ wake \in AssetTypes \cup {NoType}
      /\ pc \in [Callers -> {"has", "insert", "enqueue", "undo", "signal"}]
  <2>1. live \subseteq Sessions /\ faults \in 0 .. MaxFaults
    BY DispatcherAssumption DEF Init
  <2>2. pc \in [Callers -> {"has", "insert", "enqueue", "undo", "signal"}]
    BY DEF Init
  <2> QED BY <2>1, <2>2 DEF Init
<1>6. pump \in PumpStates
  BY DEF Init, IdlePump, PumpStates
<1>7. comp \in CompStates /\ upd \in UpdStates
  BY DEF Init, CompStates, UpdStates
<1> QED BY <1>1, <1>2, <1>3, <1>4, <1>5, <1>6, <1>7 DEF TypeOK

\* The operations of a session's backlog keep its table well typed.
LEMMA BacklogType ==
  ASSUME rows \in [Sessions -> Tables], NEW s \in Sessions, NEW e \in Entities
  PROVE  /\ BacklogEnqueue(s, e) => rows' \in [Sessions -> Tables]
         /\ BacklogAck(s, e) => rows' \in [Sessions -> Tables]
         /\ AckMissing(s, e) => rows' \in [Sessions -> Tables]
         /\ FindEntity(s) => rows' \in [Sessions -> Tables]
<1>1. Enqueue(rows[s], e, Now) \in Tables
  BY UpsertType DEF Enqueue, States, Now
<1>2. \A o : Ack(rows[s], e, o) \in Tables
  BY AckType
<1> QED BY <1>1, <1>2 DEF BacklogEnqueue, BacklogAck, AckMissing, FindEntity

LEMMA ClaimType ==
  ASSUME rows \in [Sessions -> Tables], NEW s \in Sessions, NEW t \in AssetTypes,
         NEW n, NEW C, BacklogClaim(s, t, n, C)
  PROVE  rows' \in [Sessions -> Tables] /\ C \subseteq Entities
<1>1. C \in ClaimSets(rows[s], t, n, LeaseTTL, Now)
  BY DEF BacklogClaim
<1>2. C \subseteq Entities /\ \A e \in C : rows[s][e] # NoRow
  BY <1>1, ClaimedRows
<1>3. Lease(rows[s], C, <<s, t>>, LeaseTTL, Now) \in Tables
  BY <1>2, LeaseType, DispatcherAssumption DEF LeaseTTL, Now
<1> QED BY <1>2, <1>3 DEF BacklogClaim

LEMMA FaultsType ==
  ASSUME faults \in 0 .. MaxFaults, NEW s, Works(s) \/ Fails(s)
  PROVE  faults' \in 0 .. MaxFaults
BY DispatcherAssumption DEF Works, Fails

\* The current call of an active caller.
LEMMA CurType ==
  ASSUME TypeOK, NEW c \in Callers, Active(c)
  PROVE  /\ Cur(c) \in Call /\ Cur(c).s \in Sessions /\ Cur(c).e \in Entities
         /\ Cur(c).m \in Metas \cup {NoMeta}
         /\ Tail(calls[c]) \in Seq(Call)
<1>1. calls[c] \in Seq(Call) /\ calls[c] # << >>
  BY DEF TypeOK, Active
<1>2. Cur(c) \in Call /\ Tail(calls[c]) \in Seq(Call)
  BY <1>1 DEF Cur
<1> QED BY <1>2 DEF Call

LEMMA CallerType ==
  ASSUME TypeOK, HistoryOK', NEW c \in Callers, CallerStep(c)
  PROVE  TypeOK'
<1>1. ASSUME Return(c), Active(c)
      PROVE  calls' \in [Callers -> Seq(Call)]
             /\ pc' \in [Callers -> {"has", "insert", "enqueue", "undo", "signal"}]
  BY <1>1, CurType DEF Return, TypeOK
<1>2. ASSUME NEW l \in {"has", "insert", "enqueue", "undo", "signal"}, Goto(c, l)
      PROVE  calls' \in [Callers -> Seq(Call)]
             /\ pc' \in [Callers -> {"has", "insert", "enqueue", "undo", "signal"}]
  BY <1>2 DEF Goto, TypeOK
<1>3. CASE CheckBacklog(c)
  <2>1. faults' \in 0 .. MaxFaults
    BY <1>3, FaultsType DEF CheckBacklog, BacklogHas, TypeOK
  <2>2. Return(c) \/ Goto(c, "insert")
    BY <1>3 DEF CheckBacklog
  <2> QED BY <1>1, <1>2, <1>3, <2>1, <2>2
          DEF CheckBacklog, TypeOK, metaVars, sessVars, compVars, slotVars
<1>4. CASE InsertMeta(c)
  <2>1. sids' \subseteq Sessions
        /\ entries' \in [Sessions -> [Entities -> Metas \cup {NoMeta}]]
    BY <1>4, CurType DEF InsertMeta, InsertEntry, TypeOK
  <2> QED BY <1>2, <1>4, <2>1 DEF InsertMeta, TypeOK, sessVars, compVars, slotVars
<1>5. CASE EnqueueRow(c)
  <2>1. Active(c)
    BY <1>5 DEF EnqueueRow
  <2>2. rows' \in [Sessions -> Tables]
    BY <1>5, <2>1, CurType, BacklogType DEF EnqueueRow, TypeOK
  <2>3. faults' \in 0 .. MaxFaults
    BY <1>5, FaultsType DEF EnqueueRow, BacklogEnqueue, TypeOK
  <2>4. Goto(c, "signal") \/ Goto(c, "undo")
    BY <1>5 DEF EnqueueRow
  <2> QED BY <1>2, <1>5, <2>2, <2>3, <2>4
          DEF EnqueueRow, TypeOK, metaVars, sessVars, compVars, slotVars
<1>6. CASE UndoMeta(c)
  <2>1. Active(c) /\ Return(c)
    BY <1>6 DEF UndoMeta
  <2>2. entries' \in [Sessions -> [Entities -> Metas \cup {NoMeta}]]
    BY <1>6, <2>1, CurType DEF UndoMeta, DeleteSessionEntry, TypeOK
  <2> QED BY <1>1, <1>6, <2>1, <2>2
          DEF UndoMeta, DeleteSessionEntry, TypeOK, sessVars, compVars, slotVars
<1>7. CASE SignalScheduling(c)
  <2>1. Active(c) /\ Return(c)
    BY <1>7 DEF SignalScheduling
  <2>2. wake' \in AssetTypes \cup {NoType}
    BY <1>7, <2>1, CurType, BacklogRowsAssumption
       DEF SignalScheduling, WakeIfLow, WakePump, TypeOK
  <2> QED BY <1>1, <1>7, <2>1, <2>2
          DEF SignalScheduling, TypeOK, metaVars, sessVars, compVars, slotVars
<1>8. CASE Requeue(c)
  <2>1. Active(c) /\ Return(c)
    BY <1>8 DEF Requeue
  <2>2. rows' \in [Sessions -> Tables] /\ faults' \in 0 .. MaxFaults
    <3>1. CASE BacklogEnqueue(Cur(c).s, Cur(c).e)
      BY <2>1, <3>1, CurType, BacklogType, FaultsType DEF BacklogEnqueue, TypeOK
    <3>2. CASE Fails(Cur(c).s) /\ UNCHANGED rows
      BY <3>2, FaultsType DEF TypeOK
    <3> QED BY <1>8, <3>1, <3>2 DEF Requeue
  <2> QED BY <1>1, <1>8, <2>1, <2>2 DEF Requeue, TypeOK, metaVars, sessVars, compVars, slotVars
<1> QED BY <1>3, <1>4, <1>5, <1>6, <1>7, <1>8 DEF CallerStep

LEMMA QueueType ==
  ASSUME queue \in [Sessions -> [AssetTypes -> Seq(Element)]],
         NEW s \in Sessions, NEW t \in AssetTypes, NEW q \in Seq(Element)
  PROVE  [queue EXCEPT ![s][t] = q] \in [Sessions -> [AssetTypes -> Seq(Element)]]
OBVIOUS

\* What the pump's steps do to its own state.
LEMMA PumpStatesType ==
  ASSUME pump \in PumpStates
  PROVE  /\ IdlePump \in PumpStates
         /\ \A D \in SUBSET AssetTypes : [IdlePump EXCEPT !.pc = "types", !.due = D] \in PumpStates
         /\ \A t \in AssetTypes, V \in SUBSET Sessions :
              [pump EXCEPT !.pc = "sessions", !.t = t, !.due = @ \ {t}, !.visit = V] \in PumpStates
         /\ \A s \in Sessions, C \in SUBSET Entities :
              [pump EXCEPT !.pc = "load", !.visit = @ \ {s}, !.loading = {s} \X C] \in PumpStates
         /\ \A s : [pump EXCEPT !.visit = @ \ {s}] \in PumpStates
         /\ \A l \in {"types", "exit"} : [pump EXCEPT !.pc = l] \in PumpStates
         /\ \A L, B \in SUBSET (Sessions \X Entities), l \in {"load", "append", "sessions"} :
              [pump EXCEPT !.loading = L, !.batch = B, !.pc = l] \in PumpStates
         /\ \A x : \A l \in {"sessions", pump.pc} :
              [pump EXCEPT !.batch = @ \ {x}, !.pc = l] \in PumpStates
BY DEF PumpStates, IdlePump

LEMMA PumpType ==
  ASSUME TypeOK, HistoryOK', PumpStep
  PROVE  TypeOK'
<1> USE DEF TypeOK
<1> USE DEF PumpUnchanged, metaVars, sessVars, callerVars, compVars, slotVars
<1>1. CASE PumpOnWake
  <2>1. pump' \in PumpStates
    BY <1>1, PumpStatesType DEF PumpOnWake
  <2> QED BY <1>1, <2>1 DEF PumpOnWake
<1>2. CASE PumpOnTick
  BY <1>2, PumpStatesType DEF PumpOnTick
<1>3. ASSUME NEW t \in AssetTypes, PumpSnapshot(t) PROVE TypeOK'
  <2>1. PICK visit \in SUBSET {s \in live \ killed : HasQueued(s, t)} :
          pump' = [pump EXCEPT !.pc = "sessions", !.t = t, !.due = @ \ {t},
                               !.visit = visit]
    BY <1>3 DEF PumpSnapshot
  <2>2. pump' \in PumpStates
    <3>1. visit \in SUBSET Sessions
      OBVIOUS
    <3> QED BY <2>1, <3>1, PumpStatesType
  <2>3. faults' \in 0 .. MaxFaults
    BY <1>3, FaultsType DEF PumpSnapshot
  <2> QED BY <1>3, <2>2, <2>3 DEF PumpSnapshot
<1>4. ASSUME NEW s \in Sessions, PumpClaim(s) PROVE TypeOK'
  <2>1. faults' \in 0 .. MaxFaults
    BY <1>4, FaultsType DEF PumpClaim, BacklogClaim
  <2>2. CASE \E C \in SUBSET Entities :
               /\ BacklogClaim(s, pump.t, NumOfClaims(s, pump.t), C)
               /\ pump' = [pump EXCEPT !.pc = "load", !.visit = @ \ {s},
                                       !.loading = {s} \X C]
    <3>1. PICK C \in SUBSET Entities :
               /\ BacklogClaim(s, pump.t, NumOfClaims(s, pump.t), C)
               /\ pump' = [pump EXCEPT !.pc = "load", !.visit = @ \ {s},
                                       !.loading = {s} \X C]
      BY <2>2
    <3>2. pump.t \in AssetTypes
      <4>1. C # {} /\ C \in ClaimSets(rows[s], pump.t, NumOfClaims(s, pump.t), LeaseTTL, Now)
        BY <3>1 DEF BacklogClaim
      <4> QED BY <4>1, ClaimedRows, BacklogRowsAssumption
    <3>3. rows' \in [Sessions -> Tables]
      BY <3>1, <3>2, ClaimType
    <3>4. pump' \in PumpStates
      BY <3>1, PumpStatesType
    <3> QED BY <1>4, <2>1, <3>3, <3>4 DEF PumpClaim
  <2>3. CASE UNCHANGED rows /\ pump' = [pump EXCEPT !.visit = @ \ {s}]
    <3>1. pump' \in PumpStates
      BY <2>3, PumpStatesType
    <3> QED BY <1>4, <2>1, <2>3, <3>1 DEF PumpClaim
  <2> QED BY <1>4, <2>2, <2>3 DEF PumpClaim
<1>5. CASE PumpNextType
  BY <1>5, PumpStatesType DEF PumpNextType
<1>6. ASSUME NEW s \in Sessions, NEW e \in Entities, PumpLoad(s, e) PROVE TypeOK'
  <2>1. rows' \in [Sessions -> Tables]
    BY <1>6, BacklogType DEF PumpLoad
  <2>2. faults' \in 0 .. MaxFaults
    BY <1>6, FaultsType DEF PumpLoad, FindEntity, AckMissing
  <2>3. pump' \in PumpStates
    <3>1. PICK L \in SUBSET (Sessions \X Entities), B \in SUBSET (Sessions \X Entities),
               l \in {"load", "append", "sessions"} :
            pump' = [pump EXCEPT !.loading = L, !.batch = B, !.pc = l]
      BY <1>6 DEF PumpLoad, PumpStates
    <3> QED BY <3>1, PumpStatesType
  <2> QED BY <1>6, <2>1, <2>2, <2>3 DEF PumpLoad
<1>7. ASSUME NEW s \in Sessions, NEW e \in Entities, PumpAppend(s, e) PROVE TypeOK'
  <2>1. pump' \in PumpStates
    <3>1. PICK l \in {"sessions", pump.pc} :
            pump' = [pump EXCEPT !.batch = @ \ {<<s, e>>}, !.pc = l]
      BY <1>7 DEF PumpAppend
    <3> QED BY <3>1, PumpStatesType
  <2>2. GetEntry(s, e) \in Metas \cup {NoMeta}
    BY DEF GetEntry
  <2>3. queue' \in [Sessions -> [AssetTypes -> Seq(Element)]]
    <3> DEFINE el == [s |-> s, e |-> e, m |-> GetEntry(s, e)]
    <3>1. el \in Element
      BY <2>2 DEF Element
    <3>2. queue' = [queue EXCEPT ![s][pump.t] = Append(@, el)]
      BY <1>7 DEF PumpAppend
    <3>3. CASE pump.t \in AssetTypes
      <4>1. Append(queue[s][pump.t], el) \in Seq(Element)
        BY <3>1, <3>3
      <4> HIDE DEF el
      <4> QED BY <3>2, <3>3, <4>1, QueueType
    <3>4. CASE pump.t \notin AssetTypes
      <4> HIDE DEF el
      <4> QED BY <3>2, <3>4
    <3> QED BY <3>3, <3>4
  <2> QED BY <1>7, <2>1, <2>3 DEF PumpAppend
<1>8. CASE PumpExit
  BY <1>8, PumpStatesType DEF PumpExit
<1> QED BY <1>1, <1>2, <1>3, <1>4, <1>5, <1>6, <1>7, <1>8 DEF PumpStep, PumpWork

LEMMA AppendBounded ==
  ASSUME NEW S, NEW q \in Seq(S), NEW x \in S, NEW n \in Nat, ~(Len(q) >= n)
  PROVE  Append(q, x) \in Seq(S) /\ Len(Append(q, x)) <= n
OBVIOUS

LEMMA SendType ==
  ASSUME TypeOK, NEW el \in Element, SendElementOnExit(el)
  PROVE  /\ rows' \in [Sessions -> Tables] /\ faults' \in 0 .. MaxFaults
         /\ cchan' \in Seq(Element) /\ Len(cchan') <= CChanCap
<1>1. el.s \in Sessions /\ el.e \in Entities
  BY DEF Element
<1>2. CASE CChanFull
  <2>1. AckOnExit(el) /\ UNCHANGED cchan
    BY <1>2 DEF SendElementOnExit
  <2> QED BY <1>1, <2>1, BacklogType, FaultsType DEF AckOnExit, BacklogAck, TypeOK
<1>3. CASE ~CChanFull
  <2>1. cchan' = Append(cchan, el) /\ UNCHANGED <<rows, faults>>
    BY <1>3 DEF SendElementOnExit
  <2> QED BY <1>3, <2>1, AppendBounded, DispatcherAssumption DEF CChanFull, TypeOK
<1> QED BY <1>2, <1>3

LEMMA PipelineType ==
  ASSUME TypeOK, HistoryOK', PipelineStep
  PROVE  TypeOK'
<1> USE DEF TypeOK
<1> USE DEF metaVars, sessVars, callerVars, compVars, slotVars
<1>1. ASSUME NEW s \in Sessions, NEW t \in AssetTypes, NEW k \in 1 .. PipeDepth,
             PipelineTake(s, t, k)
      PROVE  TypeOK'
  <2>1. queue[s][t] \in Seq(Element) /\ queue[s][t] # << >>
    BY <1>1 DEF PipelineTake
  <2>2. Head(queue[s][t]) \in Element /\ Tail(queue[s][t]) \in Seq(Element)
    BY <2>1
  <2>3. worker' \in [Workers -> Element \cup {NoElement}]
    BY <1>1, <2>2 DEF PipelineTake
  <2>4. queue' \in [Sessions -> [AssetTypes -> Seq(Element)]]
    BY <1>1, <2>2, QueueType DEF PipelineTake
  <2> QED BY <1>1, <2>3, <2>4 DEF PipelineTake
<1>2. ASSUME NEW s \in Sessions, NEW t \in AssetTypes, PipelineDrop(s, t) PROVE TypeOK'
  <2>1. << >> \in Seq(Element)
    OBVIOUS
  <2>2. queue' \in [Sessions -> [AssetTypes -> Seq(Element)]]
    BY <1>2, <2>1, QueueType DEF PipelineDrop
  <2> QED BY <1>2, <2>2 DEF PipelineDrop
<1>3. ASSUME NEW w \in Workers, Vacate(w)
      PROVE  worker' \in [Workers -> Element \cup {NoElement}] /\ given' \in [Workers -> 0 .. Peers]
  BY <1>3, DispatcherAssumption DEF Vacate
<1>4. ASSUME NEW w \in Workers, PipelineExit(w) PROVE TypeOK'
  <2>1. worker[w] \in Element
    BY <1>4 DEF PipelineExit
  <2> QED BY <1>3, <1>4, <2>1, SendType DEF PipelineExit, PipelineUnchanged
<1>5. ASSUME NEW w \in Workers, GiveUp(w) PROVE TypeOK'
  <2>1. worker[w] \in Element
    BY <1>5 DEF GiveUp
  <2>2. given' \in [Workers -> 0 .. Peers]
    BY <1>5, DispatcherAssumption DEF GiveUp
  <2> QED BY <1>5, <2>1, <2>2, SendType DEF GiveUp, PipelineUnchanged
<1>6. ASSUME NEW w \in Workers, Discard(w) PROVE TypeOK'
  BY <1>3, <1>6 DEF Discard, PipelineUnchanged
<1> QED BY <1>1, <1>2, <1>4, <1>5, <1>6 DEF PipelineStep

\* The completion loop holds an element whenever it works on one.
CompHolds == comp.pc \in {"ack", "meta", "wake"} => comp.el \in Element

LEMMA CompType ==
  ASSUME TypeOK, HistoryOK', CompHolds, CompStep
  PROVE  TypeOK' /\ CompHolds'
<1> USE DEF TypeOK, CompUnchanged, metaVars, sessVars, callerVars, slotVars, CompStates
<1>1. CASE CompReceive
  <2>1. cchan \in Seq(Element) /\ cchan # << >>
    BY <1>1 DEF CompReceive
  <2>2. Head(cchan) \in Element /\ Tail(cchan) \in Seq(Element)
        /\ Len(Tail(cchan)) <= CChanCap
    BY <2>1, DispatcherAssumption
  <2>3. cqueue' \in Seq(Element) /\ cchan' \in Seq(Element) /\ Len(cchan') <= CChanCap
    BY <1>1, <2>2 DEF CompReceive
  <2> QED BY <1>1, <2>3 DEF CompReceive, CompHolds
<1>2. CASE CompNext
  <2>1. cqueue \in Seq(Element) /\ cqueue # << >>
    BY <1>2 DEF CompNext
  <2>2. Head(cqueue) \in Element /\ Tail(cqueue) \in Seq(Element)
    BY <2>1
  <2> QED BY <1>2, <2>2 DEF CompNext, CompHolds
<1>3. ASSUME comp.pc \in {"ack", "meta", "wake"}
      PROVE  comp.el \in Element /\ comp.el.s \in Sessions /\ comp.el.e \in Entities
  BY <1>3 DEF CompHolds, Element
<1>4. CASE CompAck
  <2>1. rows' \in [Sessions -> Tables]
    BY <1>3, <1>4, BacklogType DEF CompAck
  <2>2. faults' \in 0 .. MaxFaults
    BY <1>4, FaultsType DEF CompAck, BacklogAck
  <2>3. comp' \in CompStates /\ comp'.el \in Element
    BY <1>3, <1>4 DEF CompAck
  <2> QED BY <1>4, <2>1, <2>2, <2>3 DEF CompAck, CompHolds
<1>5. CASE CompDeleteMeta
  <2>1. entries' \in [Sessions -> [Entities -> Metas \cup {NoMeta}]]
    BY <1>3, <1>5 DEF CompDeleteMeta, DeleteSessionEntry
  <2> QED BY <1>3, <1>5, <2>1 DEF CompDeleteMeta, DeleteSessionEntry, CompHolds
<1>6. CASE CompWake
  <2>1. wake' \in AssetTypes \cup {NoType}
    BY <1>3, <1>6, BacklogRowsAssumption DEF CompWake, WakeIfLow, WakePump
  <2> QED BY <1>6, <2>1 DEF CompWake, CompHolds
<1>7. CASE CompExit
  BY <1>7 DEF CompExit, CompHolds
<1> QED BY <1>1, <1>2, <1>4, <1>5, <1>6, <1>7 DEF CompStep

LEMMA UpdType ==
  ASSUME TypeOK, HistoryOK', UpdStep
  PROVE  TypeOK'
<1> USE DEF TypeOK, UpdUnchanged, metaVars, sessVars, callerVars, compVars, slotVars, UpdStates
<1>1. CASE ListSessions
  BY <1>1 DEF ListSessions
<1>2. CASE ListKeys
  <2>1. upd' \in UpdStates
    BY <1>2 DEF ListKeys, Stale
  <2> QED BY <1>2, <2>1 DEF ListKeys
<1>3. CASE RemoveInactiveSessions
  <2>1. entries' \in [Sessions -> [Entities -> Metas \cup {NoMeta}]]
    BY <1>3 DEF RemoveInactiveSessions
  <2> QED BY <1>3, <2>1 DEF RemoveInactiveSessions
<1>4. CASE UpdExit
  BY <1>4 DEF UpdExit
<1> QED BY <1>1, <1>2, <1>3, <1>4 DEF UpdStep

LEMMA SessionType ==
  ASSUME TypeOK, HistoryOK', SessionStep
  PROVE  TypeOK'
<1> USE DEF TypeOK, EnvUnchanged, metaVars, sessVars, callerVars, compVars, slotVars
<1>1. ASSUME NEW s \in Sessions, AddSession(s) \/ KillSession(s) \/ RemoveSession(s)
      PROVE  TypeOK'
  <2>1. live' \subseteq Sessions /\ killed' \subseteq Sessions /\ UNCHANGED down
    BY <1>1 DEF AddSession, KillSession, RemoveSession
  <2> QED BY <1>1, <2>1 DEF AddSession, KillSession, RemoveSession
<1>2. CASE Shutdown
  BY <1>2 DEF Shutdown
<1> QED BY <1>1, <1>2 DEF SessionStep


\* The history names assets of the sessions.
LEMMA HistoryStep ==
  ASSUME TypeOK, CompHolds, [Next]_vars
  PROVE  HistoryOK'
<1> USE DEF HistoryOK
<1>0. HistoryOK /\ Items = Sessions \X Entities
  BY DEF TypeOK, Items
<1>1. ASSUME NEW s \in Sessions, NEW e \in Entities
      PROVE  /\ <<s, e>> \in Items
             /\ Remaining(s, e) \subseteq Items
             /\ Asks(s, e) => asked' \in [Sessions -> [Entities -> Nat]]
  <2>1. asked[s][e] + 1 \in Nat
    BY <1>0
  <2> QED BY <1>0, <2>1 DEF Remaining, Asks
<1>2. ASSUME NEW c \in Callers, CallerStep(c) PROVE HistoryOK'
  <2>1. Active(c)
    BY <1>2 DEF CallerStep, CheckBacklog, InsertMeta, EnqueueRow, UndoMeta,
                SignalScheduling, Requeue
  <2>2. Cur(c).s \in Sessions /\ Cur(c).e \in Entities
    BY <2>1, CurType
  <2>3. CASE CheckBacklog(c)
    <3>1. asked' \in [Sessions -> [Entities -> Nat]]
      BY <1>0, <1>1, <2>2, <2>3 DEF CheckBacklog
    <3> QED BY <1>0, <2>3, <3>1 DEF CheckBacklog
  <2>4. CASE InsertMeta(c) \/ UndoMeta(c)
    BY <1>0, <2>4 DEF InsertMeta, UndoMeta, InsertEntry, DeleteSessionEntry
  <2>5. CASE EnqueueRow(c)
    BY <1>0, <1>1, <2>2, <2>5 DEF EnqueueRow, BacklogEnqueue
  <2>6. CASE SignalScheduling(c)
    BY <1>0, <2>6 DEF SignalScheduling, histVars
  <2>7. CASE Requeue(c)
    <3>1. asked' \in [Sessions -> [Entities -> Nat]]
      BY <1>0, <1>1, <2>2, <2>7 DEF Requeue
    <3>2. overlapped' \subseteq Items
      BY <1>0, <1>1, <2>2, <2>7 DEF Requeue, BacklogEnqueue
    <3> QED BY <1>0, <2>7, <3>1, <3>2 DEF Requeue
  <2> QED BY <1>2, <2>3, <2>4, <2>5, <2>6, <2>7 DEF CallerStep
<1>3. CASE PumpStep
  <2>1. ASSUME NEW s \in Sessions, NEW e \in Entities, PumpLoad(s, e) PROVE HistoryOK'
    BY <1>0, <1>1, <2>1 DEF PumpLoad, PumpUnchanged, NothingLeft, AckMissing
  <2>2. CASE ~\E s \in Sessions, e \in Entities : PumpLoad(s, e)
    BY <1>0, <1>3, <2>2
       DEF PumpStep, PumpWork, PumpOnWake, PumpOnTick, PumpSnapshot, PumpClaim, PumpNextType,
           PumpAppend, PumpExit, PumpUnchanged, NothingLeft
  <2> QED BY <2>1, <2>2
<1>4. CASE PipelineStep
  <2>1. ASSUME NEW w \in Workers, worker[w] # NoElement
        PROVE  worker[w].s \in Sessions /\ worker[w].e \in Entities
    BY <2>1 DEF TypeOK, Element
  <2>2. ASSUME NEW el, el.s \in Sessions, el.e \in Entities, SendElementOnExit(el)
        PROVE  kept' \subseteq Items
    BY <1>0, <1>1, <2>2 DEF SendElementOnExit, AckOnExit
  <2>3. ASSUME NEW w \in Workers, PipelineExit(w) PROVE HistoryOK'
    BY <1>0, <1>1, <2>1, <2>2, <2>3 DEF PipelineExit, PipelineUnchanged
  <2>4. ASSUME NEW w \in Workers, GiveUp(w) PROVE HistoryOK'
    BY <1>0, <1>1, <2>1, <2>2, <2>4 DEF GiveUp, PipelineUnchanged
  <2>5. ASSUME NEW w \in Workers, Discard(w) PROVE HistoryOK'
    BY <1>0, <2>5 DEF Discard, PipelineUnchanged
  <2> QED BY <1>0, <1>4, <2>3, <2>4, <2>5
          DEF PipelineStep, PipelineTake, PipelineDrop, histVars
<1>5. CASE CompStep
  BY <1>0, <1>5 DEF CompStep, CompReceive, CompNext, CompAck, CompDeleteMeta, CompWake,
                    CompExit, CompUnchanged, DeleteSessionEntry
<1>6. CASE UpdStep
  BY <1>0, <1>6 DEF UpdStep, ListSessions, ListKeys, RemoveInactiveSessions, UpdExit, UpdUnchanged
<1>7. CASE SessionStep
  BY <1>0, <1>7 DEF SessionStep, AddSession, KillSession, RemoveSession, Shutdown, EnvUnchanged,
                    histVars
<1>8. CASE UNCHANGED vars
  BY <1>0, <1>8 DEF vars, histVars
<1> QED BY <1>2, <1>3, <1>4, <1>5, <1>6, <1>7, <1>8 DEF Next

LEMMA TypeStep ==
  ASSUME TypeOK, CompHolds, [Next]_vars
  PROVE  TypeOK' /\ CompHolds'
<1>0. HistoryOK'
  BY HistoryStep
<1>1. ASSUME NEW c \in Callers, CallerStep(c) PROVE TypeOK' /\ CompHolds'
  <2>1. UNCHANGED comp
    BY <1>1 DEF CallerStep, CheckBacklog, InsertMeta, EnqueueRow, UndoMeta,
                SignalScheduling, Requeue, compVars, slotVars
  <2> QED BY <1>1, <2>1, <1>0, CallerType DEF CompHolds
<1>2. CASE PumpStep
  <2>1. UNCHANGED comp
    BY <1>2 DEF PumpStep, PumpWork, PumpOnWake, PumpOnTick, PumpSnapshot, PumpClaim,
                PumpNextType, PumpLoad, PumpAppend, PumpExit, PumpUnchanged, compVars, slotVars
  <2> QED BY <1>2, <2>1, <1>0, PumpType DEF CompHolds
<1>3. CASE PipelineStep
  <2>1. UNCHANGED comp
    BY <1>3 DEF PipelineStep, PipelineTake, PipelineDrop, PipelineExit, GiveUp,
                Discard, PipelineUnchanged, compVars, slotVars
  <2> QED BY <1>3, <2>1, <1>0, PipelineType DEF CompHolds
<1>4. CASE CompStep
  BY <1>4, <1>0, CompType
<1>5. CASE UpdStep
  <2>1. UNCHANGED comp
    BY <1>5 DEF UpdStep, ListSessions, ListKeys, RemoveInactiveSessions, UpdExit,
                UpdUnchanged, compVars, slotVars
  <2> QED BY <1>5, <2>1, <1>0, UpdType DEF CompHolds
<1>6. CASE SessionStep
  <2>1. UNCHANGED comp
    BY <1>6 DEF SessionStep, AddSession, KillSession, RemoveSession, Shutdown,
                EnvUnchanged, compVars, slotVars
  <2> QED BY <1>6, <2>1, <1>0, SessionType DEF CompHolds
<1>7. CASE UNCHANGED vars
  BY <1>7 DEF vars, histVars, HistoryOK, TypeOK, CompHolds
<1> QED BY <1>1, <1>2, <1>3, <1>4, <1>5, <1>6, <1>7 DEF Next

\* The type invariant, of every variable of the dispatcher: among other things
\* cchan never holds more than its capacity, although the exits test its
\* length and send in one non-blocking select.
THEOREM TypeCorrect == Spec => []TypeOK
<1>1. Init => TypeOK /\ CompHolds
  BY InitType DEF Init, CompHolds
<1>2. TypeOK /\ CompHolds /\ [Next]_vars => TypeOK' /\ CompHolds'
  BY TypeStep
<1> QED BY <1>1, <1>2, PTL DEF Spec

------------------------------------------------------------------------------
(* The queues of the pipelines.                                            *)

\* The pump holds claims only while it loads and appends them, and all of them
\* are of the asset type it works on.
PumpTidy ==
  /\ pump.pc \notin {"load", "append"} => pump.loading = {} /\ pump.batch = {}
  /\ pump.pc = "append" => pump.loading = {}
  /\ \A i \in pump.loading \cup pump.batch : TypeOf[i[2]] = pump.t

\* The entities of type t the pump holds for session s.
Held(s, t) == {e \in Entities : TypeOf[e] = t /\ InPump(s, e)}

LEMMA HeldFinite ==
  \A s, t : IsFiniteSet(Held(s, t)) /\ Cardinality(Held(s, t)) \in Nat
BY DispatcherAssumption, FS_Subset, FS_CardinalityType DEF Held

\* A claim is never larger than asked for, and there is never more asked for
\* than there is room in the queue.
LEMMA ClaimFits ==
  ASSUME TypeOK, NEW s \in Sessions, NEW t \in AssetTypes, NEW C \in SUBSET Entities,
         Room(s, t) > 0, BacklogClaim(s, t, NumOfClaims(s, t), C)
  PROVE  /\ C \subseteq {e \in Entities : TypeOf[e] = t}
         /\ Len(queue[s][t]) + Cardinality(C) <= MaxQueued
<1> DEFINE n == NumOfClaims(s, t)
           el == Eligible(rows[s], t, LeaseTTL, Now)
<1>1. Len(queue[s][t]) \in Nat /\ MaxQueued \in Nat /\ PerSessBurst \in Nat
  BY DispatcherAssumption DEF TypeOK
<1>2. n \in Nat /\ Len(queue[s][t]) + n <= MaxQueued
  <2>1. Room(s, t) \in Nat /\ Len(queue[s][t]) + Room(s, t) = MaxQueued
    BY <1>1 DEF Room
  <2>2. n \in {Room(s, t), PerSessBurst} /\ n <= Room(s, t)
    BY <1>1, <2>1 DEF NumOfClaims
  <2> HIDE DEF n
  <2> QED BY <1>1, <2>1, <2>2
<1>3. C \in ClaimSets(rows[s], t, n, LeaseTTL, Now)
  BY DEF BacklogClaim
<1>4. Cardinality(C) = IF Cardinality(el) < n THEN Cardinality(el) ELSE n
  BY <1>3 DEF ClaimSets
<1>5. el \subseteq Entities
  BY DEF Eligible, Select
<1>6. Cardinality(el) \in Nat
  BY <1>5, DispatcherAssumption, FS_Subset, FS_CardinalityType
<1> HIDE DEF n, el
<1>7. Cardinality(C) <= n /\ Cardinality(C) \in Nat
  BY <1>2, <1>4, <1>6
<1>8. C \subseteq {e \in Entities : TypeOf[e] = t}
  BY <1>3, ClaimedRows
<1> QED BY <1>1, <1>2, <1>7, <1>8

LEMMA TidyPump ==
  ASSUME TypeOK, PumpTidy, PumpStep
  PROVE  PumpTidy'
<1> USE DEF PumpTidy, TypeOK, PumpStates
<1>1. CASE PumpOnWake \/ PumpOnTick \/ PumpNextType
  <2>1. pump'.loading = {} /\ pump'.batch = {}
    <3>1. CASE PumpOnWake
      BY <3>1 DEF PumpOnWake, IdlePump
    <3>2. CASE PumpOnTick
      BY <3>2 DEF PumpOnTick, IdlePump
    <3>3. CASE PumpNextType /\ pump.due = {}
      BY <3>3 DEF PumpNextType, IdlePump
    <3>4. CASE PumpNextType /\ pump.due # {}
      BY <3>4 DEF PumpNextType
    <3> QED BY <1>1, <3>1, <3>2, <3>3, <3>4
  <2> QED BY <2>1
<1>2. ASSUME NEW t \in AssetTypes, PumpSnapshot(t) PROVE PumpTidy'
  BY <1>2 DEF PumpSnapshot
<1>3. ASSUME NEW s \in Sessions, PumpClaim(s) PROVE PumpTidy'
  <2>1. CASE \E C \in SUBSET Entities :
               /\ BacklogClaim(s, pump.t, NumOfClaims(s, pump.t), C)
               /\ pump' = [pump EXCEPT !.pc = "load", !.visit = @ \ {s},
                                       !.loading = {s} \X C]
    <3>1. PICK C \in SUBSET Entities :
               /\ BacklogClaim(s, pump.t, NumOfClaims(s, pump.t), C)
               /\ pump' = [pump EXCEPT !.pc = "load", !.visit = @ \ {s},
                                       !.loading = {s} \X C]
      BY <2>1
    <3>2. \A e \in C : TypeOf[e] = pump.t
      BY <3>1, ClaimedRows DEF BacklogClaim
    <3>3. /\ pump'.pc = "load" /\ pump'.t = pump.t
          /\ pump'.loading = {s} \X C /\ pump'.batch = {}
      BY <1>3, <3>1 DEF PumpClaim
    <3> QED BY <3>2, <3>3
  <2>2. CASE pump' = [pump EXCEPT !.visit = @ \ {s}]
    BY <1>3, <2>2 DEF PumpClaim
  <2> QED BY <1>3, <2>1, <2>2 DEF PumpClaim
<1>4. ASSUME NEW s \in Sessions, NEW e \in Entities, PumpLoad(s, e) PROVE PumpTidy'
  <2>1. PICK B \in {pump.batch, pump.batch \cup {<<s, e>>}} :
          LET rest == pump.loading \ {<<s, e>>} IN
          pump' = [pump EXCEPT !.loading = rest, !.batch = B,
                               !.pc = IF rest # {} THEN "load"
                                      ELSE IF B # {} THEN "append" ELSE "sessions"]
    BY <1>4 DEF PumpLoad
  <2>2. <<s, e>> \in pump.loading
    BY <1>4 DEF PumpLoad
  <2>3. /\ pump'.loading = pump.loading \ {<<s, e>>}
        /\ pump'.batch = B /\ pump'.t = pump.t
        /\ pump'.pc = IF pump'.loading # {} THEN "load"
                      ELSE IF B # {} THEN "append" ELSE "sessions"
    BY <2>1
  <2> QED BY <2>2, <2>3
<1>5. ASSUME NEW s \in Sessions, NEW e \in Entities, PumpAppend(s, e) PROVE PumpTidy'
  <2>1. /\ pump'.loading = {} /\ pump'.t = pump.t
        /\ pump'.batch = pump.batch \ {<<s, e>>}
        /\ pump'.pc = IF pump.batch = {<<s, e>>} THEN "sessions" ELSE "append"
    BY <1>5 DEF PumpAppend
  <2> QED BY <2>1
<1>6. CASE PumpExit
  BY <1>6 DEF PumpExit
<1> QED BY <1>1, <1>2, <1>3, <1>4, <1>5, <1>6 DEF PumpStep, PumpWork

\* Whoever is not the pump leaves the pump alone.
LEMMA PumpAlone ==
  ASSUME [Next]_vars, ~PumpStep
  PROVE  UNCHANGED pump
<1> USE DEF callerVars, metaVars, sessVars, compVars, slotVars
<1>1. ASSUME NEW c \in Callers, CallerStep(c) PROVE UNCHANGED pump
  BY <1>1 DEF CallerStep, CheckBacklog, InsertMeta, EnqueueRow, UndoMeta, SignalScheduling,
              Requeue
<1>2. CASE PipelineStep
  BY <1>2 DEF PipelineStep, PipelineTake, PipelineDrop, PipelineExit, GiveUp,
                Discard, PipelineUnchanged
<1>3. CASE CompStep
  BY <1>3 DEF CompStep, CompReceive, CompNext, CompAck, CompDeleteMeta, CompWake, CompExit,
              CompUnchanged
<1>4. CASE UpdStep
  BY <1>4 DEF UpdStep, ListSessions, ListKeys, RemoveInactiveSessions, UpdExit, UpdUnchanged
<1>5. CASE SessionStep
  BY <1>5 DEF SessionStep, AddSession, KillSession, RemoveSession, Shutdown, EnvUnchanged
<1>6. CASE UNCHANGED vars
  BY <1>6 DEF vars
<1> QED BY <1>1, <1>2, <1>3, <1>4, <1>5, <1>6 DEF Next

\* Only the pump makes a queue longer.
LEMMA QueueShrinks ==
  ASSUME TypeOK, [Next]_vars, ~PumpStep, NEW s \in Sessions, NEW t \in AssetTypes
  PROVE  Len(queue'[s][t]) \in Nat /\ Len(queue'[s][t]) <= Len(queue[s][t])
<1> USE DEF callerVars, metaVars, sessVars, compVars, slotVars
<1>0. queue \in [Sessions -> [AssetTypes -> Seq(Element)]] /\ Len(queue[s][t]) \in Nat
  BY DEF TypeOK
<1>1. CASE UNCHANGED queue
  BY <1>0, <1>1
<1>2. ASSUME NEW s1 \in Sessions, NEW t1 \in AssetTypes, NEW k \in 1 .. PipeDepth,
             PipelineTake(s1, t1, k)
      PROVE  Len(queue'[s][t]) \in Nat /\ Len(queue'[s][t]) <= Len(queue[s][t])
  <2>1. queue' = [queue EXCEPT ![s1][t1] = Tail(@)] /\ queue[s1][t1] # << >>
    BY <1>2 DEF PipelineTake
  <2>2. CASE s = s1 /\ t = t1
    <3>1. queue'[s][t] = Tail(queue[s][t]) /\ queue[s][t] \in Seq(Element)
      BY <1>0, <2>1, <2>2
    <3> QED BY <2>1, <2>2, <3>1
  <2>3. CASE ~(s = s1 /\ t = t1)
    BY <1>0, <2>1, <2>3
  <2> QED BY <2>2, <2>3
<1>3. ASSUME NEW s1 \in Sessions, NEW t1 \in AssetTypes, PipelineDrop(s1, t1)
      PROVE  Len(queue'[s][t]) \in Nat /\ Len(queue'[s][t]) <= Len(queue[s][t])
  <2>1. queue' = [queue EXCEPT ![s1][t1] = << >>]
    BY <1>3 DEF PipelineDrop
  <2> QED BY <1>0, <2>1
<1>4. CASE \E w \in Workers : PipelineExit(w) \/ GiveUp(w) \/ Discard(w)
  BY <1>1, <1>4 DEF PipelineExit, GiveUp, Discard, PipelineUnchanged
<1>5. ASSUME NEW c \in Callers, CallerStep(c) PROVE UNCHANGED queue
  BY <1>5 DEF CallerStep, CheckBacklog, InsertMeta, EnqueueRow, UndoMeta, SignalScheduling,
              Requeue
<1>6. CASE CompStep
  <2>1. UNCHANGED queue
    BY <1>6 DEF CompStep, CompReceive, CompNext, CompAck, CompDeleteMeta, CompWake, CompExit,
                CompUnchanged
  <2> QED BY <1>1, <2>1
<1>7. CASE UpdStep
  <2>1. UNCHANGED queue
    BY <1>7 DEF UpdStep, ListSessions, ListKeys, RemoveInactiveSessions, UpdExit, UpdUnchanged
  <2> QED BY <1>1, <2>1
<1>8. CASE SessionStep
  <2>1. UNCHANGED queue
    BY <1>8 DEF SessionStep, AddSession, KillSession, RemoveSession, Shutdown, EnvUnchanged
  <2> QED BY <1>1, <2>1
<1>9. CASE UNCHANGED vars
  BY <1>1, <1>9 DEF vars
<1> QED BY <1>1, <1>2, <1>3, <1>4, <1>5, <1>6, <1>7, <1>8, <1>9 DEF Next, PipelineStep

\* What the pump holds for a session and type and what the queue holds, after
\* a step of the pump.
LEMMA PumpBounded ==
  ASSUME TypeOK, PumpTidy, QueueBounded, PumpStep,
         NEW s \in Sessions, NEW t \in AssetTypes
  PROVE  Len(queue'[s][t]) + Cardinality(Held(s, t)') <= MaxQueued
<1>0. /\ queue \in [Sessions -> [AssetTypes -> Seq(Element)]] /\ Len(queue[s][t]) \in Nat
      /\ MaxQueued \in Nat /\ pump \in PumpStates
  BY DispatcherAssumption DEF TypeOK
<1>1. Len(queue[s][t]) + Cardinality(Held(s, t)) <= MaxQueued
  BY DEF QueueBounded, Held
<1>2. /\ IsFiniteSet(Held(s, t)) /\ Cardinality(Held(s, t)) \in Nat
      /\ IsFiniteSet(Held(s, t)') /\ Cardinality(Held(s, t)') \in Nat
  <2>1. Held(s, t) \subseteq Entities /\ Held(s, t)' \subseteq Entities
    BY DEF Held
  <2> QED BY <2>1, DispatcherAssumption, FS_Subset, FS_CardinalityType
<1>3. \* Steps after which the pump holds no more than before.
      ASSUME Held(s, t)' \subseteq Held(s, t), UNCHANGED queue
      PROVE  Len(queue'[s][t]) + Cardinality(Held(s, t)') <= MaxQueued
  <2>1. Cardinality(Held(s, t)') <= Cardinality(Held(s, t))
    BY <1>2, <1>3, FS_Subset
  <2> QED BY <1>0, <1>1, <1>2, <1>3, <2>1
<1>4. CASE PumpOnWake \/ PumpOnTick \/ PumpNextType
  <2>1. pump'.loading = {} /\ pump'.batch = {} /\ UNCHANGED queue
    <3>1. CASE PumpOnWake
      BY <3>1 DEF PumpOnWake, IdlePump
    <3>2. CASE PumpOnTick
      BY <3>2 DEF PumpOnTick, IdlePump
    <3>3. CASE PumpNextType /\ pump.due = {}
      BY <3>3 DEF PumpNextType, IdlePump
    <3>4. CASE PumpNextType /\ pump.due # {}
      BY <1>0, <3>4 DEF PumpNextType, PumpTidy, PumpStates
    <3> QED BY <1>4, <3>1, <3>2, <3>3, <3>4
  <2>2. Held(s, t)' = {}
    BY <2>1 DEF Held, InPump
  <2> QED BY <1>3, <2>1, <2>2
<1>5. ASSUME UNCHANGED queue, pump'.loading = pump.loading, pump'.batch = pump.batch
      PROVE  Len(queue'[s][t]) + Cardinality(Held(s, t)') <= MaxQueued
  <2>1. Held(s, t)' = Held(s, t)
    BY <1>5 DEF Held, InPump
  <2> QED BY <1>3, <1>5, <2>1
<1>6. ASSUME NEW t1 \in AssetTypes, PumpSnapshot(t1)
      PROVE  Len(queue'[s][t]) + Cardinality(Held(s, t)') <= MaxQueued
  <2>1. UNCHANGED queue /\ pump'.loading = pump.loading /\ pump'.batch = pump.batch
    BY <1>0, <1>6 DEF PumpSnapshot, PumpStates
  <2> QED BY <1>5, <2>1
<1>7. ASSUME NEW s1 \in Sessions, PumpClaim(s1)
      PROVE  Len(queue'[s][t]) + Cardinality(Held(s, t)') <= MaxQueued
  <2>0. UNCHANGED queue /\ pump.loading = {} /\ pump.batch = {}
    BY <1>7 DEF PumpClaim, PumpTidy
  <2>1. CASE pump' = [pump EXCEPT !.visit = @ \ {s1}]
    <3>1. pump'.loading = pump.loading /\ pump'.batch = pump.batch
      BY <1>0, <2>1 DEF PumpStates
    <3> QED BY <1>5, <2>0, <3>1
  <2>2. ASSUME NEW C \in SUBSET Entities, Room(s1, pump.t) > 0,
               BacklogClaim(s1, pump.t, NumOfClaims(s1, pump.t), C),
               pump' = [pump EXCEPT !.pc = "load", !.visit = @ \ {s1},
                                    !.loading = {s1} \X C]
        PROVE  Len(queue'[s][t]) + Cardinality(Held(s, t)') <= MaxQueued
    <3>1. pump'.loading = {s1} \X C /\ pump'.batch = {}
      BY <1>0, <2>0, <2>2 DEF PumpStates
    <3>2. Held(s, t)' = {e \in Entities : TypeOf[e] = t /\ s = s1 /\ e \in C}
      BY <3>1 DEF Held, InPump
    <3>3. C # {} /\ \A e \in C : TypeOf[e] = pump.t
      BY <2>2, ClaimedRows DEF BacklogClaim
    <3>4. pump.t \in AssetTypes
      BY <3>3, BacklogRowsAssumption
    <3>5. CASE s = s1 /\ t = pump.t
      <4>1. Held(s, t)' = C
        BY <3>2, <3>3, <3>5
      <4> QED BY <2>0, <2>2, <3>5, <4>1, ClaimFits
    <3>6. CASE ~(s = s1 /\ t = pump.t)
      <4>1. Held(s, t)' = {}
        BY <3>2, <3>3, <3>6
      <4> QED BY <1>3, <2>0, <4>1
    <3> QED BY <3>5, <3>6
  <2> QED BY <1>7, <2>1, <2>2 DEF PumpClaim
<1>8. ASSUME NEW s1 \in Sessions, NEW e1 \in Entities, PumpLoad(s1, e1)
      PROVE  Len(queue'[s][t]) + Cardinality(Held(s, t)') <= MaxQueued
  <2>1. PICK B \in {pump.batch, pump.batch \cup {<<s1, e1>>}} :
          LET rest == pump.loading \ {<<s1, e1>>} IN
          pump' = [pump EXCEPT !.loading = rest, !.batch = B,
                               !.pc = IF rest # {} THEN "load"
                                      ELSE IF B # {} THEN "append" ELSE "sessions"]
    BY <1>8 DEF PumpLoad
  <2>2. <<s1, e1>> \in pump.loading /\ UNCHANGED queue
    BY <1>8 DEF PumpLoad
  <2>3. pump'.loading = pump.loading \ {<<s1, e1>>} /\ pump'.batch = B
    BY <1>0, <2>1 DEF PumpStates
  <2>4. Held(s, t)' \subseteq Held(s, t)
    BY <2>2, <2>3 DEF Held, InPump
  <2> QED BY <1>3, <2>2, <2>4
<1>9. ASSUME NEW s1 \in Sessions, NEW e1 \in Entities, PumpAppend(s1, e1)
      PROVE  Len(queue'[s][t]) + Cardinality(Held(s, t)') <= MaxQueued
  <2>1. <<s1, e1>> \in pump.batch /\ pump.loading = {} /\ TypeOf[e1] = pump.t
    BY <1>9 DEF PumpAppend, PumpTidy
  <2>2. pump'.batch = pump.batch \ {<<s1, e1>>} /\ pump'.loading = {}
    BY <1>0, <1>9, <2>1 DEF PumpAppend, PumpStates
  <2> DEFINE el == [s |-> s1, e |-> e1, m |-> GetEntry(s1, e1)]
  <2>3. queue' = [queue EXCEPT ![s1][pump.t] = Append(@, el)]
    BY <1>9 DEF PumpAppend
  <2> HIDE DEF el
  <2>4. CASE s = s1 /\ t = pump.t
    <3>1. queue'[s][t] = Append(queue[s][t], el)
      BY <1>0, <2>3, <2>4
    <3>2. Len(queue'[s][t]) = Len(queue[s][t]) + 1
      BY <1>0, <3>1
    <3>3. Held(s, t)' = Held(s, t) \ {e1} /\ e1 \in Held(s, t)
      BY <2>1, <2>2, <2>4 DEF Held, InPump
    <3>4. Cardinality(Held(s, t)') = Cardinality(Held(s, t)) - 1
      BY <1>2, <3>3, FS_RemoveElement
    <3> QED BY <1>0, <1>1, <1>2, <3>2, <3>4
  <2>5. CASE ~(s = s1 /\ t = pump.t)
    <3>1. queue'[s][t] = queue[s][t]
      BY <1>0, <2>3, <2>5
    <3>2. Held(s, t)' = Held(s, t)
      BY <2>1, <2>2, <2>5 DEF Held, InPump
    <3> QED BY <1>1, <3>1, <3>2
  <2> QED BY <2>4, <2>5
<1>10. CASE PumpExit
  <2>1. UNCHANGED queue /\ pump'.loading = pump.loading /\ pump'.batch = pump.batch
    BY <1>0, <1>10 DEF PumpExit, PumpStates
  <2> QED BY <1>5, <2>1
<1> QED BY <1>4, <1>6, <1>7, <1>8, <1>9, <1>10 DEF PumpStep, PumpWork

\* No queue of a pipeline ever grows beyond MaxQueued, whatever the callers,
\* the failures and the number of sessions: pumpOnce asks for at most as many
\* claims as there is room, appends what it claimed before it claims again,
\* and nobody else appends.
THEOREM Bounded == Spec => []QueueBounded
<1> DEFINE IInv == PumpTidy /\ QueueBounded
<1>1. Init => IInv
  <2> SUFFICES ASSUME Init PROVE IInv
    OBVIOUS
  <2>1. pump.loading = {} /\ pump.batch = {}
    BY DEF Init, IdlePump
  <2>2. ASSUME NEW s \in Sessions, NEW t \in AssetTypes
        PROVE  Len(queue[s][t]) + Cardinality(Held(s, t)) <= MaxQueued
    <3>1. Held(s, t) = {}
      BY <2>1 DEF Held, InPump
    <3>2. Len(queue[s][t]) = 0
      BY DEF Init
    <3> QED BY <3>1, <3>2, FS_EmptySet, DispatcherAssumption
  <2> QED BY <2>1, <2>2 DEF PumpTidy, QueueBounded, Held
<1>2. TypeOK /\ IInv /\ [Next]_vars => IInv'
  <2> SUFFICES ASSUME TypeOK, IInv, [Next]_vars PROVE IInv'
    OBVIOUS
  <2>1. CASE PumpStep
    BY <2>1, TidyPump, PumpBounded DEF QueueBounded, Held
  <2>2. CASE ~PumpStep
    <3>1. UNCHANGED pump
      BY <2>2, PumpAlone
    <3>2. ASSUME NEW s \in Sessions, NEW t \in AssetTypes
          PROVE  Len(queue'[s][t]) + Cardinality(Held(s, t)') <= MaxQueued
      <4>1. Held(s, t)' = Held(s, t)
        BY <3>1 DEF Held, InPump
      <4>2. Len(queue'[s][t]) \in Nat /\ Len(queue'[s][t]) <= Len(queue[s][t])
        BY <2>2, QueueShrinks
      <4>3. Len(queue[s][t]) + Cardinality(Held(s, t)) <= MaxQueued
        BY DEF QueueBounded, Held
      <4>4. Len(queue[s][t]) \in Nat /\ Cardinality(Held(s, t)) \in Nat
        BY HeldFinite DEF TypeOK
      <4> QED BY <4>1, <4>2, <4>3, <4>4, DispatcherAssumption
    <3> QED BY <3>1, <3>2 DEF PumpTidy, QueueBounded, Held
  <2> QED BY <2>1, <2>2
<1> QED BY <1>1, <1>2, TypeCorrect, PTL DEF Spec


------------------------------------------------------------------------------
(* What each part of the engine leaves alone.                              *)

LEMMA CallerLeaves ==
  ASSUME NEW c \in Callers, CallerStep(c)
  PROVE  UNCHANGED <<killed, pump, queue, worker, given, cchan, cqueue, comp, traversed,
                     abandoned>>
BY DEF CallerStep, CheckBacklog, InsertMeta, EnqueueRow, UndoMeta, SignalScheduling, Requeue,
       sessVars, slotVars, compVars, histVars

LEMMA PumpLeaves ==
  ASSUME PumpStep
  PROVE  UNCHANGED <<killed, calls, pc, entries, sids, worker, given, cchan, cqueue, comp,
                     traversed, asked, overlapped>>
BY DEF PumpStep, PumpWork, PumpOnWake, PumpOnTick, PumpSnapshot, PumpClaim, PumpNextType,
       PumpLoad, PumpAppend, PumpExit, PumpUnchanged, metaVars, callerVars, sessVars,
       slotVars, compVars

LEMMA PipelineLeaves ==
  ASSUME PipelineStep
  PROVE  UNCHANGED <<killed, calls, pc, entries, sids, pump, cqueue, comp, asked, overlapped>>
BY DEF PipelineStep, PipelineTake, PipelineDrop, PipelineExit, GiveUp, Discard,
       PipelineUnchanged, metaVars, callerVars, sessVars, compVars, histVars

LEMMA CompLeaves ==
  ASSUME CompStep
  PROVE  UNCHANGED <<killed, calls, pc, pump, queue, worker, given, traversed, abandoned,
                     asked, overlapped>>
BY DEF CompStep, CompReceive, CompNext, CompAck, CompDeleteMeta, CompWake, CompExit,
       CompUnchanged, callerVars, sessVars, slotVars

LEMMA OthersLeave ==
  ASSUME UpdStep \/ SessionStep \/ UNCHANGED vars
  PROVE  UNCHANGED <<rows, calls, pc, pump, queue, worker, given, cchan, cqueue, comp,
                     faults, traversed, abandoned, asked, overlapped>>
<1> USE DEF callerVars, slotVars, compVars, histVars
<1>1. CASE UpdStep
  BY <1>1 DEF UpdStep, ListSessions, ListKeys, RemoveInactiveSessions, UpdExit, UpdUnchanged
<1>2. CASE SessionStep
  BY <1>2 DEF SessionStep, AddSession, KillSession, RemoveSession, Shutdown, EnvUnchanged
<1>3. CASE UNCHANGED vars
  BY <1>3 DEF vars
<1> QED BY <1>1, <1>2, <1>3

\* The rows a caller writes.
LEMMA CallerWrites ==
  ASSUME TypeOK, NEW c \in Callers, CallerStep(c)
  PROVE  \/ UNCHANGED rows
         \/ /\ calls[c] # << >> /\ Cur(c).s \in Sessions /\ Cur(c).e \in Entities
            /\ BacklogEnqueue(Cur(c).s, Cur(c).e)
<1>1. UNCHANGED rows \/ (Active(c) /\ BacklogEnqueue(Cur(c).s, Cur(c).e))
  BY DEF CallerStep, CheckBacklog, InsertMeta, EnqueueRow, UndoMeta, SignalScheduling, Requeue
<1> QED BY <1>1, CurType DEF Active

\* What a handler does that ends an element's way: it sends the element, and
\* the slot is vacated or remembers how often that happened.
Sends(w) == PipelineExit(w) \/ GiveUp(w)

LEMMA Sending ==
  ASSUME TypeOK, NEW w \in Workers, Sends(w)
  PROVE  /\ worker[w] \in Element /\ worker[w] # NoElement
         /\ worker[w].s \in Sessions /\ worker[w].e \in Entities
         /\ SendElementOnExit(worker[w]) /\ UNCHANGED <<queue, cqueue, comp, killed, pump>>
         /\ \/ given[w] = 0 /\ Vacate(w)
            \/ given' = [given EXCEPT ![w] = @ + 1] /\ UNCHANGED worker
         /\ traversed \subseteq traversed' /\ abandoned \subseteq abandoned'
         /\ <<worker[w].s, worker[w].e>> \in traversed' \cup abandoned'
<1>1. worker[w] # NoElement /\ worker[w] \in Element
  BY DEF Sends, PipelineExit, GiveUp, TypeOK
<1>2. worker[w].s \in Sessions /\ worker[w].e \in Entities
  BY <1>1 DEF Element
<1> QED BY <1>1, <1>2 DEF Sends, PipelineExit, GiveUp, PipelineUnchanged, compVars, sessVars

\* The element joins cchan, or its row is acked, or the ack fails.
LEMMA SendEnds ==
  ASSUME NEW el, SendElementOnExit(el)
  PROVE  \/ cchan' = Append(cchan, el) /\ UNCHANGED <<rows, faults, kept>>
         \/ /\ UNCHANGED cchan /\ BacklogAck(el.s, el.e)
            /\ kept' = kept \cup Remaining(el.s, el.e)
         \/ UNCHANGED <<cchan, rows, kept>> /\ Fails(el.s)
BY DEF SendElementOnExit, AckOnExit

\* What has passed stays so: no session comes back to life.
LEMMA PassedStays ==
  ASSUME TypeOK, [Next]_vars
  PROVE  killed \subseteq killed' /\ traversed \subseteq traversed'
         /\ abandoned \subseteq abandoned'
<1>1. ASSUME NEW c \in Callers, CallerStep(c)
      PROVE  UNCHANGED <<killed, traversed, abandoned>>
  BY <1>1, CallerLeaves
<1>2. CASE PumpStep
  <2>1. abandoned \subseteq abandoned'
    BY <1>2 DEF PumpStep, PumpWork, PumpOnWake, PumpOnTick, PumpSnapshot, PumpClaim,
                PumpNextType, PumpLoad, PumpAppend, PumpExit, NothingLeft, AckMissing
  <2> QED BY <1>2, <2>1, PumpLeaves
<1>3. CASE PipelineStep
  BY <1>3, Sending, PipelineLeaves
     DEF PipelineStep, PipelineTake, PipelineDrop, Discard, Sends, histVars
<1>4. CASE CompStep
  BY <1>4, CompLeaves
<1>5. CASE UpdStep \/ SessionStep \/ UNCHANGED vars
  <2>1. killed \subseteq killed'
    BY <1>5 DEF UpdStep, ListSessions, ListKeys, RemoveInactiveSessions, UpdExit,
                UpdUnchanged, SessionStep, AddSession, KillSession, RemoveSession, Shutdown,
                sessVars, vars
  <2> QED BY <1>5, <2>1, OthersLeave
<1> QED BY <1>1, <1>2, <1>3, <1>4, <1>5 DEF Next

\* Whoever is neither a pipeline nor the completion loop leaves the way from
\* the exits to the acks alone.
LEMMA AckWayAlone ==
  ASSUME [Next]_vars, ~PipelineStep, ~CompStep
  PROVE  UNCHANGED <<cchan, cqueue, comp>>
BY CallerLeaves, PumpLeaves, OthersLeave DEF Next

\* Whoever is neither the pump nor a pipeline leaves the pipelines alone.
LEMMA PipesAlone ==
  ASSUME [Next]_vars, ~PumpStep, ~PipelineStep
  PROVE  UNCHANGED <<queue, worker, given>>
BY CallerLeaves, CompLeaves, OthersLeave DEF Next

\* A step has at most one failure, and failures are never forgotten.
LEMMA FaultsGrow ==
  ASSUME TypeOK, CompHolds, [Next]_vars
  PROVE  faults \in Nat /\ faults' \in {faults, faults + 1}
<1> DEFINE Counted == UNCHANGED faults \/ faults' = faults + 1
<1>1. ASSUME NEW s, Works(s) \/ Fails(s) PROVE Counted
  BY <1>1 DEF Works, Fails
<1>2. ASSUME NEW c \in Callers, CallerStep(c) PROVE Counted
  <2>1. UNCHANGED faults \/ Works(Cur(c).s) \/ Fails(Cur(c).s)
    BY <1>2 DEF CallerStep, CheckBacklog, BacklogHas, InsertMeta, EnqueueRow,
                BacklogEnqueue, UndoMeta, SignalScheduling, Requeue
  <2> QED BY <1>1, <2>1
<1>3. ASSUME PumpStep PROVE Counted
  <2>1. UNCHANGED faults \/ \E s \in Sessions : Works(s) \/ Fails(s)
    <3>1. ASSUME NEW t \in AssetTypes, PumpSnapshot(t)
          PROVE  UNCHANGED faults \/ \E s \in Sessions : Works(s) \/ Fails(s)
      BY <3>1 DEF PumpSnapshot, TypeOK
    <3>2. ASSUME NEW s \in Sessions, PumpClaim(s)
          PROVE  UNCHANGED faults \/ Works(s) \/ Fails(s)
      BY <3>2 DEF PumpClaim, BacklogClaim
    <3>3. ASSUME NEW s \in Sessions, NEW e \in Entities, PumpLoad(s, e)
          PROVE  Works(s) \/ Fails(s)
      BY <3>3 DEF PumpLoad, FindEntity, AckMissing
    <3> QED BY <1>3, <3>1, <3>2, <3>3
            DEF PumpStep, PumpWork, PumpOnWake, PumpOnTick, PumpNextType, PumpAppend,
                PumpExit
  <2> QED BY <1>1, <2>1
<1>4. ASSUME PipelineStep PROVE Counted
  <2>1. ASSUME NEW w \in Workers, Sends(w) PROVE Counted
    <3>1. UNCHANGED faults \/ Works(worker[w].s) \/ Fails(worker[w].s)
      BY <2>1, Sending, SendEnds DEF BacklogAck
    <3> QED BY <1>1, <3>1
  <2> QED BY <1>4, <2>1 DEF PipelineStep, PipelineTake, PipelineDrop, Discard, Sends
<1>5. ASSUME CompStep PROVE Counted
  <2>1. UNCHANGED faults \/ Works(comp.el.s) \/ Fails(comp.el.s)
    BY <1>5 DEF CompStep, CompReceive, CompNext, CompAck, BacklogAck, CompDeleteMeta,
                CompWake, CompExit, CompUnchanged
  <2> QED BY <1>1, <2>1
<1>6. ASSUME UpdStep \/ SessionStep \/ UNCHANGED vars PROVE Counted
  BY <1>6, OthersLeave
<1>7. Counted
  BY <1>2, <1>3, <1>4, <1>5, <1>6 DEF Next
<1> QED BY <1>7, DispatcherAssumption DEF TypeOK


------------------------------------------------------------------------------
(* Every element in the pump or in a pipeline has a row, and is in the     *)
(* pipeline of its session and its asset type.                             *)

InPlace(r, el, s, t) == el.s = s /\ TypeOf[el.e] = t /\ Has(r[s], el.e)

Placed ==
  /\ \A s \in Sessions, t \in AssetTypes :
       \A i \in 1 .. Len(queue[s][t]) : InPlace(rows, queue[s][t][i], s, t)
  /\ \A s \in Sessions, t \in AssetTypes, k \in 1 .. PipeDepth :
       worker[<<s, t, k>>] # NoElement => InPlace(rows, worker[<<s, t, k>>], s, t)
  /\ \A s \in Sessions, e \in Entities : InPump(s, e) => Has(rows[s], e)

\* Nothing has been given up in an empty slot.
Vacant == \A w \in Workers : worker[w] = NoElement => given[w] = 0

\* The operations of the backlogs are the only steps that touch a row.
LEMMA RowsMoved ==
  ASSUME TypeOK, CompHolds, [Next]_vars
  PROVE  \/ UNCHANGED rows
         \/ \E s \in Sessions, e \in Entities :
              BacklogEnqueue(s, e) \/ BacklogAck(s, e) \/ AckMissing(s, e)
         \/ \E s \in Sessions, t \in AssetTypes : \E n, C : BacklogClaim(s, t, n, C)
<1>1. ASSUME NEW c \in Callers, CallerStep(c)
      PROVE  \/ UNCHANGED rows
             \/ \E s \in Sessions, e \in Entities : BacklogEnqueue(s, e)
  BY <1>1, CallerWrites
<1>2. ASSUME NEW s \in Sessions, PumpClaim(s)
      PROVE  UNCHANGED rows \/ \E t \in AssetTypes : \E n, C : BacklogClaim(s, t, n, C)
  <2>1. ASSUME NEW C, BacklogClaim(s, pump.t, NumOfClaims(s, pump.t), C)
        PROVE  pump.t \in AssetTypes
    BY <2>1, ClaimedRows, BacklogRowsAssumption DEF BacklogClaim
  <2> QED BY <1>2, <2>1 DEF PumpClaim
<1>3. CASE PumpStep
  <2>1. ASSUME NEW s \in Sessions, NEW e \in Entities, PumpLoad(s, e)
        PROVE  UNCHANGED rows \/ AckMissing(s, e)
    BY <2>1 DEF PumpLoad, FindEntity
  <2> QED BY <1>2, <1>3, <2>1
          DEF PumpStep, PumpWork, PumpOnWake, PumpOnTick, PumpSnapshot, PumpNextType,
              PumpAppend, PumpExit
<1>4. CASE PipelineStep
  <2>1. ASSUME NEW w \in Workers, Sends(w)
        PROVE  UNCHANGED rows \/ \E s \in Sessions, e \in Entities : BacklogAck(s, e)
    BY <2>1, Sending, SendEnds
  <2> QED BY <1>4, <2>1 DEF PipelineStep, PipelineTake, PipelineDrop, Discard, Sends
<1>5. CASE CompStep
  <2>1. CASE CompAck
    <3>1. comp.el.s \in Sessions /\ comp.el.e \in Entities
      BY <2>1 DEF CompAck, CompHolds, Element
    <3> QED BY <2>1, <3>1 DEF CompAck
  <2> QED BY <1>5, <2>1 DEF CompStep, CompReceive, CompNext, CompDeleteMeta, CompWake,
                            CompExit
<1>6. CASE UpdStep \/ SessionStep \/ UNCHANGED vars
  BY <1>6, OthersLeave
<1> QED BY <1>1, <1>3, <1>4, <1>5, <1>6 DEF Next

\* A claim is of rows that exist, and changes their state.
LEMMA ClaimSound ==
  ASSUME TypeOK, NEW s \in Sessions, NEW t \in AssetTypes, NEW n, NEW C,
         BacklogClaim(s, t, n, C)
  PROVE  /\ C \in SUBSET Entities
         /\ \A x \in C : /\ RowIs(s, x, "queued") /\ TypeOf[x] = t
                         /\ InState(rows'[s], x, "leased")
         /\ \A x \in Entities \ C : rows'[s][x] = rows[s][x]
         /\ \A x \in Entities : Has(rows'[s], x) <=> Has(rows[s], x)
<1>1. C \in ClaimSets(rows[s], t, n, LeaseTTL, Now) /\ rows[s] \in Tables
      /\ rows' = [rows EXCEPT ![s] = Lease(rows[s], C, <<s, t>>, LeaseTTL, Now)]
      /\ rows'[s] = Lease(rows[s], C, <<s, t>>, LeaseTTL, Now)
  BY DEF BacklogClaim, TypeOK
<1>2. C \in SUBSET Entities /\ \A x \in C : rows[s][x] # NoRow /\ TypeOf[x] = t
  BY <1>1, ClaimedRows
<1>3. \A x \in C : RowIs(s, x, "queued")
  BY <1>1 DEF ClaimSets, Eligible, Select, LeaseTTL, RowIs
<1>4. <<s, t>> \in Owners /\ LeaseTTL \in Nat /\ Now \in Nat
  BY DispatcherAssumption DEF LeaseTTL, Now
<1>5. \A x \in C : InState(rows'[s], x, "leased")
  BY <1>1, <1>2, <1>4, LeasedRow DEF InState
<1>6. \A x \in Entities \ C : rows'[s][x] = rows[s][x]
  BY <1>1 DEF Lease
<1>7. \A x \in Entities : Has(rows'[s], x) <=> Has(rows[s], x)
  BY <1>1, <1>2, <1>4, LeaseHas
<1> QED BY <1>1, <1>2, <1>3, <1>5, <1>6, <1>7

\* No row is ever removed from a session's backlog.
LEMMA RowsStay ==
  ASSUME TypeOK, CompHolds, [Next]_vars,
         NEW x \in Sessions, NEW y \in Entities, Has(rows[x], y)
  PROVE  Has(rows'[x], y)
<1>0. rows \in [Sessions -> Tables] /\ Now \in Nat
  BY DEF TypeOK, Now
<1>1. ASSUME NEW s \in Sessions, NEW e \in Entities, BacklogEnqueue(s, e)
      PROVE  Has(rows'[x], y)
  <2>1. Has(Enqueue(rows[s], e, Now), y) <=> (y = e \/ Has(rows[s], y))
    BY <1>0, UpsertHas DEF Enqueue, States
  <2> QED BY <1>0, <1>1, <2>1 DEF BacklogEnqueue
<1>2. ASSUME NEW s \in Sessions, NEW e \in Entities, NEW o,
             rows' = [rows EXCEPT ![s] = Ack(rows[s], e, o)]
      PROVE  Has(rows'[x], y)
  <2>1. Has(Ack(rows[s], e, o), y) <=> Has(rows[s], y)
    BY <1>0, AckHas
  <2> QED BY <1>0, <1>2, <2>1
<1>3. ASSUME NEW s \in Sessions, NEW t \in AssetTypes, NEW n, NEW C,
             BacklogClaim(s, t, n, C)
      PROVE  Has(rows'[x], y)
  <2>1. CASE x = s
    BY <1>3, <2>1, ClaimSound
  <2>2. CASE x # s
    BY <1>0, <1>3, <2>2 DEF BacklogClaim
  <2> QED BY <2>1, <2>2
<1>4. CASE UNCHANGED rows
  BY <1>4
<1> QED BY <1>1, <1>2, <1>3, <1>4, RowsMoved DEF BacklogAck, AckMissing

\* What a step of the pump does to its claims, to the rows and to the queues:
\* nothing; it claims rows, all that it holds then; it gives up a claim whose
\* entity it cannot load; or it appends one to the queue of its pipeline.
PumpQuiet ==
  /\ UNCHANGED <<rows, queue>> /\ NothingLeft
  /\ \A x \in Sessions, y \in Entities : InPump(x, y)' <=> InPump(x, y)

PumpClaims(s, t, n, C) ==
  /\ BacklogClaim(s, t, n, C) /\ UNCHANGED queue /\ NothingLeft
  /\ \A x \in Sessions, y \in Entities :
       ~InPump(x, y) /\ (InPump(x, y)' <=> (x = s /\ y \in C))

OthersInPump(s, e) ==
  /\ InPump(s, e)
  /\ \A x \in Sessions, y \in Entities :
       /\ InPump(x, y)' => InPump(x, y)
       /\ InPump(x, y) /\ ~(x = s /\ y = e) => InPump(x, y)'

PumpMisses(s, e) == AckMissing(s, e) /\ UNCHANGED queue /\ OthersInPump(s, e)

PumpAppends(s, e) ==
  /\ queue' = [queue EXCEPT ![s][TypeOf[e]] =
                 Append(@, [s |-> s, e |-> e, m |-> GetEntry(s, e)])]
  /\ UNCHANGED <<rows, faults>> /\ NothingLeft /\ OthersInPump(s, e) /\ ~InPump(s, e)'

LEMMA PumpMoves ==
  ASSUME TypeOK, PumpTidy, PumpStep
  PROVE  \/ PumpQuiet
         \/ \E s \in Sessions, t \in AssetTypes : \E n, C : PumpClaims(s, t, n, C)
         \/ \E s \in Sessions, e \in Entities : PumpMisses(s, e) \/ PumpAppends(s, e)
<1>0. pump \in PumpStates
  BY DEF TypeOK
<1>1. ASSUME UNCHANGED <<rows, queue>>, NothingLeft, pump'.loading = pump.loading,
             pump'.batch = pump.batch
      PROVE  PumpQuiet
  BY <1>1 DEF PumpQuiet, InPump
<1>2. CASE PumpOnWake \/ PumpOnTick \/ PumpNextType
  <2>1. pump.loading = {} /\ pump.batch = {}
    BY <1>2 DEF PumpOnWake, PumpOnTick, PumpNextType, PumpTidy
  <2>2. pump'.loading = {} /\ pump'.batch = {}
    <3>1. CASE PumpOnWake
      BY <3>1 DEF PumpOnWake, IdlePump
    <3>2. CASE PumpOnTick
      BY <3>2 DEF PumpOnTick, IdlePump
    <3>3. CASE PumpNextType /\ pump.due = {}
      BY <3>3 DEF PumpNextType, IdlePump
    <3>4. CASE PumpNextType /\ pump.due # {}
      BY <1>0, <2>1, <3>4 DEF PumpNextType, PumpStates
    <3> QED BY <1>2, <3>1, <3>2, <3>3, <3>4
  <2> QED BY <1>1, <1>2, <2>1, <2>2 DEF PumpOnWake, PumpOnTick, PumpNextType
<1>3. ASSUME NEW t \in AssetTypes, PumpSnapshot(t) PROVE PumpQuiet
  BY <1>0, <1>1, <1>3 DEF PumpSnapshot, PumpStates
<1>4. CASE PumpExit
  BY <1>0, <1>1, <1>4 DEF PumpExit, PumpStates
<1>5. ASSUME NEW s \in Sessions, PumpClaim(s)
      PROVE  PumpQuiet \/ \E t \in AssetTypes : \E n, C : PumpClaims(s, t, n, C)
  <2>0. UNCHANGED queue /\ NothingLeft /\ pump.loading = {} /\ pump.batch = {}
    BY <1>5 DEF PumpClaim, PumpTidy
  <2>1. CASE UNCHANGED rows /\ pump' = [pump EXCEPT !.visit = @ \ {s}]
    BY <1>0, <1>1, <2>0, <2>1 DEF PumpStates
  <2>2. ASSUME NEW C \in SUBSET Entities,
               BacklogClaim(s, pump.t, NumOfClaims(s, pump.t), C),
               pump' = [pump EXCEPT !.pc = "load", !.visit = @ \ {s},
                                    !.loading = {s} \X C]
        PROVE  \E t \in AssetTypes : \E n, D : PumpClaims(s, t, n, D)
    <3>1. pump'.loading = {s} \X C /\ pump'.batch = {}
      BY <1>0, <2>0, <2>2 DEF PumpStates
    <3>2. \A x \in Sessions, y \in Entities :
            ~InPump(x, y) /\ (InPump(x, y)' <=> (x = s /\ y \in C))
      BY <2>0, <3>1 DEF InPump
    <3>3. pump.t \in AssetTypes
      BY <2>2, ClaimedRows, BacklogRowsAssumption DEF BacklogClaim
    <3>4. PumpClaims(s, pump.t, NumOfClaims(s, pump.t), C)
      BY <2>0, <2>2, <3>2 DEF PumpClaims
    <3> QED BY <3>3, <3>4
  <2> QED BY <1>5, <2>1, <2>2 DEF PumpClaim
<1>6. ASSUME NEW s \in Sessions, NEW e \in Entities, PumpLoad(s, e)
      PROVE  PumpQuiet \/ PumpMisses(s, e)
  <2>0. <<s, e>> \in pump.loading /\ UNCHANGED queue
    BY <1>6 DEF PumpLoad
  <2> DEFINE rest == pump.loading \ {<<s, e>>}
             Loaded(batch) ==
               [pump EXCEPT !.loading = rest, !.batch = batch,
                            !.pc = IF rest # {} THEN "load"
                                   ELSE IF batch # {} THEN "append" ELSE "sessions"]
  <2>1. CASE FindEntity(s) /\ NothingLeft /\ pump' = Loaded(pump.batch \cup {<<s, e>>})
    <3>1. pump'.loading = rest /\ pump'.batch = pump.batch \cup {<<s, e>>}
      BY <1>0, <2>1 DEF PumpStates
    <3>2. pump'.loading \cup pump'.batch = pump.loading \cup pump.batch
      BY <2>0, <3>1
    <3> QED BY <2>0, <2>1, <3>2 DEF PumpQuiet, InPump, FindEntity
  <2>2. CASE AckMissing(s, e) /\ pump' = Loaded(pump.batch)
    <3>1. pump'.loading = rest /\ pump'.batch = pump.batch
      BY <1>0, <2>2 DEF PumpStates
    <3> QED BY <2>0, <2>2, <3>1 DEF PumpMisses, OthersInPump, InPump
  <2> QED BY <1>6, <2>1, <2>2 DEF PumpLoad
<1>7. ASSUME NEW s \in Sessions, NEW e \in Entities, PumpAppend(s, e)
      PROVE  PumpAppends(s, e)
  <2>1. <<s, e>> \in pump.batch /\ TypeOf[e] = pump.t
    BY <1>7 DEF PumpAppend, PumpTidy
  <2>2. pump'.batch = pump.batch \ {<<s, e>>} /\ pump'.loading = pump.loading
        /\ pump.loading = {}
    BY <1>0, <1>7 DEF PumpAppend, PumpStates, PumpTidy
  <2>3. OthersInPump(s, e) /\ ~InPump(s, e)'
    BY <2>1, <2>2 DEF OthersInPump, InPump
  <2> QED BY <1>7, <2>1, <2>3 DEF PumpAppend, PumpAppends
<1> QED BY <1>2, <1>3, <1>4, <1>5, <1>6, <1>7 DEF PumpStep, PumpWork

LEMMA StepPlaced ==
  ASSUME TypeOK, CompHolds, PumpTidy, Placed, [Next]_vars
  PROVE  Placed'
<1>0. /\ queue \in [Sessions -> [AssetTypes -> Seq(Element)]]
      /\ worker \in [Workers -> Element \cup {NoElement}]
  BY DEF TypeOK
<1>1. ASSUME NEW s \in Sessions, NEW t \in AssetTypes, NEW el \in Element,
             InPlace(rows, el, s, t)
      PROVE  InPlace(rows', el, s, t)
  BY <1>1, RowsStay DEF InPlace, Element
<1>2. ASSUME NEW s \in Sessions, NEW t \in AssetTypes, NEW i \in 1 .. Len(queue[s][t])
      PROVE  queue[s][t][i] \in Element /\ InPlace(rows', queue[s][t][i], s, t)
  BY <1>0, <1>1, <1>2 DEF Placed
<1>3. ASSUME NEW s \in Sessions, NEW t \in AssetTypes, NEW k \in 1 .. PipeDepth,
             worker[<<s, t, k>>] # NoElement
      PROVE  InPlace(rows', worker[<<s, t, k>>], s, t)
  BY <1>0, <1>1, <1>3 DEF Placed, Workers
<1>4. ASSUME NEW s \in Sessions, NEW e \in Entities, InPump(s, e)
      PROVE  Has(rows'[s], e)
  BY <1>4, RowsStay DEF Placed
<1>5. CASE UNCHANGED <<queue, worker>> /\ \A s \in Sessions, e \in Entities :
                                            InPump(s, e)' => Has(rows'[s], e)
  BY <1>2, <1>3, <1>5 DEF Placed
<1>6. CASE PumpStep
  <2>0. UNCHANGED worker
    BY <1>6, PumpLeaves
  <2>1. CASE PumpQuiet
    BY <1>4, <1>5, <2>0, <2>1 DEF PumpQuiet
  <2>2. ASSUME NEW s \in Sessions, NEW t \in AssetTypes, NEW n, NEW C,
               PumpClaims(s, t, n, C)
        PROVE  Placed'
    <3>0. \A y \in C : InState(rows'[s], y, "leased")
      BY <2>2, ClaimSound DEF PumpClaims
    <3>1. \A y \in C : Has(rows'[s], y)
      BY <3>0 DEF InState, Has
    <3> QED BY <1>5, <2>0, <2>2, <3>1 DEF PumpClaims
  <2>3. ASSUME NEW s \in Sessions, NEW e \in Entities, PumpMisses(s, e) PROVE Placed'
    BY <1>4, <1>5, <2>0, <2>3 DEF PumpMisses, OthersInPump
  <2>4. ASSUME NEW s \in Sessions, NEW e \in Entities, PumpAppends(s, e) PROVE Placed'
    <3> DEFINE el == [s |-> s, e |-> e, m |-> GetEntry(s, e)]
               u == TypeOf[e]
    <3>1. u \in AssetTypes /\ queue[s][u] \in Seq(Element)
      BY <1>0, BacklogRowsAssumption
    <3>2. el \in Element /\ el.s = s /\ el.e = e
      BY DEF GetEntry, TypeOK, Element
    <3>3. InPlace(rows', el, s, u)
      BY <1>4, <2>4, <3>2 DEF PumpAppends, OthersInPump, InPlace
    <3>4. queue' = [queue EXCEPT ![s][u] = Append(@, el)]
      BY <2>4 DEF PumpAppends
    <3> HIDE DEF el, u
    <3>5. ASSUME NEW x \in Sessions, NEW t \in AssetTypes, NEW i \in 1 .. Len(queue'[x][t])
          PROVE  InPlace(rows', queue'[x][t][i], x, t)
      <4>1. CASE x = s /\ t = u
        <5>1. queue'[x][t] = Append(queue[x][t], el)
          BY <1>0, <3>4, <4>1
        <5>2. queue'[x][t][i] = el \/ (i \in 1 .. Len(queue[x][t])
                                       /\ queue'[x][t][i] = queue[x][t][i])
          BY <3>1, <3>2, <4>1, <5>1
        <5> QED BY <1>2, <3>3, <4>1, <5>2
      <4>2. CASE ~(x = s /\ t = u)
        <5>1. queue'[x][t] = queue[x][t]
          BY <1>0, <3>4, <4>2
        <5> QED BY <1>2, <5>1
      <4> QED BY <4>1, <4>2
    <3>6. \A x \in Sessions, y \in Entities : InPump(x, y)' => Has(rows'[x], y)
      BY <1>4, <2>4 DEF PumpAppends, OthersInPump
    <3>7. \A x \in Sessions, t \in AssetTypes, k \in 1 .. PipeDepth :
            worker'[<<x, t, k>>] # NoElement => InPlace(rows', worker'[<<x, t, k>>], x, t)
      BY <1>3, <2>0
    <3> QED BY <3>5, <3>6, <3>7 DEF Placed
  <2> QED BY <1>6, <2>1, <2>2, <2>3, <2>4, PumpMoves
<1>7. ASSUME ~PumpStep PROVE \A s \in Sessions, e \in Entities : InPump(s, e)' => Has(rows'[s], e)
  <2>1. UNCHANGED pump
    BY <1>7, PumpAlone
  <2> QED BY <1>4, <2>1 DEF InPump
<1>8. ASSUME NEW s \in Sessions, NEW t \in AssetTypes, NEW k \in 1 .. PipeDepth,
             PipelineTake(s, t, k), ~PumpStep
      PROVE  Placed'
  <2>1. /\ queue[s][t] # << >> /\ queue[s][t] \in Seq(Element)
        /\ worker' = [worker EXCEPT ![<<s, t, k>>] = Head(queue[s][t])]
        /\ queue' = [queue EXCEPT ![s][t] = Tail(@)]
    BY <1>0, <1>8 DEF PipelineTake
  <2>2. Head(queue[s][t]) = queue[s][t][1] /\ 1 \in 1 .. Len(queue[s][t])
    BY <2>1
  <2>3. ASSUME NEW x \in Sessions, NEW u \in AssetTypes, NEW i \in 1 .. Len(queue'[x][u])
        PROVE  InPlace(rows', queue'[x][u][i], x, u)
    <3>1. CASE x = s /\ u = t
      <4>1. queue'[x][u] = Tail(queue[s][t])
        BY <1>0, <2>1, <3>1
      <4>2. i \in 1 .. Len(Tail(queue[s][t]))
        BY <4>1
      <4>3. i + 1 \in 1 .. Len(queue[s][t]) /\ Tail(queue[s][t])[i] = queue[s][t][i + 1]
        BY <2>1, <4>2
      <4> QED BY <1>2, <3>1, <4>1, <4>3
    <3>2. CASE ~(x = s /\ u = t)
      <4>1. queue'[x][u] = queue[x][u]
        BY <1>0, <2>1, <3>2
      <4> QED BY <1>2, <4>1
    <3> QED BY <3>1, <3>2
  <2>4. ASSUME NEW x \in Sessions, NEW u \in AssetTypes, NEW j \in 1 .. PipeDepth,
               worker'[<<x, u, j>>] # NoElement
        PROVE  InPlace(rows', worker'[<<x, u, j>>], x, u)
    <3>1. CASE x = s /\ u = t /\ j = k
      BY <1>0, <1>2, <2>1, <2>2, <3>1 DEF Workers
    <3>2. CASE ~(x = s /\ u = t /\ j = k)
      <4>1. worker'[<<x, u, j>>] = worker[<<x, u, j>>]
        BY <1>0, <2>1, <3>2 DEF Workers
      <4> QED BY <1>3, <2>4, <4>1
    <3> QED BY <3>1, <3>2
  <2> QED BY <1>7, <1>8, <2>3, <2>4 DEF Placed
<1>9. ASSUME NEW s \in Sessions, NEW t \in AssetTypes, PipelineDrop(s, t), ~PumpStep
      PROVE  Placed'
  <2>1. queue' = [queue EXCEPT ![s][t] = << >>] /\ UNCHANGED worker
    BY <1>9 DEF PipelineDrop, slotVars
  <2>2. \A x \in Sessions, u \in AssetTypes :
          queue'[x][u] = queue[x][u] \/ Len(queue'[x][u]) = 0
    BY <1>0, <2>1
  <2>3. \A x \in Sessions, u \in AssetTypes : \A i \in 1 .. Len(queue'[x][u]) :
          InPlace(rows', queue'[x][u][i], x, u)
    BY <1>2, <2>2
  <2> QED BY <1>3, <1>7, <1>9, <2>1, <2>3 DEF Placed
<1>10. ASSUME NEW w \in Workers, Sends(w) \/ Discard(w), ~PumpStep PROVE Placed'
  <2>1. (worker' = [worker EXCEPT ![w] = NoElement] \/ UNCHANGED worker) /\ UNCHANGED queue
    BY <1>10, Sending DEF Discard, Vacate, PipelineUnchanged
  <2>2. \A x \in Sessions, u \in AssetTypes, j \in 1 .. PipeDepth :
          worker'[<<x, u, j>>] # NoElement => InPlace(rows', worker'[<<x, u, j>>], x, u)
    BY <1>0, <1>3, <2>1 DEF Workers
  <2>3. \A x \in Sessions, u \in AssetTypes : \A i \in 1 .. Len(queue'[x][u]) :
          InPlace(rows', queue'[x][u][i], x, u)
    BY <1>2, <2>1
  <2> QED BY <1>7, <1>10, <2>2, <2>3 DEF Placed
<1>11. CASE ~PumpStep /\ ~PipelineStep
  BY <1>5, <1>7, <1>11, PipesAlone
<1> QED BY <1>6, <1>8, <1>9, <1>10, <1>11 DEF PipelineStep, Sends

LEMMA StepVacant ==
  ASSUME TypeOK, Vacant, [Next]_vars
  PROVE  Vacant'
<1>0. /\ worker \in [Workers -> Element \cup {NoElement}] /\ given \in [Workers -> 0 .. Peers]
  BY DEF TypeOK
<1>1. CASE UNCHANGED <<worker, given>>
  BY <1>1 DEF Vacant
<1>2. ASSUME NEW w \in Workers, Vacate(w) PROVE Vacant'
  BY <1>0, <1>2 DEF Vacant, Vacate
<1>3. ASSUME NEW w \in Workers, worker[w] # NoElement, UNCHANGED worker,
             given' = [given EXCEPT ![w] = @ + 1]
      PROVE  Vacant'
  BY <1>0, <1>3 DEF Vacant
<1>4. ASSUME NEW s \in Sessions, NEW t \in AssetTypes, NEW k \in 1 .. PipeDepth,
             PipelineTake(s, t, k)
      PROVE  Vacant'
  <2>1. worker[<<s, t, k>>] = NoElement /\ UNCHANGED given
        /\ \E el : worker' = [worker EXCEPT ![<<s, t, k>>] = el]
    BY <1>4 DEF PipelineTake
  <2> QED BY <1>0, <2>1 DEF Vacant
<1>5. CASE PipelineStep
  <2>1. ASSUME NEW w \in Workers, Sends(w) PROVE Vacant'
    BY <1>2, <1>3, <2>1, Sending
  <2>2. ASSUME NEW w \in Workers, Discard(w) PROVE Vacant'
    BY <1>2, <2>2 DEF Discard
  <2> QED BY <1>1, <1>4, <1>5, <2>1, <2>2 DEF PipelineStep, PipelineDrop, Sends, slotVars
<1>6. CASE ~PipelineStep
  BY <1>1, <1>6, PumpLeaves, PipesAlone
<1> QED BY <1>5, <1>6

------------------------------------------------------------------------------
(* Leases and what is in flight.                                           *)

LEMMA InAppend ==
  ASSUME NEW q \in Seq(Element), NEW el \in Element, NEW s, NEW e
  PROVE  InSeq(Append(q, el), s, e) <=> (InSeq(q, s, e) \/ (el.s = s /\ el.e = e))
<1> DEFINE r == Append(q, el)
<1>1. /\ Len(r) = Len(q) + 1 /\ Len(q) \in Nat /\ r[Len(q) + 1] = el
      /\ \A i \in 1 .. Len(q) : r[i] = q[i]
  OBVIOUS
<1> HIDE DEF r
<1>2. ASSUME NEW i \in 1 .. Len(r), r[i].s = s, r[i].e = e
      PROVE  InSeq(q, s, e) \/ (el.s = s /\ el.e = e)
  <2>1. i = Len(q) + 1 \/ i \in 1 .. Len(q)
    BY <1>1
  <2> QED BY <1>1, <1>2, <2>1 DEF InSeq
<1>3. InSeq(q, s, e) => InSeq(r, s, e)
  BY <1>1 DEF InSeq
<1>4. el.s = s /\ el.e = e => InSeq(r, s, e)
  <2>1. Len(q) + 1 \in 1 .. Len(r)
    BY <1>1
  <2> QED BY <1>1, <2>1 DEF InSeq
<1> QED BY <1>2, <1>3, <1>4 DEF InSeq, r

LEMMA InHeadTail ==
  ASSUME NEW q \in Seq(Element), q # << >>, NEW s, NEW e, InSeq(q, s, e)
  PROVE  (Head(q).s = s /\ Head(q).e = e) \/ InSeq(Tail(q), s, e)
<1>1. PICK i \in 1 .. Len(q) : q[i].s = s /\ q[i].e = e
  BY DEF InSeq
<1>2. CASE i = 1
  BY <1>1, <1>2
<1>3. CASE i # 1
  <2>1. i - 1 \in 1 .. Len(Tail(q)) /\ Tail(q)[i - 1] = q[i]
    BY <1>3
  <2> QED BY <1>1, <2>1 DEF InSeq
<1> QED BY <1>2, <1>3

\* The leases of a live session that nobody works on.
Lost == {i \in Sessions \X Entities :
           /\ i[1] \notin killed
           /\ RowIs(i[1], i[2], "leased") /\ ~InFlight(i[1], i[2])}

\* The step loses no lease on e: what was in flight still is, or is settled,
\* and a new lease is in flight.
Safe(s, e) ==
  /\ InFlight(s, e) =>
       InFlight(s, e)' \/ s \in killed' \/ ~InState(rows'[s], e, "leased")
  /\ InState(rows'[s], e, "leased") => RowIs(s, e, "leased") \/ InFlight(s, e)'

LEMMA LostIfUnsafe ==
  ASSUME killed \subseteq killed', NEW i \in Lost', Safe(i[1], i[2])
  PROVE  i \in Lost
<1>1. /\ i \in Sessions \X Entities /\ i[1] \notin killed'
      /\ InState(rows'[i[1]], i[2], "leased") /\ ~InFlight(i[1], i[2])'
  BY DEF Lost, RowIs
<1>2. RowIs(i[1], i[2], "leased") /\ ~InFlight(i[1], i[2])
  BY <1>1 DEF Safe
<1> QED BY <1>1, <1>2 DEF Lost

\* Only a claim leases rows, and an ack without an owner ends the lease.
LEMMA WritesEndLeases ==
  ASSUME TypeOK, NEW s \in Sessions, NEW e \in Entities,
         BacklogEnqueue(s, e) \/ BacklogAck(s, e) \/ AckMissing(s, e),
         NEW x \in Sessions, NEW y \in Entities
  PROVE  /\ InState(rows'[x], y, "leased") => RowIs(x, y, "leased")
         /\ BacklogAck(s, e) => ~InState(rows'[s], e, "leased")
<1>0. rows \in [Sessions -> Tables]
  BY DEF TypeOK
<1>1. CASE BacklogEnqueue(s, e) /\ ~BacklogAck(s, e)
  <2>1. rows' = [rows EXCEPT ![s] = Enqueue(rows[s], e, Now)]
    BY <1>1 DEF BacklogEnqueue
  <2>2. /\ y # e => Enqueue(rows[s], e, Now)[y] = rows[s][y]
        /\ y = e => Enqueue(rows[s], e, Now)[y].state = "queued"
    BY <1>0, UpsertRow DEF Enqueue
  <2> QED BY <1>0, <1>1, <2>1, <2>2 DEF InState, RowIs
<1>2. CASE BacklogAck(s, e)
  <2>1. rows' = [rows EXCEPT ![s] = Ack(rows[s], e, NoOwner)]
    BY <1>2 DEF BacklogAck
  <2>2. /\ y # e => Ack(rows[s], e, NoOwner)[y] = rows[s][y]
        /\ ~InState(Ack(rows[s], e, NoOwner), e, "leased")
    BY <1>0, AckAnyRow
  <2> QED BY <1>0, <2>1, <2>2 DEF InState, RowIs
<1>3. CASE AckMissing(s, e) /\ ~BacklogAck(s, e)
  <2> DEFINE o == <<s, TypeOf[e]>>
  <2>1. CASE UNCHANGED rows
    BY <1>3, <2>1 DEF RowIs
  <2>2. CASE rows' = [rows EXCEPT ![s] = Ack(rows[s], e, o)]
    <3>1. \/ Ack(rows[s], e, o)[y] = rows[s][y]
          \/ Ack(rows[s], e, o)[y].state = "done"
      BY <1>0, AckRow
    <3> QED BY <1>0, <1>3, <2>2, <3>1 DEF InState, RowIs
  <2> QED BY <1>3, <2>1, <2>2 DEF AckMissing
<1> QED BY <1>1, <1>2, <1>3

\* At most one asset of a step is not safe, and only if the step fails.
AtMostOneUnsafe ==
  \/ \A x \in Sessions, y \in Entities : Safe(x, y)
  \/ /\ faults' = faults + 1
     /\ \E s, e : \A x \in Sessions, y \in Entities : Safe(x, y) \/ (x = s /\ y = e)

LEMMA SafePump ==
  ASSUME TypeOK, PumpTidy, PumpStep
  PROVE  AtMostOneUnsafe
<1>0. queue \in [Sessions -> [AssetTypes -> Seq(Element)]] /\ rows \in [Sessions -> Tables]
  BY DEF TypeOK
<1>1. UNCHANGED <<worker, given, cchan, cqueue, comp, killed>>
  BY PumpLeaves
<1>2. \A x \in Sessions, y \in Entities : InCompletion(x, y)' <=> InCompletion(x, y)
  BY <1>1 DEF InCompletion, InSeq
<1>3. UNCHANGED queue => \A x \in Sessions, y \in Entities : InPipeline(x, y)' <=> InPipeline(x, y)
  BY <1>1 DEF InPipeline, Slots, InSeq
<1>4. CASE PumpQuiet
  BY <1>2, <1>3, <1>4 DEF PumpQuiet, AtMostOneUnsafe, Safe, InFlight, RowIs
<1>5. ASSUME NEW s \in Sessions, NEW t \in AssetTypes, NEW n, NEW C, PumpClaims(s, t, n, C)
      PROVE  AtMostOneUnsafe
  <2>1. BacklogClaim(s, t, n, C) /\ UNCHANGED queue
    BY <1>5 DEF PumpClaims
  <2>2. \A x \in Sessions, y \in Entities :
          ~InPump(x, y) /\ (InPump(x, y)' <=> (x = s /\ y \in C))
    BY <1>5 DEF PumpClaims
  <2>3. \A x \in Sessions, y \in Entities : ~(x = s /\ y \in C) => rows'[x][y] = rows[x][y]
    <3>1. C \in SUBSET Entities /\ \A y \in Entities \ C : rows'[s][y] = rows[s][y]
      BY <2>1, ClaimSound
    <3>2. \A x \in Sessions : x # s => rows'[x] = rows[x]
      BY <1>0, <2>1 DEF BacklogClaim
    <3> QED BY <3>1, <3>2
  <2> QED BY <1>2, <1>3, <2>1, <2>2, <2>3 DEF AtMostOneUnsafe, Safe, InFlight, RowIs, InState
<1>6. ASSUME NEW s \in Sessions, NEW e \in Entities, PumpMisses(s, e)
      PROVE  AtMostOneUnsafe
  <2>1. s \in killed' \/ faults' = faults + 1
    BY <1>1, <1>6 DEF PumpMisses, AckMissing, Fails
  <2>2. \A x \in Sessions, y \in Entities : InState(rows'[x], y, "leased") => RowIs(x, y, "leased")
    BY <1>6, WritesEndLeases DEF PumpMisses
  <2>3. \A x \in Sessions, y \in Entities : Safe(x, y) \/ (x = s /\ y = e)
    BY <1>2, <1>3, <1>6, <2>2 DEF PumpMisses, OthersInPump, Safe, InFlight
  <2>4. s \in killed' => Safe(s, e)
    BY <2>2 DEF Safe
  <2> QED BY <2>1, <2>3, <2>4 DEF AtMostOneUnsafe
<1>7. ASSUME NEW s \in Sessions, NEW e \in Entities, PumpAppends(s, e)
      PROVE  AtMostOneUnsafe
  <2> DEFINE el == [s |-> s, e |-> e, m |-> GetEntry(s, e)]
             u == TypeOf[e]
  <2>1. u \in AssetTypes /\ el \in Element /\ el.s = s /\ el.e = e
    BY BacklogRowsAssumption DEF GetEntry, TypeOK, Element
  <2>2. queue' = [queue EXCEPT ![s][u] = Append(@, el)]
    BY <1>7 DEF PumpAppends
  <2> HIDE DEF el, u
  <2>3. \A y \in Entities : InSeq(Append(queue[s][u], el), s, y)
                              <=> (InSeq(queue[s][u], s, y) \/ (el.s = s /\ el.e = y))
    BY <1>0, <2>1, InAppend
  <2>4. \A x \in Sessions, y \in Entities : InPipeline(x, y) => InPipeline(x, y)'
    <3> SUFFICES ASSUME NEW x \in Sessions, NEW y \in Entities, InPipeline(x, y)
                 PROVE  InPipeline(x, y)'
      OBVIOUS
    <3>1. CASE InSeq(queue[x][TypeOf[y]], x, y)
      <4>1. CASE x = s /\ TypeOf[y] = u
        <5>1. queue'[x][TypeOf[y]] = Append(queue[s][u], el)
          BY <1>0, <2>1, <2>2, <4>1
        <5> QED BY <2>3, <3>1, <4>1, <5>1 DEF InPipeline
      <4>2. CASE ~(x = s /\ TypeOf[y] = u)
        <5>1. queue'[x][TypeOf[y]] = queue[x][TypeOf[y]]
          BY <1>0, <2>1, <2>2, <4>2, BacklogRowsAssumption
        <5> QED BY <3>1, <5>1 DEF InPipeline
      <4> QED BY <4>1, <4>2
    <3> QED BY <1>1, <3>1 DEF InPipeline, Slots
  <2>5. InPipeline(s, e)'
    <3>1. queue'[s][TypeOf[e]] = Append(queue[s][u], el)
      BY <1>0, <2>1, <2>2 DEF u
    <3> QED BY <2>1, <2>3, <3>1 DEF InPipeline
  <2>6. OthersInPump(s, e) /\ UNCHANGED rows
    BY <1>7 DEF PumpAppends
  <2> QED BY <1>2, <2>4, <2>5, <2>6
          DEF OthersInPump, AtMostOneUnsafe, Safe, InFlight, RowIs
<1> QED BY <1>4, <1>5, <1>6, <1>7, PumpMoves

LEMMA SafePipelines ==
  ASSUME TypeOK, Placed, Vacant, PipelineStep, ~PumpStep, [Next]_vars
  PROVE  AtMostOneUnsafe
<1>0. /\ queue \in [Sessions -> [AssetTypes -> Seq(Element)]] /\ rows \in [Sessions -> Tables]
      /\ worker \in [Workers -> Element \cup {NoElement}] /\ cchan \in Seq(Element)
      /\ given \in [Workers -> 0 .. Peers]
      /\ \A y \in Entities : TypeOf[y] \in AssetTypes
  BY BacklogRowsAssumption DEF TypeOK
<1>1. \A x \in Sessions, y \in Entities : InPump(x, y)' <=> InPump(x, y)
  BY PumpAlone DEF InPump
<1>2. UNCHANGED <<cqueue, comp, killed>>
  BY PipelineLeaves
<1>3. UNCHANGED cchan => \A x \in Sessions, y \in Entities :
                           InCompletion(x, y)' <=> InCompletion(x, y)
  BY <1>2 DEF InCompletion, InSeq
<1>4. ASSUME NEW s \in Sessions, NEW t \in AssetTypes, NEW k \in 1 .. PipeDepth,
             PipelineTake(s, t, k)
      PROVE  AtMostOneUnsafe
  <2>1. /\ UNCHANGED <<rows, cchan>> /\ queue[s][t] # << >> /\ queue[s][t] \in Seq(Element)
        /\ worker[<<s, t, k>>] = NoElement /\ <<s, t, k>> \in Workers
        /\ UNCHANGED given /\ given[<<s, t, k>>] = 0
        /\ worker' = [worker EXCEPT ![<<s, t, k>>] = Head(queue[s][t])]
        /\ queue' = [queue EXCEPT ![s][t] = Tail(@)]
    BY <1>0, <1>4 DEF PipelineTake, Workers, Vacant
  <2>2. Head(queue[s][t]) # NoElement
    BY <2>1, ElementAssumption
  <2>3. ASSUME NEW x \in Sessions, NEW y \in Entities, InPipeline(x, y)
        PROVE  InPipeline(x, y)'
    <3>1. CASE InSeq(queue[x][TypeOf[y]], x, y)
      <4>1. CASE x = s /\ TypeOf[y] = t
        <5>1. queue'[x][TypeOf[y]] = Tail(queue[s][t])
          BY <1>0, <2>1, <4>1
        <5>2. Head(queue[s][t]).e = y \/ InSeq(Tail(queue[s][t]), x, y)
          BY <2>1, <3>1, <4>1, InHeadTail
        <5>3. worker'[<<x, TypeOf[y], k>>] = Head(queue[s][t])
          BY <1>0, <2>1, <4>1
        <5> QED BY <2>1, <2>2, <4>1, <5>1, <5>2, <5>3 DEF InPipeline, Slots
      <4>2. CASE ~(x = s /\ TypeOf[y] = t)
        <5>1. queue'[x][TypeOf[y]] = queue[x][TypeOf[y]]
          BY <1>0, <2>1, <4>2
        <5> QED BY <3>1, <5>1 DEF InPipeline
      <4> QED BY <4>1, <4>2
    <3>2. ASSUME NEW j \in Slots(x, y), given[<<x, TypeOf[y], j>>] = 0
          PROVE  InPipeline(x, y)'
      <4>1. worker'[<<x, TypeOf[y], j>>] = worker[<<x, TypeOf[y], j>>]
        BY <1>0, <2>1, <3>2 DEF Workers, Slots
      <4>2. j \in Slots(x, y)'
        BY <3>2, <4>1 DEF Slots
      <4> QED BY <2>1, <3>2, <4>2 DEF InPipeline
    <3> QED BY <2>3, <3>1, <3>2 DEF InPipeline
  <2> QED BY <1>1, <1>3, <2>1, <2>3 DEF AtMostOneUnsafe, Safe, InFlight, RowIs
<1>5. ASSUME NEW s \in Sessions, NEW t \in AssetTypes, PipelineDrop(s, t)
      PROVE  AtMostOneUnsafe
  <2>1. /\ UNCHANGED <<rows, cchan, worker, given>> /\ s \in killed'
        /\ queue' = [queue EXCEPT ![s][t] = << >>]
    BY <1>2, <1>5 DEF PipelineDrop, slotVars
  <2>2. ASSUME NEW x \in Sessions, NEW y \in Entities, InPipeline(x, y), x # s
        PROVE  InPipeline(x, y)'
    <3>1. queue'[x] = queue[x]
      BY <1>0, <2>1, <2>2
    <3> QED BY <2>1, <2>2, <3>1 DEF InPipeline, Slots
  <2> QED BY <1>1, <1>3, <2>1, <2>2 DEF AtMostOneUnsafe, Safe, InFlight, RowIs
<1>6. ASSUME NEW s \in Sessions, NEW t \in AssetTypes, NEW k \in 1 .. PipeDepth,
             Sends(<<s, t, k>>)
      PROVE  AtMostOneUnsafe
  <2> DEFINE w == <<s, t, k>>
             el == worker[w]
  <2>0. w \in Workers
    BY DEF Workers
  <2>1. /\ el \in Element /\ el # NoElement /\ SendElementOnExit(el) /\ UNCHANGED queue
        /\ \A v \in Workers : v # w => worker'[v] = worker[v] /\ given'[v] = given[v]
    BY <1>0, <1>6, <2>0, Sending DEF Vacate
  <2>2. el.s = s /\ TypeOf[el.e] = t /\ el.e \in Entities
    BY <2>0, <2>1 DEF Placed, InPlace, Element
  <2> PICK e \in Entities : e = el.e
    BY <2>2
  <2>3. \/ cchan' = Append(cchan, el) /\ UNCHANGED rows
        \/ UNCHANGED cchan /\ BacklogAck(s, e)
        \/ UNCHANGED cchan /\ Fails(s) /\ UNCHANGED rows
    BY <2>1, <2>2, SendEnds
  <2> HIDE DEF w, el
  <2>4. ASSUME NEW x \in Sessions, NEW y \in Entities, InPipeline(x, y),
               ~(x = s /\ y = e)
        PROVE  InPipeline(x, y)'
    <3>1. ASSUME NEW j \in Slots(x, y), given[<<x, TypeOf[y], j>>] = 0
          PROVE  InPipeline(x, y)'
      <4>1. <<x, TypeOf[y], j>> # w /\ <<x, TypeOf[y], j>> \in Workers
        BY <1>0, <2>2, <2>4, <3>1 DEF w, el, Slots, Workers
      <4>2. worker'[<<x, TypeOf[y], j>>] = worker[<<x, TypeOf[y], j>>]
            /\ given'[<<x, TypeOf[y], j>>] = given[<<x, TypeOf[y], j>>]
        BY <2>1, <4>1
      <4>3. j \in Slots(x, y)'
        BY <3>1, <4>2 DEF Slots
      <4> QED BY <3>1, <4>2, <4>3 DEF InPipeline
    <3> QED BY <2>1, <2>4, <3>1 DEF InPipeline
  <2>5. \A x \in Sessions, y \in Entities : InCompletion(x, y) => InCompletion(x, y)'
    <3>1. \A x \in Sessions, y \in Entities : InSeq(cchan, x, y) => InSeq(Append(cchan, el), x, y)
      BY <1>0, <2>1, InAppend
    <3>2. cchan' = Append(cchan, el) => \A x \in Sessions, y \in Entities :
            InCompletion(x, y) => InCompletion(x, y)'
      BY <1>2, <3>1 DEF InCompletion
    <3> QED BY <1>3, <2>3, <3>2
  <2>6. \A x \in Sessions, y \in Entities : InState(rows'[x], y, "leased") => RowIs(x, y, "leased")
    BY <2>2, <2>3, WritesEndLeases DEF RowIs
  <2>7. \A x \in Sessions, y \in Entities : Safe(x, y) \/ (x = s /\ y = e)
    BY <1>1, <2>4, <2>5, <2>6 DEF Safe, InFlight
  <2>8. CASE cchan' = Append(cchan, el)
    <3>1. InSeq(Append(cchan, el), s, e)
      BY <1>0, <2>1, <2>2, InAppend
    <3>2. InCompletion(s, e)'
      BY <2>8, <3>1 DEF InCompletion
    <3>3. Safe(s, e)
      BY <2>6, <3>2 DEF Safe, InFlight
    <3> QED BY <2>7, <3>3 DEF AtMostOneUnsafe
  <2>9. CASE BacklogAck(s, e)
    <3>1. Safe(s, e)
      BY <2>2, <2>6, <2>9, WritesEndLeases DEF Safe
    <3> QED BY <2>7, <3>1 DEF AtMostOneUnsafe
  <2>10. CASE Fails(s)
    <3>1. s \in killed' => Safe(s, e)
      BY <2>6 DEF Safe
    <3> QED BY <1>2, <2>7, <2>10, <3>1 DEF AtMostOneUnsafe, Fails
  <2> QED BY <2>3, <2>8, <2>9, <2>10
<1>7. ASSUME NEW s \in Sessions, NEW t \in AssetTypes, NEW k \in 1 .. PipeDepth,
             Discard(<<s, t, k>>)
      PROVE  AtMostOneUnsafe
  <2> DEFINE w == <<s, t, k>>
  <2>0. w \in Workers
    BY DEF Workers
  <2>1. /\ UNCHANGED <<rows, cchan, queue>> /\ worker[w] \in Element
        /\ given[w] > 0 \/ worker[w].s \in killed
        /\ \A v \in Workers : v # w => worker'[v] = worker[v] /\ given'[v] = given[v]
    BY <1>0, <1>7, <2>0 DEF Discard, Vacate, PipelineUnchanged
  <2>2. worker[w].s = s
    BY <2>0, <2>1, ElementAssumption DEF Placed, InPlace
  <2> HIDE DEF w
  <2>3. ASSUME NEW x \in Sessions, NEW y \in Entities, InPipeline(x, y), x \notin killed
        PROVE  InPipeline(x, y)'
    <3>1. ASSUME NEW j \in Slots(x, y), given[<<x, TypeOf[y], j>>] = 0
          PROVE  InPipeline(x, y)'
      <4>0. worker[w].s # x \/ given[w] > 0
        BY <2>1, <2>3
      <4>1. <<x, TypeOf[y], j>> # w /\ <<x, TypeOf[y], j>> \in Workers
        <5>1. <<x, TypeOf[y], j>> = w => x = s
          BY DEF w
        <5>2. <<x, TypeOf[y], j>> = w => ~(given[w] > 0)
          BY <3>1
        <5> QED BY <1>0, <2>2, <3>1, <4>0, <5>1, <5>2 DEF Slots, Workers
      <4>2. worker'[<<x, TypeOf[y], j>>] = worker[<<x, TypeOf[y], j>>]
            /\ given'[<<x, TypeOf[y], j>>] = given[<<x, TypeOf[y], j>>]
        BY <2>1, <4>1
      <4>3. j \in Slots(x, y)'
        BY <3>1, <4>2 DEF Slots
      <4> QED BY <3>1, <4>2, <4>3 DEF InPipeline
    <3> QED BY <2>1, <2>3, <3>1 DEF InPipeline
  <2> QED BY <1>1, <1>2, <1>3, <2>1, <2>3 DEF AtMostOneUnsafe, Safe, InFlight, RowIs
<1> QED BY <1>4, <1>5, <1>6, <1>7 DEF PipelineStep, Workers, Sends

LEMMA SafeComp ==
  ASSUME TypeOK, CompHolds, CompStep, ~PumpStep, ~PipelineStep, [Next]_vars
  PROVE  AtMostOneUnsafe
<1>0. cchan \in Seq(Element) /\ cqueue \in Seq(Element) /\ comp \in CompStates
  BY DEF TypeOK
<1>1. \A x \in Sessions, y \in Entities : /\ InPump(x, y)' <=> InPump(x, y)
                                          /\ InPipeline(x, y)' <=> InPipeline(x, y)
  BY PumpAlone, PipesAlone DEF InPump, InPipeline, Slots, InSeq
<1>2. UNCHANGED killed
  BY CompLeaves
<1>3. ASSUME UNCHANGED rows, \A x \in Sessions, y \in Entities :
                               InCompletion(x, y) => InCompletion(x, y)'
      PROVE  AtMostOneUnsafe
  BY <1>1, <1>3 DEF AtMostOneUnsafe, Safe, InFlight, RowIs
<1>4. CASE CompReceive
  <2>1. /\ cchan # << >> /\ Head(cchan) \in Element /\ UNCHANGED <<rows, comp>>
        /\ cqueue' = Append(cqueue, Head(cchan)) /\ cchan' = Tail(cchan)
    BY <1>0, <1>4 DEF CompReceive
  <2>2. \A x \in Sessions, y \in Entities :
          InSeq(cchan, x, y) => InSeq(cchan', x, y) \/ InSeq(cqueue', x, y)
    BY <1>0, <2>1, InAppend, InHeadTail
  <2>3. \A x \in Sessions, y \in Entities : InSeq(cqueue, x, y) => InSeq(cqueue', x, y)
    BY <1>0, <2>1, InAppend
  <2> QED BY <1>3, <2>1, <2>2, <2>3 DEF InCompletion
<1>5. CASE CompNext
  <2>1. /\ cqueue # << >> /\ UNCHANGED <<rows, cchan>> /\ comp.pc = "idle"
        /\ comp' = [pc |-> "ack", el |-> Head(cqueue)] /\ cqueue' = Tail(cqueue)
    BY <1>5 DEF CompNext
  <2>2. \A x \in Sessions, y \in Entities :
          InSeq(cqueue, x, y) => \/ InSeq(cqueue', x, y)
                                 \/ comp'.el.s = x /\ comp'.el.e = y
    BY <1>0, <2>1, InHeadTail
  <2> QED BY <1>3, <2>1, <2>2 DEF InCompletion
<1>6. CASE CompAck
  <2>1. comp.el.s \in Sessions /\ comp.el.e \in Entities /\ comp.pc = "ack"
    BY <1>6 DEF CompAck, CompHolds, Element
  <2> PICK s \in Sessions, e \in Entities : s = comp.el.s /\ e = comp.el.e
    BY <2>1
  <2>2. UNCHANGED <<cchan, cqueue>>
        /\ (BacklogAck(s, e) \/ (Fails(s) /\ UNCHANGED rows))
    BY <1>6 DEF CompAck
  <2>3. \A x \in Sessions, y \in Entities : InState(rows'[x], y, "leased") => RowIs(x, y, "leased")
    BY <2>2, WritesEndLeases DEF RowIs
  <2>4. \A x \in Sessions, y \in Entities :
          InCompletion(x, y) => InCompletion(x, y)' \/ (x = s /\ y = e)
    BY <2>2 DEF InCompletion
  <2>5. \A x \in Sessions, y \in Entities : Safe(x, y) \/ (x = s /\ y = e)
    BY <1>1, <2>3, <2>4 DEF Safe, InFlight
  <2>6. BacklogAck(s, e) => Safe(s, e)
    BY <2>3, WritesEndLeases DEF Safe
  <2>7. Fails(s) => Safe(s, e) \/ faults' = faults + 1
    BY <1>2, <2>3 DEF Safe, Fails
  <2> QED BY <2>2, <2>5, <2>6, <2>7 DEF AtMostOneUnsafe
<1>7. CASE CompDeleteMeta \/ CompWake \/ CompExit
  <2>1. UNCHANGED <<rows, cchan, cqueue>> /\ comp.pc # "ack"
    BY <1>7 DEF CompDeleteMeta, CompWake, CompExit
  <2> QED BY <1>3, <2>1 DEF InCompletion
<1> QED BY <1>4, <1>5, <1>6, <1>7 DEF CompStep

LEMMA SafeOthers ==
  ASSUME TypeOK, CompHolds, [Next]_vars, ~PumpStep, ~PipelineStep, ~CompStep
  PROVE  AtMostOneUnsafe
<1>1. \A x \in Sessions, y \in Entities : InFlight(x, y)' <=> InFlight(x, y)
  BY PumpAlone, PipesAlone, AckWayAlone
     DEF InFlight, InPump, InPipeline, Slots, InCompletion, InSeq
<1>2. \A x \in Sessions, y \in Entities : InState(rows'[x], y, "leased") => RowIs(x, y, "leased")
  <2>3. UNCHANGED rows \/ \E s \in Sessions, e \in Entities : BacklogEnqueue(s, e)
    BY CallerWrites, OthersLeave DEF Next
  <2> QED BY <2>3, WritesEndLeases DEF RowIs
<1> QED BY <1>1, <1>2 DEF AtMostOneUnsafe, Safe

LEMMA StepLost ==
  ASSUME TypeOK, CompHolds, PumpTidy, Placed, Vacant, [Next]_vars
  PROVE  Lost' \subseteq Lost \/ (faults' = faults + 1 /\ \E i : Lost' \subseteq Lost \cup {i})
<1>1. killed \subseteq killed'
  BY PassedStays
<1>2. AtMostOneUnsafe
  BY SafePump, SafePipelines, SafeComp, SafeOthers
<1>3. \A i \in Lost' : i[1] \in Sessions /\ i[2] \in Entities /\ i = <<i[1], i[2]>>
  BY DEF Lost
<1>4. CASE \A x \in Sessions, y \in Entities : Safe(x, y)
  BY <1>1, <1>3, <1>4, LostIfUnsafe
<1>5. ASSUME NEW s, NEW e,
             \A x \in Sessions, y \in Entities : Safe(x, y) \/ (x = s /\ y = e)
      PROVE  Lost' \subseteq Lost \cup {<<s, e>>}
  BY <1>1, <1>3, <1>5, LostIfUnsafe
<1> QED BY <1>2, <1>4, <1>5 DEF AtMostOneUnsafe

\* The lost leases stay finite and within the count of failures.
LEMMA LostCounted ==
  ASSUME IsFiniteSet(Lost), faults \in Nat, Cardinality(Lost) <= faults,
         faults' \in {faults, faults + 1},
         Lost' \subseteq Lost \/ (faults' = faults + 1 /\ \E i : Lost' \subseteq Lost \cup {i})
  PROVE  IsFiniteSet(Lost') /\ Cardinality(Lost') <= faults'
<1>0. Cardinality(Lost) \in Nat
  BY FS_CardinalityType
<1>1. CASE Lost' \subseteq Lost
  <2>1. IsFiniteSet(Lost') /\ Cardinality(Lost') <= Cardinality(Lost)
    BY <1>1, FS_Subset
  <2>2. Cardinality(Lost') \in Nat
    BY <2>1, FS_CardinalityType
  <2> QED BY <1>0, <2>1, <2>2
<1>2. ASSUME NEW i, Lost' \subseteq Lost \cup {i}, faults' = faults + 1
      PROVE  IsFiniteSet(Lost') /\ Cardinality(Lost') <= faults'
  <2>1. /\ IsFiniteSet(Lost \cup {i})
        /\ Cardinality(Lost \cup {i}) = IF i \in Lost THEN Cardinality(Lost)
                                        ELSE Cardinality(Lost) + 1
    BY FS_AddElement
  <2>2. IsFiniteSet(Lost') /\ Cardinality(Lost') <= Cardinality(Lost \cup {i})
    BY <1>2, <2>1, FS_Subset
  <2>3. Cardinality(Lost') \in Nat
    BY <2>2, FS_CardinalityType
  <2> QED BY <1>0, <1>2, <2>1, <2>2, <2>3
<1> QED BY <1>1, <1>2

\* What the proofs about leases and the ledger start from.
WayInv == TypeOK /\ CompHolds /\ PumpTidy /\ Placed /\ Vacant

LEMMA StepWay == WayInv /\ [Next]_vars => WayInv'
<1> SUFFICES ASSUME WayInv, [Next]_vars PROVE WayInv'
  OBVIOUS
<1>1. TypeOK' /\ CompHolds'
  BY TypeStep DEF WayInv
<1>2. PumpTidy'
  <2>1. CASE PumpStep
    BY <2>1, TidyPump DEF WayInv
  <2>2. CASE ~PumpStep
    BY <2>2, PumpAlone DEF WayInv, PumpTidy
  <2> QED BY <2>1, <2>2
<1>3. Placed' /\ Vacant'
  BY StepPlaced, StepVacant DEF WayInv
<1> QED BY <1>1, <1>2, <1>3 DEF WayInv

LEMMA InitWay == Init => WayInv
<1> SUFFICES ASSUME Init PROVE WayInv
  OBVIOUS
<1>1. PumpTidy /\ \A s \in Sessions, e \in Entities : ~InPump(s, e)
  BY DEF Init, IdlePump, PumpTidy, InPump
<1>2. Placed /\ Vacant
  BY <1>1 DEF Init, Placed, Vacant, Workers
<1>3. CompHolds
  BY DEF Init, CompHolds
<1> QED BY <1>1, <1>2, <1>3, InitType DEF WayInv

\* No lease is lost without a failure to account for it: with a lease time of
\* zero nobody would reclaim it.  Whatever the interleaving of callers, pump,
\* pipelines, completion loop and clean-up, and however often an asset is
\* submitted, a leased row of a live session has an element on its way to an
\* ack, but for one row per failed database operation.
THEOREM LeasesKept == Spec => []LeasesAccounted
<1> DEFINE Counted == IsFiniteSet(Lost) /\ Cardinality(Lost) <= faults
<1>1. Init => WayInv /\ Counted
  <2> SUFFICES ASSUME Init PROVE Counted
    BY InitWay
  <2>1. Lost = {}
    BY DEF Init, Lost, RowIs, InState, EmptyTable
  <2> QED BY <2>1, FS_EmptySet DEF Init
<1>2. WayInv /\ Counted /\ [Next]_vars => WayInv' /\ Counted'
  <2> SUFFICES ASSUME WayInv, Counted, [Next]_vars PROVE Counted'
    BY StepWay
  <2>1. faults \in Nat /\ faults' \in {faults, faults + 1}
    BY FaultsGrow DEF WayInv
  <2>2. Lost' \subseteq Lost \/ (faults' = faults + 1 /\ \E i : Lost' \subseteq Lost \cup {i})
    BY StepLost DEF WayInv
  <2> QED BY <2>1, <2>2, LostCounted
<1>3. Counted => LeasesAccounted
  BY DEF LeasesAccounted, Lost
<1> QED BY <1>1, <1>2, <1>3, PTL DEF Spec


------------------------------------------------------------------------------
(* The refinement of the ledger.                                           *)

\* The status of each item, by the rows of the backlogs.
StatusOf(r) == [i \in Items |->
                  IF ~Has(r[i[1]], i[2]) THEN "new"
                  ELSE IF InState(r[i[1]], i[2], "done") THEN "done" ELSE "pending"]

LEMMA StatusAt ==
  ASSUME NEW r, NEW s \in Sessions, NEW e \in Entities
  PROVE  /\ <<s, e>> \in Items
         /\ StatusOf(r)[<<s, e>>] = IF ~Has(r[s], e) THEN "new"
                                    ELSE IF InState(r[s], e, "done") THEN "done"
                                    ELSE "pending"
BY DEF StatusOf, Items

\* Two tables with the same rows and states have the same status; a write to
\* one row changes one status.
LEMMA StatusChange ==
  ASSUME NEW q, NEW r, NEW s \in Sessions, NEW e \in Entities,
         \A x \in Sessions, y \in Entities :
           ~(x = s /\ y = e) => /\ Has(q[x], y) <=> Has(r[x], y)
                                /\ InState(q[x], y, "done") <=> InState(r[x], y, "done")
  PROVE  StatusOf(q) = [StatusOf(r) EXCEPT ![<<s, e>>] = StatusOf(q)[<<s, e>>]]
<1>1. ASSUME NEW i \in Items, i # <<s, e>> PROVE StatusOf(q)[i] = StatusOf(r)[i]
  <2>1. i = <<i[1], i[2]>> /\ i[1] \in Sessions /\ i[2] \in Entities
    BY DEF Items
  <2> QED BY <1>1, <2>1 DEF StatusOf
<1>2. <<s, e>> \in Items
  BY DEF Items
<1>3. /\ StatusOf(q) = [i \in Items |-> StatusOf(q)[i]]
      /\ StatusOf(r) = [i \in Items |-> StatusOf(r)[i]]
  BY DEF StatusOf
<1> QED BY <1>1, <1>2, <1>3

LEMMA StatusKept ==
  ASSUME NEW q, NEW r,
         \A x \in Sessions, y \in Entities :
           /\ Has(q[x], y) <=> Has(r[x], y)
           /\ InState(q[x], y, "done") <=> InState(r[x], y, "done")
  PROVE  StatusOf(q) = StatusOf(r)
<1>1. ASSUME NEW i \in Items
      PROVE  /\ Has(q[i[1]], i[2]) <=> Has(r[i[1]], i[2])
             /\ InState(q[i[1]], i[2], "done") <=> InState(r[i[1]], i[2], "done")
  BY DEF Items
<1> QED BY <1>1 DEF StatusOf

\* An enqueue makes the item pending.
LEMMA StatusEnqueue ==
  ASSUME TypeOK, NEW s \in Sessions, NEW e \in Entities, BacklogEnqueue(s, e)
  PROVE  StatusOf(rows') = [StatusOf(rows) EXCEPT ![<<s, e>>] = "pending"]
<1>0. rows \in [Sessions -> Tables] /\ Now \in Nat
  BY DEF TypeOK, Now
<1>1. rows' = [rows EXCEPT ![s] = Enqueue(rows[s], e, Now)]
  BY DEF BacklogEnqueue
<1>2. /\ \A y \in Entities : y # e => Enqueue(rows[s], e, Now)[y] = rows[s][y]
      /\ Has(Enqueue(rows[s], e, Now), e)
      /\ Enqueue(rows[s], e, Now)[e].state = "queued"
  BY <1>0, UpsertRow, UpsertHas DEF Enqueue, States
<1>3. /\ \A x \in Sessions, y \in Entities : ~(x = s /\ y = e) => rows'[x][y] = rows[x][y]
      /\ Has(rows'[s], e) /\ ~InState(rows'[s], e, "done")
  <2>1. \A x \in Sessions : rows'[x] = IF x = s THEN Enqueue(rows[s], e, Now) ELSE rows[x]
    BY <1>0, <1>1
  <2> QED BY <1>2, <2>1 DEF InState
<1> DEFINE q == rows'
<1>4. StatusOf(q)[<<s, e>>] = "pending"
  BY <1>3, StatusAt
<1>5. \A x \in Sessions, y \in Entities :
        ~(x = s /\ y = e) => /\ Has(q[x], y) <=> Has(rows[x], y)
                             /\ InState(q[x], y, "done") <=> InState(rows[x], y, "done")
  BY <1>3 DEF Has, InState
<1> HIDE DEF q
<1>6. StatusOf(q) = [StatusOf(rows) EXCEPT ![<<s, e>>] = StatusOf(q)[<<s, e>>]]
  BY <1>5, StatusChange
<1> QED BY <1>4, <1>6 DEF q

\* An ack completes the item, unless it was never accepted.
LEMMA StatusAck ==
  ASSUME TypeOK, NEW s \in Sessions, NEW e \in Entities, BacklogAck(s, e)
  PROVE  /\ Has(rows[s], e) =>
              StatusOf(rows') = [StatusOf(rows) EXCEPT ![<<s, e>>] = "done"]
         /\ ~Has(rows[s], e) => StatusOf(rows') = StatusOf(rows)
<1>0. rows \in [Sessions -> Tables]
  BY DEF TypeOK
<1>1. rows' = [rows EXCEPT ![s] = Ack(rows[s], e, NoOwner)]
  BY DEF BacklogAck
<1>2. /\ \A y \in Entities : y # e => Ack(rows[s], e, NoOwner)[y] = rows[s][y]
      /\ Has(Ack(rows[s], e, NoOwner), e) <=> Has(rows[s], e)
      /\ InState(Ack(rows[s], e, NoOwner), e, "done") <=> Has(rows[s], e)
  BY <1>0, AckAnyRow, AckHas
<1>3. /\ \A x \in Sessions, y \in Entities : ~(x = s /\ y = e) => rows'[x][y] = rows[x][y]
      /\ Has(rows'[s], e) <=> Has(rows[s], e)
      /\ InState(rows'[s], e, "done") <=> Has(rows[s], e)
  <2>1. \A x \in Sessions :
          rows'[x] = IF x = s THEN Ack(rows[s], e, NoOwner) ELSE rows[x]
    BY <1>0, <1>1
  <2> QED BY <1>2, <2>1
<1> DEFINE q == rows'
<1>4. Has(rows[s], e) => StatusOf(q)[<<s, e>>] = "done"
  BY <1>3, StatusAt
<1>5. \A x \in Sessions, y \in Entities :
        ~(x = s /\ y = e) => /\ Has(q[x], y) <=> Has(rows[x], y)
                             /\ InState(q[x], y, "done") <=> InState(rows[x], y, "done")
  BY <1>3 DEF Has, InState
<1>6. ~Has(rows[s], e) => /\ ~Has(q[s], e) /\ ~InState(q[s], e, "done")
                          /\ ~InState(rows[s], e, "done")
  BY <1>3 DEF Has, InState
<1> HIDE DEF q
<1>7. StatusOf(q) = [StatusOf(rows) EXCEPT ![<<s, e>>] = StatusOf(q)[<<s, e>>]]
  BY <1>5, StatusChange
<1>8. ~Has(rows[s], e) => StatusOf(q) = StatusOf(rows)
  BY <1>5, <1>6, StatusKept
<1> QED BY <1>4, <1>7, <1>8 DEF q

\* The pump's ack of an entity that it could not load completes the item or
\* finds that its row is not leased any more.
LEMMA StatusMissing ==
  ASSUME TypeOK, NEW s \in Sessions, NEW e \in Entities, AckMissing(s, e)
  PROVE  \/ StatusOf(rows') = StatusOf(rows)
         \/ StatusOf(rows') = [StatusOf(rows) EXCEPT ![<<s, e>>] = "done"]
<1> DEFINE r == Ack(rows[s], e, <<s, TypeOf[e]>>)
           q == rows'
<1>0. rows \in [Sessions -> Tables]
  BY DEF TypeOK
<1>1. UNCHANGED rows => StatusOf(rows') = StatusOf(rows)
  OBVIOUS
<1>2. ASSUME rows' = [rows EXCEPT ![s] = r]
      PROVE  \/ StatusOf(q) = StatusOf(rows)
             \/ StatusOf(q) = [StatusOf(rows) EXCEPT ![<<s, e>>] = "done"]
  <2>1. /\ \A y \in Entities : y # e => r[y] = rows[s][y]
        /\ r[e] = rows[s][e] \/ r[e].state = "done"
        /\ Has(r, e) <=> Has(rows[s], e)
    BY <1>0, AckRow, AckHas
  <2> HIDE DEF r
  <2>2. \A x \in Sessions : q[x] = IF x = s THEN r ELSE rows[x]
    BY <1>0, <1>2
  <2> HIDE DEF q
  <2>3. \A x \in Sessions, y \in Entities : ~(x = s /\ y = e) => q[x][y] = rows[x][y]
    BY <2>1, <2>2
  <2>4. \A x \in Sessions, y \in Entities :
          ~(x = s /\ y = e) => /\ Has(q[x], y) <=> Has(rows[x], y)
                               /\ InState(q[x], y, "done") <=> InState(rows[x], y, "done")
    BY <2>3 DEF Has, InState
  <2>5. Has(q[s], e) <=> Has(rows[s], e)
    BY <2>1, <2>2
  <2>6. CASE InState(q[s], e, "done") <=> InState(rows[s], e, "done")
    <3>1. StatusOf(q) = StatusOf(rows)
      BY <2>4, <2>5, <2>6, StatusKept
    <3> QED BY <3>1
  <2>7. CASE ~(InState(q[s], e, "done") <=> InState(rows[s], e, "done"))
    <3>1. InState(q[s], e, "done")
      <4>1. q[s] = r
        BY <2>2
      <4>2. CASE r[e] = rows[s][e]
        BY <2>7, <4>1, <4>2 DEF InState
      <4>3. CASE r[e].state = "done" /\ ~Has(r, e)
        BY <2>1, <2>7, <4>1, <4>3 DEF InState, Has
      <4> QED BY <2>1, <4>1, <4>2, <4>3 DEF InState, Has
    <3>2. StatusOf(q)[<<s, e>>] = "done"
      BY <3>1, StatusAt DEF Has, InState
    <3>3. StatusOf(q) = [StatusOf(rows) EXCEPT ![<<s, e>>] = StatusOf(q)[<<s, e>>]]
      BY <2>4, StatusChange
    <3> QED BY <3>2, <3>3
  <2> QED BY <2>6, <2>7
<1> QED BY <1>1, <1>2 DEF AckMissing

\* A claim is no change to the ledger.
LEMMA StatusClaim ==
  ASSUME TypeOK, NEW s \in Sessions, NEW t \in AssetTypes, NEW n, NEW C,
         BacklogClaim(s, t, n, C)
  PROVE  StatusOf(rows') = StatusOf(rows)
<1>0. rows \in [Sessions -> Tables]
  BY DEF TypeOK
<1>1. /\ \A y \in C : RowIs(s, y, "queued") /\ InState(rows'[s], y, "leased")
      /\ \A y \in Entities \ C : rows'[s][y] = rows[s][y]
      /\ \A y \in Entities : Has(rows'[s], y) <=> Has(rows[s], y)
  BY ClaimSound
<1>2. \A x \in Sessions : x # s => rows'[x] = rows[x]
  BY <1>0 DEF BacklogClaim
<1>3. \A y \in Entities : InState(rows'[s], y, "done") <=> InState(rows[s], y, "done")
  BY <1>1 DEF InState, RowIs
<1> DEFINE q == rows'
<1>4. \A x \in Sessions, y \in Entities :
        /\ Has(q[x], y) <=> Has(rows[x], y)
        /\ InState(q[x], y, "done") <=> InState(rows[x], y, "done")
  BY <1>1, <1>2, <1>3
<1> HIDE DEF q
<1>5. StatusOf(q) = StatusOf(rows)
  BY <1>4, StatusKept
<1> QED BY <1>5 DEF q

\* The ledger's steps, over StatusOf.
LEMMA LedgerSteps ==
  ASSUME NEW i \in Items
  PROVE  /\ /\ StatusOf(rows') = [StatusOf(rows) EXCEPT ![i] = "pending"]
            /\ UNCHANGED <<traversed, abandoned>>
            => [Ledger!Next]_(Ledger!vars)
         /\ /\ StatusOf(rows)[i] # "new"
            /\ \/ traversed' = traversed \cup {i} /\ UNCHANGED abandoned
               \/ abandoned' = abandoned \cup {i} /\ UNCHANGED traversed
            /\ \/ StatusOf(rows') = StatusOf(rows)
               \/ StatusOf(rows') = [StatusOf(rows) EXCEPT ![i] = "done"]
            => [Ledger!Next]_(Ledger!vars)
         /\ /\ StatusOf(rows)[i] = "pending" /\ i \in traversed \cup abandoned
            /\ UNCHANGED <<traversed, abandoned>>
            /\ StatusOf(rows') = [StatusOf(rows) EXCEPT ![i] = "done"]
            => [Ledger!Next]_(Ledger!vars)
         /\ StatusOf(rows') = StatusOf(rows) /\ UNCHANGED <<traversed, abandoned>>
            => [Ledger!Next]_(Ledger!vars)
BY DEF Ledger!Next, Ledger!vars, Ledger!Accept, Ledger!Pass, Ledger!Excuse, Ledger!Leave,
       Ledger!Complete, Ledger!LeaveAndComplete, StatusOf, RowIs

\* An ack of an element that has left its pipeline completes the item, or the
\* item is done already.
LEMMA LedgerAck ==
  ASSUME TypeOK, NEW s \in Sessions, NEW e \in Entities, BacklogAck(s, e),
         <<s, e>> \in traversed \cup abandoned, UNCHANGED <<traversed, abandoned>>
  PROVE  [Ledger!Next]_(Ledger!vars)
<1> DEFINE i == <<s, e>>
<1>1. i \in Items
  BY DEF Items
<1>2. CASE ~Has(rows[s], e)
  BY <1>1, <1>2, StatusAck, LedgerSteps
<1>3. CASE Has(rows[s], e)
  <2>1. StatusOf(rows') = [StatusOf(rows) EXCEPT ![i] = "done"]
    BY <1>3, StatusAck
  <2>2. StatusOf(rows)[i] \in {"pending", "done"}
    BY <1>3, StatusAt
  <2>3. StatusOf(rows)[i] = "done" => StatusOf(rows') = StatusOf(rows)
    <3>1. StatusOf(rows) = [j \in Items |-> StatusOf(rows)[j]]
      BY DEF StatusOf
    <3> QED BY <1>1, <2>1, <3>1
  <2> QED BY <1>1, <2>1, <2>2, <2>3, LedgerSteps
<1> QED BY <1>2, <1>3

\* An element that leaves its pipeline has a row, and passes or is given up.
LEMMA LedgerExit ==
  ASSUME WayInv, NEW w \in Workers, Sends(w)
  PROVE  [Ledger!Next]_(Ledger!vars)
<1>0. PICK s \in Sessions, t \in AssetTypes, k \in 1 .. PipeDepth : w = <<s, t, k>>
  BY DEF Workers
<1>1. worker[w] \in Element /\ worker[w] # NoElement /\ SendElementOnExit(worker[w])
  BY Sending DEF WayInv
<1>2. worker[w].s = s /\ worker[w].e \in Entities /\ Has(rows[s], worker[w].e)
  BY <1>0, <1>1 DEF WayInv, Placed, InPlace, Element
<1> PICK e \in Entities : e = worker[w].e
  BY <1>2
<1>3. /\ \/ traversed' = traversed \cup {<<s, e>>} /\ UNCHANGED abandoned
         \/ abandoned' = abandoned \cup {<<s, e>>} /\ UNCHANGED traversed
      /\ UNCHANGED rows \/ BacklogAck(s, e)
  <2>1. UNCHANGED rows \/ BacklogAck(s, e)
    BY <1>1, <1>2, SendEnds
  <2> QED BY <1>2, <2>1 DEF Sends, PipelineExit, GiveUp
<1>4. <<s, e>> \in Items /\ StatusOf(rows)[<<s, e>>] # "new"
  BY <1>2, StatusAt
<1>5. CASE BacklogAck(s, e)
  <2>1. StatusOf(rows') = [StatusOf(rows) EXCEPT ![<<s, e>>] = "done"]
    BY <1>2, <1>5, StatusAck DEF WayInv
  <2> QED BY <1>3, <1>4, <2>1, LedgerSteps
<1>6. CASE UNCHANGED rows
  <2>1. StatusOf(rows') = StatusOf(rows)
    BY <1>6
  <2> QED BY <1>3, <1>4, <2>1, LedgerSteps
<1> QED BY <1>3, <1>5, <1>6

\* What is on its way from a pipeline's exit to the ack has left the pipeline.
Left(el) == <<el.s, el.e>> \in traversed \cup abandoned

AckedLeft ==
  /\ \A i \in 1 .. Len(cchan) : Left(cchan[i])
  /\ \A i \in 1 .. Len(cqueue) : Left(cqueue[i])
  /\ comp.pc = "ack" => Left(comp.el)

LEMMA AckedStays ==
  ASSUME TypeOK, AckedLeft, [Next]_vars
  PROVE  AckedLeft'
<1>0. traversed \cup abandoned \subseteq traversed' \cup abandoned'
  BY PassedStays
<1> DEFINE LeftNow(el) == <<el.s, el.e>> \in traversed' \cup abandoned'
<1>a. /\ \A i \in 1 .. Len(cchan) : LeftNow(cchan[i])
      /\ \A i \in 1 .. Len(cqueue) : LeftNow(cqueue[i])
      /\ comp.pc = "ack" => LeftNow(comp.el)
  BY <1>0 DEF AckedLeft, Left
<1>b. /\ \A i \in 1 .. Len(cchan') : LeftNow(cchan'[i])
      /\ \A i \in 1 .. Len(cqueue') : LeftNow(cqueue'[i])
      /\ comp'.pc = "ack" => LeftNow(comp'.el)
      => AckedLeft'
  BY DEF AckedLeft, Left
<1>1. CASE UNCHANGED <<cchan, cqueue, comp>>
  BY <1>a, <1>b, <1>1
<1>2. ASSUME NEW w \in Workers, Sends(w) PROVE AckedLeft'
  <2>1. UNCHANGED <<cqueue, comp>> /\ worker[w] \in Element /\ LeftNow(worker[w])
    BY <1>2, Sending
  <2>2. CASE cchan' = Append(cchan, worker[w])
    <3> DEFINE el == worker[w]
    <3>1. cchan \in Seq(Element) /\ el \in Element
      BY <2>1 DEF TypeOK
    <3>2. ASSUME NEW i \in 1 .. Len(cchan')
          PROVE  cchan'[i] = el \/ (i \in 1 .. Len(cchan) /\ cchan'[i] = cchan[i])
      <4> HIDE DEF el
      <4>1. cchan' = Append(cchan, el)
        BY <2>2 DEF el
      <4> QED BY <3>1, <4>1
    <3>3. \A i \in 1 .. Len(cchan') : LeftNow(cchan'[i])
      BY <1>a, <2>1, <3>2
    <3> QED BY <1>a, <1>b, <2>1, <3>3
  <2>3. CASE UNCHANGED cchan
    BY <1>1, <2>1, <2>3
  <2> QED BY <1>2, <2>2, <2>3, Sending, SendEnds
<1>3. CASE CompReceive
  <2>1. cchan \in Seq(Element) /\ cchan # << >> /\ cqueue \in Seq(Element)
    BY <1>3 DEF CompReceive, TypeOK
  <2>2. cqueue' = Append(cqueue, Head(cchan)) /\ cchan' = Tail(cchan) /\ UNCHANGED comp
    BY <1>3 DEF CompReceive
  <2>3. \A i \in 1 .. Len(cchan') : i + 1 \in 1 .. Len(cchan) /\ cchan'[i] = cchan[i + 1]
    BY <2>1, <2>2
  <2>4. \A i \in 1 .. Len(cqueue') :
           \/ cqueue'[i] = cchan[1] /\ 1 \in 1 .. Len(cchan)
           \/ i \in 1 .. Len(cqueue) /\ cqueue'[i] = cqueue[i]
    BY <2>1, <2>2
  <2> HIDE DEF LeftNow
  <2>5. /\ \A i \in 1 .. Len(cchan') : LeftNow(cchan'[i])
        /\ \A i \in 1 .. Len(cqueue') : LeftNow(cqueue'[i])
    BY <1>a, <2>3, <2>4
  <2> QED BY <1>a, <1>b, <2>2, <2>5
<1>4. CASE CompNext
  <2>1. cqueue \in Seq(Element) /\ cqueue # << >>
    BY <1>4 DEF CompNext, TypeOK
  <2>2. /\ comp'.el = cqueue[1] /\ 1 \in 1 .. Len(cqueue)
        /\ cqueue' = Tail(cqueue) /\ UNCHANGED cchan
    BY <1>4, <2>1 DEF CompNext
  <2>3. \A i \in 1 .. Len(cqueue') : i + 1 \in 1 .. Len(cqueue) /\ cqueue'[i] = cqueue[i + 1]
    BY <2>1, <2>2
  <2> HIDE DEF LeftNow
  <2> QED BY <1>a, <1>b, <2>2, <2>3
<1>5. CASE CompAck \/ CompDeleteMeta \/ CompWake \/ CompExit
  <2>1. UNCHANGED <<cchan, cqueue>> /\ comp'.pc # "ack"
    BY <1>5 DEF CompAck, CompDeleteMeta, CompWake, CompExit, TypeOK, CompStates
  <2> QED BY <1>a, <1>b, <2>1
<1>6. CASE PipelineStep
  <2>1. UNCHANGED <<cqueue, comp>> /\ (UNCHANGED cchan \/ \E w \in Workers : Sends(w))
    BY <1>6, PipelineLeaves DEF PipelineStep, PipelineTake, PipelineDrop, Discard, Sends
  <2> QED BY <1>1, <1>2, <2>1
<1> QED BY <1>1, <1>3, <1>4, <1>5, <1>6, AckWayAlone DEF CompStep

LEMMA StepLedger ==
  ASSUME WayInv, AckedLeft, [Next]_vars
  PROVE  [Ledger!Next]_(Ledger!vars)
<1>0. TypeOK /\ CompHolds /\ PumpTidy /\ Placed
  BY DEF WayInv
<1>1. CASE StatusOf(rows') = StatusOf(rows) /\ UNCHANGED <<traversed, abandoned>>
  <2>1. CASE Items = {}
    BY <1>1, <2>1 DEF Ledger!vars, StatusOf, RowIs
  <2>2. CASE Items # {}
    BY <1>1, <2>2, LedgerSteps
  <2> QED BY <2>1, <2>2
<1>2. ASSUME NEW c \in Callers, CallerStep(c) PROVE [Ledger!Next]_(Ledger!vars)
  <2>1. UNCHANGED <<traversed, abandoned>>
    BY <1>2, CallerLeaves
  <2>2. ASSUME NEW s \in Sessions, NEW e \in Entities, BacklogEnqueue(s, e)
        PROVE  [Ledger!Next]_(Ledger!vars)
    BY <1>0, <2>1, <2>2, StatusEnqueue, LedgerSteps DEF Items
  <2>3. UNCHANGED rows => StatusOf(rows') = StatusOf(rows)
    OBVIOUS
  <2> QED BY <1>0, <1>1, <1>2, <2>1, <2>2, <2>3, CallerWrites
<1>3. CASE PumpStep
  <2>1. UNCHANGED traversed
    BY <1>3, PumpLeaves
  <2>2. CASE PumpQuiet \/ \E s \in Sessions, e \in Entities : PumpAppends(s, e)
    <3>1. UNCHANGED rows /\ NothingLeft
      BY <2>2 DEF PumpQuiet, PumpAppends
    <3> QED BY <1>1, <2>1, <3>1 DEF NothingLeft
  <2>3. ASSUME NEW s \in Sessions, NEW t \in AssetTypes, NEW n, NEW C, PumpClaims(s, t, n, C)
        PROVE  [Ledger!Next]_(Ledger!vars)
    BY <1>0, <1>1, <2>1, <2>3, StatusClaim DEF PumpClaims, NothingLeft
  <2>4. ASSUME NEW s \in Sessions, NEW e \in Entities, PumpMisses(s, e)
        PROVE  [Ledger!Next]_(Ledger!vars)
    <3>1. abandoned' = abandoned \cup {<<s, e>>} /\ AckMissing(s, e) /\ Has(rows[s], e)
      BY <1>0, <2>4 DEF PumpMisses, AckMissing, OthersInPump, Placed
    <3>2. <<s, e>> \in Items /\ StatusOf(rows)[<<s, e>>] # "new"
      BY <3>1, StatusAt
    <3> QED BY <1>0, <2>1, <3>1, <3>2, StatusMissing, LedgerSteps
  <2> QED BY <1>0, <1>3, <2>2, <2>3, <2>4, PumpMoves
<1>4. CASE PipelineStep
  <2>1. UNCHANGED <<rows, traversed, abandoned>> \/ \E w \in Workers : Sends(w)
    BY <1>4 DEF PipelineStep, PipelineTake, PipelineDrop, Discard, Sends, histVars
  <2> QED BY <1>1, <2>1, LedgerExit
<1>5. CASE CompStep
  <2>1. UNCHANGED <<traversed, abandoned>>
    BY <1>5, CompLeaves
  <2>2. CASE UNCHANGED rows
    BY <1>1, <2>1, <2>2
  <2>3. CASE CompAck /\ BacklogAck(comp.el.s, comp.el.e)
    <3>1. comp.el.s \in Sessions /\ comp.el.e \in Entities
      BY <1>0, <2>3 DEF CompAck, CompHolds, Element
    <3>2. <<comp.el.s, comp.el.e>> \in traversed \cup abandoned
      BY <2>3 DEF CompAck, AckedLeft, Left
    <3> QED BY <1>0, <2>1, <2>3, <3>1, <3>2, LedgerAck
  <2> QED BY <1>5, <2>2, <2>3 DEF CompStep, CompReceive, CompNext, CompAck,
                                  CompDeleteMeta, CompWake, CompExit
<1>6. CASE UpdStep \/ SessionStep \/ UNCHANGED vars
  BY <1>1, <1>6, OthersLeave
<1> QED BY <1>2, <1>3, <1>4, <1>5, <1>6 DEF Next

\* The dispatcher is a ledger for any number of sessions, assets, callers and
\* pipeline slots, with any limits, whatever is submitted, terminated or shut
\* down and whichever operations of the databases fail: each asset is accepted,
\* passes through its pipeline or is given up by a handler or for want of its
\* entity, and only then is it done.
THEOREM KeepsLedger == Spec => LedgerSpec
<1> DEFINE IInv == WayInv /\ AckedLeft
<1>1. Init => IInv /\ Ledger!Init
  <2> SUFFICES ASSUME Init PROVE AckedLeft /\ Ledger!Init
    BY InitWay
  <2>1. AckedLeft
    BY DEF Init, AckedLeft
  <2>2. \A i \in Items : i[1] \in Sessions /\ i[2] \in Entities
    BY DEF Items
  <2>3. \A i \in Items : ~Has(rows[i[1]], i[2])
    BY <2>2 DEF Init, EmptyTable, Has
  <2> QED BY <2>1, <2>3 DEF Init, Ledger!Init
<1>2. IInv /\ [Next]_vars => IInv'
  BY StepWay, AckedStays DEF WayInv
<1>3. IInv /\ [Next]_vars => [Ledger!Next]_(Ledger!vars)
  BY StepLedger
<1> QED BY <1>1, <1>2, <1>3, PTL DEF Spec, LedgerSpec, Ledger!Spec


------------------------------------------------------------------------------
(* How often an asset is scheduled.                                        *)

LEMMA CountType ==
  ASSUME NEW q \in Seq(Element), NEW s, NEW e
  PROVE  /\ Count(q, s, e) \in Nat
         /\ Count(q, s, e) > 0 <=> InSeq(q, s, e)
<1> DEFINE S == {i \in 1 .. Len(q) : q[i].s = s /\ q[i].e = e}
<1>1. IsFiniteSet(1 .. Len(q)) /\ S \in SUBSET (1 .. Len(q))
  BY FS_Interval
<1>2. IsFiniteSet(S) /\ Cardinality(S) \in Nat
  BY <1>1, FS_Subset, FS_CardinalityType
<1>3. Cardinality(S) = 0 <=> S = {}
  BY <1>2, FS_EmptySet
<1>4. S # {} <=> InSeq(q, s, e)
  BY DEF InSeq
<1> QED BY <1>2, <1>3, <1>4 DEF Count

Fits(el, s, e) == IF el.s = s /\ el.e = e THEN 1 ELSE 0

LEMMA CountEmpty == \A s, e : Count(<< >>, s, e) = 0
<1> SUFFICES ASSUME NEW s, NEW e PROVE Count(<< >>, s, e) = 0
  OBVIOUS
<1>1. {i \in 1 .. Len(<< >>) : << >>[i].s = s /\ << >>[i].e = e} = {}
  OBVIOUS
<1> QED BY <1>1, FS_EmptySet DEF Count

LEMMA CountAppend ==
  ASSUME NEW q \in Seq(Element), NEW el \in Element, NEW s, NEW e
  PROVE  Count(Append(q, el), s, e) = Count(q, s, e) + Fits(el, s, e)
<1> DEFINE S == {i \in 1 .. Len(q) : q[i].s = s /\ q[i].e = e}
           r == Append(q, el)
           T == {i \in 1 .. Len(r) : r[i].s = s /\ r[i].e = e}
           n == Len(q) + 1
<1>1. IsFiniteSet(1 .. Len(q)) /\ S \in SUBSET (1 .. Len(q))
  BY FS_Interval
<1>2. IsFiniteSet(S) /\ Cardinality(S) \in Nat
  BY <1>1, FS_Subset, FS_CardinalityType
<1>3. Len(r) = n /\ r[n] = el /\ \A i \in 1 .. Len(q) : r[i] = q[i]
  OBVIOUS
<1>4. n \notin S /\ 1 .. n = (1 .. Len(q)) \cup {n} /\ Len(q) \in Nat
  OBVIOUS
<1>5. CASE el.s = s /\ el.e = e
  <2>1. T = S \cup {n}
    <3> HIDE DEF r, n
    <3> QED BY <1>3, <1>4, <1>5
  <2> QED BY <1>2, <1>4, <1>5, <2>1, FS_AddElement DEF Count, Fits
<1>6. CASE ~(el.s = s /\ el.e = e)
  <2>1. T = S
    <3> HIDE DEF r, n
    <3> QED BY <1>3, <1>4, <1>6
  <2>2. Count(q, s, e) = Cardinality(S) /\ Count(Append(q, el), s, e) = Cardinality(T)
    BY DEF Count
  <2> HIDE DEF S, T, r
  <2> QED BY <1>2, <1>6, <2>1, <2>2 DEF Fits
<1> QED BY <1>5, <1>6

LEMMA CountTail ==
  ASSUME NEW q \in Seq(Element), q # << >>, NEW s, NEW e
  PROVE  Count(q, s, e) = Count(Tail(q), s, e) + Fits(Head(q), s, e)
<1> DEFINE S == {i \in 1 .. Len(q) : q[i].s = s /\ q[i].e = e}
           r == Tail(q)
           T == {i \in 1 .. Len(r) : r[i].s = s /\ r[i].e = e}
           U == S \ {1}
           f == [i \in U |-> i - 1]
<1>1. IsFiniteSet(1 .. Len(q)) /\ S \in SUBSET (1 .. Len(q))
  BY FS_Interval
<1>2. IsFiniteSet(S) /\ Cardinality(S) \in Nat /\ IsFiniteSet(U)
  BY <1>1, FS_Subset, FS_CardinalityType, FS_RemoveElement
<1>3. /\ Len(q) \in Nat \ {0} /\ Len(r) = Len(q) - 1 /\ Head(q) = q[1]
      /\ \A i \in 1 .. Len(r) : r[i] = q[i + 1]
  OBVIOUS
<1>4. T = {i - 1 : i \in U}
  <2> HIDE DEF r
  <2>1. ASSUME NEW i \in T PROVE i + 1 \in U /\ i = (i + 1) - 1
    BY <1>3, <2>1
  <2>2. ASSUME NEW i \in U PROVE i - 1 \in T
    BY <1>3, <2>2
  <2> QED BY <2>1, <2>2
<1>5. ExistsBijection(U, T)
  <2>1. \A i \in U : i \in Int
    OBVIOUS
  <2> HIDE DEF S, T, U
  <2>2. f \in Bijection(U, T)
    BY <1>4, <2>1 DEF Bijection, Injection, Surjection, IsInjective
  <2> QED BY <2>2 DEF ExistsBijection
<1>6. Cardinality(U) = Cardinality(T)
  <2> HIDE DEF U, T
  <2> QED BY <1>2, <1>5, FS_Bijection
<1>7. 1 \in S <=> Head(q).s = s /\ Head(q).e = e
  BY <1>3
<1>8. Cardinality(U) = IF 1 \in S THEN Cardinality(S) - 1 ELSE Cardinality(S)
  BY <1>2, FS_RemoveElement
<1>9. Count(q, s, e) = Cardinality(S) /\ Count(Tail(q), s, e) = Cardinality(T)
  BY DEF Count
<1> HIDE DEF S, T, U
<1> QED BY <1>2, <1>6, <1>7, <1>8, <1>9 DEF Fits

LEMMA SlotsFinite ==
  \A s, e : IsFiniteSet(Slots(s, e)) /\ Cardinality(Slots(s, e)) \in Nat
<1> SUFFICES ASSUME NEW s, NEW e PROVE IsFiniteSet(Slots(s, e))
  BY FS_CardinalityType
<1>1. IsFiniteSet(1 .. PipeDepth) /\ Slots(s, e) \in SUBSET (1 .. PipeDepth)
  BY FS_Interval, DispatcherAssumption DEF Slots
<1> QED BY <1>1, FS_Subset

LEMMA EnqueueMoves ==
  ASSUME TypeOK, NEW s \in Sessions, NEW e \in Entities, BacklogEnqueue(s, e)
  PROVE  /\ \A x \in Sessions, y \in Entities : ~(x = s /\ y = e) => rows'[x][y] = rows[x][y]
         /\ InState(rows'[s], e, "queued")
<1>0. rows \in [Sessions -> Tables] /\ Now \in Nat
  BY DEF TypeOK, Now
<1>1. rows' = [rows EXCEPT ![s] = Enqueue(rows[s], e, Now)]
  BY DEF BacklogEnqueue
<1>2. /\ \A y \in Entities : y # e => Enqueue(rows[s], e, Now)[y] = rows[s][y]
      /\ Has(Enqueue(rows[s], e, Now), e)
      /\ Enqueue(rows[s], e, Now)[e].state = "queued"
  BY <1>0, UpsertRow, UpsertHas DEF Enqueue, States
<1>3. \A x \in Sessions : rows'[x] = IF x = s THEN Enqueue(rows[s], e, Now) ELSE rows[x]
  BY <1>0, <1>1
<1> QED BY <1>2, <1>3 DEF InState, Has

LEMMA AckMoves ==
  ASSUME TypeOK, NEW s \in Sessions, NEW e \in Entities, BacklogAck(s, e)
  PROVE  /\ \A x \in Sessions, y \in Entities : ~(x = s /\ y = e) => rows'[x][y] = rows[x][y]
         /\ InState(rows'[s], e, "done") <=> Has(rows[s], e)
         /\ Has(rows'[s], e) <=> Has(rows[s], e)
<1>0. rows \in [Sessions -> Tables]
  BY DEF TypeOK
<1>1. rows' = [rows EXCEPT ![s] = Ack(rows[s], e, NoOwner)]
  BY DEF BacklogAck
<1>2. /\ \A y \in Entities : y # e => Ack(rows[s], e, NoOwner)[y] = rows[s][y]
      /\ Has(Ack(rows[s], e, NoOwner), e) <=> Has(rows[s], e)
      /\ InState(Ack(rows[s], e, NoOwner), e, "done") <=> Has(rows[s], e)
  BY <1>0, AckAnyRow, AckHas
<1>3. \A x \in Sessions : rows'[x] = IF x = s THEN Ack(rows[s], e, NoOwner) ELSE rows[x]
  BY <1>0, <1>1
<1> QED BY <1>2, <1>3


\* Only an enqueue makes a row queued.
LEMMA NoneQueued ==
  ASSUME TypeOK, NEW s \in Sessions, NEW e \in Entities,
         BacklogAck(s, e) \/ AckMissing(s, e),
         NEW x \in Sessions, NEW y \in Entities, InState(rows'[x], y, "queued")
  PROVE  RowIs(x, y, "queued")
<1>0. rows \in [Sessions -> Tables]
  BY DEF TypeOK
<1>1. CASE UNCHANGED rows
  BY <1>1 DEF RowIs
<1>2. ASSUME NEW o, rows' = [rows EXCEPT ![s] = Ack(rows[s], e, o)]
      PROVE  RowIs(x, y, "queued")
  <2>1. \/ Ack(rows[s], e, o)[y] = rows[s][y]
        \/ Ack(rows[s], e, o)[y].state = "done"
    BY <1>0, AckRow
  <2> QED BY <1>0, <1>2, <2>1 DEF InState, RowIs
<1> QED BY <1>1, <1>2 DEF BacklogAck, AckMissing

Queued(s, e) == IF RowIs(s, e, "queued") THEN 1 ELSE 0

\* The runs of an asset, and the one its queued row stands for.
Load(s, e) == Runs(s, e) + Queued(s, e)

RunsCounted ==
  \A s \in Sessions, e \in Entities :
    /\ Count(queue[s][TypeOf[e]], s, e) \in Nat /\ Cardinality(Slots(s, e)) \in Nat
    /\ Load(s, e) \in Nat

LEMMA RunsType == TypeOK => RunsCounted
<1> SUFFICES ASSUME TypeOK, NEW s \in Sessions, NEW e \in Entities
             PROVE  /\ Count(queue[s][TypeOf[e]], s, e) \in Nat
                    /\ Cardinality(Slots(s, e)) \in Nat /\ Load(s, e) \in Nat
  BY DEF RunsCounted
<1>1. queue[s][TypeOf[e]] \in Seq(Element)
  BY BacklogRowsAssumption DEF TypeOK
<1>2. Count(queue[s][TypeOf[e]], s, e) \in Nat
  BY <1>1, CountType
<1> QED BY <1>2, SlotsFinite DEF Load, Runs, Queued

Total(p, q, w, r) == p + q + w + r

LEMMA SumLess ==
  ASSUME NEW p \in Nat, NEW q \in Nat, NEW w \in Nat, NEW r \in Nat,
         NEW p1 \in Nat, NEW q1 \in Nat, NEW w1 \in Nat, NEW r1 \in Nat,
         \/ p1 <= p /\ q1 <= q /\ w1 <= w /\ r1 <= r
         \/ p1 + q1 <= p + q /\ w1 <= w /\ r1 <= r
         \/ p1 <= p /\ q1 + w1 <= q + w /\ r1 <= r
  PROVE  Total(p1, q1, w1, r1) <= Total(p, q, w, r)
BY DEF Total

\* What the pump does: nothing, or it makes the queued row a claim, or it hands
\* a claim on.
LEMMA LoadOfPump ==
  ASSUME WayInv, PumpStep, RunsCounted, RunsCounted', NEW s \in Sessions, NEW e \in Entities
  PROVE  Load(s, e)' <= Load(s, e)
<1>0. /\ queue \in [Sessions -> [AssetTypes -> Seq(Element)]] /\ rows \in [Sessions -> Tables]
      /\ TypeOf[e] \in AssetTypes /\ queue[s][TypeOf[e]] \in Seq(Element)
  BY BacklogRowsAssumption DEF WayInv, TypeOK
<1> DEFINE P == IF InPump(s, e) THEN 1 ELSE 0
           Q == Count(queue[s][TypeOf[e]], s, e)
           W == Cardinality(Slots(s, e))
           R == Queued(s, e)
<1>1. W' = W
  BY PumpLeaves DEF Slots
<1>2. Q \in Nat /\ Q' \in Nat /\ W \in Nat /\ W' \in Nat /\ P \in Nat /\ P' \in Nat
      /\ R \in Nat /\ R' \in Nat
      /\ Load(s, e) = P + Q + W + R /\ Load(s, e)' = P' + Q' + W' + R'
  BY DEF RunsCounted, Load, Runs, Queued
<1>t. Load(s, e) = Total(P, Q, W, R) /\ Load(s, e)' = Total(P', Q', W', R')
  BY <1>2 DEF Total
<1>n. Q \in Nat /\ Q' \in Nat /\ W \in Nat /\ W' \in Nat /\ P \in Nat /\ P' \in Nat
      /\ R \in Nat /\ R' \in Nat
  BY <1>2
<1>3. UNCHANGED queue => Q' = Q
  BY DEF Count
<1>4. UNCHANGED rows => R' = R
  BY DEF Queued, RowIs
<1>5. CASE PumpQuiet
  <2>1. P' = P /\ UNCHANGED <<rows, queue>>
    BY <1>5 DEF PumpQuiet
  <2> HIDE DEF P, Q, W, R
  <2> QED BY <1>1, <1>2, <1>3, <1>4, <2>1
<1>6. ASSUME NEW x \in Sessions, NEW t \in AssetTypes, NEW n, NEW C, PumpClaims(x, t, n, C)
      PROVE  Load(s, e)' <= Load(s, e)
  <2>1. BacklogClaim(x, t, n, C) /\ UNCHANGED queue /\ ~InPump(s, e)
        /\ (InPump(s, e)' <=> (s = x /\ e \in C))
    BY <1>6 DEF PumpClaims
  <2>2. CASE s = x /\ e \in C
    <3>1. RowIs(s, e, "queued") /\ InState(rows'[s], e, "leased")
      BY <2>1, <2>2, ClaimSound DEF WayInv
    <3>2. R = 1 /\ R' = 0 /\ P = 0 /\ P' = 1
      BY <2>1, <2>2, <3>1 DEF Queued, RowIs, InState
    <3> HIDE DEF P, Q, W, R
    <3> QED BY <1>1, <1>2, <1>3, <2>1, <3>2
  <2>3. CASE ~(s = x /\ e \in C)
    <3>1. rows'[s][e] = rows[s][e]
      <4>1. s = x => e \in Entities \ C
        BY <2>3
      <4>2. s # x => rows'[s] = rows[s]
        BY <1>0, <2>1 DEF BacklogClaim
      <4>3. s = x => rows'[s][e] = rows[s][e]
        BY <2>1, <4>1, ClaimSound DEF WayInv
      <4> QED BY <4>2, <4>3
    <3>2. R' = R /\ P = 0 /\ P' = 0
      BY <2>1, <2>3, <3>1 DEF Queued, RowIs, InState
    <3> HIDE DEF P, Q, W, R
    <3> QED BY <1>1, <1>2, <1>3, <2>1, <3>2
  <2> QED BY <2>2, <2>3
<1>7. ASSUME NEW x \in Sessions, NEW y \in Entities, PumpMisses(x, y)
      PROVE  Load(s, e)' <= Load(s, e)
  <2>1. UNCHANGED queue /\ (InPump(s, e)' => InPump(s, e))
    BY <1>7 DEF PumpMisses, OthersInPump
  <2>2. InState(rows'[s], e, "queued") => RowIs(s, e, "queued")
    BY <1>7, NoneQueued DEF PumpMisses, WayInv
  <2>3. P' <= P /\ R' <= R
    BY <2>1, <2>2 DEF Queued, RowIs
  <2>4. Q' <= Q /\ W' <= W
    BY <1>1, <1>2, <1>3, <2>1
  <2> HIDE DEF P, Q, W, R
  <2>5. Total(P', Q', W', R') <= Total(P, Q, W, R)
    BY <1>n, <2>3, <2>4, SumLess
  <2> QED BY <1>t, <2>5
<1>8. ASSUME NEW x \in Sessions, NEW y \in Entities, PumpAppends(x, y)
      PROVE  Load(s, e)' <= Load(s, e)
  <2> DEFINE el == [s |-> x, e |-> y, m |-> GetEntry(x, y)]
             u == TypeOf[y]
  <2>1. u \in AssetTypes /\ el \in Element /\ el.s = x /\ el.e = y
    BY BacklogRowsAssumption DEF GetEntry, WayInv, TypeOK, Element
  <2>2. /\ queue' = [queue EXCEPT ![x][u] = Append(@, el)] /\ UNCHANGED rows
        /\ InPump(x, y) /\ ~InPump(x, y)' /\ (InPump(s, e)' => InPump(s, e))
    BY <1>8 DEF PumpAppends, OthersInPump
  <2> HIDE DEF el
  <2>3. CASE s = x /\ e = y
    <3>1. queue'[s][TypeOf[e]] = Append(queue[s][TypeOf[e]], el)
      BY <1>0, <2>1, <2>2, <2>3
    <3>2. Count(Append(queue[s][TypeOf[e]], el), s, e) = Q + 1
      BY <1>0, <2>1, <2>3, CountAppend DEF Fits
    <3>3. Q' = Q + 1 /\ P = 1 /\ P' = 0
      BY <2>2, <2>3, <3>1, <3>2
    <3> HIDE DEF P, Q, W, R
    <3> QED BY <1>1, <1>2, <1>4, <2>2, <3>3
  <2>4. CASE ~(s = x /\ e = y)
    <3>1. \/ queue'[s][TypeOf[e]] = Append(queue[s][TypeOf[e]], el)
          \/ queue'[s][TypeOf[e]] = queue[s][TypeOf[e]]
      BY <1>0, <2>1, <2>2
    <3>2. Count(Append(queue[s][TypeOf[e]], el), s, e) = Q
      <4>1. Fits(el, s, e) = 0
        BY <2>1, <2>4 DEF Fits
      <4>2. Count(Append(queue[s][TypeOf[e]], el), s, e) = Q + Fits(el, s, e)
        BY <1>0, <2>1, CountAppend
      <4> QED BY <1>2, <4>1, <4>2
    <3>3. Q' = Q
      BY <3>1, <3>2
    <3>4. P' <= P
      BY <2>2
    <3>5. Q' <= Q /\ W' <= W /\ R' <= R
      BY <1>1, <1>2, <1>4, <2>2, <3>3
    <3> HIDE DEF P, Q, W, R
    <3>6. Total(P', Q', W', R') <= Total(P, Q, W, R)
      BY <1>n, <3>4, <3>5, SumLess
    <3> QED BY <1>t, <3>6
  <2> QED BY <2>3, <2>4
<1> QED BY <1>5, <1>6, <1>7, <1>8, PumpMoves DEF WayInv

LEMMA LoadOfPipelines ==
  ASSUME WayInv, PipelineStep, ~PumpStep, [Next]_vars, RunsCounted, RunsCounted',
         NEW s \in Sessions, NEW e \in Entities
  PROVE  Load(s, e)' <= Load(s, e)
<1>0. /\ queue \in [Sessions -> [AssetTypes -> Seq(Element)]] /\ rows \in [Sessions -> Tables]
      /\ worker \in [Workers -> Element \cup {NoElement}] /\ TypeOf[e] \in AssetTypes
      /\ queue[s][TypeOf[e]] \in Seq(Element)
  BY BacklogRowsAssumption DEF WayInv, TypeOK
<1> DEFINE P == IF InPump(s, e) THEN 1 ELSE 0
           Q == Count(queue[s][TypeOf[e]], s, e)
           W == Cardinality(Slots(s, e))
           R == Queued(s, e)
<1>1. P' = P
  BY PumpAlone DEF InPump
<1>2. /\ Q \in Nat /\ Q' \in Nat /\ W \in Nat /\ W' \in Nat /\ P \in Nat /\ P' \in Nat
      /\ R \in Nat /\ R' \in Nat
      /\ Load(s, e) = P + Q + W + R /\ Load(s, e)' = P' + Q' + W' + R'
  BY DEF RunsCounted, Load, Runs, Queued
<1>t. Load(s, e) = Total(P, Q, W, R) /\ Load(s, e)' = Total(P', Q', W', R')
  BY <1>2 DEF Total
<1>n. Q \in Nat /\ Q' \in Nat /\ W \in Nat /\ W' \in Nat /\ P \in Nat /\ P' \in Nat
      /\ R \in Nat /\ R' \in Nat
  BY <1>2
<1>3. UNCHANGED queue => Q' = Q
  BY DEF Count
<1>4. UNCHANGED rows => R' = R
  BY DEF Queued, RowIs
<1>5. UNCHANGED worker => W' = W
  BY DEF Slots
<1>6. ASSUME Q' + W' <= Q + W \/ (Q' <= Q /\ W' <= W), R' <= R
      PROVE  Load(s, e)' <= Load(s, e)
  <2>1. P' <= P
    BY <1>1
  <2> HIDE DEF P, Q, W, R
  <2>2. Total(P', Q', W', R') <= Total(P, Q, W, R)
    BY <1>n, <1>6, <2>1, SumLess
  <2> QED BY <1>t, <2>2
<1>7. ASSUME NEW w \in Workers, worker' = [worker EXCEPT ![w] = NoElement]
      PROVE  W' <= W
  <2>1. \A j \in 1 .. PipeDepth :
          worker'[<<s, TypeOf[e], j>>] \in {worker[<<s, TypeOf[e], j>>], NoElement}
    BY <1>0, <1>7 DEF Workers
  <2>2. Slots(s, e)' \subseteq Slots(s, e)
    BY <2>1 DEF Slots
  <2> QED BY <2>2, SlotsFinite, FS_Subset
<1>8. ASSUME NEW x \in Sessions, NEW t \in AssetTypes, NEW k \in 1 .. PipeDepth,
             PipelineTake(x, t, k)
      PROVE  Load(s, e)' <= Load(s, e)
  <2> DEFINE el == Head(queue[x][t])
             w == <<x, t, k>>
  <2>1. /\ UNCHANGED rows /\ queue[x][t] # << >> /\ queue[x][t] \in Seq(Element)
        /\ worker[w] = NoElement /\ w \in Workers
        /\ worker' = [worker EXCEPT ![w] = el]
        /\ queue' = [queue EXCEPT ![x][t] = Tail(@)]
    BY <1>0, <1>8 DEF PipelineTake, Workers
  <2>2. el # NoElement /\ el \in Element /\ el.s = x
    <3>1. el = queue[x][t][1] /\ 1 \in 1 .. Len(queue[x][t]) /\ el \in Element
      BY <2>1
    <3>2. InPlace(rows, queue[x][t][1], x, t)
      BY <3>1 DEF WayInv, Placed
    <3> QED BY <3>1, <3>2, ElementAssumption DEF InPlace
  <2> HIDE DEF w
  <2>3. CASE s = x /\ TypeOf[e] = t
    <3>1. queue'[s][TypeOf[e]] = Tail(queue[x][t])
      BY <1>0, <2>1, <2>3
    <3>2. Count(queue[x][t], s, e) = Count(Tail(queue[x][t]), s, e) + Fits(el, s, e)
      BY <2>1, CountTail
    <3>3. Q = Q' + Fits(el, s, e)
      BY <2>3, <3>1, <3>2
    <3>4. \A j \in 1 .. PipeDepth :
            /\ j # k => worker'[<<s, TypeOf[e], j>>] = worker[<<s, TypeOf[e], j>>]
            /\ j = k => worker'[<<s, TypeOf[e], j>>] = el
      BY <1>0, <2>1, <2>3 DEF w, Workers
    <3>5. k \notin Slots(s, e)
      BY <2>1, <2>3 DEF Slots, w
    <3> HIDE DEF el
    <3>6. CASE el.e = e
      <4>1. Slots(s, e)' = Slots(s, e) \cup {k}
        BY <2>2, <3>4, <3>6 DEF Slots
      <4>2. W' = W + 1
        BY <3>5, <4>1, SlotsFinite, FS_AddElement
      <4>3. Q = Q' + 1
        BY <2>2, <2>3, <3>3, <3>6 DEF Fits
      <4> HIDE DEF Q, W, R
      <4> QED BY <1>2, <1>4, <1>6, <2>1, <4>2, <4>3
    <3>7. CASE el.e # e
      <4>1. Slots(s, e)' = Slots(s, e)
        BY <3>4, <3>5, <3>7 DEF Slots
      <4>2. Q = Q'
        BY <1>2, <3>3, <3>7 DEF Fits
      <4> QED BY <1>2, <1>4, <1>6, <2>1, <4>1, <4>2
    <3> QED BY <3>6, <3>7
  <2>4. CASE ~(s = x /\ TypeOf[e] = t)
    <3>1. queue'[s][TypeOf[e]] = queue[s][TypeOf[e]]
      BY <1>0, <2>1, <2>4
    <3>2. \A j \in 1 .. PipeDepth : worker'[<<s, TypeOf[e], j>>] = worker[<<s, TypeOf[e], j>>]
      BY <1>0, <2>1, <2>4 DEF w, Workers
    <3>3. Q' = Q /\ Slots(s, e)' = Slots(s, e)
      BY <3>1, <3>2 DEF Slots
    <3> QED BY <1>2, <1>4, <1>6, <2>1, <3>3
  <2> QED BY <2>3, <2>4
<1>9. ASSUME NEW x \in Sessions, NEW t \in AssetTypes, PipelineDrop(x, t)
      PROVE  Load(s, e)' <= Load(s, e)
  <2>1. UNCHANGED <<rows, worker>> /\ queue' = [queue EXCEPT ![x][t] = << >>]
    BY <1>9 DEF PipelineDrop, slotVars
  <2>2. queue'[s][TypeOf[e]] = queue[s][TypeOf[e]] \/ queue'[s][TypeOf[e]] = << >>
    BY <1>0, <2>1
  <2>3. Q' <= Q
    BY <1>2, <2>2, CountEmpty
  <2> HIDE DEF Q, W, R
  <2> QED BY <1>2, <1>4, <1>5, <1>6, <2>1, <2>3
<1>10. ASSUME NEW w \in Workers, Sends(w) PROVE Load(s, e)' <= Load(s, e)
  <2>1. UNCHANGED queue /\ (UNCHANGED worker \/ worker' = [worker EXCEPT ![w] = NoElement])
    BY <1>10, Sending DEF WayInv, Vacate
  <2>2. UNCHANGED rows
        \/ \E x \in Sessions, y \in Entities : BacklogAck(x, y)
    BY <1>10, Sending, SendEnds DEF WayInv
  <2>3. InState(rows'[s], e, "queued") => RowIs(s, e, "queued")
    BY <2>2, NoneQueued DEF WayInv, RowIs
  <2>4. R' <= R
    BY <2>3 DEF Queued, RowIs
  <2>5. W' <= W
    BY <1>2, <1>5, <1>7, <2>1, SlotsFinite
  <2>6. Q' <= Q
    BY <1>2, <1>3, <2>1
  <2> HIDE DEF Q, W, R
  <2> QED BY <1>6, <2>4, <2>5, <2>6
<1>11. ASSUME NEW w \in Workers, Discard(w) PROVE Load(s, e)' <= Load(s, e)
  <2>1. UNCHANGED <<queue, rows>> /\ worker' = [worker EXCEPT ![w] = NoElement]
    BY <1>11 DEF Discard, Vacate, PipelineUnchanged
  <2>2. W' <= W
    BY <1>7, <2>1
  <2>3. Q' <= Q
    BY <1>2, <1>3, <2>1
  <2>4. R' <= R
    BY <1>2, <1>4, <2>1
  <2> HIDE DEF Q, W, R
  <2> QED BY <1>6, <2>2, <2>3, <2>4
<1> QED BY <1>8, <1>9, <1>10, <1>11 DEF PipelineStep, Sends

\* Whoever else takes a step starts and ends no run.
LEMMA LoadOfOthers ==
  ASSUME WayInv, [Next]_vars, ~PumpStep, ~PipelineStep, RunsCounted,
         NEW s \in Sessions, NEW e \in Entities
  PROVE  /\ Runs(s, e)' = Runs(s, e)
         /\ (InState(rows'[s], e, "queued") => RowIs(s, e, "queued"))
              => Load(s, e)' <= Load(s, e)
         /\ Load(s, e)' <= Load(s, e) + 1
<1>1. UNCHANGED <<pump, queue, worker>>
  BY PumpAlone, PipesAlone
<1>2. Runs(s, e)' = Runs(s, e)
  BY <1>1 DEF Runs, InPump, Count, Slots
<1>3. Runs(s, e) \in Nat
  BY DEF RunsCounted, Runs
<1> QED BY <1>2, <1>3 DEF Load, Queued, RowIs


------------------------------------------------------------------------------
(* The calls that will still queue an asset.                               *)

\* The caller has decided to queue the asset and has not done so.
Waits(c, s, e) == /\ pc[c] \in {"insert", "enqueue"} /\ calls[c] # << >>
                  /\ Cur(c).s = s /\ Cur(c).e = e /\ s \notin killed

Waiting(s, e) == {c \in Callers : Waits(c, s, e)}

LEMMA WaitingFinite ==
  ASSUME NEW s, NEW e
  PROVE  /\ IsFiniteSet(Waiting(s, e)) /\ Cardinality(Waiting(s, e)) \in Nat
         /\ IsFiniteSet(Waiting(s, e)') /\ Cardinality(Waiting(s, e)') \in Nat
<1>1. IsFiniteSet(Callers) /\ Waiting(s, e) \subseteq Callers /\ Waiting(s, e)' \subseteq Callers
  BY DispatcherAssumption DEF Waiting
<1> QED BY <1>1, FS_Subset, FS_CardinalityType

LEMMA FewerWait ==
  ASSUME NEW s, NEW e, Waiting(s, e)' \subseteq Waiting(s, e)
  PROVE  Cardinality(Waiting(s, e)') <= Cardinality(Waiting(s, e))
BY WaitingFinite, FS_Subset

\* A caller's step is about itself.
LEMMA OthersWait ==
  ASSUME TypeOK, NEW c \in Callers, CallerStep(c)
  PROVE  \A d \in Callers \ {c} :
           /\ calls'[d] = calls[d] /\ pc'[d] = pc[d]
           /\ \A s, e : Waits(d, s, e)' <=> Waits(d, s, e)
<1>1. ASSUME NEW d \in Callers \ {c} PROVE calls'[d] = calls[d] /\ pc'[d] = pc[d]
  BY <1>1 DEF CallerStep, CheckBacklog, InsertMeta, EnqueueRow, UndoMeta, SignalScheduling,
              Requeue, Return, Goto, TypeOK
<1>2. UNCHANGED killed
  BY CallerLeaves
<1> QED BY <1>1, <1>2 DEF Waits, Cur

\* The asset's runs, queued row and waiting calls against the calls that had
\* reason to queue it and the failures.
Within(l, w, a, f) == l + w <= a + f

Law ==
  \A s \in Sessions, e \in Entities :
    Within(Load(s, e), Cardinality(Waiting(s, e)), asked[s][e], faults)

LEMMA StillWithin ==
  ASSUME NEW l \in Nat, NEW w \in Nat, NEW a \in Nat, NEW f \in Nat, Within(l, w, a, f),
         NEW l1 \in Nat, NEW w1 \in Nat, NEW a1 \in Nat, NEW f1 \in Nat,
         a <= a1, f <= f1,
         \/ l1 <= l /\ w1 <= w
         \/ l1 <= l + 1 /\ w1 + 1 = w
         \/ l1 <= l /\ w1 = w + 1 /\ (a1 = a + 1 \/ f1 = f + 1)
         \/ l1 <= l + 1 /\ w1 <= w /\ a1 = a + 1
  PROVE  Within(l1, w1, a1, f1)
BY DEF Within

\* What a caller does to an asset: nothing that counts; it decides to queue it,
\* with reason or because of a failure; it queues it after that; or it queues it
\* at once.
Idles(s, e) == /\ (InState(rows'[s], e, "queued") => RowIs(s, e, "queued"))
               /\ Waiting(s, e)' \subseteq Waiting(s, e)

Decides(s, e) == /\ UNCHANGED rows
                 /\ \E c \in Callers \ Waiting(s, e) : Waiting(s, e)' = Waiting(s, e) \cup {c}
                 /\ asked'[s][e] = asked[s][e] + 1 \/ faults' = faults + 1

Acts(s, e) == \E c \in Waiting(s, e) : Waiting(s, e)' = Waiting(s, e) \ {c}

Forces(s, e) == Waiting(s, e)' \subseteq Waiting(s, e) /\ asked'[s][e] = asked[s][e] + 1

LEMMA CallerMoves ==
  ASSUME TypeOK, NEW c \in Callers, CallerStep(c), NEW s \in Sessions, NEW e \in Entities
  PROVE  /\ asked'[s][e] \in {asked[s][e], asked[s][e] + 1}
         /\ Idles(s, e) \/ Decides(s, e) \/ Acts(s, e) \/ Forces(s, e)
<1>0. /\ asked \in [Sessions -> [Entities -> Nat]] /\ pc \in [Callers -> {"has", "insert", "enqueue", "undo", "signal"}]
      /\ calls \in [Callers -> Seq(Call)]
  BY DEF TypeOK, HistoryOK
<1>1. \A d \in Callers \ {c} : Waits(d, s, e)' <=> Waits(d, s, e)
  BY OthersWait
<1>2. Active(c) /\ Cur(c).s \in Sessions /\ Cur(c).e \in Entities /\ calls[c] # << >>
      /\ UNCHANGED killed
  <2>1. Active(c)
    BY DEF CallerStep, CheckBacklog, InsertMeta, EnqueueRow, UndoMeta, SignalScheduling, Requeue
  <2> QED BY <2>1, CurType, CallerLeaves DEF Active
<1>3. ~Waits(c, s, e)' \/ Waits(c, s, e) => Waiting(s, e)' \subseteq Waiting(s, e)
  BY <1>1 DEF Waiting
<1>4. UNCHANGED rows => (InState(rows'[s], e, "queued") => RowIs(s, e, "queued"))
  BY DEF RowIs
<1> DEFINE here == Cur(c).s = s /\ Cur(c).e = e
<1>5. ASSUME BacklogEnqueue(Cur(c).s, Cur(c).e), ~here
      PROVE  InState(rows'[s], e, "queued") => RowIs(s, e, "queued")
  <2>1. rows'[s][e] = rows[s][e]
    BY <1>2, <1>5, EnqueueMoves
  <2> QED BY <2>1 DEF InState, RowIs
<1>a. ASSUME NEW x \in Sessions, NEW y \in Entities, Asks(x, y)
      PROVE  asked'[s][e] = IF x = s /\ y = e THEN asked[s][e] + 1 ELSE asked[s][e]
  BY <1>0, <1>a DEF Asks
<1>6. CASE CheckBacklog(c)
  <2>1. ~Waits(c, s, e) /\ UNCHANGED rows
    BY <1>6 DEF CheckBacklog, Waits
  <2>2. asked'[s][e] \in {asked[s][e], asked[s][e] + 1}
    <3>1. UNCHANGED asked \/ Asks(Cur(c).s, Cur(c).e)
      BY <1>6 DEF CheckBacklog
    <3> QED BY <1>2, <1>a, <3>1
  <2>3. CASE ~Waits(c, s, e)'
    BY <1>3, <1>4, <2>1, <2>2, <2>3 DEF Idles
  <2>4. CASE Waits(c, s, e)'
    <3>1. pc'[c] # "has"
      BY <2>4 DEF Waits
    <3>2. PICK found \in BOOLEAN :
            /\ BacklogHas(Cur(c).s, Cur(c).e, found) /\ Proceeds(Cur(c).kind, found)
            /\ Goto(c, "insert")
            /\ IF Cur(c).kind = "resubmit" \/ ~Has(rows[Cur(c).s], Cur(c).e)
                 THEN Asks(Cur(c).s, Cur(c).e) ELSE UNCHANGED asked
      BY <1>0, <1>6, <3>1 DEF CheckBacklog, Return
    <3>3. here /\ s \notin killed
      BY <1>2, <2>4, <3>2 DEF Waits, Cur, Goto
    <3>4. Asks(s, e) => asked'[s][e] = asked[s][e] + 1
      BY <1>0 DEF Asks
    <3>5. \/ found = Has(rows[s], e)
          \/ ~found /\ faults' = faults + 1
      BY <3>2, <3>3 DEF BacklogHas, Fails
    <3>6. asked'[s][e] = asked[s][e] + 1 \/ faults' = faults + 1
      BY <3>2, <3>3, <3>4, <3>5 DEF Proceeds
    <3>7. c \in Callers \ Waiting(s, e) /\ Waiting(s, e)' = Waiting(s, e) \cup {c}
      BY <1>1, <2>1, <2>4 DEF Waiting
    <3> QED BY <2>1, <2>2, <3>6, <3>7 DEF Decides
  <2> QED BY <2>3, <2>4
<1>7. CASE InsertMeta(c)
  <2>1. UNCHANGED <<rows, asked>> /\ Waits(c, s, e)' = Waits(c, s, e)
    BY <1>0, <1>2, <1>7 DEF InsertMeta, Goto, Waits, Cur
  <2> QED BY <1>3, <1>4, <2>1 DEF Idles
<1>8. CASE EnqueueRow(c)
  <2>1. UNCHANGED asked /\ ~Waits(c, s, e)'
    BY <1>0, <1>8 DEF EnqueueRow, Goto, Waits
  <2>2. CASE BacklogEnqueue(Cur(c).s, Cur(c).e) /\ here
    <3>1. Waits(c, s, e)
      BY <1>2, <1>8, <2>2 DEF EnqueueRow, BacklogEnqueue, Works, Waits
    <3>2. c \in Waiting(s, e) /\ Waiting(s, e)' = Waiting(s, e) \ {c}
      BY <1>1, <2>1, <3>1 DEF Waiting
    <3> QED BY <2>1, <3>2 DEF Acts
  <2>3. CASE UNCHANGED rows \/ (BacklogEnqueue(Cur(c).s, Cur(c).e) /\ ~here)
    BY <1>3, <1>4, <1>5, <2>1, <2>3 DEF Idles
  <2> QED BY <1>8, <2>2, <2>3 DEF EnqueueRow
<1>9. CASE UndoMeta(c) \/ SignalScheduling(c)
  <2>1. UNCHANGED <<rows, asked>> /\ ~Waits(c, s, e)'
    BY <1>0, <1>9 DEF UndoMeta, SignalScheduling, Return, Waits, histVars
  <2> QED BY <1>3, <1>4, <2>1 DEF Idles
<1>10. CASE Requeue(c)
  <2>1. ~Waits(c, s, e)'
    BY <1>0, <1>10 DEF Requeue, Return, Waits
  <2>2. CASE UNCHANGED <<rows, asked>>
    BY <1>3, <1>4, <2>1, <2>2 DEF Idles
  <2>3. CASE BacklogEnqueue(Cur(c).s, Cur(c).e) /\ Asks(Cur(c).s, Cur(c).e)
    <3>1. here => asked'[s][e] = asked[s][e] + 1
      BY <1>0, <2>3 DEF Asks
    <3>2. ~here => asked'[s][e] = asked[s][e]
      BY <1>0, <1>2, <2>3 DEF Asks
    <3> QED BY <1>3, <1>5, <2>1, <2>3, <3>1, <3>2 DEF Idles, Forces
  <2> QED BY <1>10, <2>2, <2>3 DEF Requeue
<1> QED BY <1>6, <1>7, <1>8, <1>9, <1>10 DEF CallerStep

LEMMA StepLaw ==
  ASSUME WayInv, WayInv', RunsCounted, RunsCounted', Law, [Next]_vars
  PROVE  Law'
<1> SUFFICES ASSUME NEW s \in Sessions, NEW e \in Entities
             PROVE  Within(Load(s, e)', Cardinality(Waiting(s, e)'), asked'[s][e], faults')
  BY DEF Law
<1> DEFINE L == Load(s, e)
           C == Cardinality(Waiting(s, e))
           A == asked[s][e]
<1>1. /\ L \in Nat /\ L' \in Nat /\ C \in Nat /\ C' \in Nat /\ A \in Nat /\ A' \in Nat
      /\ faults \in Nat /\ faults' \in Nat /\ Within(L, C, A, faults)
  <2>1. asked \in [Sessions -> [Entities -> Nat]] /\ asked' \in [Sessions -> [Entities -> Nat]]
        /\ faults \in 0 .. MaxFaults /\ faults' \in 0 .. MaxFaults
    BY DEF WayInv, TypeOK, HistoryOK
  <2> QED BY <2>1, WaitingFinite, DispatcherAssumption DEF RunsCounted, Law
<1>2. faults <= faults'
  BY <1>1, FaultsGrow DEF WayInv
<1>3. ASSUME L' <= L, C' <= C, A <= A' PROVE Within(L', C', A', faults')
  <2> HIDE DEF L, C, A
  <2> QED BY <1>1, <1>2, <1>3, StillWithin
<1>4. ASSUME UNCHANGED <<calls, pc, killed, asked>>, L' <= L PROVE Within(L', C', A', faults')
  <2>1. C' = C
    BY <1>4 DEF Waiting, Waits, Cur
  <2>2. C' <= C /\ A <= A'
    BY <1>1, <1>4, <2>1
  <2> QED BY <1>3, <1>4, <2>2
<1>5. CASE PumpStep
  BY <1>4, <1>5, PumpLeaves, LoadOfPump
<1>6. CASE PipelineStep /\ ~PumpStep
  BY <1>4, <1>6, PipelineLeaves, LoadOfPipelines
<1>7. CASE ~PumpStep /\ ~PipelineStep
  <2>1. /\ (InState(rows'[s], e, "queued") => RowIs(s, e, "queued")) => L' <= L
        /\ L' <= L + 1
    BY <1>7, LoadOfOthers
  <2>2. ASSUME NEW c \in Callers, CallerStep(c) PROVE Within(L', C', A', faults')
    <3>1. A <= A' /\ (Idles(s, e) \/ Decides(s, e) \/ Acts(s, e) \/ Forces(s, e))
      <4>1. A' \in {A, A + 1}
        BY <2>2, CallerMoves DEF WayInv
      <4> HIDE DEF A
      <4>2. A <= A'
        BY <1>1, <4>1
      <4> QED BY <2>2, <4>2, CallerMoves DEF WayInv
    <3>2. CASE Idles(s, e)
      BY <1>3, <2>1, <3>1, <3>2, FewerWait DEF Idles
    <3>3. CASE Decides(s, e)
      <4>1. PICK d \in Callers \ Waiting(s, e) : Waiting(s, e)' = Waiting(s, e) \cup {d}
        BY <3>3 DEF Decides
      <4>2. C' = C + 1
        BY <4>1, WaitingFinite, FS_AddElement
      <4>3. L' <= L /\ (A' = A + 1 \/ faults' = faults + 1)
        BY <2>1, <3>3 DEF Decides, RowIs
      <4> HIDE DEF L, C, A
      <4> QED BY <1>1, <1>2, <3>1, <4>2, <4>3, StillWithin
    <3>4. CASE Acts(s, e)
      <4>1. PICK d \in Waiting(s, e) : Waiting(s, e)' = Waiting(s, e) \ {d}
        BY <3>4 DEF Acts
      <4>2. C' = C - 1
        BY <4>1, WaitingFinite, FS_RemoveElement
      <4> HIDE DEF L, C, A
      <4>3. C' + 1 = C
        BY <1>1, <4>2
      <4> QED BY <1>1, <1>2, <2>1, <3>1, <4>3, StillWithin
    <3>5. CASE Forces(s, e)
      <4>1. C' <= C /\ A' = A + 1
        BY <3>5, FewerWait DEF Forces
      <4> HIDE DEF L, C, A
      <4> QED BY <1>1, <1>2, <2>1, <3>1, <4>1, StillWithin
    <3> QED BY <3>1, <3>2, <3>3, <3>4, <3>5
  <2>3. CASE CompStep
    <3>1. UNCHANGED rows \/ \E x \in Sessions, y \in Entities : BacklogAck(x, y)
      BY <2>3 DEF CompStep, CompReceive, CompNext, CompAck, CompDeleteMeta, CompWake,
                  CompExit, WayInv, CompHolds, Element
    <3>2. InState(rows'[s], e, "queued") => RowIs(s, e, "queued")
      BY <3>1, NoneQueued DEF WayInv, RowIs
    <3> QED BY <1>4, <2>1, <2>3, <3>2, CompLeaves
  <2>4. CASE UpdStep \/ SessionStep \/ UNCHANGED vars
    <3>1. UNCHANGED <<rows, calls, pc, asked>> /\ killed \subseteq killed'
      BY <2>4, OthersLeave, PassedStays DEF WayInv
    <3>2. Waiting(s, e)' \subseteq Waiting(s, e)
      BY <3>1 DEF Waiting, Waits, Cur
    <3>3. C' <= C /\ A <= A'
      BY <1>1, <3>1, <3>2, FewerWait
    <3> QED BY <1>3, <2>1, <3>1, <3>3 DEF RowIs
  <2> QED BY <1>7, <2>2, <2>3, <2>4 DEF Next
<1> QED BY <1>5, <1>6, <1>7

LEMMA InitLaw == Init => Law
<1> SUFFICES ASSUME Init, NEW s \in Sessions, NEW e \in Entities
             PROVE  Within(Load(s, e), Cardinality(Waiting(s, e)), asked[s][e], faults)
  BY DEF Law
<1>0. TypeOf[e] \in AssetTypes
  BY BacklogRowsAssumption
<1>1. Count(queue[s][TypeOf[e]], s, e) = 0
  BY <1>0, CountEmpty DEF Init
<1>2. Slots(s, e) = {}
  BY <1>0 DEF Init, Slots, Workers
<1>3. Waiting(s, e) = {}
  BY DEF Init, Waiting, Waits
<1>4. ~InPump(s, e) /\ ~RowIs(s, e, "queued") /\ asked[s][e] = 0 /\ faults = 0
  BY DEF Init, InPump, IdlePump, RowIs, InState, EmptyTable
<1>5. Load(s, e) = 0 /\ Cardinality(Waiting(s, e)) = 0
  BY <1>1, <1>2, <1>3, <1>4, FS_EmptySet DEF Load, Runs, Queued
<1> QED BY <1>4, <1>5 DEF Within

LEMMA LawMeans == TypeOK /\ RunsCounted /\ Law => ScheduledOnce
<1> SUFFICES ASSUME TypeOK, RunsCounted, Law, NEW s \in Sessions, NEW e \in Entities
             PROVE  Load(s, e) <= asked[s][e] + faults
  BY DEF ScheduledOnce, Load, Queued
<1>1. asked[s][e] \in Nat /\ faults \in Nat
  BY DispatcherAssumption DEF TypeOK, HistoryOK
<1>2. Load(s, e) \in Nat /\ Cardinality(Waiting(s, e)) \in Nat
  BY WaitingFinite DEF RunsCounted
<1>3. Load(s, e) + Cardinality(Waiting(s, e)) <= asked[s][e] + faults
  BY DEF Law, Within
<1> QED BY <1>1, <1>2, <1>3

\* DispatchEvent's "do not schedule the same asset more than once", for callers
\* that race, resubmit and requeue as they please: an asset is in work, or
\* queued, at most as often as calls had reason to queue it.
THEOREM OnceAsked == Spec => []ScheduledOnce
<1>1. Init => WayInv /\ Law
  BY InitWay, InitLaw
<1>2. WayInv => RunsCounted
  BY RunsType DEF WayInv
<1>3. WayInv /\ WayInv' /\ RunsCounted /\ RunsCounted' /\ Law /\ [Next]_vars => Law'
  BY StepLaw
<1>4. WayInv /\ [Next]_vars => WayInv'
  BY StepWay
<1>5. WayInv /\ RunsCounted /\ Law => ScheduledOnce
  BY LawMeans DEF WayInv
<1> QED BY <1>1, <1>2, <1>3, <1>4, <1>5, PTL DEF Spec


------------------------------------------------------------------------------
(* A queued row and an earlier run of the same asset.                      *)

LEMMA InTail ==
  ASSUME NEW q \in Seq(Element), q # << >>, NEW s, NEW e
  PROVE  /\ InSeq(Tail(q), s, e) => InSeq(q, s, e)
         /\ Head(q).s = s /\ Head(q).e = e => InSeq(q, s, e)
<1>1. ASSUME NEW i \in 1 .. Len(Tail(q)), Tail(q)[i].s = s, Tail(q)[i].e = e
      PROVE  InSeq(q, s, e)
  <2>1. i + 1 \in 1 .. Len(q) /\ q[i + 1] = Tail(q)[i]
    OBVIOUS
  <2> QED BY <1>1, <2>1 DEF InSeq
<1>2. 1 \in 1 .. Len(q) /\ Head(q) = q[1]
  OBVIOUS
<1> QED BY <1>1, <1>2 DEF InSeq

InPipes(s, e) == InSeq(queue[s][TypeOf[e]], s, e) \/ Slots(s, e) # {}

LEMMA WayParts ==
  ASSUME NEW s, NEW e
  PROVE  /\ UnderWay(s, e) <=> (InPump(s, e) \/ InPipes(s, e) \/ InCompletion(s, e))
         /\ UnderWay(s, e)' <=> (InPump(s, e)' \/ InPipes(s, e)' \/ InCompletion(s, e)')
BY DEF UnderWay, InFlight, InPipeline, InPipes

\* Nothing gets under way but by a claim.
LEMMA WayStays ==
  ASSUME WayInv, [Next]_vars, NEW s \in Sessions, NEW e \in Entities, UnderWay(s, e)'
  PROVE  UnderWay(s, e) \/ InState(rows'[s], e, "leased")
<1>0. /\ queue \in [Sessions -> [AssetTypes -> Seq(Element)]]
      /\ worker \in [Workers -> Element \cup {NoElement}]
      /\ cchan \in Seq(Element) /\ cqueue \in Seq(Element)
      /\ TypeOf[e] \in AssetTypes /\ queue[s][TypeOf[e]] \in Seq(Element)
  BY BacklogRowsAssumption DEF WayInv, TypeOK
<1>1. CASE PumpStep
  <2>1. UNCHANGED <<worker, cchan, cqueue, comp>>
    BY <1>1, PumpLeaves
  <2>2. (Slots(s, e)' # {} <=> Slots(s, e) # {}) /\ (InCompletion(s, e)' <=> InCompletion(s, e))
    BY <2>1 DEF Slots, InCompletion, InSeq
  <2>3. UNCHANGED queue => (InPipes(s, e)' <=> InPipes(s, e))
    BY <2>2 DEF InPipes, InSeq
  <2>4. CASE PumpQuiet
    BY <2>2, <2>3, <2>4, WayParts DEF PumpQuiet
  <2>5. ASSUME NEW x \in Sessions, NEW t \in AssetTypes, NEW n, NEW C, PumpClaims(x, t, n, C)
        PROVE  UnderWay(s, e) \/ InState(rows'[s], e, "leased")
    <3>1. InPump(s, e)' => InState(rows'[s], e, "leased")
      BY <2>5, ClaimSound DEF PumpClaims, WayInv
    <3> QED BY <2>2, <2>3, <2>5, <3>1, WayParts DEF PumpClaims
  <2>6. ASSUME NEW x \in Sessions, NEW y \in Entities, PumpMisses(x, y) PROVE UnderWay(s, e)
    BY <2>2, <2>3, <2>6, WayParts DEF PumpMisses, OthersInPump
  <2>7. ASSUME NEW x \in Sessions, NEW y \in Entities, PumpAppends(x, y) PROVE UnderWay(s, e)
    <3> DEFINE el == [s |-> x, e |-> y, m |-> GetEntry(x, y)]
    <3>1. el \in Element /\ el.s = x /\ el.e = y
      BY DEF GetEntry, WayInv, TypeOK, Element
    <3>2. /\ queue' = [queue EXCEPT ![x][TypeOf[y]] = Append(@, el)]
          /\ InPump(x, y) /\ (InPump(s, e)' => InPump(s, e))
      BY <2>7 DEF PumpAppends, OthersInPump
    <3> HIDE DEF el
    <3>3. \/ queue'[s][TypeOf[e]] = Append(queue[s][TypeOf[e]], el)
          \/ queue'[s][TypeOf[e]] = queue[s][TypeOf[e]]
      BY <1>0, <3>2
    <3>4. InSeq(queue'[s][TypeOf[e]], s, e) =>
            InSeq(queue[s][TypeOf[e]], s, e) \/ (x = s /\ y = e)
      <4>1. InSeq(Append(queue[s][TypeOf[e]], el), s, e) =>
              InSeq(queue[s][TypeOf[e]], s, e) \/ (x = s /\ y = e)
        BY <1>0, <3>1, InAppend
      <4> QED BY <3>3, <4>1
    <3>5. InPipes(s, e)' => InPipes(s, e) \/ InPump(s, e)
      BY <2>2, <3>2, <3>4 DEF InPipes
    <3> QED BY <2>2, <3>2, <3>5, WayParts
  <2> QED BY <1>1, <2>4, <2>5, <2>6, <2>7, PumpMoves DEF WayInv
<1>2. CASE PipelineStep /\ ~PumpStep
  <2>1. (InPump(s, e)' <=> InPump(s, e)) /\ UNCHANGED <<cqueue, comp>>
    BY <1>2, PumpAlone, PipelineLeaves DEF InPump
  <2>2. UNCHANGED cchan => (InCompletion(s, e)' <=> InCompletion(s, e))
    BY <2>1 DEF InCompletion, InSeq
  <2>3. ASSUME NEW x \in Sessions, NEW t \in AssetTypes, NEW k \in 1 .. PipeDepth,
               PipelineTake(x, t, k)
        PROVE  UnderWay(s, e)
    <3>1. /\ UNCHANGED cchan /\ queue[x][t] # << >> /\ queue[x][t] \in Seq(Element)
          /\ <<x, t, k>> \in Workers
          /\ worker' = [worker EXCEPT ![<<x, t, k>>] = Head(queue[x][t])]
          /\ queue' = [queue EXCEPT ![x][t] = Tail(@)]
      BY <1>0, <2>3 DEF PipelineTake, Workers
    <3>2. Head(queue[x][t]).s = x
      <4>1. 1 \in 1 .. Len(queue[x][t]) /\ Head(queue[x][t]) = queue[x][t][1]
        BY <3>1
      <4> QED BY <4>1 DEF WayInv, Placed, InPlace
    <3>3. CASE x = s /\ t = TypeOf[e]
      <4>1. queue'[s][TypeOf[e]] = Tail(queue[x][t])
        BY <1>0, <3>1, <3>3
      <4>2. ASSUME NEW j \in Slots(s, e)', Head(queue[x][t]).e # e PROVE j \in Slots(s, e)
        BY <1>0, <3>1, <4>2 DEF Slots, Workers
      <4>3. InPipes(s, e)' => InPipes(s, e)
        BY <3>1, <3>2, <3>3, <4>1, <4>2, InTail DEF InPipes
      <4> QED BY <2>1, <2>2, <3>1, <4>3, WayParts
    <3>4. CASE ~(x = s /\ t = TypeOf[e])
      <4>1. queue'[s][TypeOf[e]] = queue[s][TypeOf[e]]
        BY <1>0, <3>1, <3>4
      <4>2. Slots(s, e)' = Slots(s, e)
        BY <1>0, <3>1, <3>4 DEF Slots, Workers
      <4> QED BY <2>1, <2>2, <3>1, <4>1, <4>2, WayParts DEF InPipes
    <3> QED BY <3>3, <3>4
  <2>4. ASSUME NEW x \in Sessions, NEW t \in AssetTypes, PipelineDrop(x, t)
        PROVE  UnderWay(s, e)
    <3>1. UNCHANGED <<cchan, worker>> /\ queue' = [queue EXCEPT ![x][t] = << >>]
      BY <2>4 DEF PipelineDrop, slotVars
    <3>2. queue'[s][TypeOf[e]] = queue[s][TypeOf[e]] \/ queue'[s][TypeOf[e]] = << >>
      BY <1>0, <3>1
    <3>3. ~InSeq(<< >>, s, e)
      BY DEF InSeq
    <3>4. InPipes(s, e)' => InPipes(s, e)
      BY <3>1, <3>2, <3>3 DEF InPipes, Slots
    <3> QED BY <2>1, <2>2, <3>1, <3>4, WayParts
  <2>5. ASSUME NEW w \in Workers, worker' = [worker EXCEPT ![w] = NoElement] \/ UNCHANGED worker
        PROVE  Slots(s, e)' \subseteq Slots(s, e)
    <3>1. \A j \in 1 .. PipeDepth :
            worker'[<<s, TypeOf[e], j>>] \in {worker[<<s, TypeOf[e], j>>], NoElement}
      BY <1>0, <2>5 DEF Workers
    <3> QED BY <3>1 DEF Slots
  <2>6. ASSUME NEW w \in Workers, Sends(w) PROVE UnderWay(s, e)
    <3>1. /\ worker[w] \in Element /\ worker[w] # NoElement /\ UNCHANGED queue
          /\ worker' = [worker EXCEPT ![w] = NoElement] \/ UNCHANGED worker
          /\ UNCHANGED cchan \/ cchan' = Append(cchan, worker[w])
      BY <2>6, Sending, SendEnds DEF WayInv, Vacate
    <3>2. InPipes(s, e)' => InPipes(s, e)
      BY <2>5, <3>1 DEF InPipes
    <3>3. worker[w].s = s /\ worker[w].e = e => InPipes(s, e)
      <4>1. PICK x \in Sessions, t \in AssetTypes, k \in 1 .. PipeDepth : w = <<x, t, k>>
        BY DEF Workers
      <4>2. worker[w].s = x /\ TypeOf[worker[w].e] = t
        BY <3>1, <4>1 DEF WayInv, Placed, InPlace
      <4> QED BY <3>1, <4>1, <4>2 DEF InPipes, Slots
    <3>4. cchan' = Append(cchan, worker[w]) =>
            (InSeq(cchan', s, e) => InSeq(cchan, s, e) \/ (worker[w].s = s /\ worker[w].e = e))
      BY <1>0, <3>1, InAppend
    <3>5. InCompletion(s, e)' => InCompletion(s, e) \/ InPipes(s, e)
      BY <2>1, <2>2, <3>1, <3>3, <3>4 DEF InCompletion
    <3> QED BY <2>1, <3>2, <3>5, WayParts
  <2>7. ASSUME NEW w \in Workers, Discard(w) PROVE UnderWay(s, e)
    <3>1. UNCHANGED <<queue, cchan>> /\ worker' = [worker EXCEPT ![w] = NoElement]
      BY <2>7 DEF Discard, Vacate, PipelineUnchanged
    <3> QED BY <2>1, <2>2, <2>5, <3>1, WayParts DEF InPipes
  <2> QED BY <1>2, <2>3, <2>4, <2>6, <2>7 DEF PipelineStep, Sends
<1>3. CASE ~PumpStep /\ ~PipelineStep
  <2>1. (InPump(s, e)' <=> InPump(s, e)) /\ (InPipes(s, e)' <=> InPipes(s, e))
    BY <1>3, PumpAlone, PipesAlone DEF InPump, InPipes, Slots, InSeq
  <2>2. CASE CompReceive
    <3>1. /\ cchan # << >> /\ Head(cchan) \in Element /\ UNCHANGED comp
          /\ cqueue' = Append(cqueue, Head(cchan)) /\ cchan' = Tail(cchan)
      BY <1>0, <2>2 DEF CompReceive
    <3>2. InCompletion(s, e)' => InCompletion(s, e)
      BY <1>0, <3>1, InAppend, InTail DEF InCompletion
    <3> QED BY <2>1, <3>2, WayParts
  <2>3. CASE CompNext
    <3>1. /\ cqueue # << >> /\ UNCHANGED cchan
          /\ comp' = [pc |-> "ack", el |-> Head(cqueue)] /\ cqueue' = Tail(cqueue)
      BY <2>3 DEF CompNext
    <3>2. InCompletion(s, e)' => InCompletion(s, e)
      BY <1>0, <3>1, InTail DEF InCompletion
    <3> QED BY <2>1, <3>2, WayParts
  <2>4. CASE CompAck \/ CompDeleteMeta \/ CompWake \/ CompExit
    <3>1. UNCHANGED <<cchan, cqueue>> /\ comp'.pc # "ack"
      BY <2>4 DEF CompAck, CompDeleteMeta, CompWake, CompExit, WayInv, TypeOK, CompStates
    <3>2. InCompletion(s, e)' => InCompletion(s, e)
      BY <3>1 DEF InCompletion
    <3> QED BY <2>1, <3>2, WayParts
  <2>5. CASE ~CompStep
    <3>1. InCompletion(s, e)' <=> InCompletion(s, e)
      BY <1>3, <2>5, AckWayAlone DEF InCompletion, InSeq
    <3> QED BY <2>1, <3>1, WayParts
  <2> QED BY <2>2, <2>3, <2>4, <2>5 DEF CompStep
<1> QED BY <1>1, <1>2, <1>3

\* A row is finished by something that is under way.
LEMMA FinishedOnWay ==
  ASSUME WayInv, [Next]_vars, NEW s \in Sessions, NEW e \in Entities,
         RowIs(s, e, "queued"), InState(rows'[s], e, "done")
  PROVE  UnderWay(s, e)
<1>0. rows \in [Sessions -> Tables] /\ rows'[s][e] # rows[s][e]
  BY DEF WayInv, TypeOK, RowIs, InState
<1>1. CASE PumpStep
  <2>1. ASSUME NEW x \in Sessions, NEW t \in AssetTypes, NEW n, NEW C, PumpClaims(x, t, n, C)
        PROVE  FALSE
    <3>1. BacklogClaim(x, t, n, C)
      BY <2>1 DEF PumpClaims
    <3>2. x = s
      BY <1>0, <3>1 DEF BacklogClaim
    <3>3. e \in C /\ InState(rows'[s], e, "leased")
      BY <1>0, <3>1, <3>2, ClaimSound DEF WayInv
    <3> QED BY <3>3 DEF InState
  <2>2. ASSUME NEW x \in Sessions, NEW y \in Entities, PumpMisses(x, y) PROVE InPump(s, e)
    <3>1. rows' = [rows EXCEPT ![x] = Ack(rows[x], y, <<x, TypeOf[y]>>)] /\ InPump(x, y)
      BY <1>0, <2>2 DEF PumpMisses, AckMissing, OthersInPump
    <3>2. e # y => Ack(rows[x], y, <<x, TypeOf[y]>>)[e] = rows[x][e]
      BY DEF Ack, Unlease
    <3> QED BY <1>0, <3>1, <3>2
  <2> QED BY <1>0, <1>1, <2>1, <2>2, PumpMoves, WayParts DEF WayInv, PumpQuiet, PumpAppends
<1>2. ASSUME NEW x \in Sessions, NEW y \in Entities, BacklogAck(x, y) PROVE x = s /\ y = e
  BY <1>0, <1>2, AckMoves DEF WayInv
<1>3. CASE PipelineStep
  <2>1. PICK w \in Workers : Sends(w) /\ rows' # rows
    BY <1>0, <1>3 DEF PipelineStep, PipelineTake, PipelineDrop, Discard, Sends
  <2>2. /\ worker[w] \in Element /\ worker[w] # NoElement
        /\ worker[w].s \in Sessions /\ worker[w].e \in Entities
        /\ BacklogAck(worker[w].s, worker[w].e)
    BY <2>1, Sending, SendEnds DEF WayInv
  <2>3. worker[w].s = s /\ worker[w].e = e
    BY <1>2, <2>2
  <2>4. PICK x \in Sessions, t \in AssetTypes, k \in 1 .. PipeDepth : w = <<x, t, k>>
    BY DEF Workers
  <2>5. x = s /\ TypeOf[e] = t
    BY <2>2, <2>3, <2>4 DEF WayInv, Placed, InPlace
  <2>6. k \in Slots(s, e)
    BY <2>2, <2>3, <2>4, <2>5 DEF Slots
  <2> QED BY <2>6 DEF UnderWay
<1>4. CASE CompStep
  <2>1. comp.pc = "ack" /\ comp.el \in Element /\ BacklogAck(comp.el.s, comp.el.e)
    BY <1>0, <1>4 DEF CompStep, CompReceive, CompNext, CompAck, CompDeleteMeta, CompWake,
                      CompExit, WayInv, CompHolds
  <2>2. comp.el.s = s /\ comp.el.e = e
    BY <1>2, <2>1 DEF Element
  <2> QED BY <2>1, <2>2, WayParts DEF InCompletion
<1>5. ASSUME NEW c \in Callers, CallerStep(c) PROVE FALSE
  <2>1. /\ Cur(c).s \in Sessions /\ Cur(c).e \in Entities
        /\ BacklogEnqueue(Cur(c).s, Cur(c).e)
    BY <1>0, <1>5, CallerWrites DEF WayInv
  <2>2. Cur(c).s = s /\ Cur(c).e = e /\ InState(rows'[s], e, "queued")
    BY <1>0, <2>1, EnqueueMoves DEF WayInv
  <2> QED BY <2>2 DEF InState
<1>6. CASE UpdStep \/ SessionStep \/ UNCHANGED vars
  BY <1>0, <1>6, OthersLeave
<1> QED BY <1>1, <1>3, <1>4, <1>5, <1>6 DEF Next

\* Nothing works on an asset whose queued row is not marked.
Marked == \A s \in Sessions, e \in Entities :
            RowIs(s, e, "queued") /\ UnderWay(s, e) => <<s, e>> \in overlapped

LEMMA StepMarked ==
  ASSUME WayInv, Marked, [Next]_vars
  PROVE  Marked'
<1> SUFFICES ASSUME NEW s \in Sessions, NEW e \in Entities,
                    InState(rows'[s], e, "queued"), UnderWay(s, e)'
             PROVE  <<s, e>> \in overlapped'
  BY DEF Marked, RowIs
<1>1. UnderWay(s, e)
  BY WayStays DEF InState
<1>2. ASSUME NEW x \in Sessions, NEW y \in Entities, BacklogEnqueue(x, y)
      PROVE  <<s, e>> \in overlapped'
  <2>1. CASE x = s /\ y = e
    BY <1>1, <1>2, <2>1 DEF BacklogEnqueue
  <2>2. CASE ~(x = s /\ y = e)
    <3>1. rows'[s][e] = rows[s][e]
      BY <1>2, <2>2, EnqueueMoves DEF WayInv
    <3>2. <<s, e>> \in overlapped
      BY <1>1, <3>1 DEF Marked, RowIs, InState
    <3>3. <<s, e>> # <<x, y>>
      BY <2>2
    <3> QED BY <1>2, <3>2, <3>3 DEF BacklogEnqueue
  <2> QED BY <2>1, <2>2
<1>3. ASSUME UNCHANGED overlapped, RowIs(s, e, "queued") PROVE <<s, e>> \in overlapped'
  BY <1>1, <1>3 DEF Marked
<1>4. ASSUME NEW c \in Callers, CallerStep(c)
      PROVE  \/ \E x \in Sessions, y \in Entities : BacklogEnqueue(x, y)
             \/ UNCHANGED <<rows, overlapped>>
  BY <1>4, CurType DEF WayInv, Active, CallerStep, CheckBacklog, InsertMeta, EnqueueRow,
                       UndoMeta, SignalScheduling, Requeue, histVars
<1>5. CASE PumpStep
  <2>1. \/ UNCHANGED rows
        \/ \E x \in Sessions, y \in Entities : AckMissing(x, y)
        \/ \E x \in Sessions, t \in AssetTypes : \E n, C : BacklogClaim(x, t, n, C)
    BY <1>5, PumpMoves DEF WayInv, PumpQuiet, PumpClaims, PumpMisses, PumpAppends
  <2>2. ASSUME NEW x \in Sessions, NEW t \in AssetTypes, NEW n, NEW C, BacklogClaim(x, t, n, C)
        PROVE  RowIs(s, e, "queued")
    <3>1. rows'[s][e] = rows[s][e]
      <4>1. x # s => rows'[s] = rows[s]
        BY <2>2 DEF BacklogClaim, WayInv, TypeOK
      <4>2. x = s => e \notin C
        BY <2>2, ClaimSound DEF WayInv, InState
      <4> QED BY <2>2, <4>1, <4>2, ClaimSound DEF WayInv
    <3> QED BY <3>1 DEF RowIs, InState
  <2>3. RowIs(s, e, "queued")
    BY <2>1, <2>2, NoneQueued DEF WayInv, RowIs
  <2> QED BY <1>3, <1>5, <2>3, PumpLeaves
<1>6. CASE PipelineStep \/ CompStep
  <2>1. UNCHANGED rows \/ \E x \in Sessions, y \in Entities : BacklogAck(x, y)
    <3>1. CASE PipelineStep
      <4>1. UNCHANGED rows \/ \E w \in Workers : Sends(w)
        BY <3>1 DEF PipelineStep, PipelineTake, PipelineDrop, Discard, Sends
      <4> QED BY <4>1, Sending, SendEnds DEF WayInv
    <3>2. CASE CompStep
      BY <3>2 DEF CompStep, CompReceive, CompNext, CompAck, CompDeleteMeta, CompWake,
                  CompExit, WayInv, CompHolds, Element
    <3> QED BY <1>6, <3>1, <3>2
  <2>2. RowIs(s, e, "queued")
    BY <2>1, NoneQueued DEF WayInv, RowIs
  <2> QED BY <1>3, <1>6, <2>2, PipelineLeaves, CompLeaves
<1>7. CASE UpdStep \/ SessionStep \/ UNCHANGED vars
  <2>1. UNCHANGED <<rows, overlapped>>
    BY <1>7, OthersLeave
  <2> QED BY <1>3, <2>1 DEF RowIs
<1> QED BY <1>2, <1>3, <1>4, <1>5, <1>6, <1>7 DEF Next, RowIs

\* A queued asset is claimed before it is done unless it was queued while an
\* earlier run of it was under way: the acks, which ask neither for an owner nor
\* for a state, finish no other queued row.
THEOREM ClaimedFirst == Spec => QueuedIsClaimedFirst
<1>1. Init => WayInv /\ Marked
  BY InitWay DEF Marked, Init, RowIs, InState, EmptyTable
<1>2. WayInv /\ Marked /\ [Next]_vars => WayInv' /\ Marked'
  BY StepWay, StepMarked
<1>3. WayInv /\ Marked /\ [Next]_vars =>
        [\A s \in Sessions, e \in Entities :
           RowIs(s, e, "queued") /\ InState(rows'[s], e, "done") =>
             <<s, e>> \in overlapped]_vars
  BY FinishedOnWay DEF Marked
<1> QED BY <1>1, <1>2, <1>3, PTL DEF Spec, QueuedIsClaimedFirst


------------------------------------------------------------------------------
(* The metadata map.                                                       *)

Open(s, e) == RowIs(s, e, "queued") \/ RowIs(s, e, "leased")

\* A row is closed by an ack of that row only.
LEMMA OpenStays ==
  ASSUME TypeOK, NEW s \in Sessions, NEW e \in Entities
  PROVE  /\ Open(s, e) /\ UNCHANGED rows => Open(s, e)'
         /\ \A x \in Sessions, y \in Entities :
              BacklogEnqueue(x, y) => (Open(s, e) \/ (x = s /\ y = e) => Open(s, e)')
         /\ \A x \in Sessions, y \in Entities :
              BacklogAck(x, y) /\ ~(x = s /\ y = e) => (Open(s, e) => Open(s, e)')
         /\ \A x \in Sessions, y \in Entities :
              AckMissing(x, y) /\ (UNCHANGED rows \/ ~(x = s /\ y = e))
                => (Open(s, e) => Open(s, e)')
         /\ \A x \in Sessions, t \in AssetTypes : \A n, C :
              BacklogClaim(x, t, n, C) => (Open(s, e) => Open(s, e)')
<1> USE DEF Open, RowIs, InState
<1>0. rows \in [Sessions -> Tables]
  BY DEF TypeOK
<1>1. Open(s, e) /\ UNCHANGED rows => Open(s, e)'
  OBVIOUS
<1>2. ASSUME NEW x \in Sessions, NEW y \in Entities, BacklogEnqueue(x, y)
      PROVE  Open(s, e) \/ (x = s /\ y = e) => Open(s, e)'
  BY <1>2, EnqueueMoves
<1>3. ASSUME NEW x \in Sessions, NEW y \in Entities, BacklogAck(x, y), ~(x = s /\ y = e)
      PROVE  Open(s, e) => Open(s, e)'
  BY <1>3, AckMoves
<1>4. ASSUME NEW x \in Sessions, NEW y \in Entities, AckMissing(x, y),
             UNCHANGED rows \/ ~(x = s /\ y = e)
      PROVE  Open(s, e) => Open(s, e)'
  <2>1. CASE rows' = [rows EXCEPT ![x] = Ack(rows[x], y, <<x, TypeOf[y]>>)]
             /\ ~(x = s /\ y = e)
    <3>1. e # y => Ack(rows[x], y, <<x, TypeOf[y]>>)[e] = rows[x][e]
      BY DEF Ack, Unlease
    <3>2. rows'[s][e] = rows[s][e]
      BY <1>0, <2>1, <3>1
    <3> QED BY <3>2
  <2> QED BY <1>4, <2>1 DEF AckMissing
<1>5. ASSUME NEW x \in Sessions, NEW t \in AssetTypes, NEW n, NEW C, BacklogClaim(x, t, n, C)
      PROVE  Open(s, e) => Open(s, e)'
  <2>1. CASE x = s
    BY <1>5, <2>1, ClaimSound
  <2>2. x # s => rows'[s] = rows[s]
    BY <1>0, <1>5 DEF BacklogClaim
  <2> QED BY <2>1, <2>2
<1> QED BY <1>1, <1>2, <1>3, <1>4, <1>5

HandledBy(c, s, e) == /\ pc[c] \in {"enqueue", "undo"} /\ calls[c] # << >>
                      /\ Cur(c).s = s /\ Cur(c).e = e

LEMMA StepMeta ==
  ASSUME WayInv, MetaAccounted, [Next]_vars
  PROVE  MetaAccounted'
<1> SUFFICES ASSUME NEW s \in Sessions \ killed', NEW e \in Entities,
                    entries'[s][e] # NoMeta, <<s, e>> \notin kept'
             PROVE  Open(s, e)' \/ Handling(s, e)'
  BY DEF MetaAccounted, Open
<1>0. /\ TypeOK /\ s \in Sessions \ killed /\ kept \subseteq Items
      /\ entries \in [Sessions -> [Entities -> Metas \cup {NoMeta}]]
      /\ pc \in [Callers -> {"has", "insert", "enqueue", "undo", "signal"}]
      /\ calls \in [Callers -> Seq(Call)]
  BY PassedStays DEF WayInv, TypeOK, HistoryOK
<1>1. entries[s][e] # NoMeta /\ <<s, e>> \notin kept => Open(s, e) \/ Handling(s, e)
  BY <1>0 DEF MetaAccounted, Open
<1>2. ASSUME UNCHANGED <<calls, pc, comp>> PROVE Handling(s, e)' <=> Handling(s, e)
  BY <1>2 DEF Handling, Cur
<1>3. CASE PumpStep
  <2>1. /\ UNCHANGED <<entries, calls, pc, comp>>
    BY <1>3, PumpLeaves
  <2>2. ASSUME NEW x \in Sessions, NEW y \in Entities, AckMissing(x, y)
        PROVE  kept \subseteq kept' /\ (UNCHANGED rows \/ ~(x = s /\ y = e))
    BY <2>1, <2>2 DEF AckMissing, Remaining
  <2>3. \/ UNCHANGED <<rows, kept>>
        \/ \E x \in Sessions, y \in Entities : AckMissing(x, y)
        \/ /\ UNCHANGED kept
           /\ \E x \in Sessions, t \in AssetTypes : \E n, C : BacklogClaim(x, t, n, C)
    BY <1>3, PumpMoves
       DEF WayInv, PumpQuiet, PumpClaims, PumpMisses, PumpAppends, NothingLeft
  <2>4. kept \subseteq kept' /\ (Open(s, e) => Open(s, e)')
    BY <1>0, <2>2, <2>3, OpenStays
  <2> QED BY <1>1, <1>2, <2>1, <2>4
<1>4. CASE PipelineStep
  <2>1. UNCHANGED <<entries, calls, pc, comp>>
    BY <1>4, PipelineLeaves
  <2>2. \/ UNCHANGED <<rows, kept>>
        \/ \E x \in Sessions, y \in Entities :
             BacklogAck(x, y) /\ kept' = kept \cup Remaining(x, y)
    <3>1. UNCHANGED <<rows, kept>> \/ \E w \in Workers : Sends(w)
      BY <1>4 DEF PipelineStep, PipelineTake, PipelineDrop, Discard, Sends, histVars
    <3> QED BY <1>0, <3>1, Sending, SendEnds
  <2>3. ASSUME NEW x \in Sessions, NEW y \in Entities, BacklogAck(x, y),
               kept' = kept \cup Remaining(x, y)
        PROVE  ~(x = s /\ y = e)
    BY <2>1, <2>3 DEF Remaining
  <2>4. kept \subseteq kept' /\ (Open(s, e) => Open(s, e)')
    BY <1>0, <2>2, <2>3, OpenStays
  <2> QED BY <1>1, <1>2, <2>1, <2>4
<1>5. CASE CompStep
  <2>1. UNCHANGED <<calls, pc>>
    BY <1>5, CompLeaves
  <2> DEFINE calling == \E c \in Callers : HandledBy(c, s, e)
             deleting == comp.pc = "meta" /\ comp.el.s = s /\ comp.el.e = e
  <2>2. (calling' <=> calling) /\ (Handling(s, e) <=> calling \/ deleting)
        /\ (Handling(s, e)' <=> calling' \/ deleting')
    BY <2>1 DEF HandledBy, Handling, Cur
  <2>3. CASE CompAck
    <3>1. /\ comp.pc = "ack" /\ comp.el.s \in Sessions /\ comp.el.e \in Entities
          /\ UNCHANGED <<entries, kept>>
      BY <2>3 DEF CompAck, WayInv, CompHolds, Element, metaVars
    <3>2. CASE Fails(comp.el.s) /\ UNCHANGED rows
      BY <1>0, <1>1, <2>2, <3>1, <3>2, OpenStays
    <3>3. CASE BacklogAck(comp.el.s, comp.el.e) /\ comp' = [comp EXCEPT !.pc = "meta"]
      <4>1. comp'.pc = "meta" /\ comp'.el = comp.el
        BY <3>3 DEF WayInv, TypeOK, CompStates
      <4> HIDE DEF calling
      <4>2. CASE comp.el.s = s /\ comp.el.e = e
        BY <2>2, <4>1, <4>2
      <4>3. CASE ~(comp.el.s = s /\ comp.el.e = e)
        <5>1. Open(s, e) => Open(s, e)'
          BY <1>0, <3>1, <3>3, <4>3, OpenStays
        <5> QED BY <1>1, <2>2, <3>1, <5>1
      <4> QED BY <4>2, <4>3
    <3> QED BY <2>3, <3>2, <3>3 DEF CompAck
  <2>4. CASE CompDeleteMeta
    <3>1. /\ UNCHANGED rows /\ comp.el.s \in Sessions /\ comp.el.e \in Entities
          /\ entries' = [entries EXCEPT ![comp.el.s][comp.el.e] = NoMeta]
          /\ kept' = kept \ {<<comp.el.s, comp.el.e>>}
      BY <2>4 DEF CompDeleteMeta, DeleteSessionEntry, WayInv, CompHolds, Element
    <3>2. ~(comp.el.s = s /\ comp.el.e = e)
      BY <1>0, <3>1
    <3>3. entries'[s][e] = entries[s][e] /\ (<<s, e>> \in kept' <=> <<s, e>> \in kept)
      BY <1>0, <3>1, <3>2
    <3> HIDE DEF calling
    <3> QED BY <1>0, <1>1, <2>2, <3>1, <3>2, <3>3, OpenStays
  <2>5. CASE CompReceive \/ CompNext \/ CompWake \/ CompExit
    <3>1. UNCHANGED <<rows, entries, kept>> /\ ~deleting
      BY <2>5 DEF CompReceive, CompNext, CompWake, CompExit, CompUnchanged, metaVars
    <3> HIDE DEF calling, deleting
    <3>2. CASE ~deleting
      BY <1>0, <1>1, <2>2, <3>1, OpenStays
    <3> QED BY <3>1, <3>2
  <2> QED BY <1>5, <2>3, <2>4, <2>5 DEF CompStep
<1>6. ASSUME NEW c \in Callers, CallerStep(c) PROVE Open(s, e)' \/ Handling(s, e)'
  <2>1. /\ UNCHANGED comp /\ Active(c)
        /\ calls[c] # << >> /\ Cur(c).s \in Sessions /\ Cur(c).e \in Entities
    <3>1. Active(c)
      BY <1>6 DEF CallerStep, CheckBacklog, InsertMeta, EnqueueRow, UndoMeta,
                  SignalScheduling, Requeue
    <3> QED BY <1>0, <1>6, <3>1, CallerLeaves, CurType DEF Active
  <2>2. \A d \in Callers \ {c} : HandledBy(d, s, e)' <=> HandledBy(d, s, e)
    BY <1>0, <1>6, OthersWait DEF HandledBy, Cur
  <2>3. /\ Handling(s, e)' <=>
             (HandledBy(c, s, e)' \/ (\E d \in Callers \ {c} : HandledBy(d, s, e)')
              \/ (comp'.pc = "meta" /\ comp'.el.s = s /\ comp'.el.e = e))
        /\ Handling(s, e) <=>
             (HandledBy(c, s, e) \/ (\E d \in Callers \ {c} : HandledBy(d, s, e))
              \/ (comp.pc = "meta" /\ comp.el.s = s /\ comp.el.e = e))
    BY DEF Handling, HandledBy
  <2>4. Handling(s, e) => HandledBy(c, s, e) \/ Handling(s, e)'
    BY <2>1, <2>2, <2>3
  <2>5. HandledBy(c, s, e)' => Handling(s, e)'
    BY <2>3
  <2> DEFINE here == Cur(c).s = s /\ Cur(c).e = e
  <2>6. CASE CheckBacklog(c) \/ SignalScheduling(c)
    <3>1. UNCHANGED <<rows, entries, kept>> /\ ~HandledBy(c, s, e)
      BY <2>6 DEF CheckBacklog, SignalScheduling, metaVars, histVars, HandledBy
    <3> QED BY <1>0, <1>1, <2>4, <3>1, OpenStays
  <2>7. CASE InsertMeta(c)
    <3>1. /\ UNCHANGED <<rows, calls>> /\ pc'[c] = "enqueue" /\ pc[c] = "insert"
          /\ entries' = [entries EXCEPT ![Cur(c).s][Cur(c).e] = Cur(c).m]
          /\ kept' = kept \ {<<Cur(c).s, Cur(c).e>>}
      BY <1>0, <2>7 DEF InsertMeta, InsertEntry, Goto
    <3>2. CASE here
      <4>1. HandledBy(c, s, e)'
        BY <2>1, <3>1, <3>2 DEF HandledBy, Cur
      <4> QED BY <2>5, <4>1
    <3>3. CASE ~here
      <4>1. entries'[s][e] = entries[s][e] /\ (<<s, e>> \in kept' <=> <<s, e>> \in kept)
        BY <1>0, <2>1, <3>1, <3>3
      <4>2. ~HandledBy(c, s, e)
        BY <3>1 DEF HandledBy
      <4> QED BY <1>0, <1>1, <2>4, <3>1, <4>1, <4>2, OpenStays
    <3> QED BY <3>2, <3>3
  <2>8. CASE EnqueueRow(c)
    <3>1. UNCHANGED <<entries, kept>> /\ pc[c] = "enqueue" /\ UNCHANGED calls
      BY <2>8 DEF EnqueueRow, metaVars, Goto
    <3>2. CASE BacklogEnqueue(Cur(c).s, Cur(c).e)
      <4>1. Open(s, e) \/ here => Open(s, e)'
        BY <1>0, <2>1, <3>2, OpenStays
      <4>2. HandledBy(c, s, e) => here
        BY DEF HandledBy
      <4> HIDE DEF here
      <4> QED BY <1>1, <2>4, <3>1, <4>1, <4>2
    <3>3. CASE UNCHANGED rows /\ Goto(c, "undo")
      <4>1. pc'[c] = "undo"
        BY <1>0, <3>3 DEF Goto
      <4>2. HandledBy(c, s, e) => HandledBy(c, s, e)'
        BY <3>1, <4>1 DEF HandledBy, Cur
      <4> QED BY <1>0, <1>1, <2>4, <2>5, <3>1, <3>3, <4>2, OpenStays
    <3> QED BY <2>8, <3>2, <3>3 DEF EnqueueRow
  <2>9. CASE UndoMeta(c)
    <3>1. /\ UNCHANGED rows
          /\ entries' = [entries EXCEPT ![Cur(c).s][Cur(c).e] = NoMeta]
          /\ kept' = kept \ {<<Cur(c).s, Cur(c).e>>}
      BY <2>9 DEF UndoMeta, DeleteSessionEntry
    <3>2. ~here
      BY <1>0, <2>1, <3>1
    <3>3. entries'[s][e] = entries[s][e] /\ (<<s, e>> \in kept' <=> <<s, e>> \in kept)
      BY <1>0, <2>1, <3>1, <3>2
    <3>4. ~HandledBy(c, s, e)
      BY <3>2 DEF HandledBy
    <3> QED BY <1>0, <1>1, <2>4, <3>1, <3>3, <3>4, OpenStays
  <2>10. CASE Requeue(c)
    <3>1. /\ UNCHANGED <<entries, kept>> /\ ~HandledBy(c, s, e)
          /\ UNCHANGED rows \/ BacklogEnqueue(Cur(c).s, Cur(c).e)
      BY <2>10 DEF Requeue, metaVars, HandledBy
    <3>2. Open(s, e) => Open(s, e)'
      BY <1>0, <2>1, <3>1, OpenStays
    <3> QED BY <1>1, <2>4, <3>1, <3>2
  <2> QED BY <1>6, <2>6, <2>7, <2>8, <2>9, <2>10 DEF CallerStep
<1>7. CASE UpdStep \/ SessionStep \/ UNCHANGED vars
  <2>1. UNCHANGED <<rows, calls, pc, comp>>
    BY <1>7, OthersLeave
  <2>2. entries'[s][e] = entries[s][e] /\ (<<s, e>> \in kept => <<s, e>> \in kept')
    <3>1. CASE RemoveInactiveSessions
      BY <1>0, <3>1 DEF RemoveInactiveSessions
    <3>2. CASE ~RemoveInactiveSessions
      BY <1>7, <3>2 DEF UpdStep, ListSessions, ListKeys, UpdExit, SessionStep, AddSession,
                        KillSession, RemoveSession, Shutdown, EnvUnchanged, metaVars,
                        histVars, vars
    <3> QED BY <3>1, <3>2
  <2> QED BY <1>0, <1>1, <1>2, <2>1, <2>2, OpenStays
<1> QED BY <1>3, <1>4, <1>5, <1>6, <1>7 DEF Next

\* In a live session no metadata stays behind in the map, whoever submits,
\* completes and fails to queue the same asset at the same time, but that of an
\* asset acked by a pipeline or the pump: only the completion loop deletes it.
THEOREM MetaKept == Spec => []MetaAccounted
<1>1. Init => WayInv /\ MetaAccounted
  BY InitWay DEF MetaAccounted, Init
<1>2. WayInv /\ MetaAccounted /\ [Next]_vars => WayInv' /\ MetaAccounted'
  BY StepWay, StepMeta
<1> QED BY <1>1, <1>2, PTL DEF Spec


=============================================================================
