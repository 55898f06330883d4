------------------------------ MODULE Expansion ------------------------------
(***************************************************************************)
(* How the scope of a session grows.                                       *)
(*                                                                         *)
(* Records, names, networks, organizations and locations are events, and   *)
(* move through their pipelines at the same time.  The sources of an event *)
(* store what they learned and have CreateOrgAsset find or make the        *)
(* organization of a contact; then the last handler, of Horizontals,       *)
(* compares the neighbourhood of the asset with the scope and adds to it.  *)
(* Only one event at a time holds the lock of CreateOrgAsset, but its walk *)
(* over the graph is done without.                                         *)
(***************************************************************************)
EXTENDS Organizations

\* A world: the assets submitted or found so far, those in scope at first, the edges and organizations
\* of the database, the edges that sources store for an asset and its contacts, the organization they
\* state, the names of the reverse zones, the addresses near one another, whether the scope may not
\* grow, and how many calls of the database may fail.
CONSTANTS Worlds

\* The assets of a world, but for its organizations; and what a record registers.
Assets(w) ==
  w.seeds \cup w.near \cup Known(w.before \cup w.stores) \cup ({w.calls[x].obj : x \in DOMAIN w.calls} \ {None})
Subject(record) ==
  CASE Kind(record) = "DomainRecord" -> FQDN(Key(record))
    [] Kind(record) = "IPNetRecord" -> Netblock(Key(record))
    [] Kind(record) = "AutnumRecord" -> AS(Key(record))

\* The configured scope has no organizations and locations.
ASSUME ScopeAssumption ==
  \A w \in Worlds : \A m \in w.scope : Kind(m) \in {"FQDN", "IPAddress", "Netblock", "AutonomousSystem"}

\* The organizations of the database are numbered.
ASSUME OrganizationsAssumption ==
  \A w \in Worlds :
    /\ IsFiniteSet(DOMAIN w.orgs)
    /\ \A o \in DOMAIN w.orgs : Kind(o) = "Organization" /\ o[4] \in 1 .. Cardinality(DOMAIN w.orgs)
    /\ \A x \in Assets(w) : Kind(x) = "Organization" => x \in DOMAIN w.orgs

\* The relations of the asset model: only records have a registrant, and it is a contact.
RegistrantLabels == {"registrant", "registrant_contact"}
ASSUME EdgesAssumption ==
  \A w \in Worlds :
    /\ IsFiniteSet(w.before) /\ IsFiniteSet(w.stores)
    /\ \A e \in w.before \cup w.stores :
         e[2] \in RegistrantLabels => Kind(e[1]) \in Records /\ Kind(e[3]) = "ContactRecord"

\* A record is stored for an asset that is; that of a name only for a registered domain.
ASSUME RecordsAssumption ==
  \A w \in Worlds : None \notin Assets(w) /\
    \A x \in Assets(w) : Kind(x) \in Records => Subject(x) \in Known(w.before) /\ Entry(Subject(x)) = {Subject(x)}

\* The organization of a contact is related to it as such.
ASSUME CallsAssumption ==
  \A w \in Worlds : \A x \in DOMAIN w.calls :
    /\ w.calls[x].rel \notin RegistrantLabels
    /\ Kind(w.calls[x].obj) = "ContactRecord" => w.calls[x].rel = "organization"

VARIABLES
  world,
  edges, orgs, claims,  \* the asset database
  scope, row,           \* the session's scope, and its backlog
  flight,               \* the events in the pipelines: where each is, its name and organization, what it still considers
  lock,                 \* createOrgLock
  worn,                 \* the table of site verifications has been used
  faults,
  made, undone,         \* history: the request each organization is made for; what the database failed to store for it
  saw, reviewed         \* history: what a record's handler saw; what was reviewed in scope

dbVars == <<edges, orgs, claims>>
historyVars == <<made, undone, saw, reviewed>>
vars == <<world, dbVars, scope, row, flight, lock, worn, faults, historyVars>>

Stages == {"store", "call", "walk", "wait", "claim", "relate", "check", "expand"}

TypeOK ==
  /\ world \in Worlds
  /\ \A c \in claims : c[1] \in orgs
  /\ \A x \in DOMAIN row : row[x] \in {"queued", "leased", "done"}
  /\ DOMAIN flight \subseteq DOMAIN row
  /\ \A x \in DOMAIN flight : flight[x].at \in Stages /\ flight[x].org \in orgs \cup {None}
  /\ lock \in DOMAIN flight \cup {None}
  /\ worn \in BOOLEAN /\ faults \in 0 .. world.faults
  /\ DOMAIN made = orgs /\ undone \subseteq orgs \X {"claims", "relation"} /\ reviewed \subseteq DOMAIN row

Init ==
  /\ world \in Worlds
  /\ edges = world.before /\ orgs = DOMAIN world.orgs /\ claims = {}
  /\ scope = world.scope /\ row = [x \in world.seeds |-> "queued"]
  /\ flight = <<>> /\ lock = None /\ worn = FALSE /\ faults = 0
  /\ made = world.orgs /\ undone = (DOMAIN world.orgs) \X {"claims", "relation"} /\ saw = {} /\ reviewed = {}

At(x, stage) == x \in DOMAIN flight /\ flight[x].at = stage
To(x, stage) == flight' = [flight EXCEPT ![x].at = stage]

\* Handlers of contact records do nothing here, so their events are over at once.
Queued(x) == IF Kind(x) = "ContactRecord" THEN "done" ELSE "queued"
Enqueue(S) == row' = [x \in DOMAIN row \cup S |-> IF x \in S THEN Queued(x) ELSE row[x]]
Dispatch(S) == row' = [x \in DOMAIN row \cup S |-> IF x \in DOMAIN row THEN row[x] ELSE Queued(x)]

Fails == faults < world.faults /\ faults' = faults + 1

\* The pump claims a queued asset.
Claim(x) ==
  /\ row[x] = "queued" /\ x \notin DOMAIN flight
  /\ row' = [row EXCEPT ![x] = "leased"]
  /\ flight' = [y \in DOMAIN flight \cup {x} |->
                 IF y = x THEN [at |-> "store", name |-> Blank, org |-> None, todo |-> {}] ELSE flight[y]]
  /\ UNCHANGED <<world, dbVars, scope, lock, worn, faults, historyVars>>

\* The sources store the edges and dispatch what they lead to.
Store(x) ==
  LET new == {e \in world.stores : e[1] = x \/ (Kind(e[1]) = "ContactRecord" /\ \E f \in world.stores : f[1] = x /\ f[3] = e[1])}
  IN /\ At(x, "store")
     /\ edges' = edges \cup new
     /\ Dispatch({e[3] : e \in new} \cup {e[1] : e \in new})
     /\ To(x, IF x \in DOMAIN world.calls THEN "call" ELSE "check")
     /\ UNCHANGED <<world, orgs, claims, scope, lock, worn, faults, historyVars>>

------------------------------------------------------------------------------
(* CreateOrgAsset.                                                         *)

Request(x) == world.calls[x]

\* The normal name is written into the request, and that of a site verification is in a table.
Lookup(x) ==
  LET r == Request(x)
      name == IF r.table /\ worn THEN Brand(r) ELSE r.name
  IN /\ At(x, "call")
     /\ \E o \in LookupOrgByClaims(claims, orgs, name, r) :
          flight' = [flight EXCEPT ![x] =
            [@ EXCEPT !.name = name, !.org = o, !.at = IF o = None /\ r.obj # None THEN "walk" ELSE "wait"]]
     /\ worn' = (worn \/ r.table)
     /\ UNCHANGED <<world, dbVars, scope, row, lock, faults, historyVars>>

Walk(x) ==
  /\ At(x, "walk")
  /\ \E o \in DedupChecks(edges, claims, orgs, scope, DOMAIN row, Request(x)) :
       flight' = [flight EXCEPT ![x] = [@ EXCEPT !.org = o, !.at = "wait"]]
  /\ UNCHANGED <<world, dbVars, scope, row, lock, worn, faults, historyVars>>

\* What the call settles on under the lock, None for an organization of its own.
FoundLocked(x) ==
  LET r == Request(x)
      claimed == LookupOrgByClaims(claims, orgs, flight[x].name, r)
  IN IF flight[x].org # None THEN {flight[x].org}
     ELSE (claimed \ {None}) \cup
          (IF None \in claimed THEN Answers(NameExistsInSessionScope(edges, orgs, scope, r)) ELSE {})

\* Mutants: what the claims, or the scope, hold by now is not looked at again.
FoundIgnoringClaims(x) ==
  IF flight[x].org # None THEN {flight[x].org} ELSE Answers(NameExistsInSessionScope(edges, orgs, scope, Request(x)))
FoundIgnoringScope(x) ==
  IF flight[x].org # None THEN {flight[x].org} ELSE LookupOrgByClaims(claims, orgs, flight[x].name, Request(x))

Found(x) == FoundLocked(x)

\* A record that registers something in scope states the contact.
IsInScopeContact(obj) ==
  \E record \in In(edges, obj, RegistrantLabels) : InScope(scope, record)

Made(x) ==
  LET r == Request(x) IN
  [name |-> flight[x].name, legal |-> r.legal, jur |-> r.jur, reg |-> r.reg, src |-> r.src,
   obj |-> r.obj, rel |-> r.rel, inScope |-> IsInScopeContact(r.obj)]

Acquire(x) ==
  /\ At(x, "wait") /\ lock = None
  /\ \E o \in Found(x) :
       \/ /\ o # None
          /\ lock' = x
          /\ flight' = [flight EXCEPT ![x] = [@ EXCEPT !.org = o, !.at = "claim"]]
          /\ UNCHANGED <<orgs, made, faults>>
       \/ LET r == Request(x)
              new == <<"Organization", Brand(r), r.legal, Cardinality(orgs) + 1>>
          IN /\ o = None
             /\ lock' = x
             /\ flight' = [flight EXCEPT ![x] = [@ EXCEPT !.org = new, !.at = "claim"]]
             /\ orgs' = orgs \cup {new}
             /\ made' = [p \in orgs' |-> IF p = new THEN Made(x) ELSE made[p]]
             /\ UNCHANGED faults
       \/ /\ o = None /\ Fails
          /\ To(x, "check")
          /\ UNCHANGED <<lock, orgs, made>>
  /\ UNCHANGED <<world, edges, claims, scope, row, worn, undone, saw, reviewed>>

\* The claims, and the relation, of the call that made the organization.
OwnClaims(o) == ClaimsOf(o, made[o].name, made[o])
OwnRelation(o) == <<made[o].obj, made[o].rel, o>>

\* The claims are written one by one; when one fails the call goes on.
WriteClaims(x) ==
  LET o == flight[x].org
      all == ClaimsOf(o, flight[x].name, Request(x))
  IN /\ At(x, "claim")
     /\ \/ claims' = claims \cup all /\ UNCHANGED <<faults, undone>>
        \/ /\ Fails /\ \E c \in all : claims' = claims \cup (all \ {c})
           /\ undone' = undone \cup {u \in {<<o, "claims">>} : ~(OwnClaims(o) \subseteq claims')}
     /\ To(x, "relate")
     /\ UNCHANGED <<world, edges, orgs, scope, row, lock, worn, made, saw, reviewed>>

\* The caller dispatches the organization, unless the relation could not be stored.
Relate(x) ==
  LET r == Request(x)
      o == flight[x].org
      wanted == {<<obj, r.rel, o>> : obj \in {r.obj} \ {None, o}}
  IN /\ At(x, "relate")
     /\ \/ /\ edges' = edges \cup wanted
           /\ Dispatch({o}) /\ UNCHANGED <<faults, undone>>
        \/ /\ wanted # {} /\ Fails
           /\ undone' = undone \cup {u \in {<<o, "relation">>} : OwnRelation(o) \notin edges}
           /\ UNCHANGED <<edges, row>>
     /\ lock' = None
     /\ To(x, "check")
     /\ UNCHANGED <<world, orgs, claims, scope, worn, made, saw, reviewed>>

------------------------------------------------------------------------------
(* The handlers of Horizontals.                                            *)

OrgsOf(cr) == Orgs(Out(edges, cr, {"organization"}))
Locations(X) == {x \in X : Kind(x) = "Location"}
LocationsOf(cr) == Locations(Out(edges, cr, {"location"}))
OrgsAndLocations(cr) ==
  OrgsOf(cr) \cup LocationsOf(cr) \cup UNION {Locations(Out(edges, o, {"hq_address", "location"})) : o \in OrgsOf(cr)}

Stored(S) == S \cap Known(edges)

\* addASNetblocksToScope, and the system itself.
SystemAndNetblocks(record) ==
  UNION {{as} \cup Out(edges, as, {"announces"}) : as \in Stored({AS(Key(record))})}

\* What a contact that is in scope brings in with a record or certificate that states it.
Registered(record) ==
  CASE Kind(record) = "AutnumRecord" -> IF InScope(scope, record) THEN {} ELSE SystemAndNetblocks(record)
    [] Kind(record) = "DomainRecord" -> Stored({FQDN(Key(record))})
    [] Kind(record) = "IPNetRecord" -> Stored({Netblock(Key(record))})
    [] Kind(record) = "TLSCertificate" -> {record}
    [] OTHER -> {}

StatedBy(cr) == {e[1] : e \in {f \in edges : f[3] = cr}}

\* Mutant: the contact of a domain is labelled like that of a network.
StatedAsRegistrant(cr) == In(edges, cr, {"registrant", "subject_contact"})
RecordsStating(cr) == StatedBy(cr)

\* processInScope of an organization or location.
Neighbourhood(x, label) ==
  UNION {OrgsAndLocations(cr) \cup UNION {Registered(record) : record \in RecordsStating(cr)} :
           cr \in {y \in In(edges, x, {label}) : Kind(y) = "ContactRecord"}}

\* The zone apex of a name, over the node edges back to it.
Apexes(name) ==
  {y \in Stored(Closure(edges, name, LAMBDA E, y : In(E, y, {"node"}), {})) : In(edges, y, {"node"}) = {}}

\* A registration record with the contact cr brings in itself, or rather a domain record does, and a
\* certificate the registered name.
OfRecord(x, cr) ==
  LET near == OrgsAndLocations(cr)
      own == CASE Kind(x) = "AutnumRecord" -> SystemAndNetblocks(x)
               [] Kind(x) = "DomainRecord" -> IF Stored({FQDN(Key(x))}) # {} THEN {x} ELSE {}
               [] Kind(x) = "IPNetRecord" -> Stored({Netblock(Key(x))})
  IN IF InScope(scope, x) THEN near
     ELSE IF \E y \in near : InScope(scope, y) THEN own \cup near ELSE {}

OfCertificate(x, cr) ==
  IF ~InScope(scope, FQDN(Key(x))) /\ \E o \in OrgsOf(cr) : InScope(scope, o)
  THEN OrgsOf(cr) \cup UNION {Apexes(n) : n \in Stored({FQDN(Key(x))})}
  ELSE {}

ContactLabel(x) ==
  CASE Kind(x) = "DomainRecord" -> "registrant_contact" [] Kind(x) = "TLSCertificate" -> "subject_contact"
    [] OTHER -> "registrant"

Expand(x, todo) == flight' = [flight EXCEPT ![x] = [@ EXCEPT !.at = "expand", !.todo = todo]]

\* getContactRecord: what the first relation found leads to, if that is a contact.
ContactFound(x) ==
  Answers({IF Kind(y) = "ContactRecord" THEN y ELSE None : y \in Out(edges, x, {ContactLabel(x)})})

\* A record or certificate.
CheckRecord(x) ==
  /\ At(x, "check") /\ Kind(x) \in Records \cup {"TLSCertificate"}
  /\ \E cr \in ContactFound(x) :
       \/ /\ ~world.rigid /\ cr # None
          /\ Expand(x, IF Kind(x) = "TLSCertificate" THEN OfCertificate(x, cr) ELSE OfRecord(x, cr))
          /\ saw' = saw \cup {<<x, y>> : y \in OrgsOf(cr) \cup LocationsOf(cr)}
       \/ /\ world.rigid \/ cr = None
          /\ Expand(x, {}) /\ UNCHANGED saw
  /\ UNCHANGED <<world, dbVars, scope, row, lock, worn, faults, made, undone, reviewed>>

\* An organization or location that is in scope.
Review(x) ==
  /\ At(x, "check") /\ Kind(x) \in {"Organization", "Location"}
  /\ ~world.rigid /\ InScope(scope, x)
  /\ Expand(x, Neighbourhood(x, IF Kind(x) = "Location" THEN "location" ELSE "organization"))
  /\ reviewed' = reviewed \cup {x}
  /\ UNCHANGED <<world, dbVars, scope, row, lock, worn, faults, made, undone, saw>>

\* A name, organization or location that is not in scope: association adds it, and nothing is queued.
Associate(x) ==
  /\ At(x, "check") /\ Kind(x) \in {"FQDN", "Organization", "Location"}
  /\ world.rigid \/ Kind(x) = "FQDN" \/ ~InScope(scope, x)
  /\ scope' = IF ~world.rigid /\ ~InScope(scope, x) /\ IsAssociated(edges, scope, x)
              THEN scope \cup Entry(x) ELSE scope
  /\ Expand(x, {})
  /\ UNCHANGED <<world, dbVars, row, lock, worn, faults, historyVars>>

\* An address whose PTR record leads to a name in scope has its neighbours swept.
SweepAround(x) ==
  LET arpa == {y \in Out(edges, x, {"ptr_record"}) : y \in world.arpa}
      swept == \E y \in arpa : \E n \in Out(edges, y, {"dns_record"}) : InScope(scope, n)
  IN /\ At(x, "check") /\ Kind(x) = "IPAddress"
     /\ Dispatch(IF swept THEN world.near \ Known(edges) ELSE {})
     /\ Expand(x, {})
     /\ UNCHANGED <<world, dbVars, scope, lock, worn, faults, historyVars>>

\* Assets without a handler of Horizontals.
Pass(x) ==
  /\ At(x, "check") /\ Kind(x) \in {"Netblock", "AutonomousSystem"}
  /\ Expand(x, {})
  /\ UNCHANGED <<world, dbVars, scope, row, lock, worn, faults, historyVars>>

\* addToScopeAndEnqueue queues what is new, if the entry of the scope that matches has its key.
SameKey(m, y) == m = y \/ (Kind(y) = "DomainRecord" /\ m = FQDN(Key(y)))

EnqueueIfOutOfScope(x) ==
  \E y \in flight[x].todo :
    /\ At(x, "expand")
    /\ flight' = [flight EXCEPT ![x].todo = @ \ {y}]
    /\ \/ InScope(scope, y) /\ UNCHANGED <<scope, row>>
       \/ /\ ~InScope(scope, y)
          /\ scope' = scope \cup Entry(y)
          /\ \/ /\ IsNew(scope, y) /\ \E m \in Matches(scope', y) : SameKey(m, y)
                /\ Enqueue({y})
             \/ /\ ~(IsNew(scope, y) /\ \E m \in Matches(scope', y) : SameKey(m, y))
                /\ UNCHANGED row
    /\ UNCHANGED <<world, dbVars, lock, worn, faults, historyVars>>

\* The event has left the pipeline.  The ack also takes a row that was queued again meanwhile.
Complete(x) ==
  /\ At(x, "expand") /\ flight[x].todo = {}
  /\ row' = [row EXCEPT ![x] = "done"]
  /\ flight' = [y \in DOMAIN flight \ {x} |-> flight[y]]
  /\ UNCHANGED <<world, dbVars, scope, lock, worn, faults, historyVars>>

Next ==
  \/ \E x \in DOMAIN row : Claim(x)
  \/ \E x \in DOMAIN flight :
       \/ Store(x) \/ Lookup(x) \/ Walk(x) \/ Acquire(x) \/ WriteClaims(x) \/ Relate(x)
       \/ CheckRecord(x) \/ Review(x) \/ Associate(x) \/ SweepAround(x) \/ Pass(x)
       \/ EnqueueIfOutOfScope(x) \/ Complete(x)

Spec == Init /\ [][Next]_vars

------------------------------------------------------------------------------
(* Properties.                                                             *)

\* A call that states an organization - the same name by the same source, or the same registration
\* number in the same country - does not make it again once an earlier call has, however the two are
\* interleaved, unless the database failed to store a claim of the earlier one.  (createOrgLock, and
\* the lookup under it.)
SameClaim(r, s) ==
  \/ r.jur = Blank /\ s.jur = Blank /\ r.name = s.name /\ r.src = s.src
  \/ /\ r.jur # Blank /\ s.jur # Blank /\ Country[r.jur] = Country[s.jur]
     /\ r.reg # Blank /\ r.reg = s.reg
OneOrganization ==
  \A o, p \in orgs : o[4] < p[4] /\ SameClaim(made[o], made[p]) => <<o, "claims">> \in undone

\* Once an organization is made for the registrant contact of a record in scope, no call makes another
\* one with its name, whatever it knows of the organization and whichever object it is related to,
\* although the walk that looks for it is done before the lock is held: unless the database failed to
\* store the relation to the contact.
InScopeOnce ==
  \A o, p \in orgs : o[4] < p[4] /\ made[o].inScope /\ p[2] = o[2] => <<o, "relation">> \in undone

\* A record whose registrant is an organization or location that comes into scope is in scope once
\* both were handled, whichever was handled first: the handler of the record sees the scope, or
\* that of the organization sees the record.
Expanding(x) == At(x, "expand")
ReviewedReaches ==
  \A pair \in saw :
    /\ Kind(pair[1]) \in Records /\ pair[2] \in reviewed
    /\ ~Expanding(pair[1]) /\ ~Expanding(pair[2])
    => InScope(scope, pair[1])
==============================================================================
