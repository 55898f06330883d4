# Verification of the amass engine

TLA+ models of the engine in this repository, the TLC runs that check them on
small instances, and TLAPS proofs of theorems that hold for every instance.
`PROJECT.json` lists the components, the runs, the source lines each
definition stands for, the hazards, the findings and the theorems.

## 1. The system

The engine (`engine/`) is one process. It serves an HTTP API, through which a
client such as `amass enum` creates a *session*, submits seed assets, asks
for statistics, starts the end work, and terminates the session. Assets live
in a graph database; a *backlog* of each session (a private SQLite file) says
for each asset whether it is queued, leased or done.

    client --HTTP--> handlers --> session manager --> session
                        |                               | statistics, semaphore,
                        v                               | log stream, scope
    plugin handlers --> dispatcher --> backlog of the session
          ^                | pump: claims rows, fills pipeline queues
          |                v
          +---- pipeline of the asset type: stages of handlers
                           |
                           v
                   completion channel --> dispatcher: acks rows

| Component | State it keeps | Operations | What is hard |
|---|---|---|---|
| Backlog database (`engine/sessions/backlogdb`) | rows with state, owner, end of lease | Enqueue, ClaimNext, Ack, Release, RequeueExpired, Delete | leases that expire while their owner still works, rows queued again while leased |
| Session backlog (`engine/sessions/backlog.go`) | owner, TTL of leases (0) | the same, by entity | failed loads of claimed entities, cancelled contexts |
| Dispatcher (`engine/dispatcher`) | metadata map, wake channel, completion channel and queue | DispatchEvent, ResubmitEvent, pump, completion loop, clean-up | check and insert in separate steps, dropped wake-ups, bounded queues, acks that come late |
| Asset pipelines (`engine/registry/pipelines.go`) | queue, stages | take, run the handlers, leave through the sink, a panic or the end of the session | completion channel full, one element in several handlers, elements dropped between stages when the session ends |
| Handler registry (`engine/registry`) | handlers by type and position | RegisterHandler, BuildAssetPipeline, OSINT bypass | order of registration, skipped stages |
| Sessions and manager (`engine/sessions`) | map of sessions, end-work flags, done channel and context of each | NewSession, CancelSession, RunEndWork, Shutdown | concurrent cancellations, requests during shutdown |
| Session semaphore (`engine/sessions/session.go`, `internal/net/network.go`) | channel of tokens, number of sessions last seen | Acquire, Release, resize every 10 s | the channel is exchanged under waiting goroutines |
| Session end (`internal/enum/cli.go`, `owned_netblock.go`, `sweep.go`) | client's poll counters, statistics, hook, fill goroutine | poll, end-work request, fill, sweep | stranded leases, lost requests, counts that are not a snapshot, termination in the middle |
| Log stream (`engine/pubsub`, `websocket.go`) | queue, subscribers, a pump for each | Publish, Subscribe, Unsubscribe, Close | delivery order, closing under load |
| Session scope (`engine/sessions/scope`) | domains, addresses, netblocks, organisations, locations | Add, IsAssetInScope, IsAssociated | association across types, growth during the run |
| Source plugins (`engine/plugins/api`, `archive`, `scrape`, `whois`) | keys, rate limiters, shared lookups; marks in the asset database | check, lookup, query, store, process | replies that are failures and do not look it, lookups cut short, marks that outlive them |
| DNS, port and service discovery (`plugins/dns`, `service_discovery`, `ip_netblock.go`, `support/portscan.go`) | single flights, tags, netblocks already filled | resolve, sweep, admit a netblock, scan, probe, fill | an address is in scope only later than its event; what is contacted must be authorised |
| Horizontals and organisations (`plugins/horizontals`, `support/org`) | the lock of CreateOrgAsset | CreateOrgAsset, the review of each asset type | the same organisation made twice; a record reviewed before its owner joins the scope |
| API server and client (`engine/api`) | none of its own | decode, call manager or dispatcher, encode | answers that precede the effect |
| Configuration (`config`) | options, transformations | load, merge, check | precedence of options |
| Networking (`internal/net`) | egress endpoints, ASN cache | dial, look up | rotation, cache under concurrent reads |
| Command line tools (`cmd`, `internal/*`) | none | read the database, print | - |

What makes each of them correct, in one line: no asset is lost, none is done
before it was processed, none is processed twice at once; every limit holds
under every interleaving; a session that ends leaves nothing running, and what
was promised to a client before is carried out; whoever waits is served.

## 2. Modules

| Module | Models | State and actions |
|---|---|---|
| `BacklogRows` | the statements of `backlog.go` | operators on a table of rows; a row is absent, or has state, owner, end of lease and age. `ClaimSets` yields every set the statement may take (oldest first, ties free). No state |
| `BacklogDB` | consumers of one backlog database | clock, rows, what each consumer believes it holds, counters of enqueues and completions |
| `WorkLedger` | what the dispatcher promises | each item is new, pending or done; done only after it passed through its pipeline, was given up there, or could not be loaded |
| `Dispatcher` | `dispatcher.go`, `meta_map.go`, `sessions/backlog.go`, source and sinks of `pipelines.go` | one action for each step between two shared operations: callers (dispatch, resubmit, and the `Enqueue` of Horizontals), pump, pipeline slots, completion loop, clean-up, sessions. Uses `BacklogRows` for each session |
| `Handlers` | what `NewX` and `Start` of every plugin of `load.go` register | a table: type, position, exclusiveness, instances, gate on domains of the scope. No state |
| `Pipelines` | `registry.go`, `pipelines.go`, `osint_bypass.go` | registration in the order of `load.go`; then one event goes through the stages, the handlers of a stage at once, with panics and failures; when the session ends, its stages drop what is between them |
| `SessionSemaphore` | `sessSemaphore` and its resize | channels (capacity, tokens, queue of parked receivers), place of each user, place of the resizer |
| `SessionManager` | `manager.go`, `Session.Kill`, handlers for create, delete and end-work, shutdown of server and manager | place of each canceller and end-work request; one action for each step under a lock or on a channel |
| `EndWork` | wait loop of `cli.go`, `calculateStats`, `FinishOwnedNetblockFills`, `fillOwnedNetblock`, `SweepMissedIPs` | numbers of queued, leased and done rows for addresses and for all other types; places of client, statistics, hook and fill |
| `LogStream` | `logger.go`, `websocket.go` | the queue, the broadcaster, and for each client its queue, pump, channel, reader and sender; one action for each step of a goroutine |
| `LogReceipt` | what clients receive of it | `LogStream` with one history variable, `since`: the first record that was queued after a client subscribed |
| `AssetGraph` | the store functions of all plugins | the facts `<<by, from, label, to>>` that they write: plugin, kinds, relation. No state |
| `AssetReads` | the lookup functions and walks of all plugins, of `internal/net` and of the reading tools | paths over those facts; `Found` says whether a path can ever be there. No state |
| `DataSources` | the 34 plugins that ask one remote source | one record each: credentials, what it does after a failed request, which replies it takes for failures, what it marks, what it submits while the mark lasts. No state |
| `SourceLookups` | the life cycle those plugins share, with `known_fqdn.go` | sessions, jobs for each asset, requests and replies, marks with their time, what was submitted, rate limiter, cancellation, failing database calls |
| `Association` | `scope/association.go` and the scope itself | operators over a set of edges and a scope. No state |
| `Organizations` | lookups of `support/org` | operators over edges, organisations and claims that return the set of possible answers. No state |
| `Expansion` | `CreateOrgAsset` and the handlers of `horizontals` | edges, organisations, claims, scope, backlog rows, the events in flight and their place, the lock |
| `Discovery` | `dns`, `ip_netblock.go`, `support/portscan.go`, `owned_netblock.go`, the probes and the sweep; the part of bgp.tools, RDAP and contacts that leads to a netblock's owner; the scope growing by Horizontals | records in the asset database, tags within the TTL, each of which lapses by its own time, scope, rows and stages of names, addresses, netblock and registration, port scans in flight, the end of the session |
| `MC...` | - | model values, scripts of calls, worlds, symmetry sets |
| `...Proofs` | - | theorems and their proofs |

History variables record what a property speaks of and no action reads them. In `Dispatcher`, for each asset: `traversed` (all
handlers returned), `abandoned` (a handler gave it up, or it could not be loaded), `asked` (how many calls had reason to queue
it), `overlapped` (it was under way when it was last queued) and `kept` (an ack that left its metadata in the map). In
`Discovery`: `due`, the addresses the sweep was to see to, `owed`, the names whose addresses the session is to scan, `scans` and
`probed`. In `LogReceipt` `since`, and in `LogStream` `drained`, what Close discarded. In `Expansion` the request each
organization was made for (`made`), what the database failed to store for it (`undone`), and what was seen and reviewed (`saw`,
`reviewed`).

How they compose. `Dispatcher` holds a table of `BacklogRows` for each session and implements
`WorkLedger` by a refinement mapping. `Pipelines` extends `Handlers` and opens what
`Dispatcher` has between `PipelineTake` and the ways out: `PipelineExit` when all handlers have returned, `GiveUp` by any of the
handlers of a stage, `Discard` when the stage passes nothing on. `EndWork` abstracts
the pipelines of `Dispatcher` to `Claim`, `Discover`, `Complete` and `Strand`; the last is what
`LeasesAccounted` bounds: a lease that a failed `Ack` leaves behind. `Discovery` has the same
hook over single addresses, with the handlers that `EndWork` leaves out; who becomes kin of the scope, which is
data there (`Horizontals`), is worked out in `Expansion`. `SessionManager` and
`SessionSemaphore` share the two steps of `CancelSession` that the semaphore sees (`Kill`, then
`Remove`). `SourceLookups` runs the records of `DataSources`, whose `cached` field is computed
from `AssetReads` and so from `AssetGraph`: a store function that no longer writes what the
lookup expects changes the behaviour of the sessions. `Expansion` extends `Organizations`, which
extends `Association`.

### Abstractions

Entities, owners, metadata, users, requests, names and addresses are model values or
strings that are only compared. A statement on the backlog is one step, since the session holds
a mutex and the database one connection. Time is a clock in `BacklogDB` and `SourceLookups`;
elsewhere a timeout is an action that may happen. Payloads, formatting, logging and metrics are
left out.

`AssetGraph` and `AssetReads` are static: they have the facts of *any* event, and whether one event makes
a plugin write them (a guard on the scope, for example) is left to the modules of handlers. DNS relations are
told apart by record type and identifiers by their type. Tags that sources of names put on
the names they submit are left out. `ReadsAssumption` lists all that is looked for and never written.

`Expansion`: an event has one call of `CreateOrgAsset` at most; locations are identified by their
address; contact records have no handler of their own; a handler reads its neighbourhood at once and adds in any
order; the caps of the ancestor walk (10 hops, 256 nodes, 32 organisations, 2 s) are not reached. As in the shipped
configuration all kinds have a confidence above 1, so that a name that is merely similar never puts
an asset in scope. The lookup by LEI or RDAP handle that some callers do first is left out. The
writes under the lock are three steps: create, claims, relation.

`Discovery`: an asset has one event at a time (`Dispatcher` has the races); A and AAAA are one query;
ports are configured and an egress is there; the sweep does not reach its cap; TXT, the apex and guesses of
names are left out, as are the edges that `reverse.go` adds for owned addresses. Remote queries fail, the asset database does
not. Which domains and netblocks may join the scope as kin (`horizontals/plugin.go:416-431`, `460-481`, `reg_records.go:157-191`)
is data of a world, none where the configuration is rigid; *when* they join is open: at any step, and their rows may be queued
again or not. Tags lapse one by one, but only between sessions. A kill stops everything at once; a later session begins without
flights and may find the netblock already filled or not, as the same process may serve it or a new one.

`SourceLookups`: the TTL counts sessions; a block stands for the /24 of the plugins that share a lookup.

`Pipelines`: one element is followed; a handler returns or panics; what it discovers are calls of `Dispatcher`.

## 3. Runs

| Run | Shows |
|---|---|
| `backlog` | with expiring leases and crashing consumers nobody else holds a claimed row that is queued only once, no row is completed more often than it was queued (even if it is queued again or deleted under a lease), older rows go first |
| `dispatch_racing` | two callers race to submit one asset, or one queues it again (by `ResubmitEvent` or as Horizontals does) while it is under way, with one failing database operation, two handlers that share a stage and may give the element up, and a session that the clean-up may take for dead when it has just begun: an asset is in work no more often than calls had reason to queue it plus failures, no metadata is forgotten in the map, queues stay bounded, a stranded lease needs a failure, a queued row is claimed before it is done unless it was queued during an earlier run, and the dispatcher implements the ledger |
| `dispatch_live` | an asset is queued a second time without a wake-up, in a session that starts late and may be terminated at any moment, and the engine may go down: what is queued is eventually done, metadata of removed sessions is reclaimed for good |
| `semaphore` | while sessions come and go: tokens are conserved and everybody is served until the first resize, nobody is stuck in a release, no division by zero hits a live session |
| `manager` | end work runs once and is done; a request never finds a closed session; what was accepted is carried out; sessions that are gone were killed, and those that shutdown listed are gone when it returns |
| `endwork` | the client comes to its end although leases are stranded, readings fail and requests are lost; after a termination hook and fill stop after one address each |
| `pipelines` | an exclusive handler is alone at its position whatever the order of registration; what the bypass skips would have returned at once; after an event was given up only the handlers that share its stage are called with it; every event is completed as long as its session goes on |
| `log_stream` | a client is written an uninterrupted run of the log, and while it is subscribed nothing that was queued since is missing, only what Close discards excepted; after Close, or after a client has left, every connection, subscription and goroutine ends; a subscribed client that reads gets everything |
| `sources` | for 31 of the 34 sources: where one is not asked about an asset because the asset is marked, all that the mark stands for is submitted nevertheless, by the plugin itself from the database or by Known-FQDN. For 15 of them that is all the source has, since they mark only a lookup that was completed; for the 16 that mark whatever happened it is only what they were answered |
| `discovery` | only authorised addresses are ever scanned or probed, where those of kin count as authorised; none is scanned twice within the TTL, although tags lapse one by one; when a session is done with a name that was in scope, and had no fresh mark of HTTP-Probes, when its addresses were found, all that are routable have been scanned; none that the sweep was to see to and that has open ports is missed at the end of a session |
| `expansion` | two calls that state the same organisation make one, and none makes a second one beside that of a record in scope, unless the database failed to store the claim or the relation that would tell; a record and the organisation that registered it reach each other in either order |

One run finds the code at odds with what it says (`PROJECT.json`, "findings"):

| Run | Finding |
|---|---|
| `discovery_gap` | an address that the prefilter passes over, because its netblock is not in scope yet, is not scanned later, although `portscan.go:128-131` says that this "is never a permanent coverage gap" |

`SkippedIsCovered` excepts three sources (`Promised`). `Grep.App` and `RDAPAutsys` submit nothing within the TTL: their lookups look
for what their stores never write (the lookup of the latter wants an AutnumRecord that names RDAP as its source,
`api/rdap/autsys.go`). `IP-THC` for addresses marks one address for its whole block before anything is stored.

### Observations without a run

Reading the code for the models showed more places where it differs from its comments or from
what one would expect.

Work path. `DispatchEvent` calls that race put one asset in flight twice (`dispatcher.go:77`), although the check is there so as not
to "schedule the same asset more than once"; `dispatch_racing` runs that race, and `ScheduledOnce` says how often at most. The
completion of a first pass swallows a resubmission that was queued meanwhile (`dispatcher.go:150`), against
`events.go:29-32`, by which "the pump will claim it and the asset will traverse its pipeline again"; this is also how an address in
flight misses its fill. `QueuedIsClaimedFirst` says that only such rows are done unclaimed. A handler that panics sends its element
out, and the row is acked done although the later handlers never saw it (`pipelines.go:223-228`): `abandoned` keeps those apart from
`traversed`. The clean-up lists the sessions before the entries of the map, so that one created in between is taken
for dead and its first assets lose their metadata (`dispatcher.go:303`, `meta_map.go:92`); and the undo of a failed enqueue removes the
metadata of another submission (`dispatcher.go:85`). So that metadata *arrives* is not a property of this code; that none is left
behind is (`MetaAccounted`), but for acks outside the completion loop, which leave it in the map until the session goes.
`ClaimNext` acks an entity that cannot be loaded instead of releasing it (`sessions/backlog.go:187`). `load.go:82` never appends to
the list of started plugins, so a failed start stops none.

Sources. `lookup.go:16-22` says that a data source plugin marks an asset monitored only when its lookup completed. Seventeen do not
keep to that and mark after a request that failed as well: VirusTotal (`virustotal.go:104-106`), SiteDossier
(`sitedossier.go:91-94`), Chaos, LeakIX, three handlers of Aviato and others (`marks |-> "always"` in `DataSources`). What a failed
request would have brought is lost for the TTL. `StandsFor` therefore lets their marks stand for what they were answered only;
`SkippedIsCovered` shows that this, at least, is never lost, and that the other sources do keep the comment's promise.

Sessions. A goroutine that waits on the semaphore during a resize is never served (`session.go:483` against
403-405). Two cancellations may both close the done channel and panic (`session.go:245`). A token is found for
a while after the 204 that ends its session (`handlers.go:222`). `calculateStats` can publish equal totals for
a session that was never idle (`session.go:363`). The hook can be done before the fill it waits for has
queued its first address (`owned_netblock.go:262`). Close may discard records in the middle of the log, not only
the last ones (`logger.go:114`).

Discovery. `ResolvedIPsForFQDN` walks NS, MX and PTR edges too. An address behind an alias out of scope is never
authorised. `seedScopedIP` is not the first to see an address whose tags are fresh from an earlier session. A name with a fresh
HTTP-Probes mark skips the scan of its addresses even if their scan marks have lapsed (`fqdn_endpoint.go:49-58`), and a name whose domain joins the
scope after its addresses were found may never be scanned: `owed` leaves both out of `ResolvedIsScanned`. `http_probes/plugin.go:184` dispatches a service before the certificate
edge that JARM requires. The bgp.tools query dereferences the error of a reply without a record.
`ip_netblock.go` tags a reserved netblock twice and its system never. `ipaddr` calls `PeekBanner` without a dialer.

Database. `AssetReads!ReadsAssumption` has the lookups that find nothing: the tags of a DomainRecord's entities,
services of a URL, the certificate an expanded certificate was issued by, NS relations in `NamesToAddrs`. The DNS lookup
within the TTL accepts relations of other writers. A GLEIF child that is already known gets no subsidiary edge, an RDAP contact
whose organisation is found by handle no organisation edge. A URL out of scope is marked although nothing was written, so a host
that joins the scope within the TTL is not found.

Organisations. `processDomainRecord` enqueues the record instead of the name it found (`reg_records.go`). A certificate reached through an
organisation is not queued, and its subdomain CN is not added. Association adds an organisation to the scope without queueing it. Jurisdictions are compared by country.
The table of site verifications hands out pointers that `CreateOrgAsset` writes to outside the lock: a data
race, and later calls use the normalised name (`worn` in `Expansion`). `orgsWithSameNames` compares a lower-case name with
claims as they were written; the lookup by normal name looks at one organisation only, so calls of another
jurisdiction make one each. The similarity of the scope (0 to 1) is compared with a confidence in percent.

Other state. IPVerse's map of systems is shared without a lock; concurrent domains overspend the reserve of
Prospeo (`prospeo.go:46`); a failed bootstrap of WHOIS is never tried again; `Transformation.Validate` never looks at `tfound`.

### Bounds

Two callers, one or two entities and two calls on one asset make the races of the dispatcher possible: each hazard involves
two calls on one asset, or two assets that compete for one place. Queue bound, burst, pipeline depth and
completion channel are 1 or 2, so that they are full in most states; the capacities of the code (20 to 200,
1000) would rather hide those states. Two handlers share a stage, so that one gives an element up while the other works on it. One
fault tells a single lost lease from a chain of them. `dispatch_racing` never terminates its session, since after `Kill` every
backlog operation fails and nothing those properties speak of can change; `dispatch_live` does, and the theorems cover
terminations and races together. Three users and two tokens
give a holder, a waiter and a competitor around one resize. Two sessions, a request to terminate one, two for the
end work and the shutdown, which cancels every session itself, give each pair of concurrent calls.

In `endwork` two polls stand for the five in a row; two items, one address to fill, a cap of two, one stranded lease
and one failure (reading or lost request, whichever comes) let every loop of hook and fill run and stop. In
`log_stream` one client suffices, as clients share only the queue and a lock held in one step, and a record for
others is one it has passed on; two records and a channel of one fill the channel and stop the pump behind it, whether the sender lives or not. That the sender holds a third meanwhile is left to the theorems, which take any number of records, as far as safety goes. In `sources` a source has two
pages, two keys, a name out of scope and two assets of one block; two sessions, with a TTL that covers the second or not,
and one failing database call. `pipelines` takes all plugins and all types of assets; the configurations are all, all but some,
one kind, one plugin, none, and two contradictory ones.

`discovery` and `expansion` range over worlds. A world fixes what the Internet answers and who owns what; there is one for each
way that leads into the scope (a name, an alias, a name server, a PTR record and its neighbours, an owned, small or listed
netblock, kin of the scope; a domain, network, system, certificate, site verification, a parent company), with one or two
assets that race. Two sessions and one failure are in worlds of their own. Some of these worlds show why the properties say what
they say. In `Lapsed`, `Pair` and `Again` any of the tags of a
first session may have lapsed in the second, and in the first of them its query may fail; in `Joined` another domain becomes kin of the scope
before or after its name is done, and in `Bought` the netblock does. Hence "in scope, without a fresh mark, when its addresses were found"
in `ResolvedIsScanned`; and since the sweep itself widens the scope, "when the sweep began" in `NoMissedIP`. In `Retried` three calls state one
organisation for two contacts: when a claim of the
first cannot be stored the second makes another one, and so on; a later call, with the claims of another contact, may then repair what is
missing. So `OneOrganization` and `InScopeOnce` charge the second organisation to the failure that happened, not to what is
stored at the moment.

Symmetry is used in `backlog` only, which has no liveness property; entities that are queued once and those that
are queued again are not interchangeable.

Deadlock is checked in `dispatch_racing`, where the pump ticks for ever. The other runs turn the check off, because
the system may rest: clock and enqueues of `backlog` are bounded, the dispatcher of `dispatch_live` is shut down, no user comes
back to the network, requests need not come, the client exits, the event has left its pipeline, all rows are done.

### Fairness

Weak fairness for goroutines that are runnable, tickers (the pump each 10 s, the statistics and the polls each 2 s,
the semaphore each 10 s) and handlers, which work under timeouts. There is none for what a user or a remote host
would have to do: no request has to come, no session has to end, no wake-up has to be sent, no client has to read. `EndWork` has strong
fairness for `AskOverdue` only: the two minutes run on a clock, however often polls in between find the session idle;
the hook's waits have deadlines, hence `WF(WaitTimesOut)`. `SessionManager` assumes that the end-work hook returns,
which `endwork` bears out. `LogStream` has weak fairness for the goroutines of the engine and for the write deadline of a socket.
`Pipelines` has it for the steps of an event, `Dispatcher` for the ways out of a pipeline (`PipelineExit`, `Discard`), but not for a
handler that gives up. When a session is terminated its stages return on their context and drop what is between them (`pipelines.go:103-104`,
`session.go:336`), so `EventCompletes` and `QueuedIsProcessed` except such a session: what it held stays leased in a backlog that ends with it. `CliFinishes` excepts an end-work request that was lost and a session that
somebody else has terminated: in both cases the client does wait for ever.

`sources`, `discovery` and `expansion` check no liveness. What must be reached there is stated of the moment a handler
or a session is done (`ResolvedIsScanned`, `NoMissedIP`, `ReviewedReaches`), which needs no fairness.

## 4. Proofs

| Theorem | Argument |
|---|---|
| `EventProofs!TypeCorrect`, `CompletedOnce`, `Exclusive`, `InOrder` | lemmas state what each statement of `BacklogRows` does to a table and to a row; `DispatcherProofs` has those it needs as well. Completions are bounded because a row that is not done holds one enqueue in reserve: `completed + (1 if the row is queued or leased) <= enqueued`. Exclusiveness needs that an unexpired claim agrees with owner and end of lease in the row. A claim leaves only rows of its type that are no older than what it takes |
| `EventProofs!PipeTypeCorrect`, `SlotsAreExclusive`, `NothingIsLost`, `CompletedIsDone` | for any configured transformations. The plugins of `load.go` enter by one lemma, `PluginsSound`: whatever a plugin registers stands at a position from 1 to 50, has an exclusive slot if it asks for one, which no other handler claims (`Slots`), and returns at once for unmarked names exactly if it is between the gate and the place where names go on, where the plugin has to be on the list that the bypass may skip; Known-FQDN, which marks names, stands before the gate. The registry keeps type, plugin and name of handlers unique. The invariant is `IInv`: `Met` says what `BypassLosesNothing` says of the sink at every place on the way, that an event has met every wanted handler of the stages behind it, up to those it was routed around; `Reported` says that a reported completion means the event left, or a handler of its stage gave it up |
| `DispatcherProofs!TypeCorrect`, `Bounded` | by cases over all actions. The bound of a queue is not inductive: what is claimed and loaded must be counted with what is queued, and the room computed earlier cannot shrink, since only the pump appends |
| `DispatcherProofs!LeasesKept` | a lease whose element is nowhere - not with the pump, in a queue, in a pipeline or with the completion loop - is charged to one failure. `WayInv` has the places of the elements (every element in the pump or a pipeline has a row, and is in the pipeline of its session and type); with it every step is safe for all assets but one, and for that one too unless the step fails: so the set of lost leases grows by one row when the count of failures does |
| `DispatcherProofs!KeepsLedger` | the dispatcher implements `WorkLedger`, whatever calls are made and whatever fails: each step maps to one of the ledger, or to a stutter. `Complete` needs that what lies behind the exit of a pipeline was passed through or given up (`AckedLeft`), and `Leave` that an element in a pipeline has a row (`WayInv`) |
| `DispatcherProofs!OnceAsked` | `Law` is a conservation law: the runs of an asset and its queued row, together with the calls that have decided to queue it and have not done so yet, are at most the calls that had reason to plus the failures. A claim moves a queued row to one run (`LoadOfPump`), a pipeline moves or ends runs (`LoadOfPipelines`), an enqueue moves a waiting call to a row (`CallerMoves`) |
| `DispatcherProofs!ClaimedFirst` | `Marked`: when something is under way for an asset whose row is queued, the asset is in `overlapped`. Nothing gets under way but by a claim, which takes the row out of the queue (`WayStays`), and only what is under way acks (`FinishedOnWay`) |
| `DispatcherProofs!MetaKept` | the property is made inductive by the places it names: who inserts metadata has still to enqueue or to undo, the completion loop deletes between its ack and its wake-up, every other ack records what it leaves in `kept` |
| `SessionProofs!SemTypeCorrect`, `Conserved`, `NoEarlyCrash` | parked users are on the channel they parked on, once each, and a channel with a waiter has no token; so a send that hands over moves one user into the holders, and one that buffers adds a token. The division by zero needs a count of sessions that is zero while the session is resized, and the manager takes the session out of its map only after it has killed it, which `KilledFirst` proves of the manager; `SessionProofs` extends both modules, hence the prefix of the definitions of `SessionSemaphore` |
| `SessionProofs!TypeCorrect`, `EndWorkOnce`, `NeverClosed`, `KilledFirst`, `ShutdownKills` | the place of a canceller says what has happened to its session: done is closed from `cancel` and `delete` on, the session is out of the map from `release` on; a hook runs only for a session in `endWork`, and one request put it there |
| `EndWorkProofs!TypeCorrect`, `StopAfterKill` | rows created plus addresses still to be filled never grow by the fill; whoever stands between check and submission has queued nothing since the kill, so at most one is late |
| `LogReceiptProofs!TypeCorrect`, `InOrder`, `NothingMissed` | a record is in one of seven places between the log and a client. What was written, with the sender's hand and the channel, is `Front`; the pump's hand and the subscriber's queue are `Back`; the broadcaster's hand and the logger's queue `Rest`. Most steps move a record within their concatenation and leave that as it is (`Moves`). `RunOf` says how far it is unbroken: `Front` while the sender lives, `Front` and `Back` while the pump lives too, all of it up to the last record while the client is subscribed; a goroutine that ends discards what it holds, and nothing passes behind it. `Behind` has all that a client has before all of `Rest`, so that what Close takes out of the queue breaks nothing handed out already |
| `SourceLookupsProofs!TypeCorrect`, `SkippedCovered` | `SkippedIsCovered` alone says nothing of the mark before somebody relies on it. `CoverInv` follows an item through the database: what a job got is of its asset, and stored once the job is past its first step in a live session and knows of no failure (`GotCovered`); what a mark stands for is stored, and in scope where only Known-FQDN brings it back (`MarkCovered`); such a session has submitted it before it looks at the mark (`KnownCovered`). A cancelled session marks nothing. The table of sources enters by two lemmas, one case for each source: `Steps`, the orders of the steps, and `Promises`, what the sources of the property have in common (`Keeps`: they store before they mark, and one of two ways leads back to what is stored). That a mark of those that mark always stands for what they were answered only is in `StandsFor` |
| `DiscoveryProofs!ScannedOnce` | whoever may still end a scan of an address - a flight under way, or a caller that finds no mark - finds that there was none within the TTL; the step that ends a flight sets the mark, and the count of an address lapses with its mark, whatever other tags do |
| `DiscoveryProofs!OnlyAuthorised` | the addresses stored for a name are those its servers gave, and the names in scope are configured or kin (`ScopeInv`), so what joins the scope by a name, or brings in a small netblock, is an answer of such a name; the netblock itself joins by one of the ways `BlockAuthorised` lists; who stands at a stage that contacts somebody, or in a flight, is in an active session (`ActiveInv`) |
| `DiscoveryProofs!ResolvedScanned` | `PlaceInv` says where a name or address can stand and `WalkInv` what is still to be walked for a name in `owed`: it and its routable addresses are in scope; on its walk, what is no longer to be walked carries the mark of the prefilter; and a name behind its walk, or one that has its own mark, has all of them scanned. The property alone says nothing of a name on its way, whose scope, answers and marks must be as its stage says while other names and addresses move and the scope grows |
| `DiscoveryProofs!NoneMissed` | `SweepInv`: an address that is due has been probed, has been scanned without result, is on its way through the pipeline, or waits, listed or queued, to be claimed again; the sweep ends only when nobody waits or is on the way |
| `ExpansionProofs!OrganizationOnce`, `InScopeMadeOnce` | neither is inductive. `OrgInv` adds who has the lock, that an organisation which was made is on its way to its claims and its relation (`ClaimsKept`, `RelationKept`) or has them, unless `undone` says so, and that organisations are numbered in the order they are made (`Numbered`). Under the lock nobody else is on the way, so the lookups see all there is. The walk over the neighbours in scope, which precedes the lock, finds what belongs to a record in scope in two steps of `Closure` |
| `ExpansionProofs!ReviewReachesRecords` | `ReachInv`: what the handler of the record saw stays linked to it by the same contact (`Linked`), and once the organisation or location is reviewed the record is in scope, or an expansion under way will bring it in (`Coming`) |

`ExpansionProofs` reasons about `Closure`, a recursive function of the number of hops, by a lemma of its own (`LeastElement`, from the
well-foundedness of strict inclusion on finite sets), and about numbers of organisations by cardinality. Nothing is proved of recursion over
data beyond that.

TLC checked the invariants of `ExpansionProofs` (`FlightInv`, `StoreInv`, `OrgInv`, `ReachInv`) on six of its worlds, with races and
failures, before they were proved, those of `LogReceiptProofs` (stated with `IsRun`) on one client and three records, `CoverInv` on the instance
of `sources`, and the `IInv` of `EventProofs` on that of `pipelines`. `EventProofs` extends both `BacklogDB` and `Pipelines`, hence the prefix of
`PipeInit`, `PipeNext` and `PipeSpec`.

No theorem has a hypothesis on the scripts of the callers: they hold for callers that race, resubmit and requeue as they please, for
sessions that start late and are terminated at any step, and with failures.

Assumptions on constants are the named `ASSUME`s of the modules; TLC evaluates
them in every run. The theorems hold for any number of sessions, callers,
entities, consumers, users, requests, answers, names, addresses and worlds that satisfy them. Those that
are more than types and positive capacities:

- `ElementAssumption` (`Dispatcher`): the mark of an empty slot is not an element. `DispatcherAssumption` moreover has finitely many callers and
  entities, so that they can be counted.
- `ReadsAssumption` (`AssetReads`): of the lookups of the plugins all but the two it names find what some plugin writes; it speaks of the tables of
  facts and lookups in the code, so TLC computes it.
- `ScopeAssumption` (`Expansion`): the scope that `CreateFromConfigScope` builds has domains, addresses, netblocks and systems only.
- `OrganizationsAssumption`: organisations that are in the database at the start are numbered, and no others are mentioned.
- `EdgesAssumption`: the asset model (open-asset-model) lets only registration records have registrants, which are contact records.
- `RecordsAssumption`: WHOIS asks for registered domains only and files the record under the name it asked for
  (`plugins/whois/fqdn_lookup.go:42`), and a record is stored after its subject.
- `CallsAssumption`: whoever creates an organisation for a contact relates it by `organization`, as all callers of `CreateOrgAsset` do.

Only model-checked: every liveness property (`QueuedIsProcessed`, `MetaReclaimed`, `AcquireServed`, `ReleaseCompletes`, `EndWorkAnswered`,
`CliFinishes`, `EventCompletes`, `StreamEnds`, `GoneIsUnsubscribed`, `SubscribedReceives`), since fairness and ENABLED are beyond the prover.
Six configurations are checked of `Pipelines`, any set of configurations is covered by the theorems; the table of handlers is the code's own in both.

## 5. Not modelled

- Configuration (`config/`): loading, merging and checking of options.
- Text processing: normal names and similarity of organisations, street addresses, banners, fingerprints, scraping of pages; JSON;
  arithmetic on addresses; the output of the command line tools.
- Dialling, egress rotation, TLS, HTTP transport (`internal/net`), except for what `RequestWebPage` returns.
- Guesses of names: brute force and alterations are rows of the handler table only.
- The caches of RDAP and bgp.tools in memory, and their expiry.
- `prospeo.go`, which keeps a budget of credits of a remote account; `hunterio.go`, which nothing loads.
- Opening, migrating and closing databases; libpostal; start-up of the process.
- Tables and generated files: `portfreq_data.go` (8401 lines), `resources/`, `docs/docs.go` (1079 lines). They have no behaviour.

Every safety and action property that a run checks, but for the one the code violates (`NoPermanentGap`), is stated by a theorem above.
