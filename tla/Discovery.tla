------------------------------ MODULE Discovery ------------------------------
(***************************************************************************)
(* How one finding leads to the next, and to an address being scanned.     *)
(*                                                                         *)
(* Names, addresses, a netblock and its registration are events that move  *)
(* through the handlers of their pipelines (their row in the session       *)
(* backlog and their stage), all at the same time.  The handlers share the *)
(* asset database, which outlives the session, the scope of the session,   *)
(* which grows while they run, and the flights of the port scanner.  When  *)
(* somebody ends the session, it is swept for addresses that were missed.  *)
(***************************************************************************)
EXTENDS Integers

CONSTANTS
  Names, Addrs,         \* the names and addresses of the Internet
  Block, Registration,  \* a netblock, and its IPNetRecord
  Worlds                \* what name servers and registries answer, and the configuration

\* A world: the names under a configured domain; the A, CNAME, NS and PTR records; the addresses of
\* the netblock and those a sweep takes for neighbours of each other; the addresses that listen; those
\* that are not routable; whether the netblock is small enough to be admitted on a weak signal, may
\* be filled, has a contact with an email address of a configured domain, and is configured; the kin:
\* domains and netblocks whose registrant, organization or certificate leads to somebody in scope,
\* none if the configuration is rigid; and the assets the client submits.  Its bounds: sessions one
\* after the other, remote queries that fail.
Traits == {"ambient", "fillable", "owned", "listed"}

ASSUME DiscoveryAssumption ==
  \A w \in Worlds :
    /\ w.domain \subseteq Names
    /\ w.a \in [Names -> SUBSET Addrs] /\ w.ptr \in [Addrs -> SUBSET Names]
    /\ w.cname \in [Names -> SUBSET Names] /\ w.ns \in [Names -> SUBSET Names]
    /\ w.block \cup w.near \cup w.listening \cup w.reserved \subseteq Addrs
    /\ w.kin \subseteq SUBSET (Names \cup {Block})
    /\ w.is \subseteq Traits /\ w.seeds \subseteq Names \cup Addrs
    /\ w.sessions \in Nat \ {0} /\ w.faults \in Nat

\* An asset has one type.
ASSUME TypesAssumption ==
  Names \cap Addrs = {} /\ {Block, Registration} \cap (Names \cup Addrs) = {} /\ Block # Registration

VARIABLES
  world,                           \* the world, which does not change
  arec, crec, nsrec,               \* DB: dns_record edges
  within, registered, contacts,   \* DB: the addresses the netblock contains, its registration, that one's contacts
  marks, ports,                    \* DB: last_monitored and open_port tags within the TTL
  scans, probed,                   \* history: scans of an address and the addresses probed, within the TTL
  session, active, phase, cut,     \* the session; cut: it ended early, or a wait of its end timed out
  scope, ranger, meta,             \* its scope; its CIDRanger holds the netblock; the registration's event has metadata
  row, stage, todo,                \* its backlog; where each event is; the addresses a name's handler still walks
  flight,                          \* the callers a scan of an address has
  fill, filling, filled,           \* the addresses the fill has left, and has in hand; this process has started it
  missed,                          \* the rows the sweep has left
  due,                             \* history: the addresses it was to see to
  owed,                            \* history: the names whose addresses this session is to scan
  faults                           \* remote queries that failed

dbVars   == <<arec, crec, nsrec, within, registered, contacts, marks, ports, scans, probed>>
sessVars == <<session, active, phase, cut>>
pipeVars == <<row, stage, todo, flight>>
fillVars == <<fill, filling, filled>>
endVars  == <<fillVars, missed, due, owed>>
vars == <<world, dbVars, sessVars, scope, ranger, meta, pipeVars, endVars, faults>>

Assets == Names \cup Addrs \cup {Block, Registration}
Sources == {"DNS-CNAME", "DNS-IP", "Port-Prefilter", "HTTP-Probes", "Protocol-Probes", "RDAP"}
First(x) == IF x \in Names THEN "cname" ELSE IF x \in Addrs THEN "bgptools"
            ELSE IF x = Block THEN "rdap" ELSE "contacts"

TypeOK ==
  /\ world \in Worlds
  /\ arec \in [Names -> SUBSET Addrs] /\ crec \in [Names -> SUBSET Names]
  /\ nsrec \in [Names -> SUBSET Names]
  /\ within \subseteq Addrs /\ registered \in BOOLEAN /\ contacts \in BOOLEAN
  /\ marks \subseteq Assets \X Sources /\ ports \subseteq Addrs
  /\ scans \in [Addrs -> Nat] /\ probed \subseteq Addrs
  /\ session \in 1 .. world.sessions /\ active \in BOOLEAN /\ cut \in BOOLEAN
  /\ phase \in {"running", "fill", "drainfill", "idle", "requeue", "drain", "ended"}
  /\ scope \subseteq Names \cup Addrs \cup {Block} /\ ranger \in BOOLEAN /\ meta \in BOOLEAN
  /\ row \in [Assets -> {"none", "queued", "leased", "done"}]
  /\ stage \in [Assets -> {"idle", "cname", "ip", "admit", "subs", "probe", "ports", "open", "bgptools",
                           "netblock", "reverse", "sweep", "prefilter", "http", "protocols", "rdap", "contacts", "end"}]
  /\ todo \in [Names -> SUBSET Addrs] /\ flight \in [Addrs -> SUBSET (Names \cup Addrs)]
  /\ fill \subseteq Addrs /\ filling \subseteq Addrs \X BOOLEAN /\ filled \in BOOLEAN
  /\ missed \cup due \subseteq Addrs /\ owed \subseteq Names
  /\ faults \in 0 .. world.faults

\* A session begins: the configured netblocks are in its scope, and the submitted assets are queued.
StartScope(w) == IF "listed" \in w.is THEN {Block} ELSE {}
StartRow(w) == [x \in Assets |-> IF x \in w.seeds THEN "queued" ELSE "none"]

Init ==
  /\ world \in Worlds
  /\ arec = [n \in Names |-> {}] /\ crec = [n \in Names |-> {}] /\ nsrec = [n \in Names |-> {}]
  /\ within = {} /\ registered = FALSE /\ contacts = FALSE
  /\ marks = {} /\ ports = {} /\ scans = [a \in Addrs |-> 0] /\ probed = {}
  /\ session = 1 /\ active \in BOOLEAN /\ phase = "running" /\ cut = FALSE
  /\ scope = StartScope(world) /\ ranger = FALSE /\ meta = FALSE
  /\ row = StartRow(world) /\ stage = [x \in Assets |-> "idle"] /\ todo = [n \in Names |-> {}]
  /\ flight = [a \in Addrs |-> {}] /\ fill = {} /\ filling = {} /\ filled = FALSE
  /\ missed = {} /\ due = {} /\ owed = {} /\ faults = 0

------------------------------------------------------------------------------
(* The scope, and what the database says of an asset.                      *)

\* IsAssetInScope: names by a domain that is configured or was added, an address exactly or by its
\* netblock.
InScope(x) ==
  \/ x \in world.domain \cup scope
  \/ x \in world.block /\ Block \in scope

Routable(a) == a \notin world.reserved
Monitored(x, source) == <<x, source>> \in marks

\* ResolvingFQDNs and HasInScopeFQDN: one hop back, over A and AAAA records.
HasInScopeFQDN(a) == \E n \in Names : a \in arec[n] /\ InScope(n)

\* ResolvedIPsForFQDN: five hops forward, over dns_record edges of any type.
MaxHops == 5
Forward(S) == S \cup UNION {crec[n] \cup nsrec[n] : n \in S}
Reached[hops \in 1 .. MaxHops] ==
  [n \in Names |-> IF hops = 1 THEN {n} ELSE Forward(Reached[hops - 1][n])]
ResolvedIPs(n) == UNION {arec[m] : m \in Reached[MaxHops][n]}

\* NetblockOwnedBySeed: registration, contact, email, a configured domain.
NetblockOwned == registered /\ contacts /\ "owned" \in world.is

------------------------------------------------------------------------------
(* Dispatcher and backlog, as handlers see them.                           *)

Alive == phase # "ended"
At(x, s) == Alive /\ stage[x] = s

Queue(S) == row' = [x \in Assets |-> IF x \in S THEN "queued" ELSE row[x]]

\* DispatchEvent drops an asset that is in the backlog; ResubmitEvent queues it again.
NewOf(S) == {x \in S : row[x] = "none"}
Dispatch(S) == Queue(NewOf(S))

\* Mutant: the end of the session dispatches the assets, all of which are in the backlog.
DispatchOnly(S) == Queue(NewOf(S))
Resubmit(S) == Queue(S)

To(x, s) == stage' = [stage EXCEPT ![x] = s]

\* The pump claims a queued asset.  (That it may do so while an earlier event of the asset is still
\* in the pipeline is the subject of Dispatcher.)
Claim(x) ==
  /\ Alive /\ row[x] = "queued" /\ stage[x] = "idle"
  /\ row' = [row EXCEPT ![x] = "leased"] /\ To(x, First(x))
  /\ UNCHANGED <<world, dbVars, sessVars, scope, ranger, meta, todo, flight, endVars, faults>>

\* The event has left the pipeline.  The ack also takes a row that was queued again meanwhile.
Complete(x) ==
  /\ At(x, "end")
  /\ row' = [row EXCEPT ![x] = "done"] /\ To(x, "idle")
  /\ meta' = IF x = Registration THEN FALSE ELSE meta
  /\ UNCHANGED <<world, dbVars, sessVars, scope, ranger, todo, flight, endVars, faults>>

\* A remote query that fails is answered by nothing.
Answered == UNCHANGED faults
Failed == faults < world.faults /\ faults' = faults + 1

------------------------------------------------------------------------------
(* The pipeline of a name.                                                 *)

\* DNS-CNAME.  Every later handler of the DNS plugin leaves an alias alone.
Cname(n) ==
  /\ At(n, "cname")
  /\ \E found \in {world.cname[n], crec[n], {}} :
       /\ \/ Monitored(n, "DNS-CNAME") /\ found = crec[n] /\ Answered /\ UNCHANGED <<crec, marks>>
          \/ /\ ~Monitored(n, "DNS-CNAME")
             /\ \/ found = world.cname[n] /\ Answered
                \/ found = {} /\ Failed
             /\ crec' = [crec EXCEPT ![n] = @ \cup found]
             /\ marks' = IF found = {} THEN marks ELSE marks \cup {<<n, "DNS-CNAME">>}
       /\ Dispatch(found)
       /\ To(n, IF found = {} THEN "ip" ELSE "probe")
  /\ UNCHANGED <<world, arec, nsrec, within, registered, contacts, ports, scans, probed, sessVars,
                 scope, ranger, meta, todo, flight, endVars>>

\* DNS-IP, first half: the addresses are stored and dispatched.
Ip(n) ==
  /\ At(n, "ip")
  /\ \E found \in {world.a[n], arec[n], {}} :
       /\ \/ Monitored(n, "DNS-IP") /\ found = arec[n] /\ Answered /\ UNCHANGED <<arec, marks>>
          \/ /\ ~Monitored(n, "DNS-IP")
             /\ \/ found = world.a[n] /\ Answered
                \/ found = {} /\ Failed
             /\ arec' = [arec EXCEPT ![n] = @ \cup found]
             /\ marks' = IF found = {} THEN marks ELSE marks \cup {<<n, "DNS-IP">>}
       /\ Dispatch(found)
       /\ To(n, IF found = {} THEN "end" ELSE "admit")
  /\ UNCHANGED <<world, crec, nsrec, within, registered, contacts, ports, scans, probed, sessVars,
                 scope, ranger, meta, todo, flight, endVars>>

\* IPAddressSweep: the neighbours of an address are dispatched too.
Neighbours(a) == IF a \in world.near THEN world.near \ {a} ELSE {}

\* DNS-IP, second half: each routable address of a name in scope joins the scope, and its neighbours
\* are dispatched.  By now the events of the addresses may be well under way.
Admit(n) ==
  /\ At(n, "admit")
  /\ LET granted == IF InScope(n) THEN {a \in arec[n] : Routable(a)} ELSE {} IN
       /\ scope' = scope \cup granted
       /\ Dispatch(UNION {Neighbours(a) : a \in granted})
  /\ owed' = IF InScope(n) /\ ~Monitored(n, "HTTP-Probes") THEN owed \cup {n} ELSE owed
  /\ To(n, "subs")
  /\ UNCHANGED <<world, dbVars, sessVars, ranger, meta, todo, flight, fillVars, missed, due, faults>>

\* DNS-Subdomains: the name servers of a name in scope, and those of such a name server.
OfInterest(n) == InScope(n) \/ \E m \in Names : n \in nsrec[m] /\ InScope(m)

Subs(n) ==
  /\ At(n, "subs")
  /\ LET found == IF OfInterest(n) THEN world.ns[n] ELSE {} IN
       /\ nsrec' = [nsrec EXCEPT ![n] = @ \cup found]
       /\ Dispatch(found)
  /\ To(n, "probe")
  /\ UNCHANGED <<world, arec, crec, within, registered, contacts, marks, ports, scans, probed, sessVars,
                 scope, ranger, meta, todo, flight, endVars, faults>>

\* HTTP-Probes begins to walk the addresses of the name.
Probe(n) ==
  /\ At(n, "probe")
  /\ IF active /\ InScope(n) /\ ~Monitored(n, "HTTP-Probes")
     THEN todo' = [todo EXCEPT ![n] = ResolvedIPs(n)] /\ To(n, "ports")
     ELSE To(n, "end") /\ UNCHANGED todo
  /\ UNCHANGED <<world, dbVars, sessVars, scope, ranger, meta, row, flight, endVars, faults>>

\* EnsureOpenPortsScanned: what is in scope and routable, is scanned by the first to ask, while the
\* others wait for that scan, unless there is a fresh mark.
Scannable(a) == InScope(a) /\ Routable(a)

\* Mutant: a caller does not wait for the scan of another.
NeedsScanAlone(a) == Scannable(a) /\ flight[a] = {} /\ ~Monitored(a, "Port-Prefilter")
NeedsScan(a) == Scannable(a) /\ (flight[a] # {} \/ ~Monitored(a, "Port-Prefilter"))
Join(c, a) == flight' = [flight EXCEPT ![a] = @ \cup {c}]

Waiting(c) == \E a \in Addrs : c \in flight[a]

\* One more address has given its ports to the handler of name n.
Walked(n, a) ==
  /\ todo' = [todo EXCEPT ![n] = @ \ {a}]
  /\ IF Scannable(a) /\ a \in ports THEN To(n, "open") ELSE UNCHANGED stage

WalkNext(n, a) ==
  /\ Alive /\ stage[n] \in {"ports", "open"} /\ a \in todo[n] /\ ~Waiting(n)
  /\ IF NeedsScan(a) THEN Join(n, a) /\ UNCHANGED <<todo, stage>>
                     ELSE Walked(n, a) /\ UNCHANGED flight
  /\ UNCHANGED <<world, dbVars, sessVars, scope, ranger, meta, row, endVars, faults>>

\* The ports found are probed by the name; only then is the name marked.
Probed(n) ==
  /\ Alive /\ stage[n] \in {"ports", "open"} /\ todo[n] = {}
  /\ marks' = IF stage[n] = "open" THEN marks \cup {<<n, "HTTP-Probes">>} ELSE marks
  /\ To(n, "end")
  /\ UNCHANGED <<world, arec, crec, nsrec, within, registered, contacts, ports, scans, probed, sessVars,
                 scope, ranger, meta, row, todo, flight, endVars, faults>>

------------------------------------------------------------------------------
(* The pipeline of an address.                                             *)

\* startOwnedFill: once for each netblock in the life of the process.
StartFill(start) ==
  /\ IF start /\ ~filled THEN fill' = world.block /\ filled' = TRUE ELSE UNCHANGED <<fill, filled>>
  /\ UNCHANGED filling

CanFill == active /\ "fillable" \in world.is

\* Mutant: the size of the netblock alone admits it, as between two releases it did.
AdmitsAmbientBySize(a) == "ambient" \in world.is
AdmitsAmbient(a) == "ambient" \in world.is /\ HasInScopeFQDN(a)

\* BGP.Tools and IP-Netblock store the netblock of address a, and may admit it to the scope: because
\* it is small and a name in scope resolves to a, or because it is owned, when it is also filled.
Admissible(a) == AdmitsAmbient(a) \/ NetblockOwned

StoreBlock(a) ==
  /\ scope' = IF Admissible(a) THEN scope \cup {Block} ELSE scope
  /\ StartFill(NetblockOwned /\ CanFill)
  /\ within' = within \cup {a}
  /\ Dispatch({Block})

\* The registry announces the netblock for some addresses and nothing for the others.
Announced(a) == a \in world.block

\* BGP.Tools: looks up, or asks for, a netblock that the session does not know yet.
Bgptools(a) ==
  /\ At(a, "bgptools")
  /\ \/ /\ ~Routable(a) \/ (ranger /\ Announced(a)) \/ ~Announced(a)
        /\ Answered /\ UNCHANGED <<scope, fillVars, within, row, ranger>>
     \/ /\ Routable(a) /\ ~ranger /\ a \in within
        /\ ranger' = TRUE /\ Dispatch({Block})
        /\ Answered /\ UNCHANGED <<scope, fillVars, within>>
     \/ /\ Routable(a) /\ ~ranger /\ Announced(a) /\ a \notin within
        /\ \/ StoreBlock(a) /\ ranger' = TRUE /\ Answered
           \/ Failed /\ UNCHANGED <<scope, fillVars, within, row, ranger>>
  /\ To(a, "netblock")
  /\ UNCHANGED <<world, arec, crec, nsrec, registered, contacts, marks, ports, scans, probed, sessVars,
                 meta, todo, flight, missed, due, owed>>

\* IP-Netblock: waits for half a minute that the session knows a netblock of the address.
Netblock(a) ==
  /\ At(a, "netblock")
  /\ IF Routable(a) /\ ranger /\ Announced(a) THEN StoreBlock(a)
     ELSE UNCHANGED <<scope, fillVars, within, row>>
  /\ To(a, "reverse")
  /\ UNCHANGED <<world, arec, crec, nsrec, registered, contacts, marks, ports, scans, probed, sessVars,
                 ranger, meta, todo, flight, missed, due, owed, faults>>

\* DNS-Reverse: the names that the address points back to are dispatched, in scope or not.
Reverse(a) ==
  /\ At(a, "reverse")
  /\ Dispatch(IF Routable(a) THEN world.ptr[a] ELSE {})
  /\ To(a, "sweep")
  /\ UNCHANGED <<world, dbVars, sessVars, scope, ranger, meta, todo, flight, endVars, faults>>

\* Horizontals of an address: its neighbours are dispatched when it points back to a name in scope.
Sweep(a) ==
  /\ At(a, "sweep")
  /\ Dispatch(IF Routable(a) /\ \E n \in world.ptr[a] : InScope(n) THEN Neighbours(a) ELSE {})
  /\ To(a, "prefilter")
  /\ UNCHANGED <<world, dbVars, sessVars, scope, ranger, meta, todo, flight, endVars, faults>>

\* Port-Prefilter.
Prefilter(a) ==
  /\ At(a, "prefilter") /\ ~Waiting(a)
  /\ IF active /\ NeedsScan(a) THEN Join(a, a) /\ UNCHANGED stage
     ELSE To(a, IF active THEN "http" ELSE "end") /\ UNCHANGED flight
  /\ UNCHANGED <<world, dbVars, sessVars, scope, ranger, meta, row, todo, endVars, faults>>

\* Mutant: an address with no open port is not marked.
MarkedIfOpen(a) == IF a \in world.listening THEN marks \cup {<<a, "Port-Prefilter">>} ELSE marks
Marked(a) == marks \cup {<<a, "Port-Prefilter">>}

\* A scan ends: its ports are stored, those closed since are removed, the address is marked, and all
\* callers go on.
FinishScan(a) ==
  /\ Alive /\ flight[a] # {}
  /\ ports' = IF a \in world.listening THEN ports \cup {a} ELSE ports \ {a}
  /\ marks' = Marked(a)
  /\ scans' = [scans EXCEPT ![a] = @ + 1]
  /\ flight' = [flight EXCEPT ![a] = {}]
  /\ todo' = [n \in Names |-> IF n \in flight[a] THEN todo[n] \ {a} ELSE todo[n]]
  /\ stage' = [x \in Assets |-> IF x \notin flight[a] THEN stage[x]
                                ELSE IF x \in Addrs THEN "http"
                                ELSE IF a \in world.listening THEN "open" ELSE stage[x]]
  /\ UNCHANGED <<world, arec, crec, nsrec, within, registered, contacts, probed, sessVars, scope,
                 ranger, meta, row, endVars, faults>>

\* HTTP-Probes and Protocol-Probes of an address probe the ports that are stored.  Without any the
\* address is not marked, so that it can be taken up again.
HasPorts(a) == Scannable(a) /\ a \in ports

HTTP(a) ==
  /\ At(a, "http")
  /\ marks' = IF HasPorts(a) THEN marks \cup {<<a, "HTTP-Probes">>} ELSE marks
  /\ To(a, "protocols")
  /\ UNCHANGED <<world, arec, crec, nsrec, within, registered, contacts, ports, scans, probed, sessVars,
                 scope, ranger, meta, row, todo, flight, endVars, faults>>

ProbeProtocols(a) ==
  IF HasPorts(a) /\ ~Monitored(a, "Protocol-Probes")
  THEN marks' = marks \cup {<<a, "Protocol-Probes">>} /\ probed' = probed \cup {a}
  ELSE UNCHANGED <<marks, probed>>

Protocols(a) ==
  /\ At(a, "protocols")
  /\ ProbeProtocols(a)
  /\ To(a, "end")
  /\ UNCHANGED <<world, arec, crec, nsrec, within, registered, contacts, ports, scans, sessVars,
                 scope, ranger, meta, row, todo, flight, endVars, faults>>

------------------------------------------------------------------------------
(* The pipelines of the netblock and of its registration.                  *)

\* RDAP of a netblock: the registration is dispatched, with the answer as metadata if one was got
\* and the registration is not in the backlog.
Rdap ==
  /\ At(Block, "rdap")
  /\ \/ /\ Monitored(Block, "RDAP") /\ Answered /\ UNCHANGED <<marks, registered, meta>>
        /\ Dispatch(IF registered THEN {Registration} ELSE {})
     \/ /\ ~Monitored(Block, "RDAP") /\ Answered
        /\ marks' = marks \cup {<<Block, "RDAP">>} /\ registered' = TRUE
        /\ meta' = (meta \/ row[Registration] = "none")
        /\ Dispatch({Registration})
     \/ ~Monitored(Block, "RDAP") /\ Failed /\ UNCHANGED <<marks, registered, meta, row>>
  /\ To(Block, "end")
  /\ UNCHANGED <<world, arec, crec, nsrec, within, contacts, ports, scans, probed, sessVars, scope,
                 ranger, todo, flight, endVars>>

\* RDAP of a registration: only the answer itself holds the contacts, and only then is the netblock
\* examined for its owner.  (Horizontals, the last handler of the registration, may add the netblock
\* too, see below.)
Contacts ==
  /\ At(Registration, "contacts")
  /\ contacts' = (contacts \/ meta)
  /\ LET owned == meta /\ "owned" \in world.is IN
       /\ scope' = IF owned THEN scope \cup {Block} ELSE scope
       /\ StartFill(owned /\ CanFill)
  /\ To(Registration, "end")
  /\ UNCHANGED <<world, arec, crec, nsrec, within, registered, marks, ports, scans, probed, sessVars,
                 ranger, meta, row, todo, flight, missed, due, owed, faults>>

\* fillOwnedNetblock, a goroutine of its own, one address at a time: the address is stored in the
\* netblock and looked up in the backlog, then it is queued again or dispatched, which drops it when
\* somebody else has dispatched it meanwhile.
Fill(a) ==
  /\ Alive /\ a \in fill /\ filling = {}
  /\ fill' = fill \ {a} /\ filling' = {<<a, row[a] # "none">>}
  /\ within' = within \cup {a}
  /\ UNCHANGED <<world, arec, crec, nsrec, registered, contacts, marks, ports, scans, probed, sessVars,
                 scope, ranger, meta, pipeVars, filled, missed, due, owed, faults>>

Filled(a) ==
  /\ Alive
  /\ \/ <<a, TRUE>> \in filling /\ Resubmit({a})
     \/ <<a, FALSE>> \in filling /\ Dispatch({a})
  /\ filling' = {}
  /\ UNCHANGED <<world, dbVars, sessVars, scope, ranger, meta, stage, todo, flight, fill, filled, missed, due,
                 owed, faults>>

\* Horizontals: a domain or a netblock that leads to somebody in scope joins the scope, and what was
\* added may be queued, at any time and in the backlog already or not.  The records, organizations,
\* locations and certificates that bring it about, the IPNetRecord among them, are those of Expansion.
Horizontals(kin) ==
  /\ Alive /\ ~(kin \subseteq scope)
  /\ scope' = scope \cup kin
  /\ \E queued \in SUBSET kin : Resubmit(queued)
  /\ UNCHANGED <<world, dbVars, sessVars, ranger, meta, stage, todo, flight, endVars, faults>>

------------------------------------------------------------------------------
(* The end of a session.                                                   *)

IPIdle == \A a \in Addrs : row[a] \in {"none", "done"}
Quiet == \A x \in Assets : row[x] \in {"none", "done"}

EndUnchanged == UNCHANGED <<world, dbVars, session, active, ranger, meta, stage, todo, flight, filling, owed, faults>>

\* Somebody terminates the session.
EndRequested ==
  /\ phase = "running" /\ phase' = "fill"
  /\ UNCHANGED <<cut, scope, row, fill, filled, missed, due>> /\ EndUnchanged

\* FinishOwnedNetblockFills.
FinishFills ==
  /\ phase = "fill"
  /\ IF active THEN phase' = "drainfill" /\ UNCHANGED cut ELSE phase' = "ended" /\ UNCHANGED cut
  /\ StartFill(CanFill /\ Block \in scope /\ NetblockOwned)
  /\ UNCHANGED <<scope, row, missed, due>> /\ EndUnchanged

\* Each wait ends when the addresses are idle, or at its deadline.
WaitEnds(from, to) ==
  /\ phase = from /\ phase' = to
  /\ cut' = (cut \/ ~IPIdle)
  /\ UNCHANGED <<scope, row, fill, filled, missed, due>> /\ EndUnchanged

\* SweepMissedIPs: addresses that are done, that a name in scope resolves to, that have open ports,
\* and that were not probed.
Missed == {a \in Addrs : row[a] = "done" /\ HasInScopeFQDN(a) /\ a \in ports
                         /\ ~Monitored(a, "Protocol-Probes")}

ListMissed ==
  /\ phase = "idle" /\ phase' = "requeue"
  /\ missed' = Missed
  /\ due' = {a \in Addrs : Scannable(a) /\ row[a] = "done" /\ HasInScopeFQDN(a) /\ a \in ports}
  /\ cut' = (cut \/ ~Quiet \/ fill # {} \/ filling # {})
  /\ UNCHANGED <<scope, row, fill, filled>> /\ EndUnchanged

Requeue(a) ==
  /\ phase = "requeue" /\ a \in missed
  /\ missed' = missed \ {a} /\ Resubmit({a})
  /\ UNCHANGED <<phase, cut, scope, fill, filled, due>> /\ EndUnchanged

Requeued ==
  /\ phase = "requeue" /\ missed = {} /\ phase' = "drain"
  /\ UNCHANGED <<cut, scope, row, fill, filled, missed, due>> /\ EndUnchanged

\* The session is killed in the middle: nothing of it has an effect any more.
Kill ==
  /\ Alive /\ phase' = "ended" /\ cut' = TRUE
  /\ UNCHANGED <<scope, row, fill, filled, missed, due>> /\ EndUnchanged

\* The next session, perhaps of a new process.  Each tag may have lapsed by then or not: every
\* transformation has a TTL of its own, and every tag its time.
NextSession ==
  /\ phase = "ended" /\ session < world.sessions
  /\ session' = session + 1 /\ active' \in BOOLEAN /\ phase' = "running" /\ cut' = FALSE
  /\ scope' = StartScope(world) /\ ranger' = FALSE /\ meta' = FALSE
  /\ row' = StartRow(world) /\ stage' = [x \in Assets |-> "idle"] /\ todo' = [n \in Names |-> {}]
  /\ flight' = [a \in Addrs |-> {}] /\ fill' = {} /\ filling' = {} /\ filled' \in {filled, FALSE}
  /\ missed' = {} /\ due' = {} /\ owed' = {}
  /\ marks' \in SUBSET marks /\ within' \in SUBSET within
  /\ ports' = {a \in ports : <<a, "Port-Prefilter">> \in marks'}
  /\ scans' = [a \in Addrs |-> IF <<a, "Port-Prefilter">> \in marks' THEN scans[a] ELSE 0]
  /\ probed' = {a \in probed : <<a, "Protocol-Probes">> \in marks'}
  /\ UNCHANGED <<world, arec, crec, nsrec, registered, contacts, faults>>

EndStep ==
  \/ EndRequested \/ FinishFills \/ ListMissed \/ Requeued \/ Kill \/ NextSession
  \/ WaitEnds("drainfill", "idle") \/ WaitEnds("drain", "ended")

NameStep(n) == Cname(n) \/ Ip(n) \/ Admit(n) \/ Subs(n) \/ Probe(n) \/ Probed(n) \/ \E a \in Addrs : WalkNext(n, a)
AddrStep(a) == Bgptools(a) \/ Netblock(a) \/ Reverse(a) \/ Sweep(a) \/ Prefilter(a) \/ FinishScan(a)
               \/ HTTP(a) \/ Protocols(a) \/ Fill(a) \/ Filled(a) \/ Requeue(a)

Next ==
  \/ \E x \in Assets : Claim(x) \/ Complete(x)
  \/ \E n \in Names : NameStep(n)
  \/ \E a \in Addrs : AddrStep(a)
  \/ \E kin \in world.kin : Horizontals(kin)
  \/ Rdap \/ Contacts \/ EndStep

Spec == Init /\ [][Next]_vars

------------------------------------------------------------------------------
(* Safety.                                                                 *)

\* An address is scanned once within the TTL, however many names lead to it and whether or not the
\* scan finds a port (the mark and the singleflight group of EnsureOpenPortsScanned).
ScannedOncePerTTL == \A a \in Addrs : scans[a] <= 1

\* When an active session is done with a name that was in scope when its addresses were found, and had
\* no fresh mark of HTTP-Probes then, every routable address of it has been scanned, although the
\* events of the addresses may have passed the prefilter before the addresses joined the scope
\* (OpenPortsForFQDN).  With a fresh mark the handler asks for no scan, even if the marks of the
\* addresses have lapsed.
ResolvedIsScanned ==
  \A n \in Names :
    active /\ n \in owed /\ row[n] = "done" =>
      \A a \in arec[n] : Routable(a) => Monitored(a, "Port-Prefilter")

\* At the end of a session that was not cut short, every address that has open ports, and that was in
\* scope and the address of a name in scope when the sweep began, has been probed, whatever else the
\* sweep has led to meanwhile (SweepMissedIPs).
NoMissedIP == active /\ phase = "ended" /\ ~cut => due \cap ports \subseteq probed

\* "The same in-scope IP still gets scanned reliably later", so that an address which is passed over
\* "is never a permanent coverage gap" (support/portscan.go): the end of a session that was not cut
\* short finds every routable address in scope scanned.
NoPermanentGap ==
  active /\ phase = "ended" /\ ~cut =>
    \A a \in Addrs : Scannable(a) /\ row[a] = "done" => Monitored(a, "Port-Prefilter")

\* What may be contacted: an address that a name of a configured domain, or of a domain that is kin,
\* has for an answer, and one in a netblock that is configured, is kin, belongs to the owner of a
\* configured domain, or is small and holds such an address.
Kin == UNION world.kin
Answers == UNION {world.a[n] : n \in world.domain \cup (Kin \cap Names)}
BlockAuthorised ==
  \/ world.is \cap {"listed", "owned"} # {} \/ Block \in Kin
  \/ "ambient" \in world.is /\ Answers \cap world.block # {}
Authorised(a) == Routable(a) /\ (a \in Answers \/ (a \in world.block /\ BlockAuthorised))

\* Only such an address is ever scanned or probed, and only in an active session: neither the
\* neighbours that are swept, nor the names that point back, nor name servers and aliases widen the
\* scope, and with a rigid configuration nobody's kin does (dns/ip.go, ip_netblock.go, horizontals).
OnlyAuthorisedContacted ==
  [][\A a \in Addrs : (flight[a] = {} /\ flight'[a] # {}) \/ a \in probed' \ probed
       => active /\ Authorised(a)]_vars
==============================================================================
