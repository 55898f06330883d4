--------------------------- MODULE DiscoveryProofs ---------------------------
(***************************************************************************)
(* No address is scanned twice within the TTL, only authorised ones are    *)
(* ever scanned or probed, the addresses of a name are scanned when its    *)
(* handlers are done, and the sweep leaves no open port unprobed: for any  *)
(* names, addresses and worlds, any number of sessions, and any            *)
(* interleaving of the handlers.                                           *)
(***************************************************************************)
EXTENDS Discovery, TLAPS

\* That an address is scanned at most once is not inductive.  Whoever may still end a scan of it - a
\* flight under way, or a caller that finds no mark - must find that there was none yet.
Unscanned(a) == flight[a] # {} \/ ~Monitored(a, "Port-Prefilter")

ScanInv ==
  /\ scans \in [Addrs -> Nat]
  /\ DOMAIN flight = Addrs
  /\ \A a \in Addrs : scans[a] <= 1 /\ (Unscanned(a) => scans[a] = 0)

\* A step that starts no flight, ends none and removes no mark keeps the invariant: that is what all
\* handlers do but those of the port scan.
LEMMA NoScan ==
  ASSUME ScanInv, UNCHANGED <<scans, flight>>, marks \subseteq marks'
  PROVE  ScanInv'
BY DEF ScanInv, Unscanned, Monitored

\* A caller joins or starts a flight only of an address that has none behind it.
LEMMA JoinKeeps ==
  ASSUME ScanInv, NEW a \in Addrs, NEW c, NeedsScan(a), Join(c, a), UNCHANGED <<scans, marks>>
  PROVE  ScanInv'
<1>1. scans[a] = 0
  BY DEF ScanInv, Unscanned, NeedsScan
<1>2. \A b \in Addrs : b # a => flight'[b] = flight[b]
  BY DEF Join, ScanInv
<1>3. DOMAIN flight' = Addrs
  BY DEF Join, ScanInv
<1> QED
  BY <1>1, <1>2, <1>3 DEF ScanInv, Unscanned, Monitored

\* The mark is set by the same step that ends the flight (the mark is written before the singleflight
\* group lets its callers go).
LEMMA FinishKeeps ==
  ASSUME ScanInv, NEW a \in Addrs, FinishScan(a)
  PROVE  ScanInv'
<1>1. scans[a] = 0
  BY DEF ScanInv, Unscanned, FinishScan
<1>2. /\ scans' \in [Addrs -> Nat] /\ scans'[a] = 1
      /\ \A b \in Addrs : b # a => scans'[b] = scans[b]
  BY <1>1 DEF FinishScan, ScanInv
<1>3. /\ DOMAIN flight' = Addrs /\ flight'[a] = {}
      /\ \A b \in Addrs : b # a => flight'[b] = flight[b]
  BY DEF FinishScan, ScanInv
<1>4. marks \subseteq marks' /\ <<a, "Port-Prefilter">> \in marks'
  BY DEF FinishScan, Marked
<1> SUFFICES ASSUME NEW b \in Addrs
             PROVE  scans'[b] <= 1 /\ (Unscanned(b)' => scans'[b] = 0)
  BY <1>2, <1>3 DEF ScanInv
<1>5. CASE b = a
  BY <1>2, <1>3, <1>4, <1>5 DEF Unscanned, Monitored
<1>6. CASE b # a
  <2>1. scans[b] <= 1 /\ (Unscanned(b) => scans[b] = 0)
    BY DEF ScanInv
  <2>2. Unscanned(b)' => Unscanned(b)
    BY <1>3, <1>4, <1>6 DEF Unscanned, Monitored
  <2> QED  BY <1>2, <1>6, <2>1, <2>2
<1> QED  BY <1>5, <1>6

\* A new session begins without flights; a mark lapses together with what is counted since it was set.
LEMMA NextSessionKeeps ==
  ASSUME ScanInv, NextSession
  PROVE  ScanInv'
<1>1. /\ flight' = [a \in Addrs |-> {}] /\ marks' \subseteq marks
      /\ scans' = [a \in Addrs |-> IF <<a, "Port-Prefilter">> \in marks' THEN scans[a] ELSE 0]
  BY DEF NextSession
<1> QED  BY <1>1 DEF ScanInv, Unscanned, Monitored

LEMMA NameStepKeeps ==
  ASSUME ScanInv, NEW n \in Names, NameStep(n)
  PROVE  ScanInv'
<1>1. CASE Cname(n)
  BY <1>1, NoScan DEF Cname
<1>2. CASE Ip(n)
  BY <1>2, NoScan DEF Ip
<1>3. CASE Admit(n) \/ Probe(n)
  BY <1>3, NoScan DEF Admit, Probe, dbVars
<1>4. CASE Subs(n)
  BY <1>4, NoScan DEF Subs
<1>5. CASE Probed(n)
  BY <1>5, NoScan DEF Probed
<1>6. ASSUME NEW a \in Addrs, WalkNext(n, a) PROVE ScanInv'
  <2>1. UNCHANGED <<scans, marks>>
    BY <1>6 DEF WalkNext, dbVars
  <2>2. CASE NeedsScan(a)
    BY <1>6, <2>1, <2>2, JoinKeeps DEF WalkNext
  <2>3. CASE ~NeedsScan(a)
    BY <1>6, <2>1, <2>3, NoScan DEF WalkNext
  <2> QED  BY <2>2, <2>3
<1> QED  BY <1>1, <1>2, <1>3, <1>4, <1>5, <1>6 DEF NameStep

LEMMA AddrStepKeeps ==
  ASSUME ScanInv, NEW a \in Addrs, AddrStep(a)
  PROVE  ScanInv'
<1>1. CASE Bgptools(a)
  BY <1>1, NoScan DEF Bgptools
<1>2. CASE Netblock(a)
  BY <1>2, NoScan DEF Netblock
<1>3. CASE Reverse(a) \/ Sweep(a) \/ Fill(a) \/ Filled(a)
  BY <1>3, NoScan DEF Reverse, Sweep, Fill, Filled, pipeVars, dbVars
<1>4. CASE Requeue(a)
  BY <1>4, NoScan DEF Requeue, EndUnchanged, dbVars
<1>5. CASE Prefilter(a)
  <2>1. UNCHANGED <<scans, marks>>
    BY <1>5 DEF Prefilter, dbVars
  <2>2. CASE active /\ NeedsScan(a)
    BY <1>5, <2>1, <2>2, JoinKeeps DEF Prefilter
  <2>3. CASE ~(active /\ NeedsScan(a))
    BY <1>5, <2>1, <2>3, NoScan DEF Prefilter
  <2> QED  BY <2>2, <2>3
<1>6. CASE FinishScan(a)
  BY <1>6, FinishKeeps
<1>7. CASE HTTP(a)
  BY <1>7, NoScan DEF HTTP
<1>8. CASE Protocols(a)
  BY <1>8, NoScan DEF Protocols, ProbeProtocols
<1> QED  BY <1>1, <1>2, <1>3, <1>4, <1>5, <1>6, <1>7, <1>8 DEF AddrStep

LEMMA EndStepKeeps ==
  ASSUME ScanInv, EndStep
  PROVE  ScanInv'
<1>1. CASE EndRequested \/ FinishFills \/ ListMissed \/ Requeued \/ Kill
  BY <1>1, NoScan DEF EndRequested, FinishFills, ListMissed, Requeued, Kill, EndUnchanged, dbVars
<1>2. CASE WaitEnds("drainfill", "idle") \/ WaitEnds("drain", "ended")
  BY <1>2, NoScan DEF WaitEnds, EndUnchanged, dbVars
<1>3. CASE NextSession
  BY <1>3, NextSessionKeeps
<1> QED  BY <1>1, <1>2, <1>3 DEF EndStep

LEMMA ScanStep == ScanInv /\ [Next]_vars => ScanInv'
<1> SUFFICES ASSUME ScanInv, [Next]_vars PROVE ScanInv'
  OBVIOUS
<1>1. ASSUME NEW x \in Assets, Claim(x) \/ Complete(x) PROVE ScanInv'
  BY <1>1, NoScan DEF Claim, Complete, dbVars
<1>2. CASE Rdap
  BY <1>2, NoScan DEF Rdap
<1>3. CASE Contacts
  BY <1>3, NoScan DEF Contacts
<1>4. ASSUME NEW kin, Horizontals(kin) PROVE ScanInv'
  BY <1>4, NoScan DEF Horizontals, dbVars
<1>5. CASE UNCHANGED vars
  BY <1>5, NoScan DEF vars, dbVars, pipeVars
<1> QED
  BY <1>1, <1>2, <1>3, <1>4, <1>5, NameStepKeeps, AddrStepKeeps, EndStepKeeps DEF Next

\* An address is scanned at most once within the TTL, whoever asks and whatever the scan finds
\* (scanGroup and the mark of EnsureOpenPortsScanned).
THEOREM ScannedOnce == Spec => []ScannedOncePerTTL
<1>1. Init => ScanInv
  BY DEF Init, ScanInv, Unscanned, Monitored
<1>2. ScanInv => ScannedOncePerTTL
  BY DEF ScanInv, ScannedOncePerTTL
<1> QED  BY <1>1, <1>2, ScanStep, PTL DEF Spec

------------------------------------------------------------------------------
(* Who is contacted.                                                       *)

\* What the database says of a name is nothing, or what its name servers said, and the scope has grown
\* only by kin, by addresses of domains in scope and by the netblock, with a reason.
ScopeInv ==
  /\ world \in Worlds
  /\ DOMAIN arec = Names /\ \A n \in Names : arec[n] \in {{}, world.a[n]}
  /\ scope \subseteq Names \cup Addrs \cup {Block}
  /\ Names \cap scope \subseteq Kin
  /\ \A a \in Addrs \cap scope : a \in Answers /\ Routable(a)
  /\ Block \in scope => BlockAuthorised

\* Only an active session scans and probes: its configuration does not change under the handlers that
\* have looked at it.
Contacting == {"ports", "open", "http", "protocols"}
ActiveInv ==
  /\ DOMAIN stage = Assets /\ DOMAIN flight = Addrs
  /\ \A x \in Assets : stage[x] \in Contacting => active
  /\ \A a \in Addrs : flight[a] # {} => active

LEMMA NamesInScope ==
  ASSUME ScopeInv, NEW n \in Names, InScope(n)
  PROVE  n \in world.domain \cup (Kin \cap Names)
BY DiscoveryAssumption, TypesAssumption DEF ScopeInv, InScope

\* What the port scan and the probes ask for is authorised.
LEMMA ScannableIsAuthorised ==
  ASSUME ScopeInv, NEW a \in Addrs, Scannable(a)
  PROVE  Authorised(a)
<1>1. a \notin world.domain
  BY DiscoveryAssumption, TypesAssumption DEF ScopeInv
<1>2. CASE a \in scope
  BY <1>2 DEF ScopeInv, Authorised, Scannable
<1>3. CASE a \in world.block /\ Block \in scope
  BY <1>3 DEF ScopeInv, Authorised, Scannable
<1> QED  BY <1>1, <1>2, <1>3 DEF Scannable, InScope

\* Who is authorised does not change.
LEMMA SameWorld ==
  ASSUME UNCHANGED world
  PROVE  UNCHANGED <<Kin, Answers, BlockAuthorised>> /\ \A a : Routable(a)' = Routable(a)
BY DEF Kin, Answers, BlockAuthorised, Routable

LEMMA ScopeUnchanged ==
  ASSUME ScopeInv, UNCHANGED <<world, arec, scope>>
  PROVE  ScopeInv'
BY SameWorld DEF ScopeInv

\* The netblock joins the scope, or does not.
LEMMA BlockJoins ==
  ASSUME ScopeInv, UNCHANGED <<world, arec>>, scope' \in {scope, scope \cup {Block}},
         scope' # scope => BlockAuthorised
  PROVE  ScopeInv'
BY SameWorld, TypesAssumption DEF ScopeInv

\* Kin joins the scope, by its names or as a netblock.
LEMMA KinJoins ==
  ASSUME ScopeInv, NEW kin \in world.kin, Horizontals(kin)
  PROVE  ScopeInv'
<1>1. UNCHANGED <<world, arec>> /\ scope' = scope \cup kin
  BY DEF Horizontals, dbVars
<1>2. kin \subseteq Names \cup {Block} /\ kin \subseteq Kin
  BY DiscoveryAssumption DEF ScopeInv, Kin
<1>3. Block \in kin => BlockAuthorised
  BY <1>2 DEF BlockAuthorised
<1> QED  BY <1>1, <1>2, <1>3, SameWorld, TypesAssumption DEF ScopeInv

\* A netblock is admitted on a weak signal only for the sake of an address in it that a domain in scope
\* has.
LEMMA StoreBlockKeeps ==
  ASSUME ScopeInv, UNCHANGED <<world, arec>>, NEW a \in Addrs, Announced(a), StoreBlock(a)
  PROVE  ScopeInv'
<1>1. ASSUME AdmitsAmbient(a) PROVE BlockAuthorised
  <2>1. PICK n \in Names : a \in arec[n] /\ InScope(n)
    BY <1>1 DEF AdmitsAmbient, HasInScopeFQDN
  <2>2. n \in world.domain \cup (Kin \cap Names) /\ a \in world.a[n]
    BY <2>1, NamesInScope DEF ScopeInv
  <2>3. a \in Answers \cap world.block
    BY <2>2 DEF Answers, Announced
  <2> QED  BY <1>1, <2>3 DEF BlockAuthorised, AdmitsAmbient
<1>2. NetblockOwned => BlockAuthorised
  BY DEF NetblockOwned, BlockAuthorised
<1>3. scope' \in {scope, scope \cup {Block}} /\ (scope' # scope => BlockAuthorised)
  BY <1>1, <1>2 DEF StoreBlock, Admissible
<1> QED  BY <1>3, BlockJoins

LEMMA IpKeeps ==
  ASSUME ScopeInv, NEW n \in Names, Ip(n)
  PROVE  ScopeInv'
<1>1. UNCHANGED <<world, scope>>
  BY DEF Ip
<1>2. DOMAIN arec' = Names /\ \A m \in Names : arec'[m] \in {{}, world.a[m]}
  <2>1. CASE UNCHANGED arec
    BY <2>1 DEF ScopeInv
  <2>2. CASE arec' = [arec EXCEPT ![n] = @ \cup world.a[n]] \/ arec' = [arec EXCEPT ![n] = @ \cup {}]
    BY <2>2 DEF ScopeInv
  <2> QED  BY <2>1, <2>2 DEF Ip
<1> QED  BY <1>1, <1>2, SameWorld DEF ScopeInv

LEMMA AdmitKeeps ==
  ASSUME ScopeInv, NEW n \in Names, Admit(n)
  PROVE  ScopeInv'
<1>1. UNCHANGED <<world, arec>>
  BY DEF Admit, dbVars
<1> DEFINE granted == IF InScope(n) THEN {a \in arec[n] : Routable(a)} ELSE {}
<1>2. scope' = scope \cup granted
  BY DEF Admit
<1>3. granted \subseteq Addrs /\ \A a \in granted : a \in Answers /\ Routable(a)
  <2>1. CASE InScope(n)
    <3>1. n \in world.domain \cup (Kin \cap Names) /\ arec[n] \subseteq world.a[n] /\ world.a[n] \subseteq Addrs
      BY <2>1, NamesInScope, DiscoveryAssumption DEF ScopeInv
    <3> QED  BY <2>1, <3>1 DEF Answers
  <2> QED  BY <2>1
<1> QED  BY <1>1, <1>2, <1>3, SameWorld, TypesAssumption DEF ScopeInv

LEMMA ScopeStep == ScopeInv /\ [Next]_vars => ScopeInv'
<1> SUFFICES ASSUME ScopeInv, [Next]_vars PROVE ScopeInv'
  OBVIOUS
<1>1. CASE UNCHANGED <<world, arec, scope>>
  BY <1>1, ScopeUnchanged
<1>2. ASSUME NEW x \in Assets, Claim(x) \/ Complete(x) PROVE UNCHANGED <<world, arec, scope>>
  BY <1>2 DEF Claim, Complete, dbVars
<1>3. ASSUME NEW n \in Names, NameStep(n) PROVE ScopeInv'
  <2>1. CASE Ip(n)
    BY <2>1, IpKeeps
  <2>2. CASE Admit(n)
    BY <2>2, AdmitKeeps
  <2>3. CASE Cname(n)
    BY <2>3, ScopeUnchanged DEF Cname
  <2>4. CASE Subs(n)
    BY <2>4, ScopeUnchanged DEF Subs
  <2>5. CASE Probe(n)
    BY <2>5, ScopeUnchanged DEF Probe, dbVars
  <2>6. CASE Probed(n)
    BY <2>6, ScopeUnchanged DEF Probed
  <2>7. CASE \E a \in Addrs : WalkNext(n, a)
    BY <2>7, ScopeUnchanged DEF WalkNext, dbVars
  <2> QED  BY <1>3, <2>1, <2>2, <2>3, <2>4, <2>5, <2>6, <2>7 DEF NameStep
<1>4. ASSUME NEW a \in Addrs, AddrStep(a) PROVE ScopeInv'
  <2>1. CASE Bgptools(a)
    <3>1. UNCHANGED <<world, arec>>
      BY <2>1 DEF Bgptools
    <3>2. CASE Announced(a) /\ StoreBlock(a)
      BY <3>1, <3>2, StoreBlockKeeps
    <3>3. CASE UNCHANGED scope
      BY <3>1, <3>3, ScopeUnchanged
    <3> QED  BY <2>1, <3>2, <3>3 DEF Bgptools
  <2>2. CASE Netblock(a)
    <3>1. UNCHANGED <<world, arec>>
      BY <2>2 DEF Netblock
    <3>2. CASE Announced(a) /\ StoreBlock(a)
      BY <3>1, <3>2, StoreBlockKeeps
    <3>3. CASE UNCHANGED scope
      BY <3>1, <3>3, ScopeUnchanged
    <3> QED  BY <2>2, <3>2, <3>3 DEF Netblock
  <2>3. CASE Reverse(a) \/ Sweep(a) \/ Prefilter(a) \/ Fill(a) \/ Filled(a)
    BY <2>3, ScopeUnchanged DEF Reverse, Sweep, Prefilter, Fill, Filled, dbVars
  <2>4. CASE FinishScan(a)
    BY <2>4, ScopeUnchanged DEF FinishScan
  <2>5. CASE HTTP(a) \/ Protocols(a)
    BY <2>5, ScopeUnchanged DEF HTTP, Protocols
  <2>6. CASE Requeue(a)
    BY <2>6, ScopeUnchanged DEF Requeue, EndUnchanged, dbVars
  <2> QED  BY <1>4, <2>1, <2>2, <2>3, <2>4, <2>5, <2>6 DEF AddrStep
<1>5. CASE Rdap
  BY <1>5, ScopeUnchanged DEF Rdap
<1>6. CASE Contacts
  <2>1. UNCHANGED <<world, arec>>
    BY <1>6 DEF Contacts
  <2>2. scope' \in {scope, scope \cup {Block}} /\ (scope' # scope => BlockAuthorised)
    BY <1>6 DEF Contacts, BlockAuthorised
  <2> QED  BY <2>1, <2>2, BlockJoins
<1>7. CASE EndStep
  <2>1. CASE NextSession
    <3>1. UNCHANGED <<world, arec>> /\ scope' = StartScope(world)
      BY <2>1 DEF NextSession
    <3>2. Block \in scope' => BlockAuthorised
      BY <3>1 DEF StartScope, BlockAuthorised
    <3> QED  BY <3>1, <3>2, SameWorld, TypesAssumption DEF ScopeInv, StartScope
  <2>2. CASE EndRequested \/ FinishFills \/ ListMissed \/ Requeued \/ Kill
    BY <2>2, ScopeUnchanged DEF EndRequested, FinishFills, ListMissed, Requeued, Kill, EndUnchanged, dbVars
  <2>3. CASE WaitEnds("drainfill", "idle") \/ WaitEnds("drain", "ended")
    BY <2>3, ScopeUnchanged DEF WaitEnds, EndUnchanged, dbVars
  <2> QED  BY <1>7, <2>1, <2>2, <2>3 DEF EndStep
<1>8. CASE UNCHANGED vars
  BY <1>8, <1>1 DEF vars, dbVars
<1> QED  BY <1>1, <1>2, <1>3, <1>4, <1>5, <1>6, <1>7, <1>8, KinJoins DEF Next

\* One event moves to another stage; to one that contacts somebody, only in an active session.
LEMMA StageMoves ==
  ASSUME ActiveInv, NEW x \in Assets, NEW s, To(x, s), s \in Contacting => active,
         UNCHANGED <<active, flight>>
  PROVE  ActiveInv'
BY DEF ActiveInv, To

LEMMA StageUnchanged ==
  ASSUME ActiveInv, UNCHANGED <<active, flight, stage>>
  PROVE  ActiveInv'
BY DEF ActiveInv

LEMMA ScanJoined ==
  ASSUME ActiveInv, NEW a \in Addrs, NEW c, Join(c, a), active, UNCHANGED <<active, stage>>
  PROVE  ActiveInv'
BY DEF ActiveInv, Join

LEMMA ActiveStep == ActiveInv /\ [Next]_vars => ActiveInv'
<1> SUFFICES ASSUME ActiveInv, [Next]_vars PROVE ActiveInv'
  OBVIOUS
<1> USE DEF Contacting, sessVars
<1>1. ASSUME NEW x \in Assets, Claim(x) \/ Complete(x) PROVE ActiveInv'
  <2>1. CASE Claim(x)
    BY <2>1, StageMoves DEF Claim, First
  <2>2. CASE Complete(x)
    BY <2>2, StageMoves DEF Complete
  <2> QED  BY <1>1, <2>1, <2>2
<1>2. ASSUME NEW n \in Names, NameStep(n) PROVE ActiveInv'
  <2> n \in Assets
    BY DEF Assets
  <2>1. CASE Cname(n)
    BY <2>1, StageMoves DEF Cname
  <2>2. CASE Ip(n)
    BY <2>2, StageMoves DEF Ip
  <2>3. CASE Admit(n)
    BY <2>3, StageMoves DEF Admit
  <2>4. CASE Subs(n)
    BY <2>4, StageMoves DEF Subs
  <2>5. CASE Probe(n)
    BY <2>5, StageMoves DEF Probe
  <2>6. CASE Probed(n)
    BY <2>6, StageMoves DEF Probed
  <2>7. ASSUME NEW a \in Addrs, WalkNext(n, a) PROVE ActiveInv'
    <3>1. active /\ UNCHANGED active
      BY <2>7 DEF WalkNext, ActiveInv
    <3>2. CASE NeedsScan(a)
      BY <2>7, <3>1, <3>2, ScanJoined DEF WalkNext
    <3>3. CASE ~NeedsScan(a)
      BY <2>7, <3>1, <3>3, StageMoves, StageUnchanged DEF WalkNext, Walked
    <3> QED  BY <3>2, <3>3
  <2> QED  BY <1>2, <2>1, <2>2, <2>3, <2>4, <2>5, <2>6, <2>7 DEF NameStep
<1>3. ASSUME NEW a \in Addrs, AddrStep(a) PROVE ActiveInv'
  <2> a \in Assets
    BY DEF Assets
  <2>1. CASE Bgptools(a)
    BY <2>1, StageMoves DEF Bgptools
  <2>2. CASE Netblock(a)
    BY <2>2, StageMoves DEF Netblock
  <2>3. CASE Reverse(a) \/ Sweep(a)
    BY <2>3, StageMoves DEF Reverse, Sweep
  <2>4. CASE Prefilter(a)
    <3>1. UNCHANGED active
      BY <2>4 DEF Prefilter
    <3>2. CASE active /\ NeedsScan(a)
      BY <2>4, <3>1, <3>2, ScanJoined DEF Prefilter
    <3>3. CASE ~(active /\ NeedsScan(a))
      BY <2>4, <3>1, <3>3, StageMoves DEF Prefilter
    <3> QED  BY <3>2, <3>3
  <2>5. CASE FinishScan(a)
    <3>1. active /\ UNCHANGED active
      BY <2>5 DEF FinishScan, ActiveInv
    <3>2. DOMAIN stage' = Assets /\ DOMAIN flight' = Addrs
      BY <2>5 DEF FinishScan, ActiveInv
    <3> QED  BY <3>1, <3>2 DEF ActiveInv
  <2>6. CASE HTTP(a)
    <3>1. active
      BY <2>6 DEF HTTP, At, ActiveInv
    <3> QED  BY <2>6, <3>1, StageMoves DEF HTTP
  <2>7. CASE Protocols(a)
    BY <2>7, StageMoves DEF Protocols
  <2>8. CASE Fill(a) \/ Filled(a) \/ Requeue(a)
    BY <2>8, StageUnchanged DEF Fill, Filled, Requeue, EndUnchanged, pipeVars
  <2> QED  BY <1>3, <2>1, <2>2, <2>3, <2>4, <2>5, <2>6, <2>7, <2>8 DEF AddrStep
<1>4. CASE Rdap
  BY <1>4, StageMoves DEF Rdap, Assets
<1>5. CASE Contacts
  BY <1>5, StageMoves DEF Contacts, Assets
<1>6. CASE EndStep
  <2>1. CASE NextSession
    BY <2>1 DEF NextSession, ActiveInv
  <2>2. CASE EndRequested \/ FinishFills \/ ListMissed \/ Requeued \/ Kill
    BY <2>2, StageUnchanged DEF EndRequested, FinishFills, ListMissed, Requeued, Kill, EndUnchanged
  <2>3. CASE WaitEnds("drainfill", "idle") \/ WaitEnds("drain", "ended")
    BY <2>3, StageUnchanged DEF WaitEnds, EndUnchanged
  <2> QED  BY <1>6, <2>1, <2>2, <2>3 DEF EndStep
<1>7. ASSUME NEW kin, Horizontals(kin) PROVE ActiveInv'
  BY <1>7, StageUnchanged DEF Horizontals
<1>8. CASE UNCHANGED vars
  BY <1>8, StageUnchanged DEF vars, pipeVars
<1> QED  BY <1>1, <1>2, <1>3, <1>4, <1>5, <1>6, <1>7, <1>8 DEF Next

\* A step that starts a scan, or probes, does so of an address that is authorised.
Contacted(a) == (flight[a] = {} /\ flight'[a] # {}) \/ a \in probed' \ probed

LEMMA ContactedIsAuthorised ==
  ASSUME ScopeInv, ActiveInv, [Next]_vars, NEW a \in Addrs, Contacted(a)
  PROVE  active /\ Authorised(a)
<1>1. CASE UNCHANGED <<flight, probed>>
  BY <1>1 DEF Contacted
<1>2. ASSUME NEW x \in Assets, Claim(x) \/ Complete(x) PROVE UNCHANGED <<flight, probed>>
  BY <1>2 DEF Claim, Complete, dbVars
<1>3. ASSUME NEW c, NEW b \in Addrs, Join(c, b), UNCHANGED probed, Scannable(b), active
      PROVE  active /\ Authorised(a)
  BY <1>3, ScannableIsAuthorised DEF Join, Contacted, ActiveInv
<1>4. ASSUME NEW n \in Names, NameStep(n) PROVE active /\ Authorised(a)
  <2>1. CASE Cname(n) \/ Ip(n) \/ Subs(n) \/ Probed(n)
    BY <2>1, <1>1 DEF Cname, Ip, Subs, Probed
  <2>2. CASE Admit(n) \/ Probe(n)
    BY <2>2, <1>1 DEF Admit, Probe, dbVars
  <2>3. ASSUME NEW b \in Addrs, WalkNext(n, b) PROVE active /\ Authorised(a)
    <3>1. active /\ UNCHANGED probed
      BY <2>3 DEF WalkNext, dbVars, ActiveInv, Assets, Contacting
    <3>2. CASE NeedsScan(b)
      BY <2>3, <3>1, <3>2, <1>3 DEF WalkNext, NeedsScan
    <3>3. CASE ~NeedsScan(b)
      BY <2>3, <3>1, <3>3, <1>1 DEF WalkNext
    <3> QED  BY <3>2, <3>3
  <2> QED  BY <1>4, <2>1, <2>2, <2>3 DEF NameStep
<1>5. ASSUME NEW b \in Addrs, AddrStep(b) PROVE active /\ Authorised(a)
  <2>1. CASE Bgptools(b) \/ Netblock(b) \/ HTTP(b)
    BY <2>1, <1>1 DEF Bgptools, Netblock, HTTP
  <2>2. CASE Reverse(b) \/ Sweep(b) \/ Fill(b) \/ Filled(b) \/ Requeue(b)
    BY <2>2, <1>1 DEF Reverse, Sweep, Fill, Filled, Requeue, EndUnchanged, pipeVars, dbVars
  <2>3. CASE Prefilter(b)
    <3>1. UNCHANGED probed
      BY <2>3 DEF Prefilter, dbVars
    <3>2. CASE active /\ NeedsScan(b)
      BY <2>3, <3>1, <3>2, <1>3 DEF Prefilter, NeedsScan
    <3>3. CASE ~(active /\ NeedsScan(b))
      BY <2>3, <3>1, <3>3, <1>1 DEF Prefilter
    <3> QED  BY <3>2, <3>3
  <2>4. CASE FinishScan(b)
    BY <2>4 DEF FinishScan, Contacted, ActiveInv
  <2>5. CASE Protocols(b)
    <3>1. active
      BY <2>5 DEF Protocols, At, ActiveInv, Assets, Contacting
    <3>2. UNCHANGED flight /\ (UNCHANGED probed \/ (HasPorts(b) /\ probed' = probed \cup {b}))
      BY <2>5 DEF Protocols, ProbeProtocols
    <3>3. a = b /\ Scannable(b)
      BY <3>2 DEF Contacted, HasPorts
    <3> QED  BY <3>1, <3>3, ScannableIsAuthorised
  <2> QED  BY <1>5, <2>1, <2>2, <2>3, <2>4, <2>5 DEF AddrStep
<1>6. CASE Rdap \/ Contacts
  BY <1>6, <1>1 DEF Rdap, Contacts
<1>7. CASE EndStep
  <2>1. CASE NextSession
    BY <2>1 DEF NextSession, Contacted
  <2>2. CASE EndRequested \/ FinishFills \/ ListMissed \/ Requeued \/ Kill
    BY <2>2, <1>1 DEF EndRequested, FinishFills, ListMissed, Requeued, Kill, EndUnchanged, dbVars
  <2>3. CASE WaitEnds("drainfill", "idle") \/ WaitEnds("drain", "ended")
    BY <2>3, <1>1 DEF WaitEnds, EndUnchanged, dbVars
  <2> QED  BY <1>7, <2>1, <2>2, <2>3 DEF EndStep
<1>8. ASSUME NEW kin, Horizontals(kin) PROVE UNCHANGED <<flight, probed>>
  BY <1>8 DEF Horizontals, dbVars
<1>9. CASE UNCHANGED vars
  BY <1>9, <1>1 DEF vars, pipeVars, dbVars
<1> QED  BY <1>1, <1>2, <1>4, <1>5, <1>6, <1>7, <1>8, <1>9 DEF Next

\* Whatever neighbours, pointers, name servers and aliases lead to, and however large or small the
\* netblocks are, only addresses of domains and netblocks that are configured, or kin to what is in
\* scope, are scanned or probed, and only in an active session (dns/ip.go, ip_netblock.go,
\* support/portscan.go, horizontals).
THEOREM OnlyAuthorised == Spec => OnlyAuthorisedContacted
<1>1. Init => ScopeInv /\ ActiveInv
  <2> SUFFICES ASSUME Init PROVE ScopeInv /\ ActiveInv
    OBVIOUS
  <2>1. ScopeInv
    BY TypesAssumption DEF Init, ScopeInv, StartScope, BlockAuthorised
  <2>2. ActiveInv
    BY DEF Init, ActiveInv, Contacting
  <2> QED  BY <2>1, <2>2
<1>2. ScopeInv /\ ActiveInv /\ [Next]_vars =>
        [\A a \in Addrs : (flight[a] = {} /\ flight'[a] # {}) \/ a \in probed' \ probed
           => active /\ Authorised(a)]_vars
  BY ContactedIsAuthorised DEF Contacted
<1> QED  BY <1>1, <1>2, ScopeStep, ActiveStep, PTL DEF Spec, OnlyAuthorisedContacted

------------------------------------------------------------------------------
(* Where events and callers are.                                           *)

Walking == {"ports", "open"}

\* An event in the pipeline has a row that is not done, and whoever waits for a scan is at the point
\* where it was asked for: a name on its walk, an address before its own ports.
PlaceInv ==
  /\ DOMAIN row = Assets /\ DOMAIN stage = Assets /\ DOMAIN todo = Names /\ DOMAIN flight = Addrs
  /\ \A x \in Assets : stage[x] # "idle" => row[x] \in {"leased", "queued"}
  /\ \A a \in Addrs : \A c \in flight[a] :
       \/ c \in Names /\ stage[c] \in Walking /\ a \in todo[c]
       \/ c = a /\ stage[a] = "prefilter"

\* The backlog takes assets in and gives none back.
RowsQueued == DOMAIN row' = Assets /\ \A x \in Assets : row'[x] = row[x] \/ row'[x] = "queued"

LEMMA QueueRows ==
  ASSUME PlaceInv, NEW S, Dispatch(S) \/ Resubmit(S)
  PROVE  RowsQueued
BY DEF PlaceInv, Dispatch, Resubmit, Queue, RowsQueued

LEMMA SameRows == ASSUME PlaceInv, UNCHANGED row PROVE RowsQueued
BY DEF PlaceInv, RowsQueued

\* An event goes on from a stage where nobody waits.
LEMMA PlaceMoves ==
  ASSUME PlaceInv, NEW x \in Assets, NEW s, To(x, s), stage[x] \notin Walking \cup {"idle", "prefilter"},
         RowsQueued, UNCHANGED <<todo, flight>>
  PROVE  PlaceInv'
BY DEF PlaceInv, To, RowsQueued

LEMMA PlaceStays ==
  ASSUME PlaceInv, RowsQueued, UNCHANGED <<stage, todo, flight>>
  PROVE  PlaceInv'
BY DEF PlaceInv, RowsQueued

LEMMA PlaceOfName ==
  ASSUME PlaceInv, NEW n \in Names, NameStep(n)
  PROVE  PlaceInv'
<1> n \in Assets /\ n \notin Addrs
  BY TypesAssumption DEF Assets
<1> USE DEF Walking, At
<1>1. CASE Cname(n)
  <2>1. RowsQueued
    BY <1>1, QueueRows DEF Cname
  <2> QED  BY <1>1, <2>1, PlaceMoves DEF Cname
<1>2. CASE Ip(n)
  <2>1. RowsQueued
    BY <1>2, QueueRows DEF Ip
  <2> QED  BY <1>2, <2>1, PlaceMoves DEF Ip
<1>3. CASE Admit(n)
  <2>1. RowsQueued
    BY <1>3, QueueRows DEF Admit
  <2> QED  BY <1>3, <2>1, PlaceMoves DEF Admit
<1>4. CASE Subs(n)
  <2>1. RowsQueued
    BY <1>4, QueueRows DEF Subs
  <2> QED  BY <1>4, <2>1, PlaceMoves DEF Subs
<1>5. CASE Probe(n)
  <2>1. UNCHANGED <<row, flight>> /\ stage[n] = "probe"
    BY <1>5 DEF Probe
  <2>2. CASE UNCHANGED todo /\ To(n, "end")
    BY <2>1, <2>2, SameRows, PlaceMoves
  <2>3. CASE todo' = [todo EXCEPT ![n] = ResolvedIPs(n)] /\ To(n, "ports")
    BY <2>1, <2>3 DEF PlaceInv, To
  <2> QED  BY <1>5, <2>2, <2>3 DEF Probe
<1>6. CASE Probed(n)
  BY <1>6 DEF Probed, PlaceInv, To
<1>7. ASSUME NEW a \in Addrs, WalkNext(n, a) PROVE PlaceInv'
  <2>1. UNCHANGED row /\ stage[n] \in Walking /\ a \in todo[n] /\ \A b \in Addrs : n \notin flight[b]
    BY <1>7 DEF WalkNext, Waiting
  <2>2. CASE NeedsScan(a)
    <3>1. Join(n, a) /\ UNCHANGED <<todo, stage>>
      BY <1>7, <2>2 DEF WalkNext
    <3> QED  BY <2>1, <3>1 DEF PlaceInv, Join
  <2>3. CASE ~NeedsScan(a)
    <3>1. UNCHANGED flight /\ todo' = [todo EXCEPT ![n] = @ \ {a}] /\ (To(n, "open") \/ UNCHANGED stage)
      BY <1>7, <2>3 DEF WalkNext, Walked
    <3>2. CASE To(n, "open")
      BY <2>1, <3>1, <3>2 DEF PlaceInv, To
    <3>3. CASE UNCHANGED stage
      BY <2>1, <3>1, <3>3 DEF PlaceInv
    <3> QED  BY <3>1, <3>2, <3>3
  <2> QED  BY <2>2, <2>3
<1> QED  BY <1>1, <1>2, <1>3, <1>4, <1>5, <1>6, <1>7 DEF NameStep

\* A scan lets all its callers go, and they wait for no other.
LEMMA PlaceOfFinish ==
  ASSUME PlaceInv, NEW a \in Addrs, FinishScan(a)
  PROVE  PlaceInv'
<1> USE DEF Walking
<1>1. /\ DOMAIN row' = Assets /\ DOMAIN stage' = Assets /\ DOMAIN todo' = Names /\ DOMAIN flight' = Addrs
      /\ UNCHANGED row /\ flight' = [flight EXCEPT ![a] = {}]
  BY DEF FinishScan, PlaceInv
<1>2. \A x \in Assets : stage'[x] # "idle" => stage[x] # "idle"
  BY DEF FinishScan, PlaceInv
<1>3. \A n \in Names : stage[n] \in Walking => stage'[n] \in Walking
  BY TypesAssumption DEF FinishScan, PlaceInv, Assets
<1>4. \A n \in Names, b \in Addrs : b # a /\ b \in todo[n] => b \in todo'[n]
  BY DEF FinishScan
<1>5. \A b \in Addrs : b # a => stage'[b] = stage[b]
  <2> SUFFICES ASSUME NEW b \in Addrs, b # a PROVE b \notin flight[a]
    BY DEF FinishScan, Assets
  <2> QED  BY TypesAssumption DEF PlaceInv
<1> QED  BY <1>1, <1>2, <1>3, <1>4, <1>5 DEF PlaceInv

LEMMA PlaceOfAddr ==
  ASSUME PlaceInv, NEW a \in Addrs, AddrStep(a)
  PROVE  PlaceInv'
<1> a \in Assets /\ a \notin Names
  BY TypesAssumption DEF Assets
<1> USE DEF Walking, At
<1>1. CASE Bgptools(a)
  <2>1. RowsQueued
    BY <1>1, QueueRows, SameRows DEF Bgptools, StoreBlock
  <2> QED  BY <1>1, <2>1, PlaceMoves DEF Bgptools
<1>2. CASE Netblock(a)
  <2>1. RowsQueued
    BY <1>2, QueueRows, SameRows DEF Netblock, StoreBlock
  <2> QED  BY <1>2, <2>1, PlaceMoves DEF Netblock
<1>3. CASE Reverse(a) \/ Sweep(a)
  <2>1. RowsQueued
    BY <1>3, QueueRows DEF Reverse, Sweep
  <2> QED  BY <1>3, <2>1, PlaceMoves DEF Reverse, Sweep
<1>4. CASE Prefilter(a)
  <2>1. UNCHANGED <<row, todo>> /\ stage[a] = "prefilter" /\ \A b \in Addrs : a \notin flight[b]
    BY <1>4 DEF Prefilter, Waiting
  <2>2. CASE active /\ NeedsScan(a)
    <3>1. Join(a, a) /\ UNCHANGED stage
      BY <1>4, <2>2 DEF Prefilter
    <3> QED  BY <2>1, <3>1 DEF PlaceInv, Join
  <2>3. CASE ~(active /\ NeedsScan(a))
    <3>1. UNCHANGED flight /\ \E s : To(a, s)
      BY <1>4, <2>3 DEF Prefilter
    <3> QED  BY <2>1, <3>1 DEF PlaceInv, To
  <2> QED  BY <2>2, <2>3
<1>5. CASE FinishScan(a)
  BY <1>5, PlaceOfFinish
<1>6. CASE HTTP(a)
  BY <1>6, SameRows, PlaceMoves DEF HTTP
<1>7. CASE Protocols(a)
  BY <1>7, SameRows, PlaceMoves DEF Protocols
<1>8. CASE Fill(a) \/ Filled(a)
  BY <1>8, QueueRows, SameRows, PlaceStays DEF Fill, Filled, pipeVars
<1>9. CASE Requeue(a)
  BY <1>9, QueueRows, PlaceStays DEF Requeue, EndUnchanged
<1> QED  BY <1>1, <1>2, <1>3, <1>4, <1>5, <1>6, <1>7, <1>8, <1>9 DEF AddrStep

LEMMA PlaceStep == PlaceInv /\ [Next]_vars => PlaceInv'
<1> SUFFICES ASSUME PlaceInv, [Next]_vars PROVE PlaceInv'
  OBVIOUS
<1> USE DEF Walking, At
<1>1. ASSUME NEW x \in Assets, Claim(x) PROVE PlaceInv'
  BY <1>1 DEF Claim, PlaceInv, To
<1>2. ASSUME NEW x \in Assets, Complete(x) PROVE PlaceInv'
  BY <1>2 DEF Complete, PlaceInv, To
<1>3. CASE Rdap
  <2>1. RowsQueued
    BY <1>3, QueueRows, SameRows DEF Rdap
  <2> QED  BY <1>3, <2>1, PlaceMoves DEF Rdap, Assets
<1>4. CASE Contacts
  BY <1>4, SameRows, PlaceMoves DEF Contacts, Assets
<1>5. CASE EndStep
  <2>1. CASE NextSession
    BY <2>1 DEF NextSession, PlaceInv, StartRow
  <2>2. CASE EndRequested \/ FinishFills \/ ListMissed \/ Requeued \/ Kill
    BY <2>2, SameRows, PlaceStays DEF EndRequested, FinishFills, ListMissed, Requeued, Kill, EndUnchanged
  <2>3. CASE WaitEnds("drainfill", "idle") \/ WaitEnds("drain", "ended")
    BY <2>3, SameRows, PlaceStays DEF WaitEnds, EndUnchanged
  <2> QED  BY <1>5, <2>1, <2>2, <2>3 DEF EndStep
<1>6. ASSUME NEW kin, Horizontals(kin) PROVE PlaceInv'
  BY <1>6, QueueRows, PlaceStays DEF Horizontals
<1>7. CASE UNCHANGED vars
  BY <1>7, SameRows, PlaceStays DEF vars, pipeVars
<1> QED  BY <1>1, <1>2, <1>3, <1>4, <1>5, <1>6, <1>7, PlaceOfName, PlaceOfAddr DEF Next

------------------------------------------------------------------------------
(* The walk over the addresses of a name.                                  *)

\* The names that the walk over the database reaches in so many hops.
LEMMA ReachedHops ==
  \A hops \in 1 .. MaxHops, n \in Names :
    Reached[hops][n] = IF hops = 1 THEN {n} ELSE Forward(Reached[hops - 1][n])
<1> DEFINE f1 == [n \in Names |-> {n}]
           f2 == [n \in Names |-> Forward(f1[n])]
           f3 == [n \in Names |-> Forward(f2[n])]
           f4 == [n \in Names |-> Forward(f3[n])]
           f5 == [n \in Names |-> Forward(f4[n])]
           f == <<f1, f2, f3, f4, f5>>
           Step(F, hops) == [n \in Names |-> IF hops = 1 THEN {n} ELSE Forward(F[hops - 1][n])]
           R == [hops \in 1 .. MaxHops |-> f[hops]]
<1>1. \A hops \in 1 .. MaxHops : f[hops] = Step(f, hops)
  <2> HIDE DEF f
  <2>1. f[1] = f1 /\ f[2] = f2 /\ f[3] = f3 /\ f[4] = f4 /\ f[5] = f5
    BY DEF f
  <2>2. f[1] = Step(f, 1)
    BY <2>1
  <2>3. f[2] = Step(f, 2) /\ f[3] = Step(f, 3)
    BY <2>1
  <2>4. f[4] = Step(f, 4) /\ f[5] = Step(f, 5)
    BY <2>1
  <2> HIDE DEF Step
  <2>5. \A hops \in 1 .. 5 : hops = 1 \/ hops = 2 \/ hops = 3 \/ hops = 4 \/ hops = 5
    OBVIOUS
  <2> QED  BY <2>2, <2>3, <2>4, <2>5 DEF MaxHops
<1>2. R = [hops \in 1 .. MaxHops |-> Step(R, hops)]
  <2> HIDE DEF f
  <2> SUFFICES ASSUME NEW hops \in 1 .. MaxHops PROVE f[hops] = Step(R, hops)
    OBVIOUS
  <2>1. f[hops] = Step(f, hops)
    BY <1>1
  <2>2. hops # 1 => R[hops - 1] = f[hops - 1]
    BY DEF MaxHops
  <2> QED  BY <2>1, <2>2
<1>3. Reached = [hops \in 1 .. MaxHops |-> Step(Reached, hops)]
  <2> HIDE DEF R
  <2> QED  BY <1>2 DEF Reached
<1> HIDE DEF R, f
<1>4. ASSUME NEW hops \in 1 .. MaxHops, NEW n \in Names
      PROVE  Reached[hops][n] = IF hops = 1 THEN {n} ELSE Forward(Reached[hops - 1][n])
  <2>1. Reached[hops] = Step(Reached, hops)
    BY <1>3
  <2> QED  BY <2>1
<1> QED  BY <1>4

\* A name reaches itself, so its own addresses are among those walked.
LEMMA OwnAddresses == ASSUME NEW n \in Names PROVE arec[n] \subseteq ResolvedIPs(n)
<1>1. n \in Reached[1][n]
  BY ReachedHops DEF MaxHops
<1>2. ASSUME NEW hops \in 2 .. 5, n \in Reached[hops - 1][n] PROVE n \in Reached[hops][n]
  <2>1. Reached[hops][n] = Forward(Reached[hops - 1][n])
    BY ReachedHops DEF MaxHops
  <2> QED  BY <1>2, <2>1 DEF Forward
<1>3. n \in Reached[2][n]
  BY <1>1, <1>2
<1>4. n \in Reached[3][n]
  BY <1>2, <1>3
<1>5. n \in Reached[4][n]
  BY <1>2, <1>4
<1>6. n \in Reached[5][n]
  BY <1>2, <1>5
<1> QED  BY <1>6 DEF ResolvedIPs, MaxHops

\* The walk of a name: its addresses are found before they are admitted.  When the session is to scan
\* them they are in scope, the walk passes none that has no mark, and the mark of the name says that
\* the walk is over.  Only between the admission and the end of the walk may one be unscanned.
AllScanned(n) == \A a \in arec[n] : Routable(a) => Monitored(a, "Port-Prefilter")

WalkOK(n) ==
  /\ stage[n] = "admit" => arec[n] # {}
  /\ n \in owed =>
       /\ arec[n] # {} /\ InScope(n)
       /\ \A a \in arec[n] : Routable(a) => a \in scope
       /\ stage[n] \in Walking => \A a \in arec[n] \ todo[n] : Routable(a) => Monitored(a, "Port-Prefilter")
       /\ Monitored(n, "HTTP-Probes") => AllScanned(n)
       /\ active /\ stage[n] \notin {"subs", "probe"} \cup Walking => AllScanned(n)

WalkInv == \A n \in Names : WalkOK(n)

\* What the other steps leave to the walk of a name: its stage, addresses and mark are as they were, and
\* the scope and the marks only grow.
Undisturbed(m) ==
  /\ arec'[m] = arec[m] /\ stage'[m] = stage[m] /\ todo'[m] = todo[m] /\ (m \in owed' <=> m \in owed)
  /\ Monitored(m, "HTTP-Probes")' => Monitored(m, "HTTP-Probes")

Onwards == UNCHANGED <<world, active>> /\ scope \subseteq scope' /\ marks \subseteq marks'

LEMMA WalkFrame ==
  ASSUME NEW m \in Names, WalkOK(m), Onwards, Undisturbed(m)
  PROVE  WalkOK(m)'
<1>1. InScope(m) => InScope(m)'
  BY DEF InScope, Onwards
<1>2. \A a : (Routable(a)' <=> Routable(a)) /\ (Monitored(a, "Port-Prefilter") => Monitored(a, "Port-Prefilter")')
  BY DEF Onwards, Routable, Monitored
<1> QED  BY <1>1, <1>2 DEF WalkOK, Onwards, Undisturbed, AllScanned

LEMMA WalkOthers ==
  ASSUME WalkInv, NEW n \in Names, Onwards,
         \A m \in Names \ {n} :
           /\ arec'[m] = arec[m] /\ stage'[m] = stage[m] /\ todo'[m] = todo[m] /\ (m \in owed' <=> m \in owed)
           /\ \A source : <<m, source>> \in marks' => <<m, source>> \in marks,
         WalkOK(n)'
  PROVE  WalkInv'
<1> SUFFICES ASSUME NEW m \in Names \ {n} PROVE WalkOK(m)'
  BY DEF WalkInv
<1>1. Undisturbed(m)
  BY DEF Undisturbed, Monitored
<1> QED  BY <1>1, WalkFrame DEF WalkInv

LEMMA WalkAlone ==
  ASSUME WalkInv, Onwards, UNCHANGED <<arec, todo, owed>>,
         \A m \in Names : stage'[m] = stage[m],
         \A m \in Names : \A source : <<m, source>> \in marks' => <<m, source>> \in marks
  PROVE  WalkInv'
<1> SUFFICES ASSUME NEW m \in Names PROVE WalkOK(m)'
  BY DEF WalkInv
<1>1. Undisturbed(m)
  BY DEF Undisturbed, Monitored
<1> QED  BY <1>1, WalkFrame DEF WalkInv

\* A step of the name itself that leaves its addresses and its mark alone, and stays on one side of the
\* admission, or of the walk.
LEMMA WalkGoesOn ==
  ASSUME PlaceInv, WalkInv, NEW n \in Names, NEW s, To(n, s), Onwards, UNCHANGED <<arec, todo, owed>>,
         \A m \in Names : Monitored(m, "HTTP-Probes")' => Monitored(m, "HTTP-Probes"),
         \A m \in Names \ {n} : \A source : <<m, source>> \in marks' => <<m, source>> \in marks,
         s \notin {"admit"} \cup Walking,
         n \in owed /\ active /\ s \notin {"subs", "probe"} => AllScanned(n)
  PROVE  WalkInv'
<1> n \in Assets
  BY DEF Assets
<1>1. stage'[n] = s /\ \A m \in Names \ {n} : stage'[m] = stage[m]
  BY DEF To, PlaceInv, Assets
<1>2. WalkOK(n)'
  <2>1. WalkOK(n)
    BY DEF WalkInv
  <2>2. InScope(n) => InScope(n)'
    BY DEF InScope, Onwards
  <2>3. AllScanned(n) => AllScanned(n)'
    BY DEF AllScanned, Onwards, Routable, Monitored
  <2> QED  BY <1>1, <2>1, <2>2, <2>3 DEF WalkOK, Onwards, Routable
<1> QED  BY <1>1, <1>2, WalkOthers

LEMMA WalkOfCname ==
  ASSUME PlaceInv, WalkInv, NEW n \in Names, Cname(n)
  PROVE  WalkInv'
<1>1. /\ Onwards /\ UNCHANGED <<arec, todo, owed>>
      /\ \A m \in Names : Monitored(m, "HTTP-Probes")' => Monitored(m, "HTTP-Probes")
      /\ \A m \in Names \ {n} : \A source : <<m, source>> \in marks' => <<m, source>> \in marks
  BY DEF Cname, Onwards, Monitored, sessVars, endVars
<1>2. n \in owed /\ active => AllScanned(n)
  BY DEF WalkInv, WalkOK, Cname, At, Walking
<1>3. To(n, "ip") \/ To(n, "probe")
  BY DEF Cname
<1> QED  BY <1>1, <1>2, <1>3, WalkGoesOn DEF Walking

\* The addresses of a name that is to be scanned are known, so that a query brings no others.
LEMMA WalkOfIp ==
  ASSUME PlaceInv, WalkInv, ScopeInv, NEW n \in Names, Ip(n)
  PROVE  WalkInv'
<1> n \in Assets
  BY DEF Assets
<1>1. stage[n] = "ip" /\ stage'[n] \in {"admit", "end"} /\ \A m \in Names \ {n} : stage'[m] = stage[m]
  BY DEF Ip, At, To, PlaceInv, Assets
<1>2. /\ Onwards /\ UNCHANGED <<todo, owed>>
      /\ \A m \in Names \ {n} : arec'[m] = arec[m]
      /\ Monitored(n, "HTTP-Probes")' => Monitored(n, "HTTP-Probes")
      /\ \A m \in Names \ {n} : \A source : <<m, source>> \in marks' => <<m, source>> \in marks
  BY DEF Ip, Onwards, Monitored, ScopeInv, sessVars, endVars
<1>3. stage'[n] = "admit" => arec'[n] # {}
  BY <1>1 DEF Ip, To, PlaceInv, ScopeInv
<1>4. arec[n] # {} => arec'[n] = arec[n]
  BY DEF Ip, ScopeInv
<1>5. WalkOK(n)'
  <2>1. WalkOK(n)
    BY DEF WalkInv
  <2>2. InScope(n) => InScope(n)'
    BY <1>2 DEF InScope, Onwards
  <2>3. n \in owed => AllScanned(n)' \/ ~active
    BY <1>1, <1>2, <1>4, <2>1 DEF WalkOK, AllScanned, Onwards, Routable, Monitored, Walking
  <2>4. n \in owed /\ Monitored(n, "HTTP-Probes") => AllScanned(n)'
    BY <1>2, <1>4, <2>1 DEF WalkOK, AllScanned, Onwards, Routable, Monitored
  <2> QED  BY <1>1, <1>2, <1>3, <1>4, <2>1, <2>2, <2>3, <2>4 DEF WalkOK, Onwards, Routable, Walking
<1> QED  BY <1>1, <1>2, <1>5, WalkOthers

LEMMA WalkOfAdmit ==
  ASSUME PlaceInv, WalkInv, NEW n \in Names, Admit(n)
  PROVE  WalkInv'
<1> n \in Assets
  BY DEF Assets
<1>1. stage[n] = "admit" /\ stage'[n] = "subs" /\ \A m \in Names \ {n} : stage'[m] = stage[m]
  BY DEF Admit, At, To, PlaceInv, Assets
<1>2. /\ Onwards /\ UNCHANGED <<arec, todo, marks>>
      /\ \A m \in Names \ {n} : m \in owed' <=> m \in owed
  BY DEF Admit, Onwards, sessVars, dbVars
<1>3. n \in owed' => n \in owed \/ (InScope(n) /\ ~Monitored(n, "HTTP-Probes"))
  BY DEF Admit
<1>4. InScope(n) => InScope(n)' /\ \A a \in arec[n] : Routable(a) => a \in scope'
  BY <1>2 DEF Admit, InScope, Onwards
<1>5. WalkOK(n)'
  <2>1. WalkOK(n)
    BY DEF WalkInv
  <2> QED  BY <1>1, <1>2, <1>3, <1>4, <2>1 DEF WalkOK, Walking, AllScanned, Monitored, Routable, Onwards
<1> QED  BY <1>1, <1>2, <1>5, WalkOthers

LEMMA WalkOfSubs ==
  ASSUME PlaceInv, WalkInv, NEW n \in Names, Subs(n)
  PROVE  WalkInv'
<1>1. Onwards /\ UNCHANGED <<arec, todo, owed, marks>> /\ To(n, "probe")
  BY DEF Subs, Onwards, sessVars, endVars
<1> QED  BY <1>1, WalkGoesOn DEF Walking, Monitored

\* The walk begins with all addresses of the name, or there is none because it was walked already.
LEMMA WalkOfProbe ==
  ASSUME PlaceInv, WalkInv, NEW n \in Names, Probe(n)
  PROVE  WalkInv'
<1> n \in Assets
  BY DEF Assets
<1>1. Onwards /\ UNCHANGED <<arec, owed, marks, scope>>
  BY DEF Probe, Onwards, sessVars, dbVars, endVars
<1>2. WalkOK(n)
  BY DEF WalkInv
<1>3. CASE active /\ InScope(n) /\ ~Monitored(n, "HTTP-Probes")
  <2>1. /\ arec[n] \subseteq todo'[n] /\ stage'[n] = "ports"
        /\ \A m \in Names \ {n} : stage'[m] = stage[m] /\ todo'[m] = todo[m]
    BY <1>3, OwnAddresses DEF Probe, To, PlaceInv, Assets
  <2>2. WalkOK(n)'
    BY <1>1, <1>2, <2>1 DEF WalkOK, Walking, AllScanned, Monitored, Routable, InScope, Onwards
  <2> QED  BY <1>1, <2>1, <2>2, WalkOthers
<1>4. CASE ~(active /\ InScope(n) /\ ~Monitored(n, "HTTP-Probes"))
  <2>1. To(n, "end") /\ UNCHANGED todo
    BY <1>4 DEF Probe
  <2>2. n \in owed /\ active => AllScanned(n)
    BY <1>2, <1>4 DEF WalkOK
  <2> QED  BY <1>1, <2>1, <2>2, WalkGoesOn DEF Walking, Monitored
<1> QED  BY <1>3, <1>4

\* An address of the name is in scope by now: the walk passes it only when it has its mark.
LEMMA WalkOfNext ==
  ASSUME PlaceInv, WalkInv, NEW n \in Names, NEW a \in Addrs, WalkNext(n, a)
  PROVE  WalkInv'
<1> n \in Assets
  BY DEF Assets
<1>1. /\ Onwards /\ UNCHANGED <<arec, owed, marks, scope>>
      /\ stage[n] \in Walking /\ stage'[n] \in Walking
      /\ \A m \in Names \ {n} : stage'[m] = stage[m] /\ todo'[m] = todo[m]
  BY DEF WalkNext, Walked, Onwards, To, PlaceInv, sessVars, dbVars, endVars, Walking, Assets
<1>2. todo'[n] = todo[n] \/ (todo'[n] = todo[n] \ {a} /\ ~NeedsScan(a))
  BY DEF WalkNext, Walked, PlaceInv
<1>3. WalkOK(n)'
  <2>1. WalkOK(n)
    BY DEF WalkInv
  <2>2. a \in scope /\ Routable(a) /\ ~NeedsScan(a) => Monitored(a, "Port-Prefilter")
    BY DEF NeedsScan, Scannable, InScope
  <2>3. n \in owed => \A b \in arec[n] \ todo'[n] : Routable(b) => Monitored(b, "Port-Prefilter")
    BY <1>1, <1>2, <2>1, <2>2 DEF WalkOK
  <2> QED  BY <1>1, <2>1, <2>3 DEF WalkOK, Walking, AllScanned, Monitored, Routable, InScope, Onwards
<1> QED  BY <1>1, <1>3, WalkOthers

LEMMA WalkOfProbed ==
  ASSUME PlaceInv, WalkInv, NEW n \in Names, Probed(n)
  PROVE  WalkInv'
<1> n \in Assets
  BY DEF Assets
<1>1. stage[n] \in Walking /\ todo[n] = {} /\ stage'[n] = "end" /\ \A m \in Names \ {n} : stage'[m] = stage[m]
  BY DEF Probed, Walking, To, PlaceInv, Assets
<1>2. /\ Onwards /\ UNCHANGED <<arec, todo, owed, scope>>
      /\ \A m \in Names \ {n} : \A source : <<m, source>> \in marks' => <<m, source>> \in marks
  BY DEF Probed, Onwards, sessVars, endVars
<1>3. WalkOK(n)'
  <2>1. WalkOK(n)
    BY DEF WalkInv
  <2>2. n \in owed => AllScanned(n)
    BY <1>1, <2>1 DEF WalkOK, AllScanned
  <2> QED  BY <1>1, <1>2, <2>1, <2>2 DEF WalkOK, Walking, AllScanned, Monitored, Routable, InScope, Onwards
<1> QED  BY <1>1, <1>2, <1>3, WalkOthers

\* A scan leaves its mark on the address before the names that wait for it go on.
LEMMA WalkOfFinish ==
  ASSUME PlaceInv, WalkInv, NEW a \in Addrs, FinishScan(a)
  PROVE  WalkInv'
<1>1. Onwards /\ UNCHANGED <<arec, owed, scope>> /\ marks' = marks \cup {<<a, "Port-Prefilter">>}
  BY DEF FinishScan, Onwards, Marked, sessVars, endVars
<1> SUFFICES ASSUME NEW n \in Names PROVE WalkOK(n)'
  BY <1>1 DEF WalkInv
<1> n \in Assets /\ n # a /\ n \notin Addrs
  BY TypesAssumption DEF Assets
<1>2. Monitored(n, "HTTP-Probes")' => Monitored(n, "HTTP-Probes")
  BY <1>1 DEF Monitored
<1>3. WalkOK(n)
  BY DEF WalkInv
<1>4. CASE n \notin flight[a]
  <2>1. stage'[n] = stage[n] /\ todo'[n] = todo[n]
    BY <1>4 DEF FinishScan
  <2> QED  BY <1>1, <1>2, <1>3, <2>1, WalkFrame DEF Undisturbed
<1>5. CASE n \in flight[a]
  <2>1. stage[n] \in Walking
    BY <1>5 DEF PlaceInv
  <2>2. stage'[n] \in Walking /\ todo'[n] = todo[n] \ {a}
    BY <1>5, <2>1 DEF FinishScan, Walking
  <2> QED  BY <1>1, <1>2, <1>3, <2>1, <2>2 DEF WalkOK, Walking, AllScanned, Monitored, Routable, InScope, Onwards
<1> QED  BY <1>4, <1>5

LEMMA WalkOfAddr ==
  ASSUME PlaceInv, WalkInv, NEW a \in Addrs, AddrStep(a)
  PROVE  WalkInv'
<1> a \in Assets /\ a \notin Names
  BY TypesAssumption DEF Assets
<1>0. ASSUME NEW s, To(a, s) PROVE \A m \in Names : stage'[m] = stage[m]
  BY <1>0 DEF To, PlaceInv, Assets
<1> USE DEF Onwards, sessVars, endVars
<1>1. CASE Bgptools(a)
  <2>1. scope \subseteq scope'
    BY <1>1 DEF Bgptools, StoreBlock
  <2> QED  BY <1>0, <1>1, <2>1, WalkAlone DEF Bgptools
<1>2. CASE Netblock(a)
  <2>1. scope \subseteq scope'
    BY <1>2 DEF Netblock, StoreBlock
  <2> QED  BY <1>0, <1>2, <2>1, WalkAlone DEF Netblock
<1>3. CASE Reverse(a) \/ Sweep(a)
  BY <1>0, <1>3, WalkAlone DEF Reverse, Sweep, dbVars
<1>4. CASE Prefilter(a)
  <2>1. \A m \in Names : stage'[m] = stage[m]
    BY <1>0, <1>4 DEF Prefilter
  <2> QED  BY <1>4, <2>1, WalkAlone DEF Prefilter, dbVars
<1>5. CASE FinishScan(a)
  BY <1>5, WalkOfFinish
<1>6. CASE HTTP(a)
  BY <1>0, <1>6, WalkAlone DEF HTTP
<1>7. CASE Protocols(a)
  <2>1. marks \subseteq marks' /\ \A m \in Names : \A source : <<m, source>> \in marks' => <<m, source>> \in marks
    BY <1>7 DEF Protocols, ProbeProtocols
  <2> QED  BY <1>0, <1>7, <2>1, WalkAlone DEF Protocols
<1>8. CASE Fill(a) \/ Filled(a)
  BY <1>8, WalkAlone DEF Fill, Filled, pipeVars, dbVars
<1>9. CASE Requeue(a)
  BY <1>9, WalkAlone DEF Requeue, EndUnchanged, dbVars
<1> QED  BY <1>1, <1>2, <1>3, <1>4, <1>5, <1>6, <1>7, <1>8, <1>9 DEF AddrStep

LEMMA WalkOfName ==
  ASSUME PlaceInv, WalkInv, ScopeInv, NEW n \in Names, NameStep(n)
  PROVE  WalkInv'
BY WalkOfCname, WalkOfIp, WalkOfAdmit, WalkOfSubs, WalkOfProbe, WalkOfNext, WalkOfProbed DEF NameStep

\* The event of an asset is claimed, or is over: no walk is under way then.
LEMMA WalkOfRow ==
  ASSUME PlaceInv, WalkInv, NEW x \in Assets, Claim(x) \/ Complete(x)
  PROVE  WalkInv'
<1>1. Onwards /\ UNCHANGED <<arec, todo, marks, scope, owed>>
  BY DEF Claim, Complete, Onwards, sessVars, dbVars, endVars
<1> SUFFICES ASSUME NEW n \in Names PROVE WalkOK(n)'
  BY <1>1 DEF WalkInv
<1>2. WalkOK(n)
  BY DEF WalkInv
<1>3. CASE x # n
  <2>1. stage'[n] = stage[n]
    BY <1>3 DEF Claim, Complete, To, PlaceInv, Assets
  <2> QED  BY <1>1, <1>2, <2>1, WalkFrame DEF Undisturbed, Monitored
<1>4. CASE x = n
  <2>1. stage[n] \in {"idle", "end"} /\ stage'[n] \in {"idle", "cname"}
    BY <1>4 DEF Claim, Complete, To, PlaceInv, First, At
  <2> QED  BY <1>1, <1>2, <2>1 DEF WalkOK, Walking, AllScanned, Monitored, Routable, InScope, Onwards
<1> QED  BY <1>3, <1>4

LEMMA WalkOfEnd ==
  ASSUME PlaceInv, WalkInv, EndStep
  PROVE  WalkInv'
<1> USE DEF Onwards
<1>1. CASE NextSession
  <2>1. owed' = {} /\ \A n \in Names : stage'[n] = "idle"
    BY <1>1 DEF NextSession, Assets
  <2> QED  BY <2>1 DEF WalkInv, WalkOK
<1>2. CASE EndRequested \/ FinishFills \/ ListMissed \/ Requeued \/ Kill
  BY <1>2, WalkAlone DEF EndRequested, FinishFills, ListMissed, Requeued, Kill, EndUnchanged, dbVars
<1>3. CASE WaitEnds("drainfill", "idle") \/ WaitEnds("drain", "ended")
  BY <1>3, WalkAlone DEF WaitEnds, EndUnchanged, dbVars
<1> QED  BY <1>1, <1>2, <1>3 DEF EndStep

LEMMA WalkStep == PlaceInv /\ ScopeInv /\ WalkInv /\ [Next]_vars => WalkInv'
<1> SUFFICES ASSUME PlaceInv, ScopeInv, WalkInv, [Next]_vars PROVE WalkInv'
  OBVIOUS
<1> USE DEF Onwards, sessVars, dbVars, endVars
<1>1. CASE Rdap
  <2>1. \A m \in Names : stage'[m] = stage[m]
    BY <1>1, TypesAssumption DEF Rdap, To, PlaceInv, Assets
  <2>2. marks \subseteq marks' /\ \A m \in Names : \A source : <<m, source>> \in marks' => <<m, source>> \in marks
    BY <1>1, TypesAssumption DEF Rdap
  <2> QED  BY <1>1, <2>1, <2>2, WalkAlone DEF Rdap
<1>2. CASE Contacts
  <2>1. \A m \in Names : stage'[m] = stage[m]
    BY <1>2, TypesAssumption DEF Contacts, To, PlaceInv, Assets
  <2> QED  BY <1>2, <2>1, WalkAlone DEF Contacts
<1>3. ASSUME NEW kin, Horizontals(kin) PROVE WalkInv'
  BY <1>3, WalkAlone DEF Horizontals
<1>4. CASE UNCHANGED vars
  BY <1>4, WalkAlone DEF vars, pipeVars
<1> QED  BY <1>1, <1>2, <1>3, <1>4, WalkOfRow, WalkOfName, WalkOfAddr, WalkOfEnd DEF Next

\* When an active session is done with a name that was in scope, and had no fresh mark of HTTP-Probes,
\* when its addresses were found, its routable addresses have been scanned, although their own events
\* may have passed the prefilter before they joined the scope, marks of earlier sessions lapse one by
\* one, and the name may be queued again (OpenPortsForFQDN, support/portscan.go).
THEOREM ResolvedScanned == Spec => []ResolvedIsScanned
<1>1. Init => ScopeInv /\ PlaceInv /\ WalkInv
  <2> SUFFICES ASSUME Init PROVE ScopeInv /\ PlaceInv /\ WalkInv
    OBVIOUS
  <2>1. ScopeInv
    BY TypesAssumption DEF Init, ScopeInv, StartScope, BlockAuthorised
  <2>2. PlaceInv
    BY DEF Init, PlaceInv, StartRow
  <2>3. WalkInv
    BY DEF Init, WalkInv, WalkOK, Assets
  <2> QED  BY <2>1, <2>2, <2>3
<1>2. PlaceInv /\ WalkInv => ResolvedIsScanned
  <2> SUFFICES ASSUME PlaceInv, WalkInv, NEW n \in Names, n \in owed, active, row[n] = "done"
               PROVE  AllScanned(n)
    BY DEF ResolvedIsScanned, AllScanned, WalkInv
  <2>1. stage[n] = "idle"
    BY DEF PlaceInv, Assets
  <2> QED  BY <2>1 DEF WalkInv, WalkOK, Walking
<1> QED  BY <1>1, <1>2, ScopeStep, PlaceStep, WalkStep, PTL DEF Spec

------------------------------------------------------------------------------
(* The sweep at the end of a session.                                      *)

\* An address that the sweep is to see to has been probed or has no ports left, is on its way there,
\* or is yet to be claimed again.
Scanned(a) == flight[a] = {} /\ Monitored(a, "Port-Prefilter")
OnItsWay(a) ==
  \/ stage[a] \in {"bgptools", "netblock", "reverse", "sweep", "prefilter"}
  \/ stage[a] \in {"http", "protocols"} /\ Scanned(a)
Settled(a) == a \in probed \/ (Scanned(a) /\ a \notin ports)
Waited(a) == stage[a] = "idle" /\ (a \in missed \/ row[a] = "queued")

SweepInv ==
  /\ due \subseteq Addrs
  /\ \A a \in Addrs : Monitored(a, "Protocol-Probes") => a \in probed
  /\ phase = "drain" => missed = {}
  /\ active /\ ~cut /\ phase \in {"requeue", "drain"} =>
       \A a \in due : Scannable(a) /\ (Settled(a) \/ OnItsWay(a) \/ Waited(a))
  /\ active /\ ~cut /\ phase = "ended" => due \cap ports \subseteq probed

DueOK(a) == Scannable(a) /\ (Settled(a) \/ OnItsWay(a) \/ Waited(a))

\* What the other steps leave to an address: its stage, its place in the queue, and what its scan found.
Spared(a) ==
  /\ stage'[a] = stage[a]
  /\ row[a] = "queued" => row'[a] = "queued"
  /\ Scanned(a) => flight'[a] = {} /\ (a \in ports' => a \in ports)

Uninterrupted ==
  /\ Alive /\ UNCHANGED <<world, active, phase, cut, due>>
  /\ scope \subseteq scope' /\ marks \subseteq marks' /\ probed \subseteq probed'
  /\ \A a \in Addrs : Monitored(a, "Protocol-Probes")' => Monitored(a, "Protocol-Probes") \/ a \in probed'

LEMMA StaysScannable ==
  ASSUME NEW a, Scannable(a), Uninterrupted
  PROVE  Scannable(a)'
BY DEF Scannable, InScope, Routable, Uninterrupted

LEMMA SparedFrame ==
  ASSUME NEW a \in Addrs, DueOK(a), Uninterrupted, Spared(a), a \in missed => a \in missed'
  PROVE  DueOK(a)'
<1>1. Scannable(a)'
  BY StaysScannable DEF DueOK
<1>2. Scanned(a) => Scanned(a)'
  BY DEF Scanned, Spared, Uninterrupted, Monitored
<1>3. Settled(a) => Settled(a)'
  BY <1>2 DEF Settled, Spared, Uninterrupted, Scanned
<1>4. OnItsWay(a) => OnItsWay(a)'
  BY <1>2 DEF OnItsWay, Spared
<1>5. Waited(a) => Waited(a)'
  BY DEF Waited, Spared
<1> QED  BY <1>1, <1>3, <1>4, <1>5 DEF DueOK

\* A step of the pipelines keeps the invariant when it does so for every address by itself.
LEMMA SweepByAddress ==
  ASSUME SweepInv, Uninterrupted, UNCHANGED missed,
         \A a \in Addrs : active /\ DueOK(a) => Spared(a) \/ DueOK(a)'
  PROVE  SweepInv'
<1>1. \A a \in Addrs : active /\ DueOK(a) => DueOK(a)'
  BY SparedFrame
<1>2. phase # "ended"
  BY DEF Uninterrupted, Alive
<1>3. \A a \in due : active /\ ~cut /\ phase \in {"requeue", "drain"} => DueOK(a)'
  BY <1>1 DEF SweepInv, DueOK
<1>4. \A a \in Addrs : Monitored(a, "Protocol-Probes")' => a \in probed'
  BY DEF Uninterrupted, SweepInv
<1> QED  BY <1>2, <1>3, <1>4 DEF SweepInv, Uninterrupted, DueOK

LEMMA SweepOfName ==
  ASSUME PlaceInv, SweepInv, NEW n \in Names, NameStep(n)
  PROVE  SweepInv'
<1> n \in Assets /\ n \notin Addrs
  BY TypesAssumption DEF Assets
<1>0. ASSUME NEW s, To(n, s) PROVE \A a \in Addrs : stage'[a] = stage[a]
  BY <1>0 DEF To, PlaceInv, Assets
<1>1. ASSUME Uninterrupted, RowsQueued, UNCHANGED <<missed, ports, flight>>, \A a \in Addrs : stage'[a] = stage[a]
      PROVE  SweepInv'
  <2>1. \A a \in Addrs : Spared(a)
    BY <1>1 DEF Spared, RowsQueued, Scanned, Assets
  <2> QED  BY <1>1, <2>1, SweepByAddress
<1> USE DEF Uninterrupted, At, Alive, sessVars, endVars
<1>2. CASE Cname(n)
  <2>1. RowsQueued
    BY <1>2, QueueRows DEF Cname
  <2>2. marks \subseteq marks' /\ \A a \in Addrs : \A s : <<a, s>> \in marks' => <<a, s>> \in marks
    BY <1>2 DEF Cname
  <2> QED  BY <1>0, <1>1, <1>2, <2>1, <2>2 DEF Cname, Monitored
<1>3. CASE Ip(n)
  <2>1. RowsQueued
    BY <1>3, QueueRows DEF Ip
  <2>2. marks \subseteq marks' /\ \A a \in Addrs : \A s : <<a, s>> \in marks' => <<a, s>> \in marks
    BY <1>3 DEF Ip
  <2> QED  BY <1>0, <1>1, <1>3, <2>1, <2>2 DEF Ip, Monitored
<1>4. CASE Admit(n)
  <2>1. RowsQueued /\ scope \subseteq scope'
    BY <1>4, QueueRows DEF Admit
  <2> QED  BY <1>0, <1>1, <1>4, <2>1 DEF Admit, Monitored, dbVars
<1>5. CASE Subs(n)
  <2>1. RowsQueued
    BY <1>5, QueueRows DEF Subs
  <2> QED  BY <1>0, <1>1, <1>5, <2>1 DEF Subs, Monitored
<1>6. CASE Probe(n)
  <2>1. \A a \in Addrs : stage'[a] = stage[a]
    BY <1>0, <1>6 DEF Probe
  <2> QED  BY <1>1, <1>6, <2>1, SameRows DEF Probe, Monitored, dbVars
<1>7. CASE Probed(n)
  <2>2. marks \subseteq marks' /\ \A a \in Addrs : \A s : <<a, s>> \in marks' => <<a, s>> \in marks
    BY <1>7 DEF Probed
  <2> QED  BY <1>0, <1>1, <1>7, <2>2, SameRows DEF Probed, Monitored
<1>8. ASSUME NEW b \in Addrs, WalkNext(n, b) PROVE SweepInv'
  <2>1. Uninterrupted /\ UNCHANGED <<row, missed, ports>>
    BY <1>8 DEF WalkNext, dbVars, Monitored
  <2>2. \A a \in Addrs : stage'[a] = stage[a]
    BY <1>0, <1>8 DEF WalkNext, Walked
  <2>3. CASE NeedsScan(b)
    <3>1. ~Scanned(b)
      BY <2>3 DEF NeedsScan, Scanned
    <3>2. \A a \in Addrs : a # b => flight'[a] = flight[a]
      BY <1>8, <2>3 DEF WalkNext, Join, PlaceInv
    <3>3. \A a \in Addrs : Spared(a)
      BY <2>1, <2>2, <3>1, <3>2 DEF Spared, Scanned
    <3> QED  BY <2>1, <3>3, SweepByAddress
  <2>4. CASE ~NeedsScan(b)
    BY <1>1, <1>8, <2>1, <2>2, <2>4, SameRows DEF WalkNext
  <2> QED  BY <2>3, <2>4
<1> QED  BY <1>2, <1>3, <1>4, <1>5, <1>6, <1>7, <1>8 DEF NameStep

\* An address that has its scan behind it, or that is in scope and asks for none.
LEMMA PrefilterSettles ==
  ASSUME NEW a, Scannable(a), ~NeedsScan(a)
  PROVE  Scanned(a)
BY DEF NeedsScan, Scanned

LEMMA SweepOfFinish ==
  ASSUME PlaceInv, SweepInv, NEW b \in Addrs, FinishScan(b)
  PROVE  SweepInv'
<1>1. Uninterrupted /\ UNCHANGED <<row, missed>>
  BY DEF FinishScan, Uninterrupted, Marked, Monitored, Alive, sessVars, endVars
<1>2. ASSUME NEW a \in Addrs, a # b PROVE Spared(a)
  <2>1. a \notin flight[b]
    BY <1>2, TypesAssumption DEF PlaceInv
  <2>2. stage'[a] = stage[a]
    BY <2>1 DEF FinishScan, Assets
  <2>3. flight'[a] = flight[a] /\ (a \in ports' => a \in ports)
    BY <1>2 DEF FinishScan, PlaceInv
  <2> QED  BY <1>1, <2>2, <2>3 DEF Spared, Scanned
<1>3. ASSUME DueOK(b) PROVE DueOK(b)'
  <2>1. Scannable(b)'
    BY <1>1, <1>3, StaysScannable DEF DueOK
  <2>2. ~Scanned(b) /\ Scanned(b)'
    BY DEF Scanned, FinishScan, Marked, Monitored, PlaceInv
  <2>3. b \in flight[b] => stage[b] = "prefilter" /\ stage'[b] = "http"
    BY TypesAssumption DEF PlaceInv, FinishScan, Assets
  <2>4. b \notin flight[b] => stage'[b] = stage[b]
    BY DEF FinishScan, Assets
  <2>5. Settled(b) => Settled(b)'
    BY <1>1, <2>2 DEF Settled, Uninterrupted
  <2>6. OnItsWay(b) => OnItsWay(b)'
    BY <2>2, <2>3, <2>4 DEF OnItsWay
  <2>7. Waited(b) => Waited(b)'
    BY <1>1, <2>3, <2>4 DEF Waited
  <2> QED  BY <1>3, <2>1, <2>5, <2>6, <2>7 DEF DueOK
<1> QED  BY <1>1, <1>2, <1>3, SweepByAddress

\* The event of an address goes on.
LEMMA SweepMoves ==
  ASSUME PlaceInv, SweepInv, NEW x \in Addrs, NEW s, To(x, s), Uninterrupted, RowsQueued,
         UNCHANGED <<missed, ports, flight>>, active /\ DueOK(x) => DueOK(x)'
  PROVE  SweepInv'
<1>1. \A a \in Addrs : a # x => Spared(a)
  BY DEF Spared, To, PlaceInv, RowsQueued, Scanned, Assets
<1> QED  BY <1>1, SweepByAddress

LEMMA SweepOfAddr ==
  ASSUME PlaceInv, SweepInv, NEW a \in Addrs, AddrStep(a)
  PROVE  SweepInv'
<1> a \in Assets /\ a \notin Names
  BY TypesAssumption DEF Assets
<1> USE DEF Uninterrupted, At, Alive, sessVars, endVars
<1>1. CASE Bgptools(a)
  <2>1. RowsQueued /\ Uninterrupted
    BY <1>1, QueueRows, SameRows DEF Bgptools, StoreBlock, Monitored
  <2>2. DueOK(a) => DueOK(a)'
    BY <1>1, <2>1, StaysScannable DEF Bgptools, DueOK, OnItsWay, To, PlaceInv
  <2> QED  BY <1>1, <2>1, <2>2, SweepMoves DEF Bgptools
<1>2. CASE Netblock(a)
  <2>1. RowsQueued /\ Uninterrupted
    BY <1>2, QueueRows, SameRows DEF Netblock, StoreBlock, Monitored
  <2>2. DueOK(a) => DueOK(a)'
    BY <1>2, <2>1, StaysScannable DEF Netblock, DueOK, OnItsWay, To, PlaceInv
  <2> QED  BY <1>2, <2>1, <2>2, SweepMoves DEF Netblock
<1>3. CASE Reverse(a) \/ Sweep(a)
  <2>1. RowsQueued /\ Uninterrupted
    BY <1>3, QueueRows DEF Reverse, Sweep, Monitored, dbVars
  <2>2. DueOK(a) => DueOK(a)'
    BY <1>3, <2>1, StaysScannable DEF Reverse, Sweep, DueOK, OnItsWay, To, PlaceInv
  <2> QED  BY <1>3, <2>1, <2>2, SweepMoves DEF Reverse, Sweep, dbVars
<1>4. CASE Prefilter(a)
  <2>1. RowsQueued /\ Uninterrupted /\ UNCHANGED <<row, missed, ports, marks>>
    BY <1>4, SameRows DEF Prefilter, Monitored, dbVars
  <2>2. CASE active /\ NeedsScan(a)
    <3>1. UNCHANGED stage /\ \A b \in Addrs : b # a => flight'[b] = flight[b]
      BY <1>4, <2>2 DEF Prefilter, Join, PlaceInv
    <3>2. ~Scanned(a)
      BY <2>2 DEF NeedsScan, Scanned
    <3>3. \A b \in Addrs : Spared(b)
      BY <2>1, <3>1, <3>2 DEF Spared, Scanned
    <3> QED  BY <2>1, <3>3, SweepByAddress
  <2>3. CASE ~(active /\ NeedsScan(a))
    <3>1. UNCHANGED flight /\ \E s : To(a, s)
      BY <1>4, <2>3 DEF Prefilter
    <3>2. ASSUME active, DueOK(a) PROVE DueOK(a)'
      <4>1. Scanned(a) /\ Scannable(a)
        BY <2>3, <3>2, PrefilterSettles DEF DueOK
      <4>2. stage'[a] = "http" /\ Scanned(a)'
        BY <1>4, <2>1, <2>3, <3>1, <3>2, <4>1 DEF Prefilter, To, PlaceInv, Scanned, Monitored
      <4> QED  BY <2>1, <4>1, <4>2, StaysScannable DEF DueOK, OnItsWay
    <3> QED  BY <2>1, <3>1, <3>2, SweepMoves
  <2> QED  BY <2>2, <2>3
<1>5. CASE FinishScan(a)
  BY <1>5, SweepOfFinish
<1>6. CASE HTTP(a)
  <2>1. Uninterrupted
    BY <1>6 DEF HTTP, Monitored
  <2>2. stage[a] = "http" /\ stage'[a] = "protocols" /\ UNCHANGED <<flight, ports, probed, missed>>
    BY <1>6 DEF HTTP, To, PlaceInv
  <2>3. DueOK(a) => DueOK(a)'
    BY <2>1, <2>2, StaysScannable DEF DueOK, OnItsWay, Settled, Waited, Scanned, Monitored
  <2> QED  BY <1>6, <2>1, <2>2, <2>3, SameRows, SweepMoves DEF HTTP
<1>7. CASE Protocols(a)
  <2>1. Uninterrupted
    BY <1>7 DEF Protocols, ProbeProtocols, Monitored
  <2>2. stage[a] = "protocols" /\ UNCHANGED <<flight, ports, missed>>
    BY <1>7 DEF Protocols, To, PlaceInv
  <2>3. ASSUME DueOK(a) PROVE DueOK(a)'
    <3>1. Scannable(a) /\ (a \in probed \/ Scanned(a))
      BY <2>2, <2>3 DEF DueOK, Settled, OnItsWay, Waited
    <3>2. a \in ports => a \in probed'
      BY <1>7, <3>1 DEF Protocols, ProbeProtocols, HasPorts, SweepInv
    <3>3. Scanned(a) => Scanned(a)'
      BY <2>1, <2>2 DEF Scanned, Monitored
    <3> QED  BY <2>1, <2>2, <3>1, <3>2, <3>3, StaysScannable DEF DueOK, Settled
  <2> QED  BY <1>7, <2>1, <2>2, <2>3, SameRows, SweepMoves DEF Protocols
<1>8. CASE Fill(a) \/ Filled(a)
  <2>1. RowsQueued /\ Uninterrupted /\ UNCHANGED <<stage, flight, ports, missed>>
    BY <1>8, QueueRows, SameRows DEF Fill, Filled, Monitored, pipeVars, dbVars
  <2>2. \A b \in Addrs : Spared(b)
    BY <2>1 DEF Spared, RowsQueued, Scanned, Assets
  <2> QED  BY <2>1, <2>2, SweepByAddress
<1>9. CASE Requeue(a)
  <2>1. /\ RowsQueued /\ Uninterrupted /\ UNCHANGED <<stage, flight, ports, probed, marks>>
        /\ phase = "requeue" /\ missed' = missed \ {a} /\ row'[a] = "queued"
    BY <1>9, QueueRows DEF Requeue, EndUnchanged, Monitored, dbVars, Resubmit, Queue
  <2>2. \A b \in Addrs : Spared(b)
    BY <2>1 DEF Spared, RowsQueued, Scanned, Assets
  <2>3. ASSUME NEW b \in Addrs, DueOK(b) PROVE DueOK(b)'
    <3>1. CASE b # a
      BY <2>1, <2>2, <2>3, <3>1, SparedFrame
    <3>2. CASE b = a
      BY <2>1, <2>3, <3>2, StaysScannable DEF DueOK, Settled, OnItsWay, Waited, Scanned, Monitored
    <3> QED  BY <3>1, <3>2
  <2> QED  BY <2>1, <2>3 DEF SweepInv, DueOK
<1> QED  BY <1>1, <1>2, <1>3, <1>4, <1>5, <1>6, <1>7, <1>8, <1>9 DEF AddrStep

LEMMA SweepOfRow ==
  ASSUME PlaceInv, SweepInv, NEW x \in Assets, Claim(x) \/ Complete(x)
  PROVE  SweepInv'
<1>1. Uninterrupted /\ UNCHANGED <<missed, ports, flight, marks, probed>>
  BY DEF Claim, Complete, Uninterrupted, At, Alive, Monitored, sessVars, dbVars, endVars
<1> SUFFICES ASSUME NEW a \in Addrs, DueOK(a) PROVE Spared(a) \/ DueOK(a)'
  BY <1>1, SweepByAddress
<1> a \in Assets /\ a \notin Names
  BY TypesAssumption DEF Assets
<1>2. CASE x # a
  BY <1>1, <1>2 DEF Claim, Complete, To, PlaceInv, Spared, Scanned
<1>3. CASE x = a /\ Claim(x)
  <2>1. stage'[a] = "bgptools"
    BY <1>3 DEF Claim, To, PlaceInv, First
  <2> QED  BY <1>1, <2>1, StaysScannable DEF DueOK, OnItsWay
<1>4. CASE x = a /\ Complete(x)
  <2>1. stage[a] = "end"
    BY <1>4 DEF Complete, At
  <2> QED  BY <1>1, <2>1, StaysScannable DEF DueOK, OnItsWay, Waited, Settled, Scanned, Monitored
<1> QED  BY <1>2, <1>3, <1>4

\* The sweep lists what is due while all rows are done, and the session ends when the addresses are idle.
LEMMA SweepOfEnd ==
  ASSUME PlaceInv, SweepInv, EndStep
  PROVE  SweepInv'
<1> USE DEF sessVars, dbVars, Monitored
<1>1. CASE NextSession
  <2>1. phase' = "running" /\ due' = {}
    BY <1>1 DEF NextSession
  <2>2. \A a \in Addrs : Monitored(a, "Protocol-Probes")' => a \in probed'
    BY <1>1 DEF NextSession, SweepInv
  <2> QED  BY <2>1, <2>2 DEF SweepInv
<1>2. CASE EndRequested
  BY <1>2 DEF EndRequested, EndUnchanged, SweepInv
<1>3. CASE FinishFills
  BY <1>3 DEF FinishFills, EndUnchanged, SweepInv
<1>4. CASE Kill
  BY <1>4 DEF Kill, EndUnchanged, SweepInv
<1>5. CASE WaitEnds("drainfill", "idle")
  BY <1>5 DEF WaitEnds, EndUnchanged, SweepInv
<1>6. CASE ListMissed
  <2>1. UNCHANGED <<world, scope, ports, probed, marks, flight, row, stage, active>> /\ phase' = "requeue"
    BY <1>6 DEF ListMissed, EndUnchanged
  <2>2. due' \subseteq Addrs
    BY <1>6 DEF ListMissed
  <2>3. ASSUME NEW a \in due' PROVE DueOK(a)'
    <3>1. /\ a \in ports /\ Scannable(a) /\ row[a] = "done" /\ HasInScopeFQDN(a)
          /\ missed' = Missed
      BY <1>6 DEF ListMissed
    <3>2. stage[a] = "idle"
      BY <2>2, <3>1 DEF PlaceInv, Assets
    <3>3. Scannable(a)'
      BY <2>1, <3>1 DEF Scannable, InScope, Routable
    <3>4. CASE Monitored(a, "Protocol-Probes")
      BY <2>1, <2>2, <3>3, <3>4 DEF SweepInv, DueOK, Settled
    <3>5. CASE ~Monitored(a, "Protocol-Probes")
      BY <2>1, <2>2, <3>1, <3>2, <3>3, <3>5 DEF DueOK, Waited, Missed
    <3> QED  BY <3>4, <3>5
  <2> QED  BY <2>1, <2>2, <2>3 DEF SweepInv, DueOK
<1>7. CASE Requeued
  <2>1. UNCHANGED <<world, scope, ports, probed, marks, flight, row, stage, active, missed, due, cut>>
        /\ phase = "requeue" /\ phase' = "drain" /\ missed = {}
    BY <1>7 DEF Requeued, EndUnchanged
  <2>2. \A a \in Addrs : DueOK(a) => DueOK(a)'
    BY <2>1 DEF DueOK, Scannable, InScope, Routable, Settled, OnItsWay, Waited, Scanned
  <2> QED  BY <2>1, <2>2 DEF SweepInv, DueOK
<1>8. CASE WaitEnds("drain", "ended")
  <2>1. UNCHANGED <<ports, probed, marks, active, missed, due>> /\ phase = "drain" /\ phase' = "ended"
        /\ cut' = (cut \/ ~IPIdle)
    BY <1>8 DEF WaitEnds, EndUnchanged
  <2>2. ASSUME active, ~cut', NEW a \in due, a \in ports PROVE a \in probed
    <3>1. DueOK(a) /\ a \in Addrs /\ missed = {}
      BY <2>1, <2>2 DEF SweepInv, DueOK
    <3>2. row[a] \notin {"queued", "leased"} /\ stage[a] = "idle"
      BY <2>1, <2>2, <3>1 DEF IPIdle, PlaceInv, Assets
    <3> QED  BY <2>2, <3>1, <3>2 DEF DueOK, Settled, OnItsWay, Waited
  <2> QED  BY <2>1, <2>2 DEF SweepInv
<1> QED  BY <1>1, <1>2, <1>3, <1>4, <1>5, <1>6, <1>7, <1>8 DEF EndStep

LEMMA SweepStep == PlaceInv /\ SweepInv /\ [Next]_vars => SweepInv'
<1> SUFFICES ASSUME PlaceInv, SweepInv, [Next]_vars PROVE SweepInv'
  OBVIOUS
<1> USE DEF Uninterrupted, At, Alive, sessVars, endVars
<1>0. ASSUME Uninterrupted, RowsQueued, UNCHANGED <<missed, ports, flight>>, \A a \in Addrs : stage'[a] = stage[a]
      PROVE  SweepInv'
  <2>1. \A a \in Addrs : Spared(a)
    BY <1>0 DEF Spared, RowsQueued, Scanned, Assets
  <2> QED  BY <1>0, <2>1, SweepByAddress
<1>1. CASE Rdap
  <2>1. RowsQueued
    BY <1>1, QueueRows, SameRows DEF Rdap
  <2>2. \A a \in Addrs : stage'[a] = stage[a]
    BY <1>1, TypesAssumption DEF Rdap, To, PlaceInv, Assets
  <2>3. marks \subseteq marks' /\ \A a \in Addrs : \A s : <<a, s>> \in marks' => <<a, s>> \in marks
    BY <1>1, TypesAssumption DEF Rdap
  <2> QED  BY <1>0, <1>1, <2>1, <2>2, <2>3 DEF Rdap, Monitored
<1>2. CASE Contacts
  <2>1. \A a \in Addrs : stage'[a] = stage[a]
    BY <1>2, TypesAssumption DEF Contacts, To, PlaceInv, Assets
  <2>2. scope \subseteq scope'
    BY <1>2 DEF Contacts
  <2> QED  BY <1>0, <1>2, <2>1, <2>2, SameRows DEF Contacts, Monitored
<1>3. ASSUME NEW kin, Horizontals(kin) PROVE SweepInv'
  <2>1. RowsQueued
    BY <1>3, QueueRows DEF Horizontals
  <2> QED  BY <1>0, <1>3, <2>1 DEF Horizontals, Monitored, dbVars
<1>4. CASE UNCHANGED vars
  BY <1>4 DEF vars, dbVars, pipeVars, SweepInv, DueOK, Scannable, InScope, Routable, Settled, OnItsWay,
              Waited, Scanned, Monitored
<1> QED  BY <1>1, <1>2, <1>3, <1>4, SweepOfRow, SweepOfName, SweepOfAddr, SweepOfEnd DEF Next

\* A session that is not cut short leaves no open port of a due address unprobed, although the sweep
\* queues the addresses while others still come in, and an ack takes rows that were queued again
\* (SweepMissedIPs, plugins/support, and the waits of the session's end).
THEOREM NoneMissed == Spec => []NoMissedIP
<1>1. Init => PlaceInv /\ SweepInv
  BY DEF Init, PlaceInv, SweepInv, StartRow, Monitored
<1>2. SweepInv => NoMissedIP
  BY DEF SweepInv, NoMissedIP
<1> QED  BY <1>1, <1>2, PlaceStep, SweepStep, PTL DEF Spec
==============================================================================
