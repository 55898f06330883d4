--------------------------- MODULE SourceLookups ---------------------------
(***************************************************************************)
(* Sessions that ask one of the DataSources about their assets.            *)
(*                                                                         *)
(* Every session has one event for each asset; a job runs the handlers the *)
(* event meets: Known-FQDN first, which submits the names the database has *)
(* under the asset and records that it is a domain of the scope, then the  *)
(* handler of the source.  The jobs of the assets run at the same time (a  *)
(* handler has up to 16 instances).  A session can be cancelled at any     *)
(* moment, and from then on its requests and its database calls fail; a    *)
(* database call may fail in a live session, too.  The asset database      *)
(* outlives the sessions, and so does what the plugins remember.           *)
(***************************************************************************)
EXTENDS DataSources, Naturals, Sequences, FiniteSets

CONSTANTS
  Item,          \* names and records of the world
  Scope,         \* those in the session's scope
  Asset,         \* the assets asked about
  Eligible,      \* the domains of the scope (or addresses on an owned netblock)
  Contents,      \* what the source holds about an asset: a sequence of pages
  BlockOf,       \* the block an asset lies in
  MaxKeys,       \* bound: keys configured
  TTL,           \* how long an asset counts as monitored
  MaxTime,       \* bound: the last instant
  MaxSessions,   \* bound: sessions, one after the other
  MaxFaults      \* bound: failures of the database

ASSUME LookupAssumption ==
  /\ Scope \subseteq Item /\ Eligible \subseteq Asset
  /\ Contents \in [Asset -> Seq(SUBSET Item)]
  /\ \A a \in Asset : Contents[a] # <<>>
  /\ {MaxKeys, TTL, MaxTime, MaxSessions, MaxFaults} \subseteq Nat /\ MaxSessions # 0

VARIABLES
  source,     \* the plugin
  creds,      \* entries in its credentials list, ds.Creds
  keys,       \* those with a key in them
  now,        \* the time
  session,    \* how many sessions there have been
  live,       \* the session has not been cancelled
  job,        \* asset -> where its event is
  stored,     \* item -> when this source last stored it, or Never
  marked,     \* asset -> when it was last marked monitored by this source
  submitted,  \* items dispatched in this session
  listed,     \* the requests to make are known (endpoints)
  claimed,    \* blocks asked about in this process (rdnsDone)
  faults,     \* how many database calls have failed
  owed        \* ghost: the items a mark stands for

vars == <<source, creds, keys, now, session, live, job, stored, marked, submitted,
          listed, claimed, faults, owed>>
world == <<source, creds, keys>>
database == <<stored, marked, faults, owed>>
memory == <<listed, claimed>>

Never == MaxTime + 1

\* Pages are counted from 1, steps after the query from 1, and got holds the
\* items collected; missed says that a request was not answered, denied that
\* one protocol answered that there is nothing, lost that the items could not
\* be stored.  Where the source was not asked because the asset was marked,
\* relies holds the items the mark stands for (ghost).
Job == [pc : {"known", "check", "list", "ask", "after", "done"},
        key : 1..(MaxKeys + 2), page : Nat, step : 1..4,
        got : SUBSET Item, missed : BOOLEAN, denied : BOOLEAN, lost : BOOLEAN,
        relies : SUBSET Item]

NewJob == [pc |-> IF source.cached = "known" /\ ~source.block THEN "known" ELSE "check",
           key |-> 1, page |-> 1,
           step |-> 1, got |-> {}, missed |-> FALSE, denied |-> FALSE,
           lost |-> FALSE, relies |-> {}]

\* A job that is over; one that left the source out relies on the mark.
Over(relies) == [NewJob EXCEPT !.pc = "done", !.relies = relies]

TypeOK ==
  /\ source \in Sources \union Unloaded
  /\ creds \in 0..MaxKeys /\ keys \in 0..creds
  /\ now \in 0..MaxTime /\ session \in 1..MaxSessions /\ live \in BOOLEAN
  /\ job \in [Asset -> Job]
  /\ \A a \in Asset : job[a].page \in 1..Len(Contents[a]) /\ job[a].key <= keys + 2
  /\ stored \in [Item -> 0..Never] /\ submitted \subseteq Item /\ faults \in 0..MaxFaults
  /\ marked \in [Asset -> 0..Never] /\ owed \in [Asset -> SUBSET Item]
  /\ listed \in BOOLEAN /\ claimed \subseteq {BlockOf[a] : a \in Asset}

Init ==
  /\ source \in Sources \union Unloaded
  /\ creds \in 0..MaxKeys /\ keys \in 0..creds
  /\ source.creds \in {"none", "protocols"} => creds = 0
  /\ now = 0 /\ session = 1 /\ live = TRUE
  /\ job = [a \in Asset |-> NewJob]
  /\ stored = [n \in Item |-> Never] /\ submitted = {} /\ faults = 0
  /\ listed = FALSE /\ claimed = {}
  /\ marked = [a \in Asset |-> Never] /\ owed = [a \in Asset |-> {}]

-----------------------------------------------------------------------------
\* The handlers.

Holds(a) == UNION {Contents[a][i] : i \in DOMAIN Contents[a]}

\* knownFQDN.check: the names found so far go through the pipelines again.
KnownFQDN(a) ==
  /\ job[a].pc = "known"
  /\ job' = [job EXCEPT ![a].pc = "check"]
  /\ submitted' = IF live /\ a \in Eligible
                  THEN submitted \union {n \in Holds(a) \intersect Scope : stored[n] # Never}
                  ELSE submitted
  /\ UNCHANGED <<world, now, session, live, database, memory>>

\* TTLStartTime: what happened at t is not older than the TTL.
WithinTTL(t) == t # Never /\ t + TTL >= now

AssetMonitoredWithinTTL(a) == live /\ WithinTTL(marked[a])

\* Nothing to ask: the name is no domain of the scope, or no key is configured.
Declines(a) ==
  \/ a \notin Eligible
  \/ source.creds = "listed" /\ creds = 0
  \/ source.creds = "required" /\ keys = 0

\* How often the query may turn to another key, or protocol.
Tries == CASE source.creds \in {"listed", "required"} -> keys
           [] source.creds = "protocols" -> 2
           [] source.public -> keys + 1
           [] OTHER -> 1

\* The lookup methods: what the source stored about the asset within the TTL,
\* reached through a relation as old as the database where there is a link.
Cached(a) ==
  IF source.cached = "edge" /\ (source.link => WithinTTL(0))
  THEN {n \in Holds(a) : WithinTTL(stored[n])} ELSE {}

\* What a session relies on when it leaves the source out.  What is found by way
\* of a record can only be expected while the relation to the record is current.
Relies(a) ==
  IF source.cached # "edge" THEN owed[a]
  ELSE {n \in owed[a] : /\ WithinTTL(stored[n]) \/ stored[n] = Never
                        /\ source.link => WithinTTL(0)}

\* What a mark stands for: what the source answered, and all it holds when it
\* did not answer.  The mark of a source that marks whatever happened stands for
\* what it did answer, and what the failed requests would have brought is not
\* asked for again.  Only names in scope can come back through Known-FQDN.
StandsFor(a, missed, got) ==
  (IF source.cached = "edge" THEN Item ELSE Scope) \intersect
    (IF missed /\ source.marks # "always" THEN Holds(a) ELSE got)

\* MarkAssetMonitored
Mark(a, missed, got) ==
  /\ marked' = IF live THEN [marked EXCEPT ![a] = now] ELSE marked
  /\ owed' = IF live THEN [owed EXCEPT ![a] = StandsFor(a, missed, got)] ELSE owed

\* The block of the address has been asked about in the life of the process.
BlockAsked(a) == source.block /\ BlockOf[a] \in claimed

\* check, up to the query, or to the end where the asset is marked.
Check(a) ==
  /\ job[a].pc = "check"
  /\ \/ /\ Declines(a)
        /\ job' = [job EXCEPT ![a] = Over({})]
        /\ UNCHANGED <<marked, owed, claimed, submitted>>
     \/ /\ ~Declines(a) /\ AssetMonitoredWithinTTL(a)
        /\ job' = [job EXCEPT ![a] = Over(Relies(a))]
        /\ submitted' = submitted \union Cached(a)
        /\ UNCHANGED <<marked, owed, claimed>>
     \/ /\ ~Declines(a) /\ ~AssetMonitoredWithinTTL(a)
        /\ BlockAsked(a)
        /\ Mark(a, TRUE, {})
        /\ job' = [job EXCEPT ![a] = Over({})]
        /\ UNCHANGED <<claimed, submitted>>
     \/ /\ ~Declines(a) /\ ~AssetMonitoredWithinTTL(a)
        /\ ~BlockAsked(a)
        /\ LET idle == source.onFail = "never" \/ Tries = 0
           IN job' = [job EXCEPT ![a].pc = IF source.list /\ ~listed THEN "list"
                                           ELSE IF idle THEN "after" ELSE "ask",
                                 ![a].missed = idle]
        /\ claimed' = IF source.block THEN claimed \union {BlockOf[a]} ELSE claimed
        /\ UNCHANGED <<marked, owed, submitted>>
  /\ UNCHANGED <<world, now, session, live, stored, faults, listed>>

\* commonCrawl.endpointList: one job at a time holds the lock; without a list
\* there is nothing to ask.
List(a, r) ==
  /\ job[a].pc = "list"
  /\ r # "answer" \/ live
  /\ listed' = (listed \/ r = "answer")
  /\ job' = [job EXCEPT ![a].pc = IF listed' THEN "ask" ELSE "after",
                        ![a].missed = ~listed']
  /\ UNCHANGED <<world, now, session, live, submitted, claimed, database>>

\* What the query takes for a failed request; the public page always decodes.
Fails(a, r) ==
  \/ r = "skipped"
  \/ /\ r \in source.failures
     /\ ~(source.public /\ job[a].key = Tries /\ r = "garbled")

LastPage(a) == ~source.paged \/ job[a].page = Len(Contents[a])

\* One request of the query comes back, or is given up.
Ask(a, r) ==
  /\ job[a].pc = "ask"
  /\ live \/ r \in {"error", "skipped"}
  /\ r = "skipped" => source.skips
  /\ LET j == job[a]
         page == IF r # "answer" THEN {}
                 ELSE IF source.paged THEN Contents[a][j.page] ELSE Holds(a)
         kept == IF source.scoped THEN page \intersect Scope ELSE page
         more == /\ ~LastPage(a)
                 /\ \/ r = "answer" \/ source.onFail = "onward"
                    \/ source.onFail = "skipPage" /\ Fails(a, r) /\ j.page > 1
         denied == source.creds = "protocols" /\ (j.denied \/ r = "notice")
         again == /\ source.onFail = "nextKey" /\ j.key < Tries
                  /\ (Fails(a, r) /\ r \notin source.final) \/ (denied /\ r = "notice")
     IN job' = [job EXCEPT
          ![a].pc = IF again \/ more THEN "ask" ELSE "after",
          ![a].key = IF again THEN @ + 1 ELSE @,
          ![a].page = IF more THEN @ + 1 ELSE @,
          ![a].got = @ \union kept,
          ![a].denied = denied,
          ![a].missed = @ \/ (Fails(a, r) /\ ~again /\ ~denied)]
  /\ UNCHANGED <<world, now, session, live, submitted, memory, database>>

\* The next of the steps that follow the query.  The store methods return what
\* they could create, and only that is processed.
Step(a, s) == job[a].pc = "after" /\ source.steps[job[a].step] = s

Proceed(a, lost) ==
  LET j == job[a]
  IN job' = [job EXCEPT ![a] =
       IF j.step = Len(source.steps) THEN Over({})
       ELSE [j EXCEPT !.step = j.step + 1, !.lost = j.lost \/ lost,
                      !.missed = j.missed \/ (lost /\ source.marks = "stored")]]

Store(a) ==
  /\ Step(a, "store")
  /\ \E fails \in BOOLEAN :
       /\ fails => live /\ faults < MaxFaults /\ job[a].got # {}
       /\ faults' = IF fails THEN faults + 1 ELSE faults
       /\ LET done == live /\ ~fails
          IN /\ stored' = [n \in Item |->
                           IF ~done \/ n \notin job[a].got THEN stored[n]
                           ELSE IF source.cached = "edge" THEN now ELSE 0]
             /\ Proceed(a, ~done)
  /\ UNCHANGED <<world, now, session, live, marked, owed, submitted, memory>>

\* Whether the plugin marks the asset.
MarksAnyway(a) == TRUE
Marks(a) == source.marks = "always" \/ ~job[a].missed

\* An address that was not answered leaves its block to the next one.
MarkStep(a) ==
  /\ Step(a, "mark")
  /\ IF Marks(a)
     THEN Mark(a, job[a].missed, job[a].got) /\ UNCHANGED claimed
     ELSE /\ claimed' = IF source.block THEN claimed \ {BlockOf[a]} ELSE claimed
          /\ UNCHANGED <<marked, owed>>
  /\ Proceed(a, FALSE)
  /\ UNCHANGED <<world, now, session, live, stored, faults, submitted, listed>>

Process(a) ==
  /\ Step(a, "process")
  /\ submitted' = IF live /\ ~job[a].lost THEN submitted \union job[a].got ELSE submitted
  /\ Proceed(a, FALSE)
  /\ UNCHANGED <<world, now, session, live, database, memory>>

\* The session's context is cancelled.
EndSession ==
  /\ live /\ live' = FALSE
  /\ UNCHANGED <<world, now, session, job, submitted, database, memory>>

\* The next session over the same database.
NewSession ==
  /\ session < MaxSessions
  /\ \A a \in Asset : job[a].pc = "done"
  /\ session' = session + 1 /\ live' = TRUE
  /\ job' = [a \in Asset |-> NewJob]
  /\ submitted' = {}
  /\ UNCHANGED <<world, now, database, memory>>

\* Time passes.
Tick ==
  /\ now < MaxTime /\ now' = now + 1
  /\ UNCHANGED <<world, session, live, job, submitted, database, memory>>

JobStep(a) ==
  \/ KnownFQDN(a)
  \/ Check(a)
  \/ \E r \in {"answer", "error"} : List(a, r)
  \/ \E r \in Replies \union {"skipped"} : Ask(a, r)
  \/ Store(a)
  \/ MarkStep(a)
  \/ Process(a)

Next == (\E a \in Asset : JobStep(a)) \/ EndSession \/ NewSession \/ Tick

Spec == Init /\ [][Next]_vars

-----------------------------------------------------------------------------
\* The sources whose answer a later session is meant to get from the database.
\* Grep.App's e-mail addresses are not submitted a second time, the record of an
\* autonomous system is never found again (AssetReads), and IP-THC marks an address
\* before it has stored the names, and the others of its block without asking.
Promised ==
  {s \in Sources \union Unloaded : s.cached \in {"known", "edge"} /\ ~s.block}

\* "A data source plugin marks an asset monitored only when its lookup completed"
\* (plugins/support/lookup.go:16-22).  A session that does not ask a source
\* because the asset is marked misses nothing the mark stands for: all of it has
\* been submitted in this session, by Known-FQDN or by the plugin itself, unless
\* it has outlived the TTL.  So no mark is left before its items are in the
\* database, however the lookups of the assets interleave and wherever a session
\* is cancelled, and none is left by a lookup that failed, but those of the
\* sources that mark whatever happened (StandsFor), which break the comment's
\* promise.  A failure of the database excuses only the sources that do not look
\* at it.
SkippedIsCovered ==
  source \in Promised /\ (faults = 0 \/ source.marks = "stored") =>
    \A a \in Asset : job[a].relies \subseteq submitted

=============================================================================
