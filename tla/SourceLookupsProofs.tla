------------------------ MODULE SourceLookupsProofs ------------------------
(***************************************************************************)
(* Theorems about the sessions that ask a source, for any assets, answers, *)
(* keys, blocks, TTL, and any number of sessions and failures.             *)
(*                                                                         *)
(* What a mark stands for must come back in every session that relies on   *)
(* it, so the invariant follows an item through the database: a job that   *)
(* is past its store and knows of no failure has stored what it got, what  *)
(* a mark stands for is stored, and a session has submitted it before it   *)
(* looks at the mark.                                                      *)
(***************************************************************************)
EXTENDS SourceLookups, TLAPS

------------------------------------------------------------------------------
(* The table of sources.                                                   *)

\* The orders of the steps that store before they mark.
StoresFirst == {QueryThenMark, URLScanSteps}
StepOrders == StoresFirst \union {<<"mark", "store", "process">>}

LEMMA Steps ==
  ASSUME NEW s \in Sources \union Unloaded
  PROVE  s.steps \in StepOrders /\ (s.block \/ s.steps \in StoresFirst)
<1> USE DEF OneRequest, EachKey, StepOrders, StoresFirst
<1>1. /\ AlienVault.steps = QueryThenMark /\ BinaryEdge.steps = QueryThenMark
      /\ CertSpotter.steps = QueryThenMark /\ Chaos.steps = QueryThenMark
  BY DEF AlienVault, BinaryEdge, CertSpotter, Chaos
<1>2. /\ CommonCrawl.steps = QueryThenMark /\ Crtsh.steps = QueryThenMark
      /\ DNSDumpster.steps = QueryThenMark /\ DNSRepo.steps = QueryThenMark
  BY DEF CommonCrawl, Crtsh, DNSDumpster, DNSRepo
<1>3. /\ GrepApp.steps = QueryThenMark /\ HackerTarget.steps = QueryThenMark
      /\ IPTHC.steps = QueryThenMark /\ IPTHCAddress.steps = <<"mark", "store", "process">>
      /\ IPTHCAddress.block
  BY DEF GrepApp, HackerTarget, IPTHC, IPTHCAddress
<1>4. /\ LeakIX.steps = QueryThenMark /\ SecurityTrails.steps = QueryThenMark
      /\ SubdomainCenter.steps = QueryThenMark /\ URLScan.steps = URLScanSteps
  BY DEF LeakIX, SecurityTrails, SubdomainCenter, URLScan
<1>5. /\ VirusTotal.steps = QueryThenMark /\ Zetalytics.steps = QueryThenMark
      /\ DNSHistory.steps = QueryThenMark /\ SiteDossier.steps = QueryThenMark
      /\ RapidDNS.steps = QueryThenMark
  BY DEF VirusTotal, Zetalytics, DNSHistory, SiteDossier, RapidDNS
<1>6. /\ RDAPAutsys.steps = QueryThenMark /\ RDAPNetblock.steps = QueryThenMark
      /\ WHOISDomain.steps = QueryThenMark /\ AviatoSearch.steps = QueryThenMark
      /\ AviatoEnrich.steps = QueryThenMark
  BY DEF Record, RDAPAutsys, RDAPNetblock, WHOISDomain, AviatoSearch, AviatoEnrich
<1>7. /\ AviatoEmployees.steps = QueryThenMark /\ AviatoRounds.steps = QueryThenMark
      /\ GLEIFFuzzy.steps = QueryThenMark /\ GLEIFRelated.steps = QueryThenMark
  BY DEF Record, AviatoEmployees, AviatoRounds, GLEIFFuzzy, GLEIFRelated
<1>8. /\ Bing.steps = QueryThenMark /\ DuckDuckGo.steps = QueryThenMark
      /\ Wayback.steps = QueryThenMark /\ PassiveTotal.steps = QueryThenMark
  BY DEF Bing, DuckDuckGo, Wayback, PassiveTotal
<1> QED BY <1>1, <1>2, <1>3, <1>4, <1>5, <1>6, <1>7, <1>8 DEF Sources, Unloaded

\* A source of the promise stores before it marks, and a session gets what is
\* stored back by one of two ways.
Keeps(s) == ~s.block /\ s.steps \in StoresFirst /\ s.cached \in {"known", "edge"}

LEMMA Promises ==
  ASSUME NEW s \in Promised
  PROVE  Keeps(s)
BY Steps DEF Promised, Keeps

------------------------------------------------------------------------------
(* Types.                                                                  *)

LEMMA Bounds ==
  /\ MaxKeys \in Nat /\ TTL \in Nat /\ MaxTime \in Nat /\ MaxSessions \in Nat \ {0} /\ MaxFaults \in Nat
  /\ Never \in Nat /\ 0 # Never /\ \A t \in 0 .. MaxTime : t # Never /\ t \in 0 .. Never
  /\ Scope \subseteq Item /\ Eligible \subseteq Asset
BY LookupAssumption DEF Never

LEMMA ContentsType ==
  ASSUME NEW a \in Asset
  PROVE  /\ Contents[a] \in Seq(SUBSET Item) /\ Len(Contents[a]) \in Nat /\ Len(Contents[a]) >= 1
         /\ \A i \in 1 .. Len(Contents[a]) : Contents[a][i] \subseteq Holds(a)
         /\ Holds(a) \subseteq Item
<1>1. Contents[a] \in Seq(SUBSET Item) /\ Contents[a] # << >>
  BY LookupAssumption
<1>2. Len(Contents[a]) \in Nat /\ Len(Contents[a]) >= 1 /\ DOMAIN Contents[a] = 1 .. Len(Contents[a])
      /\ \A i \in 1 .. Len(Contents[a]) : Contents[a][i] \in SUBSET Item
  BY <1>1
<1>3. \A i \in 1 .. Len(Contents[a]) : Contents[a][i] \subseteq Holds(a)
  BY <1>2 DEF Holds
<1>4. Holds(a) \subseteq Item
  BY <1>2 DEF Holds
<1> QED BY <1>1, <1>2, <1>3, <1>4

\* A query turns to another key less often than it may.
LEMMA TriesType == TypeOK => Tries \in Nat /\ Tries <= keys + 2 /\ keys + 2 <= MaxKeys + 2
<1> SUFFICES ASSUME TypeOK PROVE Tries \in Nat /\ Tries <= keys + 2 /\ keys + 2 <= MaxKeys + 2
  OBVIOUS
<1>1. keys \in Nat /\ keys <= creds /\ creds \in Nat /\ creds <= MaxKeys /\ MaxKeys \in Nat
  BY Bounds DEF TypeOK
<1>2. Tries \in {keys, 2, keys + 1, 1}
  BY DEF Tries
<1> QED BY <1>1, <1>2

LEMMA StepOrder ==
  ASSUME TypeOK
  PROVE  Len(source.steps) = 3 /\ source.steps \in StepOrders
<1>1. source.steps \in StepOrders
  BY Steps DEF TypeOK
<1> QED BY <1>1 DEF StepOrders, StoresFirst, QueryThenMark, URLScanSteps

LEMMA NewJobType ==
  /\ NewJob \in Job /\ NewJob.page = 1 /\ NewJob.key = 1 /\ NewJob.pc \in {"known", "check"}
  /\ NewJob.got = {} /\ NewJob.relies = {} /\ NewJob.step = 1
  /\ \A r \in SUBSET Item : Over(r) \in Job /\ Over(r).page = 1 /\ Over(r).key = 1
                             /\ Over(r).pc = "done" /\ Over(r).got = {} /\ Over(r).relies = r
<1>1. 1 \in 1 .. (MaxKeys + 2)
  BY Bounds
<1>2. /\ NewJob \in Job /\ NewJob.page = 1 /\ NewJob.key = 1 /\ NewJob.pc \in {"known", "check"}
      /\ NewJob.got = {} /\ NewJob.relies = {} /\ NewJob.step = 1
  BY <1>1 DEF NewJob, Job
<1>3. ASSUME NEW r \in SUBSET Item
      PROVE  /\ Over(r) \in Job /\ Over(r).page = 1 /\ Over(r).key = 1 /\ Over(r).pc = "done"
             /\ Over(r).got = {} /\ Over(r).relies = r
  BY <1>2 DEF Over, Job
<1> QED BY <1>2, <1>3

\* The jobs of all assets but one stay as they are.
Only(a) == job' \in [Asset -> Job] /\ \A b \in Asset : b # a => job'[b] = job[b]

LEMMA OnlyOne ==
  ASSUME TypeOK, NEW a \in Asset, NEW j \in Job, job' = [job EXCEPT ![a] = j]
  PROVE  Only(a) /\ job'[a] = j
BY DEF TypeOK, Only

\* A job of which some fields change.
LEMMA JobChanges ==
  ASSUME job \in [Asset -> Job], NEW a \in Asset, NEW pc, NEW key, NEW page, NEW got, NEW denied,
         NEW missed
  PROVE  [job EXCEPT ![a].pc = pc, ![a].key = key, ![a].page = page, ![a].got = got,
                     ![a].denied = denied, ![a].missed = missed]
           = [job EXCEPT ![a] = [job[a] EXCEPT !.pc = pc, !.key = key, !.page = page, !.got = got,
                                               !.denied = denied, !.missed = missed]]
BY DEF Job

\* What a request leaves of a job.
LEMMA AskJob ==
  ASSUME TypeOK, NEW a \in Asset, NEW r, Ask(a, r)
  PROVE  /\ Only(a) /\ job'[a].pc \in {"ask", "after"} /\ job'[a].step = job[a].step
         /\ job'[a].page \in 1 .. Len(Contents[a]) /\ job'[a].key <= keys + 2
         /\ job'[a].got \subseteq job[a].got \union Holds(a) /\ job'[a].relies = job[a].relies
<1> DEFINE j == job[a]
           answer == IF r # "answer" THEN {}
                     ELSE IF source.paged THEN Contents[a][j.page] ELSE Holds(a)
           kept == IF source.scoped THEN answer \intersect Scope ELSE answer
           more == /\ ~LastPage(a)
                   /\ \/ r = "answer" \/ source.onFail = "onward"
                      \/ source.onFail = "skipPage" /\ Fails(a, r) /\ j.page > 1
           denied == source.creds = "protocols" /\ (j.denied \/ r = "notice")
           again == /\ source.onFail = "nextKey" /\ j.key < Tries
                    /\ (Fails(a, r) /\ r \notin source.final) \/ (denied /\ r = "notice")
           missed == j.missed \/ (Fails(a, r) /\ ~again /\ ~denied)
           pc == IF again \/ more THEN "ask" ELSE "after"
           key == IF again THEN j.key + 1 ELSE j.key
           page == IF more THEN j.page + 1 ELSE j.page
           got == j.got \union kept
           n == [j EXCEPT !.pc = pc, !.key = key, !.page = page, !.got = got, !.denied = denied,
                          !.missed = missed]
<1>1. /\ job \in [Asset -> Job] /\ j \in Job /\ j.page \in 1 .. Len(Contents[a])
      /\ j.key <= keys + 2
  BY DEF TypeOK
<1>2. job' = [job EXCEPT ![a].pc = pc, ![a].key = key, ![a].page = page, ![a].got = got,
                         ![a].denied = denied, ![a].missed = missed]
  BY Zenon DEF Ask
<1>3. kept \subseteq Holds(a)
  BY <1>1, ContentsType
<1>4. key \in 1 .. (MaxKeys + 2) /\ key <= keys + 2
  BY <1>1, TriesType, Bounds DEF Job, TypeOK
<1>5. page \in 1 .. Len(Contents[a]) /\ page \in Nat
  <2>1. more => j.page # Len(Contents[a])
    BY DEF LastPage
  <2> QED BY <1>1, <2>1, ContentsType
<1>6. denied \in BOOLEAN /\ missed \in BOOLEAN /\ pc \in {"ask", "after"}
  <2>1. j.missed \in BOOLEAN /\ j.denied \in BOOLEAN
    BY <1>1 DEF Job
  <2> QED BY <2>1
<1>7. got \in SUBSET Item /\ got \subseteq j.got \union Holds(a)
  BY <1>1, <1>3, ContentsType DEF Job
<1> HIDE DEF denied, missed, pc, key, page, got
<1>8. n \in Job
  BY <1>1, <1>4, <1>5, <1>6, <1>7 DEF Job
<1>9. job' = [job EXCEPT ![a] = n]
  BY <1>1, <1>2, JobChanges
<1>10. n.pc = pc /\ n.step = j.step /\ n.relies = j.relies /\ n.page = page /\ n.key = key
       /\ n.got = got
  BY <1>1 DEF Job
<1> QED BY <1>4, <1>5, <1>6, <1>7, <1>8, <1>9, <1>10, OnlyOne

\* A job starts and ends at the first step after the query.
StepInv == \A a \in Asset : job[a].step \in 1 .. 3 /\ (job[a].pc # "after" => job[a].step = 1)

TypeInv == TypeOK /\ StepInv

LEMMA OnlyOneOf ==
  ASSUME TypeInv, NEW a \in Asset, NEW j \in Job, job' = [job EXCEPT ![a] = j]
  PROVE  Only(a) /\ job'[a] = j
BY OnlyOne DEF TypeInv

\* A job that is where its step left it: only this one, within its bounds.
Moved(a) ==
  /\ Only(a) /\ job'[a].page \in 1 .. Len(Contents[a]) /\ job'[a].key <= keys + 2
  /\ job'[a].step \in 1 .. 3 /\ (job'[a].pc # "after" => job'[a].step = 1)

LEMMA KnownJob ==
  ASSUME TypeInv, NEW a \in Asset, KnownFQDN(a)
  PROVE  /\ Moved(a) /\ job'[a].pc = "check"
         /\ job'[a].got = job[a].got /\ job'[a].relies = job[a].relies
<1> DEFINE n == [job[a] EXCEPT !.pc = "check"]
<1>1. /\ job[a] \in Job /\ job[a].pc = "known" /\ job[a].step = 1
      /\ job[a].page \in 1 .. Len(Contents[a]) /\ job[a].key <= keys + 2
  BY DEF TypeInv, TypeOK, StepInv, KnownFQDN
<1>2. job' = [job EXCEPT ![a] = n] /\ n \in Job
  BY <1>1 DEF KnownFQDN, Job
<1>3. /\ n.pc = "check" /\ n.step = 1 /\ n.page = job[a].page /\ n.key = job[a].key
      /\ n.got = job[a].got /\ n.relies = job[a].relies
  BY <1>1 DEF Job
<1> HIDE DEF n
<1>4. Only(a) /\ job'[a] = n
  BY <1>2, OnlyOneOf
<1> QED BY <1>1, <1>3, <1>4 DEF Moved

\* The check leaves the source out, relying on nothing or on the mark, or has
\* a request to make, or nothing to wait for.
LEMMA CheckJob ==
  ASSUME TypeInv, NEW a \in Asset, Check(a)
  PROVE  /\ Moved(a) /\ job[a].pc = "check"
         /\ \/ job'[a] = Over({})
            \/ ~Declines(a) /\ AssetMonitoredWithinTTL(a) /\ job'[a] = Over(Relies(a))
               /\ submitted' = submitted \union Cached(a)
            \/ /\ job'[a].pc \in {"list", "ask", "after"} /\ job'[a].step = 1
               /\ job'[a].got = job[a].got /\ job'[a].relies = job[a].relies
         /\ submitted \subseteq submitted'
         /\ (BlockAsked(a) /\ Mark(a, TRUE, {})) \/ UNCHANGED <<marked, owed>>
<1>1. /\ job[a] \in Job /\ job[a].pc = "check" /\ job[a].step = 1 /\ job \in [Asset -> Job]
      /\ job[a].page \in 1 .. Len(Contents[a]) /\ job[a].key <= keys + 2
  BY DEF TypeInv, TypeOK, StepInv, Check
<1>2. Relies(a) \in SUBSET Item /\ {} \in SUBSET Item
  BY DEF Relies, TypeInv, TypeOK
<1>3. 1 \in 1 .. Len(Contents[a]) /\ 1 <= keys + 2
  BY ContentsType DEF TypeInv, TypeOK
<1>4. ASSUME NEW r \in SUBSET Item, job' = [job EXCEPT ![a] = Over(r)]
      PROVE  Moved(a) /\ job'[a] = Over(r)
  <2>1. Over(r).step = 1
    BY DEF Over, NewJob
  <2>2. Over(r) \in Job /\ Over(r).page = 1 /\ Over(r).key = 1
    BY NewJobType
  <2>3. Only(a) /\ job'[a] = Over(r)
    BY <1>4, <2>2, OnlyOneOf
  <2> QED BY <1>3, <2>1, <2>2, <2>3 DEF Moved
<1>5. ASSUME NEW pc \in {"list", "ask", "after"}, NEW missed \in BOOLEAN,
             job' = [job EXCEPT ![a].pc = pc, ![a].missed = missed]
      PROVE  /\ Moved(a) /\ job'[a].pc \in {"list", "ask", "after"} /\ job'[a].step = 1
             /\ job'[a].got = job[a].got /\ job'[a].relies = job[a].relies
  <2> DEFINE n == [job[a] EXCEPT !.pc = pc, !.missed = missed]
  <2>1. job' = [job EXCEPT ![a] = n] /\ n \in Job
    BY <1>1, <1>5 DEF Job
  <2>2. /\ n.pc = pc /\ n.step = 1 /\ n.page = job[a].page /\ n.key = job[a].key
        /\ n.got = job[a].got /\ n.relies = job[a].relies
    BY <1>1 DEF Job
  <2> HIDE DEF n
  <2>3. Only(a) /\ job'[a] = n
    BY <2>1, OnlyOneOf
  <2> QED BY <1>1, <2>2, <2>3 DEF Moved
<1>6. CASE Declines(a) /\ job' = [job EXCEPT ![a] = Over({})]
           /\ UNCHANGED <<marked, owed, claimed, submitted>>
  BY <1>1, <1>2, <1>4, <1>6
<1>7. CASE ~Declines(a) /\ AssetMonitoredWithinTTL(a) /\ job' = [job EXCEPT ![a] = Over(Relies(a))]
           /\ submitted' = submitted \union Cached(a) /\ UNCHANGED <<marked, owed, claimed>>
  BY <1>1, <1>2, <1>4, <1>7
<1>8. CASE BlockAsked(a) /\ Mark(a, TRUE, {}) /\ job' = [job EXCEPT ![a] = Over({})]
           /\ UNCHANGED <<claimed, submitted>>
  BY <1>1, <1>2, <1>4, <1>8
<1> DEFINE idle == source.onFail = "never" \/ Tries = 0
           pc == IF source.list /\ ~listed THEN "list" ELSE IF idle THEN "after" ELSE "ask"
<1>9. CASE job' = [job EXCEPT ![a].pc = pc, ![a].missed = idle]
           /\ UNCHANGED <<marked, owed, submitted>>
  <2>1. pc \in {"list", "ask", "after"} /\ idle \in BOOLEAN
    OBVIOUS
  <2> HIDE DEF pc, idle
  <2> QED BY <1>1, <1>5, <1>9, <2>1
<1>10. \/ Declines(a) /\ job' = [job EXCEPT ![a] = Over({})]
          /\ UNCHANGED <<marked, owed, claimed, submitted>>
       \/ ~Declines(a) /\ AssetMonitoredWithinTTL(a) /\ job' = [job EXCEPT ![a] = Over(Relies(a))]
          /\ submitted' = submitted \union Cached(a) /\ UNCHANGED <<marked, owed, claimed>>
       \/ BlockAsked(a) /\ Mark(a, TRUE, {}) /\ job' = [job EXCEPT ![a] = Over({})]
          /\ UNCHANGED <<claimed, submitted>>
       \/ job' = [job EXCEPT ![a].pc = pc, ![a].missed = idle]
          /\ UNCHANGED <<marked, owed, submitted>>
  BY Zenon DEF Check
<1> HIDE DEF pc, idle
<1> QED BY <1>6, <1>7, <1>8, <1>9, <1>10

LEMMA ListJob ==
  ASSUME TypeInv, NEW a \in Asset, NEW r, List(a, r)
  PROVE  /\ Moved(a) /\ job'[a].pc \in {"ask", "after"} /\ job'[a].step = 1
         /\ job'[a].got = job[a].got /\ job'[a].relies = job[a].relies
         /\ listed' \in BOOLEAN
<1> DEFINE pc == IF listed' THEN "ask" ELSE "after"  missed == ~listed'
           n == [job[a] EXCEPT !.pc = pc, !.missed = missed]
<1>1. /\ job[a] \in Job /\ job[a].pc = "list" /\ job[a].step = 1 /\ job \in [Asset -> Job]
      /\ job[a].page \in 1 .. Len(Contents[a]) /\ job[a].key <= keys + 2
  BY DEF TypeInv, TypeOK, StepInv, List
<1>2. pc \in {"ask", "after"} /\ missed \in BOOLEAN /\ listed' \in BOOLEAN
  BY DEF List, TypeInv, TypeOK
<1>3. job' = [job EXCEPT ![a].pc = pc, ![a].missed = missed]
  BY DEF List
<1> HIDE DEF pc, missed
<1>4. job' = [job EXCEPT ![a] = n] /\ n \in Job
  BY <1>1, <1>2, <1>3 DEF Job
<1>5. /\ n.pc = pc /\ n.step = 1 /\ n.page = job[a].page /\ n.key = job[a].key
      /\ n.got = job[a].got /\ n.relies = job[a].relies
  BY <1>1 DEF Job
<1> HIDE DEF n
<1>6. Only(a) /\ job'[a] = n
  BY <1>4, OnlyOneOf
<1> QED BY <1>1, <1>2, <1>5, <1>6 DEF Moved

\* The last step ends the job, another one leads to the next.
LEMMA ProceedJob ==
  ASSUME TypeInv, NEW a \in Asset, NEW lost \in BOOLEAN, job[a].pc = "after", Proceed(a, lost)
  PROVE  /\ Moved(a)
         /\ \/ job'[a] = Over({})
            \/ /\ job'[a].step = job[a].step + 1 /\ job'[a].pc = "after"
               /\ job'[a].got = job[a].got /\ job'[a].relies = job[a].relies
               /\ ~job'[a].missed => ~job[a].missed /\ ~(lost /\ source.marks = "stored")
<1>1. /\ job[a] \in Job /\ job[a].step \in 1 .. 3 /\ job \in [Asset -> Job]
      /\ job[a].page \in 1 .. Len(Contents[a]) /\ job[a].key <= keys + 2
  BY DEF TypeInv, TypeOK, StepInv
<1> DEFINE missed == job[a].missed \/ (lost /\ source.marks = "stored")
           n == [job[a] EXCEPT !.step = @ + 1, !.lost = @ \/ lost, !.missed = missed]
<1>2. job' = [job EXCEPT ![a] = IF job[a].step = Len(source.steps) THEN Over({}) ELSE n]
  BY Zenon DEF Proceed
<1>3. CASE job[a].step = Len(source.steps)
  <2>1. Over({}).step = 1 /\ {} \in SUBSET Item
    BY DEF Over, NewJob
  <2>2. 1 \in 1 .. Len(Contents[a]) /\ 1 <= keys + 2
    BY ContentsType DEF TypeInv, TypeOK
  <2>3. Over({}) \in Job /\ Over({}).page = 1 /\ Over({}).key = 1
    BY <2>1, NewJobType
  <2>4. Only(a) /\ job'[a] = Over({})
    BY <1>2, <1>3, <2>3, OnlyOneOf
  <2> QED BY <2>1, <2>2, <2>3, <2>4 DEF Moved
<1>4. CASE job[a].step # Len(source.steps)
  <2>0. Len(source.steps) = 3
    BY StepOrder DEF TypeInv
  <2>1. job[a].step + 1 \in 1 .. 3 /\ job[a].step + 1 \in 1 .. 4
    BY <1>1, <1>4, <2>0
  <2>2. missed \in BOOLEAN /\ (~missed => ~job[a].missed /\ ~(lost /\ source.marks = "stored"))
    BY <1>1 DEF Job
  <2> HIDE DEF missed
  <2>3. (job[a].lost \/ lost) \in BOOLEAN
    BY <1>1 DEF Job
  <2>4. n \in Job
    BY <1>1, <2>1, <2>2, <2>3 DEF Job
  <2>5. /\ n.pc = "after" /\ n.step = job[a].step + 1 /\ n.page = job[a].page
        /\ n.key = job[a].key /\ n.got = job[a].got /\ n.relies = job[a].relies /\ n.missed = missed
    BY <1>1 DEF Job
  <2>6. job' = [job EXCEPT ![a] = n]
    BY <1>2, <1>4
  <2> HIDE DEF n
  <2>7. Only(a) /\ job'[a] = n
    BY <2>4, <2>6, OnlyOneOf
  <2> QED BY <1>1, <2>1, <2>2, <2>5, <2>7 DEF Moved
<1> QED BY <1>3, <1>4

\* A job keeps within its bounds, and what it changes besides is well typed.
LEMMA MovedType ==
  ASSUME TypeInv, NEW a \in Asset, Moved(a), UNCHANGED <<world, now, session, live>>,
         stored' \in [Item -> 0 .. Never], submitted' \subseteq Item, faults' \in 0 .. MaxFaults,
         marked' \in [Asset -> 0 .. Never], owed' \in [Asset -> SUBSET Item], listed' \in BOOLEAN,
         claimed' \subseteq {BlockOf[b] : b \in Asset}
  PROVE  TypeInv'
<1>1. /\ job' \in [Asset -> Job]
      /\ \A b \in Asset : /\ job'[b].page \in 1 .. Len(Contents[b]) /\ job'[b].key <= keys + 2
                          /\ job'[b].step \in 1 .. 3 /\ (job'[b].pc # "after" => job'[b].step = 1)
  <2>1. \A b \in Asset : /\ job[b].page \in 1 .. Len(Contents[b]) /\ job[b].key <= keys + 2
                         /\ job[b].step \in 1 .. 3 /\ (job[b].pc # "after" => job[b].step = 1)
    BY DEF TypeInv, TypeOK, StepInv
  <2> QED BY <2>1 DEF Moved, Only
<1>2. source' = source /\ creds' = creds /\ keys' = keys /\ now' = now /\ session' = session
      /\ live' = live
  BY DEF world
<1> QED BY <1>1, <1>2 DEF TypeInv, TypeOK, StepInv

LEMMA MarkType ==
  ASSUME TypeInv, NEW a \in Asset, NEW missed, NEW got \in SUBSET Item, Mark(a, missed, got)
  PROVE  marked' \in [Asset -> 0 .. Never] /\ owed' \in [Asset -> SUBSET Item]
<1> DEFINE items == StandsFor(a, missed, got)
<1>1. items \in SUBSET Item
  BY Bounds DEF StandsFor
<1>2. now \in 0 .. Never
  BY Bounds DEF TypeInv, TypeOK
<1>3. /\ marked' \in {marked, [marked EXCEPT ![a] = now]}
      /\ owed' \in {owed, [owed EXCEPT ![a] = items]}
  BY DEF Mark
<1> HIDE DEF items
<1> QED BY <1>1, <1>2, <1>3 DEF TypeInv, TypeOK

LEMMA JobType ==
  ASSUME TypeInv, NEW a \in Asset, JobStep(a)
  PROVE  TypeInv'
<1>1. /\ stored \in [Item -> 0 .. Never] /\ submitted \subseteq Item /\ faults \in 0 .. MaxFaults
      /\ marked \in [Asset -> 0 .. Never] /\ owed \in [Asset -> SUBSET Item] /\ listed \in BOOLEAN
      /\ claimed \subseteq {BlockOf[b] : b \in Asset} /\ job[a].got \in SUBSET Item
      /\ BlockOf[a] \in {BlockOf[b] : b \in Asset}
  BY DEF TypeInv, TypeOK, Job
<1>2. CASE KnownFQDN(a)
  <2>1. Moved(a)
    BY <1>2, KnownJob
  <2>2. submitted' \subseteq Item
    BY <1>1, <1>2, Bounds DEF KnownFQDN
  <2>3. UNCHANGED <<world, now, session, live, stored, marked, faults, owed, listed, claimed>>
    BY <1>2 DEF KnownFQDN, database, memory
  <2> QED BY <1>1, <2>1, <2>2, <2>3, MovedType
<1>3. CASE Check(a)
  <2>1. Moved(a)
    BY <1>3, CheckJob
  <2>2. marked' \in [Asset -> 0 .. Never] /\ owed' \in [Asset -> SUBSET Item]
    <3>1. CASE Mark(a, TRUE, {})
      <4>1. {} \in SUBSET Item
        OBVIOUS
      <4> QED BY <3>1, <4>1, MarkType
    <3>2. CASE UNCHANGED <<marked, owed>>
      BY <1>1, <3>2
    <3> QED BY <1>3, <3>1, <3>2, CheckJob
  <2>3. submitted' \subseteq Item
    <3>1. Cached(a) \subseteq Item
      BY ContentsType DEF Cached
    <3>2. submitted' \in {submitted, submitted \union Cached(a)}
      BY <1>3 DEF Check
    <3> QED BY <1>1, <3>1, <3>2
  <2>4. claimed' \subseteq {BlockOf[b] : b \in Asset}
    <3>1. claimed' \in {claimed, claimed \union {BlockOf[a]}}
      BY <1>3 DEF Check
    <3> QED BY <1>1, <3>1
  <2>5. UNCHANGED <<world, now, session, live, stored, faults, listed>>
    BY <1>3 DEF Check
  <2> QED BY <1>1, <2>1, <2>2, <2>3, <2>4, <2>5, MovedType
<1>4. ASSUME NEW r, List(a, r) PROVE TypeInv'
  <2>1. Moved(a) /\ listed' \in BOOLEAN
    BY <1>4, ListJob
  <2>2. UNCHANGED <<world, now, session, live, submitted, claimed, stored, marked, faults, owed>>
    BY <1>4 DEF List, database
  <2> QED BY <1>1, <2>1, <2>2, MovedType
<1>5. ASSUME NEW r, Ask(a, r) PROVE TypeInv'
  <2>1. job[a].pc = "ask"
    BY <1>5 DEF Ask
  <2>2. job[a].step = 1
    BY <2>1 DEF TypeInv, StepInv
  <2>3. Moved(a)
    BY <1>5, <2>2, AskJob DEF TypeInv, Moved
  <2>4. UNCHANGED <<world, now, session, live, submitted, listed, claimed, stored, marked, faults, owed>>
    BY <1>5 DEF Ask, database, memory
  <2> QED BY <1>1, <2>3, <2>4, MovedType
<1>6. CASE Store(a)
  <2>1. PICK fails \in BOOLEAN :
          /\ fails => live /\ faults < MaxFaults /\ job[a].got # {}
          /\ faults' = IF fails THEN faults + 1 ELSE faults
          /\ stored' = [n \in Item |-> IF ~(live /\ ~fails) \/ n \notin job[a].got THEN stored[n]
                                       ELSE IF source.cached = "edge" THEN now ELSE 0]
          /\ Proceed(a, ~(live /\ ~fails))
    BY <1>6 DEF Store
  <2>2. Moved(a)
    <3>1. job[a].pc = "after"
      BY <1>6 DEF Store, Step
    <3>2. (~(live /\ ~fails)) \in BOOLEAN
      OBVIOUS
    <3> QED BY <2>1, <3>1, <3>2, ProceedJob
  <2>3. faults' \in 0 .. MaxFaults
    BY <1>1, <2>1, Bounds
  <2>4. stored' \in [Item -> 0 .. Never]
    <3>1. now \in 0 .. Never /\ 0 \in 0 .. Never
      <4>1. now \in 0 .. MaxTime /\ 0 \in 0 .. MaxTime
        BY Bounds DEF TypeInv, TypeOK
      <4> QED BY <4>1, Bounds
    <3> QED BY <1>1, <2>1, <3>1
  <2>5. UNCHANGED <<world, now, session, live, marked, owed, submitted, listed, claimed>>
    BY <1>6 DEF Store, memory
  <2> QED BY <1>1, <2>2, <2>3, <2>4, <2>5, MovedType
<1>7. CASE MarkStep(a)
  <2>1. job[a].pc = "after" /\ Proceed(a, FALSE)
    BY <1>7 DEF MarkStep, Step
  <2>2. Moved(a)
    BY <2>1, ProceedJob
  <2>3. marked' \in [Asset -> 0 .. Never] /\ owed' \in [Asset -> SUBSET Item]
        /\ claimed' \subseteq {BlockOf[b] : b \in Asset}
    <3>1. CASE Marks(a)
      <4>1. Mark(a, job[a].missed, job[a].got) /\ UNCHANGED claimed
        BY <1>7, <3>1 DEF MarkStep
      <4> QED BY <1>1, <4>1, MarkType
    <3>2. CASE ~Marks(a)
      <4>1. claimed' \subseteq claimed /\ UNCHANGED <<marked, owed>>
        BY <1>7, <3>2 DEF MarkStep
      <4> QED BY <1>1, <4>1
    <3> QED BY <3>1, <3>2
  <2>4. UNCHANGED <<world, now, session, live, stored, faults, submitted, listed>>
    BY <1>7 DEF MarkStep
  <2> QED BY <1>1, <2>2, <2>3, <2>4, MovedType
<1>8. CASE Process(a)
  <2>1. job[a].pc = "after" /\ Proceed(a, FALSE)
    BY <1>8 DEF Process, Step
  <2>2. Moved(a)
    BY <2>1, ProceedJob
  <2>3. submitted' \subseteq Item
    BY <1>1, <1>8 DEF Process
  <2>4. UNCHANGED <<world, now, session, live, stored, marked, faults, owed, listed, claimed>>
    BY <1>8 DEF Process, database, memory
  <2> QED BY <1>1, <2>2, <2>3, <2>4, MovedType
<1> QED BY <1>2, <1>3, <1>4, <1>5, <1>6, <1>7, <1>8 DEF JobStep

LEMMA TypeInit == Init => TypeInv
<1> SUFFICES ASSUME Init PROVE TypeInv
  OBVIOUS
<1>1. /\ source \in Sources \union Unloaded /\ creds \in 0 .. MaxKeys /\ keys \in 0 .. creds
      /\ now = 0 /\ session = 1 /\ live = TRUE
      /\ job = [a \in Asset |-> NewJob] /\ stored = [n \in Item |-> Never] /\ submitted = {}
      /\ faults = 0 /\ listed = FALSE /\ claimed = {}
      /\ marked = [a \in Asset |-> Never] /\ owed = [a \in Asset |-> {}]
  BY DEF Init
<1>2. job \in [Asset -> Job] /\ \A a \in Asset : job[a] = NewJob
  BY <1>1, NewJobType
<1>3. \A a \in Asset : job[a].page \in 1 .. Len(Contents[a]) /\ job[a].key <= keys + 2
  BY <1>1, <1>2, NewJobType, ContentsType, Bounds
<1>4. StepInv
  BY <1>2, NewJobType DEF StepInv
<1>5. Never \in 0 .. Never /\ 0 \in 0 .. MaxTime /\ 0 \in 0 .. MaxFaults /\ 1 \in 1 .. MaxSessions
  BY Bounds
<1> QED BY <1>1, <1>2, <1>3, <1>4, <1>5 DEF TypeInv, TypeOK

LEMMA TypeNext == TypeInv /\ [Next]_vars => TypeInv'
<1> SUFFICES ASSUME TypeInv, [Next]_vars PROVE TypeInv'
  OBVIOUS
<1>1. CASE EndSession
  <2>1. live' = FALSE /\ UNCHANGED <<source, creds, keys, now, session, job, stored, marked,
                                     submitted, listed, claimed, faults, owed>>
    BY <1>1 DEF EndSession, world, database, memory
  <2> QED BY <2>1 DEF TypeInv, TypeOK, StepInv
<1>2. CASE NewSession
  <2>1. /\ session' = session + 1 /\ live' = TRUE /\ job' = [b \in Asset |-> NewJob]
        /\ submitted' = {} /\ session < MaxSessions
        /\ UNCHANGED <<source, creds, keys, now, stored, marked, listed, claimed, faults, owed>>
    BY <1>2 DEF NewSession, world, database, memory
  <2>2. job' \in [Asset -> Job] /\ \A b \in Asset : job'[b] = NewJob
    BY <2>1, NewJobType
  <2>3. \A b \in Asset : job'[b].page \in 1 .. Len(Contents[b]) /\ job'[b].key <= keys + 2
    <3>1. keys \in Nat
      BY Bounds DEF TypeInv, TypeOK
    <3> QED BY <2>2, <3>1, NewJobType, ContentsType
  <2>4. session' \in 1 .. MaxSessions
    BY <2>1, Bounds DEF TypeInv, TypeOK
  <2>5. StepInv'
    BY <2>2, NewJobType DEF StepInv
  <2> QED BY <2>1, <2>2, <2>3, <2>4, <2>5 DEF TypeInv, TypeOK
<1>3. CASE Tick
  <2>1. now' \in 0 .. MaxTime
    BY <1>3, Bounds DEF Tick, TypeInv, TypeOK
  <2>2. UNCHANGED <<source, creds, keys, live, session, job, stored, marked,
                    submitted, listed, claimed, faults, owed>>
    BY <1>3 DEF Tick, world, database, memory
  <2> QED BY <2>1, <2>2 DEF TypeInv, TypeOK, StepInv
<1>4. CASE UNCHANGED vars
  BY <1>4 DEF vars, TypeInv, TypeOK, StepInv
<1> QED BY <1>1, <1>2, <1>3, <1>4, JobType DEF Next

LEMMA TypeAlways == Spec => []TypeInv
<1> QED BY TypeInit, TypeNext, PTL DEF Spec

------------------------------------------------------------------------------
(* What a mark stands for.                                                 *)

\* Where SkippedIsCovered speaks: a failure of the database excuses only the
\* sources that do not look at it.
Trusted == source \in Promised /\ (faults = 0 \/ source.marks = "stored")

IsStored(n) == stored[n] # Never

\* A job has what the source holds, and has stored it once it is past its
\* first step, unless its session is over or it knows of a failure that keeps
\* it from marking.
GotCovered(a) ==
  /\ job[a].got \subseteq Holds(a)
  /\ job[a].pc = "after" /\ job[a].step > 1 /\ live
     /\ (~job[a].missed \/ source.marks = "always") =>
       \A n \in job[a].got : IsStored(n)

\* A mark stands for items of the asset that are stored, and for names in
\* scope where only those come back.
MarkCovered(a) ==
  /\ owed[a] \subseteq Holds(a) /\ \A n \in owed[a] : IsStored(n)
  /\ source.cached = "known" => owed[a] \subseteq Scope

\* A session submits them before it looks at the mark ...
KnownCovered(a) ==
  source.cached = "known" /\ job[a].pc = "check" /\ live /\ a \in Eligible =>
    owed[a] \subseteq submitted

\* ... or when it does.
Covered(a) ==
  /\ GotCovered(a) /\ MarkCovered(a) /\ KnownCovered(a)
  /\ job[a].relies \subseteq submitted

CoverInv == Trusted => \A a \in Asset : Covered(a)

LEMMA CoverInit == Init => CoverInv
<1> SUFFICES ASSUME Init, NEW a \in Asset PROVE Covered(a)
  BY DEF CoverInv
<1>1. job[a] = NewJob /\ owed[a] = {}
  BY DEF Init
<1>2. job[a].got = {} /\ job[a].relies = {} /\ job[a].step = 1
  BY <1>1, NewJobType
<1> QED BY <1>1, <1>2 DEF Covered, GotCovered, MarkCovered, KnownCovered

\* Nothing that is stored is lost, and a session only submits more.
Forward ==
  /\ source' = source /\ submitted \subseteq submitted' /\ (live' => live)
  /\ \A n \in Item : IsStored(n) => stored'[n] # Never

\* A step that is not its own leaves an asset covered.
LEMMA CoverKept ==
  ASSUME TypeInv, NEW a \in Asset, Covered(a), Forward, job'[a] = job[a], owed'[a] = owed[a]
  PROVE  Covered(a)'
<1>1. job[a].got \subseteq Item /\ owed[a] \subseteq Item
  BY DEF TypeInv, TypeOK, Job
<1> QED BY <1>1 DEF Covered, GotCovered, MarkCovered, KnownCovered, Forward, IsStored, Holds

\* The failures of the database are counted, and a plugin stays what it is.
Keeping == source' = source /\ (faults' = faults \/ faults' = faults + 1)

LEMMA JobKeeps ==
  ASSUME NEW a \in Asset, JobStep(a)
  PROVE  Keeping
<1>1. CASE KnownFQDN(a)
  BY <1>1 DEF KnownFQDN, world, database, Keeping
<1>2. CASE Check(a)
  BY <1>2 DEF Check, world, Keeping
<1>3. ASSUME NEW r, List(a, r) PROVE Keeping
  BY <1>3 DEF List, world, database, Keeping
<1>4. ASSUME NEW r, Ask(a, r) PROVE Keeping
  BY <1>4 DEF Ask, world, database, Keeping
<1>5. CASE Store(a)
  BY <1>5 DEF Store, world, Keeping
<1>6. CASE MarkStep(a) \/ Process(a)
  BY <1>6 DEF MarkStep, Process, world, database, Keeping
<1> QED BY <1>1, <1>2, <1>3, <1>4, <1>5, <1>6 DEF JobStep

LEMMA TrustKept ==
  ASSUME TypeInv, [Next]_vars, Trusted'
  PROVE  Trusted /\ source' = source /\ (source.marks # "stored" => faults' = 0 /\ faults = 0)
<1>1. ASSUME EndSession \/ NewSession \/ Tick \/ UNCHANGED vars PROVE Keeping
  BY <1>1 DEF EndSession, NewSession, Tick, vars, world, database, Keeping
<1>2. Keeping
  BY <1>1, JobKeeps DEF Next
<1>3. faults \in Nat
  BY Bounds DEF TypeInv, TypeOK
<1>4. source' = source /\ (faults' = 0 => faults = 0)
  BY <1>2, <1>3 DEF Keeping
<1>5. source' \in Promised /\ (faults' = 0 \/ source'.marks = "stored")
  BY DEF Trusted, Promised
<1> QED BY <1>4, <1>5 DEF Trusted

LEMMA Trusts ==
  ASSUME Trusted
  PROVE  Keeps(source) /\ NewJob.pc \in {"known", "check"}
         /\ (source.cached = "known" => NewJob.pc = "known")
BY Promises DEF Trusted, Keeps, NewJob

\* The steps of a job, by what they do to its asset.
LEMMA KnownCovers ==
  ASSUME TypeInv, Trusted, NEW a \in Asset, Covered(a), KnownFQDN(a)
  PROVE  Forward /\ owed' = owed /\ Covered(a)'
<1>1. /\ job'[a].pc = "check" /\ job'[a].got = job[a].got /\ job'[a].relies = job[a].relies
  BY KnownJob
<1>2. /\ UNCHANGED <<source, live, stored, owed>> /\ submitted \subseteq submitted'
      /\ live /\ a \in Eligible =>
           {n \in Holds(a) \intersect Scope : IsStored(n)} \subseteq submitted'
  BY DEF KnownFQDN, world, database, IsStored
<1>3. MarkCovered(a) => (source.cached = "known" =>
                           owed[a] \subseteq {n \in Holds(a) \intersect Scope : IsStored(n)})
  BY DEF MarkCovered
<1>4. Forward
  BY <1>2 DEF Forward, IsStored
<1>5. KnownCovered(a)'
  BY <1>2, <1>3 DEF KnownCovered, Covered
<1>6. GotCovered(a)' /\ MarkCovered(a)'
  BY <1>1, <1>2 DEF Covered, GotCovered, MarkCovered, IsStored, Holds
<1> QED BY <1>1, <1>2, <1>4, <1>5, <1>6 DEF Covered

LEMMA CheckCovers ==
  ASSUME TypeInv, Trusted, NEW a \in Asset, Covered(a), Check(a)
  PROVE  Forward /\ owed' = owed /\ Covered(a)'
<1>1. Keeps(source)
  BY Trusts
<1>2. UNCHANGED <<source, live, stored>>
  BY DEF Check, world
<1>3. ~BlockAsked(a)
  BY <1>1 DEF BlockAsked, Keeps
<1>4. owed' = owed /\ submitted \subseteq submitted'
  BY <1>3, CheckJob
<1>5. Forward
  BY <1>2, <1>4 DEF Forward, IsStored
<1>6. MarkCovered(a)'
  BY <1>2, <1>4 DEF Covered, MarkCovered, IsStored, Holds
<1>7. CASE job'[a] = Over({})
  <2>1. job'[a].pc = "done" /\ job'[a].got = {} /\ job'[a].relies = {}
    BY <1>7, NewJobType
  <2> QED BY <1>2, <1>4, <1>5, <1>6, <2>1 DEF Covered, GotCovered, KnownCovered
<1>8. CASE ~Declines(a) /\ AssetMonitoredWithinTTL(a) /\ job'[a] = Over(Relies(a))
           /\ submitted' = submitted \union Cached(a)
  <2>1. Relies(a) \in SUBSET Item
    BY DEF Relies, TypeInv, TypeOK
  <2>2. job'[a].pc = "done" /\ job'[a].got = {} /\ job'[a].relies = Relies(a)
    BY <1>8, <2>1, NewJobType
  <2>3. live /\ a \in Eligible /\ job[a].pc = "check"
    BY <1>8, CheckJob DEF AssetMonitoredWithinTTL, Declines
  <2>4. CASE source.cached = "known"
    <3>1. Relies(a) = owed[a] /\ owed[a] \subseteq submitted
      BY <2>3, <2>4 DEF Relies, Covered, KnownCovered
    <3> QED BY <1>4, <1>5, <1>6, <2>2, <3>1 DEF Covered, GotCovered, KnownCovered
  <2>5. CASE source.cached = "edge"
    <3>1. (source.link => WithinTTL(0)) => Cached(a) = {n \in Holds(a) : WithinTTL(stored[n])}
      BY <2>5 DEF Cached
    <3>2. \A n \in Relies(a) : /\ n \in owed[a] /\ (WithinTTL(stored[n]) \/ stored[n] = Never)
                               /\ source.link => WithinTTL(0)
      BY <2>5 DEF Relies
    <3>3. \A n \in owed[a] : n \in Holds(a) /\ stored[n] # Never
      BY DEF Covered, MarkCovered, IsStored
    <3>4. Relies(a) \subseteq submitted'
      BY <1>8, <3>1, <3>2, <3>3
    <3> QED BY <1>4, <1>5, <1>6, <2>2, <3>4 DEF Covered, GotCovered, KnownCovered
  <2> QED BY <1>1, <2>4, <2>5 DEF Keeps
<1>9. CASE /\ job'[a].pc \in {"list", "ask", "after"} /\ job'[a].step = 1
           /\ job'[a].got = job[a].got /\ job'[a].relies = job[a].relies
  BY <1>2, <1>4, <1>5, <1>6, <1>9 DEF Covered, GotCovered, KnownCovered, Holds
<1> QED BY <1>7, <1>8, <1>9, CheckJob

LEMMA RequestCovers ==
  ASSUME TypeInv, Trusted, NEW a \in Asset, Covered(a), NEW r, List(a, r) \/ Ask(a, r)
  PROVE  Forward /\ owed' = owed /\ Covered(a)'
<1>1. UNCHANGED <<source, live, stored, submitted, owed>>
  BY DEF List, Ask, world, database
<1>2. /\ job'[a].pc \in {"ask", "after"} /\ job'[a].step = 1 /\ job'[a].relies = job[a].relies
      /\ job'[a].got \subseteq job[a].got \union Holds(a)
  <2>1. CASE List(a, r)
    BY <2>1, ListJob
  <2>2. CASE Ask(a, r)
    <3>1. job[a].step = 1
      BY <2>2 DEF Ask, TypeInv, StepInv
    <3> QED BY <2>2, <3>1, AskJob DEF TypeInv
  <2> QED BY <2>1, <2>2
<1>3. Forward
  BY <1>1 DEF Forward, IsStored
<1>4. MarkCovered(a)' /\ KnownCovered(a)'
  BY <1>1, <1>2 DEF Covered, MarkCovered, KnownCovered, IsStored, Holds
<1>5. GotCovered(a)'
  BY <1>2 DEF Covered, GotCovered, Holds
<1> QED BY <1>1, <1>2, <1>3, <1>4, <1>5 DEF Covered

\* The step after the query stores what the job got, unless it says otherwise.
LEMMA StoreCovers ==
  ASSUME TypeInv, Trusted, Trusted', NEW a \in Asset, Covered(a), Store(a),
         source.marks # "stored" => faults' = 0 /\ faults = 0
  PROVE  Forward /\ owed' = owed /\ Covered(a)'
<1>1. PICK fails \in BOOLEAN :
        /\ faults' = IF fails THEN faults + 1 ELSE faults
        /\ stored' = [n \in Item |-> IF ~(live /\ ~fails) \/ n \notin job[a].got THEN stored[n]
                                     ELSE IF source.cached = "edge" THEN now ELSE 0]
        /\ Proceed(a, ~(live /\ ~fails))
  BY DEF Store
<1>2. UNCHANGED <<source, live, submitted, owed>>
  BY DEF Store, world
<1>3. job[a].got \subseteq Item /\ job[a].pc = "after"
  BY DEF TypeInv, TypeOK, Job, Store, Step
<1>4. (~(live /\ ~fails)) \in BOOLEAN
  OBVIOUS
<1>5. now # Never /\ 0 # Never
  BY Bounds DEF TypeInv, TypeOK
<1>6. \A n \in Item : (IsStored(n) => stored'[n] # Never)
                      /\ (live /\ ~fails /\ n \in job[a].got => stored'[n] # Never)
  BY <1>1, <1>5 DEF IsStored
<1>7. Forward
  BY <1>2, <1>6 DEF Forward
<1>8. MarkCovered(a)'
  <2>1. owed[a] \subseteq Item
    BY DEF TypeInv, TypeOK
  <2> QED BY <1>2, <1>6, <2>1 DEF Covered, MarkCovered, IsStored, Holds
<1>9. CASE job'[a] = Over({})
  <2>1. job'[a].pc = "done" /\ job'[a].got = {} /\ job'[a].relies = {}
    BY <1>9, NewJobType
  <2> QED BY <1>2, <1>7, <1>8, <2>1 DEF Covered, GotCovered, KnownCovered
<1>10. CASE /\ job'[a].pc = "after"
            /\ job'[a].got = job[a].got /\ job'[a].relies = job[a].relies
            /\ ~job'[a].missed => ~job[a].missed /\ ~(~(live /\ ~fails) /\ source.marks = "stored")
  <2>1. live /\ (~job'[a].missed \/ source.marks = "always") => ~fails
    <3>1. faults + 1 # faults
      BY Bounds DEF TypeInv, TypeOK
    <3> QED BY <1>1, <1>10, <3>1
  <2>2. GotCovered(a)'
    BY <1>2, <1>3, <1>6, <1>10, <2>1 DEF Covered, GotCovered, IsStored, Holds
  <2> QED BY <1>2, <1>7, <1>8, <1>10, <2>2 DEF Covered, KnownCovered
<1> QED BY <1>1, <1>3, <1>4, <1>9, <1>10, ProceedJob

\* A source of the promise marks an asset only after the store, and where the
\* job knows of a failure only if it marks whatever happened.
LEMMA MarkCovers ==
  ASSUME TypeInv, Trusted, NEW a \in Asset, Covered(a), MarkStep(a)
  PROVE  /\ Forward /\ Covered(a)'
         /\ \A b \in Asset : b # a => owed'[b] = owed[b]
<1> DEFINE kept == IF source.cached = "edge" THEN Item ELSE Scope
<1>1. Keeps(source)
  BY Trusts
<1>2. UNCHANGED <<source, live, stored, submitted>>
  BY DEF MarkStep, world
<1>3. /\ job[a].pc = "after" /\ source.steps[job[a].step] = "mark" /\ Proceed(a, FALSE)
      /\ job[a].got \subseteq Item /\ job[a].step \in 1 .. 3 /\ owed \in [Asset -> SUBSET Item]
  BY DEF MarkStep, Step, TypeInv, TypeOK, Job, StepInv
<1>4. job[a].step > 1
  <2>1. source.steps[1] = "store"
    BY <1>1 DEF Keeps, StoresFirst, QueryThenMark, URLScanSteps
  <2> QED BY <1>3, <2>1
<1>5. Forward
  BY <1>2 DEF Forward, IsStored
<1> DEFINE sure == ~job[a].missed \/ source.marks = "always"
<1>6. owed' = owed \/ (live /\ sure /\ owed' = [owed EXCEPT ![a] = kept \intersect job[a].got])
  BY DEF MarkStep, Mark, Marks, StandsFor
<1>7. MarkCovered(a)'
  <2>1. CASE owed' = owed
    BY <1>2, <2>1 DEF Covered, MarkCovered, IsStored, Holds
  <2>2. CASE live /\ sure /\ owed' = [owed EXCEPT ![a] = kept \intersect job[a].got]
    <3>1. owed'[a] = kept \intersect job[a].got /\ (source.cached = "known" => kept = Scope)
      BY <1>3, <2>2
    <3>2. \A n \in job[a].got : n \in Holds(a) /\ IsStored(n)
      BY <1>3, <1>4, <2>2 DEF Covered, GotCovered
    <3> HIDE DEF kept
    <3> QED BY <1>2, <3>1, <3>2 DEF MarkCovered, IsStored, Holds
  <2> QED BY <1>6, <2>1, <2>2
<1>8. job'[a].pc \in {"after", "done"} /\ job'[a].relies \subseteq submitted'
      /\ GotCovered(a)'
  <2>1. CASE job'[a] = Over({})
    <3>1. job'[a].pc = "done" /\ job'[a].got = {} /\ job'[a].relies = {}
      BY <2>1, NewJobType
    <3> QED BY <3>1 DEF GotCovered
  <2>2. CASE /\ job'[a].pc = "after" /\ job'[a].got = job[a].got /\ job'[a].relies = job[a].relies
             /\ ~job'[a].missed => ~job[a].missed
    BY <1>2, <1>3, <1>4, <2>2 DEF Covered, GotCovered, IsStored, Holds
  <2>3. FALSE \in BOOLEAN
    OBVIOUS
  <2> QED BY <1>3, <2>1, <2>2, <2>3, ProceedJob
<1>9. KnownCovered(a)'
  BY <1>8 DEF KnownCovered
<1>10. \A b \in Asset : b # a => owed'[b] = owed[b]
  BY <1>3, <1>6
<1> QED BY <1>5, <1>7, <1>8, <1>9, <1>10 DEF Covered

LEMMA ProcessCovers ==
  ASSUME TypeInv, Trusted, NEW a \in Asset, Covered(a), Process(a)
  PROVE  Forward /\ owed' = owed /\ Covered(a)'
<1>1. UNCHANGED <<source, live, stored, owed>> /\ submitted \subseteq submitted'
  BY DEF Process, world, database
<1>2. /\ job[a].pc = "after" /\ source.steps[job[a].step] = "process" /\ Proceed(a, FALSE)
      /\ job[a].step \in 1 .. 3
  BY DEF Process, Step, TypeInv, StepInv
<1>3. job[a].step > 1
  <2>1. source.steps[1] = "store"
    BY Trusts DEF Keeps, StoresFirst, QueryThenMark, URLScanSteps
  <2> QED BY <1>2, <2>1
<1>4. Forward
  BY <1>1 DEF Forward, IsStored
<1>5. MarkCovered(a)'
  BY <1>1 DEF Covered, MarkCovered, IsStored, Holds
<1>6. CASE job'[a] = Over({})
  <2>1. job'[a].pc = "done" /\ job'[a].got = {} /\ job'[a].relies = {}
    BY <1>6, NewJobType
  <2> QED BY <1>1, <1>4, <1>5, <2>1 DEF Covered, GotCovered, KnownCovered
<1>7. CASE /\ job'[a].pc = "after" /\ job'[a].got = job[a].got /\ job'[a].relies = job[a].relies
           /\ ~job'[a].missed => ~job[a].missed
  <2>1. GotCovered(a)'
    BY <1>1, <1>2, <1>3, <1>7 DEF Covered, GotCovered, IsStored, Holds
  <2> QED BY <1>1, <1>4, <1>5, <1>7, <2>1 DEF Covered, KnownCovered
<1>8. FALSE \in BOOLEAN
  OBVIOUS
<1> QED BY <1>2, <1>6, <1>7, <1>8, ProceedJob

\* A step of one job, for that job and for the others.
LEMMA JobCovers ==
  ASSUME TypeInv, Trusted, Trusted', CoverInv, NEW a \in Asset, JobStep(a),
         source.marks # "stored" => faults' = 0 /\ faults = 0
  PROVE  CoverInv'
<1>1. \A b \in Asset : Covered(b)
  BY DEF CoverInv
<1>2. Forward /\ Covered(a)' /\ \A b \in Asset : b # a => owed'[b] = owed[b]
  <2>1. Covered(a)
    BY <1>1
  <2> QED BY <2>1, KnownCovers, CheckCovers, RequestCovers, StoreCovers, MarkCovers, ProcessCovers
          DEF JobStep
<1>3. Only(a)
  <2>1. ASSUME NEW r, Ask(a, r) PROVE Only(a)
    <3>1. job[a].step = 1
      BY <2>1 DEF Ask, TypeInv, StepInv
    <3> QED BY <2>1, <3>1, AskJob DEF TypeInv
  <2>2. ASSUME Store(a) \/ MarkStep(a) \/ Process(a) PROVE Only(a)
    <3>1. job[a].pc = "after" /\ \E lost \in BOOLEAN : Proceed(a, lost)
      BY <2>2 DEF Store, MarkStep, Process, Step
    <3> QED BY <3>1, ProceedJob DEF Moved
  <2>3. ASSUME NEW r, List(a, r) PROVE Only(a)
    BY <2>3, ListJob DEF Moved
  <2> QED BY <2>1, <2>2, <2>3, KnownJob, CheckJob DEF JobStep, Moved
<1>4. ASSUME NEW b \in Asset PROVE Covered(b)'
  <2>1. CASE b = a
    BY <1>2, <2>1
  <2>2. CASE b # a
    BY <1>1, <1>2, <1>3, <2>2, CoverKept DEF Only
  <2> QED BY <2>1, <2>2
<1> QED BY <1>4 DEF CoverInv

LEMMA CoverNext == TypeInv /\ CoverInv /\ [Next]_vars => CoverInv'
<1> SUFFICES ASSUME TypeInv, CoverInv, [Next]_vars, Trusted' PROVE CoverInv'
  BY DEF CoverInv
<1>1. Trusted /\ source' = source /\ (source.marks # "stored" => faults' = 0 /\ faults = 0)
  BY TrustKept
<1>2. \A a \in Asset : Covered(a)
  BY <1>1 DEF CoverInv
<1>3. ASSUME EndSession \/ Tick \/ UNCHANGED vars PROVE CoverInv'
  <2>1. UNCHANGED <<source, job, stored, owed, submitted>> /\ (live' => live)
    BY <1>3 DEF EndSession, Tick, vars, world, database
  <2>2. Forward
    BY <2>1 DEF Forward, IsStored
  <2>3. \A a \in Asset : Covered(a)'
    BY <1>2, <2>1, <2>2, CoverKept
  <2> QED BY <2>3 DEF CoverInv
<1>4. ASSUME NewSession PROVE CoverInv'
  <2>1. job' = [a \in Asset |-> NewJob] /\ submitted' = {} /\ UNCHANGED <<source, stored, owed>>
    BY <1>4 DEF NewSession, world, database
  <2>2. ASSUME NEW a \in Asset PROVE Covered(a)'
    <3>1. /\ job'[a].got = {} /\ job'[a].relies = {} /\ job'[a].step = 1
          /\ (source.cached = "known" => job'[a].pc = "known")
      BY <1>1, <2>1, NewJobType, Trusts
    <3>2. MarkCovered(a)'
      BY <1>2, <2>1 DEF Covered, MarkCovered, IsStored, Holds
    <3> QED BY <2>1, <3>1, <3>2 DEF Covered, GotCovered, KnownCovered
  <2> QED BY <2>2 DEF CoverInv
<1>5. ASSUME NEW a \in Asset, JobStep(a) PROVE CoverInv'
  BY <1>1, <1>5, JobCovers
<1> QED BY <1>3, <1>4, <1>5 DEF Next

------------------------------------------------------------------------------
(* The theorems.                                                           *)

\* The variables keep to their types: the pages and keys of the query stay
\* within what there is, whatever the replies.
THEOREM TypeCorrect == Spec => []TypeOK
BY TypeAlways, PTL DEF TypeInv

\* A session that leaves out any of 31 sources because the asset is marked has
\* submitted all that the mark stands for.  The mark of a source that marks
\* whatever happened stands for what it was answered, not for what a failed
\* request of it would have brought.
THEOREM SkippedCovered == Spec => []SkippedIsCovered
<1>1. CoverInv => SkippedIsCovered
  BY DEF CoverInv, Trusted, Covered, SkippedIsCovered
<1> QED BY <1>1, TypeInit, TypeNext, CoverInit, CoverNext, PTL DEF Spec
=============================================================================
