---------------------------- MODULE DataSources ----------------------------
(***************************************************************************)
(* The plugins that ask one remote source about an asset (engine/plugins/  *)
(* api, archive, scrape and whois).  Each of them is the same few steps in *)
(* an order of its own, so a plugin is a record that says what its check   *)
(* and query methods do, and the module SourceLookups runs any of them.    *)
(* What a source answers are the items of the asset: names, or records,    *)
(* identifiers, people, organisations.                                     *)
(*                                                                         *)
(*   creds    when the plugin declines to run: "none" and "optional" never *)
(*            decline, "listed" wants a credentials entry, "required" an   *)
(*            entry with a key in it                                       *)
(*   public   the source is also asked without a key, after the keys       *)
(*   onFail   after a request that failed: "stop" the query, try the       *)
(*            "nextKey" (or the next protocol), go "onward" to the next    *)
(*            request, or "skipPage" once the number of pages is known;    *)
(*            "never" when no request is made at all                       *)
(*   final    failures after which no other key is tried                   *)
(*   paged    the answer comes in pages                                    *)
(*   list     the requests to make are themselves fetched first            *)
(*   failures the replies the plugin takes for a failed request; any other *)
(*            reply that is not an answer is read as an empty last page    *)
(*   skips    a request may be given up because the rate limiter would     *)
(*            keep it waiting for too long                                 *)
(*   marks    the asset is marked monitored "always", only when the lookup *)
(*            "completed", or only when what it returned was also "stored" *)
(*   block    lookups are shared by the assets of one block                *)
(*   scoped   names outside of the session's scope are dropped             *)
(*   cached   what becomes of an asset that is marked: Known-FQDN has      *)
(*            submitted its names already ("known"); the plugin submits    *)
(*            what it stored within the TTL ("edge"), or looks for what    *)
(*            nobody ever stores ("lost", see AssetReads); or nothing      *)
(*            ("none")                                                     *)
(*   link     what was stored is found through a relation that an earlier  *)
(*            handler stored, and that must lie within the TTL too         *)
(*   steps    what follows the query, in this order                        *)
(***************************************************************************)
EXTENDS AssetReads

\* What a request can come back with.  "refused" is an HTTP status other than
\* 200 with a body that decodes to nothing, "notice" a reply that says why
\* there is nothing (a quota, no such object), "garbled" one that does not decode.
Replies == {"answer", "error", "refused", "empty", "garbled", "notice"}

\* HTTPLookupFailure: only a 200 with a body is usable.
HTTPLookupFailure == {"error", "refused", "empty"}

NoNumber == {"error", "empty", "garbled"}
QueryThenMark == <<"store", "mark", "process">>

\* A source that needs no key and gets everything from one request.
OneRequest(plugin, failures, marks) ==
  [plugin |-> plugin, creds |-> "none", public |-> FALSE, onFail |-> "stop",
   final |-> {}, paged |-> FALSE, list |-> FALSE, failures |-> failures, skips |-> FALSE,
   marks |-> marks, block |-> FALSE, scoped |-> TRUE, cached |-> "known",
   link |-> FALSE, steps |-> QueryThenMark]

\* A source whose configured keys are tried until one of them is answered; the
\* status code is not looked at and the asset is marked whatever happened.
EachKey(plugin) ==
  [OneRequest(plugin, NoNumber, "always") EXCEPT !.creds = "listed", !.onFail = "nextKey"]

AlienVault ==
  [OneRequest("AlienVault", HTTPLookupFailure \union {"garbled"}, "completed") EXCEPT
    !.creds = "required", !.onFail = "nextKey"]

\* A failed page is asked for again with the next key.
BinaryEdge == [EachKey("BinaryEdge") EXCEPT !.paged = TRUE]

\* page: it also fails while the server's Retry-After lasts.
CertSpotterPage == HTTPLookupFailure \union {"garbled"}

\* Names of the pages before a failed one are kept.
CertSpotter ==
  [OneRequest("CertSpotter", CertSpotterPage, "completed") EXCEPT
    !.creds = "optional", !.paged = TRUE, !.skips = TRUE]

Chaos == EachKey("Chaos")

\* queryCollection: no captures come as a 404 or an empty body.
CommonCrawlCollection == {"error", "refused"}

\* The crawl collections are listed once for the process; then each is asked,
\* whatever became of the others.
CommonCrawl ==
  [OneRequest("CommonCrawl", CommonCrawlCollection, "always") EXCEPT
    !.list = TRUE, !.paged = TRUE, !.onFail = "onward", !.skips = TRUE]

Crtsh == OneRequest("crt.sh", HTTPLookupFailure \union {"garbled"}, "completed")

DNSDumpster ==
  [OneRequest("DNSDumpster", HTTPLookupFailure \union {"garbled", "notice"}, "completed") EXCEPT
    !.creds = "required", !.skips = TRUE]

\* Each key asks the API, then the empty key reads the public page.
DNSRepo ==
  [OneRequest("DNSRepo", HTTPLookupFailure \union {"garbled"}, "completed") EXCEPT
    !.creds = "optional", !.public = TRUE, !.onFail = "nextKey"]

\* Pages of code that mentions an address of the domain, until one has none.
\* They are e-mail addresses, which Known-FQDN does not bring back.
GrepApp ==
  [OneRequest("Grep.App", NoNumber, "always") EXCEPT !.paged = TRUE, !.cached = "none"]

\* The quota notice comes with status 200; other texts count as an answer.
HackerTarget == OneRequest("HackerTarget", HTTPLookupFailure \union {"notice"}, "completed")

\* fetchCSV: a 404, or an empty body, is an answer.
THCFetch == {"error", "refused"}

\* Two lists, each asked for whatever became of the other.
IPTHC ==
  [OneRequest("IP-THC", THCFetch, "completed") EXCEPT
    !.paged = TRUE, !.onFail = "onward", !.skips = TRUE]

\* One request for each /24 of the process' life; the address is marked before
\* the names are stored, and an address of a block asked for before is marked
\* at once.
IPTHCAddress ==
  [OneRequest("IP-THC-IP", THCFetch, "completed") EXCEPT
    !.skips = TRUE, !.block = TRUE, !.steps = <<"mark", "store", "process">>]

LeakIX == EachKey("LeakIX")

SecurityTrails == EachKey("SecurityTrails")

SubdomainCenter ==
  [OneRequest("SubdomainCenter", HTTPLookupFailure \union {"garbled"}, "completed") EXCEPT
    !.creds = "optional", !.skips = TRUE]

\* query stores and dispatches what it decoded before it reports success.
URLScanSteps == <<"store", "process", "mark">>

\* What a scan saw is kept whatever the scope.
URLScan ==
  [OneRequest("URLScan", HTTPLookupFailure \union {"garbled"}, "completed") EXCEPT
    !.creds = "required", !.skips = TRUE, !.scoped = FALSE, !.steps = URLScanSteps]

VirusTotal == EachKey("VirusTotal")

\* An answer that does not decode, or holds nothing, ends the query.
Zetalytics == [EachKey("ZETAlytics") EXCEPT !.failures = {"error", "empty"}]

\* Pages 1 to 19; one that is refused, or names nothing, ends the query.
DNSHistory == [OneRequest("DNSHistory", {"error", "refused"}, "always") EXCEPT !.paged = TRUE]

SiteDossier == [OneRequest("SiteDossier", {"error", "refused"}, "always") EXCEPT !.paged = TRUE]

RapidDNS == OneRequest("RapidDNS", HTTPLookupFailure, "completed")

-----------------------------------------------------------------------------
\* Plugins that look up a record of the asset and, while it is marked, take the
\* record from the database.

Record(plugin, failures, marks, lookup) ==
  [OneRequest(plugin, failures, marks) EXCEPT
    !.scoped = FALSE, !.cached = IF Found(lookup) THEN "edge" ELSE "lost"]

\* rdapLookupFailure: an object that does not exist is an answer.
RDAPLookupFailure == {"error", "refused", "empty", "garbled"}

\* A record without its dates is not kept.  That of an autonomous system carries its
\* source on the relation only, while the lookup wants it on the record itself.
RDAPAutsys == Record("RDAP-Autsys", RDAPLookupFailure, "completed", RDAPAutsysLookup)

RDAPNetblock == Record("RDAP-Netblock", RDAPLookupFailure, "completed", RDAPNetblockLookup)

\* queryRDAP and whoisAnswered: an object that is not found is the answer of a
\* registry; that RDAP knows no server for the domain is none.
WHOISFailures == {"error", "refused", "empty", "garbled"}

\* RDAP is asked first and the WHOIS server when RDAP has no record; either
\* may be skipped, as it waits for its limiter or was told to back off.
WHOISDomain ==
  [Record("WHOIS", WHOISFailures, "stored", WHOISLookup) EXCEPT
    !.onFail = "nextKey", !.creds = "protocols", !.skips = TRUE]

AviatoSearch ==
  [Record("Aviato-Search", {"error", "refused"}, "always", AviatoSearchLookup) EXCEPT
    !.creds = "required", !.onFail = "nextKey"]

AviatoEnrich ==
  [Record("Aviato-Enrich", {"error", "refused", "empty", "notice", "garbled"}, "completed",
          AviatoEnrichLookup) EXCEPT
    !.creds = "required", !.onFail = "nextKey", !.final = {"garbled"}, !.link = TRUE]

AviatoPage == {"error", "refused", "empty", "notice"}

\* Pages are stored one by one.  One that fails is passed over; the keys after
\* the first are never used, as the only page known by then has been tried.
AviatoEmployees ==
  [Record("Aviato-Employees", AviatoPage, "always", AviatoEmployeesLookup) EXCEPT
    !.creds = "required", !.paged = TRUE, !.onFail = "skipPage", !.link = TRUE]

AviatoRounds ==
  [Record("Aviato-Rounds", AviatoPage, "always", AviatoRoundsLookup) EXCEPT
    !.creds = "required", !.paged = TRUE, !.onFail = "skipPage", !.link = TRUE]

\* gleifGet
GLEIFGet == {"error", "refused", "empty", "garbled"}

\* The record of the LEI the organisation has, or of the names that match it
\* best.  That there is none is an answer.
GLEIFFuzzy == Record("GLEIF-Fuzzy", GLEIFGet, "stored", GLEIFFuzzyLookup)

\* The parent and the children, each asked for whatever became of the other.
GLEIFRelated ==
  [Record("GLEIF-Related", GLEIFGet, "completed", GLEIFRelatedLookup) EXCEPT
    !.paged = TRUE, !.onFail = "onward", !.link = TRUE]

-----------------------------------------------------------------------------
\* The plugins above that load.go starts.
Sources ==
  {AlienVault, BinaryEdge, CertSpotter, Chaos, CommonCrawl, Crtsh, DNSDumpster, DNSRepo,
   GrepApp, HackerTarget, IPTHC, IPTHCAddress, LeakIX, SecurityTrails, SubdomainCenter,
   URLScan, VirusTotal, Zetalytics, DNSHistory, SiteDossier, RapidDNS,
   RDAPAutsys, RDAPNetblock, WHOISDomain, AviatoSearch, AviatoEnrich, AviatoEmployees,
   AviatoRounds, GLEIFFuzzy, GLEIFRelated}

\* Plugins of the repository that load.go leaves out.
Bing == [OneRequest("Bing", {"error", "empty"}, "always") EXCEPT !.paged = TRUE]
DuckDuckGo == OneRequest("DuckDuckGo", {"error", "empty"}, "always")
Wayback == OneRequest("Wayback", NoNumber, "always")

\* The page loop starts with no page to ask for, so nothing is ever asked.
PassiveTotal == [EachKey("PassiveTotal") EXCEPT !.onFail = "never"]

Unloaded == {Bing, DuckDuckGo, Wayback, PassiveTotal}
=============================================================================
