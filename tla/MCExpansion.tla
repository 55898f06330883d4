----------------------------- MODULE MCExpansion -----------------------------
EXTENDS Expansion, TLC

MCDomain == [k \in {"a.com", "www.b.com", "b.com", "ptr"} |-> IF k = "www.b.com" THEN "b.com" ELSE k]
MCCovering == [k \in {"ip", "ip2"} |-> {"net"}]
MCBlacklist == {"ptr"}
MCAlike == {<<"acme", "b.com">>}
MCNorm == [n \in {"Acme Inc.", "acme", "Acme Ltd", "A", "a"} |-> IF n \in {"A", "a"} THEN "a" ELSE "acme"]
MCCountry == [j \in {"US-DE", "US", "GB"} |-> IF j = "GB" THEN "GB" ELSE "US"]

fqA == FQDN("a.com")
fqB == FQDN("b.com")
recA == <<"DomainRecord", "a.com", "a.com">>
recB == <<"DomainRecord", "b.com", "b.com">>
net == Netblock("net")
recN == <<"IPNetRecord", "net", "NET-1">>
recS == <<"AutnumRecord", "as", "acme">>
cert == <<"TLSCertificate", "www.b.com">>
loc == <<"Location", "1 Main St">>
Contact(x) == <<"ContactRecord", x>>

Asks(name, src, obj) ==
  [name |-> name, legal |-> "", jur |-> "", reg |-> "", src |-> src, obj |-> obj, rel |-> "organization",
   table |-> FALSE]

DomainContact(rec) == <<rec, "registrant_contact", Contact(rec)>>
NetContact(rec) == <<rec, "registrant", Contact(rec)>>

\* Two domains of one owner, one of them in scope; the names and contacts are all written alike.
Domains ==
  [seeds |-> {recA, recB}, scope |-> {fqA}, before |-> {<<fqA, "registration", recA>>, <<fqB, "registration", recB>>},
   orgs |-> <<>>, stores |-> {DomainContact(recA), DomainContact(recB)},
   calls |-> (recA :> Asks("Acme Inc.", "WHOIS", Contact(recA))) @@ (recB :> Asks("Acme Inc.", "WHOIS", Contact(recB))),
   arpa |-> {}, near |-> {}, rigid |-> FALSE, faults |-> 0]

\* A call of the database fails; and the scope may not grow.
Faulty == [Domains EXCEPT !.faults = 1]
Rigid == [Domains EXCEPT !.rigid = TRUE]

\* A netblock whose contact has only the address of the owner.
Netblocks ==
  [Domains EXCEPT
     !.seeds = {recA, recN},
     !.before = {<<fqA, "registration", recA>>, <<net, "registration", recN>>},
     !.stores = {DomainContact(recA), NetContact(recN),
                 <<Contact(recA), "location", loc>>, <<Contact(recN), "location", loc>>},
     !.calls = recA :> Asks("Acme Inc.", "WHOIS", Contact(recA))]

\* An autonomous system that announces a netblock, whose record names its owner.
Systems ==
  [Netblocks EXCEPT
     !.seeds = {recA, recS},
     !.before = {<<fqA, "registration", recA>>, <<AS("as"), "announces", net>>},
     !.stores = {DomainContact(recA), NetContact(recS)},
     !.calls = (recA :> Asks("Acme Inc.", "WHOIS", Contact(recA))) @@ (recS :> Asks("Acme Ltd", "RDAP", Contact(recS)))]

\* Three calls of two sources.
Three ==
  [Netblocks EXCEPT
     !.seeds = {recA, recB, recN},
     !.before = @ \cup Domains.before,
     !.stores = {DomainContact(recA), DomainContact(recB), NetContact(recN)},
     !.calls = Domains.calls @@ (recN :> Asks("Acme Ltd", "RDAP", Contact(recN)))]

\* Two names verify the same registered organization, which a third source knows by its parent.
parent == <<"Organization", "acme", "Acme Ltd", 1>>
Registration(name, src, obj, rel, table) ==
  [Asks(name, src, obj) EXCEPT !.jur = "US-DE", !.reg = "7", !.rel = rel, !.table = table]
Verified ==
  [Domains EXCEPT
     !.seeds = {fqA, fqB, parent}, !.before = {}, !.stores = {},
     !.orgs = parent :> (Asks("Acme Ltd", "GLEIF", None) @@ [inScope |-> FALSE]),
     !.calls = (fqA :> Registration("Acme Inc.", "TXT", fqA, "verified_for", TRUE))
               @@ (fqB :> Registration("Acme Inc.", "TXT", fqB, "verified_for", TRUE))
               @@ (parent :> [Registration("A", "GLEIF", parent, "subsidiary", FALSE) EXCEPT !.jur = "US", !.legal = "A"])]

\* Two calls for one contact and one for another state the same organization, and a call of the
\* database fails.  The scope may not grow, which has no part in this.
Retried ==
  [Domains EXCEPT
     !.seeds = {recA, recB, recN},
     !.before = {<<fqA, "registration", recA>>, <<fqB, "registration", recB>>, <<net, "registration", recN>>},
     !.stores = {DomainContact(recA), DomainContact(recB), <<recN, "registrant", Contact(recA)>>},
     !.calls = @ @@ (recN :> Asks("Acme Inc.", "WHOIS", Contact(recA))),
     !.rigid = TRUE, !.faults = 1]

\* A certificate of a name, whose organization also has the domain in scope.
Certified ==
  [Domains EXCEPT
     !.seeds = {recA, cert, FQDN("www.b.com")},
     !.before = {<<fqA, "registration", recA>>, <<fqB, "node", FQDN("www.b.com")>>,
                 <<cert, "common_name", FQDN("www.b.com")>>, <<<<"Service", "s">>, "certificate", cert>>},
     !.stores = {DomainContact(recA), <<cert, "subject_contact", Contact(cert)>>},
     !.calls = (recA :> Asks("Acme Inc.", "WHOIS", Contact(recA)))
               @@ (cert :> [Asks("Acme Inc.", "Certificate", Contact(cert)) EXCEPT !.legal = "Acme Ltd"])]

\* An address with a PTR record, and its neighbour.
ip == <<"IPAddress", "ip">>
Swept ==
  [Domains EXCEPT
     !.seeds = {ip, recA}, !.arpa = {FQDN("ptr")}, !.near = {<<"IPAddress", "ip2">>},
     !.before = @ \cup {<<ip, "ptr_record", FQDN("ptr")>>, <<FQDN("ptr"), "dns_record", fqB>>}]

MCWorlds == {Domains, Faulty, Rigid, Netblocks, Systems, Three, Verified, Retried, Certified, Swept}
==============================================================================
