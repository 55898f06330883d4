------------------------------ MODULE Handlers ------------------------------
(***************************************************************************)
(* The handlers that the plugins of load.go register: what NewX says of a  *)
(* plugin and what its Start registers.  A plugin is the set of its        *)
(* handlers, and a handler is a record:                                    *)
(*                                                                         *)
(*   plugin, name  whose it is and which one                               *)
(*   type          the asset type whose events it gets                     *)
(*   at            its position in the pipeline of that type               *)
(*   exclusive     registered only if the position is free                 *)
(*   instances     how many events it works on at once                     *)
(*   to            the types its results have (Transforms)                 *)
(*   sld           its callback returns at once for a name that does not   *)
(*                 carry the mark of a domain in scope (HasSLDInScope)     *)
(***************************************************************************)
EXTENDS Naturals

\* support.MinHandlerInstances and so on, in their order.
MinInstances == 4
MidInstances == 16
HighInstances == 32
MaxInstances == 64

Handler(plugin, name, type, at, exclusive, instances, to) ==
  [plugin |-> plugin, name |-> name, type |-> type, at |-> at, exclusive |-> exclusive,
   instances |-> instances, to |-> to, sld |-> FALSE]

\* A source of names that is asked about the domains in scope only.
OSINT(plugin, at, exclusive, to) ==
  {[Handler(plugin, plugin, "FQDN", at, exclusive, MidInstances, to) EXCEPT !.sld = TRUE]}

AlienVault == OSINT("AlienVault", 22, FALSE, {"FQDN"})
BinaryEdge == OSINT("BinaryEdge", 20, FALSE, {"FQDN"})
CertSpotter == OSINT("CertSpotter", 22, FALSE, {"FQDN"})
Chaos == OSINT("Chaos", 21, FALSE, {"FQDN"})
CommonCrawl == OSINT("CommonCrawl", 25, FALSE, {"FQDN"})
Crtsh == OSINT("crt.sh", 22, FALSE, {"FQDN"})
DNSDumpster == OSINT("DNSDumpster", 25, FALSE, {"FQDN"})
DNSRepo == OSINT("DNSRepo", 23, FALSE, {"FQDN"})
GrepApp == OSINT("Grep.App", 24, FALSE, {"Identifier"})
HackerTarget == OSINT("HackerTarget", 25, FALSE, {"FQDN"})
IPTHC == OSINT("IP-THC", 25, FALSE, {"FQDN"})
         \union {Handler("IP-THC", "IP", "IPAddress", 22, FALSE, MidInstances, {"FQDN"})}
LeakIX == OSINT("LeakIX", 27, FALSE, {"FQDN"})
Prospeo == OSINT("Prospeo", 29, FALSE, {"Identifier"})
SecurityTrails == OSINT("SecurityTrails", 30, TRUE, {"FQDN"})
SubdomainCenter == OSINT("SubdomainCenter", 25, FALSE, {"FQDN"})
URLScan == OSINT("URLScan", 25, FALSE, {"FQDN", "IPAddress"})
\* Mutant: a source put where an exclusive one already is.
VirusTotalAtThirty == OSINT("VirusTotal", 30, FALSE, {"FQDN"})

VirusTotal == OSINT("VirusTotal", 31, FALSE, {"FQDN"})
ZETAlytics == OSINT("ZETAlytics", 32, TRUE, {"FQDN"})
DNSHistory == OSINT("DNSHistory", 34, TRUE, {"FQDN"})
RapidDNS == OSINT("RapidDNS", 36, TRUE, {"FQDN"})
SiteDossier == OSINT("SiteDossier", 37, TRUE, {"FQDN"})

Aviato ==
  {Handler("Aviato", "employees", "Identifier", 41, TRUE, MinInstances, {"Person"}),
   Handler("Aviato", "companyRounds", "Identifier", 42, TRUE, MinInstances,
           {"Organization", "Account", "FundsTransfer"}),
   Handler("Aviato", "companyEnrich", "Identifier", 43, TRUE, MinInstances,
           {"Organization"}),
   Handler("Aviato", "companySearch", "Organization", 41, TRUE, MinInstances,
           {"Identifier"})}

BGPTools ==
  {Handler("BGP.Tools", "netblock", "IPAddress", 2, TRUE, MinInstances, {"Netblock"}),
   Handler("BGP.Tools", "autsys", "Netblock", 2, TRUE, MinInstances, {"AutonomousSystem"})}

FQDNAlterations ==
  {Handler("FQDN-Alterations", "alterations", "FQDN", 13, FALSE, MaxInstances, {"FQDN"})}

DNS ==
  {Handler("DNS", "cname", "FQDN", 2, TRUE, MidInstances, {"FQDN"}),
   Handler("DNS", "ip", "FQDN", 3, TRUE, MidInstances, {"IPAddress"}),
   Handler("DNS", "subs", "FQDN", 7, TRUE, MidInstances, {"FQDN"}),
   Handler("DNS", "apex", "FQDN", 8, TRUE, MaxInstances, {"FQDN"}),
   Handler("DNS", "txt", "FQDN", 9, TRUE, MidInstances, {"FQDN"}),
   Handler("DNS", "reverse", "IPAddress", 8, TRUE, MidInstances, {"FQDN"})}

DNSSD == {Handler("DNS-SD", "txt", "FQDN", 12, FALSE, MaxInstances, {"Organization"})}

\* What the details of a registration record are made of.
Registration == {"FQDN", "URL", "ContactRecord", "Person", "Organization", "Location",
                 "Identifier", "Phone"}

BannerURLs == {Handler("Service-Banner-URLs", "banner_url", "Service", 10, FALSE, MidInstances,
                       {"URL"})}
Contacts == {Handler("Contract-Record-Expansion", "contact", "ContactRecord", 40, FALSE,
                     MidInstances, Registration \ {"FQDN", "ContactRecord"})}
TechStack == {Handler("Tech-Stack", "techstack", "Service", 44, FALSE, MidInstances,
                      {"Product"})}
Emails == {Handler("Email-Expansion", "email", "Identifier", 15, FALSE, MidInstances,
                   {"FQDN"})}
TLSCerts == {Handler("TLSCert-Expansion", "tls_cert", "TLSCertificate", 2, TRUE, MidInstances,
                     {"URL", "FQDN", "IPAddress", "ContactRecord", "Organization", "Location",
                      "Identifier", "TLSCertificate"})}
URLs == {Handler("URL-Expansion", "url", "URL", 10, FALSE, MidInstances,
                 {"FQDN", "IPAddress", "Service", "File"})}

GLEIF ==
  {Handler("GLEIF", "fuzzy", "Organization", 48, TRUE, MinInstances, {"Identifier"}),
   Handler("GLEIF", "related", "Identifier", 48, TRUE, MinInstances, {"Organization"})}

Horizontals ==
  {Handler("Horizontals", "horizontals", t, 10, TRUE, MinInstances, {t}) :
     t \in {"FQDN", "IPAddress", "Organization", "Location", "AutnumRecord", "DomainRecord",
            "IPNetRecord", "TLSCertificate"}}

HTTPProbing ==
  {Handler("HTTP-Probes", "fqdnend", "FQDN", 41, TRUE, MidInstances,
           {"Service", "TLSCertificate"}),
   Handler("HTTP-Probes", "ipaddr", "IPAddress", 42, TRUE, HighInstances,
           {"Service", "TLSCertificate"})}

PortPrefilter == {Handler("Port-Prefilter", "prefilter", "IPAddress", 41, TRUE, HighInstances,
                          {"Service"})}

ProtocolProbes == {Handler("Protocol-Probes", "probes", "IPAddress", 43, FALSE, MidInstances,
                           {"Service", "TLSCertificate", "Product", "ProductRelease"})}

RDAP ==
  {Handler("RDAP", "autsys", "AutonomousSystem", 40, TRUE, MinInstances, {"AutnumRecord"}),
   Handler("RDAP", "autnum", "AutnumRecord", 2, TRUE, MidInstances, Registration),
   Handler("RDAP", "netblock", "Netblock", 40, TRUE, MinInstances, {"IPNetRecord"}),
   Handler("RDAP", "ipnet", "IPNetRecord", 2, TRUE, MidInstances, Registration)}

IPVerse == {Handler("GitHub-IPVerse", "ipverse", "AutonomousSystem", 30, TRUE, MidInstances,
                    {"Netblock"})}

WHOIS ==
  {Handler("WHOIS", "fqdn", "FQDN", 14, TRUE, MidInstances, {"DomainRecord"}),
   Handler("WHOIS", "domrec", "DomainRecord", 2, TRUE, MidInstances, Registration)}

IPNetblock == {Handler("IP-Netblock", "ip_netblock", "IPAddress", 4, FALSE, MaxInstances,
                       {"Netblock"})}
JARMFingerprints == {Handler("JARM-Fingerprint", "jarm", "Service", 42, FALSE, MidInstances,
                             {"Service"})}
KnownFQDN == {Handler("Known-FQDN", "known_fqdn", "FQDN", 11, FALSE, MaxInstances,
                      {"FQDN"})}
PageLinks == {Handler("Page-Links", "pagelinks", "Service", 43, FALSE, MidInstances,
                      {"FQDN"})}

\* pluginNewFuncs: the plugins in the order they are started.
Plugins ==
  <<AlienVault, BinaryEdge, CertSpotter, Chaos, CommonCrawl, Crtsh, DNSDumpster, DNSRepo,
    GrepApp, HackerTarget, IPTHC, LeakIX, Prospeo, SecurityTrails, SubdomainCenter, URLScan,
    VirusTotal, ZETAlytics, Aviato, BGPTools, FQDNAlterations, DNS, DNSSD, BannerURLs,
    Contacts, TechStack, Emails, TLSCerts, URLs, GLEIF, Horizontals, HTTPProbing,
    PortPrefilter, ProtocolProbes, RDAP, DNSHistory, IPVerse, RapidDNS, SiteDossier, WHOIS,
    IPNetblock, JARMFingerprints, KnownFQDN, PageLinks>>

\* Plugins of the repository that load.go leaves out.
PassiveTotal == OSINT("PassiveTotal", 28, FALSE, {"FQDN"})
Bing == OSINT("Bing", 33, TRUE, {"FQDN"})
DuckDuckGo == OSINT("DuckDuckGo", 35, TRUE, {"FQDN"})
Wayback == {[Handler("Wayback", "Wayback", "FQDN", 40, FALSE, 1,
                     {"FQDN"}) EXCEPT !.sld = TRUE]}
Retired == {PassiveTotal, Bing, DuckDuckGo, Wayback}
=============================================================================
