----------------------------- MODULE AssetReads -----------------------------
(***************************************************************************)
(* What is looked for in the asset database, and whether anything writes   *)
(* it (AssetGraph).                                                        *)
(*                                                                         *)
(* A read is a path: a sequence of hops, each the set of facts of which    *)
(* one has to be there.  A hop by "any" takes a fact of any source.        *)
(***************************************************************************)
EXTENDS AssetGraph

Meets(need, fact) == need[1] \in {"any", fact[1]} /\ Tail(need) = Tail(fact)
IsWritten(need) == \E fact \in Written : Meets(need, fact)
Found(path) == \A i \in DOMAIN path : \E need \in path[i] : IsWritten(need)
Dead(path) == {need \in UNION {path[i] : i \in DOMAIN path} : ~IsWritten(need)}

-----------------------------------------------------------------------------
(* Lookups: what a plugin takes from the database while the asset is       *)
(* marked, and of records, whenever it was not handed the parsed record.   *)

Identified(by, kind, id) == Edges(by, {kind}, {"id"}, {id})

\* The record is found by its number or prefix, and must name RDAP itself.
RDAPAutsysLookup == <<Tags("RDAP", {"AutnumRecord"})>>
RDAPNetblockLookup == <<Tags("RDAP", {"IPNetRecord"})>>

RDAPRecordLookup(record) ==
  <<RDAPRecordWrites(record) \cup Edges("RDAP", {record}, RDAPContacts, {"ContactRecord"})>>
RDAPAutnumLookup == RDAPRecordLookup("AutnumRecord")
RDAPIPNetLookup == RDAPRecordLookup("IPNetRecord")

WHOISLookup == <<Tags("RDAP", {"DomainRecord"}) \cup Tags("WHOIS", {"DomainRecord"})>>

\* oneOfSources wants the source on what the record leads to.
DomainRecordLookup ==
  <<Edges("any", {"DomainRecord"}, {"name_server", "whois_server"}, {"FQDN"})
      \cup Edges("any", {"DomainRecord"}, WHOISContacts, {"ContactRecord"}),
    UNION {Tags(by, {"FQDN", "ContactRecord"}) : by \in {"RDAP", "WHOIS"}}>>

AviatoSearchLookup == <<Identified("Aviato", "Organization", "AviatoCompany")>>
AviatoEnrichLookup == AviatoSearchLookup
AviatoEmployeesLookup == AviatoSearchLookup \o <<Edges("Aviato", {"Organization"}, {"member"}, {"Person"})>>
AviatoRoundsLookup ==
  AviatoSearchLookup \o <<Edges("Aviato", {"Organization"}, {"account"}, {"Account"}),
                          Edges("Aviato", {"FundsTransfer"}, {"recipient"}, {"Account"})>>

GLEIFFuzzyLookup == <<Identified("GLEIF", "Organization", "LEICode")>>
GLEIFRelatedLookup == GLEIFFuzzyLookup \o <<Edges("GLEIF", {"Organization"}, {"subsidiary"}, {"Organization"})>>

Announced(by) == Edges(by, {"AutonomousSystem"}, {"announces"}, {"Netblock"})
BGPToolsAutsysLookup == <<Announced("BGP.Tools")>>
BGPToolsNetblockLookup == <<Edges("BGP.Tools", {"Netblock"}, {"contains"}, {"IPAddress"}), Announced("any")>>

\* lookupWithinTTL: a relation without the DNS source is taken as well.
DNSNameLookup == <<Edges("any", {"FQDN"}, {"dns_CNAME"}, {"FQDN"})>>
DNSAddressLookup == <<Edges("any", {"FQDN"}, {"dns_A"}, {"IPAddress"})>>
DNSSubsLookup == <<Edges("any", {"FQDN"}, {"dns_NS", "dns_MX"}, {"FQDN"})>>
DNSReverseLookup == <<Edges("any", {"FQDN"}, {"dns_PTR"}, {"FQDN"})>>

HTTPProbeLookup == <<Edges("HTTP-Probes", {"FQDN", "IPAddress"}, {"port"}, {"Service"})>>
ContactLookup == <<ContactEdges("any", Parts \cup {<<"organization", "Organization">>})>>
URLLookup ==
  <<Edges("any", {"URL"}, {"domain"}, {"FQDN"}) \cup Edges("any", {"URL"}, {"ip_address"}, {"IPAddress"})
      \cup Edges("any", {"URL"}, {"port"}, {"Service"}) \cup Edges("any", {"URL"}, {"file"}, {"File"})>>

\* All of it must carry the handler's own source.
TLSCertLookup ==
  <<TLSCertWrites \cup Edges("TLSCert-Expansion", {"TLSCertificate"}, {"subject_contact", "issuer_contact"}, {"ContactRecord"})
      \cup Edges("TLSCert-Expansion", {"TLSCertificate"}, {"issuing_certificate"}, {"TLSCertificate"})>>

Lookups ==
  {RDAPAutsysLookup, RDAPNetblockLookup, RDAPAutnumLookup, RDAPIPNetLookup, WHOISLookup, DomainRecordLookup,
   AviatoSearchLookup, AviatoEnrichLookup, AviatoEmployeesLookup, AviatoRoundsLookup, GLEIFFuzzyLookup,
   GLEIFRelatedLookup, BGPToolsAutsysLookup, BGPToolsNetblockLookup, DNSNameLookup, DNSAddressLookup,
   DNSSubsLookup, DNSReverseLookup, HTTPProbeLookup, ContactLookup, URLLookup, TLSCertLookup}

-----------------------------------------------------------------------------
(* Walks: relations that are followed whoever wrote them.                  *)

DNS(types, to) == Edges("any", {"FQDN"}, types, {to})

\* Name servers are looked for among the records with a preference, and are written without one.
NamesToAddrsWalk ==
  <<DNS({"dns_A"}, "IPAddress") \cup DNS({"dns_CNAME", "dns_NS_preference", "dns_MX", "dns_SRV"}, "FQDN"),
    DNS({"dns_A"}, "IPAddress")>>
ReadASPrefixesWalk == <<Announced("any")>>
ASNCacheWalk == <<Edges("any", {"AutonomousSystem"}, {"registration"}, {"AutnumRecord"}), Announced("any")>>
FQDNScopeWalk == <<Edges("any", {"FQDN"}, {"node"}, {"FQDN"})>>

\* The incoming relations a graph is drawn along, of the kinds that limit them.
VizWalk ==
  <<Edges("any", {"FundsTransfer"}, {"sender", "recipient"}, {"Account"})
      \cup Edges("any", {"Netblock"}, {"contains"}, {"IPAddress"}) \cup Announced("any")
      \cup Edges("any", {"Organization"}, {"subsidiary"}, {"Organization"})
      \cup Edges("any", {"AutonomousSystem"}, {"registration"}, {"AutnumRecord"})
      \cup Edges("any", {"Netblock"}, {"registration"}, {"IPNetRecord"})>>

\* NetblockOwnedBySeed, from an address on: the e-mail of a contact of the block's record.
OwnedWalk ==
  <<Edges("any", {"Netblock"}, {"contains"}, {"IPAddress"}), Edges("any", {"Netblock"}, {"registration"}, {"IPNetRecord"}),
    Edges("any", {"IPNetRecord"}, RDAPContacts, {"ContactRecord"}), Identified("any", "ContactRecord", "EmailAddress")>>

\* A host's services, its addresses' too, and their certificates.
PortWalk == <<Edges("any", {"FQDN", "IPAddress"}, {"port"}, {"Service"})>>
CreateServiceWalk == DNSAddressLookup \o PortWalk \o <<Edges("any", {"Service"}, {"certificate"}, {"TLSCertificate"})>>
JARMWalk == <<Edges("any", {"Service"}, {"certificate"}, {"TLSCertificate"})>> \o PortWalk
OriginWalk == PortWalk

\* The reverse name of an address, and the name that stands under it.
HorizontalPTRWalk == <<Edges("any", {"IPAddress"}, {"ptr_record"}, {"FQDN"}), DNS({"dns_PTR"}, "FQDN")>>
ContactOrganization == Edges("any", {"ContactRecord"}, {"organization"}, {"Organization"})
HorizontalContactWalk ==
  <<ContactOrganization, Edges("any", {"Organization"}, {"hq_address", "location"}, {"Location"})>>
HorizontalLocationWalk ==
  <<Edges("any", {"ContactRecord"}, {"location"}, {"Location"}),
    Edges("any", {"AutnumRecord", "IPNetRecord"}, {"registrant"}, {"ContactRecord"})
      \cup Edges("any", {"DomainRecord"}, {"registrant_contact"}, {"ContactRecord"})
      \cup Edges("any", {"TLSCertificate"}, {"subject_contact"}, {"ContactRecord"})>>
AnnouncedWalk == <<Announced("any")>>
OrgLEIWalk == <<Identified("any", "Organization", "LEICode")>>
LocMatchWalk == <<ContactOrganization, Edges("any", {"ContactRecord"}, {"location"}, {"Location"})>>

Walks ==
  {NamesToAddrsWalk, ReadASPrefixesWalk, ASNCacheWalk, FQDNScopeWalk, VizWalk, OwnedWalk, PortWalk,
   CreateServiceWalk, JARMWalk, OriginWalk, HorizontalPTRWalk, HorizontalContactWalk,
   HorizontalLocationWalk, AnnouncedWalk, OrgLEIWalk, LocMatchWalk}

-----------------------------------------------------------------------------
\* All that is looked for and never written.  The lookups of autonomous systems and of domain
\* records find nothing on its account; the others have something else to find.
DeadReads ==
  RDAPAutsysLookup[1] \cup DomainRecordLookup[2]
    \cup Edges("any", {"URL"}, {"port"}, {"Service"})
    \cup Edges("TLSCert-Expansion", {"TLSCertificate"}, {"issuing_certificate"}, {"TLSCertificate"})
    \cup DNS({"dns_NS_preference", "dns_SRV"}, "FQDN")

ASSUME ReadsAssumption ==
  /\ UNION {Dead(p) : p \in Lookups \cup Walks} = DeadReads
  /\ {p \in Lookups \cup Walks : ~Found(p)} = {RDAPAutsysLookup, DomainRecordLookup}
=============================================================================
