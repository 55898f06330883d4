----------------------------- MODULE AssetGraph -----------------------------
(***************************************************************************)
(* The relations the plugins write into the asset database, and the ones   *)
(* they look for there.  While an asset is marked, a plugin takes what it  *)
(* stored from the database; it finds it only where what it looks for is   *)
(* what was written, down to the source tag.                               *)
(*                                                                         *)
(* A fact <<by, from, label, to>> says that some relation of this label    *)
(* leads from an asset of one kind to one of another, and that its source  *)
(* property names by ("" when it has none).  <<by, kind, "tag", kind>>     *)
(* says the same of a property of the asset itself.  DNS relations are     *)
(* told apart by their record type, identifiers by their identifier type.  *)
(* Written has the facts of any event; whether one event makes a plugin    *)
(* write them is its handler's matter.                                     *)
(***************************************************************************)
EXTENDS Sequences

Edges(by, from, labels, to) == {by} \X from \X labels \X to
Tags(by, kinds) == {<<by, k, "tag", k>> : k \in kinds}

-----------------------------------------------------------------------------
(* What is written.                                                        *)

\* CreateOrgAsset: the organization, its legal name and claims, and the relation asked for.
OrganizationIds == {"OrganizationName", "LegalName", "RegistrationID"}
OrganizationFrom(by, from, labels) ==
  Edges(by, from, labels, {"Organization"}) \cup Edges(by, {"Organization"}, {"id"}, OrganizationIds)
    \cup Tags(by, {"Organization"} \cup OrganizationIds)

\* storeEntity, storeContact: what a contact record says.
ContactEdges(by, parts) ==
  UNION {Edges(by, {"ContactRecord"}, {p[1]}, {p[2]}) : p \in parts}
Parts == {<<"url", "URL">>, <<"location", "Location">>, <<"id", "EmailAddress">>,
          <<"phone", "Phone">>, <<"person", "Person">>}

AviatoSearchWrites == Edges("Aviato", {"Organization"}, {"id"}, {"AviatoCompany"}) \cup Tags("Aviato", {"AviatoCompany"})

\* The legal name is tagged with the handler, the relation to it with the plugin.
AviatoEnrichWrites == Edges("Aviato", {"Organization"}, {"id"}, {"LegalName"}) \cup Tags("Aviato-Company-Enrich", {"LegalName"})

AviatoEmployeesWrites == Edges("Aviato", {"Organization"}, {"member"}, {"Person"}) \cup Tags("Aviato", {"Person"})

\* A round: from the account of an investor to that of the organization.
RoundWrites ==
  Edges("Aviato", {"FundsTransfer"}, {"recipient", "sender"}, {"Account"}) \cup Tags("Aviato", {"FundsTransfer"})
CheckingAccountWrites == Edges("Aviato", {"Organization"}, {"account"}, {"Account"}) \cup Tags("Aviato", {"Account"})
SeedAccountWrites == Edges("Aviato", {"Organization", "Person"}, {"account"}, {"Account"}) \cup Tags("Aviato", {"Account"})
OrgInvestorWrites ==
  OrganizationFrom("Aviato", {}, {}) \cup Edges("Aviato", {"Organization"}, {"id"}, {"AviatoCompany"})
    \cup Tags("Aviato", {"AviatoCompany"})
PersonInvestorWrites == Edges("Aviato", {"Person"}, {"id"}, {"AviatoPerson"}) \cup Tags("Aviato", {"Person"})

LEIRecordWrites == Edges("GLEIF", {"Organization"}, {"id"}, {"LEICode"}) \cup Tags("GLEIF", {"LEICode"})

\* updateOrgFromLEIRecord: addresses, and other identifiers of the organization.
LEIAddressWrites ==
  Edges("GLEIF", {"Organization"}, {"legal_address", "hq_address", "location"}, {"Location"}) \cup Tags("GLEIF", {"Location"})
OtherIds == {"LegalName", "OrganizationName", "BankIDCode", "MarketIDCode", "OpenCorpID", "SPGlobalCompanyID"}
LEIIdentifierWrites == Edges("GLEIF", {"Organization"}, {"id"}, OtherIds) \cup Tags("GLEIF", OtherIds)

\* The parent gets its relation here; a child only where CreateOrgAsset makes it.
GLEIFRelatedWrites == OrganizationFrom("GLEIF", {"Organization"}, {"subsidiary"})

\* The source goes to the relation and not to the record.
RDAPAutsysWrites == Edges("RDAP", {"AutonomousSystem"}, {"registration"}, {"AutnumRecord"})
RDAPNetblockWrites == Edges("RDAP", {"Netblock"}, {"registration"}, {"IPNetRecord"}) \cup Tags("RDAP", {"IPNetRecord"})

RDAPRecordWrites(record) == Edges("RDAP", {record}, {"rdap_url"}, {"URL"}) \cup Edges("RDAP", {record}, {"whois_server"}, {"FQDN"})
RDAPAutnumWrites == RDAPRecordWrites("AutnumRecord")
RDAPIPNetWrites == RDAPRecordWrites("IPNetRecord")

\* storeEntity: an organization found by its handle gets no relation, others do.
RDAPContacts == {"registrant", "admin_contact", "abuse_contact", "technical_contact"}
RDAPEntityWrites ==
  Edges("RDAP", {"AutnumRecord", "IPNetRecord"}, RDAPContacts, {"ContactRecord"}) \cup ContactEdges("RDAP", Parts)
    \cup OrganizationFrom("RDAP", {"ContactRecord"}, {"organization"})

\* storeRecord tags the record with the protocol that had it.
DomainWrites ==
  UNION {Edges(p, {"FQDN"}, {"registration"}, {"DomainRecord"}) \cup Tags(p, {"DomainRecord"}) : p \in {"RDAP", "WHOIS"}}

\* The record's own source is read again but not used: all of this is WHOIS.
WHOISContacts ==
  {"registrar_contact", "registrant_contact", "admin_contact", "technical_contact", "billing_contact"}
DomainRecordWrites ==
  Edges("WHOIS", {"DomainRecord"}, {"name_server", "whois_server"}, {"FQDN"})
    \cup Edges("WHOIS", {"DomainRecord"}, WHOISContacts, {"ContactRecord"})
DomainContactWrites == ContactEdges("WHOIS", Parts) \cup OrganizationFrom("WHOIS", {"ContactRecord"}, {"organization"})

AnnounceWrites(by) == Edges(by, {"AutonomousSystem"}, {"announces"}, {"Netblock"}) \cup Tags(by, {"AutonomousSystem"})
ContainWrites(by) == Edges(by, {"Netblock"}, {"contains"}, {"IPAddress"}) \cup Tags(by, {"Netblock"})

\* The plugins that fill the session's table of netblocks.
TableSources == {"BGP.Tools", "GitHub-IPVerse"}

\* The relation is BGP.Tools' own, the system is tagged with the source in the table.
BGPToolsAutsysWrites == AnnounceWrites("BGP.Tools") \cup UNION {Tags(by, {"AutonomousSystem"}) : by \in TableSources}
BGPToolsNetblockWrites == ContainWrites("BGP.Tools") \cup AnnounceWrites("BGP.Tools")
IPNetblockWrites == UNION {ContainWrites(by) \cup AnnounceWrites(by) : by \in TableSources}

\* Of a reserved range the netblock is tagged twice, its autonomous system never.
ReservedWrites == Edges("IP-Netblock", {"AutonomousSystem"}, {"announces"}, {"Netblock"}) \cup Tags("IP-Netblock", {"Netblock"})
OwnedFillWrites == Edges("Owned-Netblock", {"Netblock"}, {"contains"}, {"IPAddress"}) \cup Tags("Owned-Netblock", {"IPAddress"})

DNSNameWrites == Edges("DNS", {"FQDN"}, {"dns_CNAME"}, {"FQDN"})
DNSAddressWrites == Edges("DNS", {"FQDN"}, {"dns_A"}, {"IPAddress"})
\* NS as a basic record, MX with its preference.
DNSSubsWrites == Edges("DNS", {"FQDN"}, {"dns_NS", "dns_MX"}, {"FQDN"})
DNSReverseWrites == Edges("DNS", {"FQDN"}, {"dns_PTR"}, {"FQDN"})
PTRAliasWrites == Edges("DNS", {"IPAddress"}, {"ptr_record"}, {"FQDN"})
OwnedPTRWrites == PTRAliasWrites \cup Edges("", {"FQDN"}, {"node"}, {"FQDN"})
DNSApexWrites == Edges("", {"FQDN"}, {"node"}, {"FQDN"})
VerifiedWrites == OrganizationFrom("DNS-SD", {"FQDN"}, {"verified_for"})
URLScanAddressWrites == Edges("URLScan", {"FQDN"}, {"dns_A"}, {"IPAddress"}) \cup Tags("URLScan", {"IPAddress"})
URLScanPTRWrites == Edges("URLScan", {"IPAddress"}, {"ptr_record"}, {"FQDN"}) \cup Tags("URLScan", {"FQDN"})

\* CreateServiceAsset gives the relation no source; the caller does.
ServiceWrites(by) == Edges(by, {"FQDN", "IPAddress"}, {"port"}, {"Service"})
ChainWrites(by) ==
  Edges(by, {"Service"}, {"certificate"}, {"TLSCertificate"})
    \cup Edges(by, {"TLSCertificate"}, {"issuing_certificate"}, {"TLSCertificate"})
HTTPProbeWrites == ServiceWrites("HTTP-Probes") \cup ChainWrites("HTTP-Probes")
AnnounceServiceWrites == ServiceWrites("Protocol-Probes") \cup Tags("Protocol-Probes", {"Service"})
StoreCertChainWrites == ChainWrites("Protocol-Probes")

ProductWrites(by) == Edges(by, {"Service"}, {"product_used"}, {"Product"}) \cup Tags(by, {"Product"})
ReleaseWrites(by) ==
  Edges(by, {"Product"}, {"release"}, {"ProductRelease"})
    \cup Edges(by, {"Service"}, {"product_used"}, {"ProductRelease"}) \cup Tags(by, {"ProductRelease"})
RecogProductWrites == ProductWrites("Protocol-Probes")
RecogReleaseWrites == ReleaseWrites("Protocol-Probes")
TechStackProductWrites == ProductWrites("Tech-Stack")
TechStackReleaseWrites == ReleaseWrites("Tech-Stack")

\* An e-mail address leads to its agency, and from there to the domain.
EmailWrites ==
  Edges("Email-Expansion", {"EmailAddress"}, {"registration_agency"}, {"ContactRecord"})
    \cup Edges("Email-Expansion", {"ContactRecord"}, {"fqdn"}, {"FQDN"})

\* process: the relations found are tagged once more.
ContactWrites == ContactEdges("Contract-Record-Expansion", Parts \cup {<<"organization", "Organization">>})

\* Only for a host in scope.
URLWrites == Edges("URL-Expansion", {"URL"}, {"domain"}, {"FQDN"}) \cup Edges("URL-Expansion", {"URL"}, {"ip_address"}, {"IPAddress"})
BannerURLWrites == Tags("Service-Banner-URLs", {"URL"})

TLSCertWrites ==
  LET From(labels, to) == Edges("TLSCert-Expansion", {"TLSCertificate"}, labels, {to})
  IN From({"common_name", "san_dns_name"}, "FQDN") \cup From({"san_email_address"}, "EmailAddress")
       \cup From({"san_ip_address"}, "IPAddress")
       \cup From({"san_url", "issuing_certificate_url", "ocsp_server"}, "URL")
TLSContactWrites ==
  Edges("TLSCert-Expansion", {"TLSCertificate"}, {"subject_contact", "issuer_contact"}, {"ContactRecord"})
    \cup ContactEdges("TLSCert-Expansion", {<<"location", "Location">>, <<"url", "URL">>})
    \cup OrganizationFrom("TLSCert-Expansion", {"ContactRecord"}, {"organization"})

PageLinkWrites ==
  Edges("Page-Links", {"URL"}, {"file"}, {"File"}) \cup Edges("Page-Links", {"File"}, {"contains"}, {"URL"})
    \cup Edges("Page-Links", {"URL"}, {"domain"}, {"FQDN"})
    \cup Edges("Page-Links", {"URL"}, {"ip_address"}, {"IPAddress"}) \cup Tags("Page-Links", {"URL", "File"})

Written == UNION {
  AviatoSearchWrites, AviatoEnrichWrites, AviatoEmployeesWrites, RoundWrites, CheckingAccountWrites,
  SeedAccountWrites, OrgInvestorWrites, PersonInvestorWrites, LEIRecordWrites, LEIAddressWrites,
  LEIIdentifierWrites, GLEIFRelatedWrites, RDAPAutsysWrites, RDAPNetblockWrites, RDAPAutnumWrites,
  RDAPIPNetWrites, RDAPEntityWrites, DomainWrites, DomainRecordWrites, DomainContactWrites,
  BGPToolsAutsysWrites, BGPToolsNetblockWrites, IPNetblockWrites, ReservedWrites, OwnedFillWrites,
  DNSNameWrites, DNSAddressWrites, DNSSubsWrites, DNSReverseWrites, PTRAliasWrites, OwnedPTRWrites,
  DNSApexWrites, VerifiedWrites, URLScanAddressWrites, URLScanPTRWrites, HTTPProbeWrites,
  AnnounceServiceWrites, StoreCertChainWrites, RecogProductWrites, RecogReleaseWrites,
  TechStackProductWrites, TechStackReleaseWrites, EmailWrites, ContactWrites, URLWrites,
  BannerURLWrites, TLSCertWrites, TLSContactWrites, PageLinkWrites}
=============================================================================
