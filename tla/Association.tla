----------------------------- MODULE Association -----------------------------
(***************************************************************************)
(* What the scope of a session says of an asset, and how an asset outside  *)
(* it is associated with one inside: both lead, over the edges of the      *)
(* asset database, to the same registration record or certificate.         *)
(*                                                                         *)
(* Pure operators over a set E of edges <<from, label, to>> and a scope S. *)
(* An entity is <<kind, key, ...>>.  A record has the key of the asset it  *)
(* registers and, third, the name it states; a certificate has its common  *)
(* name for a key.                                                         *)
(***************************************************************************)
EXTENDS Integers, FiniteSets

CONSTANTS
  Domain,     \* the registered domain of each FQDN, by key
  Covering,   \* the netblocks that contain each IP address, by key
  Blacklist,  \* FQDNs that are never in scope, by key
  Alike       \* pairs of an organization name and a common name that are similar

Kind(x) == x[1]
Key(x) == x[2]

Blank == ""   \* what is not given

\* An organization is <<"Organization", name, legal name or "", number>>.
NamesOf(o) == {o[2], o[3]} \ {Blank}

Out(E, x, labels) == {e[3] : e \in {f \in E : f[1] = x /\ f[2] \in labels}}
In(E, x, labels) == {e[1] : e \in {f \in E : f[3] = x /\ f[2] \in labels}}
Known(E) == {e[1] : e \in E} \cup {e[3] : e \in E}

------------------------------------------------------------------------------
(* The scope: a set of FQDNs, addresses, netblocks, autonomous systems,    *)
(* organizations and locations.                                            *)

FQDN(key) == <<"FQDN", key>>
Netblock(key) == <<"Netblock", key>>
AS(key) == <<"AutonomousSystem", key>>

\* What Add puts in the scope: of a name its registered domain only, of a record what it registers.
Entry(x) ==
  CASE Kind(x) \in {"FQDN", "DomainRecord", "TLSCertificate", "URL"} ->
         {FQDN(k) : k \in {Key(x)} \cap {Domain[Key(x)]}}
    [] Kind(x) = "IPNetRecord" -> {Netblock(Key(x))}
    [] Kind(x) = "AutnumRecord" -> {AS(Key(x))}
    [] Kind(x) \in {"IPAddress", "Netblock", "AutonomousSystem", "Organization", "Location"} -> {x}
    [] OTHER -> {}

SameName(S, names) == {o \in S : Kind(o) = "Organization" /\ NamesOf(o) \cap names # {}}

\* The assets of the scope that match x with a confidence of 100.  (A name that is only similar has
\* a confidence of at most 1, which is below every configured one.)
Matches(S, x) ==
  CASE Kind(x) \in {"FQDN", "URL"} -> IF Key(x) \in Blacklist THEN {} ELSE S \cap {FQDN(Domain[Key(x)])}
    [] Kind(x) = "TLSCertificate" -> S \cap {FQDN(Domain[Key(x)])}
    [] Kind(x) = "DomainRecord" ->
         LET own == S \cap {FQDN(Domain[Key(x)])} IN IF own # {} THEN own ELSE SameName(S, {x[3]})
    [] Kind(x) = "AutnumRecord" ->
         LET own == S \cap {AS(Key(x))} IN IF own # {} THEN own ELSE SameName(S, {x[3]})
    [] Kind(x) = "IPNetRecord" -> S \cap {Netblock(Key(x))}
    [] Kind(x) = "IPAddress" -> S \cap ({x} \cup {Netblock(k) : k \in Covering[Key(x)]})
    [] Kind(x) = "Organization" -> SameName(S, NamesOf(x))
    [] Kind(x) \in {"Netblock", "AutonomousSystem", "Location"} -> S \cap {x}
    [] OTHER -> {}

InScope(S, x) == Matches(S, x) # {}

\* Add reports whether the entry is new: of an organization, one of its names.
IsNew(S, x) ==
  CASE Kind(x) = "Organization" -> \E n \in NamesOf(x) : SameName(S, {n}) = {}
    [] Kind(x) = "IPAddress" -> ~InScope(S, x)
    [] OTHER -> Entry(x) \ S # {}

------------------------------------------------------------------------------
(* Association.                                                            *)

Records == {"DomainRecord", "IPNetRecord", "AutnumRecord"}

\* towardsAssetsWithAssociation: one hop towards a record or certificate.
Towards(E, x) ==
  CASE Kind(x) = "FQDN" -> Out(E, x, {"registration"}) \cup In(E, x, {"node", "common_name"})
    [] Kind(x) \in {"Netblock", "AutonomousSystem"} -> Out(E, x, {"registration"})
    [] Kind(x) = "IPAddress" -> In(E, x, {"contains"})
    [] Kind(x) = "Service" -> Out(E, x, {"certificate"})
    [] Kind(x) = "Organization" -> In(E, x, {"organization"})
    [] Kind(x) = "Location" -> In(E, x, {"location"})
    [] Kind(x) = "ContactRecord" -> In(E, x, {"registrant", "registrant_contact"})
    [] OTHER -> {}

\* awayFromAssetsWithAssociation: one hop from a record or certificate to what it says.
AwayFrom(E, x) ==
  CASE Kind(x) = "DomainRecord" -> Out(E, x, {"registrant_contact"})
    [] Kind(x) \in {"IPNetRecord", "AutnumRecord"} -> Out(E, x, {"registrant"})
    [] Kind(x) = "TLSCertificate" -> Out(E, x, {"common_name", "subject_contact"})
    [] Kind(x) = "ContactRecord" -> Out(E, x, {"organization", "location"})
    [] OTHER -> {}

\* All that Step reaches from x, without going on from the kinds in Last.
Closure(E, x, Step(_, _), Last) ==
  LET Reach[n \in 0 .. Cardinality(E)] ==
        IF n = 0 THEN {x}
        ELSE LET near == Reach[n - 1]
             IN near \cup UNION {Step(E, y) : y \in {z \in near : Kind(z) \notin Last}}
  IN Reach[Cardinality(E)]

\* A certificate counts only when a service uses it.
AssetsWithAssociation(E, x) ==
  {y \in Closure(E, x, Towards, Records \cup {"TLSCertificate"}) :
     \/ Kind(y) \in Records
     \/ Kind(y) = "TLSCertificate" /\ In(E, y, {"certificate"}) # {}}

Evidence == {"FQDN", "Organization", "Location"}

AssetsRelatedTo(E, record) ==
  {y \in Closure(E, record, AwayFrom, Evidence) :
     /\ Kind(y) \in Evidence
     /\ Kind(record) = "TLSCertificate" /\ Kind(y) = "Organization" => <<y[2], Key(record)>> \in Alike}

\* getMatchEntity: names, locations and organizations are looked up, of other kinds any will do.
IsStored(E, m) == \E y \in Known(E) : Kind(y) = Kind(m) /\ (Kind(m) \in Evidence => y = m)

IsAssociated(E, S, x) ==
  \E record \in AssetsWithAssociation(E, x) :
    \E y \in AssetsRelatedTo(E, record) \cup {record} : \E m \in Matches(S, y) : IsStored(E, m)
==============================================================================
