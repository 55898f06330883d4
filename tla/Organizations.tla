---------------------------- MODULE Organizations ----------------------------
(***************************************************************************)
(* How CreateOrgAsset recognizes an organization that the database holds:  *)
(* by the claims of earlier calls, by a walk over the graph around the     *)
(* object it is related to, and by its name in the scope of the session.   *)
(*                                                                         *)
(* Pure operators over the edges E, the organizations O and their claims   *)
(* C, <<org, type, value, source>>.  The database returns several matches  *)
(* in any order, so each operator returns the set of possible answers,     *)
(* None among them when there may be no match.                             *)
(***************************************************************************)
EXTENDS Association

CONSTANTS
  Norm,       \* the brand name of each name, in lower case
  Country     \* the country of each jurisdiction

None == <<"None">>   \* no organization, or no object

\* A request: the name, legal name, jurisdiction and registration number ("" when absent) that the
\* source src states of an organization, and its relation rel to the object obj.
Brand(r) == IF r.legal # Blank THEN Norm[r.legal] ELSE Norm[r.name]
NamesIn(r) == {Brand(r), r.legal} \ {Blank}

Answers(S) == IF S = {} THEN {None} ELSE S
FirstAnswers(S, others) == IF S # {} THEN S ELSE others

------------------------------------------------------------------------------
(* Claims.                                                                 *)

Claimants(C, type, value, src) == {c[1] : c \in {d \in C : d[2] = type /\ d[3] = value /\ d[4] = src}}

FindOrgByNameClaim(C, name, src) == Claimants(C, "organization_name", name, src)
FindOrgByLegalNameClaim(C, name, src) == IF name = Blank THEN {} ELSE Claimants(C, "legal_name", name, src)

\* Jurisdictions agree when their countries do.
InJurisdiction(C, o, jur) == \E c \in C : c[1] = o /\ c[2] = "jurisdiction" /\ Country[c[3]] = Country[jur]

FindOrgByJurisdictionAndRegistrationIDClaim(C, jur, reg) ==
  {o \in {c[1] : c \in {d \in C : d[2] = "registration_id" /\ d[3] = reg}} : InJurisdiction(C, o, jur)}

\* Only one of the organizations with the name is looked at.
FindOrgByNormNameAndJurisdictionClaim(C, O, norm, jur) ==
  {IF p # None /\ InJurisdiction(C, p, jur) THEN p ELSE None : p \in Answers({o \in O : o[2] = norm})}

\* With a registration number, what the names found is forgotten.
LookupOrgByClaims(C, O, name, r) ==
  LET named == Answers(FirstAnswers(FindOrgByNameClaim(C, name, r.src),
                                    FindOrgByLegalNameClaim(C, r.legal, r.src)))
      registered == IF r.reg = Blank THEN named
                    ELSE Answers(FindOrgByJurisdictionAndRegistrationIDClaim(C, r.jur, r.reg))
  IN IF r.jur = Blank THEN named
     ELSE (registered \ {None}) \cup
          (IF None \in registered THEN FindOrgByNormNameAndJurisdictionClaim(C, O, Brand(r), r.jur) ELSE {})

\* The claims a call makes for the organization it returns.
ClaimsOf(o, name, r) ==
  {<<o, "organization_name", name, r.src>>} \cup
  {<<o, "legal_name", n, r.src>> : n \in {r.legal} \ {Blank}} \cup
  {<<o, "jurisdiction", j, Blank>> : j \in {r.jur} \ {Blank}} \cup
  {<<o, "registration_id", n, r.src>> : n \in {r.reg} \ {Blank}}

------------------------------------------------------------------------------
(* The walk.                                                               *)

Orgs(X) == {x \in X : Kind(x) = "Organization"}

\* A name of the organization, or a name claim, equals or is similar to one of the names.
NameMatch(C, o, names) ==
  LET held == NamesOf(o) \cup {c[3] : c \in {d \in C : d[1] = o /\ d[2] \in {"organization_name", "legal_name"}}}
  IN \E n \in held, m \in names : Norm[n] = Norm[m]

NameRelatedTo(E, C, obj, names) ==
  LET near == IF Kind(obj) = "ContactRecord" THEN Out(E, obj, {"organization"})
              ELSE In(E, obj, {"subsidiary"}) \cup Out(E, obj, {"subsidiary"})
  IN {o \in Orgs(near) : NameMatch(C, o, names)}

Addresses == {"legal_address", "hq_address", "location"}

ExistsAndSharesLocEntity(E, C, obj, names) ==
  LET locs == {l \in Out(E, obj, Addresses) : Kind(l) = "Location"}
      holders == UNION {In(E, l, Addresses) : l \in locs} \ {obj}
      contacts == {h \in holders : Kind(h) = "ContactRecord"}
  IN {o \in Orgs(holders) \cup Orgs(UNION {Out(E, cr, {"organization"}) : cr \in contacts}) :
        NameMatch(C, o, names)}

AncestorEdgeLabels == {"organization", "id", "subsidiary", "registration", "registrant",
                       "admin_contact", "abuse_contact", "technical_contact"}
Parents(E, x) == In(E, x, AncestorEdgeLabels)
Ancestors(E, x) == Closure(E, x, Parents, {})

\* The name in lower case is compared with the names claimed as they are written.
OrgsWithSameNames(C, r) == {c[1] : c \in {d \in C : d[2] \in {"organization_name", "legal_name"} /\ d[3] = Brand(r)}}

ExistsAndSharesAncestorEntity(E, C, obj, r) ==
  {o \in OrgsWithSameNames(C, r) : Ancestors(E, o) \cap Ancestors(E, obj) # {}}

ExistsAndHasAncestorInSession(E, C, seen, r) ==
  {o \in OrgsWithSameNames(C, r) : Ancestors(E, o) \cap seen # {}}

NameExistsInSessionScope(E, O, S, r) == {o \in O : o[2] = Brand(r) /\ IsAssociated(E, S, o)}

\* seen: the entities in the backlog of the session.
DedupChecks(E, C, O, S, seen, r) ==
  LET inScope == Answers(NameExistsInSessionScope(E, O, S, r)) IN
  IF Kind(r.obj) \notin {"ContactRecord", "Organization"} THEN inScope
  ELSE FirstAnswers(NameRelatedTo(E, C, r.obj, NamesIn(r)),
       FirstAnswers(ExistsAndSharesLocEntity(E, C, r.obj, NamesIn(r)),
       FirstAnswers(ExistsAndSharesAncestorEntity(E, C, r.obj, r),
       FirstAnswers(ExistsAndHasAncestorInSession(E, C, seen, r), inScope))))
==============================================================================
