--------------------------- MODULE ExpansionProofs ---------------------------
(***************************************************************************)
(* No organization is made twice, neither by its claims nor by its name in *)
(* scope, and a record comes into scope with its organization or location: *)
(* for any assets, edges and sources that the assumptions of Expansion     *)
(* allow, any number of calls of CreateOrgAsset and of failures of the     *)
(* database, and any interleaving of the handlers.                         *)
(***************************************************************************)
EXTENDS Expansion, FiniteSetTheorems, WellFoundedInduction, TLAPS

------------------------------------------------------------------------------
(* Induction, and what Closure computes.                                   *)

\* Every set of numbers that has one has a least element.  (The library's induction theorems cannot
\* be used here; that every nonempty set of finite sets has one that includes no other can.)
LEMMA LeastElement ==
  ASSUME NEW T \in SUBSET Nat, T # {}
  PROVE  \E n \in T : \A m \in T : n <= m
<1> DEFINE U == {0 .. n : n \in T}
<1>1. U \subseteq FiniteSubsetsOf(Nat) /\ U # {}
  <2>1. \A n \in T : 0 .. n \in SUBSET Nat /\ IsFiniteSet(0 .. n)
    BY FS_Interval
  <2> QED
    BY <2>1 DEF FiniteSubsetsOf
<1>2. IsWellFoundedOn(StrictSubsetOrdering(Nat), FiniteSubsetsOf(Nat))
  BY FS_StrictSubsetOrderingWellFounded
<1>3. PICK X \in U : \A Y \in U : ~(<<Y, X>> \in StrictSubsetOrdering(Nat))
  <2> HIDE DEF U
  <2> QED
    BY <1>1, <1>2, WFMin
<1>4. PICK n \in T : X = 0 .. n
  BY <1>3
<1>5. ASSUME NEW m \in T, m < n PROVE FALSE
  <2>1. 0 .. m \in U /\ 0 .. m \in SUBSET Nat /\ 0 .. n \in SUBSET Nat
    OBVIOUS
  <2>2. 0 .. m \subseteq 0 .. n /\ 0 .. m # 0 .. n
    BY <1>5
  <2> QED
    BY <1>3, <1>4, <2>1, <2>2 DEF StrictSubsetOrdering
<1> QED
  BY <1>5

\* What holds at a and is kept from one number to the next holds up to N.
LEMMA FirstFailure ==
  ASSUME NEW a \in Nat, NEW N \in Nat, NEW T \in SUBSET (a .. N), T # {}, a \notin T
  PROVE  \E n \in T : n \in (a + 1) .. N /\ n - 1 \in a .. N /\ n - 1 \notin T
<1>1. PICK n \in T : \A k \in T : n <= k
  BY LeastElement
<1> QED
  BY <1>1

\* The sets of which Closure(E, x, Towards, Last) takes the last.
Last == Records \cup {"TLSCertificate"}
Wider(E, S) == S \cup UNION {Towards(E, y) : y \in {z \in S : Kind(z) \notin Last}}
IsReach(g, E, x, n) == g = [i \in 0 .. n |-> IF i = 0 THEN {x} ELSE Wider(E, g[i - 1])]

\* The recursive function in the definition of Closure exists, so that CHOOSE finds it.
LEMMA ReachExists ==
  ASSUME NEW E, NEW x, NEW n \in Nat
  PROVE  \E g : IsReach(g, E, x, n)
<1> DEFINE T == {m \in Nat : ~\E g : IsReach(g, E, x, m)}
<1> SUFFICES ASSUME T # {} PROVE FALSE
  OBVIOUS
<1>1. PICK m \in T : \A k \in T : m <= k
  <2> HIDE DEF T
  <2>1. T \in SUBSET Nat
    BY DEF T
  <2> QED
    BY <2>1, LeastElement
<1>2. m \in Nat /\ ~\E g : IsReach(g, E, x, m)
  BY <1>1
<1>3. m # 0
  <2>1. ASSUME m = 0 PROVE IsReach([i \in 0 .. 0 |-> {x}], E, x, m)
    BY <2>1 DEF IsReach
  <2> QED
    BY <2>1, <1>2
<1>4. m - 1 \in Nat /\ m - 1 \notin T
  BY <1>1, <1>2, <1>3
<1>5. PICK g : IsReach(g, E, x, m - 1)
  BY <1>4
<1> DEFINE h == [i \in 0 .. m |-> IF i = m THEN Wider(E, g[m - 1]) ELSE g[i]]
<1>6. IsReach(h, E, x, m)
  <2>1. \A i \in 0 .. (m - 1) : g[i] = IF i = 0 THEN {x} ELSE Wider(E, g[i - 1])
    BY <1>5 DEF IsReach
  <2>2. \A i \in 0 .. m : i # m => i \in 0 .. (m - 1) /\ (i # 0 => i - 1 \in 0 .. (m - 1))
    BY <1>2
  <2>3. ASSUME NEW i \in 0 .. m PROVE h[i] = IF i = 0 THEN {x} ELSE Wider(E, h[i - 1])
    <3>1. CASE i = m
      <4>1. h[i] = Wider(E, g[m - 1])
        BY <3>1
      <4>2. m - 1 \in 0 .. m /\ m - 1 # m
        BY <1>2, <1>3
      <4>3. h[m - 1] = g[m - 1]
        BY <4>2
      <4> QED
        BY <1>3, <3>1, <4>1, <4>3
    <3>2. CASE i # m /\ i # 0
      <4>1. i - 1 \in 0 .. m /\ i - 1 # m
        BY <3>2, <1>2
      <4>2. h[i - 1] = g[i - 1] /\ h[i] = g[i]
        BY <3>2, <4>1
      <4> HIDE DEF h
      <4> QED
        BY <2>1, <2>2, <3>2, <4>2
    <3>3. CASE i # m /\ i = 0
      BY <2>1, <2>2, <3>3
    <3> QED
      BY <3>1, <3>2, <3>3
  <2>4. h = [i \in 0 .. m |-> IF i = 0 THEN {x} ELSE Wider(E, h[i - 1])]
    <3>1. h = [i \in 0 .. m |-> h[i]]
      OBVIOUS
    <3> HIDE DEF h
    <3> QED
      BY <2>3, <3>1
  <2> HIDE DEF h
  <2> QED
    BY <2>4 DEF IsReach
<1> HIDE DEF h
<1> QED
  BY <1>2, <1>6

\* Closure is the last of a sequence of sets, each of them Wider than the one before.
LEMMA ClosureReach ==
  ASSUME NEW E, NEW x, Cardinality(E) \in Nat
  PROVE  \E g : IsReach(g, E, x, Cardinality(E)) /\ Closure(E, x, Towards, Last) = g[Cardinality(E)]
<1> DEFINE g == CHOOSE g : IsReach(g, E, x, Cardinality(E))
<1>1. IsReach(g, E, x, Cardinality(E))
  <2>1. \E h : IsReach(h, E, x, Cardinality(E))
    BY ReachExists
  <2> QED
    BY <2>1
<1>2. Closure(E, x, Towards, Last) = g[Cardinality(E)]
  BY DEF Closure, Wider, IsReach
<1> HIDE DEF g
<1> QED
  BY <1>1, <1>2

LEMMA ReachSteps ==
  ASSUME NEW E, NEW x, NEW N \in Nat, NEW g, IsReach(g, E, x, N)
  PROVE  /\ g[0] = {x}
         /\ \A n \in 1 .. N : g[n] = Wider(E, g[n - 1])
<1>1. \A n \in 0 .. N : g[n] = IF n = 0 THEN {x} ELSE Wider(E, g[n - 1])
  BY DEF IsReach
<1> QED
  BY <1>1

\* Nothing leads away from what is not stored.
LEMMA UnknownIsAlone ==
  ASSUME NEW E, Cardinality(E) \in Nat, NEW x, x \notin Known(E)
  PROVE  Closure(E, x, Towards, Last) = {x}
<1>1. PICK g : IsReach(g, E, x, Cardinality(E)) /\ Closure(E, x, Towards, Last) = g[Cardinality(E)]
  BY ClosureReach
<1>2. Towards(E, x) = {}
  BY DEF Towards, In, Out, Known
<1>3. Wider(E, {x}) = {x}
  BY <1>2 DEF Wider
<1> DEFINE N == Cardinality(E)
<1>6. N \in Nat /\ g[0] = {x} /\ \A n \in 1 .. N : g[n] = Wider(E, g[n - 1])
  BY <1>1, ReachSteps
<1> HIDE DEF N
<1> DEFINE T == {n \in 0 .. N : g[n] # {x}}
<1>4. ASSUME T # {} PROVE FALSE
  <2>1. 0 \notin T /\ T \in SUBSET (0 .. N)
    BY <1>6
  <2>2. PICK n \in T : n \in (0 + 1) .. N /\ n - 1 \in 0 .. N /\ n - 1 \notin T
    <3> HIDE DEF T
    <3> QED
      BY <1>4, <1>6, <2>1, FirstFailure
  <2>3. g[n - 1] = {x}
    BY <2>2
  <2>4. g[n] = {x}
    BY <1>3, <1>6, <2>2, <2>3
  <2> QED
    BY <2>2, <2>4
<1>5. N \in 0 .. N
  BY <1>6
<1> QED
  BY <1>1, <1>4, <1>5 DEF N

\* What is two steps away is reached.
LEMMA TwoSteps ==
  ASSUME NEW E, Cardinality(E) \in Nat, Cardinality(E) >= 2, NEW x, Kind(x) \notin Last,
         NEW y \in Towards(E, x), Kind(y) \notin Last, NEW z \in Towards(E, y)
  PROVE  z \in Closure(E, x, Towards, Last)
<1>1. PICK g : IsReach(g, E, x, Cardinality(E)) /\ Closure(E, x, Towards, Last) = g[Cardinality(E)]
  BY ClosureReach
<1> DEFINE N == Cardinality(E)
<1>7. N \in Nat /\ N >= 2 /\ g[0] = {x} /\ \A n \in 1 .. N : g[n] = Wider(E, g[n - 1])
  <2>1. g[0] = {x} /\ \A n \in 1 .. N : g[n] = Wider(E, g[n - 1])
    BY <1>1, ReachSteps
  <2> QED
    BY <2>1
<1> HIDE DEF N
<1>2. g[0] = {x} /\ g[1] = Wider(E, g[0]) /\ g[2] = Wider(E, g[1])
  <2>1. 1 \in 1 .. N /\ 2 \in 1 .. N /\ 1 - 1 = 0 /\ 2 - 1 = 1
    BY <1>7
  <2> QED
    BY <2>1, <1>7
<1>3. y \in g[1]
  BY <1>2 DEF Wider
<1>4. z \in g[2]
  BY <1>2, <1>3 DEF Wider
<1> DEFINE T == {n \in 2 .. N : z \notin g[n]}
<1>5. ASSUME T # {} PROVE FALSE
  <2>1. 2 \notin T /\ T \in SUBSET (2 .. N)
    BY <1>4
  <2>2. PICK n \in T : n \in (2 + 1) .. N /\ n - 1 \in 2 .. N /\ n - 1 \notin T
    <3> HIDE DEF T
    <3> QED
      BY <1>5, <1>7, <2>1, FirstFailure
  <2>3. z \in g[n - 1] /\ n \in 1 .. N
    BY <2>2
  <2>4. g[n] = Wider(E, g[n - 1])
    BY <1>7, <2>3
  <2> QED
    BY <2>2, <2>3, <2>4 DEF Wider
<1>6. N \in 2 .. N
  BY <1>7
<1> QED
  BY <1>1, <1>5, <1>6 DEF N

\* An organization is associated when its contact is the registrant of a record in scope.
LEMMA AssociatedByRecord ==
  ASSUME NEW E, IsFiniteSet(E), NEW S, NEW o, Kind(o) = "Organization",
         NEW cr, Kind(cr) = "ContactRecord", <<cr, "organization", o>> \in E,
         NEW record \in In(E, cr, RegistrantLabels), Kind(record) \in Records,
         InScope(S, record), \A m \in Matches(S, record) : IsStored(E, m)
  PROVE  IsAssociated(E, S, o)
<1>1. cr \in Towards(E, o)
  BY DEF Towards, In
<1>2. record \in Towards(E, cr)
  BY DEF Towards, In, RegistrantLabels
<1>3. Kind(o) \notin Last /\ Kind(cr) \notin Last
  BY DEF Last, Records
<1>4. PICK e \in E : e[3] = cr /\ e[2] \in RegistrantLabels
  BY DEF In
<1>5. e # <<cr, "organization", o>>
  BY <1>4 DEF RegistrantLabels
<1>6. Cardinality(E) \in Nat /\ Cardinality(E) >= 2
  <2>1. /\ IsFiniteSet({e}) /\ Cardinality({e}) = 1
    BY FS_Singleton
  <2>2. Cardinality({e} \cup {<<cr, "organization", o>>}) = 2 /\ IsFiniteSet({e} \cup {<<cr, "organization", o>>})
    <3>1. <<cr, "organization", o>> \notin {e}
      BY <1>5
    <3> DEFINE f == <<cr, "organization", o>>
    <3> HIDE DEF f
    <3>2. f \notin {e}
      BY <3>1 DEF f
    <3>3. /\ IsFiniteSet({e} \cup {f})
          /\ Cardinality({e} \cup {f}) = IF f \in {e} THEN Cardinality({e}) ELSE Cardinality({e}) + 1
      BY <2>1, FS_AddElement
    <3>4. Cardinality({e} \cup {f}) = 2
      BY <2>1, <3>2, <3>3
    <3> QED
      BY <3>3, <3>4 DEF f
  <2>3. {e} \cup {<<cr, "organization", o>>} \in SUBSET E
    BY <1>4
  <2> QED
    BY <2>2, <2>3, FS_Subset, FS_CardinalityType
<1>7. record \in Closure(E, o, Towards, Last)
  BY <1>1, <1>2, <1>3, <1>6, TwoSteps
<1>8. record \in AssetsWithAssociation(E, o)
  BY <1>7 DEF AssetsWithAssociation, Last
<1>9. PICK m : m \in Matches(S, record)
  BY DEF InScope
<1> QED
  BY <1>8, <1>9 DEF IsAssociated

\* An organization that is not stored is associated with nothing.
LEMMA UnknownIsUnassociated ==
  ASSUME NEW E, Cardinality(E) \in Nat, NEW S, NEW x, x \notin Known(E), Kind(x) \notin Last
  PROVE  ~IsAssociated(E, S, x)
<1>1. Closure(E, x, Towards, Last) = {x}
  BY UnknownIsAlone
<1>2. AssetsWithAssociation(E, x) = {}
  BY <1>1 DEF AssetsWithAssociation, Last
<1> QED
  BY <1>2 DEF IsAssociated

------------------------------------------------------------------------------
(* Where the calls are, and what is stored.  Every step keeps both.        *)

\* The stages of a call under the lock, and of every call.
Inside == {"claim", "relate"}
Calling == {"call", "walk", "wait"} \cup Inside

\* An event asks for an organization only in a world where it has a call, holds the lock Inside, and
\* considers only what is stored.
Fields == {"at", "name", "org", "todo"}
FlightOK(x, v, w, O, l, E) ==
  /\ DOMAIN v = Fields
  /\ v.org \in O \cup {None}
  /\ v.at \in Calling => x \in DOMAIN w.calls
  /\ v.at \in Inside => l = x /\ v.org # None
  /\ v.todo \subseteq Known(E)
FlightInv ==
  /\ DOMAIN flight \subseteq DOMAIN row
  /\ \A x \in DOMAIN flight : FlightOK(x, flight[x], world, orgs, lock, edges)

\* What the database, the backlog and the scope hold comes from the world or was made; an organization
\* is in scope only when it is stored.
StoreInv ==
  /\ world \in Worlds
  /\ IsFiniteSet(edges) /\ world.before \subseteq edges
  /\ \A e \in edges : e[2] \in RegistrantLabels => Kind(e[1]) \in Records /\ Kind(e[3]) = "ContactRecord"
  /\ DOMAIN world.orgs \subseteq orgs /\ \A o \in orgs : Kind(o) = "Organization"
  /\ \A c \in claims : c[1] \in orgs
  /\ Known(edges) \cup DOMAIN row \subseteq Assets(world) \cup orgs
  /\ \A m \in scope : Kind(m) = "Organization" => m \in Known(edges)

LEMMA RowGrows ==
  ASSUME NEW S
  PROVE  /\ Dispatch(S) => DOMAIN row' = DOMAIN row \cup S
         /\ Enqueue(S) => DOMAIN row' = DOMAIN row \cup S
BY DEF Dispatch, Enqueue

LEMMA KnownGrows ==
  ASSUME NEW E, NEW F
  PROVE  Known(E \cup F) = Known(E) \cup Known(F)
BY DEF Known

LEMMA StoredIsKnown ==
  ASSUME NEW E, NEW x, NEW labels
  PROVE  Out(E, x, labels) \subseteq Known(E) /\ In(E, x, labels) \subseteq Known(E)
BY DEF Out, In, Known

\* None is neither an organization nor a contact.
LEMMA NoneIsNoOrganization == Kind(None) # "Organization" /\ Kind(None) # "ContactRecord"
BY DEF None, Kind

\* The answers are organizations of the database.
LEMMA LookupRange ==
  ASSUME NEW C, NEW O, NEW name, NEW r, \A c \in C : c[1] \in O
  PROVE  LookupOrgByClaims(C, O, name, r) \subseteq O \cup {None}
<1>1. \A type, value, src : Claimants(C, type, value, src) \subseteq O
  BY DEF Claimants
<1>2. /\ FindOrgByNameClaim(C, name, r.src) \subseteq O
      /\ FindOrgByLegalNameClaim(C, r.legal, r.src) \subseteq O
  BY <1>1 DEF FindOrgByNameClaim, FindOrgByLegalNameClaim
<1>3. FindOrgByJurisdictionAndRegistrationIDClaim(C, r.jur, r.reg) \subseteq O
  BY DEF FindOrgByJurisdictionAndRegistrationIDClaim
<1>4. FindOrgByNormNameAndJurisdictionClaim(C, O, Brand(r), r.jur) \subseteq O \cup {None}
  BY DEF FindOrgByNormNameAndJurisdictionClaim, Answers
<1> QED
  BY <1>2, <1>3, <1>4 DEF LookupOrgByClaims, Answers, FirstAnswers

\* The walk finds organizations of the database.
LEMMA DedupRange ==
  ASSUME NEW E, NEW C, NEW O, NEW S, NEW seen, NEW r, \A c \in C : c[1] \in O,
         \A y \in Known(E) : Kind(y) = "Organization" => y \in O
  PROVE  DedupChecks(E, C, O, S, seen, r) \subseteq O \cup {None}
<1>1. NameRelatedTo(E, C, r.obj, NamesIn(r)) \subseteq O
  BY StoredIsKnown DEF NameRelatedTo, Orgs
<1>2. ExistsAndSharesLocEntity(E, C, r.obj, NamesIn(r)) \subseteq O
  BY StoredIsKnown DEF ExistsAndSharesLocEntity, Orgs
<1>3. OrgsWithSameNames(C, r) \subseteq O
  BY DEF OrgsWithSameNames
<1>4. /\ ExistsAndSharesAncestorEntity(E, C, r.obj, r) \subseteq O
      /\ ExistsAndHasAncestorInSession(E, C, seen, r) \subseteq O
  BY <1>3 DEF ExistsAndSharesAncestorEntity, ExistsAndHasAncestorInSession
<1>5. NameExistsInSessionScope(E, O, S, r) \subseteq O
  BY DEF NameExistsInSessionScope
<1> QED
  BY <1>1, <1>2, <1>4, <1>5 DEF DedupChecks, Answers, FirstAnswers

\* A step of one event keeps what is said of the others, for as long as it does not take the lock from them.
LEMMA FlightStep ==
  ASSUME FlightInv, NEW x \in DOMAIN flight, DOMAIN flight' = DOMAIN flight,
         \A y \in DOMAIN flight : y # x => flight'[y] = flight[y],
         FlightOK(x, flight'[x], world, orgs', lock', edges'),
         UNCHANGED world, orgs \subseteq orgs', Known(edges) \subseteq Known(edges'), DOMAIN row \subseteq DOMAIN row',
         lock' = lock \/ \A y \in DOMAIN flight : y # x => flight[y].at \notin Inside
  PROVE  FlightInv'
<1>2. ASSUME NEW y \in DOMAIN flight' PROVE FlightOK(y, flight'[y], world', orgs', lock', edges')
  <2>1. CASE y = x
    BY <2>1
  <2>2. CASE y # x
    BY <2>2 DEF FlightInv, FlightOK
  <2> QED
    BY <2>1, <2>2
<1> QED
  BY <1>2 DEF FlightInv

\* A step of x that only changes where it is.
LEMMA ToOK ==
  ASSUME FlightInv, NEW x \in DOMAIN flight, NEW stage, To(x, stage),
         UNCHANGED <<world, orgs>>, Known(edges) \subseteq Known(edges'), DOMAIN row \subseteq DOMAIN row',
         stage \in Calling => x \in DOMAIN world.calls,
         stage \in Inside => lock' = x /\ flight[x].org # None,
         lock' = lock \/ \A y \in DOMAIN flight : y # x => flight[y].at \notin Inside
  PROVE  FlightInv'
<1>1. /\ DOMAIN flight' = DOMAIN flight /\ \A y \in DOMAIN flight : y # x => flight'[y] = flight[y]
      /\ flight'[x] = [flight[x] EXCEPT !.at = stage]
  BY DEF To
<1>2. DOMAIN flight[x] = Fields
  BY DEF FlightInv, FlightOK
<1>3. flight'[x].at = stage /\ flight'[x].org = flight[x].org /\ flight'[x].todo = flight[x].todo /\ DOMAIN flight'[x] = Fields
  BY <1>1, <1>2 DEF Fields
<1>4. FlightOK(x, flight'[x], world, orgs', lock', edges')
  BY <1>3 DEF FlightInv, FlightOK
<1> QED
  BY <1>1, <1>4, FlightStep

LEMMA StoreKept ==
  ASSUME StoreInv, UNCHANGED <<world, edges, orgs, claims, scope>>, DOMAIN row' = DOMAIN row
  PROVE  StoreInv'
BY DEF StoreInv

\* Without a holder of the lock nobody is Inside.
LEMMA NoneIsNoEvent ==
  ASSUME StoreInv, NEW x \in DOMAIN row
  PROVE  x # None
BY RecordsAssumption, NoneIsNoOrganization DEF StoreInv

LEMMA InitFlights == Init => FlightInv /\ StoreInv
<1> SUFFICES ASSUME Init PROVE FlightInv /\ StoreInv
  OBVIOUS
<1>1. world \in Worlds /\ edges = world.before /\ orgs = DOMAIN world.orgs /\ claims = {} /\ scope = world.scope
  BY DEF Init
<1>2. DOMAIN flight = {}
  BY DEF Init
<1>3. DOMAIN row = world.seeds
  BY DEF Init
<1>4. FlightInv
  BY <1>2 DEF FlightInv
<1>5. Known(edges) \subseteq Assets(world)
  BY <1>1, KnownGrows DEF Assets
<1>6. StoreInv
  <2>1. \A m \in scope : Kind(m) # "Organization"
    BY <1>1, ScopeAssumption
  <2> QED
    BY <1>1, <1>3, <1>5, <2>1, EdgesAssumption, OrganizationsAssumption DEF StoreInv, Assets
<1> QED
  BY <1>4, <1>6

LEMMA ClaimFlights ==
  ASSUME FlightInv, StoreInv, NEW x \in DOMAIN row, Claim(x)
  PROVE  FlightInv' /\ StoreInv'
<1>1. DOMAIN row' = DOMAIN row /\ UNCHANGED <<world, edges, orgs, claims, scope, lock>>
  BY DEF Claim, dbVars
<1>2. /\ DOMAIN flight' = DOMAIN flight \cup {x}
      /\ flight'[x] = [at |-> "store", name |-> Blank, org |-> None, todo |-> {}]
      /\ \A y \in DOMAIN flight : flight'[y] = flight[y]
  BY DEF Claim
<1>3. FlightOK(x, flight'[x], world, orgs, lock, edges)
  <2>1. /\ DOMAIN flight'[x] = Fields /\ flight'[x].org = None /\ flight'[x].at = "store"
        /\ flight'[x].todo = {}
    BY <1>2 DEF Fields
  <2>2. flight'[x].at \notin Calling /\ flight'[x].at \notin Inside
    BY <2>1 DEF Calling, Inside
  <2> QED
    BY <2>1, <2>2 DEF FlightOK
<1>4. FlightInv'
  <2>1. ASSUME NEW y \in DOMAIN flight' PROVE FlightOK(y, flight'[y], world, orgs, lock, edges)
    BY <1>2, <1>3, <2>1 DEF FlightInv
  <2>2. DOMAIN flight' \subseteq DOMAIN row'
    BY <1>1, <1>2 DEF FlightInv
  <2> QED
    BY <1>1, <2>1, <2>2 DEF FlightInv
<1> QED
  BY <1>1, <1>4, StoreKept

LEMMA StoreFlights ==
  ASSUME FlightInv, StoreInv, NEW x \in DOMAIN flight, Store(x)
  PROVE  FlightInv' /\ StoreInv'
<1> DEFINE new == {e \in world.stores : e[1] = x \/ (Kind(e[1]) = "ContactRecord" /\ \E f \in world.stores : f[1] = x /\ f[3] = e[1])}
           S == {e[3] : e \in new} \cup {e[1] : e \in new}
<1>1. /\ edges' = edges \cup new /\ Dispatch(S) /\ new \subseteq world.stores
      /\ To(x, IF x \in DOMAIN world.calls THEN "call" ELSE "check")
      /\ UNCHANGED <<world, orgs, claims, scope, lock>>
  BY DEF Store
<1>2. S \subseteq Assets(world)
  BY <1>1 DEF Assets, Known
<1> HIDE DEF new, S
<1>3. Known(edges') = Known(edges) \cup Known(new)
  BY <1>1, KnownGrows
<1>4. DOMAIN row' = DOMAIN row \cup S
  BY <1>1, RowGrows
<1>5. FlightInv'
  BY <1>1, <1>3, <1>4, ToOK DEF Calling, Inside
<1>6. world \in Worlds /\ IsFiniteSet(world.stores)
  BY EdgesAssumption DEF StoreInv
<1>7. IsFiniteSet(edges')
  <2>1. IsFiniteSet(new)
    BY <1>1, <1>6, FS_Subset
  <2> QED
    BY <1>1, <2>1, FS_Union DEF StoreInv
<1>8. \A e \in edges' : e[2] \in RegistrantLabels => Kind(e[1]) \in Records /\ Kind(e[3]) = "ContactRecord"
  BY <1>1, <1>6, EdgesAssumption DEF StoreInv
<1>9. Known(new) \subseteq Assets(world)
  BY <1>1 DEF Known, Assets
<1> QED
  BY <1>1, <1>2, <1>3, <1>4, <1>5, <1>7, <1>8, <1>9 DEF StoreInv

LEMMA LookupFlights ==
  ASSUME FlightInv, StoreInv, NEW x \in DOMAIN flight, Lookup(x)
  PROVE  FlightInv' /\ StoreInv'
<1>1. UNCHANGED <<world, edges, orgs, claims, scope, row, lock>> /\ At(x, "call")
  BY DEF Lookup, dbVars
<1>2. DOMAIN flight[x] = Fields /\ x \in DOMAIN world.calls
  BY <1>1 DEF FlightInv, FlightOK, At, Calling
<1>3. PICK n, o, stage :
        /\ o \in orgs \cup {None} /\ stage \in {"walk", "wait"}
        /\ flight' = [flight EXCEPT ![x] = [@ EXCEPT !.name = n, !.org = o, !.at = stage]]
  <2> DEFINE r == Request(x)
             name == IF r.table /\ worn THEN Brand(r) ELSE r.name
  <2>1. PICK o \in LookupOrgByClaims(claims, orgs, name, r) :
          flight' = [flight EXCEPT ![x] =
            [@ EXCEPT !.name = name, !.org = o, !.at = IF o = None /\ r.obj # None THEN "walk" ELSE "wait"]]
    BY DEF Lookup
  <2>2. o \in orgs \cup {None}
    BY <2>1, LookupRange DEF StoreInv
  <2> HIDE DEF name, r
  <2> DEFINE stage == IF o = None /\ r.obj # None THEN "walk" ELSE "wait"
  <2>3. stage \in {"walk", "wait"} /\ flight' = [flight EXCEPT ![x] = [@ EXCEPT !.name = name, !.org = o, !.at = stage]]
    BY <2>1
  <2> HIDE DEF stage
  <2> QED
    BY <2>2, <2>3
<1>4. /\ DOMAIN flight' = DOMAIN flight /\ \A y \in DOMAIN flight : y # x => flight'[y] = flight[y]
      /\ flight'[x] = [flight[x] EXCEPT !.name = n, !.org = o, !.at = stage]
  BY <1>3
<1>5. FlightOK(x, flight'[x], world, orgs', lock', edges')
  <2>1. flight'[x].at = stage /\ flight'[x].org = o /\ flight'[x].todo = flight[x].todo /\ DOMAIN flight'[x] = Fields
    BY <1>2, <1>4 DEF Fields
  <2> QED
    BY <1>1, <1>2, <1>3, <2>1 DEF FlightOK, FlightInv, Inside
<1> QED
  BY <1>1, <1>4, <1>5, FlightStep, StoreKept

LEMMA WalkFlights ==
  ASSUME FlightInv, StoreInv, NEW x \in DOMAIN flight, Walk(x)
  PROVE  FlightInv' /\ StoreInv'
<1>1. UNCHANGED <<world, edges, orgs, claims, scope, row, lock>> /\ At(x, "walk")
  BY DEF Walk, dbVars
<1>2. DOMAIN flight[x] = Fields /\ x \in DOMAIN world.calls
  BY <1>1 DEF FlightInv, FlightOK, At, Calling
<1>3. \A y \in Known(edges) : Kind(y) = "Organization" => y \in orgs
  BY OrganizationsAssumption DEF StoreInv
<1>4. PICK o \in orgs \cup {None} : flight' = [flight EXCEPT ![x] = [@ EXCEPT !.org = o, !.at = "wait"]]
  BY <1>3, DedupRange DEF Walk, StoreInv
<1>5. /\ DOMAIN flight' = DOMAIN flight /\ \A y \in DOMAIN flight : y # x => flight'[y] = flight[y]
      /\ flight'[x] = [flight[x] EXCEPT !.org = o, !.at = "wait"]
  BY <1>4
<1>6. FlightOK(x, flight'[x], world, orgs', lock', edges')
  <2>1. flight'[x].at = "wait" /\ flight'[x].org = o /\ flight'[x].todo = flight[x].todo /\ DOMAIN flight'[x] = Fields
    BY <1>2, <1>5 DEF Fields
  <2> QED
    BY <1>1, <1>2, <2>1 DEF FlightOK, FlightInv, Inside
<1> QED
  BY <1>1, <1>5, <1>6, FlightStep, StoreKept

\* The three ways in which the call goes on under the lock.
Finds(x, o) ==
  /\ o \in orgs
  /\ lock' = x /\ flight' = [flight EXCEPT ![x] = [@ EXCEPT !.org = o, !.at = "claim"]]
  /\ UNCHANGED <<orgs, made, faults>>
New(x) == <<"Organization", Brand(Request(x)), Request(x).legal, Cardinality(orgs) + 1>>
Makes(x) ==
  /\ None \in Found(x)
  /\ lock' = x /\ flight' = [flight EXCEPT ![x] = [@ EXCEPT !.org = New(x), !.at = "claim"]]
  /\ orgs' = orgs \cup {New(x)}
  /\ made' = [p \in orgs' |-> IF p = New(x) THEN Made(x) ELSE made[p]]

LEMMA FoundRange ==
  ASSUME FlightInv, StoreInv, NEW x \in DOMAIN flight
  PROVE  Found(x) \subseteq orgs \cup {None}
<1>1. LookupOrgByClaims(claims, orgs, flight[x].name, Request(x)) \subseteq orgs \cup {None}
  BY LookupRange DEF StoreInv
<1>2. NameExistsInSessionScope(edges, orgs, scope, Request(x)) \subseteq orgs
  BY DEF NameExistsInSessionScope
<1>3. flight[x].org \in orgs \cup {None}
  BY DEF FlightInv, FlightOK
<1> QED
  BY <1>1, <1>2, <1>3 DEF Found, FoundLocked, Answers

\* Acquire finds an organization, makes one, or gives up on an error.
LEMMA AcquireCases ==
  ASSUME FlightInv, StoreInv, NEW x \in DOMAIN flight, Acquire(x)
  PROVE  /\ At(x, "wait") /\ lock = None
         /\ UNCHANGED <<world, edges, claims, scope, row, worn, undone, saw, reviewed>>
         /\ \/ \E o \in orgs : Finds(x, o)
            \/ Makes(x)
            \/ To(x, "check") /\ UNCHANGED <<lock, orgs, made>>
<1>1. At(x, "wait") /\ lock = None /\ UNCHANGED <<world, edges, claims, scope, row, worn, undone, saw, reviewed>>
  BY DEF Acquire
<1>2. PICK o \in Found(x) :
        \/ /\ o # None
           /\ lock' = x
           /\ flight' = [flight EXCEPT ![x] = [@ EXCEPT !.org = o, !.at = "claim"]]
           /\ UNCHANGED <<orgs, made, faults>>
        \/ /\ o = None
           /\ lock' = x
           /\ flight' = [flight EXCEPT ![x] = [@ EXCEPT !.org = New(x), !.at = "claim"]]
           /\ orgs' = orgs \cup {New(x)}
           /\ made' = [p \in orgs' |-> IF p = New(x) THEN Made(x) ELSE made[p]]
        \/ To(x, "check") /\ UNCHANGED <<lock, orgs, made>>
  BY DEF Acquire, New
<1>3. o \in orgs \cup {None}
  BY <1>2, FoundRange
<1> QED
  BY <1>1, <1>2, <1>3 DEF Finds, Makes

LEMMA AcquireFlights ==
  ASSUME FlightInv, StoreInv, NEW x \in DOMAIN flight, Acquire(x)
  PROVE  FlightInv' /\ StoreInv'
<1>1. /\ At(x, "wait") /\ lock = None /\ UNCHANGED <<world, edges, claims, scope, row>>
      /\ \/ \E o \in orgs : Finds(x, o)
         \/ Makes(x)
         \/ To(x, "check") /\ UNCHANGED <<lock, orgs, made>>
  BY AcquireCases
<1>2. DOMAIN flight[x] = Fields /\ x \in DOMAIN world.calls /\ flight[x].todo \subseteq Known(edges)
  BY <1>1 DEF FlightInv, FlightOK, At, Calling
<1>3. \A y \in DOMAIN flight : flight[y].at \notin Inside
  BY <1>1, NoneIsNoEvent DEF FlightInv, FlightOK
<1>4. ASSUME NEW o, o # None, o \in orgs', orgs \subseteq orgs', lock' = x,
             flight' = [flight EXCEPT ![x] = [@ EXCEPT !.org = o, !.at = "claim"]]
      PROVE  FlightInv'
  <2>1. /\ DOMAIN flight' = DOMAIN flight /\ \A y \in DOMAIN flight : y # x => flight'[y] = flight[y]
        /\ flight'[x] = [flight[x] EXCEPT !.org = o, !.at = "claim"]
    BY <1>4
  <2>2. flight'[x].at = "claim" /\ flight'[x].org = o /\ flight'[x].todo = flight[x].todo /\ DOMAIN flight'[x] = Fields
    BY <1>2, <2>1 DEF Fields
  <2>3. FlightOK(x, flight'[x], world, orgs', lock', edges')
    BY <1>1, <1>2, <1>4, <2>2 DEF FlightOK
  <2> QED
    BY <1>1, <1>3, <1>4, <2>1, <2>3, FlightStep
<1>5. CASE \E o \in orgs : Finds(x, o)
  <2>1. PICK o \in orgs : Finds(x, o)
    BY <1>5
  <2>2. o # None
    BY NoneIsNoOrganization DEF StoreInv
  <2>3. FlightInv'
    BY <1>4, <2>1, <2>2 DEF Finds
  <2> QED
    BY <1>1, <2>1, <2>3, StoreKept DEF Finds
<1>6. CASE Makes(x)
  <2>1. Kind(New(x)) = "Organization"
    BY DEF New, Kind
  <2>2. New(x) # None
    BY <2>1, NoneIsNoOrganization
  <2>3. FlightInv'
    BY <1>4, <1>6, <2>2 DEF Makes
  <2>4. StoreInv'
    BY <1>1, <1>6, <2>1 DEF Makes, StoreInv
  <2> QED
    BY <2>3, <2>4
<1>7. CASE To(x, "check") /\ UNCHANGED <<lock, orgs, made>>
  BY <1>1, <1>7, ToOK, StoreKept DEF Calling, Inside
<1> QED
  BY <1>1, <1>5, <1>6, <1>7

LEMMA WriteClaimsFlights ==
  ASSUME FlightInv, StoreInv, NEW x \in DOMAIN flight, WriteClaims(x)
  PROVE  FlightInv' /\ StoreInv'
<1>1. /\ At(x, "claim") /\ To(x, "relate") /\ UNCHANGED <<world, edges, orgs, scope, row, lock>>
      /\ claims' \subseteq claims \cup ClaimsOf(flight[x].org, flight[x].name, Request(x))
  BY DEF WriteClaims
<1>2. flight[x].org \in orgs /\ flight[x].org # None /\ lock = x /\ x \in DOMAIN world.calls
  BY <1>1 DEF FlightInv, FlightOK, At, Calling, Inside
<1>3. FlightInv'
  BY <1>1, <1>2, ToOK
<1>4. \A c \in ClaimsOf(flight[x].org, flight[x].name, Request(x)) : c[1] = flight[x].org
  BY DEF ClaimsOf
<1>5. \A c \in claims' : c[1] \in orgs
  BY <1>1, <1>2, <1>4 DEF StoreInv
<1> QED
  BY <1>1, <1>3, <1>5 DEF StoreInv

LEMMA RelateFlights ==
  ASSUME FlightInv, StoreInv, NEW x \in DOMAIN flight, Relate(x)
  PROVE  FlightInv' /\ StoreInv'
<1> DEFINE o == flight[x].org
           wanted == {<<obj, Request(x).rel, o>> : obj \in {Request(x).obj} \ {None, o}}
<1>1. /\ At(x, "relate") /\ To(x, "check") /\ lock' = None /\ UNCHANGED <<world, orgs, claims, scope>>
      /\ \/ edges' = edges \cup wanted /\ Dispatch({o})
         \/ UNCHANGED <<edges, row>>
  BY DEF Relate
<1>2. o \in orgs /\ lock = x /\ x \in DOMAIN world.calls /\ world \in Worlds
  BY <1>1 DEF FlightInv, FlightOK, At, Calling, Inside, StoreInv
<1>3. \A y \in DOMAIN flight : y # x => flight[y].at \notin Inside
  BY <1>2 DEF FlightInv, FlightOK
<1>4. Known(wanted) \subseteq Assets(world) \cup orgs
  <2>1. Request(x).obj # None => Request(x).obj \in Assets(world)
    BY <1>2 DEF Assets, Request
  <2> QED
    BY <1>2, <2>1 DEF Known
<1>5. \A e \in wanted : e[2] \notin RegistrantLabels
  BY <1>2, CallsAssumption DEF Request
<1>6. IsFiniteSet(wanted)
  <2>1. wanted = {} \/ wanted = {<<Request(x).obj, Request(x).rel, o>>}
    OBVIOUS
  <2> HIDE DEF wanted
  <2> QED
    BY <2>1, FS_EmptySet, FS_Singleton
<1> HIDE DEF o, wanted
<1>7. Known(edges') \subseteq Known(edges) \cup Known(wanted) /\ Known(edges) \subseteq Known(edges')
  BY <1>1, KnownGrows
<1>8. DOMAIN row' \subseteq DOMAIN row \cup {o} /\ DOMAIN row \subseteq DOMAIN row'
  BY <1>1, RowGrows
<1>9. FlightInv'
  BY <1>1, <1>3, <1>7, <1>8, ToOK DEF Calling, Inside
<1>10. IsFiniteSet(edges') /\ edges \subseteq edges' /\ edges' \subseteq edges \cup wanted
  BY <1>1, <1>6, FS_Union DEF StoreInv
<1> QED
  BY <1>1, <1>2, <1>4, <1>5, <1>7, <1>8, <1>9, <1>10 DEF StoreInv

\* What the handlers of Horizontals consider is stored.
LEMMA NeighboursKnown ==
  ASSUME NEW cr
  PROVE  OrgsAndLocations(cr) \subseteq Known(edges) /\ OrgsOf(cr) \subseteq Known(edges)
<1>1. /\ Out(edges, cr, {"organization"}) \subseteq Known(edges)
      /\ Out(edges, cr, {"location"}) \subseteq Known(edges)
      /\ \A o : Out(edges, o, {"hq_address", "location"}) \subseteq Known(edges)
  BY StoredIsKnown
<1> QED
  BY <1>1 DEF OrgsAndLocations, OrgsOf, LocationsOf, Orgs, Locations

LEMMA SystemKnown ==
  ASSUME NEW record
  PROVE  SystemAndNetblocks(record) \subseteq Known(edges)
<1>1. \A as : Out(edges, as, {"announces"}) \subseteq Known(edges)
  BY StoredIsKnown
<1> QED
  BY <1>1 DEF SystemAndNetblocks, Stored

LEMMA RegisteredKnown ==
  ASSUME NEW record \in Known(edges)
  PROVE  Registered(record) \subseteq Known(edges)
BY SystemKnown DEF Registered, Stored

LEMMA OfRecordKnown ==
  ASSUME NEW x \in Known(edges), NEW cr, Kind(x) \in Records
  PROVE  OfRecord(x, cr) \subseteq Known(edges)
<1>1. CASE Kind(x) = "AutnumRecord"
  BY <1>1, NeighboursKnown, SystemKnown DEF OfRecord
<1>2. CASE Kind(x) = "DomainRecord"
  BY <1>2, NeighboursKnown DEF OfRecord
<1>3. CASE Kind(x) = "IPNetRecord"
  BY <1>3, NeighboursKnown DEF OfRecord, Stored
<1> QED
  BY <1>1, <1>2, <1>3 DEF Records

LEMMA OfCertificateKnown ==
  ASSUME NEW x, NEW cr
  PROVE  OfCertificate(x, cr) \subseteq Known(edges)
<1>1. \A n : Apexes(n) \subseteq Known(edges)
  BY DEF Apexes, Stored
<1> QED
  BY <1>1, NeighboursKnown DEF OfCertificate

LEMMA NeighbourhoodKnown ==
  ASSUME NEW x, NEW label
  PROVE  Neighbourhood(x, label) \subseteq Known(edges)
<1>1. \A cr : \A record \in RecordsStating(cr) : record \in Known(edges)
  BY DEF RecordsStating, StatedBy, Known
<1> QED
  BY <1>1, NeighboursKnown, RegisteredKnown DEF Neighbourhood

LEMMA ExpandOK ==
  ASSUME FlightInv, NEW x \in DOMAIN flight, NEW S, Expand(x, S), S \subseteq Known(edges),
         UNCHANGED <<world, orgs, edges, lock>>, DOMAIN row \subseteq DOMAIN row'
  PROVE  /\ FlightInv'
         /\ DOMAIN flight' = DOMAIN flight /\ \A y \in DOMAIN flight : y # x => flight'[y] = flight[y]
         /\ flight'[x].at = "expand" /\ flight'[x].todo = S
<1>1. /\ DOMAIN flight' = DOMAIN flight /\ \A y \in DOMAIN flight : y # x => flight'[y] = flight[y]
      /\ flight'[x] = [flight[x] EXCEPT !.at = "expand", !.todo = S]
  BY DEF Expand
<1>2. DOMAIN flight[x] = Fields
  BY DEF FlightInv, FlightOK
<1>3. /\ flight'[x].at = "expand" /\ flight'[x].org = flight[x].org /\ flight'[x].todo = S
      /\ DOMAIN flight'[x] = Fields
  BY <1>1, <1>2 DEF Fields
<1>4. FlightOK(x, flight'[x], world, orgs', lock', edges')
  BY <1>3 DEF FlightInv, FlightOK, Calling, Inside
<1> QED
  BY <1>1, <1>3, <1>4, FlightStep

LEMMA CheckRecordFlights ==
  ASSUME FlightInv, StoreInv, NEW x \in DOMAIN flight, CheckRecord(x)
  PROVE  FlightInv' /\ StoreInv'
<1>1. UNCHANGED <<world, edges, orgs, claims, scope, row, lock>> /\ Kind(x) \in Records \cup {"TLSCertificate"}
  BY DEF CheckRecord, dbVars
<1>2. PICK cr \in ContactFound(x) :
        \/ cr # None /\ Expand(x, IF Kind(x) = "TLSCertificate" THEN OfCertificate(x, cr) ELSE OfRecord(x, cr))
        \/ Expand(x, {})
  BY DEF CheckRecord
<1>3. cr # None => x \in Known(edges)
  BY DEF ContactFound, Answers, Out, Known
<1>4. FlightInv'
  <2>1. CASE Expand(x, {})
    BY <1>1, <2>1, ExpandOK
  <2>2. CASE cr # None /\ Kind(x) = "TLSCertificate" /\ Expand(x, OfCertificate(x, cr))
    BY <1>1, <2>2, ExpandOK, OfCertificateKnown
  <2>3. CASE cr # None /\ Kind(x) # "TLSCertificate" /\ Expand(x, OfRecord(x, cr))
    BY <1>1, <1>3, <2>3, ExpandOK, OfRecordKnown
  <2> QED
    BY <1>2, <2>1, <2>2, <2>3
<1> QED
  BY <1>1, <1>4, StoreKept

LEMMA ReviewFlights ==
  ASSUME FlightInv, StoreInv, NEW x \in DOMAIN flight, Review(x)
  PROVE  FlightInv' /\ StoreInv'
<1>1. UNCHANGED <<world, edges, orgs, claims, scope, row, lock>>
  BY DEF Review, dbVars
<1>2. FlightInv'
  BY <1>1, ExpandOK, NeighbourhoodKnown DEF Review
<1> QED
  BY <1>1, <1>2, StoreKept

\* Add puts only the asset itself, a name or a network in the scope.
LEMMA EntryIsItself ==
  ASSUME NEW x, NEW m \in Entry(x), Kind(m) = "Organization"
  PROVE  m = x
BY DEF Entry, FQDN, Netblock, AS, Kind

LEMMA AssociateFlights ==
  ASSUME FlightInv, StoreInv, NEW x \in DOMAIN flight, Associate(x)
  PROVE  FlightInv' /\ StoreInv'
<1>1. /\ UNCHANGED <<world, edges, orgs, claims, row, lock>> /\ Expand(x, {})
      /\ Kind(x) \in {"FQDN", "Organization", "Location"}
      /\ scope' = scope \/ (scope' = scope \cup Entry(x) /\ IsAssociated(edges, scope, x))
  BY DEF Associate, dbVars
<1>2. FlightInv'
  BY <1>1, ExpandOK
<1>3. IsAssociated(edges, scope, x) => x \in Known(edges)
  <2>1. Cardinality(edges) \in Nat
    BY FS_CardinalityType DEF StoreInv
  <2>2. Kind(x) \notin Last
    BY <1>1 DEF Last, Records
  <2> QED
    BY <2>1, <2>2, UnknownIsUnassociated
<1>4. \A m \in scope' : Kind(m) = "Organization" => m \in Known(edges)
  BY <1>1, <1>3, EntryIsItself DEF StoreInv
<1> QED
  BY <1>1, <1>2, <1>4 DEF StoreInv

LEMMA SweepFlights ==
  ASSUME FlightInv, StoreInv, NEW x \in DOMAIN flight, SweepAround(x)
  PROVE  FlightInv' /\ StoreInv'
<1>1. PICK S \in SUBSET world.near : Dispatch(S)
  BY DEF SweepAround
<1>2. UNCHANGED <<world, edges, orgs, claims, scope, lock>> /\ Expand(x, {})
  BY DEF SweepAround, dbVars
<1>3. DOMAIN row' = DOMAIN row \cup S /\ S \subseteq Assets(world)
  BY <1>1, RowGrows DEF Assets
<1>4. FlightInv'
  BY <1>2, <1>3, ExpandOK
<1> QED
  BY <1>2, <1>3, <1>4 DEF StoreInv

LEMMA PassFlights ==
  ASSUME FlightInv, StoreInv, NEW x \in DOMAIN flight, Pass(x)
  PROVE  FlightInv' /\ StoreInv'
<1>1. UNCHANGED <<world, edges, orgs, claims, scope, row, lock>> /\ Expand(x, {})
  BY DEF Pass, dbVars
<1> QED
  BY <1>1, ExpandOK, StoreKept

LEMMA EnqueueFlights ==
  ASSUME FlightInv, StoreInv, NEW x \in DOMAIN flight, EnqueueIfOutOfScope(x)
  PROVE  FlightInv' /\ StoreInv'
<1>1. PICK y \in flight[x].todo :
        /\ At(x, "expand") /\ flight' = [flight EXCEPT ![x].todo = @ \ {y}]
        /\ scope' \subseteq scope \cup Entry(y)
        /\ Enqueue({y}) \/ UNCHANGED row
  BY DEF EnqueueIfOutOfScope
<1>2. UNCHANGED <<world, edges, orgs, claims, lock>>
  BY DEF EnqueueIfOutOfScope, dbVars
<1>3. y \in Known(edges) /\ DOMAIN flight[x] = Fields
  BY <1>1 DEF FlightInv, FlightOK
<1>4. DOMAIN row' \subseteq DOMAIN row \cup {y} /\ DOMAIN row \subseteq DOMAIN row'
  BY <1>1, RowGrows
<1>5. /\ DOMAIN flight' = DOMAIN flight /\ \A z \in DOMAIN flight : z # x => flight'[z] = flight[z]
      /\ flight'[x] = [flight[x] EXCEPT !.todo = @ \ {y}]
  BY <1>1
<1>6. /\ flight'[x].at = flight[x].at /\ flight'[x].org = flight[x].org /\ flight'[x].todo = flight[x].todo \ {y}
      /\ DOMAIN flight'[x] = Fields
  BY <1>3, <1>5 DEF Fields
<1>7. FlightOK(x, flight'[x], world, orgs', lock', edges')
  BY <1>2, <1>6 DEF FlightInv, FlightOK
<1>8. FlightInv'
  BY <1>2, <1>4, <1>5, <1>7, FlightStep
<1>9. \A m \in scope' : Kind(m) = "Organization" => m \in Known(edges)
  BY <1>1, <1>3, EntryIsItself DEF StoreInv
<1> QED
  BY <1>2, <1>3, <1>4, <1>8, <1>9 DEF StoreInv

LEMMA CompleteFlights ==
  ASSUME FlightInv, StoreInv, NEW x \in DOMAIN flight, Complete(x)
  PROVE  FlightInv' /\ StoreInv'
<1>1. UNCHANGED <<world, edges, orgs, claims, scope, lock>> /\ DOMAIN row' = DOMAIN row
  BY DEF Complete, dbVars
<1>2. DOMAIN flight' = DOMAIN flight \ {x} /\ \A y \in DOMAIN flight' : flight'[y] = flight[y]
  BY DEF Complete
<1>3. FlightInv'
  BY <1>1, <1>2 DEF FlightInv
<1> QED
  BY <1>1, <1>3, StoreKept

\* The calls are where the code says, and the database is stored as it says, throughout.
LEMMA FlightsHold == Spec => [](FlightInv /\ StoreInv)
<1>1. FlightInv /\ StoreInv /\ [Next]_vars => (FlightInv /\ StoreInv)'
  <2> SUFFICES ASSUME FlightInv, StoreInv, [Next]_vars PROVE (FlightInv /\ StoreInv)'
    OBVIOUS
  <2>1. CASE UNCHANGED vars
    <3>1. UNCHANGED <<world, edges, orgs, claims, scope, row, flight, lock>>
      BY <2>1 DEF vars, dbVars
    <3> QED
      BY <3>1 DEF FlightInv, StoreInv
  <2>2. ASSUME NEW x \in DOMAIN row, Claim(x) PROVE (FlightInv /\ StoreInv)'
    BY <2>2, ClaimFlights
  <2>3. ASSUME NEW x \in DOMAIN flight,
               \/ Store(x) \/ Lookup(x) \/ Walk(x) \/ Acquire(x) \/ WriteClaims(x) \/ Relate(x)
               \/ CheckRecord(x) \/ Review(x) \/ Associate(x) \/ SweepAround(x) \/ Pass(x)
               \/ EnqueueIfOutOfScope(x) \/ Complete(x)
        PROVE  (FlightInv /\ StoreInv)'
    BY <2>3, StoreFlights, LookupFlights, WalkFlights, AcquireFlights, WriteClaimsFlights, RelateFlights,
       CheckRecordFlights, ReviewFlights, AssociateFlights, SweepFlights, PassFlights, EnqueueFlights, CompleteFlights
  <2> QED
    BY <2>1, <2>2, <2>3 DEF Next
<1> QED
  BY <1>1, InitFlights, PTL DEF Spec

------------------------------------------------------------------------------
(* What the scope and the claims tell a later call.                        *)

\* What is in scope stays so when the scope grows.
LEMMA ScopeGrows ==
  ASSUME NEW S, NEW T, S \subseteq T, NEW x, InScope(S, x)
  PROVE  InScope(T, x)
<1>1. \A names : SameName(S, names) \subseteq SameName(T, names)
  BY DEF SameName
<1>2. CASE Kind(x) \in {"FQDN", "URL", "TLSCertificate"}
  BY <1>2 DEF InScope, Matches
<1>3. CASE Kind(x) = "DomainRecord"
  BY <1>1, <1>3 DEF InScope, Matches
<1>4. CASE Kind(x) = "AutnumRecord"
  BY <1>1, <1>4 DEF InScope, Matches
<1>5. CASE Kind(x) \in {"IPNetRecord", "IPAddress"}
  BY <1>5 DEF InScope, Matches
<1>6. CASE Kind(x) = "Organization"
  BY <1>1, <1>6 DEF InScope, Matches
<1>7. CASE Kind(x) \in {"Netblock", "AutonomousSystem", "Location"}
  BY <1>7 DEF InScope, Matches
<1>8. CASE Kind(x) \notin {"FQDN", "URL", "TLSCertificate", "DomainRecord", "AutnumRecord", "IPNetRecord", "IPAddress",
                           "Organization", "Netblock", "AutonomousSystem", "Location"}
  BY <1>8 DEF InScope, Matches
<1> QED
  BY <1>2, <1>3, <1>4, <1>5, <1>6, <1>7, <1>8

\* A record is of something that is stored, and that Add puts into the scope.
LEMMA SubjectStored ==
  ASSUME StoreInv, NEW x \in Known(edges), Kind(x) \in Records
  PROVE  Subject(x) \in Known(edges) /\ Entry(Subject(x)) = {Subject(x)}
<1>1. x \in Assets(world)
  BY DEF StoreInv, Records
<1>2. Subject(x) \in Known(world.before) /\ Entry(Subject(x)) = {Subject(x)}
  BY <1>1, RecordsAssumption DEF StoreInv
<1> QED
  BY <1>2 DEF StoreInv, Known

\* A domain record is of a registered domain, which it brings into the scope.
LEMMA DomainOfRecord ==
  ASSUME NEW x, Kind(x) = "DomainRecord", Entry(Subject(x)) = {Subject(x)}
  PROVE  Domain[Key(x)] = Key(x) /\ Subject(x) = FQDN(Key(x)) /\ Entry(x) = {Subject(x)}
<1>1. Subject(x) = FQDN(Key(x)) /\ Kind(Subject(x)) = "FQDN" /\ Key(Subject(x)) = Key(x)
  BY DEF Subject, FQDN, Kind, Key
<1>2. Entry(Subject(x)) = {FQDN(k) : k \in {Key(x)} \cap {Domain[Key(x)]}}
  BY <1>1 DEF Entry
<1>3. Domain[Key(x)] = Key(x)
  BY <1>2
<1>4. Entry(x) = {FQDN(k) : k \in {Key(x)} \cap {Domain[Key(x)]}}
  BY DEF Entry
<1> QED
  BY <1>1, <1>3, <1>4

\* What of the scope matches a record is in the database: the association of its contact finds it.
LEMMA MatchesStored ==
  ASSUME StoreInv, NEW x \in Known(edges), Kind(x) \in Records, NEW m \in Matches(scope, x)
  PROVE  IsStored(edges, m)
<1>1. Subject(x) \in Known(edges) /\ Entry(Subject(x)) = {Subject(x)}
  BY SubjectStored
<1>2. \A names : \A o \in SameName(scope, names) : IsStored(edges, o)
  BY DEF SameName, StoreInv, IsStored
<1>3. CASE Kind(x) = "DomainRecord"
  <2>1. Domain[Key(x)] = Key(x) /\ Subject(x) = FQDN(Key(x))
    BY <1>1, <1>3, DomainOfRecord
  <2>2. m = Subject(x) \/ m \in SameName(scope, {x[3]})
    BY <1>3, <2>1 DEF Matches
  <2> QED
    BY <1>1, <1>2, <2>2 DEF IsStored
<1>4. CASE Kind(x) = "AutnumRecord"
  <2>1. m = AS(Key(x)) \/ m \in SameName(scope, {x[3]})
    BY <1>4 DEF Matches
  <2>2. Subject(x) = AS(Key(x))
    BY <1>4 DEF Subject
  <2> QED
    BY <1>1, <1>2, <2>1, <2>2 DEF IsStored
<1>5. CASE Kind(x) = "IPNetRecord"
  <2>1. m = Netblock(Key(x))
    BY <1>5 DEF Matches
  <2>2. Subject(x) = Netblock(Key(x))
    BY <1>5 DEF Subject
  <2> QED
    BY <1>1, <2>1, <2>2 DEF IsStored
<1> QED
  BY <1>3, <1>4, <1>5 DEF Records

\* Once the claims of a call are stored, one that states the same organization finds one.
LEMMA ClaimedIsFound ==
  ASSUME NEW C, NEW O, \A c \in C : c[1] # None, NEW o, NEW m, ClaimsOf(o, m.name, m) \subseteq C,
         NEW name, NEW r, NEW s, s.name = name /\ s.jur = r.jur /\ s.reg = r.reg /\ s.src = r.src,
         SameClaim(m, s)
  PROVE  None \notin LookupOrgByClaims(C, O, name, r)
<1>1. \A type, value, src : None \notin Claimants(C, type, value, src)
  BY DEF Claimants
<1>2. CASE m.jur = Blank /\ r.jur = Blank /\ m.name = name /\ m.src = r.src
  <2>1. <<o, "organization_name", name, r.src>> \in C
    BY <1>2 DEF ClaimsOf
  <2>2. o \in FindOrgByNameClaim(C, name, r.src)
    BY <2>1 DEF FindOrgByNameClaim, Claimants
  <2>3. None \notin FindOrgByNameClaim(C, name, r.src)
    BY <1>1 DEF FindOrgByNameClaim
  <2> QED
    BY <1>2, <2>2, <2>3 DEF LookupOrgByClaims, Answers, FirstAnswers
<1>3. CASE /\ m.jur # Blank /\ r.jur # Blank /\ Country[m.jur] = Country[r.jur]
           /\ m.reg # Blank /\ m.reg = r.reg
  <2>1. <<o, "jurisdiction", m.jur, Blank>> \in C /\ <<o, "registration_id", r.reg, m.src>> \in C
    BY <1>3 DEF ClaimsOf
  <2>2. InJurisdiction(C, o, r.jur)
    BY <1>3, <2>1 DEF InJurisdiction
  <2>3. o \in FindOrgByJurisdictionAndRegistrationIDClaim(C, r.jur, r.reg)
    BY <2>1, <2>2 DEF FindOrgByJurisdictionAndRegistrationIDClaim
  <2>4. None \notin FindOrgByJurisdictionAndRegistrationIDClaim(C, r.jur, r.reg)
    BY DEF FindOrgByJurisdictionAndRegistrationIDClaim
  <2> QED
    BY <1>3, <2>3, <2>4 DEF LookupOrgByClaims, Answers
<1> QED
  BY <1>2, <1>3 DEF SameClaim

------------------------------------------------------------------------------
(* The organizations, their claims and their relations.                    *)

\* The organizations are numbered in the order they were made.
Numbered ==
  /\ IsFiniteSet(orgs) /\ DOMAIN made = orgs
  /\ \A o \in orgs : o[4] \in 1 .. Cardinality(orgs)

\* The call that made o still has its claims, or its relation, to write.
Claiming(o) ==
  \E x \in DOMAIN flight : flight[x].at = "claim" /\ flight[x].org = o
                           /\ ClaimsOf(o, flight[x].name, Request(x)) = OwnClaims(o)
Relating(o) ==
  \E x \in DOMAIN flight : flight[x].at \in Inside /\ flight[x].org = o
                           /\ <<Request(x).obj, Request(x).rel, o>> = OwnRelation(o)

\* The relation of an organization in scope is to the registrant contact of a record in scope.
ContactIn(E, S, obj) ==
  Kind(obj) = "ContactRecord" /\ \E record \in In(E, obj, RegistrantLabels) : InScope(S, record)

ClaimsKept == \A o \in orgs : <<o, "claims">> \notin undone => OwnClaims(o) \subseteq claims \/ Claiming(o)
RelationKept ==
  \A o \in orgs : <<o, "relation">> \notin undone /\ made[o].inScope =>
    /\ made[o].rel = "organization" /\ ContactIn(edges, scope, made[o].obj)
    /\ OwnRelation(o) \in edges \/ Relating(o)

\* Neither property is inductive: an organization may be on its way to its claims and relation, and
\* whoever makes another one under the lock must find that nobody is.
OrgInv == Numbered /\ ClaimsKept /\ RelationKept /\ OneOrganization /\ InScopeOnce

LEMMA InitOrgs == Init => OrgInv
<1> SUFFICES ASSUME Init PROVE OrgInv
  OBVIOUS
<1>1. /\ world \in Worlds /\ orgs = DOMAIN world.orgs /\ made = world.orgs
      /\ undone = (DOMAIN world.orgs) \X {"claims", "relation"}
  BY DEF Init
<1>2. Numbered
  BY <1>1, OrganizationsAssumption DEF Numbered
<1>3. \A o \in orgs : <<o, "claims">> \in undone /\ <<o, "relation">> \in undone
  BY <1>1
<1> QED
  BY <1>2, <1>3 DEF OrgInv, ClaimsKept, RelationKept, OneOrganization, InScopeOnce

\* The contact of a record in scope stays one.
LEMMA ContactStays ==
  ASSUME edges \subseteq edges', scope \subseteq scope', NEW obj, ContactIn(edges, scope, obj)
  PROVE  ContactIn(edges', scope', obj)
BY ScopeGrows DEF ContactIn, In

\* A step that makes no organization, and neither begins nor ends one's time under the lock.
LEMMA OrgsKept ==
  ASSUME OrgInv, UNCHANGED <<world, orgs, made, undone>>, claims \subseteq claims', edges \subseteq edges', scope \subseteq scope',
         \A x \in DOMAIN flight : flight[x].at \in Inside => x \in DOMAIN flight' /\ flight'[x] = flight[x]
  PROVE  OrgInv'
<1>1. ASSUME NEW o, Claiming(o) PROVE Claiming(o)'
  BY <1>1 DEF Claiming, Inside, OwnClaims, Request
<1>2. ASSUME NEW o, Relating(o) PROVE Relating(o)'
  BY <1>2 DEF Relating, OwnRelation, Request
<1>3. Numbered'
  BY DEF OrgInv, Numbered
<1>4. ClaimsKept'
  BY <1>1 DEF OrgInv, ClaimsKept, OwnClaims
<1>5. RelationKept'
  <2> SUFFICES ASSUME NEW o \in orgs, <<o, "relation">> \notin undone, made[o].inScope
               PROVE  /\ made[o].rel = "organization" /\ ContactIn(edges', scope', made[o].obj)
                      /\ OwnRelation(o) \in edges' \/ Relating(o)'
    BY DEF RelationKept, OwnRelation
  <2> QED
    BY <1>2, ContactStays DEF OrgInv, RelationKept
<1>6. OneOrganization' /\ InScopeOnce'
  BY DEF OrgInv, OneOrganization, InScopeOnce
<1> QED
  BY <1>3, <1>4, <1>5, <1>6 DEF OrgInv

\* Nobody holds the lock, so what a call made is stored.
LEMMA NobodyInside ==
  ASSUME FlightInv, StoreInv, lock = None
  PROVE  \A x \in DOMAIN flight : flight[x].at \notin Inside
BY NoneIsNoEvent DEF FlightInv, FlightOK

\* A new organization has a number of its own, above those of the others.
LEMMA NewIsNew ==
  ASSUME OrgInv, NEW x
  PROVE  /\ New(x) \notin orgs /\ New(x)[4] = Cardinality(orgs) + 1 /\ New(x)[2] = Brand(Request(x))
         /\ Cardinality(orgs) \in Nat
         /\ IsFiniteSet(orgs \cup {New(x)}) /\ Cardinality(orgs \cup {New(x)}) = Cardinality(orgs) + 1
<1>1. New(x)[4] = Cardinality(orgs) + 1 /\ New(x)[2] = Brand(Request(x))
  BY DEF New
<1>2. Cardinality(orgs) \in Nat /\ IsFiniteSet(orgs)
  BY FS_CardinalityType DEF OrgInv, Numbered
<1>3. New(x) \notin orgs
  BY <1>1, <1>2 DEF OrgInv, Numbered
<1>4. /\ IsFiniteSet(orgs \cup {New(x)})
      /\ Cardinality(orgs \cup {New(x)}) = IF New(x) \in orgs THEN Cardinality(orgs) ELSE Cardinality(orgs) + 1
  BY <1>2, FS_AddElement
<1>5. Cardinality(orgs \cup {New(x)}) = Cardinality(orgs) + 1
  BY <1>3, <1>4
<1> QED
  BY <1>1, <1>2, <1>3, <1>4, <1>5

\* A call that makes an organization has none to find.
LEMMA MakesNoClaimed ==
  ASSUME FlightInv, StoreInv, OrgInv, NEW x \in DOMAIN flight, lock = None, None \in Found(x),
         NEW o \in orgs, <<o, "claims">> \notin undone
  PROVE  ~SameClaim(made[o], Made(x))
<1>1. OwnClaims(o) \subseteq claims
  BY NobodyInside DEF OrgInv, ClaimsKept, Claiming, Inside
<1>2. None \in LookupOrgByClaims(claims, orgs, flight[x].name, Request(x))
  BY DEF Found, FoundLocked
<1>3. \A c \in claims : c[1] # None
  BY NoneIsNoOrganization DEF StoreInv
<1>4. /\ Made(x).name = flight[x].name /\ Made(x).jur = Request(x).jur
      /\ Made(x).reg = Request(x).reg /\ Made(x).src = Request(x).src
  BY DEF Made
<1>5. ClaimsOf(o, made[o].name, made[o]) \subseteq claims
  BY <1>1 DEF OwnClaims
<1> QED
  <2> DEFINE m == made[o]
             s == Made(x)
             r == Request(x)
             name == flight[x].name
  <2>1. /\ ClaimsOf(o, m.name, m) \subseteq claims
        /\ s.name = name /\ s.jur = r.jur /\ s.reg = r.reg /\ s.src = r.src
        /\ None \in LookupOrgByClaims(claims, orgs, name, r)
    BY <1>2, <1>4, <1>5
  <2> HIDE DEF m, s, r, name
  <2>2. ~SameClaim(m, s)
    BY <1>3, <2>1, ClaimedIsFound
  <2> QED
    BY <2>2 DEF m, s

\* Nor does it have the name of an organization that is related to a contact in scope.
LEMMA MakesNoRelated ==
  ASSUME FlightInv, StoreInv, OrgInv, NEW x \in DOMAIN flight, lock = None, None \in Found(x),
         NEW o \in orgs, <<o, "relation">> \notin undone, made[o].inScope
  PROVE  o[2] # Brand(Request(x))
<1>1. ContactIn(edges, scope, made[o].obj) /\ OwnRelation(o) = <<made[o].obj, "organization", o>>
  BY DEF OrgInv, RelationKept, OwnRelation
<1>2. OwnRelation(o) \in edges
  BY NobodyInside DEF OrgInv, RelationKept, Relating
<1>3. PICK record \in In(edges, made[o].obj, RegistrantLabels) : InScope(scope, record)
  BY <1>1 DEF ContactIn
<1>4. Kind(record) \in Records /\ record \in Known(edges)
  BY <1>3 DEF In, StoreInv, Known
<1>5. \A m \in Matches(scope, record) : IsStored(edges, m)
  BY <1>4, MatchesStored
<1>6. IsAssociated(edges, scope, o)
  <2> DEFINE cr == made[o].obj
  <2>1. /\ Kind(cr) = "ContactRecord" /\ <<cr, "organization", o>> \in edges
        /\ record \in In(edges, cr, RegistrantLabels)
    BY <1>1, <1>2, <1>3 DEF ContactIn
  <2>2. Kind(o) = "Organization" /\ IsFiniteSet(edges)
    BY DEF StoreInv
  <2> HIDE DEF cr
  <2> QED
    BY <1>3, <1>4, <1>5, <2>1, <2>2, AssociatedByRecord
<1>7. None \in Answers(NameExistsInSessionScope(edges, orgs, scope, Request(x)))
  BY NoneIsNoOrganization DEF Found, FoundLocked, StoreInv
<1>8. None \notin orgs
  BY NoneIsNoOrganization DEF StoreInv
<1>9. NameExistsInSessionScope(edges, orgs, scope, Request(x)) = {}
  BY <1>7, <1>8 DEF Answers, NameExistsInSessionScope
<1> QED
  BY <1>6, <1>9 DEF NameExistsInSessionScope

\* The steps that are taken without the lock.
Outside(x) ==
  \/ Store(x) \/ Lookup(x) \/ Walk(x) \/ CheckRecord(x) \/ Review(x) \/ Associate(x) \/ SweepAround(x) \/ Pass(x)
  \/ EnqueueIfOutOfScope(x) \/ Complete(x)

LEMMA OutsideOrgs ==
  ASSUME OrgInv, NEW x \in DOMAIN flight, Outside(x)
  PROVE  OrgInv'
<1>1. UNCHANGED <<world, orgs, claims, made, undone>> /\ edges \subseteq edges' /\ scope \subseteq scope'
  BY DEF Outside, Store, Lookup, Walk, CheckRecord, Review, Associate, SweepAround, Pass, EnqueueIfOutOfScope, Complete,
         dbVars, historyVars
<1>2. /\ flight[x].at \notin Inside
      /\ \A y \in DOMAIN flight : y # x => y \in DOMAIN flight' /\ flight'[y] = flight[y]
  <2>1. CASE Store(x)
    BY <2>1 DEF Store, At, To, Inside
  <2>2. CASE Lookup(x) \/ Walk(x)
    BY <2>2 DEF Lookup, Walk, At, Inside
  <2>3. CASE CheckRecord(x) \/ Review(x) \/ Associate(x) \/ SweepAround(x) \/ Pass(x)
    BY <2>3 DEF CheckRecord, Review, Associate, SweepAround, Pass, Expand, At, Inside
  <2>4. CASE EnqueueIfOutOfScope(x)
    BY <2>4 DEF EnqueueIfOutOfScope, At, Inside
  <2>5. CASE Complete(x)
    BY <2>5 DEF Complete, At, Inside
  <2> QED
    BY <2>1, <2>2, <2>3, <2>4, <2>5 DEF Outside
<1> QED
  BY <1>1, <1>2, OrgsKept

LEMMA ClaimOrgs ==
  ASSUME OrgInv, NEW x \in DOMAIN row, Claim(x)
  PROVE  OrgInv'
<1>1. UNCHANGED <<world, orgs, claims, made, undone, edges, scope>>
  BY DEF Claim, dbVars, historyVars
<1>2. \A y \in DOMAIN flight : y \in DOMAIN flight' /\ flight'[y] = flight[y]
  BY DEF Claim
<1> QED
  BY <1>1, <1>2, OrgsKept

\* The one step that makes an organization.  Nobody is Inside, so each earlier call has stored its
\* claims and relation or has failed to; what is stored would have been found.
LEMMA AcquireOrgs ==
  ASSUME FlightInv, StoreInv, OrgInv, NEW x \in DOMAIN flight, Acquire(x)
  PROVE  OrgInv'
<1>1. /\ At(x, "wait") /\ lock = None /\ UNCHANGED <<world, edges, claims, scope, undone>>
      /\ \/ \E o \in orgs : Finds(x, o)
         \/ Makes(x)
         \/ To(x, "check") /\ UNCHANGED <<lock, orgs, made>>
  BY AcquireCases
<1>2. \A y \in DOMAIN flight : flight[y].at \notin Inside
  BY <1>1, NobodyInside
<1>3. CASE \E o \in orgs : Finds(x, o)
  BY <1>1, <1>2, <1>3, OrgsKept DEF Finds
<1>4. CASE To(x, "check") /\ UNCHANGED <<lock, orgs, made>>
  BY <1>1, <1>2, <1>4, OrgsKept
<1>5. CASE Makes(x)
  <2>0. PICK new : new = New(x)
    OBVIOUS
  <2>1. /\ new \notin orgs /\ new[4] = Cardinality(orgs) + 1 /\ new[2] = Brand(Request(x))
        /\ Cardinality(orgs) \in Nat
        /\ IsFiniteSet(orgs') /\ Cardinality(orgs') = Cardinality(orgs) + 1
        /\ orgs' = orgs \cup {new}
    BY <1>5, <2>0, NewIsNew DEF Makes
  <2>2. /\ DOMAIN made' = orgs' /\ made'[new] = Made(x) /\ \A o \in orgs : made'[o] = made[o]
        /\ flight' = [flight EXCEPT ![x] = [@ EXCEPT !.org = new, !.at = "claim"]]
        /\ None \in Found(x)
    BY <1>5, <2>0, <2>1 DEF Makes
  <2>3. Numbered'
    BY <2>1, <2>2 DEF OrgInv, Numbered
  <2>4. \A o \in orgs : OwnClaims(o)' = OwnClaims(o) /\ OwnRelation(o)' = OwnRelation(o)
    BY <2>2 DEF OwnClaims, OwnRelation
  <2>5. DOMAIN flight[x] = Fields
    BY DEF FlightInv, FlightOK
  <2>6. /\ x \in DOMAIN flight' /\ flight'[x].at = "claim" /\ flight'[x].org = new
        /\ flight'[x].name = flight[x].name
    BY <2>2, <2>5 DEF Fields
  <2>7. ClaimsOf(new, flight[x].name, Request(x)) = OwnClaims(new)'
    BY <2>2 DEF OwnClaims, Made, ClaimsOf
  <2>8. ClaimsKept'
    <3>1. ASSUME NEW o \in orgs, <<o, "claims">> \notin undone PROVE OwnClaims(o)' \subseteq claims
      BY <1>2, <2>4, <3>1 DEF OrgInv, ClaimsKept, Claiming, Inside
    <3>2. Request(x)' = Request(x)
      BY <1>1 DEF Request
    <3>3. Claiming(new)'
      BY <2>6, <2>7, <3>2 DEF Claiming
    <3> QED
      BY <1>1, <2>1, <3>1, <3>3 DEF ClaimsKept
  <2>9. Made(x).obj = Request(x).obj /\ Made(x).rel = Request(x).rel /\ Made(x).inScope = IsInScopeContact(Request(x).obj)
    BY DEF Made
  <2>10. RelationKept'
    <3>1. ASSUME NEW o \in orgs, <<o, "relation">> \notin undone, made[o].inScope
          PROVE  made[o].rel = "organization" /\ ContactIn(edges, scope, made[o].obj) /\ OwnRelation(o)' \in edges
      BY <1>2, <2>4, <3>1 DEF OrgInv, RelationKept, Relating
    <3>2. ASSUME Made(x).inScope
          PROVE  Made(x).rel = "organization" /\ ContactIn(edges, scope, Made(x).obj)
      <4>1. IsInScopeContact(Request(x).obj)
        BY <2>9, <3>2
      <4>2. ContactIn(edges, scope, Request(x).obj)
        BY <4>1 DEF IsInScopeContact, ContactIn, In, StoreInv
      <4>3. x \in DOMAIN world.calls /\ world \in Worlds
        BY <1>1 DEF FlightInv, FlightOK, At, Calling, StoreInv
      <4>4. Request(x).rel = "organization"
        BY <4>2, <4>3, CallsAssumption DEF Request, ContactIn
      <4> QED
        BY <2>9, <4>2, <4>4
    <3>3. Relating(new)'
      BY <1>1, <2>2, <2>6, <2>9 DEF Relating, Inside, OwnRelation, Request
    <3>4. ASSUME NEW o \in orgs', <<o, "relation">> \notin undone', made'[o].inScope
          PROVE  /\ made'[o].rel = "organization" /\ ContactIn(edges, scope, made'[o].obj)
                 /\ OwnRelation(o)' \in edges \/ Relating(o)'
      <4>1. CASE o = new
        BY <2>2, <3>2, <3>3, <3>4, <4>1
      <4>2. CASE o \in orgs
        BY <1>1, <2>2, <3>1, <3>4, <4>2
      <4> QED
        BY <2>1, <4>1, <4>2
    <3> QED
      BY <1>1, <3>4 DEF RelationKept
  <2>11. OneOrganization'
    <3> SUFFICES ASSUME NEW o \in orgs', NEW p \in orgs', o[4] < p[4], SameClaim(made'[o], made'[p]), <<o, "claims">> \notin undone
                 PROVE  FALSE
      BY <1>1 DEF OneOrganization, SameClaim
    <3>1. o \in orgs
      BY <2>1 DEF OrgInv, Numbered
    <3>2. CASE p \in orgs
      BY <2>2, <3>1, <3>2 DEF OrgInv, OneOrganization
    <3>3. CASE p = new
      BY <1>1, <2>2, <3>1, <3>3, MakesNoClaimed
    <3> QED
      BY <2>1, <3>2, <3>3
  <2>12. InScopeOnce'
    <3> SUFFICES ASSUME NEW o \in orgs', NEW p \in orgs', o[4] < p[4], made'[o].inScope, p[2] = o[2], <<o, "relation">> \notin undone
                 PROVE  FALSE
      BY <1>1 DEF InScopeOnce
    <3>1. o \in orgs
      BY <2>1 DEF OrgInv, Numbered
    <3>2. CASE p \in orgs
      BY <2>2, <3>1, <3>2 DEF OrgInv, InScopeOnce
    <3>3. CASE p = new
      BY <1>1, <2>1, <2>2, <3>1, <3>3, MakesNoRelated
    <3> QED
      BY <2>1, <3>2, <3>3
  <2> QED
    BY <2>3, <2>8, <2>10, <2>11, <2>12 DEF OrgInv
<1> QED
  BY <1>1, <1>3, <1>4, <1>5

\* createOrgLock.
LEMMA AloneInside ==
  ASSUME FlightInv, NEW x \in DOMAIN flight, flight[x].at \in Inside, NEW y \in DOMAIN flight, flight[y].at \in Inside
  PROVE  y = x
BY DEF FlightInv, FlightOK

LEMMA WriteClaimsOrgs ==
  ASSUME FlightInv, StoreInv, OrgInv, NEW x \in DOMAIN flight, WriteClaims(x)
  PROVE  OrgInv'
<1> DEFINE o == flight[x].org
           all == ClaimsOf(o, flight[x].name, Request(x))
<1>1. /\ At(x, "claim") /\ To(x, "relate") /\ UNCHANGED <<world, edges, orgs, scope, made>>
      /\ claims \subseteq claims'
      /\ \/ claims' = claims \cup all /\ undone' = undone
         \/ undone' = undone \cup {u \in {<<o, "claims">>} : ~(OwnClaims(o) \subseteq claims')}
  BY DEF WriteClaims
<1>2. flight[x].at = "claim" /\ "claim" \in Inside /\ DOMAIN flight[x] = Fields
  BY <1>1 DEF At, Inside, FlightInv, FlightOK
<1>3. /\ DOMAIN flight' = DOMAIN flight /\ \A y \in DOMAIN flight : y # x => flight'[y] = flight[y]
      /\ flight'[x].at = "relate" /\ flight'[x].org = flight[x].org
  BY <1>1, <1>2 DEF To, Fields
<1>4. \A p : OwnClaims(p)' = OwnClaims(p) /\ OwnRelation(p)' = OwnRelation(p)
  BY <1>1 DEF OwnClaims, OwnRelation
<1>5. \A p : <<p, "claims">> \in undone => <<p, "claims">> \in undone'
  BY <1>1
<1>6. \A p : <<p, "relation">> \in undone <=> <<p, "relation">> \in undone'
  BY <1>1
<1>7. ClaimsKept'
  <2> SUFFICES ASSUME NEW p \in orgs, <<p, "claims">> \notin undone' PROVE OwnClaims(p) \subseteq claims'
    BY <1>1, <1>4 DEF ClaimsKept
  <2>1. CASE OwnClaims(p) \subseteq claims
    BY <1>1, <2>1
  <2>2. CASE Claiming(p)
    <3>1. p = o /\ all = OwnClaims(p)
      BY <1>2, <2>2, AloneInside DEF Claiming
    <3> HIDE DEF o, all
    <3>2. CASE claims' = claims \cup all
      BY <3>1, <3>2
    <3>3. CASE undone' = undone \cup {u \in {<<o, "claims">>} : ~(OwnClaims(o) \subseteq claims')}
      BY <3>1, <3>3
    <3> QED
      BY <1>1, <3>2, <3>3
  <2> QED
    BY <1>5, <2>1, <2>2 DEF OrgInv, ClaimsKept
<1>8. RelationKept'
  <2> SUFFICES ASSUME NEW p \in orgs, <<p, "relation">> \notin undone, made[p].inScope
               PROVE  /\ made[p].rel = "organization" /\ ContactIn(edges', scope', made[p].obj)
                      /\ OwnRelation(p) \in edges' \/ Relating(p)'
    BY <1>1, <1>4, <1>6 DEF RelationKept
  <2>1. ContactIn(edges', scope', made[p].obj) <=> ContactIn(edges, scope, made[p].obj)
    BY <1>1
  <2>2. Relating(p) => Relating(p)'
    <3> SUFFICES ASSUME Relating(p) PROVE Relating(p)'
      OBVIOUS
    <3>1. flight[x].org = p /\ <<Request(x).obj, Request(x).rel, p>> = OwnRelation(p)
      BY <1>2, AloneInside DEF Relating
    <3>2. Request(x)' = Request(x)
      BY <1>1 DEF Request
    <3> QED
      BY <1>3, <1>4, <3>1, <3>2 DEF Relating, Inside
  <2> QED
    BY <1>1, <2>1, <2>2 DEF OrgInv, RelationKept
<1>9. Numbered'
  BY <1>1 DEF OrgInv, Numbered
<1>10. OneOrganization' /\ InScopeOnce'
  BY <1>1, <1>5, <1>6 DEF OrgInv, OneOrganization, InScopeOnce
<1> QED
  BY <1>7, <1>8, <1>9, <1>10 DEF OrgInv

LEMMA RelateOrgs ==
  ASSUME FlightInv, StoreInv, OrgInv, NEW x \in DOMAIN flight, Relate(x)
  PROVE  OrgInv'
<1> DEFINE o == flight[x].org
           wanted == {<<obj, Request(x).rel, o>> : obj \in {Request(x).obj} \ {None, o}}
<1>1. /\ At(x, "relate") /\ To(x, "check") /\ UNCHANGED <<world, claims, orgs, scope, made>>
      /\ edges \subseteq edges'
      /\ \/ edges' = edges \cup wanted /\ undone' = undone
         \/ edges' = edges /\ undone' = undone \cup {u \in {<<o, "relation">>} : OwnRelation(o) \notin edges}
  BY DEF Relate
<1>2. flight[x].at = "relate" /\ "relate" \in Inside /\ o \in orgs
  BY <1>1 DEF At, Inside, FlightInv, FlightOK
<1>3. \A p : OwnClaims(p)' = OwnClaims(p) /\ OwnRelation(p)' = OwnRelation(p)
  BY <1>1 DEF OwnClaims, OwnRelation
<1>4. \A p : <<p, "claims">> \in undone <=> <<p, "claims">> \in undone'
  BY <1>1
<1>5. \A p : <<p, "relation">> \in undone => <<p, "relation">> \in undone'
  BY <1>1
<1>6. \A p : ~Claiming(p)
  BY <1>2, AloneInside DEF Claiming, Inside
<1>7. ClaimsKept'
  BY <1>1, <1>3, <1>4, <1>6 DEF OrgInv, ClaimsKept
<1>8. RelationKept'
  <2> SUFFICES ASSUME NEW p \in orgs, <<p, "relation">> \notin undone', made[p].inScope
               PROVE  /\ made[p].rel = "organization" /\ ContactIn(edges', scope', made[p].obj)
                      /\ OwnRelation(p) \in edges'
    BY <1>1, <1>3 DEF RelationKept
  <2>1. /\ made[p].rel = "organization" /\ ContactIn(edges, scope, made[p].obj)
        /\ OwnRelation(p) \in edges \/ Relating(p)
    BY <1>5 DEF OrgInv, RelationKept
  <2>2. ContactIn(edges', scope', made[p].obj)
    BY <1>1, <2>1, ContactStays
  <2>3. CASE Relating(p)
    <3>1. p = o /\ <<Request(x).obj, Request(x).rel, o>> = OwnRelation(o)
      BY <1>2, <2>3, AloneInside DEF Relating
    <3>2. Request(x).obj \notin {None, o}
      <4>1. Kind(Request(x).obj) = "ContactRecord"
        BY <2>1, <3>1 DEF OwnRelation, ContactIn
      <4>2. Kind(o) = "Organization"
        BY <1>2 DEF StoreInv
      <4> HIDE DEF o
      <4> QED
        BY <4>1, <4>2, NoneIsNoOrganization
    <3>3. OwnRelation(o) \in wanted
      BY <3>1, <3>2
    <3> HIDE DEF o, wanted
    <3> QED
      BY <1>1, <2>1, <2>2, <3>1, <3>3
  <2> QED
    BY <1>1, <2>1, <2>2, <2>3
<1>9. Numbered'
  BY <1>1 DEF OrgInv, Numbered
<1>10. OneOrganization' /\ InScopeOnce'
  BY <1>1, <1>4, <1>5 DEF OrgInv, OneOrganization, InScopeOnce
<1> QED
  BY <1>7, <1>8, <1>9, <1>10 DEF OrgInv

\* What is said of the organizations holds throughout.
LEMMA OrgsHold == Spec => []OrgInv
<1>1. FlightInv /\ StoreInv /\ OrgInv /\ [Next]_vars => OrgInv'
  <2> SUFFICES ASSUME FlightInv, StoreInv, OrgInv, [Next]_vars PROVE OrgInv'
    OBVIOUS
  <2>1. CASE UNCHANGED vars
    <3>1. UNCHANGED <<world, edges, orgs, claims, scope, flight, made, undone>>
      BY <2>1 DEF vars, dbVars, historyVars
    <3> QED
      BY <3>1, OrgsKept
  <2>2. ASSUME NEW x \in DOMAIN row, Claim(x) PROVE OrgInv'
    BY <2>2, ClaimOrgs
  <2>3. ASSUME NEW x \in DOMAIN flight, Outside(x) \/ Acquire(x) \/ WriteClaims(x) \/ Relate(x)
        PROVE  OrgInv'
    BY <2>3, OutsideOrgs, AcquireOrgs, WriteClaimsOrgs, RelateOrgs
  <2> QED
    BY <2>1, <2>2, <2>3 DEF Next, Outside
<1> QED
  BY <1>1, FlightsHold, InitOrgs, PTL DEF Spec

\* An organization is made once: a later call that states it, by its name in the same source or by
\* its registration number, finds the claims of the earlier one, however many calls there are and
\* however they are interleaved (createOrgLock, and the lookup by claims under it).
THEOREM OrganizationOnce == Spec => []OneOrganization
<1>1. OrgInv => OneOrganization
  BY DEF OrgInv
<1> QED
  BY <1>1, OrgsHold, PTL

\* An organization made for the registrant contact of a record in scope is not made again under that
\* name (the lookup under the lock of what the scope is associated with).
THEOREM InScopeMadeOnce == Spec => []InScopeOnce
<1>1. OrgInv => InScopeOnce
  BY DEF OrgInv
<1> QED
  BY <1>1, OrgsHold, PTL

------------------------------------------------------------------------------
(* Records and what is reviewed.                                           *)

\* A record is in scope when what it registers is, and Add puts the latter in the scope for both.
LEMMA SubjectBrings ==
  ASSUME NEW x, Kind(x) \in Records, Entry(Subject(x)) = {Subject(x)}, NEW S
  PROVE  /\ Entry(x) = {Subject(x)}
         /\ Subject(x) \in S \/ InScope(S, Subject(x)) => InScope(S, x)
<1>1. CASE Kind(x) = "DomainRecord"
  <2>1. Domain[Key(x)] = Key(x) /\ Subject(x) = FQDN(Key(x)) /\ Entry(x) = {Subject(x)}
    BY <1>1, DomainOfRecord
  <2>2. Kind(Subject(x)) = "FQDN" /\ Key(Subject(x)) = Key(x)
    BY <2>1 DEF FQDN, Kind, Key
  <2>3. InScope(S, Subject(x)) => Subject(x) \in S
    BY <2>1, <2>2 DEF InScope, Matches
  <2>4. Subject(x) \in S => InScope(S, x)
    BY <1>1, <2>1 DEF InScope, Matches
  <2> QED
    BY <2>1, <2>3, <2>4
<1>2. CASE Kind(x) = "AutnumRecord"
  <2>1. Subject(x) = AS(Key(x)) /\ Entry(x) = {Subject(x)}
    BY <1>2 DEF Subject, Entry
  <2>2. Kind(Subject(x)) = "AutonomousSystem"
    BY <2>1 DEF AS, Kind
  <2>3. InScope(S, Subject(x)) => Subject(x) \in S
    BY <2>2 DEF InScope, Matches
  <2>4. Subject(x) \in S => InScope(S, x)
    BY <1>2, <2>1 DEF InScope, Matches
  <2> QED
    BY <2>1, <2>3, <2>4
<1>3. CASE Kind(x) = "IPNetRecord"
  <2>1. Subject(x) = Netblock(Key(x)) /\ Entry(x) = {Subject(x)}
    BY <1>3 DEF Subject, Entry
  <2>2. Kind(Subject(x)) = "Netblock"
    BY <2>1 DEF Netblock, Kind
  <2>3. InScope(S, Subject(x)) => Subject(x) \in S
    BY <2>2 DEF InScope, Matches
  <2>4. Subject(x) \in S => InScope(S, x)
    BY <1>3, <2>1 DEF InScope, Matches
  <2> QED
    BY <2>1, <2>3, <2>4
<1> QED
  BY <1>1, <1>2, <1>3 DEF Records

\* The expansion of z will still bring the record x into scope.
Coming(z, x) == At(z, "expand") /\ {x, Subject(x)} \cap flight[z].todo # {}

\* The contact of the record x, with its organization or location y.
ByContact(E, x, cr, y) ==
  /\ cr \in Out(E, x, {ContactLabel(x)}) /\ Kind(cr) = "ContactRecord"
  /\ \/ Kind(y) = "Organization" /\ y \in Out(E, cr, {"organization"})
     \/ Kind(y) = "Location" /\ y \in Out(E, cr, {"location"})
Linked(E, x, y) == \E cr : ByContact(E, x, cr, y)

\* The property is not inductive: what the handler of a record saw when its organization had not been
\* reviewed must still be there for the review to find, by way of the same contact.
ReachInv ==
  /\ \A y \in reviewed : InScope(scope, y)
  /\ \A pair \in saw : Kind(pair[1]) \in Records =>
       /\ Linked(edges, pair[1], pair[2])
       /\ pair[2] \in reviewed =>
            InScope(scope, pair[1]) \/ Coming(pair[1], pair[1]) \/ Coming(pair[2], pair[1])

LEMMA LinkStays ==
  ASSUME NEW E, NEW F, E \subseteq F, NEW x, NEW y, Linked(E, x, y)
  PROVE  Linked(F, x, y)
BY DEF Linked, ByContact, Out

LEMMA LinkedIsKnown ==
  ASSUME NEW x, NEW y, Linked(edges, x, y)
  PROVE  x \in Known(edges)
BY DEF Linked, ByContact, Out, Known

\* A step that reviews nothing and shows no record's handler anything, and takes nothing from an expansion.
LEMMA ReachKept ==
  ASSUME ReachInv, UNCHANGED <<saw, reviewed>>, edges \subseteq edges', scope \subseteq scope',
         \A z \in DOMAIN flight : flight[z].at = "expand" => z \in DOMAIN flight' /\ flight'[z] = flight[z]
  PROVE  ReachInv'
<1>1. ASSUME NEW z, NEW x, Coming(z, x) PROVE Coming(z, x)'
  BY <1>1 DEF Coming, At
<1>2. \A y \in reviewed : InScope(scope', y)
  BY ScopeGrows DEF ReachInv
<1>3. ASSUME NEW pair \in saw, Kind(pair[1]) \in Records
      PROVE  /\ Linked(edges', pair[1], pair[2])
             /\ pair[2] \in reviewed =>
                  InScope(scope', pair[1]) \/ Coming(pair[1], pair[1])' \/ Coming(pair[2], pair[1])'
  <2>1. /\ Linked(edges, pair[1], pair[2])
        /\ pair[2] \in reviewed => InScope(scope, pair[1]) \/ Coming(pair[1], pair[1]) \/ Coming(pair[2], pair[1])
    BY <1>3 DEF ReachInv
  <2> QED
    BY <1>1, <2>1, LinkStays, ScopeGrows
<1> QED
  BY <1>2, <1>3 DEF ReachInv

\* The handler of a record finds the organization or location in scope, and takes the record along.
LEMMA RecordComes ==
  ASSUME StoreInv, NEW x \in Known(edges), Kind(x) \in Records, ~InScope(scope, x),
         NEW cr, NEW y \in OrgsAndLocations(cr), InScope(scope, y)
  PROVE  {x, Subject(x)} \cap OfRecord(x, cr) # {}
<1>1. Subject(x) \in Known(edges)
  BY SubjectStored
<1>2. CASE Kind(x) = "DomainRecord"
  <2>1. FQDN(Key(x)) \in Known(edges)
    BY <1>1, <1>2 DEF Subject
  <2> QED
    BY <1>2, <2>1 DEF OfRecord, Stored
<1>3. CASE Kind(x) = "AutnumRecord"
  <2>1. Subject(x) = AS(Key(x)) /\ Subject(x) \in SystemAndNetblocks(x)
    BY <1>1, <1>3 DEF Subject, SystemAndNetblocks, Stored
  <2> QED
    BY <1>3, <2>1 DEF OfRecord
<1>4. CASE Kind(x) = "IPNetRecord"
  <2>1. Subject(x) = Netblock(Key(x))
    BY <1>4 DEF Subject
  <2> QED
    BY <1>1, <1>4, <2>1 DEF OfRecord, Stored
<1> QED
  BY <1>2, <1>3, <1>4 DEF Records

\* The review of an organization or location finds the records of its contacts.
LEMMA ReviewFinds ==
  ASSUME StoreInv, NEW x, NEW y, Linked(edges, x, y), Kind(x) \in Records, ~InScope(scope, x)
  PROVE  Subject(x) \in Neighbourhood(y, IF Kind(y) = "Location" THEN "location" ELSE "organization")
<1> DEFINE label == IF Kind(y) = "Location" THEN "location" ELSE "organization"
<1>1. PICK cr : ByContact(edges, x, cr, y)
  BY DEF Linked
<1>2. Kind(cr) = "ContactRecord" /\ cr \in In(edges, y, {label})
  BY <1>1 DEF ByContact, Out, In
<1>3. x \in RecordsStating(cr)
  BY <1>1 DEF ByContact, Out, RecordsStating, StatedBy
<1>4. Subject(x) \in Known(edges)
  BY LinkedIsKnown, SubjectStored
<1>5. Subject(x) \in Registered(x)
  <2>1. CASE Kind(x) = "DomainRecord"
    BY <1>4, <2>1 DEF Subject, Registered, Stored
  <2>2. CASE Kind(x) = "AutnumRecord"
    BY <1>4, <2>2 DEF Subject, Registered, SystemAndNetblocks, Stored
  <2>3. CASE Kind(x) = "IPNetRecord"
    BY <1>4, <2>3 DEF Subject, Registered, Stored
  <2> QED
    BY <2>1, <2>2, <2>3 DEF Records
<1> HIDE DEF label
<1>6. Subject(x) \in Neighbourhood(y, label)
  BY <1>2, <1>3, <1>5 DEF Neighbourhood
<1> QED
  BY <1>6 DEF label

LEMMA InitReach == Init => ReachInv
BY DEF Init, ReachInv

LEMMA PlainReach ==
  ASSUME ReachInv, NEW x \in DOMAIN flight,
         \/ Store(x) \/ Lookup(x) \/ Walk(x) \/ Acquire(x) \/ WriteClaims(x) \/ Relate(x)
         \/ Associate(x) \/ SweepAround(x) \/ Pass(x) \/ Complete(x)
  PROVE  ReachInv'
<1>1. UNCHANGED <<saw, reviewed>> /\ edges \subseteq edges' /\ scope \subseteq scope'
  BY DEF Store, Lookup, Walk, Acquire, WriteClaims, Relate, Associate, SweepAround, Pass, Complete, dbVars, historyVars
<1>2. CASE /\ flight[x].at # "expand"
           /\ \A z \in DOMAIN flight : z # x => z \in DOMAIN flight' /\ flight'[z] = flight[z]
  BY <1>1, <1>2, ReachKept
<1>3. CASE Store(x) \/ Lookup(x) \/ Walk(x)
  BY <1>2, <1>3 DEF Store, Lookup, Walk, At, To
<1>4. CASE Acquire(x)
  BY <1>2, <1>4 DEF Acquire, At, To
<1>5. CASE WriteClaims(x) \/ Relate(x)
  BY <1>2, <1>5 DEF WriteClaims, Relate, At, To
<1>6. CASE Associate(x) \/ SweepAround(x) \/ Pass(x)
  BY <1>2, <1>6 DEF Associate, SweepAround, Pass, At, Expand
<1>7. CASE Complete(x)
  <2>1. flight[x].todo = {} /\ \A z \in DOMAIN flight : z # x => z \in DOMAIN flight' /\ flight'[z] = flight[z]
    BY <1>7 DEF Complete
  <2>2. UNCHANGED <<edges, scope>>
    BY <1>7 DEF Complete, dbVars
  <2>3. ASSUME NEW z, NEW y, Coming(z, y) PROVE Coming(z, y)'
    <3>1. z \in DOMAIN flight /\ z # x
      BY <2>1, <2>3 DEF Coming, At
    <3> QED
      BY <2>1, <2>3, <3>1 DEF Coming, At
  <2> QED
    BY <1>1, <2>2, <2>3 DEF ReachInv
<1> QED
  BY <1>3, <1>4, <1>5, <1>6, <1>7

LEMMA ClaimReach ==
  ASSUME ReachInv, NEW x \in DOMAIN row, Claim(x)
  PROVE  ReachInv'
<1>1. UNCHANGED <<edges, scope, saw, reviewed>>
  BY DEF Claim, dbVars, historyVars
<1>2. \A y \in DOMAIN flight : y \in DOMAIN flight' /\ flight'[y] = flight[y]
  BY DEF Claim
<1> QED
  BY <1>1, <1>2, ReachKept

LEMMA EnqueueReach ==
  ASSUME FlightInv, StoreInv, ReachInv, NEW x \in DOMAIN flight, EnqueueIfOutOfScope(x)
  PROVE  ReachInv'
<1>1. PICK y \in flight[x].todo :
        /\ At(x, "expand") /\ flight' = [flight EXCEPT ![x].todo = @ \ {y}]
        /\ \/ InScope(scope, y) /\ scope' = scope
           \/ scope' = scope \cup Entry(y)
  BY DEF EnqueueIfOutOfScope
<1>2. UNCHANGED <<edges, saw, reviewed>> /\ scope \subseteq scope'
  <2>1. UNCHANGED <<edges, saw, reviewed>>
    BY DEF EnqueueIfOutOfScope, dbVars, historyVars
  <2> QED
    BY <1>1, <2>1
<1>3. /\ DOMAIN flight' = DOMAIN flight /\ \A z \in DOMAIN flight : z # x => flight'[z] = flight[z]
      /\ flight'[x] = [flight[x] EXCEPT !.todo = @ \ {y}]
  BY <1>1
<1>4. flight'[x].at = flight[x].at /\ flight'[x].todo = flight[x].todo \ {y}
  <2>1. DOMAIN flight[x] = Fields
    BY DEF FlightInv, FlightOK
  <2> QED
    BY <1>3, <2>1 DEF Fields
<1>5. ASSUME NEW s, Kind(s) \in Records, s \in Known(edges), NEW z, Coming(z, s)
      PROVE  InScope(scope', s) \/ Coming(z, s)'
  <2>1. Entry(Subject(s)) = {Subject(s)}
    BY <1>5, SubjectStored
  <2>2. CASE z # x
    BY <1>3, <1>5, <2>2 DEF Coming, At
  <2>3. CASE z = x /\ y \notin {s, Subject(s)}
    BY <1>3, <1>4, <1>5, <2>3 DEF Coming, At
  <2>4. CASE y \in {s, Subject(s)}
    <3>1. Entry(s) = {Subject(s)}
      BY <1>5, <2>1, SubjectBrings
    <3>2. CASE InScope(scope, y)
      <4>1. InScope(scope, s)
        BY <1>5, <2>1, <2>4, <3>2, SubjectBrings
      <4> QED
        BY <1>2, <4>1, ScopeGrows
    <3>3. CASE scope' = scope \cup Entry(y)
      <4>1. Subject(s) \in scope'
        BY <2>1, <2>4, <3>1, <3>3
      <4> QED
        BY <1>5, <2>1, <4>1, SubjectBrings
    <3> QED
      BY <1>1, <3>2, <3>3
  <2> QED
    BY <2>2, <2>3, <2>4
<1>6. \A r \in reviewed : InScope(scope', r)
  BY <1>2, ScopeGrows DEF ReachInv
<1>7. ASSUME NEW pair \in saw, Kind(pair[1]) \in Records
      PROVE  /\ Linked(edges, pair[1], pair[2])
             /\ pair[2] \in reviewed =>
                  InScope(scope', pair[1]) \/ Coming(pair[1], pair[1])' \/ Coming(pair[2], pair[1])'
  <2>1. /\ Linked(edges, pair[1], pair[2])
        /\ pair[2] \in reviewed => InScope(scope, pair[1]) \/ Coming(pair[1], pair[1]) \/ Coming(pair[2], pair[1])
    BY <1>7 DEF ReachInv
  <2>2. pair[1] \in Known(edges)
    BY <2>1, LinkedIsKnown
  <2>3. InScope(scope, pair[1]) => InScope(scope', pair[1])
    BY <1>2, ScopeGrows
  <2> QED
    BY <1>5, <1>7, <2>1, <2>2, <2>3
<1> QED
  BY <1>2, <1>6, <1>7 DEF ReachInv

LEMMA CheckRecordReach ==
  ASSUME FlightInv, StoreInv, ReachInv, NEW x \in DOMAIN flight, CheckRecord(x)
  PROVE  ReachInv'
<1>1. UNCHANGED <<world, orgs, edges, lock, row, scope, reviewed>> /\ At(x, "check")
  BY DEF CheckRecord, dbVars
<1>2. ASSUME NEW z, NEW s, Coming(z, s) PROVE Coming(z, s)'
  <2>1. z \in DOMAIN flight /\ z # x
    BY <1>1, <1>2 DEF Coming, At
  <2>2. DOMAIN flight' = DOMAIN flight /\ flight'[z] = flight[z]
    BY <2>1 DEF CheckRecord, Expand
  <2> QED
    BY <1>2, <2>2 DEF Coming, At
<1>3. PICK cr \in ContactFound(x) :
        \/ /\ cr # None
           /\ Expand(x, IF Kind(x) = "TLSCertificate" THEN OfCertificate(x, cr) ELSE OfRecord(x, cr))
           /\ saw' = saw \cup {<<x, y>> : y \in OrgsOf(cr) \cup LocationsOf(cr)}
        \/ saw' = saw
  BY DEF CheckRecord
<1>4. ASSUME NEW pair \in saw', pair \notin saw, Kind(pair[1]) \in Records
      PROVE  /\ Linked(edges, pair[1], pair[2])
             /\ pair[2] \in reviewed => InScope(scope, pair[1]) \/ Coming(pair[1], pair[1])'
  <2>1. PICK y \in OrgsOf(cr) \cup LocationsOf(cr) : pair = <<x, y>>
    BY <1>3, <1>4
  <2>2. cr # None /\ Kind(x) \in Records /\ Kind(x) # "TLSCertificate" /\ Expand(x, OfRecord(x, cr))
    BY <1>3, <1>4, <2>1 DEF Records
  <2>3. cr \in Out(edges, x, {ContactLabel(x)}) /\ Kind(cr) = "ContactRecord"
    <3> DEFINE all == {IF Kind(z) = "ContactRecord" THEN z ELSE None : z \in Out(edges, x, {ContactLabel(x)})}
    <3>1. cr \in Answers(all)
      BY <1>3 DEF ContactFound
    <3>2. cr \in all
      <4> HIDE DEF all
      <4> QED
        BY <2>2, <3>1 DEF Answers
    <3>3. \E z \in Out(edges, x, {ContactLabel(x)}) : cr = IF Kind(z) = "ContactRecord" THEN z ELSE None
      BY <3>2
    <3> QED
      BY <2>2, <3>3
  <2>4. ByContact(edges, x, cr, y)
    BY <2>1, <2>3 DEF ByContact, OrgsOf, LocationsOf, Orgs, Locations
  <2>5. Linked(edges, x, y)
    BY <2>4 DEF Linked
  <2>6. ASSUME y \in reviewed, ~InScope(scope, x) PROVE Coming(x, x)'
    <3>1. x \in Known(edges)
      BY <2>5, LinkedIsKnown
    <3>2. y \in OrgsAndLocations(cr) /\ InScope(scope, y)
      BY <2>1, <2>6 DEF OrgsAndLocations, ReachInv
    <3>3. {x, Subject(x)} \cap OfRecord(x, cr) # {}
      BY <2>2, <2>6, <3>1, <3>2, RecordComes
    <3>4. DOMAIN flight' = DOMAIN flight /\ flight'[x].at = "expand" /\ flight'[x].todo = OfRecord(x, cr)
      BY <1>1, <2>2, <3>1, ExpandOK, OfRecordKnown
    <3> QED
      BY <3>3, <3>4 DEF Coming, At
  <2> QED
    BY <2>1, <2>5, <2>6
<1>5. ASSUME NEW pair \in saw, Kind(pair[1]) \in Records
      PROVE  /\ Linked(edges, pair[1], pair[2])
             /\ pair[2] \in reviewed =>
                  InScope(scope, pair[1]) \/ Coming(pair[1], pair[1])' \/ Coming(pair[2], pair[1])'
  BY <1>2, <1>5 DEF ReachInv
<1> QED
  BY <1>1, <1>4, <1>5 DEF ReachInv

LEMMA ReviewReach ==
  ASSUME FlightInv, StoreInv, ReachInv, NEW x \in DOMAIN flight, Review(x)
  PROVE  ReachInv'
<1> DEFINE S == Neighbourhood(x, IF Kind(x) = "Location" THEN "location" ELSE "organization")
<1>1. /\ UNCHANGED <<world, orgs, edges, lock, row, scope, saw>> /\ At(x, "check")
      /\ InScope(scope, x) /\ Expand(x, S) /\ reviewed' = reviewed \cup {x}
  BY DEF Review, dbVars
<1>2. ASSUME NEW z, NEW s, Coming(z, s) PROVE Coming(z, s)'
  <2>1. z \in DOMAIN flight /\ z # x
    BY <1>1, <1>2 DEF Coming, At
  <2>2. DOMAIN flight' = DOMAIN flight /\ flight'[z] = flight[z]
    BY <2>1 DEF Review, Expand
  <2> QED
    BY <1>2, <2>2 DEF Coming, At
<1>3. DOMAIN flight' = DOMAIN flight /\ flight'[x].at = "expand" /\ flight'[x].todo = S
  BY <1>1, ExpandOK, NeighbourhoodKnown
<1>4. ASSUME NEW pair \in saw, Kind(pair[1]) \in Records
      PROVE  /\ Linked(edges, pair[1], pair[2])
             /\ pair[2] \in reviewed' =>
                  InScope(scope, pair[1]) \/ Coming(pair[1], pair[1])' \/ Coming(pair[2], pair[1])'
  <2>1. Linked(edges, pair[1], pair[2])
    BY <1>4 DEF ReachInv
  <2>2. CASE pair[2] = x
    <3>1. InScope(scope, pair[1]) \/ Subject(pair[1]) \in S
      BY <1>4, <2>1, <2>2, ReviewFinds
    <3> HIDE DEF S
    <3>2. Subject(pair[1]) \in S => Coming(x, pair[1])'
      BY <1>3 DEF Coming, At
    <3> QED
      BY <2>1, <2>2, <3>1, <3>2
  <2>3. CASE pair[2] # x
    BY <1>1, <1>2, <1>4, <2>3 DEF ReachInv
  <2> QED
    BY <2>1, <2>2, <2>3
<1> QED
  BY <1>1, <1>4 DEF ReachInv

\* What is said of the records holds throughout.
LEMMA ReachHolds == Spec => []ReachInv
<1>1. FlightInv /\ StoreInv /\ ReachInv /\ [Next]_vars => ReachInv'
  <2> SUFFICES ASSUME FlightInv, StoreInv, ReachInv, [Next]_vars PROVE ReachInv'
    OBVIOUS
  <2>1. CASE UNCHANGED vars
    <3>1. UNCHANGED <<edges, scope, flight, saw, reviewed>>
      BY <2>1 DEF vars, dbVars, historyVars
    <3> QED
      BY <3>1, ReachKept
  <2>2. ASSUME NEW x \in DOMAIN row, Claim(x) PROVE ReachInv'
    BY <2>2, ClaimReach
  <2>3. ASSUME NEW x \in DOMAIN flight,
               \/ Store(x) \/ Lookup(x) \/ Walk(x) \/ Acquire(x) \/ WriteClaims(x) \/ Relate(x)
               \/ CheckRecord(x) \/ Review(x) \/ Associate(x) \/ SweepAround(x) \/ Pass(x)
               \/ EnqueueIfOutOfScope(x) \/ Complete(x)
        PROVE  ReachInv'
    BY <2>3, PlainReach, CheckRecordReach, ReviewReach, EnqueueReach
  <2> QED
    BY <2>1, <2>2, <2>3 DEF Next
<1> QED
  BY <1>1, FlightsHold, InitReach, PTL DEF Spec

\* A record whose organization or location was reviewed in scope is in scope when neither is being
\* handled any more, in whichever order their handlers ran.
THEOREM ReviewReachesRecords == Spec => []ReviewedReaches
<1>1. ReachInv => ReviewedReaches
  BY DEF ReachInv, ReviewedReaches, Coming, Expanding
<1> QED
  BY <1>1, ReachHolds, PTL
==============================================================================
