---------------------------- MODULE RotationProofs ----------------------------
(***************************************************************************)
(* Theorems about the choice of endpoints: select_endpoint picks the best  *)
(* server of every catalog.                                                *)
(***************************************************************************)
EXTENDS Rotation, WellFoundedInduction, TLAPS

\* Lemma: A set of numbers has a least one.
LEMMA LeastNumber ==
    ASSUME NEW S \in SUBSET Nat, S # {}
    PROVE  \E m \in S : \A n \in S : m <= n
<1>1. PICK m \in S : \A n \in S : ~(<<n, m>> \in OpToRel(<, Nat))
  BY NatLessThanWellFounded, WFMin
<1>2. \A n \in S : ~(n < m)
  BY <1>1 DEF OpToRel
<1> QED
  BY <1>2

\* The catalog of a state, as far as the proofs use its types.
LEMMA CatalogType ==
    ASSUME TypeOK
    PROVE  /\ DOMAIN catalog \subseteq Nat
           /\ \A k \in DOMAIN catalog :
                /\ catalog[k].id \in Regions
                /\ DOMAIN catalog[k].servers \subseteq Nat
                /\ \A i \in DOMAIN catalog[k].servers :
                        catalog[k].servers[i] \in Endpoints \cup {Malformed}
<1>1. catalog \in Seq([id : Regions, forward : BOOLEAN, servers : Seq(Endpoints \cup {Malformed})])
  BY RotationAssumption DEF TypeOK
<1> DEFINE Region == [id : Regions, forward : BOOLEAN, servers : Seq(Endpoints \cup {Malformed})]
<1>2. /\ DOMAIN catalog = 1 .. Len(catalog) /\ Len(catalog) \in Nat
      /\ \A k \in DOMAIN catalog : catalog[k] \in Region
  <2>1. catalog \in Seq(Region)
    BY <1>1
  <2> HIDE DEF Region
  <2> QED
    BY <2>1
<1>3. ASSUME NEW k \in DOMAIN catalog
      PROVE  /\ catalog[k].id \in Regions
             /\ DOMAIN catalog[k].servers \subseteq Nat
             /\ \A i \in DOMAIN catalog[k].servers :
                    catalog[k].servers[i] \in Endpoints \cup {Malformed}
  <2>1. catalog[k].id \in Regions /\ catalog[k].servers \in Seq(Endpoints \cup {Malformed})
    BY <1>2
  <2> QED
    BY <2>1
<1> QED
  BY <1>2, <1>3

\* Lemma: What an eligible place is.
LEMMA Places ==
    ASSUME TypeOK
    PROVE  \A p : p \in Eligible <=>
              /\ p = <<p[1], p[2]>>
              /\ p[1] \in DOMAIN catalog /\ EligibleRegion(catalog[p[1]])
              /\ p[2] \in DOMAIN catalog[p[1]].servers
              /\ Address(p) # Malformed
BY DEF Eligible, Usable, Address

(***************************************************************************)
(* Any set of eligible servers has a first one in the order of the stable  *)
(* sort, which First returns.                                              *)
(***************************************************************************)
LEMMA FirstIsFirst ==
    ASSUME TypeOK, NEW P \in SUBSET Eligible, P # {}
    PROVE  First(P) \in P /\ \A q \in P \ {First(P)} : Precedes(First(P), q)
<1> DEFINE Near == {p \in P : ~Away(p)}
           Pool == IF Near # {} THEN Near ELSE P
           Numbers == {p[1] : p \in Pool}
<1>1. \A p \in P : p = <<p[1], p[2]>> /\ p[1] \in Nat /\ p[2] \in Nat
  BY Places, CatalogType
<1>2. /\ Pool # {} /\ Pool \subseteq P
      /\ \A p \in Pool, q \in P : Away(p) = Away(q) => q \in Pool
      /\ \A p \in Pool, q \in P \ Pool : ~Away(p) /\ Away(q)
      /\ \A p, q \in Pool : Away(p) = Away(q)
  BY DEF Away
<1> HIDE DEF Pool
<1>3. PICK k \in Numbers : \A n \in Numbers : k <= n
  <2>1. Numbers \in SUBSET Nat /\ Numbers # {}
    BY <1>1, <1>2
  <2> HIDE DEF Numbers
  <2> QED
    BY <2>1, LeastNumber
<1> DEFINE Positions == {p[2] : p \in {q \in Pool : q[1] = k}}
<1>4. PICK i \in Positions : \A n \in Positions : i <= n
  <2>1. Positions \in SUBSET Nat /\ Positions # {}
    BY <1>1, <1>2, <1>3
  <2> HIDE DEF Positions
  <2> QED
    BY <2>1, LeastNumber
<1>5. <<k, i>> \in Pool
  BY <1>1, <1>2, <1>4
<1>6. \A q \in P \ {<<k, i>>} : Precedes(<<k, i>>, q)
  <2> SUFFICES ASSUME NEW q \in P, q # <<k, i>> PROVE Precedes(<<k, i>>, q)
    OBVIOUS
  <2>1. CASE q \notin Pool
    BY <1>2, <1>5, <2>1 DEF Precedes
  <2>2. CASE q \in Pool
    <3>1. k <= q[1] /\ (q[1] = k => i <= q[2])
      BY <1>3, <1>4, <2>2
    <3>2. q = <<q[1], q[2]>> /\ q[1] \in Nat /\ q[2] \in Nat /\ k \in Nat /\ i \in Nat
      BY <1>1, <1>2, <1>5
    <3>3. k < q[1] \/ (k = q[1] /\ i < q[2])
      BY <3>1, <3>2
    <3>4. Away(<<k, i>>) = Away(q)
      BY <1>2, <1>5, <2>2
    <3> QED
      BY <3>3, <3>4 DEF Precedes
  <2> QED
    BY <2>1, <2>2
<1>7. \E p \in P : \A q \in P \ {p} : Precedes(p, q)
  BY <1>2, <1>5, <1>6
<1> QED
  BY <1>7 DEF First

\* The eligible servers are the permitted endpoints, and those that are not
\* away are the ones of the preferred region.
LEMMA EligibleArePermitted ==
    ASSUME TypeOK
    PROVE  /\ Permitted = {Address(p) : p \in Eligible}
           /\ PermittedIn({region}) = {Address(p) : p \in {q \in Eligible : ~Away(q)}}
<1>1. \A p \in Eligible : Address(p) \in Endpoints
  BY Places, CatalogType DEF Address
<1>2. ASSUME NEW e \in Endpoints, NEW k \in DOMAIN catalog, EligibleRegion(catalog[k]),
             e \in Range(catalog[k].servers)
      PROVE  \E p \in Eligible : Address(p) = e /\ p[1] = k
  <2>1. PICK i \in DOMAIN catalog[k].servers : catalog[k].servers[i] = e
    BY <1>2 DEF Range
  <2>2. <<k, i>> \in Eligible
    BY <1>2, <2>1, RotationAssumption DEF Eligible, Usable
  <2> QED
    BY <2>1, <2>2 DEF Address
<1>3. \A p \in Eligible :
        /\ p[1] \in DOMAIN catalog /\ EligibleRegion(catalog[p[1]])
        /\ Address(p) \in Range(catalog[p[1]].servers)
        /\ catalog[p[1]].id \in Regions
  BY Places, CatalogType DEF Address, Range
<1>4. \A k \in DOMAIN catalog : catalog[k].id \in Regions
  BY CatalogType
<1>5. Permitted = {Address(p) : p \in Eligible}
  BY <1>1, <1>2, <1>3 DEF Permitted, PermittedIn, EligibleRegion
<1>6. PermittedIn({region}) = {Address(p) : p \in {q \in Eligible : ~Away(q)}}
  BY <1>1, <1>2, <1>3 DEF PermittedIn, EligibleRegion, Away
<1> QED
  BY <1>5, <1>6

(***************************************************************************)
(* What select_endpoint returns, whatever it is told to exclude.           *)
(***************************************************************************)
LEMMA Selection ==
    ASSUME TypeOK, NEW current \in Endpoints, NEW excluded
    PROVE  LET untried == Permitted \ excluded
               local == PermittedIn({region}) \ excluded
               choice == SelectEndpoint(current, excluded)
           IN  /\ local # {} => choice \in local
               /\ untried # {} => choice \in untried
               /\ untried = {} /\ current \in Permitted => choice = current
               /\ untried = {} /\ current \notin Permitted => choice = NoEndpoint
<1> DEFINE U == {p \in Eligible : Address(p) \notin excluded}
           choice == SelectEndpoint(current, excluded)
<1>1. /\ Permitted \ excluded = {Address(p) : p \in U}
      /\ PermittedIn({region}) \ excluded = {Address(p) : p \in {q \in U : ~Away(q)}}
  BY EligibleArePermitted
<1>2. CASE U = {}
  <2>1. choice = IF current \in Permitted THEN current ELSE NoEndpoint
    BY <1>2, EligibleArePermitted DEF SelectEndpoint
  <2> QED
    BY <1>1, <1>2, <2>1
<1>3. CASE U # {}
  <2>1. First(U) \in U /\ \A q \in U \ {First(U)} : Precedes(First(U), q)
    BY <1>3, FirstIsFirst
  <2>2. choice = Address(First(U))
    BY <1>3 DEF SelectEndpoint
  <2>3. \A q \in U : ~Away(q) => ~Away(First(U))
    BY <2>1 DEF Precedes
  <2>4. choice \in Permitted \ excluded
    BY <1>1, <2>1, <2>2
  <2>5. PermittedIn({region}) \ excluded # {} => choice \in PermittedIn({region}) \ excluded
    <3> HIDE DEF U
    <3> QED
      BY <1>1, <2>1, <2>2, <2>3
  <2>6. Permitted \ excluded # {}
    BY <2>4
  <2> HIDE DEF U, choice
  <2> QED
    BY <2>4, <2>5, <2>6 DEF choice
<1> QED
  BY <1>2, <1>3

-----------------------------------------------------------------------------
(***************************************************************************)
(* The variables of Rotation keep their types.                             *)
(***************************************************************************)
THEOREM TypeCorrect == Spec => []TypeOK
<1>1. Init => TypeOK
  <2>1. 0 \in 0 .. MaxRestarts
    BY RotationAssumption
  <2> QED
    BY <2>1 DEF Init, TypeOK
<1>2. TypeOK /\ [Next]_vars => TypeOK'
  <2> SUFFICES ASSUME TypeOK, [Next]_vars PROVE TypeOK'
    OBVIOUS
  <2> USE RotationAssumption DEF TypeOK, settings
  <2>1. CASE OutageBegins
    BY <2>1 DEF OutageBegins
  <2>2. CASE OutageEnds
    <3>1. region' \in Regions \cup {Unknown}
      BY <2>2, CatalogType DEF OutageEnds
    <3> QED
      BY <2>2, <3>1 DEF OutageEnds
  <2>3. CASE AttemptFails
    BY <2>3 DEF AttemptFails, Attempted
  <2>4. CASE AttemptApplied
    BY <2>4 DEF AttemptApplied, Attempted
  <2>5. CASE Reload
    BY <2>5 DEF Reload
  <2>6. CASE Restart
    BY <2>6 DEF Restart
  <2>7. CASE UNCHANGED vars
    BY <2>7 DEF vars
  <2> QED
    BY <2>1, <2>2, <2>3, <2>4, <2>5, <2>6, <2>7 DEF Next
<1> QED
  BY <1>1, <1>2, PTL DEF Spec

(***************************************************************************)
(* select_endpoint returns an untried permitted server, of the preferred   *)
(* region if there is one, for every catalog and every restriction.        *)
(***************************************************************************)
THEOREM BestIsSelected == Spec => []SelectionIsBest
<1>1. TypeOK => SelectionIsBest
  <2> SUFFICES ASSUME TypeOK PROVE SelectionIsBest
    OBVIOUS
  <2> DEFINE untried == Permitted \ (failed \cup {active})
             local == PermittedIn({region}) \ (failed \cup {active})
  <2>1. active \in Endpoints
    BY DEF TypeOK
  <2>2. /\ local # {} => Choice \in local
        /\ untried # {} => Choice \in untried
        /\ untried = {} /\ active \in Permitted => Choice = active
        /\ untried = {} /\ active \notin Permitted => Choice = NoEndpoint
    BY <2>1, Selection DEF Choice
  <2>3. local \subseteq untried
    BY EligibleArePermitted
  <2> HIDE DEF untried, local
  <2>4. (CASE local # {} -> Choice \in local
          [] local = {} /\ untried # {} -> Choice \in untried
          [] untried = {} /\ active \in Permitted -> Choice = active
          [] OTHER -> Choice = NoEndpoint)
    BY <2>2, <2>3
  <2> QED
    BY <2>4 DEF SelectionIsBest, untried, local
<1> QED
  BY <1>1, TypeCorrect, PTL
=============================================================================
