------------------------------ MODULE Rotation ------------------------------
(***************************************************************************)
(* The choice of an endpoint for each new registration                     *)
(* (docker/privateerr/supervisor.py, select_endpoint) and how it moves     *)
(* through PIA's catalog while an outage lasts (Supervisor.recover, step). *)
(* Dedicated-IP deployments leave the choice to upstream setup and are not *)
(* part of this module.                                                    *)
(***************************************************************************)
EXTENDS Naturals, Sequences, Functions

CONSTANTS
    Endpoints,   \* server addresses
    Dead,        \* servers whose registration always fails
    Regions,     \* region identifiers
    Unknown,     \* the region of metadata without one
    Malformed,   \* a catalog entry without a usable address and name
    NoEndpoint,  \* no permitted endpoint is available
    Catalogs,    \* sequences of [id, forward, servers]
    MaxRestarts  \* bound on the restarts of Gluetun and of the supervisor

ASSUME RotationAssumption ==
    /\ Dead \subseteq Endpoints
    /\ Catalogs \subseteq
           Seq([id : Regions, forward : BOOLEAN, servers : Seq(Endpoints \cup {Malformed})])
    /\ Unknown \notin Regions
    /\ Malformed \notin Endpoints
    /\ NoEndpoint \notin Endpoints
    /\ MaxRestarts \in Nat

VARIABLES
    catalog,     \* PIA's catalog during the outage
    pinned,      \* AUTOCONNECT=false
    forwarding,  \* PIA_PF=true
    region,      \* the region preferred, or required when pinned
    saved,       \* the endpoint of the published pair
    active,      \* the endpoint Gluetun runs
    failed,      \* Supervisor.failed_ips
    outage,      \* the tunnel is unhealthy
    restarts     \* of Gluetun and of the supervisor so far

settings == <<catalog, pinned, forwarding>>
vars == <<catalog, pinned, forwarding, region, saved, active, failed, outage, restarts>>

TypeOK ==
    /\ catalog \in Catalogs
    /\ pinned \in BOOLEAN
    /\ forwarding \in BOOLEAN
    /\ region \in Regions \cup {Unknown}
    /\ saved \in Endpoints
    /\ active \in Endpoints
    /\ failed \subseteq Endpoints
    /\ outage \in BOOLEAN
    /\ restarts \in 0..MaxRestarts

-----------------------------------------------------------------------------
(* select_endpoint.                                                        *)

EligibleRegion(r) == (forwarding => r.forward) /\ (pinned => r.id = region)

Usable(servers) == {i \in DOMAIN servers : servers[i] # Malformed}

\* A server is its place in the catalog: which region, and where in its list.
Eligible ==
    UNION {{k} \X Usable(catalog[k].servers) :
              k \in {j \in DOMAIN catalog : EligibleRegion(catalog[j])}}

Address(p) == catalog[p[1]].servers[p[2]]

Away(p) == catalog[p[1]].id # region

\* Mutant: the eligible servers are left in catalog order.
PrecedesUnsorted(p, q) == p[1] < q[1] \/ (p[1] = q[1] /\ p[2] < q[2])

\* The stable sort puts the preferred region first and keeps catalog order.
Precedes(p, q) ==
    \/ ~Away(p) /\ Away(q)
    \/ Away(p) = Away(q) /\ (p[1] < q[1] \/ (p[1] = q[1] /\ p[2] < q[2]))

First(places) == CHOOSE p \in places : \A q \in places \ {p} : Precedes(p, q)

SelectEndpoint(current, excluded) ==
    LET untried == {p \in Eligible : Address(p) \notin excluded}
    IN  IF untried # {} THEN Address(First(untried))
        ELSE IF \E p \in Eligible : Address(p) = current THEN current
        ELSE NoEndpoint

-----------------------------------------------------------------------------
Init ==
    /\ catalog \in Catalogs
    /\ pinned \in BOOLEAN
    /\ forwarding \in BOOLEAN
    /\ region \in Regions \cup {Unknown}
    /\ saved \in Endpoints
    /\ active = saved
    /\ failed = {}
    /\ outage = FALSE
    /\ restarts = 0

OutageBegins ==
    /\ ~outage
    /\ outage' = TRUE
    /\ UNCHANGED <<settings, region, saved, active, failed, restarts>>

\* A healthy tunnel: the running candidate is published, and its metadata names
\* the region the next automatic selection prefers.
OutageEnds ==
    /\ outage
    /\ outage' = FALSE
    /\ failed' = {}
    /\ saved' = active
    /\ region' \in IF pinned \/ active = saved THEN {region}
                   ELSE {catalog[k].id : k \in {j \in DOMAIN catalog : active \in Range(catalog[j].servers)}}
                        \cup {Unknown}
    /\ UNCHANGED <<settings, active, restarts>>

\* Mutant: only the running endpoint is excluded, not the earlier ones.
ChoiceForgets == SelectEndpoint(active, {active})

\* recover counts the running endpoint before it consults the catalog.
Choice == SelectEndpoint(active, failed \cup {active})

Attempted ==
    /\ outage
    /\ failed' = failed \cup {active}
    /\ UNCHANGED <<settings, region, saved, outage, restarts>>

\* The catalog, the registration or the settings update fails, or the update is
\* not retained by Gluetun.
AttemptFails ==
    /\ Attempted
    /\ UNCHANGED active

\* The candidate is registered and Gluetun runs it.
AttemptApplied ==
    /\ Attempted
    /\ Choice \in Endpoints \ Dead
    /\ active' = Choice

\* A restarted Gluetun reads the saved pair again.  The server it ran until then
\* is not counted as failed.
Reload ==
    /\ restarts < MaxRestarts
    /\ restarts' = restarts + 1
    /\ active' = saved
    /\ UNCHANGED <<settings, region, saved, failed, outage>>

\* A restarted supervisor has forgotten which servers failed (Supervisor.__init__),
\* even in the middle of an outage.
Restart ==
    /\ restarts < MaxRestarts
    /\ restarts' = restarts + 1
    /\ failed' = {}
    /\ UNCHANGED <<settings, region, saved, active, outage>>

Next ==
    \/ OutageBegins \/ OutageEnds
    \/ AttemptFails \/ AttemptApplied
    \/ Reload \/ Restart

Spec == Init /\ [][Next]_vars

\* The supervisor retries as long as the outage lasts, and a server that accepts
\* registrations and is selected again and again is applied at last.
Fairness == WF_vars(AttemptFails) /\ SF_vars(AttemptApplied)

FairSpec == Spec /\ Fairness

-----------------------------------------------------------------------------
\* The reference definition, in terms of sets.
PermittedIn(ids) ==
    {e \in Endpoints : \E k \in DOMAIN catalog :
        /\ catalog[k].id \in ids
        /\ forwarding => catalog[k].forward
        /\ pinned => catalog[k].id = region
        /\ e \in Range(catalog[k].servers)}

Permitted == PermittedIn(Regions)

(***************************************************************************)
(* Selection returns an untried permitted endpoint if there is one, of the *)
(* preferred region if that has one; otherwise the running endpoint if it  *)
(* is permitted; otherwise nothing (supervisor.py, select_endpoint).       *)
(***************************************************************************)
SelectionIsBest ==
    LET tried == failed \cup {active}
        untried == Permitted \ tried
        local == PermittedIn({region}) \ tried
    IN  CASE local # {} -> Choice \in local
          [] local = {} /\ untried # {} -> Choice \in untried
          [] untried = {} /\ active \in Permitted -> Choice = active
          [] OTHER -> Choice = NoEndpoint

(***************************************************************************)
(* "Prefer untried eligible endpoints" (supervisor.py:71,                  *)
(* docs/automatic-recovery.md:115): every permitted endpoint that accepts  *)
(* registrations is put to use before an outage is suffered forever, also  *)
(* when Gluetun or the supervisor restarts in between.                     *)
(***************************************************************************)
EveryEndpointGetsItsTurn ==
    \A e \in Endpoints \ Dead :
        (outage /\ e \in Permitted) ~> (~outage \/ active = e \/ e \in failed)
=============================================================================
