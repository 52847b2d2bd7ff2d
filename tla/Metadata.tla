------------------------------- MODULE Metadata -------------------------------
(***************************************************************************)
(* What Privateerr writes and compares about a registration: the metadata  *)
(* of generation.py, write_metadata and enrich_metadata, the connection    *)
(* settings of settings.py, and their comparison with Gluetun's answer.    *)
(* A catalog is the sequence of its WireGuard servers in the order of its  *)
(* regions and lists; servers and regions that are no objects are skipped  *)
(* by the code and are not in it.  Port and forwarding details follow the  *)
(* endpoint and the region and are left out.                               *)
(***************************************************************************)
EXTENDS Naturals, Sequences

CONSTANTS
    Addressed,  \* endpoint addresses
    ServerNames,
    Regions,
    Nameless,   \* the empty name
    Unusable    \* a field that is missing or fails its syntax check

ASSUME MetadataAssumption ==
    /\ Unusable \notin Addressed \cup ServerNames \cup Regions \cup {Nameless}
    /\ Nameless \notin ServerNames

Advertised ==
    [ip : Addressed, cn : ServerNames \cup {Nameless, Unusable}, region : Regions \cup {Unusable}]

\* The region stays unknown until a catalog tells it.
Registered(hostname, endpoint) == [name |-> hostname, ip |-> endpoint, region |-> Unusable]

Matches(metadata, catalog) ==
    {k \in DOMAIN catalog : catalog[k].ip = metadata.ip \/ catalog[k].cn = metadata.name}

\* Mutant: the name and the region may come from different entries.
EnrichEachField(metadata, catalog) ==
    LET Usable(k) == catalog[k].region # Unusable
        hits == Matches(metadata, catalog)
    IN IF hits = {} THEN metadata
       ELSE LET k == CHOOSE k \in hits : \A l \in hits : k <= l
                regions == {l \in DOMAIN catalog : Usable(l)}
            IN [metadata EXCEPT
                    !.name = IF catalog[k].cn \in ServerNames THEN catalog[k].cn ELSE @,
                    !.region = IF regions = {} THEN @
                               ELSE catalog[CHOOSE l \in regions : \A m \in regions : l <= m].region]

\* The first server with the address or the name; what is unusable stays.
Enrich(metadata, catalog) ==
    LET hits == Matches(metadata, catalog)
    IN IF hits = {} THEN metadata
       ELSE LET server == catalog[CHOOSE k \in hits : \A l \in hits : k <= l]
            IN [metadata EXCEPT
                    !.name = IF server.cn \in ServerNames THEN server.cn ELSE @,
                    !.region = IF server.region = Unusable THEN @ ELSE server.region]

Settings(key, metadata) == [key |-> key, ip |-> metadata.ip, name |-> metadata.name]

\* Mutant: the endpoint alone is compared.
ContainsEndpoint(active, candidate) == active.ip = candidate.ip

\* Every submitted field has its value; other fields do not matter.
ContainsSettings(active, candidate) ==
    \A field \in DOMAIN candidate :
        field \in DOMAIN active /\ active[field] = candidate[field]
=============================================================================
