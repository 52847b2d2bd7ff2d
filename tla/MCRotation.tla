----------------------------- MODULE MCRotation -----------------------------
(* Catalogs of two regions over three servers: empty, shared, overlapping  *)
(* and reordered server lists, and lists with a malformed entry.           *)
EXTENDS Rotation

CONSTANTS a, b, c, home, far

MCEndpoints == {a, b, c}
MCDead == {a}
MCRegions == {home, far}

Lists == {<<>>, <<a, b>>, <<b, a>>, <<b>>, <<Malformed, c>>}

Region == [id : MCRegions, forward : BOOLEAN, servers : Lists]

MCCatalogs == {<<r, s>> : r \in {x \in Region : x.id = home}, s \in Region}

MCOneRegion == {<<[id |-> home, forward |-> TRUE, servers |-> <<a, b>>]>>}
=============================================================================
