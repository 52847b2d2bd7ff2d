------------------------------- MODULE MCStore -------------------------------
(* Two registrations at one endpoint and one at another. *)
EXTENDS Store

CONSTANTS v1, v2, v3, e1, e2

MCVersions == {v1, v2, v3}
MCEndpoint == [v \in MCVersions |-> IF v = v3 THEN e2 ELSE e1]
=============================================================================
