------------------------------ MODULE MCStack ------------------------------
(* The faults each run allows: outages and returns of the tunnel, restarts  *)
(* of Gluetun, supervisor deaths, storage errors, operator stops and late   *)
(* updates.                                                                 *)
EXTENDS Stack

CONSTANTS v1, v2, v3

MCVersions == {v1, v2, v3}

Budget(outage, reload, crash, storage, stop, lateness) ==
    [f \in Faults |->
        CASE f = "outage" -> outage
          [] f = "reload" -> reload
          [] f = "crash" -> crash
          [] f = "storage" -> storage
          [] f = "stop" -> stop
          [] f = "late" -> lateness]

\* A tunnel that fails beside a Gluetun and a supervisor that restart, beside
\* storage errors, or beside late updates and an operator; and a save that
\* meets a storage error and a crash.
Unreliable ==
    {Budget(1, 1, 1, 0, 0, 0), Budget(1, 0, 0, 2, 0, 0), Budget(0, 1, 1, 1, 0, 0),
     Budget(0, 0, 1, 0, 1, 1), Budget(0, 1, 0, 0, 0, 1)}
OneStorageErrorAndReload == {Budget(0, 1, 0, 1, 0, 0)}
=============================================================================
