------------------------------ MODULE SavedPair ------------------------------
(***************************************************************************)
(* What Store.publish promises: the saved WireGuard configuration and PIA  *)
(* metadata behave as one register.  A publication in progress holds one   *)
(* generated version; at one instant that version becomes the saved pair,  *)
(* and neither an error nor a crash exposes anything else.                 *)
(***************************************************************************)
CONSTANTS Versions, None

VARIABLES
    saved,  \* the version a restart would hand to Gluetun, None before the first
    job     \* the version a call of publish is working on, None between calls

vars == <<saved, job>>

Init ==
    /\ saved \in Versions \cup {None}
    /\ job = None

Begin ==
    /\ job = None
    /\ job' \in Versions
    /\ UNCHANGED saved

Commit ==
    /\ job \in Versions
    /\ saved' = job
    /\ UNCHANGED job

\* The call returns, raises, or dies with its process, before or after Commit.
End ==
    /\ job \in Versions
    /\ job' = None
    /\ UNCHANGED saved

Next == Begin \/ Commit \/ End

Spec == Init /\ [][Next]_vars
=============================================================================
