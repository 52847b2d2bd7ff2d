------------------------------ MODULE MCAttempt ------------------------------
(* Every short output of a script, and longer ones of text that terminal    *)
(* sequences and delimiters interrupt, or of text, delimiters and a name;   *)
(* two servers in two regions, in every catalog that lists up to two of     *)
(* them with or without usable fields.                                      *)
EXTENDS Attempt

MCStreams == BoundedSeq({"a", "b", "n", "e", "p", "h", "g"}, 3)
                \cup BoundedSeq({"a", "b", "n", "e"}, 4)
                \cup BoundedSeq({"a", "n", "h"}, 6)
MCSecrets == {<<"a">>, <<"a", "b">>}

\* The entry at position k belongs to region k.
MCCatalogs ==
    {list \in BoundedSeq(Advertised, 2) :
        \A k \in DOMAIN list : list[k].region \in {"r" \o ToString(k), Unusable}}

MCRetained == {Fields, {"key", "ip"}}
=============================================================================
