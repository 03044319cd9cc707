------------------------------ MODULE MCWebTab ------------------------------
(* WebTab for TLC: two sockets at a time, one retry timer beside the one     *)
(* that retryTimer names.                                                    *)
EXTENDS WebTab

CONSTANTS s1, s2
=============================================================================
