---------------------------- MODULE MCBsfClient ----------------------------
(* Responses without caching headers, and dated ones that last one tick.   *)
EXTENDS BsfClient

MCHeaders ==
    {[maxAge |-> Absent, age |-> 0, dated |-> FALSE],
     [maxAge |-> 1, age |-> 0, dated |-> TRUE]}
=============================================================================
