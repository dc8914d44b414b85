--------------------------- MODULE MCCallbackData ---------------------------
(* Three pointers: two that always come with a free function, one that     *)
(* comes with it in some calls and without it in others.                   *)
EXTENDS CallbackData, TLC

CONSTANTS d1, d2, d3

MCAppFree == (d1 :> {TRUE}) @@ (d2 :> {TRUE}) @@ (d3 :> BOOLEAN)
=============================================================================
