----------------------------- MODULE MCCoalition -----------------------------
(* Instances of Coalition for TLC. *)
EXTENDS Coalition

CONSTANTS r1, p1, p2

\* Two operations under one reference.
MCKeys == {<<"earn", r1>>, <<"convert", r1>>}
=============================================================================
