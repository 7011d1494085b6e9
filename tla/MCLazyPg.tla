------------------------------- MODULE MCLazyPg -------------------------------
(* LazyPg for TLC: two callers, each able to find out any loss. *)
EXTENDS LazyPg
CONSTANTS c1, c2
MCCallers == {c1, c2}
=============================================================================
