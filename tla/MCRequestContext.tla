---------------------------- MODULE MCRequestContext ----------------------------
(* RequestContext for TLC: two server contexts and a child task.               *)
EXTENDS RequestContext

CONSTANTS s1, s2, c1

MCServers == {s1, s2}
MCChildren == {c1}
=============================================================================
