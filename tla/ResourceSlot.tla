---------------------------- MODULE ResourceSlot ----------------------------
(***************************************************************************)
(* What a lazy singleton promises about the resources it builds: there is  *)
(* one slot; a resource enters it when it is built, leaves it only into    *)
(* the hands of the one closer that tears it down, and is torn down once.  *)
(* Nothing is ever built while the slot is full, so no resource is lost.   *)
(***************************************************************************)
EXTENDS Naturals

CONSTANTS Resources, None

VARIABLES
    slot,   \* the cached resource, or None
    fate    \* for every resource: "unbuilt", "cached", "closing", "torn"

vars == <<slot, fate>>

Init ==
    /\ slot = None
    /\ fate = [r \in Resources |-> "unbuilt"]

Build(r) ==
    /\ slot = None
    /\ fate[r] = "unbuilt"
    /\ slot' = r
    /\ fate' = [fate EXCEPT ![r] = "cached"]

\* The closer takes the resource out of the slot before it tears it down.
Retire(r) ==
    /\ slot = r
    /\ slot' = None
    /\ fate' = [fate EXCEPT ![r] = "closing"]

TearDown(r) ==
    /\ fate[r] = "closing"
    /\ fate' = [fate EXCEPT ![r] = "torn"]
    /\ UNCHANGED slot

Next == \E r \in Resources : Build(r) \/ Retire(r) \/ TearDown(r)

Spec == Init /\ [][Next]_vars
=============================================================================
