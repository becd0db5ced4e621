------------------------------ MODULE Registry ------------------------------
(***************************************************************************)
(* What the processor promises about the entries of publish_infos_ and     *)
(* subscribe_infos_, whatever thread reports what and in whatever order:   *)
(* an item is tracked at most once, released at most once, and when the    *)
(* program leaves its event loop nothing is left tracked.                  *)
(***************************************************************************)
CONSTANT Items

VARIABLES
    phase,  \* [Items -> {"absent", "tracked", "released"}]
    loop    \* the event loop: "running", "stopped" or "crashed"

registryVars == <<phase, loop>>

Init ==
    /\ phase = [i \in Items |-> "absent"]
    /\ loop = "running"

Track(i) ==
    /\ loop = "running"
    /\ phase[i] = "absent"
    /\ phase' = [phase EXCEPT ![i] = "tracked"]
    /\ UNCHANGED loop

Release(i) ==
    /\ loop = "running"
    /\ phase[i] = "tracked"
    /\ phase' = [phase EXCEPT ![i] = "released"]
    /\ UNCHANGED loop

\* Everything tracked is released, nothing else.
ReleasesAll ==
    phase' = [i \in Items |->
                IF phase[i] = "tracked" THEN "released" ELSE phase[i]]

\* The program ends: everything tracked is released in the same step.
Close ==
    /\ loop = "running"
    /\ loop' = "stopped"
    /\ ReleasesAll

\* The process dies before Stop has begun, or when it is through.
Die ==
    /\ loop = "running"
    /\ loop' = "crashed"
    /\ ReleasesAll \/ UNCHANGED phase

Next == Close \/ Die \/ \E i \in Items : Track(i) \/ Release(i)

Spec == Init /\ [][Next]_registryVars

\* The program ends.
Ends == <>(loop # "running")
=============================================================================
