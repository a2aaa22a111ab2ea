---------------------------- MODULE CompilePromise ----------------------------
(***************************************************************************)
(* What runCompilers (run.ts) promises its caller: it settles at most once,*)
(* with the results of all the jobs, in the order of the list and not in   *)
(* the order they end, or with a failure.                                  *)
(***************************************************************************)
CONSTANTS
    Job,          \* the jobs: positions in the list of instances
    Produces(_),  \* what a job may produce
    None          \* no results yet

VARIABLES
    outcome,   \* "pending", "resolved" or "rejected"
    results    \* what the promise resolved with

Init == outcome = "pending" /\ results = [j \in Job |-> None]

Resolve ==
    /\ outcome = "pending" /\ outcome' = "resolved"
    /\ results' \in [Job -> UNION {Produces(j) : j \in Job}]
    /\ \A j \in Job : results'[j] \in Produces(j)

Fail ==
    /\ outcome = "pending" /\ outcome' = "rejected"
    /\ UNCHANGED results

Spec == Init /\ [][Resolve \/ Fail]_<<outcome, results>>
=============================================================================
