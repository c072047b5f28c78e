----------------------------- MODULE FixContract -----------------------------
(***************************************************************************)
(* What Operator assumes of the Job of one fix attempt: the actions        *)
(* FixPodSucceeds, FixPodFails and FixJobExpires as seen from that Job     *)
(* alone, with a lost report among the faults.  FixWorker implements it.   *)
(* Operator does not know what is merged, and allows either.               *)
(***************************************************************************)
VARIABLES
    job,        \* "active", "complete", "failed"
    remote,     \* the most the attempt has left: nothing, a branch, a PR
    merged,     \* what it left is part of the base branch
    report      \* the controller can read the URL of the pull request

contractVars == <<job, remote, merged, report>>

Init ==
    /\ job = "active"
    /\ remote \in {"none", "branch"}
    /\ merged \in BOOLEAN /\ (merged => remote = "branch")
    /\ report = FALSE

CanPush == remote = "none" \/ merged

PodSucceeds ==
    /\ job = "active" /\ CanPush
    /\ job' = "complete"
    /\ remote' = "pr" /\ merged' \in BOOLEAN
    /\ report' \in BOOLEAN

PodFails ==
    /\ job = "active"
    /\ job' = "failed"
    /\ \/ UNCHANGED <<remote, merged>>
       \/ /\ CanPush /\ merged' \in BOOLEAN
          /\ remote' \in {"branch", "pr"} /\ (remote = "pr" => remote' = "pr")
    /\ UNCHANGED report

Merge ==
    /\ remote # "none" /\ ~merged
    /\ merged' = TRUE
    /\ UNCHANGED <<job, remote, report>>

Relaunch ==
    /\ job # "active"
    /\ job' = "active"
    /\ report' = FALSE
    /\ UNCHANGED <<remote, merged>>

Next == PodSucceeds \/ PodFails \/ Merge \/ Relaunch

Contract == Init /\ [][Next]_contractVars
=============================================================================
