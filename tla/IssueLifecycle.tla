---------------------------- MODULE IssueLifecycle ----------------------------
(***************************************************************************)
(* What the operator promises about one issue, without caches, passes,     *)
(* Jobs or patches: the state machine of docs/operator-architecture.md     *)
(* (section 4), with the retries of spec.maxFixAttempts.  Operator is      *)
(* shown to implement it.                                                  *)
(***************************************************************************)
EXTENDS Naturals

CONSTANT AttemptCap     \* the attempts a spec may grant, 1 or more

VARIABLES
    phase,
    approved,   \* a human has approved
    attempt,    \* the fix attempt under way, or the next one
    runs        \* the attempts launched so far

lifecycleVars == <<phase, approved, attempt, runs>>

Init ==
    /\ phase = "Triage"
    /\ approved \in BOOLEAN
    /\ attempt = 1
    /\ runs = {}

Approve ==
    /\ ~approved
    /\ approved' = TRUE
    /\ UNCHANGED <<phase, attempt, runs>>

EndTriage ==
    /\ phase = "Triage"
    /\ phase' \in {"PendingValidation", "Rejected", "Failed"}
    /\ UNCHANGED <<approved, attempt, runs>>

(* The human barrier. *)
Admit ==
    /\ phase = "PendingValidation" /\ approved
    /\ phase' = "Ready"
    /\ UNCHANGED <<approved, attempt, runs>>

(* The cost of a run is paid when its Job is created, once per attempt. *)
Launch ==
    /\ phase = "Ready" /\ attempt \notin runs
    /\ runs' = runs \cup {attempt}
    /\ UNCHANGED <<phase, approved, attempt>>

Launched == phase \in {"Ready", "Executing"} /\ attempt \in runs

Track ==
    /\ Launched /\ phase = "Ready"
    /\ phase' = "Executing"
    /\ UNCHANGED <<approved, attempt, runs>>

Retry ==
    /\ Launched /\ attempt < AttemptCap
    /\ phase' = "Ready"
    /\ attempt' = attempt + 1
    /\ UNCHANGED <<approved, runs>>

Finish ==
    /\ Launched
    /\ phase' \in {"PROpen", "Failed"}
    /\ UNCHANGED <<approved, attempt, runs>>

Advance == EndTriage \/ Launch \/ Track \/ Retry \/ Finish

Next == Approve \/ Admit \/ Advance

(***************************************************************************)
(* Nobody owes the issue an approval; everything else goes on by itself.   *)
(***************************************************************************)
Lifecycle     == Init /\ [][Next]_lifecycleVars
FairLifecycle ==
    /\ Lifecycle
    /\ WF_lifecycleVars(EndTriage)
    /\ WF_lifecycleVars(Launch)
    /\ WF_lifecycleVars(Track \/ Retry \/ Finish)
=============================================================================
