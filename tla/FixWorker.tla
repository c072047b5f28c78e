------------------------------ MODULE FixWorker ------------------------------
(***************************************************************************)
(* Job 2 from the inside: the pod of one fix attempt, the repository it    *)
(* clones, pushes to and opens a pull request on, and the humans who push  *)
(* to the base branch and merge into it meanwhile.                         *)
(*                                                                         *)
(* Of the code there is only whether its tests fail ("red"), pass          *)
(* ("green"), or it does not parse ("invalid").  Every step may fail, and  *)
(* a request that failed for the pod may have taken effect on GitHub.      *)
(* Job 2 has BackoffLimit 0, so the Job ends with its pod; a later Job of  *)
(* the same name, for a resource that was deleted and created again, works *)
(* on the same branch name.                                                *)
(***************************************************************************)
EXTENDS Naturals

CONSTANTS
    MaxMoves,   \* bound: pushes of others and merges to the base branch
    MaxJobs     \* bound: Jobs of this name

ASSUME MaxMovesAssumption == MaxMoves \in Nat
ASSUME MaxJobsAssumption == MaxJobs \in Nat \ {0}

VARIABLES
    (* GitHub *)
    base,       \* the base branch: its revision, its tests, whose work it contains
    branch,     \* the attempt's branch name is taken
    pushed,     \* the commit under it: by which Job, how it was tested
    prs,        \* the Jobs that have opened a pull request
    (* the Job *)
    job, jobs,
    report,     \* prURL is in the termination message
    before,     \* what was on GitHub when the Job was launched
    (* the pod *)
    pc,
    clone,      \* the revision cloned
    baseline,   \* the verdict of the first go test
    work,       \* the working tree
    (* history *)
    published   \* the Jobs that have pushed a commit

githubVars == <<base, branch, pushed, prs, published>>
jobVars    == <<job, jobs, report, before>>
podVars    == <<pc, clone, baseline, work>>
vars == <<githubVars, jobVars, podVars>>

PodStep == {"none", "clone", "checkout", "baseline", "locate", "rewrite",
            "validate", "verify", "push", "openPR", "message"}

(***************************************************************************)
(* Of the history of a revision there is only which Jobs' commits are in   *)
(* it.  Job 0 stands for whoever left a branch of the name earlier.        *)
(***************************************************************************)
Revision == [rev: 0..MaxMoves, tests: {"red", "green"}, contains: SUBSET (0..MaxJobs)]

Commit == [job: 0..MaxJobs, baseline: {"", "red"}, tests: {"", "red", "green", "invalid"}]

NoCommit == [job |-> 0, baseline |-> "", tests |-> ""]

(* What is on GitHub of the attempt, the latest commit and the most there was. *)
Left ==
    [job |-> pushed.job,
     remote |-> IF prs # {} THEN "pr" ELSE IF branch THEN "branch" ELSE "none"]

TypeOK ==
    /\ base \in Revision
    /\ branch \in BOOLEAN
    /\ pushed \in Commit
    /\ prs \subseteq 1..MaxJobs /\ published \subseteq 0..MaxJobs
    /\ job \in {"active", "complete", "failed"}
    /\ jobs \in 1..MaxJobs
    /\ report \in BOOLEAN
    /\ before \in [job: 0..MaxJobs, remote: {"none", "branch", "pr"}]
    /\ pc \in PodStep
    /\ clone \in Revision
    /\ baseline \in {"", "red"}
    /\ work \in {"", "red", "green", "invalid"}

Nothing == [rev |-> 0, tests |-> "red", contains |-> {}]

(***************************************************************************)
(* A branch of the name may be left from an earlier life of the resource,  *)
(* and may have been merged.                                               *)
(***************************************************************************)
Init ==
    /\ branch \in BOOLEAN /\ published = (IF branch THEN {0} ELSE {})
    /\ base \in [rev: {0}, tests: {"red", "green"}, contains: SUBSET published]
    /\ pushed = NoCommit /\ prs = {} /\ before = Left
    /\ job = "active" /\ jobs = 1 /\ report = FALSE
    /\ pc = "none" /\ clone = Nothing /\ baseline = "" /\ work = ""

-----------------------------------------------------------------------------
StartPod ==
    /\ job = "active" /\ pc = "none"
    /\ pc' = "clone"
    /\ UNCHANGED <<githubVars, jobVars, clone, baseline, work>>

Clone ==
    /\ pc = "clone"
    /\ clone' = base /\ work' = base.tests
    /\ pc' = "checkout"
    /\ UNCHANGED <<githubVars, jobVars, baseline>>

CheckoutNewBranch ==
    /\ pc = "checkout"
    /\ pc' = "baseline"
    /\ UNCHANGED <<githubVars, jobVars, clone, baseline, work>>

(***************************************************************************)
(* Any error of go test counts as red, also where the code has none (no    *)
(* network for the modules).                                               *)
(***************************************************************************)
TestRun(tree) == IF tree = "green" THEN {"green", "red"} ELSE {"red"}

WorthFixing_Always(out) == TRUE     \* mutant: a passing baseline is ignored

WorthFixing(out) == out = "red"

BaselineTest ==
    /\ pc = "baseline"
    /\ \E out \in TestRun(work) : WorthFixing(out) /\ baseline' = out
    /\ pc' = "locate"
    /\ UNCHANGED <<githubVars, jobVars, clone, work>>

(* The model names a file of the tree, which is read and is not too large. *)
LocateFile ==
    /\ pc = "locate"
    /\ pc' = "rewrite"
    /\ UNCHANGED <<githubVars, jobVars, clone, baseline, work>>

(* Edits of the model that apply, each to one place, and change the file. *)
RewriteFile ==
    /\ pc = "rewrite"
    /\ work' \in {"red", "green", "invalid"}
    /\ pc' = "validate"
    /\ UNCHANGED <<githubVars, jobVars, clone, baseline>>

ValidateGoSource ==
    /\ pc = "validate" /\ work # "invalid"
    /\ pc' = "verify"
    /\ UNCHANGED <<githubVars, jobVars, clone, baseline, work>>

Verified_Anyway(out) == TRUE        \* mutant: the second go test is only logged

Verified(out) == out = "green"

VerificationTest ==
    /\ pc = "verify"
    /\ \E out \in TestRun(work) : Verified(out)
    /\ pc' = "push"
    /\ UNCHANGED <<githubVars, jobVars, clone, baseline, work>>

(***************************************************************************)
(* PushOptions without RefSpecs pushes every local branch, the base branch *)
(* included, and without Force: each must be new or a fast-forward.  So a  *)
(* base branch that has moved since the clone refuses it, and so does a    *)
(* branch of the name that is already there, unless its commit is in the   *)
(* history that was cloned, as it is once the branch has been merged.      *)
(***************************************************************************)
PushAccepted_Force == base.rev = clone.rev      \* mutant: Force is set

PushAccepted == base.rev = clone.rev /\ (branch => pushed.job \in clone.contains)

PushTakesEffect ==
    /\ pc = "push" /\ PushAccepted
    /\ branch' = TRUE
    /\ pushed' = [job |-> jobs, baseline |-> baseline, tests |-> work]
    /\ published' = published \union {jobs}
    /\ UNCHANGED <<base, prs>>

CommitAndPush ==
    /\ PushTakesEffect
    /\ pc' = "openPR"
    /\ UNCHANGED <<jobVars, clone, baseline, work>>

(* There is nothing to request of a branch that has been merged already. *)
OpenPRTakesEffect ==
    /\ pc = "openPR" /\ pushed.job \notin base.contains
    /\ prs' = prs \union {jobs}
    /\ UNCHANGED <<base, branch, pushed, published>>

OpenPR ==
    /\ OpenPRTakesEffect
    /\ pc' = "message"
    /\ UNCHANGED <<jobVars, clone, baseline, work>>

PodEnds == pc' = "none" /\ clone' = Nothing /\ baseline' = "" /\ work' = ""

(***************************************************************************)
(* The pod exits 0 whether or not it could write the message: run warns.   *)
(***************************************************************************)
WriteTermination ==
    /\ pc = "message"
    /\ report' \in BOOLEAN
    /\ job' = "complete"
    /\ PodEnds
    /\ UNCHANGED <<githubVars, jobs, before>>

(***************************************************************************)
(* fail: exit 1, and a message without prURL.  The deadline of the Job, 60 *)
(* s after the worker's own of 9 minutes, does the same without a message. *)
(***************************************************************************)
ReportAfterFailure_BranchOnly == branch'    \* mutant: prURL with the error

ReportAfterFailure == FALSE

PodFails ==
    /\ pc # "none"
    /\ PushTakesEffect \/ OpenPRTakesEffect \/ UNCHANGED githubVars
    /\ job' = "failed" /\ report' = ReportAfterFailure
    /\ PodEnds
    /\ UNCHANGED <<jobs, before>>

-----------------------------------------------------------------------------
Advance(contains) ==
    /\ base.rev < MaxMoves
    /\ \E t \in {"red", "green"} :
          base' = [rev |-> base.rev + 1, tests |-> t, contains |-> contains]
    /\ UNCHANGED <<branch, pushed, prs, published, jobVars, podVars>>

(* Others push to the base branch; also a merge that squashes the commits. *)
BaseMoves == Advance(base.contains)

(* Someone merges the attempt's branch into the base branch, and keeps it. *)
Merge ==
    /\ branch /\ pushed.job \notin base.contains
    /\ Advance(base.contains \union {pushed.job})

(* The resource was deleted, created again, and reached the same attempt. *)
Relaunch ==
    /\ job # "active" /\ jobs < MaxJobs
    /\ job' = "active" /\ jobs' = jobs + 1
    /\ report' = FALSE /\ before' = Left
    /\ UNCHANGED <<githubVars, podVars>>

Next ==
    \/ StartPod \/ Clone \/ CheckoutNewBranch \/ BaselineTest
    \/ LocateFile \/ RewriteFile \/ ValidateGoSource \/ VerificationTest
    \/ CommitAndPush \/ OpenPR \/ WriteTermination \/ PodFails
    \/ BaseMoves \/ Merge \/ Relaunch

Spec == Init /\ [][Next]_vars
-----------------------------------------------------------------------------
(***************************************************************************)
(* Nothing reaches GitHub that did not go from red to green in the worker, *)
(* whatever the model answered and wherever the pod stopped.               *)
(***************************************************************************)
PushedIsVerified ==
    pushed # NoCommit => pushed.baseline = "red" /\ pushed.tests = "green"

(***************************************************************************)
(* A pull request that the controller can read of is there, and is the     *)
(* work of the Job that reported it, not of an earlier one of its name.    *)
(***************************************************************************)
ReportIsOwn == report => jobs \in prs /\ pushed.job = jobs

(***************************************************************************)
(* What was pushed under the branch name, by whatever Job, is not lost to  *)
(* a later one: it is still what the branch names, so that an open pull    *)
(* request keeps what was reviewed, or it is part of the base branch.      *)
(***************************************************************************)
NothingLost == \A n \in published : n = pushed.job \/ n \in base.contains

(***************************************************************************)
(* The worker does what Operator assumes of it.  The operator sees nothing *)
(* of GitHub, so the branch and the pull request count when the pod ends.  *)
(***************************************************************************)
SeenLeft == IF job = "active" THEN before ELSE Left

AsAssumed == INSTANCE FixContract WITH
                 remote <- SeenLeft.remote,
                 merged <- SeenLeft.job \in base.contains

KeepsContract == AsAssumed!Contract
=============================================================================
