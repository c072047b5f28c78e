------------------------------ MODULE Reconcile ------------------------------
(***************************************************************************)
(* What one pass of IssueResolutionReconciler.Reconcile computes: the new  *)
(* status of an IssueResolution, from the copy of the resource the pass    *)
(* read and from the Job it looked up.  The module has no variables; the   *)
(* state machine that runs these operators is Operator.                    *)
(*                                                                         *)
(* Data the properties do not tell apart is left out: messages, summaries, *)
(* model names, comment URLs, condition reasons and times.  The branch of  *)
(* an attempt is a function of the attempt (fixBranchName) and is always   *)
(* written together with jobName, so it has no field of its own.  A        *)
(* condition's message counts in the code when a patch is computed: from   *)
(* the second attempt on, FixJobCreated changes that of Executing alone,   *)
(* and the list is replaced where here it is left as it is.                *)
(***************************************************************************)
EXTENDS Naturals

CONSTANT AttemptCap     \* largest spec.maxFixAttempts (10 in the CRD)

ASSUME AttemptCapAssumption == AttemptCap \in Nat \ {0}

Attempts == 1..AttemptCap

(***************************************************************************)
(* Jobs are named after the resource: "<name>-triage" is a name of its     *)
(* own, "<name>-fix-<k>" is the number k, and 0 is the empty string of     *)
(* status.execution.jobName.                                               *)
(***************************************************************************)
NoName == 0
FixJobName(k) == k

(***************************************************************************)
(* A pull request is named by the attempt whose branch it proposes; 0 is   *)
(* the empty prURL.                                                        *)
(***************************************************************************)
NoPR == 0

(***************************************************************************)
(* The resource.                                                           *)
(***************************************************************************)
Phase == {"", "Triage", "PendingValidation", "Ready", "Executing",
          "PROpen", "Done", "Rejected", "Failed"}

StoppedPhases == {"PROpen", "Done", "Rejected", "Failed"}

ConditionType == {"Triaged", "AwaitingApproval", "Executing", "PROpen", "Failed"}

ConditionStatus == {"Unset", "False", "True"}

ResourceSpec == [approved: BOOLEAN, maxFixAttempts: Attempts]

Status == [phase: Phase,
           inScope: BOOLEAN, suspicious: BOOLEAN, parseError: BOOLEAN,
           attempt: 0..AttemptCap, jobName: 0..AttemptCap, pr: 0..AttemptCap,
           conditions: [ConditionType -> ConditionStatus]]

EmptyStatus == [phase |-> "",
                inScope |-> FALSE, suspicious |-> FALSE, parseError |-> FALSE,
                attempt |-> 0, jobName |-> NoName, pr |-> NoPR,
                conditions |-> [c \in ConditionType |-> "Unset"]]

(***************************************************************************)
(* meta.SetStatusCondition, reduced to the status of the condition.        *)
(***************************************************************************)
WithCondition(st, c, value) == [st EXCEPT !.conditions[c] = value]

(***************************************************************************)
(* Client.Status().Patch(ir, MergeFrom(orig)): a JSON merge patch of the   *)
(* fields in which new differs from orig.  There is no resourceVersion in  *)
(* the patch, so it applies to whatever is stored by then, and the list of *)
(* conditions is one value, replaced as a whole.                           *)
(***************************************************************************)
Patched(stored, before, after) == IF after # before THEN after ELSE stored

MergePatch(stored, before, after) ==
    [phase      |-> Patched(stored.phase, before.phase, after.phase),
     inScope    |-> Patched(stored.inScope, before.inScope, after.inScope),
     suspicious |-> Patched(stored.suspicious, before.suspicious, after.suspicious),
     parseError |-> Patched(stored.parseError, before.parseError, after.parseError),
     attempt    |-> Patched(stored.attempt, before.attempt, after.attempt),
     jobName    |-> Patched(stored.jobName, before.jobName, after.jobName),
     pr         |-> Patched(stored.pr, before.pr, after.pr),
     conditions |-> Patched(stored.conditions, before.conditions, after.conditions)]

(***************************************************************************)
(* Jobs, as the reconciler sees them.  failedPods is job.Status.Failed, a  *)
(* count of Pods and not of Jobs; state = "complete" stands for            *)
(* job.Status.Succeeded > 0.  An absent Job has the record NoJob.          *)
(***************************************************************************)
JobState == {"absent", "active", "complete", "failed"}

Job == [state: JobState, failedPods: 0..2]

NoJob  == [state |-> "absent", failedPods |-> 0]
NewJob == [state |-> "active", failedPods |-> 0]

(***************************************************************************)
(* The result of Job 1, read from the termination message of the first     *)
(* container that exited 0.  When there is none, or it is no JSON, the     *)
(* code does what it does for a verdict marked parseError: Unreadable.     *)
(***************************************************************************)
Verdict == [inScope: BOOLEAN, suspicious: BOOLEAN, parseError: BOOLEAN]

Unreadable == [inScope |-> FALSE, suspicious |-> FALSE, parseError |-> TRUE]

Acceptable(v) == v.inScope /\ ~v.suspicious /\ ~v.parseError

(***************************************************************************)
(* Reconcile: an empty phase is Triage.                                    *)
(***************************************************************************)
WithPhaseDefaulted_RetriesFailed(st) ==     \* mutant: Failed is not a stop
    IF st.phase \in {"", "Failed"} THEN [st EXCEPT !.phase = "Triage"] ELSE st

WithPhaseDefaulted(st) ==
    IF st.phase = "" THEN [st EXCEPT !.phase = "Triage"] ELSE st

(***************************************************************************)
(* reconcileTriage.                                                        *)
(***************************************************************************)
TriageJobCreated(st) == WithCondition(st, "Triaged", "False")

TriageUnreadable(st) ==
    WithCondition([st EXCEPT !.phase = "Failed", !.inScope = FALSE,
                             !.suspicious = FALSE, !.parseError = TRUE],
                  "Failed", "True")

TriageJudged_TrustsInScope(st, v) ==        \* mutant: suspicious is not looked at
    LET judged == WithCondition([st EXCEPT !.inScope = v.inScope,
                                           !.suspicious = v.suspicious,
                                           !.parseError = FALSE],
                                "Triaged", "True")
    IN  IF ~v.inScope
        THEN [judged EXCEPT !.phase = "Rejected"]
        ELSE WithCondition([judged EXCEPT !.phase = "PendingValidation"],
                           "AwaitingApproval", "True")

TriageJudged(st, v) ==
    LET judged == WithCondition([st EXCEPT !.inScope = v.inScope,
                                           !.suspicious = v.suspicious,
                                           !.parseError = FALSE],
                                "Triaged", "True")
    IN  IF v.suspicious \/ ~v.inScope
        THEN [judged EXCEPT !.phase = "Rejected"]
        ELSE WithCondition([judged EXCEPT !.phase = "PendingValidation"],
                           "AwaitingApproval", "True")

AfterTriageJob(st, job, v) ==
    CASE job.state = "complete" /\ v.parseError  -> TriageUnreadable(st)
      [] job.state = "complete" /\ ~v.parseError -> TriageJudged(st, v)
      [] job.state # "complete" /\ job.failedPods > 0 ->
             WithCondition([st EXCEPT !.phase = "Failed"], "Failed", "True")
      [] OTHER -> st

(***************************************************************************)
(* reconcilePendingValidation.                                             *)
(***************************************************************************)
AfterValidation_NoGate(spec, st) ==         \* mutant: spec.approved is not looked at
    WithCondition([st EXCEPT !.phase = "Ready"], "AwaitingApproval", "False")

AfterValidation_KeepsCondition(spec, st) == \* mutant: the condition is not reset
    IF spec.approved THEN [st EXCEPT !.phase = "Ready"] ELSE st

AfterValidation(spec, st) ==
    IF spec.approved
    THEN WithCondition([st EXCEPT !.phase = "Ready"], "AwaitingApproval", "False")
    ELSE st

(***************************************************************************)
(* reconcileFix and handleFixFailure.                                      *)
(***************************************************************************)
CurrentAttempt(st) == IF st.attempt = 0 THEN 1 ELSE st.attempt

MayCreateFixJob_Always(st) == TRUE          \* mutant: no guard after TTL cleanup
MayCreateFixJob_OnceNamed(st) == st.jobName # NoName    \* mutant: guard inverted

MayCreateFixJob(st) == st.phase = "Ready" \/ st.jobName = NoName

FixJobCreated(st) ==
    LET k == CurrentAttempt(st)
    IN  WithCondition([st EXCEPT !.phase = "Executing", !.attempt = k,
                                 !.jobName = FixJobName(k)],
                      "Executing", "True")

FixFailed_OneTooMany(spec, st) ==           \* mutant: <= for <
    LET k == CurrentAttempt(st)
    IN  IF k <= spec.maxFixAttempts
        THEN [st EXCEPT !.phase = "Ready", !.attempt = k + 1]
        ELSE WithCondition([st EXCEPT !.phase = "Failed"], "Failed", "True")

FixFailed_StaysExecuting(spec, st) ==       \* mutant: the phase is not reset to Ready
    LET k == CurrentAttempt(st)
    IN  IF k < spec.maxFixAttempts
        THEN [st EXCEPT !.phase = "Executing", !.attempt = k + 1]
        ELSE WithCondition([st EXCEPT !.phase = "Failed"], "Failed", "True")

FixFailed(spec, st) ==
    LET k == CurrentAttempt(st)
    IN  IF k < spec.maxFixAttempts
        THEN [st EXCEPT !.phase = "Ready", !.attempt = k + 1]
        ELSE WithCondition([st EXCEPT !.phase = "Failed"], "Failed", "True")

PullRequestOpened_NoURL(st, pr) ==          \* mutant: prURL is not stored
    LET k == CurrentAttempt(st)
    IN  WithCondition([st EXCEPT !.phase = "PROpen", !.attempt = k,
                                 !.jobName = FixJobName(k)],
                      "PROpen", "True")

PullRequestOpened(st, pr) ==
    LET k == CurrentAttempt(st)
    IN  WithCondition([st EXCEPT !.phase = "PROpen", !.attempt = k,
                                 !.jobName = FixJobName(k), !.pr = pr],
                      "PROpen", "True")

AfterFixJob_AnyResult(spec, st, job, pr) == \* mutant: an empty prURL is accepted
    CASE job.state = "complete" -> PullRequestOpened(st, pr)
      [] job.state # "complete" /\ job.failedPods > 0 -> FixFailed(spec, st)
      [] OTHER -> [st EXCEPT !.phase = "Executing"]

AfterFixJob_Impatient(spec, st, job, pr) == \* mutant: job.Status.Failed is not looked at
    CASE job.state = "complete" /\ pr # NoPR -> PullRequestOpened(st, pr)
      [] OTHER -> FixFailed(spec, st)

AfterFixJob(spec, st, job, pr) ==
    CASE job.state = "complete" /\ pr # NoPR -> PullRequestOpened(st, pr)
      [] job.state = "complete" /\ pr = NoPR -> FixFailed(spec, st)
      [] job.state # "complete" /\ job.failedPods > 0 -> FixFailed(spec, st)
      [] OTHER -> [st EXCEPT !.phase = "Executing"]
=============================================================================
