--------------------------- MODULE Reconcile_proofs ---------------------------
(***************************************************************************)
(* Lemmas about the operators of Reconcile, for every value of AttemptCap. *)
(***************************************************************************)
EXTENDS Reconcile, TLAPS

(***************************************************************************)
(* Every operator that computes a status computes one of type Status.      *)
(***************************************************************************)
LEMMA EmptyStatusType == EmptyStatus \in Status
BY AttemptCapAssumption
   DEF EmptyStatus, Status, Phase, ConditionStatus, NoName, NoPR

(* Setting a condition. *)
LEMMA WithConditionType ==
    ASSUME NEW st \in Status, NEW c \in ConditionType, NEW v \in ConditionStatus
    PROVE  WithCondition(st, c, v) \in Status
BY DEF WithCondition, Status

(* Setting the phase. *)
LEMMA PhaseType ==
    ASSUME NEW st \in Status, NEW p \in Phase
    PROVE  [st EXCEPT !.phase = p] \in Status
BY DEF Status

(* The attempt a pass works on is at least 1. *)
LEMMA CurrentAttemptType ==
    ASSUME NEW st \in Status
    PROVE  CurrentAttempt(st) \in Attempts
BY AttemptCapAssumption DEF CurrentAttempt, Status, Attempts

(* Defaulting the empty phase. *)
LEMMA WithPhaseDefaultedType ==
    ASSUME NEW st \in Status
    PROVE  WithPhaseDefaulted(st) \in Status
<1>1. "Triage" \in Phase
  BY DEF Phase
<1> QED
  BY <1>1, PhaseType DEF WithPhaseDefaulted

(* reconcileTriage. *)
LEMMA AfterTriageJobType ==
    ASSUME NEW st \in Status, NEW job \in Job, NEW v \in Verdict
    PROVE  AfterTriageJob(st, job, v) \in Status
<1>1. TriageUnreadable(st) \in Status
  <2>1. [st EXCEPT !.phase = "Failed", !.inScope = FALSE,
                   !.suspicious = FALSE, !.parseError = TRUE] \in Status
    BY DEF Status, Phase
  <2> QED
    BY <2>1, WithConditionType DEF TriageUnreadable, ConditionType, ConditionStatus
<1>2. TriageJudged(st, v) \in Status
  <2> DEFINE judged == WithCondition([st EXCEPT !.inScope = v.inScope,
                                                !.suspicious = v.suspicious,
                                                !.parseError = FALSE],
                                     "Triaged", "True")
  <2>1. [st EXCEPT !.inScope = v.inScope, !.suspicious = v.suspicious,
                   !.parseError = FALSE] \in Status
    BY DEF Status, Verdict
  <2>2. judged \in Status
    BY <2>1, WithConditionType DEF ConditionType, ConditionStatus
  <2> HIDE DEF judged
  <2>3. [judged EXCEPT !.phase = "Rejected"] \in Status
    BY <2>2, PhaseType DEF Phase
  <2>4. [judged EXCEPT !.phase = "PendingValidation"] \in Status
    BY <2>2, PhaseType DEF Phase
  <2>5. WithCondition([judged EXCEPT !.phase = "PendingValidation"],
                      "AwaitingApproval", "True") \in Status
    BY <2>4, WithConditionType DEF ConditionType, ConditionStatus
  <2> QED
    BY <2>3, <2>5 DEF TriageJudged, judged
<1>3. WithCondition([st EXCEPT !.phase = "Failed"], "Failed", "True") \in Status
  <2>1. [st EXCEPT !.phase = "Failed"] \in Status
    BY PhaseType DEF Phase
  <2> QED
    BY <2>1, WithConditionType DEF ConditionType, ConditionStatus
<1> QED
  BY <1>1, <1>2, <1>3 DEF AfterTriageJob, Verdict, Job

(* reconcilePendingValidation. *)
LEMMA AfterValidationType ==
    ASSUME NEW spec \in ResourceSpec, NEW st \in Status
    PROVE  AfterValidation(spec, st) \in Status
<1>1. [st EXCEPT !.phase = "Ready"] \in Status
  BY PhaseType DEF Phase
<1> QED
  BY <1>1, WithConditionType DEF AfterValidation, ConditionType, ConditionStatus

(* The Job-creating branch of reconcileFix. *)
LEMMA FixJobCreatedType ==
    ASSUME NEW st \in Status
    PROVE  FixJobCreated(st) \in Status
<1>1. CurrentAttempt(st) \in 0..AttemptCap
  BY CurrentAttemptType, AttemptCapAssumption DEF Attempts
<1>2. [st EXCEPT !.phase = "Executing", !.attempt = CurrentAttempt(st),
                 !.jobName = CurrentAttempt(st)] \in Status
  BY <1>1 DEF Status, Phase
<1> QED
  BY <1>2, WithConditionType
     DEF FixJobCreated, FixJobName, ConditionType, ConditionStatus

(* handleFixFailure: the next attempt is within the cap. *)
LEMMA FixFailedType ==
    ASSUME NEW spec \in ResourceSpec, NEW st \in Status
    PROVE  FixFailed(spec, st) \in Status
<1> DEFINE k == CurrentAttempt(st)
<1>1. k \in Attempts
  BY CurrentAttemptType
<1>2. spec.maxFixAttempts \in Attempts
  BY DEF ResourceSpec
<1> HIDE DEF k
<1>3. CASE k < spec.maxFixAttempts
  <2>1. k + 1 \in 0..AttemptCap
    BY <1>1, <1>2, <1>3, AttemptCapAssumption DEF Attempts
  <2>2. [st EXCEPT !.phase = "Ready", !.attempt = k + 1] \in Status
    BY <2>1 DEF Status, Phase
  <2> QED
    BY <1>3, <2>2 DEF FixFailed, k
<1>4. CASE ~(k < spec.maxFixAttempts)
  <2>1. [st EXCEPT !.phase = "Failed"] \in Status
    BY PhaseType DEF Phase
  <2>2. WithCondition([st EXCEPT !.phase = "Failed"], "Failed", "True") \in Status
    BY <2>1, WithConditionType DEF ConditionType, ConditionStatus
  <2> QED
    BY <1>4, <2>2 DEF FixFailed, k
<1> QED
  BY <1>3, <1>4

(* The branches of reconcileFix for a Job that exists. *)
LEMMA AfterFixJobType ==
    ASSUME NEW spec \in ResourceSpec, NEW st \in Status, NEW job \in Job,
           NEW pr \in 0..AttemptCap
    PROVE  AfterFixJob(spec, st, job, pr) \in Status
<1>1. PullRequestOpened(st, pr) \in Status
  <2>1. CurrentAttempt(st) \in 0..AttemptCap
    BY CurrentAttemptType, AttemptCapAssumption DEF Attempts
  <2>2. [st EXCEPT !.phase = "PROpen", !.attempt = CurrentAttempt(st),
                   !.jobName = CurrentAttempt(st), !.pr = pr] \in Status
    BY <2>1 DEF Status, Phase
  <2> QED
    BY <2>2, WithConditionType
       DEF PullRequestOpened, FixJobName, ConditionType, ConditionStatus
<1>2. FixFailed(spec, st) \in Status
  BY FixFailedType
<1>3. [st EXCEPT !.phase = "Executing"] \in Status
  BY PhaseType DEF Phase
<1> QED
  BY <1>1, <1>2, <1>3 DEF AfterFixJob, Job

(* A patch mixes two statuses field by field. *)
LEMMA MergePatchType ==
    ASSUME NEW stored \in Status, NEW before \in Status, NEW after \in Status
    PROVE  MergePatch(stored, before, after) \in Status
BY DEF MergePatch, Patched, Status

-----------------------------------------------------------------------------
(***************************************************************************)
(* What the steps of a pass do to the phase.                               *)
(***************************************************************************)
LEMMA WithConditionKeepsPhase ==
    ASSUME NEW st \in Status, NEW c, NEW v
    PROVE  WithCondition(st, c, v).phase = st.phase
BY DEF WithCondition, Status

(***************************************************************************)
(* Triage reaches the human barrier with an acceptable verdict only, and   *)
(* none of the phases behind it.                                           *)
(***************************************************************************)
LEMMA TriagePhases ==
    ASSUME NEW st \in Status, st.phase = "Triage", NEW job \in Job, NEW v \in Verdict
    PROVE  LET p == AfterTriageJob(st, job, v).phase
           IN  /\ p \in {"Triage", "PendingValidation", "Rejected", "Failed"}
               /\ p = "PendingValidation" => Acceptable(v)
BY DEF AfterTriageJob, TriageUnreadable, TriageJudged, WithCondition,
       Acceptable, Status, Verdict, Job

(***************************************************************************)
(* The barrier is passed by a pass that has read spec.approved.            *)
(***************************************************************************)
LEMMA ValidationPhases ==
    ASSUME NEW spec \in ResourceSpec, NEW st \in Status
    PROVE  \/ AfterValidation(spec, st).phase = st.phase
           \/ AfterValidation(spec, st).phase = "Ready" /\ spec.approved
BY DEF AfterValidation, WithCondition, Status

(* A patch leaves the stored phase or writes the computed one. *)
LEMMA PatchedPhase ==
    ASSUME NEW stored \in Status, NEW before \in Status, NEW after \in Status
    PROVE  MergePatch(stored, before, after).phase \in {stored.phase, after.phase}
BY DEF MergePatch, Patched

-----------------------------------------------------------------------------
(***************************************************************************)
(* What the steps of a pass do to the attempt.                             *)
(***************************************************************************)
LEMMA WithConditionKeepsAttempt ==
    ASSUME NEW st \in Status, NEW c, NEW v
    PROVE  WithCondition(st, c, v).attempt = st.attempt
BY DEF WithCondition, Status

(* reconcileTriage. *)
LEMMA TriageKeepsAttempt ==
    ASSUME NEW st \in Status, NEW job \in Job, NEW v \in Verdict
    PROVE  AfterTriageJob(st, job, v).attempt = st.attempt
BY DEF AfterTriageJob, TriageUnreadable, TriageJudged, WithCondition, Status,
       Verdict, Job

(* reconcilePendingValidation, and the default of the empty phase. *)
LEMMA ValidationKeepsAttempt ==
    ASSUME NEW spec \in ResourceSpec, NEW st \in Status
    PROVE  /\ AfterValidation(spec, st).attempt = st.attempt
           /\ WithPhaseDefaulted(st).attempt = st.attempt
BY DEF AfterValidation, WithPhaseDefaulted, WithCondition, Status

(* Creating a Job records the attempt it is for. *)
LEMMA FixJobCreatedAttempt ==
    ASSUME NEW st \in Status
    PROVE  FixJobCreated(st).attempt = CurrentAttempt(st)
BY DEF FixJobCreated, WithCondition, Status

(***************************************************************************)
(* The only step that raises the attempt is a retry, and it stays within   *)
(* the spec it has read.                                                   *)
(***************************************************************************)
LEMMA FixJobAttempt ==
    ASSUME NEW spec \in ResourceSpec, NEW st \in Status, NEW job \in Job,
           NEW pr \in 0..AttemptCap
    PROVE  LET a == AfterFixJob(spec, st, job, pr).attempt
           IN  \/ a = st.attempt
               \/ a = CurrentAttempt(st)
               \/ a \in Attempts /\ a <= spec.maxFixAttempts
<1> DEFINE k == CurrentAttempt(st)
<1>1. k \in Attempts /\ spec.maxFixAttempts \in Attempts
  BY CurrentAttemptType DEF ResourceSpec
<1>2. PullRequestOpened(st, pr).attempt = k
  BY DEF PullRequestOpened, WithCondition, Status
<1> HIDE DEF k
<1>3. CASE k < spec.maxFixAttempts
  <2>1. FixFailed(spec, st).attempt = k + 1
    BY <1>3 DEF FixFailed, k, Status
  <2>2. k + 1 \in Attempts /\ k + 1 <= spec.maxFixAttempts
    BY <1>1, <1>3, AttemptCapAssumption DEF Attempts
  <2> QED
    BY <1>2, <2>1, <2>2 DEF AfterFixJob, Status, Job, k
<1>4. CASE ~(k < spec.maxFixAttempts)
  <2>1. FixFailed(spec, st).attempt = st.attempt
    BY <1>4 DEF FixFailed, WithCondition, k, Status
  <2> QED
    BY <1>2, <2>1 DEF AfterFixJob, Status, Job, k
<1> QED
  BY <1>3, <1>4

(* A patch leaves the stored attempt or writes the computed one. *)
LEMMA PatchedAttempt ==
    ASSUME NEW stored \in Status, NEW before \in Status, NEW after \in Status
    PROVE  MergePatch(stored, before, after).attempt \in {stored.attempt, after.attempt}
BY DEF MergePatch, Patched
=============================================================================
