--------------------------- MODULE Lifecycle_proofs ---------------------------
(***************************************************************************)
(* What holds of the stored status, for every AttemptCap.  First, as long  *)
(* as the caches follow the API server at once, that is for every set of   *)
(* Faults without "lag", outages included: the status is sound, and with   *)
(* the fix Jobs it follows IssueLifecycle.  Then, what is left of this     *)
(* where caches lag.                                                       *)
(***************************************************************************)
EXTENDS Attempts_proofs

(***************************************************************************)
(* A sound status, given the attempts launched and what they left.         *)
(***************************************************************************)
VerdictAgrees(st) ==
    st.phase \in {"PendingValidation", "Ready", "Executing", "PROpen"} => Acceptable(st)

ConditionsAgree(st) ==
    /\ st.conditions["Failed"] = "True" <=> st.phase = "Failed"
    /\ st.conditions["PROpen"] = "True" <=> st.phase = "PROpen"
    /\ st.conditions["AwaitingApproval"] = "True" <=> st.phase = "PendingValidation"

(* A retry leaves the name of the last Job behind, for the guard against
   launching that one again. *)
JobNamed(st) ==
    /\ st.jobName <= CurrentAttempt(st)
    /\ st.phase = "Ready" => st.jobName < CurrentAttempt(st)
    /\ st.phase \in {"", "Triage", "PendingValidation"} => st.jobName = NoName

RunBehind(st, runs) == st.phase = "Executing" => CurrentAttempt(st) \in runs

PRReal(st, left) ==
    st.phase = "PROpen" =>
        /\ st.pr \in Attempts
        /\ left[st.pr] = "pr"
        /\ st.attempt = st.pr
        /\ st.jobName = FixJobName(st.attempt)

Sound(st, runs, left) ==
    /\ VerdictAgrees(st) /\ ConditionsAgree(st) /\ JobNamed(st)
    /\ RunBehind(st, runs) /\ PRReal(st, left)

(***************************************************************************)
(* A status that goes from before to after does one step of the lifecycle, *)
(* or none.                                                                *)
(***************************************************************************)
Goes(before, after, approved, runs) ==
    LET p == WithPhaseDefaulted(before).phase
        k == CurrentAttempt(before)
    IN  \/ after.phase = p /\ CurrentAttempt(after) = k
        \/ /\ p = "Triage" /\ after.phase \in {"PendingValidation", "Rejected", "Failed"}
           /\ CurrentAttempt(after) = k
        \/ /\ p = "PendingValidation" /\ approved /\ after.phase = "Ready"
           /\ CurrentAttempt(after) = k
        \/ /\ p \in {"Ready", "Executing"} /\ k \in runs
           /\ after.phase \in {"Executing", "PROpen", "Failed"}
           /\ CurrentAttempt(after) = k
        \/ /\ p \in {"Ready", "Executing"} /\ k \in runs /\ k < AttemptCap
           /\ after.phase = "Ready" /\ CurrentAttempt(after) = k + 1

(***************************************************************************)
(* Nothing but the pass writes status, so what it read is what is stored,  *)
(* and its patch stores what it computed.                                  *)
(***************************************************************************)
Fresh == seenCR = cr /\ seenFixJob = fixJob

JobsLaunched == \A k \in Attempts : fixJob[k].state # "absent" => k \in launched

ReportsReal ==
    \A k \in Attempts : report[k] # NoPR => report[k] = k /\ remote[k] = "pr"

PassSound ==
    pc # "idle" =>
        /\ orig.status = cr.status
        /\ Sound(new, launched, remote)
        /\ pc \in {"getTriageJob", "createTriageJob", "getFixJob", "createFixJob"} =>
               new = WithPhaseDefaulted(cr.status)
        /\ pc = "createFixJob" => MayCreateFixJob(new)
        /\ pc = "patch" => Goes(cr.status, new, everApproved, launched)

LifeInv ==
    /\ GateInv
    /\ Fresh /\ JobsLaunched /\ ReportsReal
    /\ Sound(cr.status, launched, remote)
    /\ PassSound

-----------------------------------------------------------------------------
(***************************************************************************)
(* What the operators of a pass make of a sound status.                    *)
(***************************************************************************)

(* More runs and more pull requests leave a status sound. *)
LEMMA StillSound ==
    ASSUME NEW st, NEW runs, NEW left, Sound(st, runs, left),
           NEW moreRuns, runs \subseteq moreRuns,
           NEW moreLeft, \A k \in Attempts : left[k] = "pr" => moreLeft[k] = "pr"
    PROVE  Sound(st, moreRuns, moreLeft)
BY DEF Sound, RunBehind, PRReal

(* A resource without a status is in Triage. *)
LEMMA DefaultedSound ==
    ASSUME NEW st \in Status, NEW runs, NEW left, Sound(st, runs, left)
    PROVE  /\ Sound(WithPhaseDefaulted(st), runs, left)
           /\ CurrentAttempt(WithPhaseDefaulted(st)) = CurrentAttempt(st)
           /\ WithPhaseDefaulted(st).phase # ""
           /\ WithPhaseDefaulted(st).jobName = st.jobName
<1>1. CASE st.phase # ""
  BY <1>1 DEF WithPhaseDefaulted
<1>2. CASE st.phase = ""
  BY <1>2 DEF WithPhaseDefaulted, Sound, VerdictAgrees, ConditionsAgree, JobNamed,
              RunBehind, PRReal, CurrentAttempt, Status, Acceptable
<1> QED
  BY <1>1, <1>2

(* Passing the barrier. *)
LEMMA ValidationSound ==
    ASSUME NEW spec \in ResourceSpec, NEW st \in Status, st.phase = "PendingValidation",
           NEW runs, NEW left, Sound(st, runs, left)
    PROVE  /\ Sound(AfterValidation(spec, st), runs, left)
           /\ CurrentAttempt(AfterValidation(spec, st)) = CurrentAttempt(st)
<1> DEFINE after == AfterValidation(spec, st)
<1>1. CASE ~spec.approved
  BY <1>1 DEF AfterValidation
<1>2. CASE spec.approved
  <2>1. /\ after.phase = "Ready"
        /\ after.inScope = st.inScope /\ after.suspicious = st.suspicious
        /\ after.parseError = st.parseError
        /\ after.attempt = st.attempt /\ after.jobName = st.jobName
        /\ after.conditions = [st.conditions EXCEPT !["AwaitingApproval"] = "False"]
    BY <1>2 DEF AfterValidation, WithCondition, Status
  <2>2. ConditionsAgree(after)
    BY <2>1 DEF Sound, ConditionsAgree, Status, ConditionType
  <2>3. CurrentAttempt(after) = CurrentAttempt(st)
    BY <2>1 DEF CurrentAttempt
  <2>4. JobNamed(after)
    BY <2>1, <2>3, CurrentAttemptType, AttemptCapAssumption
       DEF Sound, JobNamed, NoName, Attempts
  <2>5. VerdictAgrees(after)
    BY <2>1 DEF Sound, VerdictAgrees, Acceptable
  <2> QED
    BY <2>1, <2>2, <2>3, <2>4, <2>5 DEF Sound, RunBehind, PRReal
<1> QED
  BY <1>1, <1>2

(* The end of triage. *)
LEMMA TriageSound ==
    ASSUME NEW st \in Status, st.phase = "Triage", NEW job \in Job, NEW v \in Verdict,
           NEW runs, NEW left, Sound(st, runs, left)
    PROVE  /\ Sound(AfterTriageJob(st, job, v), runs, left)
           /\ Sound(TriageJobCreated(st), runs, left)
           /\ TriageJobCreated(st).phase = "Triage"
           /\ TriageJobCreated(st).attempt = st.attempt
<1> USE DEF Sound, ConditionsAgree, JobNamed, RunBehind, PRReal, CurrentAttempt
<1> DEFINE after == AfterTriageJob(st, job, v)
           created == TriageJobCreated(st)
<1>1. /\ created.phase = "Triage" /\ created.attempt = st.attempt
      /\ created.jobName = st.jobName
      /\ created.conditions = [st.conditions EXCEPT !["Triaged"] = "False"]
  BY DEF TriageJobCreated, WithCondition, Status
<1>2. Sound(created, runs, left)
  BY <1>1 DEF VerdictAgrees, Status, ConditionType
<1>3. after.attempt = st.attempt /\ after.jobName = st.jobName
  BY DEF AfterTriageJob, TriageUnreadable, TriageJudged, WithCondition, Status, Verdict,
         Job
<1>4. \/ after = st
      \/ /\ after.phase = "Failed"
         /\ after.conditions = [st.conditions EXCEPT !["Failed"] = "True"]
      \/ /\ after.phase = "Rejected"
         /\ after.conditions = [st.conditions EXCEPT !["Triaged"] = "True"]
      \/ /\ after.phase = "PendingValidation" /\ Acceptable(after)
         /\ after.conditions = [st.conditions EXCEPT !["Triaged"] = "True",
                                                     !["AwaitingApproval"] = "True"]
  BY DEF AfterTriageJob, TriageUnreadable, TriageJudged, WithCondition, Status, Verdict,
         Job, Acceptable
<1>5. ConditionsAgree(after)
  BY <1>4 DEF Status, ConditionType
<1>6. JobNamed(after)
  BY <1>3, <1>4
<1>7. VerdictAgrees(after) /\ RunBehind(after, runs) /\ PRReal(after, left)
  BY <1>4 DEF VerdictAgrees
<1> QED
  BY <1>1, <1>2, <1>5, <1>6, <1>7

(* The launch of a fix Job. *)
LEMMA FixJobCreatedSound ==
    ASSUME NEW st \in Status, st.phase \in {"Ready", "Executing"},
           NEW runs, NEW left, Sound(st, runs, left)
    PROVE  LET after == FixJobCreated(st)
           IN  /\ Sound(after, runs \cup {CurrentAttempt(st)}, left)
               /\ after.phase = "Executing"
               /\ CurrentAttempt(after) = CurrentAttempt(st)
<1> DEFINE after == FixJobCreated(st)
           k == CurrentAttempt(st)
<1>0. k \in Attempts /\ k \in Nat /\ 1 <= k
  BY CurrentAttemptType, AttemptCapAssumption DEF Attempts
<1> HIDE DEF k
<1>1. /\ after.phase = "Executing" /\ after.attempt = k /\ after.jobName = k
      /\ after.inScope = st.inScope /\ after.suspicious = st.suspicious
      /\ after.parseError = st.parseError
      /\ after.conditions = [st.conditions EXCEPT !["Executing"] = "True"]
  BY DEF FixJobCreated, FixJobName, WithCondition, Status, k
<1>2. CurrentAttempt(after) = k
  BY <1>0, <1>1 DEF CurrentAttempt
<1>3. ConditionsAgree(after)
  BY <1>1 DEF Sound, ConditionsAgree, Status, ConditionType
<1>4. VerdictAgrees(after)
  BY <1>1 DEF Sound, VerdictAgrees, Acceptable
<1>5. JobNamed(after)
  <2>1. after.jobName <= CurrentAttempt(after)
    BY <1>0, <1>1, <1>2
  <2> QED
    BY <1>1, <2>1 DEF JobNamed
<1>6. RunBehind(after, runs \cup {k}) /\ PRReal(after, left)
  BY <1>1, <1>2 DEF RunBehind, PRReal
<1> HIDE DEF after
<1>7. Sound(after, runs \cup {k}, left)
  BY <1>3, <1>4, <1>5, <1>6 DEF Sound
<1> QED
  BY <1>1, <1>2, <1>7 DEF k, after

(* The result of a fix Job: a pull request, a retry, the end, or nothing yet. *)
LEMMA FixJobSound ==
    ASSUME NEW spec \in ResourceSpec,
           NEW st \in Status, st.phase \in {"Ready", "Executing"}, NEW job \in Job,
           NEW pr \in 0..AttemptCap,
           NEW runs, NEW left, Sound(st, runs, left), CurrentAttempt(st) \in runs,
           pr # NoPR => pr = CurrentAttempt(st) /\ left[pr] = "pr"
    PROVE  LET after == AfterFixJob(spec, st, job, pr)
           IN  /\ Sound(after, runs, left)
               /\ \/ /\ after.phase \in {"Executing", "PROpen", "Failed"}
                     /\ CurrentAttempt(after) = CurrentAttempt(st)
                  \/ /\ CurrentAttempt(st) < AttemptCap
                     /\ after.phase = "Ready"
                     /\ CurrentAttempt(after) = CurrentAttempt(st) + 1
<1> DEFINE after == AfterFixJob(spec, st, job, pr)
           k == CurrentAttempt(st)
<1>0. /\ k \in Attempts /\ k \in Nat /\ 1 <= k
      /\ spec.maxFixAttempts \in Attempts /\ st.jobName \in Nat
  BY CurrentAttemptType, AttemptCapAssumption DEF Attempts, ResourceSpec, Status
<1>1. /\ st.jobName <= k /\ Acceptable(st) /\ k \in runs
      /\ st.conditions \in [ConditionType -> ConditionStatus]
      /\ st.conditions["Failed"] # "True" /\ st.conditions["PROpen"] # "True"
      /\ st.conditions["AwaitingApproval"] # "True"
  BY DEF Sound, JobNamed, VerdictAgrees, ConditionsAgree, Status
<1> HIDE DEF k
<1>2. /\ after.inScope = st.inScope /\ after.suspicious = st.suspicious
      /\ after.parseError = st.parseError
  BY DEF AfterFixJob, PullRequestOpened, FixFailed, WithCondition, Status, Job
<1>3. VerdictAgrees(after)
  BY <1>1, <1>2 DEF VerdictAgrees, Acceptable
<1>4. \/ /\ after.phase = "PROpen" /\ after.attempt = k /\ after.jobName = k
         /\ after.pr = pr /\ pr # NoPR
         /\ after.conditions = [st.conditions EXCEPT !["PROpen"] = "True"]
      \/ /\ after.phase = "Ready" /\ after.attempt = k + 1 /\ after.jobName = st.jobName
         /\ k < spec.maxFixAttempts /\ after.conditions = st.conditions
      \/ /\ after.phase = "Failed" /\ after.attempt = st.attempt
         /\ after.jobName = st.jobName
         /\ after.conditions = [st.conditions EXCEPT !["Failed"] = "True"]
      \/ /\ after.phase = "Executing" /\ after.attempt = st.attempt
         /\ after.jobName = st.jobName /\ after.conditions = st.conditions
  <2>1. /\ PullRequestOpened(st, pr).phase = "PROpen"
        /\ PullRequestOpened(st, pr).attempt = k
        /\ PullRequestOpened(st, pr).jobName = k
        /\ PullRequestOpened(st, pr).pr = pr
        /\ PullRequestOpened(st, pr).conditions
               = [st.conditions EXCEPT !["PROpen"] = "True"]
    BY DEF PullRequestOpened, FixJobName, WithCondition, Status, k
  <2>2. \/ /\ FixFailed(spec, st).phase = "Ready" /\ FixFailed(spec, st).attempt = k + 1
           /\ FixFailed(spec, st).jobName = st.jobName
           /\ k < spec.maxFixAttempts
           /\ FixFailed(spec, st).conditions = st.conditions
        \/ /\ FixFailed(spec, st).phase = "Failed"
           /\ FixFailed(spec, st).attempt = st.attempt
           /\ FixFailed(spec, st).jobName = st.jobName
           /\ FixFailed(spec, st).conditions = [st.conditions EXCEPT !["Failed"] = "True"]
    BY DEF FixFailed, WithCondition, Status, k
  <2>3. /\ [st EXCEPT !.phase = "Executing"].phase = "Executing"
        /\ [st EXCEPT !.phase = "Executing"].attempt = st.attempt
        /\ [st EXCEPT !.phase = "Executing"].jobName = st.jobName
        /\ [st EXCEPT !.phase = "Executing"].conditions = st.conditions
    BY DEF Status
  <2> QED
    BY <2>1, <2>2, <2>3 DEF AfterFixJob, Job
<1> HIDE DEF after
<1>5. ConditionsAgree(after)
  BY <1>1, <1>4 DEF ConditionsAgree, ConditionType
<1>6. CurrentAttempt(after) = IF after.phase = "Ready" THEN k + 1 ELSE k
  <2>1. after.attempt = st.attempt => CurrentAttempt(after) = k
    BY DEF CurrentAttempt, k
  <2>2. after.attempt = k => CurrentAttempt(after) = k
    BY <1>0 DEF CurrentAttempt
  <2>3. after.attempt = k + 1 => CurrentAttempt(after) = k + 1
    BY <1>0 DEF CurrentAttempt
  <2> QED
    BY <1>4, <2>1, <2>2, <2>3
<1>7. JobNamed(after)
  <2>1. /\ after.jobName = k \/ after.jobName = st.jobName
        /\ after.phase = "Ready" => after.jobName = st.jobName
        /\ after.phase \notin {"", "Triage", "PendingValidation"}
    BY <1>4
  <2>2. k + 1 > k /\ st.jobName <= k /\ st.jobName < k + 1 /\ k <= k
    BY <1>0, <1>1
  <2>3. CASE after.phase = "Ready"
    BY <1>0, <1>6, <2>1, <2>2, <2>3 DEF JobNamed
  <2>4. CASE after.phase # "Ready"
    BY <1>0, <1>6, <2>1, <2>2, <2>4 DEF JobNamed
  <2> QED
    BY <2>3, <2>4
<1>8. RunBehind(after, runs)
  BY <1>1, <1>6 DEF RunBehind
<1>9. PRReal(after, left)
  BY <1>0, <1>4 DEF PRReal, FixJobName, k
<1>10. after.phase = "Ready" => k < AttemptCap
  BY <1>0, <1>4, AttemptCapAssumption DEF Attempts
<1> QED
  BY <1>3, <1>4, <1>5, <1>6, <1>7, <1>8, <1>9, <1>10 DEF Sound, k, after

-----------------------------------------------------------------------------
(* What happened stays: launches, pull requests and an approval. *)
Kept ==
    /\ launched \subseteq launched'
    /\ \A k \in Attempts : remote[k] = "pr" => remote'[k] = "pr"
    /\ everApproved => everApproved'

(* No step unmakes any of it. *)
LEMMA NextKeeps ==
    ASSUME GateInv, [Next]_vars
    PROVE  Kept
<1>1. launched \subseteq launched'
  BY DEF Next, PassProgress, BeginPass, GetTriageJob, CreateTriageJob, GetFixJob,
         CreateFixJob, PatchStatus, ReturnError, Crash, SyncCR, SyncJobs,
         SetApproved, SetMaxFixAttempts, TriagePodEnds, TriagePodSucceeds,
         TriagePodFails, TriageJobExpires, FixPodEnds, FixPodSucceeds,
         FixPodFails, FixJobGetsNoPod, FixJobExpires, vars, historyVars
<1>2. ASSUME NEW k \in Attempts, remote[k] = "pr"
      PROVE  remote'[k] = "pr"
  <2>1. ASSUME NEW n \in Attempts, FixPodEnds(n) \/ FixJobExpires(n)
        PROVE  remote'[k] = "pr"
    BY <1>2, <2>1 DEF FixPodEnds, FixPodSucceeds, FixPodFails, FixJobGetsNoPod,
                      FixJobExpires, GateInv, TypeInv, TypeOK
  <2>2. ASSUME ~\E n \in Attempts : FixPodEnds(n) \/ FixJobExpires(n)
        PROVE  UNCHANGED remote
    BY <2>2
       DEF Next, PassProgress, BeginPass, GetTriageJob, CreateTriageJob, GetFixJob,
           CreateFixJob, PatchStatus, ReturnError, Crash, SyncCR, SyncJobs,
           SetApproved, SetMaxFixAttempts, TriagePodEnds, TriagePodSucceeds,
           TriagePodFails, TriageJobExpires, vars
  <2> QED
    BY <1>2, <2>1, <2>2
<1>3. everApproved => everApproved'
  BY NextHistoryGrows DEF GateInv, HistoryGrows
<1> QED
  BY <1>1, <1>2, <1>3 DEF Kept

(* Without lag the caches are fresh. *)
LEMMA KeepsFresh ==
    ASSUME Fresh, [Next]_vars, "lag" \notin Faults
    PROVE  Fresh'
BY DEF Fresh, CacheCR, CacheJobs, Next, PassProgress, BeginPass, GetTriageJob,
       CreateTriageJob, GetFixJob, CreateFixJob, PatchStatus, ReturnError, Crash,
       SyncCR, SyncJobs, SetApproved, SetMaxFixAttempts, TriagePodEnds,
       TriagePodSucceeds, TriagePodFails, TriageJobExpires, FixPodEnds,
       FixPodSucceeds, FixPodFails, FixJobGetsNoPod, FixJobExpires, vars,
       clusterVars, cacheVars

(* A Job that is there was launched; a report names the pull request its
   Job opened. *)
LEMMA KeepsJobsReal ==
    ASSUME GateInv, JobsLaunched, ReportsReal, [Next]_vars
    PROVE  JobsLaunched' /\ ReportsReal'
<1> USE DEF GateInv, TypeInv
<1>0. Kept
  BY NextKeeps
<1>1. ASSUME NEW k \in Attempts, fixJob'[k].state # "absent"
      PROVE  k \in launched'
  BY <1>0, <1>1, FixJobSteps DEF Kept, JobsLaunched, Created, EndsNow, Expired, NoJob
<1>2. ASSUME NEW k \in Attempts, report'[k] # NoPR
      PROVE  report'[k] = k /\ remote'[k] = "pr"
  <2>1. ASSUME report'[k] = report[k]
        PROVE  report'[k] = k /\ remote'[k] = "pr"
    BY <1>0, <1>2, <2>1 DEF Kept, ReportsReal
  <2>2. ASSUME NEW n \in Attempts, FixPodSucceeds(n)
        PROVE  \/ report'[k] = report[k]
               \/ report'[k] = k /\ remote'[k] = "pr"
    BY <2>2 DEF FixPodSucceeds, TypeOK
  <2>3. ASSUME NEW n \in Attempts, FixPodFails(n) \/ FixJobGetsNoPod(n)
        PROVE  report'[k] = report[k]
    BY <2>3 DEF FixPodFails, FixJobGetsNoPod
  <2>4. ASSUME NEW n \in Attempts, FixJobExpires(n)
        PROVE  report'[k] = report[k]
    BY <1>2, <2>4 DEF FixJobExpires, TypeOK
  <2>5. CASE CreateFixJob
    BY <1>2, <2>1, <2>5 DEF CreateFixJob, TypeOK
  <2>6. ASSUME ~CreateFixJob, ~\E n \in Attempts : FixPodEnds(n) \/ FixJobExpires(n)
        PROVE  UNCHANGED report
    BY <2>6
       DEF Next, PassProgress, BeginPass, GetTriageJob, CreateTriageJob, GetFixJob,
           PatchStatus, ReturnError, Crash, SyncCR, SyncJobs, SetApproved,
           SetMaxFixAttempts, TriagePodEnds, TriagePodSucceeds, TriagePodFails,
           TriageJobExpires, vars, clusterVars
  <2> QED
    BY <2>1, <2>2, <2>3, <2>4, <2>5, <2>6 DEF FixPodEnds
<1> QED
  BY <1>1, <1>2 DEF JobsLaunched, ReportsReal

(* A patch of what the pass computed, on what the pass has read, stores what
   it computed. *)
LEMMA PatchStores ==
    ASSUME NEW before \in Status, NEW after \in Status
    PROVE  MergePatch(before, before, after) = after
<1>1. /\ Patched(before.phase, before.phase, after.phase) = after.phase
      /\ Patched(before.inScope, before.inScope, after.inScope) = after.inScope
      /\ Patched(before.suspicious, before.suspicious, after.suspicious)
             = after.suspicious
      /\ Patched(before.parseError, before.parseError, after.parseError)
             = after.parseError
      /\ Patched(before.attempt, before.attempt, after.attempt) = after.attempt
      /\ Patched(before.jobName, before.jobName, after.jobName) = after.jobName
      /\ Patched(before.pr, before.pr, after.pr) = after.pr
      /\ Patched(before.conditions, before.conditions, after.conditions)
             = after.conditions
  BY DEF Patched
<1> QED
  BY <1>1 DEF MergePatch, Status

-----------------------------------------------------------------------------
(* The steps of a pass keep the pass and the stored status sound. *)

(* The pass reads the resource. *)
LEMMA BeginSound ==
    ASSUME LifeInv, BeginPass
    PROVE  (Sound(cr.status, launched, remote) /\ PassSound)'
<1> USE DEF LifeInv
<1> DEFINE st == WithPhaseDefaulted(cr.status)
<1>1. /\ cr.status \in Status /\ cr.spec \in ResourceSpec /\ st \in Status
      /\ seenCR = cr /\ (cr.spec.approved => everApproved)
  BY WithPhaseDefaultedType DEF GateInv, TypeInv, TypeOK, Resource, Fresh, ApprovalsKnown
<1>2. Sound(st, launched, remote) /\ CurrentAttempt(st) = CurrentAttempt(cr.status)
  BY <1>1, DefaultedSound
<1>3. /\ orig' = cr /\ cr' = cr /\ pc' # "idle" /\ pc' # "createFixJob"
      /\ UNCHANGED <<launched, remote, everApproved>>
      /\ \/ new' = st
         \/ /\ new' = AfterValidation(cr.spec, st)
            /\ st.phase = "PendingValidation" /\ pc' = "patch"
  BY <1>1 DEF BeginPass, historyVars
<1>4. CASE new' = st
  <2>1. Goes(cr.status, st, everApproved, launched)
    BY <1>2 DEF Goes
  <2> QED
    BY <1>2, <1>3, <1>4, <2>1 DEF PassSound
<1>5. CASE /\ new' = AfterValidation(cr.spec, st)
           /\ st.phase = "PendingValidation" /\ pc' = "patch"
  <2> DEFINE after == AfterValidation(cr.spec, st)
  <2>1. Sound(after, launched, remote) /\ CurrentAttempt(after) = CurrentAttempt(st)
    BY <1>1, <1>2, <1>5, ValidationSound
  <2>2. \/ after.phase = st.phase
        \/ after.phase = "Ready" /\ everApproved
    BY <1>1, ValidationPhases
  <2> HIDE DEF after
  <2>3. Goes(cr.status, after, everApproved, launched)
    BY <1>2, <1>5, <2>1, <2>2 DEF Goes
  <2>4. new' = after
    BY <1>5 DEF after
  <2> QED
    BY <1>3, <1>5, <2>1, <2>3, <2>4 DEF PassSound
<1> QED
  BY <1>3, <1>4, <1>5

(* Triage. *)
LEMMA TriagePassSound ==
    ASSUME LifeInv, GetTriageJob \/ CreateTriageJob
    PROVE  (Sound(cr.status, launched, remote) /\ PassSound)'
<1> USE DEF LifeInv
<1>1. /\ new \in Status /\ new.phase = "Triage" /\ pc # "idle" /\ seenTriageJob \in Job
      /\ verdict \in Verdict /\ Unreadable \in Verdict /\ cr.status \in Status
      /\ Sound(new, launched, remote) /\ orig.status = cr.status
      /\ new = WithPhaseDefaulted(cr.status)
  BY DEF GetTriageJob, CreateTriageJob, GateInv, TypeInv, TypeOK, Resource, PassOnTrack,
         Unreadable, Verdict, PassSound
<1>2. CurrentAttempt(new) = CurrentAttempt(cr.status)
  BY <1>1, DefaultedSound
<1>3. /\ UNCHANGED <<cr, launched, remote, everApproved>>
      /\ Sound(cr.status, launched, remote)'
  BY DEF GetTriageJob, CreateTriageJob, historyVars
<1>4. ASSUME NEW st, Sound(st, launched, remote), st.attempt = new.attempt,
             st.phase \in {"Triage", "PendingValidation", "Rejected", "Failed"},
             new' = st, orig' = orig, pc' = "patch"
      PROVE  PassSound'
  <2>1. CurrentAttempt(st) = CurrentAttempt(cr.status)
    BY <1>2, <1>4 DEF CurrentAttempt
  <2>2. Goes(cr.status, st, everApproved, launched)
    BY <1>1, <1>4, <2>1 DEF Goes
  <2> QED
    BY <1>1, <1>3, <1>4, <2>2 DEF PassSound
<1>5. CASE GetTriageJob
  <2>1. CASE pc' = "createTriageJob"
    BY <1>1, <1>3, <1>5, <2>1 DEF GetTriageJob, PassSound
  <2>2. CASE pc' = "patch"
    <3>1. PICK v \in {verdict, Unreadable} : new' = AfterTriageJob(new, seenTriageJob, v)
      BY <1>5, <2>2 DEF GetTriageJob
    <3>2. v \in Verdict
      BY <1>1
    <3>3. /\ Sound(new', launched, remote) /\ new'.attempt = new.attempt
          /\ new'.phase \in {"Triage", "PendingValidation", "Rejected", "Failed"}
      BY <1>1, <3>1, <3>2, TriageSound, TriageKeepsAttempt, TriagePhases
    <3>4. orig' = orig
      BY <1>5 DEF GetTriageJob
    <3> QED
      BY <1>3, <1>4, <2>2, <3>3, <3>4
  <2> QED
    BY <1>3, <1>5, <2>1, <2>2 DEF GetTriageJob
<1>6. CASE CreateTriageJob
  <2>1. CASE PassEnds
    BY <1>3, <2>1 DEF PassEnds, PassSound
  <2>2. CASE new' = TriageJobCreated(new) /\ pc' = "patch" /\ orig' = orig
    <3>1. /\ Sound(new', launched, remote) /\ new'.attempt = new.attempt
          /\ new'.phase = "Triage"
      BY <1>1, <2>2, TriageSound
    <3> QED
      BY <1>3, <1>4, <2>2, <3>1
  <2> QED
    BY <1>3, <1>6, <2>1, <2>2 DEF CreateTriageJob
<1> QED
  BY <1>3, <1>5, <1>6

(* The fix Job. *)
LEMMA FixPassSound ==
    ASSUME LifeInv, GetFixJob \/ CreateFixJob
    PROVE  (Sound(cr.status, launched, remote) /\ PassSound)'
<1> USE DEF LifeInv
<1> DEFINE k == CurrentAttempt(new)
<1>1. /\ new \in Status /\ new.phase \in {"Ready", "Executing"} /\ pc # "idle"
      /\ orig.spec \in ResourceSpec /\ cr.status \in Status
      /\ Sound(new, launched, remote) /\ orig.status = cr.status
      /\ new = WithPhaseDefaulted(cr.status)
  BY DEF GetFixJob, CreateFixJob, GateInv, TypeInv, TypeOK, Resource, PassOnTrack,
         PassSound
<1>2. k = CurrentAttempt(cr.status) /\ k \in Attempts
  BY <1>1, DefaultedSound, CurrentAttemptType
<1>3. /\ seenFixJob[k] \in Job /\ report[k] \in 0..AttemptCap /\ NoPR \in 0..AttemptCap
      /\ seenFixJob[k].state # "absent" => k \in launched
      /\ report[k] # NoPR => report[k] = k /\ remote[k] = "pr"
  BY <1>2, AttemptCapAssumption
     DEF GateInv, TypeInv, TypeOK, NoPR, Fresh, JobsLaunched, ReportsReal
<1>4. CASE GetFixJob
  <2>1. UNCHANGED <<cr, launched, remote, everApproved, orig>>
    BY <1>4 DEF GetFixJob, historyVars
  <2>2. CASE new' = new
    <3>1. Goes(cr.status, new, everApproved, launched)
      BY <1>1, <1>2 DEF Goes
    <3>2. /\ pc' \in {"createFixJob", "patch"}
          /\ pc' = "createFixJob" => MayCreateFixJob(new)
      BY <1>4 DEF GetFixJob
    <3> QED
      BY <1>1, <2>1, <2>2, <3>1, <3>2 DEF PassSound
  <2>3. CASE /\ pc' = "patch" /\ seenFixJob[k].state # "absent"
             /\ \E pr \in {report[k], NoPR} :
                   new' = AfterFixJob(orig.spec, new, seenFixJob[k], pr)
    <3>1. PICK pr \in {report[k], NoPR} :
             new' = AfterFixJob(orig.spec, new, seenFixJob[k], pr)
      BY <2>3
    <3>2. /\ pr \in 0..AttemptCap /\ k \in launched
          /\ pr # NoPR => pr = k /\ remote[pr] = "pr"
      BY <1>3, <2>3
    <3>3. /\ Sound(new', launched, remote)
          /\ \/ /\ new'.phase \in {"Executing", "PROpen", "Failed"}
                /\ CurrentAttempt(new') = k
             \/ /\ k < AttemptCap /\ new'.phase = "Ready"
                /\ CurrentAttempt(new') = k + 1
      BY <1>1, <1>3, <3>1, <3>2, FixJobSound
    <3>4. Goes(cr.status, new', everApproved, launched)
      BY <1>1, <1>2, <3>2, <3>3 DEF Goes
    <3> QED
      BY <1>1, <2>1, <2>3, <3>3, <3>4 DEF PassSound
  <2> QED
    BY <1>4, <2>1, <2>2, <2>3 DEF GetFixJob
<1>5. CASE CreateFixJob
  <2>1. UNCHANGED <<cr, remote, everApproved>>
    BY <1>5 DEF CreateFixJob
  <2>2. CASE PassEnds /\ UNCHANGED launched
    BY <2>1, <2>2 DEF PassEnds, PassSound
  <2>3. CASE /\ new' = FixJobCreated(new) /\ pc' = "patch" /\ orig' = orig
             /\ launched' = launched \cup {k}
    <3>1. /\ Sound(new', launched', remote') /\ new'.phase = "Executing"
          /\ CurrentAttempt(new') = k
      BY <1>1, <2>1, <2>3, FixJobCreatedSound
    <3>2. Goes(cr.status, new', everApproved, launched')
      BY <1>1, <1>2, <2>3, <3>1 DEF Goes
    <3>3. Sound(cr.status, launched', remote')
      BY <2>1, <2>3, StillSound
    <3> QED
      BY <1>1, <2>1, <2>3, <3>1, <3>2, <3>3 DEF PassSound
  <2> QED
    BY <1>5, <2>1, <2>2, <2>3 DEF CreateFixJob
<1> QED
  BY <1>4, <1>5

(* The patch. *)
LEMMA PatchSound ==
    ASSUME LifeInv, PatchStatus
    PROVE  /\ cr'.status = new
           /\ (Sound(cr.status, launched, remote) /\ PassSound)'
<1> USE DEF LifeInv
<1>1. /\ cr \in Resource /\ cr.status \in Status /\ new \in Status
      /\ orig.status = cr.status /\ Sound(new, launched, remote)
  BY DEF PatchStatus, GateInv, TypeInv, TypeOK, Resource, PassSound
<1>2. cr'.status = new
  BY <1>1, PatchStores DEF PatchStatus, Resource
<1>3. UNCHANGED <<launched, remote>> /\ pc' = "idle"
  BY DEF PatchStatus, PassEnds, historyVars
<1> QED
  BY <1>1, <1>2, <1>3 DEF PassSound

(* Everything else happens next to the pass, or ends it. *)
LEMMA WorldSound ==
    ASSUME LifeInv, Kept,
           \/ ReturnError \/ Crash \/ SyncCR \/ SyncJobs
           \/ SetApproved \/ SetMaxFixAttempts
           \/ TriagePodEnds \/ TriageJobExpires
           \/ \E k \in Attempts : FixPodEnds(k) \/ FixJobExpires(k)
           \/ UNCHANGED vars
    PROVE  /\ cr'.status = cr.status /\ UNCHANGED launched
           /\ (Sound(cr.status, launched, remote) /\ PassSound)'
<1> USE DEF LifeInv
<1>1. cr'.status = cr.status
  BY DEF ReturnError, Crash, SyncCR, SyncJobs, SetApproved, SetMaxFixAttempts,
         TriagePodEnds, TriagePodSucceeds, TriagePodFails, TriageJobExpires,
         FixPodEnds, FixPodSucceeds, FixPodFails, FixJobGetsNoPod, FixJobExpires,
         vars, GateInv, TypeInv, TypeOK, Resource
<1>2. pc' = "idle" \/ UNCHANGED <<pc, orig, new>>
  BY DEF ReturnError, Crash, SyncCR, SyncJobs, SetApproved, SetMaxFixAttempts,
         TriagePodEnds, TriagePodSucceeds, TriagePodFails, TriageJobExpires,
         FixPodEnds, FixPodSucceeds, FixPodFails, FixJobGetsNoPod, FixJobExpires,
         vars, passVars, PassEnds
<1>3. UNCHANGED launched
  BY DEF ReturnError, Crash, SyncCR, SyncJobs, SetApproved, SetMaxFixAttempts,
         TriagePodEnds, TriagePodSucceeds, TriagePodFails, TriageJobExpires,
         FixPodEnds, FixPodSucceeds, FixPodFails, FixJobGetsNoPod, FixJobExpires,
         vars, historyVars
<1>4. Sound(cr'.status, launched', remote')
  BY <1>1, StillSound DEF Kept
<1>5. pc # "idle" => Sound(new, launched', remote')
  BY StillSound DEF Kept, PassSound
<1>6. pc = "patch" => Goes(cr.status, new, everApproved', launched')
  BY DEF Kept, PassSound, Goes
<1> QED
  BY <1>1, <1>2, <1>3, <1>4, <1>5, <1>6 DEF PassSound

-----------------------------------------------------------------------------
(* At first the status is empty. *)
LEMMA InitLifeInv == Init => LifeInv
<1> SUFFICES ASSUME Init PROVE LifeInv
  OBVIOUS
<1>1. GateInv
  BY InitGateInv
<1>2. Fresh /\ JobsLaunched /\ ReportsReal /\ PassSound
  BY DEF Init, Fresh, JobsLaunched, ReportsReal, PassSound, NoJob
<1>3. cr.status = EmptyStatus
  BY DEF Init
<1>4. Sound(EmptyStatus, launched, remote)
  BY DEF Sound, VerdictAgrees, ConditionsAgree, JobNamed, RunBehind, PRReal,
         EmptyStatus, ConditionType, NoName, CurrentAttempt
<1> QED
  BY <1>1, <1>2, <1>3, <1>4 DEF LifeInv

(* Every step keeps it so. *)
LEMMA LifeStep ==
    ASSUME LifeInv, [Next]_vars, "lag" \notin Faults
    PROVE  LifeInv'
<1>1. GateInv' /\ Kept
  BY GateStep, NextKeeps DEF LifeInv
<1>2. Fresh' /\ JobsLaunched' /\ ReportsReal'
  BY KeepsFresh, KeepsJobsReal DEF LifeInv
<1>3. (Sound(cr.status, launched, remote) /\ PassSound)'
  BY <1>1, BeginSound, TriagePassSound, FixPassSound, PatchSound, WorldSound
     DEF Next, PassProgress
<1> QED
  BY <1>1, <1>2, <1>3 DEF LifeInv

(* Whatever crashes, fails, expires or is edited, the status is sound. *)
THEOREM LifeInvariant ==
    ASSUME "lag" \notin Faults
    PROVE  Spec => []LifeInv
<1>1. LifeInv /\ [Next]_vars => LifeInv'
  BY LifeStep
<1> QED
  BY <1>1, InitLifeInv, PTL DEF Spec

(* The verdict stored agrees with the phase reconcileTriage and its
   successors have set. *)
THEOREM VerdictBehindPhaseHolds ==
    ASSUME "lag" \notin Faults
    PROVE  Spec => []VerdictBehindPhase
<1>1. LifeInv => VerdictBehindPhase
  BY DEF LifeInv, Sound, VerdictAgrees, VerdictBehindPhase, phase
<1> QED
  BY <1>1, LifeInvariant, PTL

(* The phase Executing means that reconcileFix has launched the Job. *)
THEOREM ExecutingIsLaunchedHolds ==
    ASSUME "lag" \notin Faults
    PROVE  Spec => []ExecutingIsLaunched
<1>1. LifeInv => ExecutingIsLaunched
  BY DEF LifeInv, Sound, RunBehind, ExecutingIsLaunched, phase
<1> QED
  BY <1>1, LifeInvariant, PTL

(* The conditions the handlers set announce the phase they set with them. *)
THEOREM ConditionsMatchPhaseHolds ==
    ASSUME "lag" \notin Faults
    PROVE  Spec => []ConditionsMatchPhase
<1>1. LifeInv => ConditionsMatchPhase
  BY DEF LifeInv, Sound, ConditionsAgree, ConditionsMatchPhase, phase
<1> QED
  BY <1>1, LifeInvariant, PTL

(* PROpen is set for a pull request that the Job of that attempt opened. *)
THEOREM PROpenIsRealHolds ==
    ASSUME "lag" \notin Faults
    PROVE  Spec => []PROpenIsReal
<1>1. LifeInv => PROpenIsReal
  BY DEF LifeInv, Sound, PRReal, PROpenIsReal, phase
<1> QED
  BY <1>1, LifeInvariant, PTL

(* The guard of reconcileFix after the TTL: no fix Job is created again whose
   name the stored status carries. *)
THEOREM RecordedJobNotRecreatedHolds ==
    ASSUME "lag" \notin Faults
    PROVE  Spec => RecordedJobNotRecreated
<1> DEFINE Step == \A k \in Attempts :
                       FixJobLaunch(k) => cr.status.jobName # FixJobName(k)
<1>1. ASSUME LifeInv, [Next]_vars
      PROVE  Step
  <2> SUFFICES ASSUME NEW k \in Attempts, FixJobLaunch(k)
               PROVE  cr.status.jobName # k
    BY DEF FixJobName
  <2>1. pc = "createFixJob" /\ k = CurrentAttempt(new)
    <3>1. Created(k)
      BY <1>1, FixJobSteps DEF LifeInv, FixJobLaunch, EndsNow, Expired, NoJob
    <3> QED
      BY <3>1 DEF Created
  <2>2. /\ MayCreateFixJob(new) /\ JobNamed(new)
        /\ new = WithPhaseDefaulted(cr.status)
    BY <1>1, <2>1 DEF LifeInv, PassSound, Sound
  <2>3. new.jobName = cr.status.jobName
    <3>1. cr.status \in Status /\ Sound(cr.status, launched, remote)
      BY <1>1 DEF LifeInv, GateInv, TypeInv, TypeOK, Resource
    <3> QED
      BY <2>2, <3>1, DefaultedSound
  <2>4. k \in Nat /\ 1 <= k
    BY AttemptCapAssumption DEF Attempts
  <2>5. new.jobName < k \/ new.jobName = 0
    BY <2>1, <2>2 DEF MayCreateFixJob, JobNamed, NoName
  <2>6. new.jobName \in Nat
    <3>1. new.jobName \in 0..AttemptCap
      BY <1>1 DEF LifeInv, GateInv, TypeInv, TypeOK, Status
    <3> QED
      BY <3>1, AttemptCapAssumption
  <2> QED
    BY <2>3, <2>4, <2>5, <2>6
<1>2. LifeInv /\ [Next]_vars => [Step]_vars
  BY <1>1
<1> QED
  BY <1>2, LifeInvariant, PTL DEF Spec, RecordedJobNotRecreated

-----------------------------------------------------------------------------
(***************************************************************************)
(* The refinement of IssueLifecycle.                                       *)
(***************************************************************************)

(* A created resource is an issue in Triage. *)
LEMMA LifecycleInit == Init => Issue!Init
<1> SUFFICES ASSUME Init PROVE Issue!Init
  OBVIOUS
<1>1. cr.status = EmptyStatus /\ everApproved \in BOOLEAN /\ launched = {}
  BY InitTypeInv DEF Init, TypeInv, TypeOK
<1>2. WithPhaseDefaulted(EmptyStatus).phase = "Triage" /\ CurrentAttempt(EmptyStatus) = 1
  BY DEF WithPhaseDefaulted, EmptyStatus, CurrentAttempt
<1> QED
  BY <1>1, <1>2 DEF Issue!Init

(* Every step of the operator is a step of the lifecycle, or none. *)
LEMMA LifecycleSteps ==
    ASSUME LifeInv, LifeInv', [Next]_vars
    PROVE  [Issue!Next]_(Issue!lifecycleVars)
<1> USE DEF LifeInv, Issue!lifecycleVars
<1> DEFINE p == WithPhaseDefaulted(cr.status).phase
           k == CurrentAttempt(cr.status)
<1>0. TypeOK /\ everApproved \in BOOLEAN
  BY DEF GateInv, TypeInv, TypeOK
<1>1. CASE PatchStatus
  <2>1. cr'.status = new /\ Goes(cr.status, new, everApproved, launched)
    BY <1>1, PatchSound DEF PatchStatus, PassSound
  <2>2. UNCHANGED <<everApproved, launched>>
    BY <1>1 DEF PatchStatus, historyVars
  <2>3. p # "" /\ cr.status \in Status
    BY <1>0, DefaultedSound DEF TypeOK, Resource
  <2>4. new.phase # ""
    BY <2>1, <2>3 DEF Goes
  <2>5. /\ WithPhaseDefaulted(cr'.status).phase = new.phase
        /\ CurrentAttempt(cr'.status) = CurrentAttempt(new)
    BY <2>1, <2>4 DEF WithPhaseDefaulted
  <2>6. \/ new.phase = p /\ CurrentAttempt(new) = k
        \/ /\ p = "Triage" /\ new.phase \in {"PendingValidation", "Rejected", "Failed"}
           /\ CurrentAttempt(new) = k
        \/ /\ p = "PendingValidation" /\ everApproved /\ new.phase = "Ready"
           /\ CurrentAttempt(new) = k
        \/ /\ p \in {"Ready", "Executing"} /\ k \in launched
           /\ new.phase \in {"Executing", "PROpen", "Failed"}
           /\ CurrentAttempt(new) = k
        \/ /\ p \in {"Ready", "Executing"} /\ k \in launched /\ k < AttemptCap
           /\ new.phase = "Ready" /\ CurrentAttempt(new) = k + 1
    BY <2>1 DEF Goes
  <2> HIDE DEF p, k
  <2>7. /\ p = WithPhaseDefaulted(cr.status).phase
        /\ k = CurrentAttempt(cr.status)
    BY DEF p, k
  <2> QED
    BY <2>2, <2>5, <2>6, <2>7
       DEF Issue!Next, Issue!Advance, Issue!EndTriage, Issue!Admit, Issue!Launched,
           Issue!Track, Issue!Retry, Issue!Finish
<1>2. CASE CreateFixJob
  <2>1. UNCHANGED <<cr, everApproved>>
    BY <1>2 DEF CreateFixJob
  <2>2. /\ new = WithPhaseDefaulted(cr.status) /\ cr.status \in Status
        /\ new.phase \in {"Ready", "Executing"}
        /\ Sound(new, launched, remote)
    BY <1>0, <1>2 DEF CreateFixJob, PassSound, TypeOK, Resource, GateInv, PassOnTrack
  <2>3. k = CurrentAttempt(new)
    BY <2>2, DefaultedSound
  <2>4. launched' = launched \/ launched' = launched \cup {k}
    BY <1>2, <2>3 DEF CreateFixJob
  <2>5. p = "Ready" \/ k \in launched
    BY <2>2, <2>3 DEF Sound, RunBehind
  <2>6. k \in launched => launched \cup {k} = launched
    OBVIOUS
  <2> QED
    BY <2>1, <2>4, <2>5, <2>6 DEF Issue!Next, Issue!Advance, Issue!Launch
<1>3. CASE SetApproved
  <2>1. cr'.status = cr.status /\ UNCHANGED launched
    BY <1>3, WorldSound, NextKeeps
  <2>2. everApproved' \in BOOLEAN /\ (everApproved => everApproved')
    BY <1>3, NextKeeps DEF Kept, GateInv, TypeInv, TypeOK
  <2>3. CASE everApproved' = everApproved
    BY <2>1, <2>3
  <2>4. CASE ~everApproved /\ everApproved' = TRUE
    BY <2>1, <2>4 DEF Issue!Next, Issue!Approve
  <2> QED
    BY <1>0, <2>2, <2>3, <2>4
<1>4. CASE ~PatchStatus /\ ~CreateFixJob /\ ~SetApproved
  <2>1. cr'.status = cr.status /\ UNCHANGED <<launched, everApproved>>
    BY <1>0, <1>4
       DEF Next, PassProgress, BeginPass, GetTriageJob, CreateTriageJob, GetFixJob,
           ReturnError, Crash, SyncCR, SyncJobs, SetMaxFixAttempts,
           TriagePodEnds, TriagePodSucceeds, TriagePodFails, TriageJobExpires,
           FixPodEnds, FixPodSucceeds, FixPodFails, FixJobGetsNoPod, FixJobExpires,
           vars, historyVars, TypeOK, Resource
  <2> QED
    BY <2>1
<1> QED
  BY <1>1, <1>2, <1>3, <1>4

(* Operator is an implementation of IssueLifecycle. *)
THEOREM FollowsLifecycleHolds ==
    ASSUME "lag" \notin Faults
    PROVE  Spec => FollowsLifecycle
BY LifecycleInit, LifecycleSteps, LifeInvariant, PTL
   DEF Spec, FollowsLifecycle, Issue!Lifecycle

-----------------------------------------------------------------------------
(***************************************************************************)
(* What is left of this where caches lag, without an outage and without    *)
(* lost pods.  The stored status is then ahead of the one a pass has read, *)
(* and a merge patch mixes the two; but it is one stage ahead at most, for *)
(* passes come one after the other, and a result once seen is seen by      *)
(* every later pass.  So two passes that decide on the same Job decide     *)
(* alike, unless the spec they go by has been edited in between.           *)
(***************************************************************************)
NoEdit == "edit" \notin Faults

Triaging == {"", "Triage"}

Awaits(st) == st.conditions["AwaitingApproval"]

(* The conditions as the phase says, Failed but for edits; and the one for
   the approval tells a phase behind the barrier from one before it. *)
Announced(st) ==
    /\ st.conditions["PROpen"] = "True" <=> st.phase = "PROpen"
    /\ Awaits(st) = "True" <=> st.phase = "PendingValidation"
    /\ NoEdit => (st.conditions["Failed"] = "True" <=> st.phase = "Failed")
    /\ st.phase \in Triaging => /\ Awaits(st) = "Unset"
                                /\ st.conditions["Triaged"] # "True"
                                /\ st.conditions["Failed"] # "True"
    /\ st.phase \in {"Ready", "Executing", "PROpen"} => Awaits(st) = "False"
    /\ st.phase = "Rejected" => Awaits(st) = "Unset"
    /\ st.phase # "Done"

(***************************************************************************)
(* The stages: triage, the barrier, and each attempt.  The status stored   *)
(* is at the stage of the one that was read, or at the next.               *)
(***************************************************************************)
Level(st) ==
    IF st.phase \in Triaging THEN 0
    ELSE IF Awaits(st) = "False" THEN 1 + CurrentAttempt(st) ELSE 1

Follows(a, b) ==
    /\ Level(a) <= Level(b) /\ Level(b) <= Level(a) + 1
    /\ a.attempt <= b.attempt
    /\ a.jobName <= b.jobName /\ b.jobName <= CurrentAttempt(a)
    /\ a.pr \in {NoPR, b.pr}
    /\ NoEdit /\ CurrentAttempt(b) > CurrentAttempt(a) =>
           b.phase \in {"Ready", "Executing"}

(***************************************************************************)
(* What the cache has seen, or has no use for any more.                    *)
(***************************************************************************)
TriageBehind ==
    /\ seenCR.status.phase \notin Triaging
    /\ pc # "idle" => orig.status.phase \notin Triaging

TriageSeen ==
    seenTriageJob.state = "complete" \/ seenTriageJob.failedPods > 0 \/ TriageBehind

AcceptedSeen ==
    (seenTriageJob.state = "complete" /\ Acceptable(verdict)) \/ TriageBehind

FailureSeen(k) ==
    \/ seenFixJob[k].state = "complete" /\ report[k] = NoPR
    \/ seenFixJob[k].state = "failed" /\ seenFixJob[k].failedPods > 0
    \/ Gone(k)

PRSeen(k) == (seenFixJob[k].state = "complete" /\ report[k] = k) \/ Gone(k)

(* What a status says, the cache has seen. *)
Earned(st) ==
    /\ Announced(st)
    /\ st.phase \notin Triaging => TriageSeen
    /\ Awaits(st) # "Unset" => AcceptedSeen
    /\ Level(st) < 2 => st.attempt = 0 /\ st.jobName = NoName /\ st.pr = NoPR
    /\ st.jobName <= CurrentAttempt(st)
    /\ \A j \in Attempts : j < CurrentAttempt(st) =>
           FailureSeen(j) /\ (NoEdit => j < cr.spec.maxFixAttempts)
    /\ NoEdit /\ st.phase = "Failed" /\ Awaits(st) = "False" =>
           /\ FailureSeen(CurrentAttempt(st))
           /\ CurrentAttempt(st) >= cr.spec.maxFixAttempts
    /\ st.phase = "PROpen" => st.pr # NoPR
    /\ st.pr # NoPR => /\ st.pr \in Attempts /\ st.attempt = st.pr /\ st.jobName = st.pr
                       /\ PRSeen(st.pr) /\ remote[st.pr] = "pr"

(* A status that a patch may store. *)
Fits(st) == Earned(st) /\ Follows(cr.status, st) /\ Follows(seenCR.status, st)

Patching(after) == MergePatch(cr.status, orig.status, after)

JobsSeen ==
    /\ triageJob.state = "absent" => triageJob = NoJob
    /\ seenTriageJob.state = "complete" => triageJob.state = "complete" \/ TriageBehind
    /\ seenTriageJob.failedPods > 0 => triageJob.failedPods > 0 \/ TriageBehind
    /\ \A k \in Attempts : seenFixJob[k].state \in {"complete", "failed"} =>
           fixJob[k] \in {seenFixJob[k], NoJob}

SameCap ==
    NoEdit => /\ seenCR.spec.maxFixAttempts = cr.spec.maxFixAttempts
              /\ pc # "idle" => orig.spec.maxFixAttempts = cr.spec.maxFixAttempts

PassLags ==
    pc # "idle" =>
        /\ Earned(orig.status)
        /\ Follows(orig.status, seenCR.status) /\ Follows(orig.status, cr.status)
        /\ pc # "patch" => new = WithPhaseDefaulted(orig.status)
        /\ pc = "patch" => Fits(Patching(new))

LagInv ==
    /\ OrderInv
    /\ ReportsReal /\ JobsSeen /\ SameCap
    /\ Earned(cr.status) /\ Earned(seenCR.status) /\ Follows(seenCR.status, cr.status)
    /\ PassLags

-----------------------------------------------------------------------------
(* What a merge patch stores, field by field. *)
LEMMA MergeIs ==
    ASSUME NEW a \in Status, NEW o \in Status, NEW w \in Status
    PROVE  LET n == MergePatch(a, o, w)
           IN  /\ n \in Status
               /\ n.phase = IF w.phase # o.phase THEN w.phase ELSE a.phase
               /\ n.attempt = IF w.attempt # o.attempt THEN w.attempt ELSE a.attempt
               /\ n.jobName = IF w.jobName # o.jobName THEN w.jobName ELSE a.jobName
               /\ n.pr = IF w.pr # o.pr THEN w.pr ELSE a.pr
               /\ n.conditions = IF w.conditions # o.conditions
                                 THEN w.conditions ELSE a.conditions
BY MergePatchType DEF MergePatch, Patched

(* What the patch of the pass under way stores. *)
LEMMA PatchingIs ==
    ASSUME TypeOK, NEW w \in Status
    PROVE  LET a == cr.status
               o == orig.status
               n == Patching(w)
           IN  /\ n \in Status /\ a \in Status /\ o \in Status
               /\ n.phase = IF w.phase # o.phase THEN w.phase ELSE a.phase
               /\ n.attempt = IF w.attempt # o.attempt THEN w.attempt ELSE a.attempt
               /\ n.jobName = IF w.jobName # o.jobName THEN w.jobName ELSE a.jobName
               /\ n.pr = IF w.pr # o.pr THEN w.pr ELSE a.pr
               /\ n.conditions = IF w.conditions # o.conditions
                                 THEN w.conditions ELSE a.conditions
BY MergeIs DEF Patching, TypeOK, Resource

(* The stage of a status. *)
LEMMA LevelIs ==
    ASSUME NEW st \in Status
    PROVE  /\ Level(st) \in Nat /\ CurrentAttempt(st) \in Attempts
           /\ st.phase \in Triaging <=> Level(st) = 0
           /\ st.phase \notin Triaging /\ Awaits(st) = "False" =>
                  Level(st) = 1 + CurrentAttempt(st)
           /\ st.phase \notin Triaging /\ Awaits(st) # "False" => Level(st) = 1
           /\ st.attempt \in Nat /\ st.jobName \in Nat /\ st.pr \in Nat
           /\ st.attempt <= CurrentAttempt(st)
           /\ st.attempt = 0 => CurrentAttempt(st) = 1
           /\ st.attempt # 0 => CurrentAttempt(st) = st.attempt
<1>1. CurrentAttempt(st) \in Attempts
  BY CurrentAttemptType
<1>2. st.attempt \in 0..AttemptCap /\ st.jobName \in 0..AttemptCap /\ st.pr \in 0..AttemptCap
  BY DEF Status
<1> QED
  BY <1>1, <1>2, AttemptCapAssumption DEF Level, CurrentAttempt, Attempts

(* What is stored follows itself, and fits. *)
LEMMA NothingWritten == ASSUME LagInv PROVE Fits(cr.status)
<1>1. cr.status \in Status
  BY DEF LagInv, OrderInv, GateInv, TypeInv, TypeOK, Resource
<1>2. Earned(cr.status) /\ Follows(seenCR.status, cr.status)
  BY DEF LagInv
<1>3. cr.status.jobName <= CurrentAttempt(cr.status)
  BY <1>2 DEF Earned
<1>4. Follows(cr.status, cr.status)
  BY <1>1, <1>3, LevelIs, AttemptCapAssumption DEF Follows, Attempts
<1> QED
  BY <1>2, <1>4 DEF Fits

-----------------------------------------------------------------------------
(* A status of triage fits on one that is no further. *)
LEMMA EarlyFits ==
    ASSUME LagInv, NEW n \in Status, Announced(n),
           Level(n) < 2, Level(cr.status) <= Level(n),
           n.attempt = 0, n.jobName = NoName, n.pr = NoPR,
           n.phase \notin Triaging => TriageSeen,
           Awaits(n) # "Unset" => AcceptedSeen
    PROVE  Fits(n)
<1> DEFINE a == cr.status
           e == seenCR.status
<1>1. a \in Status /\ e \in Status
  BY DEF LagInv, OrderInv, GateInv, TypeInv, TypeOK, Resource
<1>2. Earned(a) /\ Earned(e) /\ Follows(e, a)
  BY DEF LagInv
<1>3. Level(a) < 2 /\ Level(e) < 2 /\ Level(e) <= Level(n)
  BY <1>1, <1>2, LevelIs DEF Follows
<1>4. /\ a.attempt = 0 /\ a.jobName = 0 /\ a.pr = 0
      /\ e.attempt = 0 /\ e.jobName = 0 /\ e.pr = 0
  BY <1>2, <1>3 DEF Earned, NoName, NoPR
<1>5. CurrentAttempt(a) = 1 /\ CurrentAttempt(e) = 1 /\ CurrentAttempt(n) = 1
  BY <1>1, <1>4, LevelIs
<1>6. Follows(a, n) /\ Follows(e, n)
  BY <1>1, <1>3, <1>4, <1>5, LevelIs DEF Follows, NoName, NoPR
<1>7. n.phase # "PROpen" /\ ~(n.phase = "Failed" /\ Awaits(n) = "False")
  <2>1. n.phase \notin Triaging => Awaits(n) # "False"
    BY <1>5, LevelIs
  <2> QED
    BY <2>1 DEF Announced, Triaging
<1>8. Earned(n)
  <2>1. \A j \in Attempts : ~(j < CurrentAttempt(n))
    BY <1>5 DEF Attempts
  <2> QED
    BY <1>5, <1>7, <2>1 DEF Earned, NoName, NoPR
<1> QED
  BY <1>6, <1>8 DEF Fits

(* Where a pass in triage stands. *)
LEMMA InTriage ==
    ASSUME LagInv, pc # "idle", orig.status.phase \in Triaging
    PROVE  /\ Level(cr.status) < 2 /\ ~TriageBehind
           /\ cr.status.attempt = 0 /\ cr.status.jobName = NoName /\ cr.status.pr = NoPR
           /\ orig.status.attempt = 0 /\ orig.status.jobName = NoName
           /\ orig.status.pr = NoPR
           /\ Announced(cr.status) /\ Announced(orig.status)
<1>1. cr.status \in Status /\ orig.status \in Status
  BY DEF LagInv, OrderInv, GateInv, TypeInv, TypeOK, Resource
<1>2. Earned(cr.status) /\ Earned(orig.status) /\ Follows(orig.status, cr.status)
  BY DEF LagInv, PassLags
<1>3. Level(orig.status) = 0 /\ Level(cr.status) < 2
  BY <1>1, <1>2, LevelIs DEF Follows
<1> QED
  BY <1>2, <1>3 DEF Earned, TriageBehind

(* A pass that waits for triage, or begins it. *)
LEMMA WaitingFits ==
    ASSUME LagInv, pc # "idle", orig.status.phase \in Triaging, ~TriageSeen,
           NEW w \in Status, w.phase = "Triage",
           w.attempt = 0, w.jobName = NoName, w.pr = NoPR,
           w.conditions \in {orig.status.conditions,
                             [orig.status.conditions EXCEPT !["Triaged"] = "False"]}
    PROVE  Fits(Patching(w))
<1> DEFINE a == cr.status
           o == orig.status
           n == Patching(w)
<1>1. TypeOK
  BY DEF LagInv, OrderInv, GateInv, TypeInv
<1>2. /\ n \in Status /\ a \in Status /\ o \in Status
      /\ n.phase \in {w.phase, a.phase}
      /\ n.attempt \in {w.attempt, a.attempt}
      /\ n.jobName \in {w.jobName, a.jobName} /\ n.pr \in {w.pr, a.pr}
      /\ n.conditions \in {w.conditions, a.conditions}
  BY <1>1, PatchingIs
<1>3. a.phase \in Triaging
  BY DEF LagInv, Earned
<1>4. n.phase \in Triaging
  BY <1>2, <1>3 DEF Triaging
<1>5. Announced(a) /\ Announced(o)
  BY InTriage
<1>6. /\ w.conditions["PROpen"] = o.conditions["PROpen"]
      /\ w.conditions["AwaitingApproval"] = o.conditions["AwaitingApproval"]
      /\ w.conditions["Failed"] = o.conditions["Failed"]
      /\ w.conditions["Triaged"] \in {o.conditions["Triaged"], "False"}
  BY <1>2 DEF Status, ConditionType
<1>7. Announced(n)
  <2>1. ASSUME NEW c \in {a.conditions, o.conditions}
        PROVE  /\ c["PROpen"] # "True" /\ c["AwaitingApproval"] = "Unset"
               /\ c["Triaged"] # "True" /\ c["Failed"] # "True"
    BY <1>3, <1>5 DEF Announced, Awaits, Triaging
  <2>2. /\ n.conditions["PROpen"] # "True" /\ n.conditions["AwaitingApproval"] = "Unset"
        /\ n.conditions["Triaged"] # "True" /\ n.conditions["Failed"] # "True"
    BY <1>2, <1>6, <2>1
  <2> HIDE DEF n
  <2> QED
    BY <1>4, <2>2 DEF Announced, Awaits, Triaging
<1>8. Level(n) = 0 /\ Level(a) = 0
  BY <1>3, <1>4 DEF Level
<1>9. Awaits(n) = "Unset"
  BY <1>4, <1>7 DEF Announced
<1>10. n.attempt = 0 /\ n.jobName = NoName /\ n.pr = NoPR
  BY <1>2, InTriage
<1> QED
  BY <1>2, <1>4, <1>7, <1>8, <1>9, <1>10, EarlyFits

(* A pass that decides on the triage Job. *)
LEMMA DecidedFits ==
    ASSUME LagInv, pc # "idle", orig.status.phase \in Triaging, TriageSeen,
           NEW w \in Status, w.attempt = 0, w.jobName = NoName, w.pr = NoPR,
           \/ /\ w.phase = "Failed"
              /\ w.conditions = [orig.status.conditions EXCEPT !["Failed"] = "True"]
           \/ /\ w.phase = "Rejected"
              /\ w.conditions = [orig.status.conditions EXCEPT !["Triaged"] = "True"]
           \/ /\ w.phase = "PendingValidation" /\ AcceptedSeen
              /\ w.conditions = [orig.status.conditions EXCEPT !["Triaged"] = "True",
                                                       !["AwaitingApproval"] = "True"]
    PROVE  Fits(Patching(w))
<1> DEFINE a == cr.status
           o == orig.status
           n == Patching(w)
<1>1. TypeOK
  BY DEF LagInv, OrderInv, GateInv, TypeInv
<1>2. /\ n \in Status /\ a \in Status /\ o \in Status
      /\ n.phase = IF w.phase # o.phase THEN w.phase ELSE a.phase
      /\ n.attempt \in {w.attempt, a.attempt}
      /\ n.jobName \in {w.jobName, a.jobName} /\ n.pr \in {w.pr, a.pr}
      /\ n.conditions = IF w.conditions # o.conditions THEN w.conditions ELSE a.conditions
  BY <1>1, PatchingIs
<1>3. /\ o.conditions["PROpen"] # "True" /\ o.conditions["AwaitingApproval"] = "Unset"
      /\ o.conditions["Triaged"] # "True" /\ o.conditions["Failed"] # "True"
  BY InTriage DEF Announced, Awaits, Triaging
<1>4. /\ w.conditions["PROpen"] # "True"
      /\ w.conditions["Failed"] = "True" <=> w.phase = "Failed"
      /\ w.conditions["AwaitingApproval"] =
             IF w.phase = "PendingValidation" THEN "True" ELSE "Unset"
      /\ w.conditions # o.conditions
  BY <1>2, <1>3 DEF Status, ConditionType
<1>5. n.phase = w.phase /\ n.conditions = w.conditions
  BY <1>2, <1>4 DEF Triaging
<1>6. n.attempt = 0 /\ n.jobName = NoName /\ n.pr = NoPR
  BY <1>2, InTriage
<1>7. Level(a) \in Nat /\ Level(a) < 2
  BY <1>2, InTriage, LevelIs
<1> HIDE DEF n, a
<1>8. Announced(n) /\ Level(n) = 1
  BY <1>4, <1>5 DEF Announced, Awaits, Triaging, Level
<1>9. Awaits(n) # "Unset" => AcceptedSeen
  BY <1>4, <1>5 DEF Awaits
<1>10. Level(a) <= Level(n) /\ Level(n) < 2
  BY <1>7, <1>8
<1> QED
  BY <1>2, <1>6, <1>8, <1>9, <1>10, EarlyFits DEF n, a

(* What reconcileTriage makes of the Job it finds. *)
LEMMA AfterTriageIs ==
    ASSUME NEW st \in Status, st.phase = "Triage", NEW job \in Job, NEW v \in Verdict
    PROVE  LET w == AfterTriageJob(st, job, v)
           IN  /\ w \in Status
               /\ w.attempt = st.attempt /\ w.jobName = st.jobName /\ w.pr = st.pr
               /\ \/ w = st /\ job.state # "complete" /\ job.failedPods = 0
                  \/ /\ job.state = "complete" \/ job.failedPods > 0
                     /\ w.phase = "Failed"
                     /\ w.conditions = [st.conditions EXCEPT !["Failed"] = "True"]
                  \/ /\ job.state = "complete" /\ w.phase = "Rejected"
                     /\ w.conditions = [st.conditions EXCEPT !["Triaged"] = "True"]
                  \/ /\ job.state = "complete" /\ Acceptable(v)
                     /\ w.phase = "PendingValidation"
                     /\ w.conditions = [st.conditions EXCEPT !["Triaged"] = "True",
                                                             !["AwaitingApproval"] = "True"]
<1> DEFINE w == AfterTriageJob(st, job, v)
           f == WithCondition([st EXCEPT !.phase = "Failed"], "Failed", "True")
           u == TriageUnreadable(st)
           d == TriageJudged(st, v)
<1>0. w \in Status
  BY AfterTriageJobType
<1>1. /\ f.attempt = st.attempt /\ f.jobName = st.jobName /\ f.pr = st.pr
      /\ f.phase = "Failed" /\ f.conditions = [st.conditions EXCEPT !["Failed"] = "True"]
  BY DEF WithCondition, Status
<1>2. /\ u.attempt = st.attempt /\ u.jobName = st.jobName /\ u.pr = st.pr
      /\ u.phase = "Failed" /\ u.conditions = [st.conditions EXCEPT !["Failed"] = "True"]
  BY DEF TriageUnreadable, WithCondition, Status
<1>3. CASE v.suspicious \/ ~v.inScope
  <2>1. /\ d.attempt = st.attempt /\ d.jobName = st.jobName /\ d.pr = st.pr
        /\ d.phase = "Rejected"
        /\ d.conditions = [st.conditions EXCEPT !["Triaged"] = "True"]
    BY <1>3 DEF TriageJudged, WithCondition, Status
  <2> HIDE DEF d, u, f
  <2>2. CASE job.state = "complete"
    BY <1>0, <1>2, <2>1, <2>2 DEF AfterTriageJob, d, u, f, Verdict
  <2>3. CASE job.state # "complete"
    BY <1>0, <1>1, <2>3 DEF AfterTriageJob, d, u, f, Job
  <2> QED
    BY <2>2, <2>3
<1>4. CASE ~(v.suspicious \/ ~v.inScope)
  <2>1. /\ d.attempt = st.attempt /\ d.jobName = st.jobName /\ d.pr = st.pr
        /\ d.phase = "PendingValidation"
        /\ d.conditions = [st.conditions EXCEPT !["Triaged"] = "True",
                                                !["AwaitingApproval"] = "True"]
    BY <1>4 DEF TriageJudged, WithCondition, Status
  <2> HIDE DEF d, u, f
  <2>2. CASE job.state = "complete"
    BY <1>0, <1>2, <1>4, <2>1, <2>2 DEF AfterTriageJob, d, u, f, Verdict, Acceptable
  <2>3. CASE job.state # "complete"
    BY <1>0, <1>1, <2>3 DEF AfterTriageJob, d, u, f, Job
  <2> QED
    BY <2>2, <2>3
<1> QED
  BY <1>3, <1>4

(* reconcilePendingValidation, whose pass looks no Job up. *)
LEMMA ValidationFits ==
    ASSUME LagInv, seenCR.status.phase = "PendingValidation", NEW spec \in ResourceSpec
    PROVE  Fits(MergePatch(cr.status, seenCR.status,
                           AfterValidation(spec, seenCR.status)))
<1> DEFINE a == cr.status
           e == seenCR.status
           w == AfterValidation(spec, e)
           n == MergePatch(a, e, w)
<1>1. a \in Status /\ e \in Status
  BY DEF LagInv, OrderInv, GateInv, TypeInv, TypeOK, Resource
<1>2. CASE ~spec.approved
  <2>1. w = e
    BY <1>2 DEF AfterValidation
  <2>2. n = a
    BY <1>1, <2>1 DEF MergePatch, Patched, Status
  <2> QED
    BY <2>2, NothingWritten
<1>3. CASE spec.approved
  <2>1. /\ w \in Status /\ w.phase = "Ready" /\ w.attempt = e.attempt
        /\ w.jobName = e.jobName /\ w.pr = e.pr
        /\ w.conditions = [e.conditions EXCEPT !["AwaitingApproval"] = "False"]
    BY <1>1, <1>3, AfterValidationType DEF AfterValidation, WithCondition, Status
  <2> HIDE DEF w
  <2>2. /\ n \in Status /\ n.phase = "Ready"
        /\ n.attempt = a.attempt /\ n.jobName = a.jobName /\ n.pr = a.pr
        /\ n.conditions = IF w.conditions # e.conditions THEN w.conditions ELSE a.conditions
    BY <1>1, <2>1, MergeIs
  <2>3. Earned(a) /\ Earned(e) /\ Follows(e, a)
    BY DEF LagInv
  <2>4. /\ e.conditions["AwaitingApproval"] = "True"
        /\ e.conditions["PROpen"] # "True"
        /\ NoEdit => e.conditions["Failed"] # "True"
    BY <2>3 DEF Earned, Announced, Awaits
  <2>5. /\ n.conditions["AwaitingApproval"] = "False"
        /\ n.conditions["PROpen"] # "True"
        /\ NoEdit => n.conditions["Failed"] # "True"
    BY <1>1, <2>1, <2>2, <2>4 DEF Status, ConditionType
  <2>6. TriageSeen /\ AcceptedSeen
    BY <2>3, <2>4 DEF Earned, Awaits, Triaging
  <2>7. Level(e) = 1 /\ Level(a) \in 1..2
    <3>1. Level(e) = 1
      BY <2>4 DEF Level, Awaits, Triaging
    <3> QED
      BY <1>1, <2>3, <3>1, LevelIs DEF Follows
  <2> HIDE DEF n, a, e
  <2>8. CurrentAttempt(a) = 1
    <3>1. CASE Level(a) = 1
      BY <1>1, <2>3, <3>1, LevelIs DEF Earned
    <3>2. CASE Level(a) = 2
      BY <1>1, <3>2, LevelIs DEF Attempts
    <3> QED
      BY <2>7, <3>1, <3>2
  <2>9. CurrentAttempt(n) = 1 /\ Level(n) = 2
    BY <2>2, <2>5, <2>8 DEF CurrentAttempt, Level, Awaits, Triaging
  <2>10. Announced(n)
    BY <2>2, <2>5 DEF Announced, Awaits, Triaging
  <2>11. Earned(n)
    <3>1. \A j \in Attempts : ~(j < CurrentAttempt(n))
      BY <2>9 DEF Attempts
    <3> QED
      BY <2>2, <2>3, <2>6, <2>8, <2>9, <2>10, <3>1 DEF Earned
  <2>12. Follows(a, n)
    <3>1. a.jobName <= CurrentAttempt(a)
      BY <2>3 DEF Earned
    <3> QED
      BY <1>1, <2>2, <2>7, <2>8, <2>9, <3>1, LevelIs DEF Follows
  <2>13. Follows(e, n)
    BY <1>1, <2>2, <2>3, <2>7, <2>8, <2>9, LevelIs DEF Follows
  <2> QED
    BY <2>11, <2>12, <2>13 DEF Fits, n, a, e, w
<1> QED
  BY <1>2, <1>3

-----------------------------------------------------------------------------
(***************************************************************************)
(* A pass at an attempt.                                                   *)
(***************************************************************************)
Attempting == {"Ready", "Executing", "Failed", "PROpen"}

AtAttempt(k) ==
    LET a == cr.status
        o == orig.status
        e == seenCR.status
    IN  /\ k \in Attempts /\ k = CurrentAttempt(o)
        /\ CurrentAttempt(a) \in k..k + 1 /\ CurrentAttempt(e) \in k..CurrentAttempt(a)
        /\ Level(a) = 1 + CurrentAttempt(a) /\ Level(e) = 1 + CurrentAttempt(e)
        /\ o.attempt <= a.attempt /\ e.attempt <= a.attempt
        /\ o.jobName <= a.jobName /\ a.jobName <= k /\ e.jobName <= a.jobName
        /\ o.pr \in {NoPR, a.pr} /\ e.pr \in {NoPR, a.pr}
        /\ Awaits(o) = "False" /\ Awaits(a) = "False"
        /\ o.conditions["PROpen"] # "True" /\ (NoEdit => o.conditions["Failed"] # "True")
        /\ a.phase \in Attempting /\ o.phase \in {"Ready", "Executing"}
        /\ CurrentAttempt(a) = k + 1 /\ NoEdit => a.phase \in {"Ready", "Executing"}
        /\ NoEdit => orig.spec.maxFixAttempts = cr.spec.maxFixAttempts

(* Where such a pass stands. *)
LEMMA InAttempt ==
    ASSUME LagInv, pc # "idle", orig.status.phase \in {"Ready", "Executing"}
    PROVE  /\ AtAttempt(CurrentAttempt(orig.status))
           /\ TriageSeen /\ AcceptedSeen /\ ~Gone(CurrentAttempt(orig.status))
<1> DEFINE a == cr.status
           o == orig.status
           e == seenCR.status
           k == CurrentAttempt(o)
<1>1. a \in Status /\ o \in Status /\ e \in Status
  BY DEF LagInv, OrderInv, GateInv, TypeInv, TypeOK, Resource
<1>2. /\ Earned(a) /\ Earned(o) /\ Earned(e)
      /\ Follows(o, a) /\ Follows(o, e) /\ Follows(e, a)
  BY DEF LagInv, PassLags
<1>3. /\ Awaits(o) = "False" /\ o.conditions["PROpen"] # "True"
      /\ NoEdit => o.conditions["Failed"] # "True"
  BY <1>2 DEF Earned, Announced
<1>4. TriageSeen /\ AcceptedSeen
  BY <1>2, <1>3 DEF Earned, Triaging
<1>5. k \in Attempts /\ Level(o) = 1 + k
  <2>1. o.phase \notin Triaging
    BY DEF Triaging
  <2> QED
    BY <1>1, <1>3, <2>1, LevelIs
<1>6. ASSUME NEW st \in {a, e}
      PROVE  /\ Level(st) = 1 + CurrentAttempt(st) /\ Awaits(st) = "False"
             /\ st.phase \notin Triaging
  <2>1. Follows(o, st) /\ st \in Status
    BY <1>1, <1>2
  <2>2. Level(st) > 1
    BY <1>5, <2>1, LevelIs DEF Follows, Attempts
  <2> QED
    BY <2>1, <2>2, LevelIs
<1>7. a.phase \in Attempting
  BY <1>1, <1>2, <1>6 DEF Earned, Announced, Attempting, Status, Phase, Triaging
<1>8. ~Gone(k)
  <2>1. o \in Copies /\ o.phase \notin StoppedPhases
    BY DEF Copies, StoppedPhases
  <2>2. o.attempt \in Nat /\ o.attempt <= k /\ k \in Nat
    BY <1>1, <1>5, LevelIs DEF Attempts
  <2>3. ~PastIn(Copies, k)
    BY <2>1, <2>2 DEF PastIn
  <2> QED
    BY <1>5, <2>3 DEF LagInv, OrderInv, GoneIsPast
<1>9. NoEdit => orig.spec.maxFixAttempts = cr.spec.maxFixAttempts
  BY DEF LagInv, SameCap
<1>10. /\ CurrentAttempt(a) \in k..k + 1 /\ CurrentAttempt(e) \in k..CurrentAttempt(a)
       /\ Level(a) = 1 + CurrentAttempt(a) /\ Level(e) = 1 + CurrentAttempt(e)
  BY <1>1, <1>2, <1>5, <1>6, LevelIs DEF Follows, Attempts
<1>11. CurrentAttempt(a) = k + 1 /\ NoEdit => a.phase \in {"Ready", "Executing"}
  BY <1>2, <1>5 DEF Follows, Attempts
<1>12. /\ o.attempt <= a.attempt /\ e.attempt <= a.attempt
       /\ o.jobName <= a.jobName /\ a.jobName <= k /\ e.jobName <= a.jobName
       /\ o.pr \in {NoPR, a.pr} /\ e.pr \in {NoPR, a.pr}
  BY <1>2 DEF Follows
<1>13. Awaits(a) = "False"
  BY <1>6
<1> QED
  BY <1>3, <1>4, <1>5, <1>7, <1>8, <1>9, <1>10, <1>11, <1>12, <1>13 DEF AtAttempt

(* What such a pass may store. *)
LEMMA AttemptFits ==
    ASSUME LagInv, NEW k, AtAttempt(k), TriageSeen, AcceptedSeen,
           NEW n \in Status, n.phase \in Attempting, Awaits(n) = "False",
           n.conditions["PROpen"] = "True" <=> n.phase = "PROpen",
           NoEdit => (n.conditions["Failed"] = "True" <=> n.phase = "Failed"),
           cr.status.attempt <= n.attempt,
           CurrentAttempt(cr.status) <= CurrentAttempt(n), CurrentAttempt(n) <= k + 1,
           cr.status.jobName <= n.jobName, n.jobName <= k,
           NoEdit /\ CurrentAttempt(n) = k + 1 => n.phase \in {"Ready", "Executing"},
           \A j \in Attempts : j < CurrentAttempt(n) =>
               FailureSeen(j) /\ (NoEdit => j < cr.spec.maxFixAttempts),
           NoEdit /\ n.phase = "Failed" =>
               FailureSeen(k) /\ k >= cr.spec.maxFixAttempts,
           n.phase = "PROpen" => n.pr # NoPR,
           cr.status.pr \in {NoPR, n.pr},
           n.pr # NoPR => /\ n.pr = k /\ n.attempt = k /\ n.jobName = k
                          /\ PRSeen(k) /\ remote[k] = "pr"
    PROVE  Fits(n)
<1> DEFINE a == cr.status
           e == seenCR.status
           c == CurrentAttempt(n)
<1>1. a \in Status /\ e \in Status
  BY DEF LagInv, OrderInv, GateInv, TypeInv, TypeOK, Resource
<1>2. k \in Attempts /\ k \in Nat /\ c \in Attempts /\ c \in Nat
  BY LevelIs DEF AtAttempt, Attempts
<1>3. Level(n) = 1 + c
  BY LevelIs DEF Attempting, Triaging
<1>4. Announced(n)
  BY DEF Announced, Attempting, Triaging
<1>5. /\ CurrentAttempt(a) \in Nat /\ CurrentAttempt(e) \in Nat
      /\ k <= CurrentAttempt(e) /\ CurrentAttempt(e) <= CurrentAttempt(a)
      /\ Level(a) = 1 + CurrentAttempt(a) /\ Level(e) = 1 + CurrentAttempt(e)
      /\ e.attempt <= a.attempt /\ e.jobName <= a.jobName /\ e.pr \in {NoPR, a.pr}
  BY <1>1, <1>2, LevelIs DEF AtAttempt, Attempts
<1>6. /\ a.attempt \in Nat /\ e.attempt \in Nat /\ n.attempt \in Nat
      /\ a.jobName \in Nat /\ e.jobName \in Nat /\ n.jobName \in Nat
  BY <1>1, LevelIs
<1> HIDE DEF a, e, c
<1>7. Follows(a, n)
  BY <1>2, <1>3, <1>5, <1>6 DEF Follows, a, c
<1>8. Follows(e, n)
  BY <1>2, <1>3, <1>5, <1>6 DEF Follows, a, c
<1>9. /\ Level(n) >= 2 /\ n.jobName <= c
      /\ NoEdit /\ n.phase = "Failed" => c = k
  BY <1>1, <1>2, <1>3, <1>5, <1>6 DEF a, c, Attempts
<1>10. /\ ~(Level(n) < 2)
       /\ NoEdit /\ n.phase = "Failed" => FailureSeen(c) /\ c >= cr.spec.maxFixAttempts
  BY <1>2, <1>3, <1>9
<1>11. n.pr # NoPR => /\ n.pr \in Attempts /\ n.attempt = n.pr /\ n.jobName = n.pr
                      /\ PRSeen(n.pr) /\ remote[n.pr] = "pr"
  BY <1>2
<1>12. Earned(n)
  BY <1>4, <1>9, <1>10, <1>11 DEF Earned, c
<1> QED
  BY <1>7, <1>8, <1>12 DEF Fits, a, e

(* Without a report of the attempt, no pull request is stored. *)
LEMMA Unreported ==
    ASSUME LagInv, NEW k, AtAttempt(k), ~PRSeen(k)
    PROVE  cr.status.pr = NoPR /\ cr.status.phase # "PROpen"
<1> DEFINE a == cr.status
<1>1. a \in Status
  BY DEF LagInv, OrderInv, GateInv, TypeInv, TypeOK, Resource
<1>2. Earned(a)
  BY DEF LagInv
<1>3. k \in Nat /\ k # 0 /\ CurrentAttempt(a) \in k..k + 1 /\ a.jobName <= k
  BY DEF AtAttempt, Attempts
<1>4. ASSUME a.pr # NoPR PROVE FALSE
  <2>1. /\ a.pr \in Attempts /\ a.attempt = a.pr /\ a.jobName = a.pr /\ PRSeen(a.pr)
    BY <1>2, <1>4 DEF Earned
  <2>2. CurrentAttempt(a) = a.pr
    BY <1>1, <2>1, LevelIs DEF Attempts
  <2>3. a.pr = k
    BY <1>3, <2>1, <2>2 DEF Attempts
  <2> QED
    BY <2>1, <2>3
<1> QED
  BY <1>2, <1>4 DEF Earned

(* Without any result of the attempt, the stored status is at it. *)
LEMMA Undecided ==
    ASSUME LagInv, NEW k, AtAttempt(k), ~PRSeen(k), ~FailureSeen(k)
    PROVE  /\ CurrentAttempt(cr.status) = k
           /\ NoEdit => cr.status.phase # "Failed"
           /\ cr.status.pr = NoPR /\ cr.status.phase # "PROpen"
<1> DEFINE a == cr.status
<1>1. Earned(a) /\ Awaits(a) = "False"
  BY DEF LagInv, AtAttempt
<1>2. k \in Attempts /\ CurrentAttempt(a) \in k..k + 1 /\ k \in Nat
  BY DEF AtAttempt, Attempts
<1>3. CurrentAttempt(a) = k
  BY <1>1, <1>2 DEF Earned
<1> QED
  BY <1>1, <1>3, Unreported DEF Earned

(* What the stored status knows of earlier attempts. *)
LEMMA EarlierFailed ==
    ASSUME LagInv, NEW k, AtAttempt(k), NEW j \in Attempts,
           j < CurrentAttempt(cr.status) \/ j < k
    PROVE  FailureSeen(j) /\ (NoEdit => j < cr.spec.maxFixAttempts)
<1>1. Earned(cr.status)
  BY DEF LagInv
<1>2. j < CurrentAttempt(cr.status)
  BY DEF AtAttempt, Attempts
<1> QED
  BY <1>1, <1>2 DEF Earned

(* A Job has been created, or runs. *)
LEMMA ExecutingFits ==
    ASSUME LagInv, pc # "idle", NEW k, AtAttempt(k), TriageSeen, AcceptedSeen,
           ~PRSeen(k), ~FailureSeen(k),
           NEW w \in Status, w.phase = "Executing",
           w.attempt \in {orig.status.attempt, k},
           w.jobName \in {orig.status.jobName, k}, w.pr = orig.status.pr,
           w.conditions \in {orig.status.conditions,
                             [orig.status.conditions EXCEPT !["Executing"] = "True"]}
    PROVE  Fits(Patching(w))
<1> DEFINE a == cr.status
           o == orig.status
           n == Patching(w)
<1>1. TypeOK
  BY DEF LagInv, OrderInv, GateInv, TypeInv
<1>2. /\ n \in Status /\ a \in Status /\ o \in Status
      /\ n.phase \in {"Executing", a.phase}
      /\ n.phase # "Executing" => o.phase = "Executing"
      /\ n.attempt = IF w.attempt # o.attempt THEN w.attempt ELSE a.attempt
      /\ n.jobName = IF w.jobName # o.jobName THEN w.jobName ELSE a.jobName
      /\ n.pr = a.pr
      /\ n.conditions \in {w.conditions, a.conditions}
  BY <1>1, PatchingIs
<1>3. /\ CurrentAttempt(a) = k /\ a.pr = NoPR /\ a.phase # "PROpen"
      /\ NoEdit => a.phase # "Failed"
  BY Undecided
<1>4. /\ k \in Attempts /\ k \in Nat /\ a.phase \in Attempting
      /\ o.attempt <= a.attempt /\ o.jobName <= a.jobName /\ a.jobName <= k
      /\ o.conditions["AwaitingApproval"] = "False" /\ a.conditions["AwaitingApproval"] = "False"
      /\ o.conditions["PROpen"] # "True" /\ (NoEdit => o.conditions["Failed"] # "True")
  BY DEF AtAttempt, Attempts, Awaits
<1>5. a.conditions["PROpen"] # "True" /\ (NoEdit => a.conditions["Failed"] # "True")
  BY <1>3 DEF LagInv, Earned, Announced
<1>6. /\ w.conditions["PROpen"] = o.conditions["PROpen"]
      /\ w.conditions["AwaitingApproval"] = o.conditions["AwaitingApproval"]
      /\ w.conditions["Failed"] = o.conditions["Failed"]
  BY <1>2 DEF Status, ConditionType
<1>7. /\ n.conditions["PROpen"] # "True" /\ (NoEdit => n.conditions["Failed"] # "True")
      /\ n.conditions["AwaitingApproval"] = "False"
  BY <1>2, <1>4, <1>5, <1>6
<1>8. /\ n.phase \in Attempting /\ n.phase # "PROpen"
      /\ NoEdit => n.phase # "Failed"
  BY <1>2, <1>3, <1>4 DEF Attempting
<1>9. a.attempt \in Nat /\ a.attempt <= k /\ a.jobName \in Nat
  BY <1>2, <1>3, LevelIs
<1>10. /\ n.attempt \in {k, a.attempt} /\ n.jobName \in {k, a.jobName}
  BY <1>2
<1>11. CurrentAttempt(n) = k /\ a.attempt <= n.attempt /\ a.jobName <= n.jobName
       /\ n.jobName <= k
  <2>1. CASE n.attempt = k
    BY <1>4, <1>9, <1>10, <2>1 DEF CurrentAttempt, Attempts
  <2>2. CASE n.attempt = a.attempt
    <3>1. CurrentAttempt(n) = CurrentAttempt(a)
      BY <2>2 DEF CurrentAttempt
    <3> QED
      BY <1>3, <1>4, <1>9, <1>10, <2>2, <3>1
  <2> QED
    BY <1>10, <2>1, <2>2
<1>12. \A j \in Attempts : j < k =>
           FailureSeen(j) /\ (NoEdit => j < cr.spec.maxFixAttempts)
  BY EarlierFailed
<1> HIDE DEF n
<1>13. /\ n.pr = NoPR /\ CurrentAttempt(n) <= k + 1 /\ CurrentAttempt(n) # k + 1
       /\ CurrentAttempt(a) <= CurrentAttempt(n) /\ Awaits(n) = "False"
  BY <1>2, <1>3, <1>4, <1>7, <1>11 DEF Awaits
<1>14. Fits(n)
  BY <1>2, <1>3, <1>7, <1>8, <1>11, <1>12, <1>13, AttemptFits
<1> QED
  BY <1>14 DEF n

(* The attempt has failed, and is followed by another one. *)
LEMMA RetryFits ==
    ASSUME LagInv, pc # "idle", NEW k, AtAttempt(k), TriageSeen, AcceptedSeen,
           FailureSeen(k), ~PRSeen(k), k < orig.spec.maxFixAttempts,
           NEW w \in Status, w.phase = "Ready", w.attempt = k + 1,
           w.jobName = orig.status.jobName, w.pr = orig.status.pr,
           w.conditions = orig.status.conditions
    PROVE  Fits(Patching(w))
<1> DEFINE a == cr.status
           o == orig.status
           n == Patching(w)
<1>1. TypeOK
  BY DEF LagInv, OrderInv, GateInv, TypeInv
<1>2. /\ n \in Status /\ a \in Status /\ o \in Status
      /\ n.phase \in {"Ready", a.phase}
      /\ n.attempt = IF w.attempt # o.attempt THEN w.attempt ELSE a.attempt
      /\ n.jobName = a.jobName /\ n.pr = a.pr /\ n.conditions = a.conditions
  BY <1>1, PatchingIs
<1>3. /\ k \in Attempts /\ k \in Nat /\ k = CurrentAttempt(o)
      /\ CurrentAttempt(a) \in k..k + 1 /\ a.jobName <= k
      /\ a.phase \in Attempting /\ Awaits(a) = "False"
      /\ CurrentAttempt(a) = k + 1 /\ NoEdit => a.phase \in {"Ready", "Executing"}
      /\ NoEdit => orig.spec.maxFixAttempts = cr.spec.maxFixAttempts
  BY DEF AtAttempt, Attempts
<1>4. a.pr = NoPR /\ a.phase # "PROpen"
  BY Unreported
<1>5. Earned(a)
  BY DEF LagInv
<1>6. NoEdit => a.phase # "Failed"
  <2> SUFFICES ASSUME NoEdit, a.phase = "Failed" PROVE FALSE
    OBVIOUS
  <2>1. CurrentAttempt(a) >= cr.spec.maxFixAttempts
    BY <1>3, <1>5 DEF Earned
  <2>2. CurrentAttempt(a) # k + 1
    BY <1>3
  <2> HIDE DEF a
  <2>3. cr.spec.maxFixAttempts \in Nat
    BY <1>1 DEF TypeOK, Resource, ResourceSpec, Attempts
  <2> QED
    BY <1>3, <2>1, <2>2, <2>3
<1>7. a.conditions["PROpen"] # "True" /\ (NoEdit => a.conditions["Failed"] # "True")
  BY <1>4, <1>5, <1>6 DEF Earned, Announced
<1>8. o.attempt \in Nat /\ o.attempt <= k /\ a.attempt \in Nat
      /\ a.attempt <= CurrentAttempt(a) /\ a.jobName \in Nat
  BY <1>2, <1>3, LevelIs
<1>9. n.attempt = k + 1 /\ CurrentAttempt(n) = k + 1
  BY <1>2, <1>3, <1>8 DEF CurrentAttempt
<1>10. ASSUME NEW j \in Attempts, j < k + 1
       PROVE  FailureSeen(j) /\ (NoEdit => j < cr.spec.maxFixAttempts)
  <2>1. CASE j < k
    BY <2>1, EarlierFailed
  <2>2. CASE j = k
    BY <1>3, <2>2
  <2> QED
    BY <1>3, <1>10, <2>1, <2>2 DEF Attempts
<1> HIDE DEF n
<1>11. /\ n.phase \in Attempting /\ n.phase # "PROpen" /\ (NoEdit => n.phase # "Failed")
       /\ NoEdit => n.phase \in {"Ready", "Executing"}
       /\ Awaits(n) = "False"
  BY <1>2, <1>3, <1>4, <1>6 DEF Attempting, Awaits
<1>12. /\ a.attempt <= n.attempt /\ CurrentAttempt(a) <= CurrentAttempt(n)
       /\ CurrentAttempt(n) <= k + 1 /\ a.jobName <= n.jobName /\ n.jobName <= k
  BY <1>2, <1>3, <1>8, <1>9
<1>13. n.pr = NoPR /\ a.pr = NoPR
  BY <1>2, <1>4
<1>14. Fits(n)
  BY <1>2, <1>7, <1>9, <1>10, <1>11, <1>12, <1>13, AttemptFits
<1> QED
  BY <1>14 DEF n

(* The last attempt has failed. *)
LEMMA ExhaustedFits ==
    ASSUME LagInv, pc # "idle", NEW k, AtAttempt(k), TriageSeen, AcceptedSeen,
           FailureSeen(k), ~PRSeen(k), ~(k < orig.spec.maxFixAttempts),
           NEW w \in Status, w.phase = "Failed", w.attempt = orig.status.attempt,
           w.jobName = orig.status.jobName, w.pr = orig.status.pr,
           w.conditions = [orig.status.conditions EXCEPT !["Failed"] = "True"]
    PROVE  Fits(Patching(w))
<1> DEFINE a == cr.status
           o == orig.status
           n == Patching(w)
<1>1. TypeOK
  BY DEF LagInv, OrderInv, GateInv, TypeInv
<1>2. /\ n \in Status /\ a \in Status /\ o \in Status
      /\ n.phase = IF w.phase # o.phase THEN w.phase ELSE a.phase
      /\ n.attempt = a.attempt
      /\ n.jobName = a.jobName /\ n.pr = a.pr
      /\ n.conditions = IF w.conditions # o.conditions THEN w.conditions ELSE a.conditions
  BY <1>1, PatchingIs
<1>3. /\ k \in Attempts /\ k \in Nat
      /\ CurrentAttempt(a) \in k..k + 1 /\ a.jobName <= k
      /\ o.phase \in {"Ready", "Executing"}
      /\ o.conditions["AwaitingApproval"] = "False" /\ a.conditions["AwaitingApproval"] = "False"
      /\ o.conditions["PROpen"] # "True" /\ (NoEdit => o.conditions["Failed"] # "True")
      /\ NoEdit => orig.spec.maxFixAttempts = cr.spec.maxFixAttempts
  BY DEF AtAttempt, Attempts, Awaits
<1>4. a.pr = NoPR /\ a.phase # "PROpen"
  BY Unreported
<1>5. Earned(a)
  BY DEF LagInv
<1>6. a.conditions["PROpen"] # "True"
  BY <1>4, <1>5 DEF Earned, Announced
<1>7. /\ w.conditions["PROpen"] = o.conditions["PROpen"]
      /\ w.conditions["AwaitingApproval"] = o.conditions["AwaitingApproval"]
      /\ w.conditions["Failed"] = "True"
  BY <1>2 DEF Status, ConditionType
<1>8. /\ n.phase = "Failed"
      /\ n.conditions["PROpen"] # "True" /\ n.conditions["AwaitingApproval"] = "False"
      /\ NoEdit => n.conditions["Failed"] = "True"
  BY <1>2, <1>3, <1>6, <1>7
<1>9. cr.spec.maxFixAttempts \in Nat
  BY <1>1 DEF TypeOK, Resource, ResourceSpec, Attempts
<1>10. NoEdit => CurrentAttempt(a) = k /\ k >= cr.spec.maxFixAttempts
  <2> SUFFICES ASSUME NoEdit PROVE CurrentAttempt(a) = k /\ k >= cr.spec.maxFixAttempts
    OBVIOUS
  <2>1. ~(k < cr.spec.maxFixAttempts)
    BY <1>3
  <2>2. ~(k < CurrentAttempt(a))
    BY <1>3, <1>5, <2>1 DEF Earned
  <2> HIDE DEF a
  <2> QED
    BY <1>3, <1>9, <2>1, <2>2
<1>11. CurrentAttempt(n) = CurrentAttempt(a)
  BY <1>2 DEF CurrentAttempt
<1>12. \A j \in Attempts : j < CurrentAttempt(a) =>
           FailureSeen(j) /\ (NoEdit => j < cr.spec.maxFixAttempts)
  BY EarlierFailed
<1>13. a.attempt \in Nat /\ a.jobName \in Nat
  BY <1>2, LevelIs
<1> HIDE DEF n
<1>14. /\ a.attempt <= n.attempt /\ CurrentAttempt(a) <= CurrentAttempt(n)
       /\ CurrentAttempt(n) <= k + 1 /\ a.jobName <= n.jobName /\ n.jobName <= k
       /\ ~(NoEdit /\ CurrentAttempt(n) = k + 1)
  BY <1>2, <1>3, <1>10, <1>11, <1>13
<1>15. n.pr = NoPR /\ n.phase \in Attempting /\ Awaits(n) = "False" /\ n.phase # "PROpen"
  BY <1>2, <1>4, <1>8 DEF Attempting, Awaits
<1>16. Fits(n)
  BY <1>2, <1>4, <1>8, <1>10, <1>11, <1>12, <1>14, <1>15, AttemptFits
<1> QED
  BY <1>16 DEF n

(* The Job has reported its pull request. *)
LEMMA ReportedFits ==
    ASSUME LagInv, pc # "idle", NEW k, AtAttempt(k), TriageSeen, AcceptedSeen,
           PRSeen(k), ~FailureSeen(k), remote[k] = "pr",
           NEW w \in Status, w.phase = "PROpen", w.attempt = k, w.jobName = k, w.pr = k,
           w.conditions = [orig.status.conditions EXCEPT !["PROpen"] = "True"]
    PROVE  Fits(Patching(w))
<1> DEFINE a == cr.status
           o == orig.status
           n == Patching(w)
<1>1. TypeOK
  BY DEF LagInv, OrderInv, GateInv, TypeInv
<1>2. /\ n \in Status /\ a \in Status /\ o \in Status
      /\ n.phase = IF w.phase # o.phase THEN w.phase ELSE a.phase
      /\ n.attempt = IF w.attempt # o.attempt THEN w.attempt ELSE a.attempt
      /\ n.jobName = IF w.jobName # o.jobName THEN w.jobName ELSE a.jobName
      /\ n.pr = IF w.pr # o.pr THEN w.pr ELSE a.pr
      /\ n.conditions = IF w.conditions # o.conditions THEN w.conditions ELSE a.conditions
  BY <1>1, PatchingIs
<1>3. /\ k \in Attempts /\ k \in Nat /\ k # 0
      /\ CurrentAttempt(a) \in k..k + 1 /\ a.jobName <= k
      /\ o.attempt <= a.attempt /\ o.jobName <= a.jobName /\ o.pr \in {NoPR, a.pr}
      /\ o.phase \in {"Ready", "Executing"}
      /\ o.conditions["AwaitingApproval"] = "False"
      /\ o.conditions["PROpen"] # "True" /\ (NoEdit => o.conditions["Failed"] # "True")
  BY DEF AtAttempt, Attempts, Awaits
<1>4. Earned(a)
  BY DEF LagInv
<1>5. CurrentAttempt(a) = k
  BY <1>3, <1>4 DEF Earned
<1>6. a.attempt \in Nat /\ a.jobName \in Nat /\ a.pr \in Nat /\ o.attempt \in Nat
      /\ o.jobName \in Nat /\ a.attempt <= k
  BY <1>2, <1>5, LevelIs
<1>7. a.pr \in {NoPR, k}
  <2> SUFFICES ASSUME a.pr # NoPR PROVE a.pr = k
    OBVIOUS
  <2>1. a.attempt = a.pr /\ a.pr \in Attempts
    BY <1>4 DEF Earned
  <2> QED
    BY <1>2, <1>5, <2>1, LevelIs DEF Attempts
<1>8. /\ w.conditions["AwaitingApproval"] = "False"
      /\ w.conditions["PROpen"] = "True"
      /\ w.conditions["Failed"] = o.conditions["Failed"]
  BY <1>2, <1>3 DEF Status, ConditionType
<1>9. n.phase = "PROpen" /\ n.conditions = w.conditions
  BY <1>2, <1>3, <1>8
<1>10. n.attempt = k
  BY <1>2, <1>3, <1>6
<1>11. n.jobName = k
  BY <1>2, <1>3, <1>6
<1>12. n.pr = k
  BY <1>2, <1>3, <1>7 DEF NoPR
<1>13. CurrentAttempt(n) = k
  BY <1>3, <1>10 DEF CurrentAttempt
<1>14. \A j \in Attempts : j < k =>
           FailureSeen(j) /\ (NoEdit => j < cr.spec.maxFixAttempts)
  BY EarlierFailed
<1> HIDE DEF n
<1>15. /\ n.conditions["PROpen"] = "True"
       /\ n.phase \in Attempting /\ Awaits(n) = "False"
       /\ n.phase # "Failed" /\ (NoEdit => n.conditions["Failed"] # "True")
  BY <1>3, <1>8, <1>9 DEF Attempting, Awaits
<1>16. /\ a.attempt <= n.attempt /\ CurrentAttempt(a) <= CurrentAttempt(n)
       /\ CurrentAttempt(n) <= k + 1 /\ a.jobName <= n.jobName /\ n.jobName <= k
       /\ CurrentAttempt(n) # k + 1 /\ n.pr # NoPR
  BY <1>3, <1>5, <1>6, <1>10, <1>11, <1>12, <1>13 DEF NoPR
<1>17. Fits(n)
  BY <1>2, <1>7, <1>9, <1>10, <1>11, <1>12, <1>13, <1>14, <1>15, <1>16, AttemptFits
<1> QED
  BY <1>17 DEF n

-----------------------------------------------------------------------------
(***************************************************************************)
(* What has been seen is not unseen.                                       *)
(***************************************************************************)

(* Where the copies of the next state come from. *)
LEMMA CopiesMove ==
    ASSUME TypeInv, [Next]_vars
    PROVE  /\ seenCR' \in {seenCR, cr, cr'}
           /\ \/ cr'.status = cr.status
              \/ PatchStatus /\ cr'.status = Patching(new) /\ pc' = "idle"
           /\ pc' # "idle" => \/ pc # "idle" /\ orig' = orig
                              \/ BeginPass /\ orig' = seenCR
           /\ seenTriageJob' \in {seenTriageJob, triageJob, triageJob'}
           /\ seenFixJob' \in {seenFixJob, fixJob, fixJob'}
<1> USE DEF TypeInv
<1>1. seenCR' \in {seenCR, cr, cr'}
  BY DEF Next, PassProgress, BeginPass, GetTriageJob, CreateTriageJob, GetFixJob,
         CreateFixJob, PatchStatus, ReturnError, Crash, SyncCR, SyncJobs,
         SetApproved, SetMaxFixAttempts, TriagePodEnds, TriagePodSucceeds,
         TriagePodFails, TriageJobExpires, FixPodEnds, FixPodSucceeds,
         FixPodFails, FixJobGetsNoPod, FixJobExpires, vars, cacheVars, CacheCR
<1>2. ASSUME PatchStatus
      PROVE  cr'.status = Patching(new) /\ pc' = "idle"
  BY <1>2 DEF PatchStatus, Patching, PassEnds, TypeOK, Resource
<1>3. ASSUME ~PatchStatus
      PROVE  cr'.status = cr.status
  BY <1>3
     DEF Next, PassProgress, BeginPass, GetTriageJob, CreateTriageJob, GetFixJob,
         CreateFixJob, ReturnError, Crash, SyncCR, SyncJobs,
         SetApproved, SetMaxFixAttempts, TriagePodEnds, TriagePodSucceeds,
         TriagePodFails, TriageJobExpires, FixPodEnds, FixPodSucceeds,
         FixPodFails, FixJobGetsNoPod, FixJobExpires, vars, TypeOK, Resource
<1>4. pc' # "idle" => \/ pc # "idle" /\ orig' = orig
                      \/ BeginPass /\ orig' = seenCR
  BY DEF Next, PassProgress, BeginPass, GetTriageJob, CreateTriageJob, GetFixJob,
         CreateFixJob, PatchStatus, ReturnError, Crash, SyncCR, SyncJobs,
         SetApproved, SetMaxFixAttempts, TriagePodEnds, TriagePodSucceeds,
         TriagePodFails, TriageJobExpires, FixPodEnds, FixPodSucceeds,
         FixPodFails, FixJobGetsNoPod, FixJobExpires, vars, passVars, PassEnds
<1>5. /\ seenTriageJob' \in {seenTriageJob, triageJob, triageJob'}
      /\ seenFixJob' \in {seenFixJob, fixJob, fixJob'}
  BY DEF Next, PassProgress, BeginPass, GetTriageJob, CreateTriageJob, GetFixJob,
         CreateFixJob, PatchStatus, ReturnError, Crash, SyncCR, SyncJobs,
         SetApproved, SetMaxFixAttempts, TriagePodEnds, TriagePodSucceeds,
         TriagePodFails, TriageJobExpires, FixPodEnds, FixPodSucceeds,
         FixPodFails, FixJobGetsNoPod, FixJobExpires, vars, cacheVars, CacheJobs
<1> QED
  BY <1>1, <1>2, <1>3, <1>4, <1>5

(* The copies go on from stage to stage. *)
LEMMA CopiesGoOn ==
    ASSUME LagInv, [Next]_vars
    PROVE  /\ cr.status \in Status /\ seenCR.status \in Status
           /\ cr'.status = cr.status \/ (Fits(cr'.status) /\ cr'.status \in Status)
           /\ Level(cr.status) <= Level(cr'.status)
           /\ Level(seenCR.status) <= Level(cr.status)
           /\ TriageBehind => TriageBehind'
<1>1. TypeInv /\ TypeOK
  BY DEF LagInv, OrderInv, GateInv, TypeInv
<1>2. cr.status \in Status /\ seenCR.status \in Status /\ orig.status \in Status
      /\ new \in Status
  BY <1>1 DEF TypeOK, Resource
<1>3. cr'.status = cr.status \/ (Fits(cr'.status) /\ cr'.status \in Status)
  <2>1. CASE PatchStatus /\ cr'.status = Patching(new)
    BY <1>1, <1>2, <2>1, PatchingIs DEF PatchStatus, LagInv, PassLags
  <2> QED
    BY <1>1, <2>1, CopiesMove
<1>4. Level(cr.status) <= Level(cr'.status)
  BY <1>2, <1>3, LevelIs DEF Fits, Follows
<1>5. Level(seenCR.status) <= Level(cr.status)
  BY DEF LagInv, Follows
<1>6. ASSUME TriageBehind PROVE TriageBehind'
  <2>1. /\ Level(seenCR.status) \in Nat /\ Level(cr.status) \in Nat
        /\ Level(seenCR.status) # 0
    BY <1>2, <1>6, LevelIs DEF TriageBehind
  <2>2. cr'.status \in Status /\ Level(cr'.status) \in Nat
    BY <1>2, <1>3, LevelIs
  <2>3. Level(cr.status) # 0 /\ Level(cr'.status) # 0
    BY <1>4, <1>5, <2>1, <2>2
  <2>4. /\ seenCR.status.phase \notin Triaging /\ cr.status.phase \notin Triaging
        /\ cr'.status.phase \notin Triaging
    BY <1>2, <2>1, <2>2, <2>3, LevelIs
  <2>5. seenCR'.status.phase \notin Triaging
    BY <1>1, <2>4, CopiesMove
  <2>6. pc' # "idle" => orig'.status.phase \notin Triaging
    BY <1>1, <1>6, CopiesMove DEF TriageBehind
  <2> QED
    BY <2>5, <2>6 DEF TriageBehind
<1> QED
  BY <1>2, <1>3, <1>4, <1>5, <1>6

(* What a step does to the triage Job. *)
LEMMA TriageJobSteps ==
    ASSUME LagInv, [Next]_vars, "outage" \notin Faults
    PROVE  \/ UNCHANGED <<triageJob, verdict>>
           \/ triageJob.state = "absent" /\ triageJob' = NewJob /\ ~TriageBehind
           \/ /\ triageJob.state = "active" /\ triageJob'.state # "absent"
              /\ triageJob.failedPods > 0 => triageJob'.failedPods > 0
           \/ triageJob' = NoJob /\ TriageBehind'
<1>1. TypeInv /\ TypeOK /\ triageJob \in Job
  BY DEF LagInv, OrderInv, GateInv, TypeInv, TypeOK
<1>2. CASE CreateTriageJob
  <2>1. /\ pc = "createTriageJob" /\ new.phase = "Triage"
        /\ new = WithPhaseDefaulted(orig.status)
    BY <1>2 DEF CreateTriageJob, LagInv, OrderInv, GateInv, PassOnTrack, PassLags
  <2>2. orig.status.phase \in Triaging
    BY <2>1 DEF WithPhaseDefaulted, Triaging
  <2>3. ~TriageBehind
    BY <2>1, <2>2 DEF TriageBehind
  <2> QED
    BY <1>2, <2>3 DEF CreateTriageJob
<1>3. CASE TriagePodEnds
  BY <1>1, <1>3 DEF TriagePodEnds, TriagePodSucceeds, TriagePodFails, Job
<1>4. CASE TriageJobExpires
  BY <1>4 DEF TriageJobExpires, AnHourLater, TriageJobHandled, TriageBehind, Triaging,
              passVars
<1>5. CASE ~CreateTriageJob /\ ~TriagePodEnds /\ ~TriageJobExpires
  BY <1>5
     DEF Next, PassProgress, BeginPass, GetTriageJob, GetFixJob, CreateFixJob,
         PatchStatus, ReturnError, Crash, SyncCR, SyncJobs, SetApproved,
         SetMaxFixAttempts, FixPodEnds, FixPodSucceeds, FixPodFails, FixJobGetsNoPod,
         FixJobExpires, vars, clusterVars
<1> QED
  BY <1>2, <1>3, <1>4, <1>5

(* A result of triage stays seen, until nothing looks for it any more. *)
LEMMA TriageStaysSeen ==
    ASSUME LagInv, [Next]_vars, "outage" \notin Faults
    PROVE  /\ TriageSeen => TriageSeen'
           /\ AcceptedSeen => AcceptedSeen'
           /\ (triageJob.state = "absent" => triageJob = NoJob)'
           /\ (seenTriageJob.state = "complete"
                  => triageJob.state = "complete" \/ TriageBehind)'
           /\ (seenTriageJob.failedPods > 0
                  => triageJob.failedPods > 0 \/ TriageBehind)'
<1>1. /\ triageJob.state = "absent" => triageJob = NoJob
      /\ seenTriageJob.state = "complete" => triageJob.state = "complete" \/ TriageBehind
      /\ seenTriageJob.failedPods > 0 => triageJob.failedPods > 0 \/ TriageBehind
  BY DEF LagInv, JobsSeen
<1>2. TriageBehind => TriageBehind'
  BY CopiesGoOn
<1>3. seenTriageJob' \in {seenTriageJob, triageJob, triageJob'}
  BY CopiesMove DEF LagInv, OrderInv, GateInv
<1>4. \/ UNCHANGED <<triageJob, verdict>>
      \/ triageJob.state = "absent" /\ triageJob' = NewJob /\ ~TriageBehind
      \/ /\ triageJob.state = "active" /\ triageJob'.state # "absent"
         /\ triageJob.failedPods > 0 => triageJob'.failedPods > 0
      \/ triageJob' = NoJob /\ TriageBehind'
  BY TriageJobSteps
<1>5. ASSUME triageJob.state = "complete"
      PROVE  \/ UNCHANGED <<triageJob, verdict>>
             \/ triageJob' = NoJob /\ TriageBehind'
  BY <1>4, <1>5
<1>6. ASSUME triageJob.failedPods > 0
      PROVE  triageJob'.failedPods > 0 \/ TriageBehind'
  BY <1>1, <1>4, <1>6 DEF NoJob
<1>7. (triageJob.state = "absent" => triageJob = NoJob)'
  BY <1>1, <1>4 DEF NewJob
<1>8. (seenTriageJob.state = "complete" => triageJob.state = "complete" \/ TriageBehind)'
  BY <1>1, <1>2, <1>3, <1>5
<1>9. (seenTriageJob.failedPods > 0 => triageJob.failedPods > 0 \/ TriageBehind)'
  BY <1>1, <1>2, <1>3, <1>6
<1>10. ASSUME seenTriageJob.state = "complete"
       PROVE  \/ seenTriageJob'.state = "complete" /\ verdict' = verdict
              \/ TriageBehind'
  BY <1>1, <1>2, <1>3, <1>5, <1>10
<1>11. ASSUME seenTriageJob.failedPods > 0
       PROVE  seenTriageJob'.failedPods > 0 \/ TriageBehind'
  BY <1>1, <1>2, <1>3, <1>6, <1>11
<1>12. TriageSeen => TriageSeen'
  BY <1>2, <1>10, <1>11 DEF TriageSeen
<1>13. AcceptedSeen => AcceptedSeen'
  BY <1>2, <1>10 DEF AcceptedSeen
<1> QED
  BY <1>7, <1>8, <1>9, <1>12, <1>13

(* The report of a complete Job stays, as long as the Job does. *)
LEMMA ReportStays ==
    ASSUME TypeOK, [Next]_vars, NEW k \in Attempts,
           fixJob[k].state = "complete", fixJob'[k] = fixJob[k]
    PROVE  report'[k] = report[k]
<1>1. ASSUME NEW n \in Attempts, FixPodEnds(n) \/ FixJobExpires(n)
      PROVE  report'[k] = report[k]
  BY <1>1 DEF FixPodEnds, FixPodSucceeds, FixPodFails, FixJobGetsNoPod, FixJobExpires,
              TypeOK, NoJob
<1>2. CASE CreateFixJob
  BY <1>2 DEF CreateFixJob, TypeOK
<1>3. ASSUME ~CreateFixJob, ~\E n \in Attempts : FixPodEnds(n) \/ FixJobExpires(n)
      PROVE  UNCHANGED report
  BY <1>3
     DEF Next, PassProgress, BeginPass, GetTriageJob, CreateTriageJob, GetFixJob,
         PatchStatus, ReturnError, Crash, SyncCR, SyncJobs, SetApproved,
         SetMaxFixAttempts, TriagePodEnds, TriagePodSucceeds, TriagePodFails,
         TriageJobExpires, vars, clusterVars
<1> QED
  BY <1>1, <1>2, <1>3

(* So does a result of a fix Job. *)
LEMMA FixStaysSeen ==
    ASSUME LagInv, [Next]_vars, NEW k \in Attempts
    PROVE  /\ FailureSeen(k) => FailureSeen(k)'
           /\ PRSeen(k) => PRSeen(k)'
           /\ (seenFixJob[k].state \in {"complete", "failed"} =>
                  fixJob[k] \in {seenFixJob[k], NoJob})'
<1>1. OrderInv /\ TypeInv /\ TypeOK /\ GateInv
  BY DEF LagInv, OrderInv, GateInv, TypeInv
<1>2. seenFixJob[k].state \in {"complete", "failed"} => fixJob[k] \in {seenFixJob[k], NoJob}
  BY DEF LagInv, JobsSeen
<1>3. seenFixJob'[k] \in {seenFixJob[k], fixJob[k], fixJob'[k]}
  BY <1>1, CopiesMove
<1>4. ASSUME Gone(k) PROVE Gone(k)' /\ fixJob'[k] = fixJob[k]
  <2>1. ~Created(k)
    BY <1>1, <1>4, OnlyNewCreated DEF Gone
  <2>2. fixJob'[k] = fixJob[k]
    BY <1>1, <1>4, <2>1, FixJobSteps DEF Gone, EndsNow, Expired
  <2>3. k \in launched'
    BY <1>1, <1>4, EndedForGood DEF Gone
  <2> QED
    BY <1>4, <2>2, <2>3 DEF Gone
<1>5. ASSUME fixJob[k].state \in {"complete", "failed"}
      PROVE  fixJob'[k] = fixJob[k] \/ (Gone(k)' /\ fixJob'[k] = NoJob)
  <2>1. k \in launched
    BY <1>1, <1>5 DEF OrderInv, NotYetLaunched, NoJob
  <2>2. k \in launched'
    BY <1>1, <2>1, EndedForGood
  <2>3. fixJob'[k] = fixJob[k] \/ Expired(k)
    BY <1>1, <1>5, FixJobSteps DEF Created, EndsNow
  <2> QED
    BY <2>2, <2>3 DEF Expired, Gone, NoJob
<1>6. ASSUME seenFixJob[k].state \in {"complete", "failed"}
      PROVE  \/ /\ seenFixJob'[k] = seenFixJob[k] /\ fixJob'[k] = seenFixJob[k]
                /\ seenFixJob[k].state = "complete" => report'[k] = report[k]
             \/ Gone(k)' /\ fixJob'[k] = NoJob
  <2>1. k \in launched
    BY <1>1, <1>6 DEF OrderInv, NotYetLaunched, NoJob
  <2>2. CASE fixJob[k] = NoJob
    BY <1>4, <2>1, <2>2 DEF Gone, NoJob
  <2>3. CASE fixJob[k] = seenFixJob[k]
    <3>1. CASE fixJob'[k] = fixJob[k]
      BY <1>1, <1>3, <2>3, <3>1, ReportStays
    <3> QED
      BY <1>5, <1>6, <2>3, <3>1
  <2> QED
    BY <1>2, <1>6, <2>2, <2>3
<1>7. (seenFixJob[k].state \in {"complete", "failed"} =>
          fixJob[k] \in {seenFixJob[k], NoJob})'
  BY <1>3, <1>5, <1>6
<1>8. FailureSeen(k) => FailureSeen(k)'
  BY <1>4, <1>6 DEF FailureSeen
<1>9. PRSeen(k) => PRSeen(k)'
  BY <1>4, <1>6 DEF PRSeen
<1> QED
  BY <1>7, <1>8, <1>9

(* Only an edit changes the cap. *)
LEMMA CapStays ==
    ASSUME LagInv, [Next]_vars
    PROVE  /\ NoEdit => cr'.spec.maxFixAttempts = cr.spec.maxFixAttempts
           /\ SameCap'
<1>1. TypeInv /\ TypeOK /\ cr \in Resource
  BY DEF LagInv, OrderInv, GateInv, TypeInv, TypeOK
<1>2. ASSUME NoEdit PROVE cr'.spec.maxFixAttempts = cr.spec.maxFixAttempts
  BY <1>1, <1>2
     DEF NoEdit, Next, PassProgress, BeginPass, GetTriageJob, CreateTriageJob, GetFixJob,
         CreateFixJob, PatchStatus, ReturnError, Crash, SyncCR, SyncJobs,
         SetApproved, SetMaxFixAttempts, TriagePodEnds, TriagePodSucceeds,
         TriagePodFails, TriageJobExpires, FixPodEnds, FixPodSucceeds,
         FixPodFails, FixJobGetsNoPod, FixJobExpires, vars, Resource, ResourceSpec
<1>3. NoEdit => /\ seenCR.spec.maxFixAttempts = cr.spec.maxFixAttempts
                /\ pc # "idle" => orig.spec.maxFixAttempts = cr.spec.maxFixAttempts
  BY DEF LagInv, SameCap
<1>4. /\ seenCR' \in {seenCR, cr, cr'}
      /\ pc' # "idle" => (pc # "idle" /\ orig' = orig) \/ orig' = seenCR
  BY <1>1, CopiesMove
<1>5. NoEdit => /\ seenCR'.spec.maxFixAttempts = cr'.spec.maxFixAttempts
                /\ pc' # "idle" => orig'.spec.maxFixAttempts = cr'.spec.maxFixAttempts
  BY <1>2, <1>3, <1>4
<1> QED
  BY <1>2, <1>5 DEF SameCap, NoEdit

(* Reports are real, and the Jobs seen are the Jobs, or were. *)
LEMMA JobsStaySeen ==
    ASSUME LagInv, [Next]_vars, "outage" \notin Faults
    PROVE  ReportsReal' /\ JobsSeen'
<1>1. JobsLaunched /\ GateInv /\ ReportsReal
  BY DEF LagInv, OrderInv, NotYetLaunched, JobsLaunched, NoJob
<1>2. ReportsReal'
  BY <1>1, KeepsJobsReal
<1>3. \A k \in Attempts : (seenFixJob[k].state \in {"complete", "failed"} =>
                              fixJob[k] \in {seenFixJob[k], NoJob})'
  BY FixStaysSeen
<1>4. JobsSeen'
  BY <1>3, TriageStaysSeen DEF JobsSeen
<1> QED
  BY <1>2, <1>4

(* What a status has earned it keeps. *)
LEMMA EarnedStays ==
    ASSUME LagInv, [Next]_vars, "outage" \notin Faults, NEW st \in Status, Earned(st)
    PROVE  Earned(st)'
<1>1. /\ TriageSeen => TriageSeen'
      /\ AcceptedSeen => AcceptedSeen'
  BY TriageStaysSeen
<1>2. \A k \in Attempts : /\ FailureSeen(k) => FailureSeen(k)'
                          /\ PRSeen(k) => PRSeen(k)'
                          /\ remote[k] = "pr" => remote'[k] = "pr"
  BY FixStaysSeen, NextKeeps DEF Kept, LagInv, OrderInv
<1>3. NoEdit => cr'.spec.maxFixAttempts = cr.spec.maxFixAttempts
  BY CapStays
<1>4. CurrentAttempt(st) \in Attempts
  BY LevelIs
<1>5. /\ st.phase \notin Triaging => TriageSeen'
      /\ Awaits(st) # "Unset" => AcceptedSeen'
  BY <1>1 DEF Earned
<1>6. \A j \in Attempts : j < CurrentAttempt(st) =>
           FailureSeen(j)' /\ (NoEdit => j < cr'.spec.maxFixAttempts)
  BY <1>2, <1>3 DEF Earned
<1>7. NoEdit /\ st.phase = "Failed" /\ Awaits(st) = "False" =>
           /\ FailureSeen(CurrentAttempt(st))'
           /\ CurrentAttempt(st) >= cr'.spec.maxFixAttempts
  BY <1>2, <1>3, <1>4 DEF Earned
<1>8. st.pr # NoPR => /\ st.pr \in Attempts /\ st.attempt = st.pr /\ st.jobName = st.pr
                      /\ PRSeen(st.pr)' /\ remote'[st.pr] = "pr"
  BY <1>2 DEF Earned
<1> QED
  BY <1>5, <1>6, <1>7, <1>8 DEF Earned

(* So the stored and the cached status have earned what they say, and the one
   follows the other. *)
LEMMA CopiesEarned ==
    ASSUME LagInv, [Next]_vars, "outage" \notin Faults
    PROVE  /\ Earned(cr.status)' /\ Earned(seenCR.status)'
           /\ Follows(seenCR.status, cr.status)'
           /\ Follows(cr.status, cr'.status)
<1>1. /\ cr.status \in Status /\ seenCR.status \in Status
      /\ cr'.status = cr.status \/ (Fits(cr'.status) /\ cr'.status \in Status)
  BY CopiesGoOn
<1>2. Earned(cr.status) /\ Earned(seenCR.status) /\ Follows(seenCR.status, cr.status)
      /\ Fits(cr.status)
  BY NothingWritten DEF LagInv
<1>3. /\ Earned(cr'.status) /\ Follows(cr.status, cr'.status)
      /\ Follows(seenCR.status, cr'.status) /\ cr'.status \in Status
  BY <1>1, <1>2 DEF Fits
<1>4. seenCR'.status \in {seenCR.status, cr.status, cr'.status}
  BY CopiesMove DEF LagInv, OrderInv, GateInv
<1>5. \A st \in {seenCR.status, cr.status, cr'.status} : Earned(st)'
  BY <1>1, <1>2, <1>3, EarnedStays
<1>6. Earned(cr.status)'
  BY <1>5
<1>7. Earned(seenCR.status)'
  BY <1>4, <1>5
<1>8. Follows(cr'.status, cr'.status)
  <2>1. cr'.status.jobName <= CurrentAttempt(cr'.status)
    BY <1>3 DEF Earned
  <2> QED
    BY <1>3, <2>1, LevelIs, AttemptCapAssumption DEF Follows, Attempts
<1>9. Follows(seenCR'.status, cr'.status)
  BY <1>3, <1>4, <1>8
<1> QED
  BY <1>3, <1>6, <1>7, <1>9

-----------------------------------------------------------------------------
(***************************************************************************)
(* What each step of a pass computes fits.                                 *)
(***************************************************************************)
NewFits == new' \in Status /\ Fits(Patching(new'))

(* The result of the triage Job. *)
LEMMA GetTriageJobFits ==
    ASSUME LagInv, GetTriageJob, pc' = "patch", "podLoss" \notin Faults
    PROVE  NewFits
<1> DEFINE o == orig.status
           w == AfterTriageJob(new, seenTriageJob, verdict)
<1>1. /\ new \in Status /\ new.phase = "Triage" /\ pc # "idle" /\ o \in Status
      /\ new = WithPhaseDefaulted(o)
      /\ seenTriageJob \in Job /\ verdict \in Verdict
  BY DEF GetTriageJob, LagInv, OrderInv, GateInv, TypeInv, TypeOK, PassOnTrack, PassLags,
         Resource
<1>2. /\ o.phase \in Triaging /\ new.attempt = o.attempt /\ new.jobName = o.jobName
      /\ new.pr = o.pr /\ new.conditions = o.conditions
  BY <1>1 DEF WithPhaseDefaulted, Status, Triaging
<1>3. new' = w
  BY DEF GetTriageJob, PodVisible
<1>4. /\ ~TriageBehind
      /\ new.attempt = 0 /\ new.jobName = NoName /\ new.pr = NoPR
  BY <1>1, <1>2, InTriage
<1>5. /\ w \in Status
      /\ w.attempt = 0 /\ w.jobName = NoName /\ w.pr = NoPR
      /\ \/ w = new /\ seenTriageJob.state # "complete" /\ seenTriageJob.failedPods = 0
         \/ /\ seenTriageJob.state = "complete" \/ seenTriageJob.failedPods > 0
            /\ w.phase = "Failed"
            /\ w.conditions = [o.conditions EXCEPT !["Failed"] = "True"]
         \/ /\ seenTriageJob.state = "complete" /\ w.phase = "Rejected"
            /\ w.conditions = [o.conditions EXCEPT !["Triaged"] = "True"]
         \/ /\ seenTriageJob.state = "complete" /\ Acceptable(verdict)
            /\ w.phase = "PendingValidation"
            /\ w.conditions = [o.conditions EXCEPT !["Triaged"] = "True",
                                                   !["AwaitingApproval"] = "True"]
  BY <1>1, <1>2, <1>4, AfterTriageIs
<1> HIDE DEF w
<1>6. Fits(Patching(w))
  <2>1. CASE w = new /\ seenTriageJob.state # "complete" /\ seenTriageJob.failedPods = 0
    <3>1. ~TriageSeen
      BY <1>4, <2>1 DEF TriageSeen
    <3> QED
      BY <1>1, <1>2, <1>5, <2>1, <3>1, WaitingFits
  <2>2. CASE ~(w = new /\ seenTriageJob.state # "complete"
                       /\ seenTriageJob.failedPods = 0)
    <3>1. TriageSeen
      BY <1>5, <2>2 DEF TriageSeen
    <3>2. seenTriageJob.state = "complete" /\ Acceptable(verdict) => AcceptedSeen
      BY DEF AcceptedSeen
    <3> QED
      BY <1>1, <1>2, <1>5, <2>2, <3>1, <3>2, DecidedFits
  <2> QED
    BY <2>1, <2>2
<1> QED
  BY <1>3, <1>5, <1>6 DEF NewFits

(* A triage Job created: no earlier one has had a result. *)
LEMMA CreateTriageJobFits ==
    ASSUME LagInv, CreateTriageJob, pc' = "patch"
    PROVE  NewFits
<1> DEFINE o == orig.status
           w == TriageJobCreated(new)
<1>1. /\ new \in Status /\ new.phase = "Triage" /\ pc # "idle" /\ o \in Status
      /\ new = WithPhaseDefaulted(o)
  BY DEF CreateTriageJob, LagInv, OrderInv, GateInv, TypeInv, TypeOK, PassOnTrack,
         PassLags, Resource
<1>2. /\ o.phase \in Triaging /\ new.attempt = o.attempt /\ new.jobName = o.jobName
      /\ new.pr = o.pr /\ new.conditions = o.conditions
  BY <1>1 DEF WithPhaseDefaulted, Status, Triaging
<1>3. new' = w /\ triageJob.state = "absent"
  BY DEF CreateTriageJob, PassEnds
<1>4. /\ ~TriageBehind
      /\ new.attempt = 0 /\ new.jobName = NoName /\ new.pr = NoPR
  BY <1>1, <1>2, InTriage
<1>5. ~TriageSeen
  <2>1. triageJob = NoJob
    BY <1>3 DEF LagInv, JobsSeen
  <2> QED
    BY <1>4, <2>1 DEF LagInv, JobsSeen, TriageSeen, NoJob
<1>6. w \in Status
  BY <1>1, WithConditionType DEF TriageJobCreated, ConditionType, ConditionStatus
<1>7. /\ w.phase = "Triage" /\ w.attempt = 0 /\ w.jobName = NoName /\ w.pr = NoPR
      /\ w.conditions = [o.conditions EXCEPT !["Triaged"] = "False"]
  BY <1>1, <1>2, <1>4 DEF TriageJobCreated, WithCondition, Status
<1> HIDE DEF w
<1>8. Fits(Patching(w))
  BY <1>1, <1>2, <1>5, <1>6, <1>7, WaitingFits
<1> QED
  BY <1>3, <1>6, <1>8 DEF NewFits

(* What reconcileFix makes of the Job it finds. *)
LEMMA AfterFixIs ==
    ASSUME NEW spec \in ResourceSpec, NEW st \in Status, NEW job \in Job,
           NEW pr \in 0..AttemptCap
    PROVE  LET k == CurrentAttempt(st)
               w == AfterFixJob(spec, st, job, pr)
               failed == \/ job.state = "complete" /\ pr = NoPR
                         \/ job.state # "complete" /\ job.failedPods > 0
           IN  /\ w \in Status
               /\ \/ /\ job.state = "complete" /\ pr # NoPR
                     /\ w.phase = "PROpen" /\ w.attempt = k /\ w.jobName = k /\ w.pr = pr
                     /\ w.conditions = [st.conditions EXCEPT !["PROpen"] = "True"]
                  \/ /\ failed /\ k < spec.maxFixAttempts
                     /\ w.phase = "Ready" /\ w.attempt = k + 1 /\ w.jobName = st.jobName
                     /\ w.pr = st.pr /\ w.conditions = st.conditions
                  \/ /\ failed /\ ~(k < spec.maxFixAttempts)
                     /\ w.phase = "Failed" /\ w.attempt = st.attempt
                     /\ w.jobName = st.jobName /\ w.pr = st.pr
                     /\ w.conditions = [st.conditions EXCEPT !["Failed"] = "True"]
                  \/ /\ job.state # "complete" /\ ~(job.failedPods > 0)
                     /\ w.phase = "Executing" /\ w.attempt = st.attempt
                     /\ w.jobName = st.jobName /\ w.pr = st.pr
                     /\ w.conditions = st.conditions
<1> DEFINE k == CurrentAttempt(st)
           w == AfterFixJob(spec, st, job, pr)
           p == PullRequestOpened(st, pr)
           f == FixFailed(spec, st)
           e == [st EXCEPT !.phase = "Executing"]
<1>1. w \in Status
  BY AfterFixJobType
<1>2. /\ p.phase = "PROpen" /\ p.attempt = k /\ p.jobName = k /\ p.pr = pr
      /\ p.conditions = [st.conditions EXCEPT !["PROpen"] = "True"]
  BY DEF PullRequestOpened, FixJobName, WithCondition, Status
<1>3. \/ /\ k < spec.maxFixAttempts
         /\ f.phase = "Ready" /\ f.attempt = k + 1 /\ f.jobName = st.jobName
         /\ f.pr = st.pr /\ f.conditions = st.conditions
      \/ /\ ~(k < spec.maxFixAttempts)
         /\ f.phase = "Failed" /\ f.attempt = st.attempt
         /\ f.jobName = st.jobName /\ f.pr = st.pr
         /\ f.conditions = [st.conditions EXCEPT !["Failed"] = "True"]
  BY DEF FixFailed, WithCondition, Status
<1>4. /\ e.phase = "Executing" /\ e.attempt = st.attempt /\ e.jobName = st.jobName
      /\ e.pr = st.pr /\ e.conditions = st.conditions
  BY DEF Status
<1>5. w = IF job.state = "complete" /\ pr # NoPR THEN p
          ELSE IF job.state = "complete" \/ job.failedPods > 0 THEN f ELSE e
  BY DEF AfterFixJob
<1> HIDE DEF k, w, p, f, e
<1> QED
  BY <1>1, <1>2, <1>3, <1>4, <1>5 DEF k, w

(* The result of the fix Job. *)
LEMMA GetFixJobFits ==
    ASSUME LagInv, GetFixJob, pc' = "patch", "podLoss" \notin Faults
    PROVE  NewFits
<1> DEFINE o == orig.status
           k == CurrentAttempt(new)
           job == seenFixJob[k]
           w == AfterFixJob(orig.spec, new, job, report[k])
<1>1. /\ new \in Status /\ new.phase \in {"Ready", "Executing"} /\ pc # "idle"
      /\ new = WithPhaseDefaulted(o) /\ o \in Status /\ orig.spec \in ResourceSpec
  BY DEF GetFixJob, LagInv, OrderInv, GateInv, TypeInv, TypeOK, PassOnTrack, PassLags,
         Resource
<1>2. new = o
  BY <1>1 DEF WithPhaseDefaulted, Status
<1>3. AtAttempt(k) /\ TriageSeen /\ AcceptedSeen /\ ~Gone(k)
  BY <1>1, <1>2, InAttempt
<1>4. /\ k \in Attempts /\ k # NoPR /\ job \in Job /\ report[k] \in 0..AttemptCap
      /\ report[k] # NoPR => report[k] = k /\ remote[k] = "pr"
      /\ job.failedPods > 0 => job.state = "failed"
  BY <1>1, CurrentAttemptType
     DEF LagInv, OrderInv, GateInv, TypeInv, TypeOK, ReportsReal, ResultsFinal, Attempts,
         NoPR
<1>5. \/ new' = new /\ job.state = "absent" /\ new.phase = "Executing"
      \/ new' = w
  BY <1>1 DEF GetFixJob, PodVisible, MayCreateFixJob
<1>6. CASE new' = new /\ job.state = "absent" /\ new.phase = "Executing"
  <2>1. ~PRSeen(k) /\ ~FailureSeen(k)
    BY <1>3, <1>6 DEF PRSeen, FailureSeen
  <2>2. Fits(Patching(new))
    BY <1>1, <1>2, <1>3, <1>6, <2>1, ExecutingFits
  <2> QED
    BY <1>1, <1>6, <2>2 DEF NewFits
<1>7. CASE new' = w
  <2> DEFINE failed == \/ job.state = "complete" /\ report[k] = NoPR
                       \/ job.state # "complete" /\ job.failedPods > 0
  <2>1. /\ w \in Status
        /\ \/ /\ job.state = "complete" /\ report[k] # NoPR
              /\ w.phase = "PROpen" /\ w.attempt = k /\ w.jobName = k /\ w.pr = report[k]
              /\ w.conditions = [o.conditions EXCEPT !["PROpen"] = "True"]
           \/ /\ failed /\ k < orig.spec.maxFixAttempts
              /\ w.phase = "Ready" /\ w.attempt = k + 1 /\ w.jobName = o.jobName
              /\ w.pr = o.pr /\ w.conditions = o.conditions
           \/ /\ failed /\ ~(k < orig.spec.maxFixAttempts)
              /\ w.phase = "Failed" /\ w.attempt = o.attempt
              /\ w.jobName = o.jobName /\ w.pr = o.pr
              /\ w.conditions = [o.conditions EXCEPT !["Failed"] = "True"]
           \/ /\ job.state # "complete" /\ ~(job.failedPods > 0)
              /\ w.phase = "Executing" /\ w.attempt = o.attempt
              /\ w.jobName = o.jobName /\ w.pr = o.pr
              /\ w.conditions = o.conditions
    BY <1>1, <1>2, <1>4, AfterFixIs
  <2> HIDE DEF w, k
  <2>2. CASE job.state = "complete" /\ report[k] # NoPR
    <3>1. PRSeen(k) /\ ~FailureSeen(k)
      BY <1>3, <1>4, <2>2 DEF PRSeen, FailureSeen
    <3>2. Fits(Patching(w))
      BY <1>1, <1>3, <1>4, <2>1, <2>2, <3>1, ReportedFits
    <3> QED
      BY <1>7, <2>1, <3>2 DEF NewFits
  <2>3. CASE failed
    <3>1. FailureSeen(k) /\ ~PRSeen(k)
      BY <1>3, <1>4, <2>3 DEF PRSeen, FailureSeen
    <3>2. CASE k < orig.spec.maxFixAttempts
      <4>1. Fits(Patching(w))
        BY <1>1, <1>3, <2>1, <2>3, <3>1, <3>2, RetryFits
      <4> QED
        BY <1>7, <2>1, <4>1 DEF NewFits
    <3>3. CASE ~(k < orig.spec.maxFixAttempts)
      <4>1. Fits(Patching(w))
        BY <1>1, <1>3, <2>1, <2>3, <3>1, <3>3, ExhaustedFits
      <4> QED
        BY <1>7, <2>1, <4>1 DEF NewFits
    <3> QED
      BY <3>2, <3>3
  <2>4. CASE job.state # "complete" /\ ~(job.failedPods > 0)
    <3>1. ~PRSeen(k) /\ ~FailureSeen(k)
      BY <1>3, <2>4 DEF PRSeen, FailureSeen
    <3>2. Fits(Patching(w))
      BY <1>1, <1>3, <2>1, <2>4, <3>1, ExecutingFits
    <3> QED
      BY <1>7, <2>1, <3>2 DEF NewFits
  <2> QED
    BY <2>2, <2>3, <2>4
<1> QED
  BY <1>5, <1>6, <1>7

(* A fix Job created: the attempt has had no result. *)
LEMMA CreateFixJobFits ==
    ASSUME LagInv, CreateFixJob, pc' = "patch"
    PROVE  NewFits
<1> DEFINE o == orig.status
           k == CurrentAttempt(new)
           w == FixJobCreated(new)
<1>1. /\ new \in Status /\ new.phase \in {"Ready", "Executing"} /\ pc # "idle"
      /\ new = WithPhaseDefaulted(o) /\ o \in Status
  BY DEF CreateFixJob, LagInv, OrderInv, GateInv, TypeInv, TypeOK, PassOnTrack, PassLags,
         Resource
<1>2. new = o
  BY <1>1 DEF WithPhaseDefaulted, Status
<1>3. AtAttempt(k) /\ TriageSeen /\ AcceptedSeen /\ ~Gone(k) /\ k \in Attempts
  BY <1>1, <1>2, InAttempt, CurrentAttemptType
<1>4. new' = w /\ fixJob[k].state = "absent"
  BY DEF CreateFixJob, PassEnds
<1>5. seenFixJob[k] = NoJob
  BY <1>3, <1>4 DEF Gone, LagInv, OrderInv, NotYetLaunched
<1>6. ~PRSeen(k) /\ ~FailureSeen(k)
  BY <1>3, <1>5 DEF PRSeen, FailureSeen, NoJob
<1>7. w \in Status
  BY <1>1, FixJobCreatedType
<1>8. /\ w.phase = "Executing" /\ w.attempt = k /\ w.jobName = k /\ w.pr = o.pr
      /\ w.conditions = [o.conditions EXCEPT !["Executing"] = "True"]
  BY <1>1, <1>2 DEF FixJobCreated, FixJobName, WithCondition, Status
<1> HIDE DEF w, k
<1>9. Fits(Patching(w))
  BY <1>1, <1>3, <1>6, <1>7, <1>8, ExecutingFits
<1> QED
  BY <1>4, <1>7, <1>9 DEF NewFits

-----------------------------------------------------------------------------
(***************************************************************************)
(* Every step of the pass, and next to it.                                 *)
(***************************************************************************)

(* What fits keeps fitting until it is stored. *)
LEMMA FitsStays ==
    ASSUME LagInv, [Next]_vars, "outage" \notin Faults, cr'.status = cr.status,
           NEW n \in Status, Fits(n)
    PROVE  Fits(n)'
<1>1. Earned(n)'
  BY EarnedStays DEF Fits
<1>2. seenCR'.status \in {seenCR.status, cr.status}
  BY CopiesMove DEF LagInv, OrderInv, GateInv
<1> QED
  BY <1>1, <1>2 DEF Fits

(* The pass begins. *)
LEMMA BeginLags ==
    ASSUME LagInv, BeginPass, [Next]_vars, "outage" \notin Faults
    PROVE  PassLags'
<1> DEFINE a == cr.status
           e == seenCR.status
<1>1. /\ a \in Status /\ e \in Status /\ seenCR.spec \in ResourceSpec
      /\ Earned(e) /\ Follows(e, a)
  BY DEF LagInv, OrderInv, GateInv, TypeInv, TypeOK, Resource
<1>2. UNCHANGED <<cr, seenCR>> /\ orig' = seenCR
  BY DEF BeginPass, cacheVars
<1>3. Follows(e, e)
  <2>1. e.jobName <= CurrentAttempt(e)
    BY <1>1 DEF Earned
  <2> QED
    BY <1>1, <2>1, LevelIs, AttemptCapAssumption DEF Follows, Attempts
<1>4. pc' # "patch" => new' = WithPhaseDefaulted(e)
  BY DEF BeginPass
<1>5. ASSUME pc' = "patch"
      PROVE  Fits(MergePatch(a, e, new')) /\ MergePatch(a, e, new') \in Status
  <2>1. CASE e.phase = "PendingValidation" /\ new' = AfterValidation(seenCR.spec, e)
    <3>1. AfterValidation(seenCR.spec, e) \in Status
      BY <1>1, AfterValidationType
    <3> QED
      BY <1>1, <2>1, <3>1, ValidationFits, MergePatchType
  <2>2. CASE new' = e
    <3>1. MergePatch(a, e, e) = a
      BY <1>1 DEF MergePatch, Patched, Status
    <3> QED
      BY <1>1, <2>2, <3>1, NothingWritten
  <2>3. \/ e.phase = "PendingValidation" /\ new' = AfterValidation(seenCR.spec, e)
        \/ new' = e
    BY <1>1, <1>5 DEF BeginPass, WithPhaseDefaulted, StoppedPhases, Status
  <2> QED
    BY <2>1, <2>2, <2>3
<1>6. \A n \in Status : Fits(n) => Fits(n)'
  BY <1>2, FitsStays
<1>7. pc' = "patch" => \E n \in Status : n = MergePatch(a, e, new') /\ Fits(n)'
  BY <1>5, <1>6
<1>8. pc' = "patch" => Fits(Patching(new))'
  BY <1>2, <1>7 DEF Patching
<1> QED
  BY <1>1, <1>2, <1>3, <1>4, <1>8, CopiesEarned DEF PassLags

(* The pass goes on: it has read what it had read. *)
LEMMA OnLags ==
    ASSUME LagInv, [Next]_vars, "outage" \notin Faults, cr'.status = cr.status,
           pc # "idle", orig' = orig,
           pc' # "patch" => new' = new /\ pc # "patch",
           pc' = "patch" => NewFits
    PROVE  PassLags'
<1> DEFINE o == orig.status
<1>1. /\ Earned(o) /\ Follows(o, seenCR.status) /\ Follows(o, cr.status)
      /\ pc # "patch" => new = WithPhaseDefaulted(o)
      /\ o \in Status
  BY DEF LagInv, PassLags, OrderInv, GateInv, TypeInv, TypeOK, Resource
<1>2. seenCR'.status \in {seenCR.status, cr.status}
  BY CopiesMove DEF LagInv, OrderInv, GateInv
<1>3. Earned(o)'
  <2>1. \A st \in {o} : Earned(st)'
    BY <1>1, EarnedStays
  <2>2. o' = o
    OBVIOUS
  <2> QED
    BY <2>1, <2>2
<1>4. Follows(o, seenCR'.status) /\ Follows(o, cr'.status)
  BY <1>1, <1>2
<1>5. ASSUME pc' = "patch" PROVE Fits(Patching(new))'
  <2>1. /\ cr.status \in Status /\ new' \in Status /\ Patching(new') \in Status
        /\ Fits(Patching(new'))
    BY <1>1, <1>5, MergePatchType, CopiesGoOn DEF NewFits, Patching
  <2>2. \E n \in Status : n = Patching(new') /\ Fits(n)'
    BY <2>1, FitsStays
  <2> QED
    BY <2>2 DEF Patching
<1> QED
  BY <1>1, <1>3, <1>4, <1>5 DEF PassLags

(* Every step of the pass, and every other one. *)
LEMMA PassStaysLagging ==
    ASSUME LagInv, [Next]_vars, "outage" \notin Faults, "podLoss" \notin Faults
    PROVE  PassLags'
<1>1. CASE pc' = "idle"
  BY <1>1 DEF PassLags
<1>2. CASE BeginPass
  BY <1>2, BeginLags
<1>3. ASSUME GetTriageJob \/ CreateTriageJob \/ GetFixJob \/ CreateFixJob, pc' # "idle"
      PROVE  PassLags'
  <2>1. /\ cr' = cr /\ orig' = orig /\ pc # "idle"
        /\ pc' # "patch" => new' = new /\ pc # "patch"
    BY <1>3 DEF GetTriageJob, CreateTriageJob, GetFixJob, CreateFixJob, PassEnds
  <2>2. pc' = "patch" => NewFits
    BY <1>3, GetTriageJobFits, CreateTriageJobFits, GetFixJobFits, CreateFixJobFits
  <2> QED
    BY <2>1, <2>2, OnLags
<1>4. CASE UNCHANGED <<pc, orig, new>> /\ cr'.status = cr.status /\ pc # "idle"
  <2>1. new \in Status /\ (pc = "patch" => Fits(Patching(new)))
    BY <1>4 DEF LagInv, PassLags, OrderInv, GateInv, TypeInv, TypeOK
  <2>2. pc' = "patch" => NewFits
    BY <1>4, <2>1 DEF NewFits
  <2> QED
    BY <1>4, <2>2, OnLags
<1>5. CASE /\ ~BeginPass /\ ~GetTriageJob /\ ~CreateTriageJob /\ ~GetFixJob
           /\ ~CreateFixJob
  <2>1. pc' = "idle" \/ (UNCHANGED <<pc, orig, new>> /\ cr'.status = cr.status)
    BY <1>5
       DEF LagInv, OrderInv, GateInv, TypeInv, TypeOK, Resource,
           Next, PassProgress, PatchStatus, ReturnError, Crash, SyncCR, SyncJobs,
           SetApproved, SetMaxFixAttempts, TriagePodEnds, TriagePodSucceeds,
           TriagePodFails, TriageJobExpires, FixPodEnds, FixPodSucceeds,
           FixPodFails, FixJobGetsNoPod, FixJobExpires, vars, passVars, PassEnds
  <2> QED
    BY <1>1, <1>4, <2>1
<1> QED
  BY <1>1, <1>2, <1>3, <1>5

(* Every step keeps the stored status one stage ahead at most. *)
LEMMA LagStep ==
    ASSUME LagInv, [Next]_vars, "outage" \notin Faults, "podLoss" \notin Faults
    PROVE  LagInv'
<1>1. OrderInv'
  BY OrderStep DEF LagInv
<1>2. ReportsReal' /\ JobsSeen' /\ SameCap'
  BY JobsStaySeen, CapStays
<1>3. PassLags'
  BY PassStaysLagging
<1> QED
  BY <1>1, <1>2, <1>3, CopiesEarned DEF LagInv

(* At first nothing has been seen, and the empty status says nothing. *)
LEMMA InitLagInv == Init => LagInv
<1> SUFFICES ASSUME Init PROVE LagInv
  OBVIOUS
<1>1. OrderInv
  BY InitOrderInv
<1>2. /\ cr.status = EmptyStatus /\ seenCR = cr /\ pc = "idle"
      /\ ReportsReal /\ JobsSeen /\ SameCap /\ PassLags
  BY DEF Init, ReportsReal, JobsSeen, SameCap, PassLags, NoJob
<1>3. CurrentAttempt(EmptyStatus) = 1 /\ Level(EmptyStatus) = 0
  BY DEF CurrentAttempt, EmptyStatus, Level, Triaging
<1>4. Announced(EmptyStatus) /\ Awaits(EmptyStatus) = "Unset"
  BY DEF Announced, Awaits, EmptyStatus, ConditionType, Triaging
<1>5. \A j \in Attempts : ~(j < CurrentAttempt(EmptyStatus))
  BY <1>3 DEF Attempts
<1>6. EmptyStatus.attempt = 0 /\ EmptyStatus.jobName = 0 /\ EmptyStatus.pr = 0
  BY DEF EmptyStatus, NoName, NoPR
<1>7. EmptyStatus.phase \in Triaging
  BY DEF EmptyStatus, Triaging
<1>8. PICK s \in Status : s = EmptyStatus
  BY EmptyStatusType
<1>9. /\ s.attempt = 0 /\ s.jobName = 0 /\ s.pr = 0
      /\ CurrentAttempt(s) = 1 /\ Level(s) = 0
  BY <1>3, <1>6, <1>8
<1>10. s.jobName <= CurrentAttempt(s) /\ s.jobName = NoName /\ s.pr = NoPR
  BY <1>9 DEF NoName, NoPR
<1>11. Earned(s)
  <2>1. /\ s.phase \in Triaging /\ Announced(s) /\ Awaits(s) = "Unset"
        /\ \A j \in Attempts : ~(j < CurrentAttempt(s))
    BY <1>4, <1>5, <1>7, <1>8
  <2>2. s.phase # "PROpen" /\ s.phase # "Failed"
    BY <2>1 DEF Triaging
  <2> QED
    BY <1>9, <1>10, <2>1, <2>2 DEF Earned
<1>12. Follows(s, s)
  BY <1>9, <1>10 DEF Follows
<1>13. s = cr.status /\ s = seenCR.status
  BY <1>2, <1>8
<1> QED
  BY <1>1, <1>2, <1>11, <1>12, <1>13 DEF LagInv

(* However late the caches are, the stored status is at the stage of the one a
   pass has read, or at the next, and says nothing the caches have not shown. *)
THEOREM LagInvariant ==
    ASSUME "outage" \notin Faults, "podLoss" \notin Faults
    PROVE  Spec => []LagInv
<1>1. LagInv /\ [Next]_vars => LagInv'
  BY LagStep
<1> QED
  BY <1>1, InitLagInv, PTL DEF Spec

(* PROpen is set for a pull request that the Job of that attempt opened, also
   by the merge patch of a pass that has read an old status or an old Job. *)
THEOREM PROpenIsRealWithStaleCaches ==
    ASSUME "outage" \notin Faults, "podLoss" \notin Faults
    PROVE  Spec => []PROpenIsReal
<1>1. LagInv => PROpenIsReal
  BY DEF LagInv, Earned, PROpenIsReal, phase, FixJobName
<1> QED
  BY <1>1, LagInvariant, PTL

(* The conditions announce the phase, although phase and conditions may come
   from two passes: what the two have decided on the same Job is the same,
   unless spec.maxFixAttempts has been edited in between. *)
THEOREM ConditionsMatchPhaseWithStaleCaches ==
    ASSUME "outage" \notin Faults, "podLoss" \notin Faults, "edit" \notin Faults
    PROVE  Spec => []ConditionsMatchPhase
<1>1. LagInv => ConditionsMatchPhase
  BY DEF LagInv, Earned, Announced, Awaits, NoEdit, ConditionsMatchPhase, phase
<1> QED
  BY <1>1, LagInvariant, PTL
=============================================================================
