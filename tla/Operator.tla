------------------------------- MODULE Operator -------------------------------
(***************************************************************************)
(* The operator and the cluster around it, for one IssueResolution: the    *)
(* reconciler (one worker per resource, so one pass at a time), the stored *)
(* resource, the informer caches the reconciler reads from, the triage and *)
(* fix Jobs, the branches and pull requests the fix Jobs leave on GitHub,  *)
(* and the human who approves.                                             *)
(*                                                                         *)
(* A pass is cut at its API calls: read the resource, look the Job up,     *)
(* create it, patch the status.  Anything may happen in between, and a     *)
(* pass may stop at any of them.                                           *)
(*                                                                         *)
(* The kinds of fault a behaviour may contain are given by Faults:         *)
(*   "crash"      the manager process dies and another one starts          *)
(*   "error"      an API call of a pass fails and the pass returns         *)
(*   "lag"        the informer caches lag behind the API server            *)
(*   "outage"     the operator is away for longer than the TTL of a        *)
(*                finished Job (3600 s)                                    *)
(*   "podLoss"    the Pod of a complete Job is not in the Pod cache        *)
(*   "noPod"      a fix Job fails without ever having had a Pod            *)
(*   "lostReport" a fix Pod opens a pull request it does not report        *)
(*   "edit"       spec.maxFixAttempts is edited during the resource's life *)
(***************************************************************************)
EXTENDS Reconcile

CONSTANTS
    Faults,
    TriageResults,      \* verdicts a triage Pod that exits 0 may report
    MaxInterruptions    \* bound: passes that crash or fail

FaultKind == {"crash", "error", "lag", "outage", "podLoss", "noPod",
              "lostReport", "edit"}

ASSUME FaultsAssumption == Faults \subseteq FaultKind
ASSUME TriageResultsAssumption == TriageResults \subseteq Verdict
ASSUME MaxInterruptionsAssumption == MaxInterruptions \in Nat

VARIABLES
    (* the API server *)
    cr,             \* the stored IssueResolution: spec and status
    triageJob,      \* the stored Job "<name>-triage"
    fixJob,         \* the stored Jobs "<name>-fix-<k>"
    verdict,        \* what the successful Pod of the triage Job reported
    report,         \* the PR the successful Pod of each fix Job reported
    (* the informer caches of the manager *)
    seenCR, seenTriageJob, seenFixJob,
    (* the pass under way *)
    pc,             \* the API call the pass does next
    orig,           \* the resource as the pass read it
    new,            \* the status the pass computes
    (* GitHub *)
    remote,         \* the most each attempt has left: nothing, a branch, a PR
    (* history *)
    everApproved,   \* spec.approved has been true
    everAccepted,   \* a triage Pod has reported an acceptable verdict
    granted,        \* the largest maxFixAttempts there has been
    launched,       \* the attempts whose fix Job has been created
    succeeded,      \* the Jobs that have been complete; 0 is the triage Job
    interruptions   \* passes that crashed or failed

clusterVars == <<triageJob, fixJob, verdict, report>>
cacheVars   == <<seenCR, seenTriageJob, seenFixJob>>
passVars    == <<pc, orig, new>>
historyVars == <<everApproved, everAccepted, granted, launched, succeeded,
                 interruptions>>
vars == <<cr, clusterVars, cacheVars, passVars, remote, historyVars>>

PassStep == {"idle", "getTriageJob", "createTriageJob",
             "getFixJob", "createFixJob", "patch"}

Resource == [spec: ResourceSpec, status: Status]

NothingRead == [spec |-> [approved |-> FALSE, maxFixAttempts |-> 1],
                status |-> EmptyStatus]

TypeOK ==
    /\ cr \in Resource
    /\ seenCR \in Resource
    /\ triageJob \in Job
    /\ seenTriageJob \in Job
    /\ fixJob \in [Attempts -> Job]
    /\ seenFixJob \in [Attempts -> Job]
    /\ verdict \in Verdict
    /\ report \in [Attempts -> 0..AttemptCap]
    /\ pc \in PassStep
    /\ orig \in Resource
    /\ new \in Status
    /\ remote \in [Attempts -> {"none", "branch", "pr"}]
    /\ everApproved \in BOOLEAN
    /\ everAccepted \in BOOLEAN
    /\ granted \in Attempts
    /\ launched \subseteq Attempts
    /\ succeeded \subseteq 0..AttemptCap
    /\ interruptions \in 0..MaxInterruptions

-----------------------------------------------------------------------------
(***************************************************************************)
(* The GitHub Action creates the resource, and the samples of              *)
(* config/samples create it approved.                                      *)
(***************************************************************************)
Init ==
    /\ cr \in [spec: ResourceSpec, status: {EmptyStatus}]
    /\ seenCR = cr
    /\ triageJob = NoJob /\ seenTriageJob = NoJob
    /\ fixJob = [k \in Attempts |-> NoJob]
    /\ seenFixJob = fixJob
    /\ verdict = Unreadable
    /\ report = [k \in Attempts |-> NoPR]
    /\ pc = "idle"
    /\ orig = NothingRead
    /\ new = EmptyStatus
    /\ remote = [k \in Attempts |-> "none"]
    /\ everApproved = cr.spec.approved
    /\ everAccepted = FALSE
    /\ granted = cr.spec.maxFixAttempts
    /\ launched = {}
    /\ succeeded = {}
    /\ interruptions = 0

(***************************************************************************)
(* Without "lag" the caches follow the API server at once; with it they    *)
(* keep their content until SyncCR or SyncJobs.                            *)
(***************************************************************************)
CacheCR   == seenCR' = IF "lag" \in Faults THEN seenCR ELSE cr'
CacheJobs == IF "lag" \in Faults
             THEN UNCHANGED <<seenTriageJob, seenFixJob>>
             ELSE seenTriageJob' = triageJob' /\ seenFixJob' = fixJob'

(***************************************************************************)
(* A pass that ends forgets what it read and computed.                     *)
(***************************************************************************)
PassEnds == pc' = "idle" /\ orig' = NothingRead /\ new' = EmptyStatus

-----------------------------------------------------------------------------
(* The reconciler *)

(***************************************************************************)
(* Reconcile: read the resource from the cache and dispatch on its phase.  *)
(* PROpen is dispatched to reconcileFix, which returns at once.            *)
(***************************************************************************)
BeginPass ==
    LET st == WithPhaseDefaulted(seenCR.status)
    IN  /\ pc = "idle"
        /\ orig' = seenCR
        /\ \/ /\ st.phase = "Triage"
              /\ pc' = "getTriageJob" /\ new' = st
           \/ /\ st.phase = "PendingValidation"
              /\ pc' = "patch" /\ new' = AfterValidation(seenCR.spec, st)
           \/ /\ st.phase \in {"Ready", "Executing"}
              /\ pc' = "getFixJob" /\ new' = st
           \/ /\ st.phase \in StoppedPhases
              /\ pc' = "patch" /\ new' = st
        /\ UNCHANGED <<cr, clusterVars, cacheVars, remote, historyVars>>

(***************************************************************************)
(* The Pods of a complete Job are listed from a cache of their own, which  *)
(* may not have the terminated container, or not any more.                 *)
(***************************************************************************)
PodVisible == IF "podLoss" \in Faults THEN BOOLEAN ELSE {TRUE}

GetTriageJob ==
    /\ pc = "getTriageJob"
    /\ \/ /\ seenTriageJob.state = "absent"
          /\ pc' = "createTriageJob"
          /\ UNCHANGED new
       \/ /\ seenTriageJob.state # "absent"
          /\ pc' = "patch"
          /\ \E visible \in PodVisible :
                new' = AfterTriageJob(new, seenTriageJob,
                                      IF visible THEN verdict ELSE Unreadable)
    /\ UNCHANGED <<cr, clusterVars, cacheVars, orig, remote, historyVars>>

(***************************************************************************)
(* Create is refused when a Job of the name exists; the pass then returns  *)
(* the error and patches nothing.                                          *)
(***************************************************************************)
CreateTriageJob ==
    /\ pc = "createTriageJob"
    /\ \/ /\ triageJob.state = "absent"
          /\ triageJob' = NewJob
          /\ verdict' = Unreadable
          /\ new' = TriageJobCreated(new)
          /\ pc' = "patch"
          /\ UNCHANGED orig
       \/ /\ triageJob.state # "absent"
          /\ PassEnds
          /\ UNCHANGED <<triageJob, verdict>>
    /\ UNCHANGED <<cr, fixJob, report, seenCR, remote, historyVars>>
    /\ CacheJobs

GetFixJob ==
    LET k == CurrentAttempt(new)
    IN  /\ pc = "getFixJob"
        /\ \/ /\ seenFixJob[k].state = "absent" /\ MayCreateFixJob(new)
              /\ pc' = "createFixJob"
              /\ UNCHANGED new
           \/ /\ seenFixJob[k].state = "absent" /\ ~MayCreateFixJob(new)
              /\ pc' = "patch"
              /\ UNCHANGED new
           \/ /\ seenFixJob[k].state # "absent"
              /\ pc' = "patch"
              /\ \E visible \in PodVisible :
                    new' = AfterFixJob(orig.spec, new, seenFixJob[k],
                                       IF visible THEN report[k] ELSE NoPR)
        /\ UNCHANGED <<cr, clusterVars, cacheVars, orig, remote, historyVars>>

CreateFixJob ==
    LET k == CurrentAttempt(new)
    IN  /\ pc = "createFixJob"
        /\ \/ /\ fixJob[k].state = "absent"
              /\ fixJob' = [fixJob EXCEPT ![k] = NewJob]
              /\ report' = [report EXCEPT ![k] = NoPR]
              /\ launched' = launched \cup {k}
              /\ new' = FixJobCreated(new)
              /\ pc' = "patch"
              /\ UNCHANGED orig
           \/ /\ fixJob[k].state # "absent"
              /\ PassEnds
              /\ UNCHANGED <<fixJob, report, launched>>
        /\ UNCHANGED <<cr, triageJob, verdict, seenCR, remote, everApproved,
                       everAccepted, granted, succeeded, interruptions>>
        /\ CacheJobs

PatchStatus ==
    /\ pc = "patch"
    /\ cr' = [cr EXCEPT !.status = MergePatch(cr.status, orig.status, new)]
    /\ PassEnds
    /\ UNCHANGED <<clusterVars, seenTriageJob, seenFixJob, remote, historyVars>>
    /\ CacheCR

(***************************************************************************)
(* Reconcile returns an error of its Get, Create and Patch calls without a *)
(* patch.  An error of listing the Pods it takes for an unreadable result  *)
(* (controller.go:189, 353): that is the fault "podLoss".                  *)
(***************************************************************************)
ReturnError ==
    /\ "error" \in Faults
    /\ pc # "idle" /\ interruptions < MaxInterruptions
    /\ interruptions' = interruptions + 1
    /\ PassEnds
    /\ UNCHANGED <<cr, clusterVars, cacheVars, remote, everApproved,
                   everAccepted, granted, launched, succeeded>>

(***************************************************************************)
(* The manager stops in the middle of a pass; the next one lists the       *)
(* resource and the Jobs afresh.                                           *)
(***************************************************************************)
Crash ==
    /\ "crash" \in Faults
    /\ pc # "idle" /\ interruptions < MaxInterruptions
    /\ interruptions' = interruptions + 1
    /\ seenCR' = cr /\ seenTriageJob' = triageJob /\ seenFixJob' = fixJob
    /\ PassEnds
    /\ UNCHANGED <<cr, clusterVars, remote, everApproved, everAccepted,
                   granted, launched, succeeded>>

(***************************************************************************)
(* Watch events: a cache catches up with the API server.                   *)
(***************************************************************************)
SyncCR ==
    /\ seenCR # cr
    /\ seenCR' = cr
    /\ UNCHANGED <<cr, clusterVars, seenTriageJob, seenFixJob, passVars, remote,
                   historyVars>>

SyncJobs ==
    /\ <<seenTriageJob, seenFixJob>> # <<triageJob, fixJob>>
    /\ seenTriageJob' = triageJob /\ seenFixJob' = fixJob
    /\ UNCHANGED <<cr, clusterVars, seenCR, passVars, remote, historyVars>>

-----------------------------------------------------------------------------
(* The human and the GitHub Action: they write spec and never status *)

SetApproved ==
    /\ \E b \in BOOLEAN : cr' = [cr EXCEPT !.spec.approved = b]
    /\ cr' # cr
    /\ everApproved' = (everApproved \/ cr'.spec.approved)
    /\ UNCHANGED <<clusterVars, seenTriageJob, seenFixJob, passVars, remote,
                   everAccepted, granted, launched, succeeded, interruptions>>
    /\ CacheCR

SetMaxFixAttempts ==
    /\ "edit" \in Faults
    /\ \E m \in Attempts :
          /\ cr' = [cr EXCEPT !.spec.maxFixAttempts = m]
          /\ granted' = IF m > granted THEN m ELSE granted
    /\ cr' # cr
    /\ UNCHANGED <<clusterVars, seenTriageJob, seenFixJob, passVars, remote,
                   everApproved, everAccepted, launched, succeeded, interruptions>>
    /\ CacheCR

-----------------------------------------------------------------------------
(* Jobs and their Pods *)

(***************************************************************************)
(* buildTriageJob sets BackoffLimit to 1: the Job starts a second Pod when *)
(* the first one fails, and fails when the second one does.                *)
(***************************************************************************)
TriageBackoffLimit == 1

TriagePodSucceeds ==
    /\ triageJob.state = "active"
    /\ triageJob' = [triageJob EXCEPT !.state = "complete"]
    /\ \E v \in TriageResults :
          /\ verdict' = v
          /\ everAccepted' = (everAccepted \/ Acceptable(v))
    /\ succeeded' = succeeded \cup {0}
    /\ UNCHANGED <<cr, fixJob, report, seenCR, passVars, remote, everApproved,
                   granted, launched, interruptions>>
    /\ CacheJobs

TriagePodFails ==
    /\ triageJob.state = "active"
    /\ triageJob' = [state |-> IF triageJob.failedPods < TriageBackoffLimit
                               THEN "active" ELSE "failed",
                     failedPods |-> triageJob.failedPods + 1]
    /\ UNCHANGED <<cr, fixJob, verdict, report, seenCR, passVars, remote,
                   historyVars>>
    /\ CacheJobs

(***************************************************************************)
(* A fix Pod that exits 0 has pushed its branch, opened a pull request and *)
(* written the termination message; a failure to write it is a warning.    *)
(* A branch that an earlier Job of the name left may refuse the push, or   *)
(* take it, if someone has merged it since (FixWorker tells which).        *)
(***************************************************************************)
FixPodSucceeds(k) ==
    /\ fixJob[k].state = "active"
    /\ remote' = [remote EXCEPT ![k] = "pr"]
    /\ fixJob' = [fixJob EXCEPT ![k].state = "complete"]
    /\ \/ report' = [report EXCEPT ![k] = k]
       \/ "lostReport" \in Faults /\ UNCHANGED report
    /\ succeeded' = succeeded \cup {k}
    /\ UNCHANGED <<cr, triageJob, verdict, seenCR, passVars, everApproved,
                   everAccepted, granted, launched, interruptions>>
    /\ CacheJobs

(***************************************************************************)
(* buildFixJob sets BackoffLimit to 0: one failed Pod fails the Job.  The  *)
(* Pod may have failed before the push, between push and pull request, or  *)
(* have been killed by the deadline after it opened the pull request.      *)
(***************************************************************************)
FixPodFails(k) ==
    /\ fixJob[k].state = "active"
    /\ fixJob' = [fixJob EXCEPT ![k] = [state |-> "failed", failedPods |-> 1]]
    /\ \/ UNCHANGED remote
       \/ /\ remote[k] # "pr"
          /\ \E left \in {"branch"} \cup (IF "lostReport" \in Faults
                                          THEN {"pr"} ELSE {}) :
                remote' = [remote EXCEPT ![k] = left]
    /\ UNCHANGED <<cr, triageJob, verdict, report, seenCR, passVars, historyVars>>
    /\ CacheJobs

(***************************************************************************)
(* ActiveDeadlineSeconds expires while the Job has no Pod (quota, a        *)
(* missing service account): the Job fails with job.Status.Failed = 0.     *)
(***************************************************************************)
FixJobGetsNoPod(k) ==
    /\ "noPod" \in Faults
    /\ fixJob[k].state = "active"
    /\ fixJob' = [fixJob EXCEPT ![k].state = "failed"]
    /\ UNCHANGED <<cr, triageJob, verdict, report, seenCR, passVars, remote,
                   historyVars>>
    /\ CacheJobs

(***************************************************************************)
(* TTLSecondsAfterFinished deletes a finished Job and its Pods an hour     *)
(* after it finished.  Without an outage the operator has handled the Job  *)
(* by then: the phase has left the one the Job belongs to, and the caches  *)
(* and no pass are behind.                                                 *)
(***************************************************************************)
AnHourLater(handled) ==
    "outage" \in Faults \/ (handled /\ pc = "idle" /\ seenCR = cr)

TriageJobHandled == cr.status.phase \notin {"", "Triage"}

FixJobHandled(k) == cr.status.attempt > k \/ cr.status.phase \in StoppedPhases

TriageJobExpires ==
    /\ triageJob.state \in {"complete", "failed"}
    /\ AnHourLater(TriageJobHandled)
    /\ triageJob' = NoJob /\ verdict' = Unreadable
    /\ UNCHANGED <<cr, fixJob, report, seenCR, passVars, remote, historyVars>>
    /\ CacheJobs

FixJobExpires(k) ==
    /\ fixJob[k].state \in {"complete", "failed"}
    /\ AnHourLater(FixJobHandled(k))
    /\ fixJob' = [fixJob EXCEPT ![k] = NoJob]
    /\ report' = [report EXCEPT ![k] = NoPR]
    /\ UNCHANGED <<cr, triageJob, verdict, seenCR, passVars, remote, historyVars>>
    /\ CacheJobs

-----------------------------------------------------------------------------
PassProgress ==
    BeginPass \/ GetTriageJob \/ CreateTriageJob \/ GetFixJob \/ CreateFixJob
    \/ PatchStatus

TriagePodEnds == TriagePodSucceeds \/ TriagePodFails
FixPodEnds(k) == FixPodSucceeds(k) \/ FixPodFails(k) \/ FixJobGetsNoPod(k)

Next ==
    \/ PassProgress
    \/ ReturnError \/ Crash
    \/ SyncCR \/ SyncJobs
    \/ SetApproved \/ SetMaxFixAttempts
    \/ TriagePodEnds \/ TriageJobExpires
    \/ \E k \in Attempts : FixPodEnds(k) \/ FixJobExpires(k)

Spec == Init /\ [][Next]_vars

(***************************************************************************)
(* Fairness.  A pass always runs again (WorkQueue shows that the requeues  *)
(* of the code suffice for what must go on).  Watches deliver.  A Pod      *)
(* ends: fix Jobs have a deadline of 600 s; the triage worker bounds its   *)
(* two calls by 120 s and 60 s.  That a triage Pod starts at all is an     *)
(* assumption, for its Job has no deadline.  Faults, edits, approvals and  *)
(* deletions of finished Jobs are never owed to anybody.                   *)
(***************************************************************************)
Fairness ==
    /\ WF_vars(PassProgress)
    /\ WF_vars(SyncCR) /\ WF_vars(SyncJobs)
    /\ WF_vars(TriagePodEnds)
    /\ \A k \in Attempts : WF_vars(FixPodEnds(k))

FairSpec == Spec /\ Fairness
-----------------------------------------------------------------------------
(* Safety *)

phase == cr.status.phase

(***************************************************************************)
(* No fix Job is ever created before a human approved and a triage Pod     *)
(* reported an issue that is in scope and not suspicious.                  *)
(***************************************************************************)
HumanGate == launched # {} => everApproved /\ everAccepted

(***************************************************************************)
(* The stored verdict agrees with the stored phase: an issue is never      *)
(* waiting for approval, being fixed or proposed while status.triage calls *)
(* it out of scope, suspicious or unreadable.                              *)
(***************************************************************************)
VerdictBehindPhase ==
    phase \in {"PendingValidation", "Ready", "Executing", "PROpen"}
        => Acceptable(cr.status)

(***************************************************************************)
(* The attempts of an issue never run side by side, whatever the           *)
(* reconciler has read of their Jobs.                                      *)
(***************************************************************************)
OneFixJobAtATime ==
    \A j, k \in Attempts :
        fixJob[j].state = "active" /\ fixJob[k].state = "active" => j = k

(***************************************************************************)
(* handleFixFailure never hands out more attempts than the spec has ever   *)
(* granted.                                                                *)
(***************************************************************************)
AttemptsGranted == launched \subseteq 1..granted

(***************************************************************************)
(* PROpen is written for a pull request that exists, and with the attempt  *)
(* and Job that opened it.                                                 *)
(***************************************************************************)
PROpenIsReal ==
    phase = "PROpen" =>
        /\ cr.status.pr \in Attempts
        /\ remote[cr.status.pr] = "pr"
        /\ cr.status.attempt = cr.status.pr
        /\ cr.status.jobName = FixJobName(cr.status.attempt)

(***************************************************************************)
(* An issue gets one pull request, over all its attempts.                  *)
(***************************************************************************)
AtMostOnePR ==
    \A j, k \in Attempts : remote[j] = "pr" /\ remote[k] = "pr" => j = k

(***************************************************************************)
(* The phase Executing means that the Job of the current attempt has been  *)
(* launched (docs/operator-architecture.md:126, "Job 2 launched").         *)
(***************************************************************************)
ExecutingIsLaunched ==
    phase = "Executing" => CurrentAttempt(cr.status) \in launched

(***************************************************************************)
(* status.execution.jobName is the Job of the current or last fix run      *)
(* (issueresolution_types.go:164).                                         *)
(***************************************************************************)
JobNameIsCurrent ==
    phase \in {"Executing", "PROpen"} =>
        cr.status.jobName = FixJobName(CurrentAttempt(cr.status))

(***************************************************************************)
(* The conditions that announce a phase are True in that phase and in no   *)
(* other, although they are replaced as one list.                          *)
(***************************************************************************)
ConditionsMatchPhase ==
    /\ cr.status.conditions["Failed"] = "True" <=> phase = "Failed"
    /\ cr.status.conditions["PROpen"] = "True" <=> phase = "PROpen"
    /\ cr.status.conditions["AwaitingApproval"] = "True" <=> phase = "PendingValidation"

(***************************************************************************)
(* A Job that has succeeded is not launched again for the same phase       *)
(* (docs/operator-architecture.md:144).                                    *)
(***************************************************************************)
TriageJobLaunch == triageJob.state = "absent" /\ triageJob'.state = "active"
FixJobLaunch(k) == fixJob[k].state = "absent" /\ fixJob'[k].state = "active"

SucceededNotRelaunched ==
    [][/\ TriageJobLaunch => 0 \notin succeeded
       /\ \A k \in Attempts : FixJobLaunch(k) => k \notin succeeded]_vars

(***************************************************************************)
(* A fix Job whose name the stored status carries is never created a       *)
(* second time, however long ago it finished and was deleted (the guard of *)
(* issueresolution_controller.go:322).                                     *)
(***************************************************************************)
RecordedJobNotRecreated ==
    [][\A k \in Attempts :
           FixJobLaunch(k) => cr.status.jobName # FixJobName(k)]_vars

(***************************************************************************)
(* A new attempt is launched only when the last one has ended without a    *)
(* pull request of its own.                                                *)
(***************************************************************************)
RetryOnlyAfterFailure ==
    [][\A k \in Attempts : FixJobLaunch(k) /\ k > 1 =>
           /\ k - 1 \in launched
           /\ fixJob[k - 1].state # "active"
           /\ remote[k - 1] # "pr"]_vars

(***************************************************************************)
(* Triage ends in Failed only when the triage Job has failed, or when its  *)
(* result is unreadable (docs/operator-architecture.md:145).               *)
(***************************************************************************)
FailedWithTriageJob ==
    [][(phase \in {"", "Triage"} /\ phase' = "Failed") =>
           triageJob.state = "failed" \/ cr'.status.parseError]_vars

-----------------------------------------------------------------------------
(* Liveness, under FairSpec *)

(***************************************************************************)
(* The failure of a fix Job is acted on: by the next attempt or by Failed  *)
(* (docs/operator-architecture.md:145).                                    *)
(***************************************************************************)
FailedJobIsNoticed ==
    \A k \in Attempts :
        fixJob[k].state = "failed"
            ~> cr.status.attempt > k \/ phase \in StoppedPhases

(***************************************************************************)
(* A pull request that a Pod has reported reaches the resource.            *)
(***************************************************************************)
ReportIsRecorded ==
    \A k \in Attempts : report[k] = k ~> phase = "PROpen" /\ cr.status.pr = k

(***************************************************************************)
(* An approval that stands is acted on.                                    *)
(***************************************************************************)
ApprovalIsActedOn ==
    <>[]cr.spec.approved => (phase = "PendingValidation" ~> launched # {})

-----------------------------------------------------------------------------
(* Refinement *)

(***************************************************************************)
(* As long as the caches do not lag behind the operator's own writes, the  *)
(* stored resource and the fix Jobs created follow the issue lifecycle,    *)
(* whatever crashes, fails, expires or is edited; and, where no finished   *)
(* Job is lost, the lifecycle goes on to its end.                          *)
(***************************************************************************)
Issue == INSTANCE IssueLifecycle WITH
             phase    <- WithPhaseDefaulted(cr.status).phase,
             approved <- everApproved,
             attempt  <- CurrentAttempt(cr.status),
             runs     <- launched

FollowsLifecycle == Issue!Lifecycle
LifecycleGoesOn  == Issue!FairLifecycle
=============================================================================
