---------------------------- MODULE Attempts_proofs ----------------------------
(***************************************************************************)
(* The order of the attempts, for every AttemptCap and every set of Faults *)
(* without "outage", stale caches included: attempts run one after the     *)
(* other, each once, and no Job that has succeeded is launched again.      *)
(***************************************************************************)
EXTENDS Operator_proofs

(***************************************************************************)
(* The copies of the status that are about: the stored and the cached one, *)
(* and, while a pass is under way, the one it read and the one it computes.*)
(***************************************************************************)
Copies ==
    {cr.status, seenCR.status} \cup (IF pc = "idle" THEN {} ELSE {orig.status, new})

Ended(j) == j \in launched /\ fixJob[j].state # "active"
Gone(j)  == j \in launched /\ fixJob[j].state = "absent"

(***************************************************************************)
(* A copy that is at an attempt, and an attempt that was launched, have    *)
(* the earlier ones behind them.                                           *)
(***************************************************************************)
EarlierEnded ==
    /\ \A st \in Copies, j \in Attempts : j < CurrentAttempt(st) => Ended(j)
    /\ \A k \in launched, j \in Attempts : j < k => Ended(j)

NotYetLaunched ==
    \A k \in Attempts \ launched :
        /\ fixJob[k] = NoJob /\ seenFixJob[k] = NoJob
        /\ remote[k] = "none" /\ k \notin succeeded

(***************************************************************************)
(* The cached Job may be behind the stored one, but a result it shows is   *)
(* the Job's result; and only a Job that has failed has a failed Pod.      *)
(***************************************************************************)
ResultsFinal ==
    \A k \in Attempts :
        /\ fixJob[k].failedPods > 0 => fixJob[k].state = "failed"
        /\ seenFixJob[k].failedPods > 0 => seenFixJob[k].state = "failed"
        /\ seenFixJob[k].state \in {"complete", "failed"} =>
               fixJob[k].state \in {seenFixJob[k].state, "absent"}

(***************************************************************************)
(* By the time the TTL deletes a Job, no copy is left that would look for  *)
(* it: they are all at a later attempt, or the issue has stopped.          *)
(***************************************************************************)
PastIn(C, j) ==
    \/ \A st \in C : st.attempt > j
    \/ \A st \in C : st.phase \in StoppedPhases

GoneIsPast == \A j \in Attempts : Gone(j) => PastIn(Copies, j)

TriageIsPast ==
    0 \in succeeded /\ triageJob.state = "absent" =>
        \A st \in Copies : st.phase \notin {"", "Triage"}

OrderInv ==
    /\ GateInv
    /\ EarlierEnded /\ NotYetLaunched /\ ResultsFinal /\ GoneIsPast /\ TriageIsPast

-----------------------------------------------------------------------------
(***************************************************************************)
(* Where the copies of the next state come from.  All but the one of a     *)
(* retry take their attempt from one copy and their phase from one that    *)
(* may be another: a merge patch mixes them.                               *)
(***************************************************************************)
Inherited(st) ==
    /\ \E a \in Copies : st.attempt = a.attempt \/ st.attempt = CurrentAttempt(a)
    /\ \E p \in Copies : /\ p.phase \in StoppedPhases => st.phase \in StoppedPhases
                         /\ st.phase \in {"", "Triage"} => p.phase \in {"", "Triage"}

Retried(st) ==
    /\ pc = "getFixJob"
    /\ seenFixJob[CurrentAttempt(new)].state \in {"complete", "failed"}
    /\ st.attempt = CurrentAttempt(new) + 1
    /\ st.phase = "Ready"

(* All copies are statuses. *)
LEMMA CopiesType == TypeOK => Copies \subseteq Status
BY DEF TypeOK, Copies, Resource

(* A copy that is still there is inherited. *)
LEMMA StillThere == ASSUME NEW st \in Copies PROVE Inherited(st)
BY DEF Inherited

(* What the retry, and everything else reconcileFix does, makes of a status. *)
LEMMA AfterFixJobInherits ==
    ASSUME NEW spec \in ResourceSpec, NEW st \in Status, NEW job \in Job,
           NEW pr \in 0..AttemptCap, job.failedPods > 0 => job.state = "failed",
           st.phase \in {"Ready", "Executing"}
    PROVE  LET after == AfterFixJob(spec, st, job, pr)
           IN  \/ /\ after.attempt = st.attempt \/ after.attempt = CurrentAttempt(st)
                  /\ after.phase \notin {"", "Triage"}
               \/ /\ job.state \in {"complete", "failed"}
                  /\ after.attempt = CurrentAttempt(st) + 1
                  /\ after.phase = "Ready"
<1> DEFINE k == CurrentAttempt(st)
<1>1. k \in Attempts
  BY CurrentAttemptType
<1> HIDE DEF k
<1>2. /\ PullRequestOpened(st, pr).attempt = k
      /\ PullRequestOpened(st, pr).phase = "PROpen"
  BY DEF PullRequestOpened, WithCondition, Status, k
<1>3. \/ FixFailed(spec, st).attempt = k + 1 /\ FixFailed(spec, st).phase = "Ready"
      \/ FixFailed(spec, st).attempt = st.attempt /\ FixFailed(spec, st).phase = "Failed"
  BY DEF FixFailed, WithCondition, Status, k
<1>4. /\ [st EXCEPT !.phase = "Executing"].attempt = st.attempt
      /\ [st EXCEPT !.phase = "Executing"].phase = "Executing"
  BY DEF Status
<1> QED
  BY <1>2, <1>3, <1>4 DEF AfterFixJob, Job, k

(* A pass reads the cached copy, and looks at its phase. *)
LEMMA BeginInherits ==
    ASSUME GateInv, BeginPass
    PROVE  \A st \in Copies' : Inherited(st)
<1> USE DEF GateInv, TypeInv
<1> DEFINE st == WithPhaseDefaulted(seenCR.status)
<1>1. seenCR.status \in Status /\ seenCR.spec \in ResourceSpec /\ st \in Status
  BY WithPhaseDefaultedType DEF TypeOK, Resource
<1>2. /\ st.attempt = seenCR.status.attempt
      /\ AfterValidation(seenCR.spec, st).attempt = st.attempt
  BY <1>1, ValidationKeepsAttempt
<1>3. \/ st.phase = seenCR.status.phase
      \/ st.phase = "Triage" /\ seenCR.status.phase = ""
  BY <1>1 DEF WithPhaseDefaulted, Status
<1>4. \/ AfterValidation(seenCR.spec, st).phase = st.phase
      \/ AfterValidation(seenCR.spec, st).phase = "Ready"
  BY <1>1, ValidationPhases
<1>5. \/ new' = st
      \/ new' = AfterValidation(seenCR.spec, st) /\ st.phase = "PendingValidation"
  BY DEF BeginPass
<1>6. orig' = seenCR /\ UNCHANGED <<cr, seenCR>>
  BY DEF BeginPass, cacheVars
<1> HIDE DEF st
<1>7. Inherited(new')
  BY <1>2, <1>3, <1>4, <1>5 DEF Inherited, Copies, StoppedPhases
<1>8. Copies' \subseteq Copies \cup {new'}
  BY <1>6 DEF Copies
<1> QED
  BY <1>7, <1>8, StillThere

(* Triage decides; a Job is created for what was decided. *)
LEMMA TriageInherits ==
    ASSUME GateInv, GetTriageJob \/ CreateTriageJob
    PROVE  \A st \in Copies' : Inherited(st)
<1> USE DEF GateInv, TypeInv
<1>1. /\ new \in Status /\ new.phase = "Triage" /\ seenTriageJob \in Job
      /\ pc # "idle" /\ verdict \in Verdict /\ Unreadable \in Verdict
  BY DEF GetTriageJob, CreateTriageJob, TypeOK, PassOnTrack, Unreadable, Verdict
<1>2. new \in Copies
  BY <1>1 DEF Copies
<1>3. CASE GetTriageJob
  <2>1. \/ new' = new
        \/ \E v \in {verdict, Unreadable} :
              new' = AfterTriageJob(new, seenTriageJob, v)
    BY <1>3 DEF GetTriageJob
  <2>2. new'.attempt = new.attempt
    BY <1>1, <2>1, TriageKeepsAttempt
  <2>3. UNCHANGED <<cr, seenCR, orig>>
    BY <1>3 DEF GetTriageJob, cacheVars
  <2>4. Inherited(new')
    BY <1>1, <1>2, <2>2 DEF Inherited, StoppedPhases
  <2>5. Copies' \subseteq Copies \cup {new'}
    BY <1>1, <2>3 DEF Copies
  <2> QED
    BY <2>4, <2>5, StillThere
<1>4. CASE CreateTriageJob
  <2>1. UNCHANGED <<cr, seenCR>>
    BY <1>4 DEF CreateTriageJob
  <2>2. CASE PassEnds
    <3>1. Copies' \subseteq Copies
      BY <2>1, <2>2 DEF Copies, PassEnds
    <3> QED
      BY <3>1, StillThere
  <2>3. CASE new' = TriageJobCreated(new) /\ UNCHANGED orig
    <3>1. new'.attempt = new.attempt
      BY <1>1, <2>3, WithConditionKeepsAttempt DEF TriageJobCreated
    <3>2. Inherited(new')
      BY <1>1, <1>2, <3>1 DEF Inherited, StoppedPhases
    <3>3. Copies' \subseteq Copies \cup {new'}
      BY <1>1, <2>1, <2>3 DEF Copies
    <3> QED
      BY <3>2, <3>3, StillThere
  <2> QED
    BY <1>4, <2>2, <2>3 DEF CreateTriageJob
<1> QED
  BY <1>3, <1>4

(* Only a look at the fix Job may end in a retry. *)
LEMMA FixInherits ==
    ASSUME GateInv, ResultsFinal, GetFixJob \/ CreateFixJob
    PROVE  \A st \in Copies' : Inherited(st) \/ Retried(st)
<1> USE DEF GateInv, TypeInv
<1> DEFINE k == CurrentAttempt(new)
<1>1. /\ new \in Status /\ new.phase \in {"Ready", "Executing"} /\ pc # "idle"
      /\ orig.spec \in ResourceSpec
  BY DEF GetFixJob, CreateFixJob, TypeOK, PassOnTrack, Resource
<1>2. new \in Copies
  BY <1>1 DEF Copies
<1>3. /\ k \in Attempts /\ seenFixJob[k] \in Job
      /\ report[k] \in 0..AttemptCap /\ NoPR \in 0..AttemptCap
      /\ seenFixJob[k].failedPods > 0 => seenFixJob[k].state = "failed"
  BY <1>1, CurrentAttemptType, AttemptCapAssumption
     DEF TypeOK, NoPR, ResultsFinal
<1>4. CASE GetFixJob
  <2>1. UNCHANGED <<cr, seenCR, orig>>
    BY <1>4 DEF GetFixJob, cacheVars
  <2>2. CASE new' = new
    <3>1. Copies' \subseteq Copies
      BY <1>1, <2>1, <2>2 DEF Copies
    <3> QED
      BY <3>1, StillThere
  <2>3. CASE \E pr \in {report[k], NoPR} :
                new' = AfterFixJob(orig.spec, new, seenFixJob[k], pr)
    <3>1. PICK pr \in 0..AttemptCap :
             new' = AfterFixJob(orig.spec, new, seenFixJob[k], pr)
      BY <1>3, <2>3
    <3>2. \/ /\ new'.attempt = new.attempt \/ new'.attempt = k
             /\ new'.phase \notin {"", "Triage"}
          \/ /\ seenFixJob[k].state \in {"complete", "failed"}
             /\ new'.attempt = k + 1 /\ new'.phase = "Ready"
      BY <1>1, <1>3, <3>1, AfterFixJobInherits
    <3>3. Inherited(new') \/ Retried(new')
      <4>1. pc = "getFixJob"
        BY <1>4 DEF GetFixJob
      <4>2. new.phase \notin StoppedPhases
        BY <1>1 DEF StoppedPhases
      <4> QED
        BY <1>2, <3>2, <4>1, <4>2 DEF Inherited, Retried
    <3>4. Copies' \subseteq Copies \cup {new'}
      BY <1>1, <2>1 DEF Copies
    <3> QED
      BY <3>3, <3>4, StillThere
  <2> QED
    BY <1>4, <2>2, <2>3 DEF GetFixJob
<1>5. CASE CreateFixJob
  <2>1. UNCHANGED <<cr, seenCR>>
    BY <1>5 DEF CreateFixJob
  <2>2. CASE PassEnds
    <3>1. Copies' \subseteq Copies
      BY <2>1, <2>2 DEF Copies, PassEnds
    <3> QED
      BY <3>1, StillThere
  <2>3. CASE new' = FixJobCreated(new) /\ UNCHANGED orig
    <3>1. new'.attempt = k /\ new'.phase = "Executing"
      BY <1>1, <2>3, FixJobCreatedAttempt DEF FixJobCreated, WithCondition, Status
    <3>2. Inherited(new')
      BY <1>1, <1>2, <3>1 DEF Inherited, StoppedPhases
    <3>3. Copies' \subseteq Copies \cup {new'}
      BY <1>1, <2>1, <2>3 DEF Copies
    <3> QED
      BY <3>2, <3>3, StillThere
  <2> QED
    BY <1>5, <2>2, <2>3 DEF CreateFixJob
<1> QED
  BY <1>4, <1>5

(* A patch mixes the stored copy with the computed one. *)
LEMMA PatchInherits ==
    ASSUME GateInv, PatchStatus
    PROVE  \A st \in Copies' : Inherited(st)
<1> USE DEF GateInv, TypeInv
<1>1. /\ cr.status \in Status /\ orig.status \in Status /\ new \in Status
      /\ cr \in Resource /\ pc # "idle"
  BY DEF PatchStatus, TypeOK, Resource
<1>2. cr'.status = MergePatch(cr.status, orig.status, new)
  BY <1>1 DEF PatchStatus, Resource
<1>3. /\ cr'.status.phase \in {cr.status.phase, new.phase}
      /\ cr'.status.attempt \in {cr.status.attempt, new.attempt}
  BY <1>1, <1>2, PatchedPhase, PatchedAttempt
<1>4. {cr.status, new} \subseteq Copies
  BY <1>1 DEF Copies
<1>5. Inherited(cr'.status)
  BY <1>3, <1>4 DEF Inherited
<1>6. Copies' \subseteq Copies \cup {cr'.status}
  BY DEF Copies, PatchStatus, PassEnds, CacheCR
<1> QED
  BY <1>5, <1>6, StillThere

(* No step but those makes a copy that was not there. *)
LEMMA OthersInherit ==
    ASSUME GateInv,
           \/ ReturnError \/ Crash \/ SyncCR \/ SyncJobs
           \/ SetApproved \/ SetMaxFixAttempts
           \/ TriagePodEnds \/ TriageJobExpires
           \/ \E k \in Attempts : FixPodEnds(k) \/ FixJobExpires(k)
           \/ UNCHANGED vars
    PROVE  Copies' \subseteq Copies
<1> USE DEF GateInv, TypeInv
<1>1. CASE ReturnError \/ Crash
  BY <1>1 DEF ReturnError, Crash, PassEnds, Copies, cacheVars
<1>2. CASE SyncCR \/ SyncJobs
  BY <1>2 DEF SyncCR, SyncJobs, Copies, passVars
<1>3. CASE SetApproved \/ SetMaxFixAttempts
  <2>1. cr'.status = cr.status
    BY <1>3 DEF SetApproved, SetMaxFixAttempts, TypeOK, Resource
  <2>2. UNCHANGED <<pc, orig, new>> /\ (seenCR' = seenCR \/ seenCR' = cr')
    BY <1>3 DEF SetApproved, SetMaxFixAttempts, CacheCR, passVars
  <2> QED
    BY <2>1, <2>2 DEF Copies
<1>4. CASE \/ TriagePodEnds \/ TriageJobExpires
           \/ \E k \in Attempts : FixPodEnds(k) \/ FixJobExpires(k)
           \/ UNCHANGED vars
  <2>1. UNCHANGED <<cr, seenCR, pc, orig, new>>
    BY <1>4
       DEF TriagePodEnds, TriagePodSucceeds, TriagePodFails, TriageJobExpires,
           FixPodEnds, FixPodSucceeds, FixPodFails, FixJobGetsNoPod,
           FixJobExpires, passVars, cacheVars, vars
  <2> QED
    BY <2>1 DEF Copies
<1> QED
  BY <1>1, <1>2, <1>3, <1>4

(* So much for every step. *)
LEMMA CopiesFollow ==
    ASSUME GateInv, ResultsFinal, [Next]_vars
    PROVE  \A st \in Copies' : Inherited(st) \/ Retried(st)
BY BeginInherits, TriageInherits, FixInherits, PatchInherits, OthersInherit,
   StillThere
   DEF Next, PassProgress

-----------------------------------------------------------------------------
(***************************************************************************)
(* What a step does to the fix Jobs: it leaves a Job alone, creates one    *)
(* that is absent, ends one that is active, or deletes one that has ended. *)
(***************************************************************************)
Created(k) ==
    /\ pc = "createFixJob" /\ k = CurrentAttempt(new)
    /\ fixJob[k].state = "absent" /\ fixJob'[k] = NewJob
    /\ launched' = launched \cup {k}

EndsNow(k) ==
    /\ fixJob[k].state = "active"
    /\ \/ fixJob'[k].state = "complete" /\ fixJob'[k].failedPods = fixJob[k].failedPods
       \/ fixJob'[k].state = "failed"

Expired(k) ==
    /\ fixJob[k].state \in {"complete", "failed"} /\ fixJob'[k] = NoJob
    /\ AnHourLater(FixJobHandled(k))
    /\ UNCHANGED <<cr, seenCR, pc, orig, new>>

(* Every step does one of these to each fix Job. *)
LEMMA FixJobSteps ==
    ASSUME GateInv, [Next]_vars
    PROVE  \A k \in Attempts :
               \/ /\ fixJob'[k] = fixJob[k] /\ (k \in launched' => k \in launched)
               \/ Created(k)
               \/ EndsNow(k) /\ UNCHANGED launched
               \/ Expired(k) /\ UNCHANGED launched
<1> USE DEF GateInv, TypeInv
<1> TAKE k \in Attempts
<1>0. fixJob \in [Attempts -> Job] /\ fixJob[k] \in Job
  BY DEF TypeOK
<1>1. CASE CreateFixJob
  BY <1>0, <1>1 DEF CreateFixJob, Created
<1>2. ASSUME NEW n \in Attempts, FixPodEnds(n)
      PROVE  \/ fixJob'[k] = fixJob[k]
             \/ EndsNow(k)
  BY <1>0, <1>2 DEF FixPodEnds, FixPodSucceeds, FixPodFails, FixJobGetsNoPod, EndsNow,
                    Job
<1>3. ASSUME NEW n \in Attempts, FixJobExpires(n)
      PROVE  fixJob'[k] = fixJob[k] \/ Expired(k)
  BY <1>0, <1>3 DEF FixJobExpires, Expired, passVars
<1>4. ASSUME NEW n \in Attempts, FixPodEnds(n) \/ FixJobExpires(n)
      PROVE  UNCHANGED launched
  BY <1>4 DEF FixPodEnds, FixPodSucceeds, FixPodFails, FixJobGetsNoPod,
              FixJobExpires, historyVars
<1>5. CASE \/ BeginPass \/ GetTriageJob \/ CreateTriageJob \/ GetFixJob \/ PatchStatus
           \/ ReturnError \/ Crash \/ SyncCR \/ SyncJobs
           \/ SetApproved \/ SetMaxFixAttempts
           \/ TriagePodEnds \/ TriageJobExpires \/ UNCHANGED vars
  <2>1. UNCHANGED <<fixJob, launched>>
    BY <1>5
       DEF BeginPass, GetTriageJob, CreateTriageJob, GetFixJob, PatchStatus,
           ReturnError, Crash, SyncCR, SyncJobs, SetApproved, SetMaxFixAttempts,
           TriagePodEnds, TriagePodSucceeds, TriagePodFails, TriageJobExpires,
           vars, clusterVars, historyVars
  <2> QED
    BY <2>1
<1> QED
  BY <1>1, <1>2, <1>3, <1>4, <1>5 DEF Next, PassProgress

(* Nothing is launched that a copy or a launched attempt has behind it. *)
LEMMA OnlyNewCreated ==
    ASSUME OrderInv, NEW k \in Attempts, Created(k)
    PROVE  k \notin launched
<1> USE DEF OrderInv, GateInv
<1> SUFFICES ASSUME k \in launched PROVE FALSE
  OBVIOUS
<1>1. Gone(k) /\ new \in Copies /\ new.phase \in {"Ready", "Executing"}
  BY DEF Created, Gone, Copies, PassOnTrack
<1>2. CASE new.attempt > k
  <2>1. new.attempt \in 0..AttemptCap /\ k \in 1..AttemptCap
    BY DEF TypeInv, TypeOK, Status, Attempts
  <2> QED
    BY <1>2, <2>1, AttemptCapAssumption DEF Created, CurrentAttempt
<1>3. CASE new.phase \in StoppedPhases
  BY <1>1, <1>3 DEF StoppedPhases
<1> QED
  BY <1>1, <1>2, <1>3 DEF GoneIsPast, PastIn

(* What has ended has ended for good. *)
LEMMA EndedForGood ==
    ASSUME OrderInv, [Next]_vars, NEW j \in Attempts
    PROVE  /\ j \in launched => j \in launched'
           /\ Ended(j) => /\ Ended(j)'
                          /\ fixJob'[j].state \in {fixJob[j].state, "absent"}
<1> USE DEF OrderInv
<1>1. launched \subseteq launched'
  BY DEF Next, PassProgress, BeginPass, GetTriageJob, CreateTriageJob, GetFixJob,
         CreateFixJob, PatchStatus, ReturnError, Crash, SyncCR, SyncJobs,
         SetApproved, SetMaxFixAttempts, TriagePodEnds, TriagePodSucceeds,
         TriagePodFails, TriageJobExpires, FixPodEnds, FixPodSucceeds,
         FixPodFails, FixJobGetsNoPod, FixJobExpires, vars, historyVars
<1>2. ASSUME Ended(j)
      PROVE  /\ fixJob'[j].state # "active"
             /\ fixJob'[j].state \in {fixJob[j].state, "absent"}
  <2>1. ~Created(j)
    BY <1>2, OnlyNewCreated DEF Ended
  <2> QED
    BY <1>2, <2>1, FixJobSteps DEF Ended, EndsNow, Expired, NoJob
<1> QED
  BY <1>1, <1>2 DEF Ended

-----------------------------------------------------------------------------
(* The conjuncts of OrderInv, one lemma each.  A retry takes an attempt
   further only after a result of its Job. *)
LEMMA KeepsEarlierEnded ==
    ASSUME OrderInv, [Next]_vars, TypeInv'
    PROVE  EarlierEnded'
<1> USE DEF OrderInv
<1>0. TypeOK /\ TypeOK' /\ Copies \subseteq Status /\ Copies' \subseteq Status
  <2>1. TypeOK /\ TypeOK'
    BY DEF GateInv, TypeInv
  <2> QED
    BY <2>1, CopiesType DEF TypeOK, Copies, Resource
<1>1. ASSUME NEW st \in Copies', NEW j \in Attempts, j < CurrentAttempt(st)
      PROVE  Ended(j)'
  <2>1. CASE Inherited(st)
    <3>1. PICK a \in Copies : st.attempt = a.attempt \/ st.attempt = CurrentAttempt(a)
      BY <2>1 DEF Inherited
    <3>2. CurrentAttempt(st) = CurrentAttempt(a)
      BY <3>1 DEF CurrentAttempt
    <3>3. Ended(j)
      BY <1>1, <3>2 DEF EarlierEnded
    <3> QED
      BY <3>3, EndedForGood
  <2>2. CASE Retried(st)
    <3> DEFINE k == CurrentAttempt(new)
    <3>1. new \in Copies /\ k \in Attempts
      BY <1>0, <2>2, CurrentAttemptType DEF Retried, Copies, TypeOK
    <3>2. st.attempt = k + 1 /\ seenFixJob[k].state \in {"complete", "failed"}
      BY <2>2 DEF Retried
    <3>3. k \in launched
      BY <3>1, <3>2 DEF NotYetLaunched, NoJob
    <3>4. Ended(k)
      BY <3>1, <3>2, <3>3 DEF ResultsFinal, Ended
    <3>5. j \in Nat /\ k \in Nat /\ 1 <= k
      BY <3>1, AttemptCapAssumption DEF Attempts
    <3> HIDE DEF k
    <3>6. j < k \/ j = k
      BY <1>1, <3>2, <3>5 DEF CurrentAttempt
    <3>7. Ended(j)
      BY <3>1, <3>4, <3>6 DEF EarlierEnded, k
    <3> QED
      BY <3>7, EndedForGood
  <2> QED
    BY <2>1, <2>2, CopiesFollow
<1>2. ASSUME NEW k \in launched', NEW j \in Attempts, j < k
      PROVE  Ended(j)'
  <2>1. CASE k \in launched
    <3>1. Ended(j)
      BY <1>2, <2>1 DEF EarlierEnded
    <3> QED
      BY <3>1, EndedForGood
  <2>2. CASE k \notin launched
    <3>1. k \in Attempts
      BY <1>0 DEF TypeOK
    <3>2. Created(k)
      BY <2>2, <3>1, FixJobSteps
    <3>3. new \in Copies /\ k = CurrentAttempt(new)
      BY <3>2 DEF Created, Copies
    <3>4. Ended(j)
      BY <1>2, <3>3 DEF EarlierEnded
    <3> QED
      BY <3>4, EndedForGood
  <2> QED
    BY <2>1, <2>2
<1> QED
  BY <1>1, <1>2 DEF EarlierEnded

(* Before CreateFixJob an attempt has no Job, in no cache, and nothing on GitHub. *)
LEMMA KeepsNotYetLaunched ==
    ASSUME OrderInv, [Next]_vars
    PROVE  NotYetLaunched'
<1> USE DEF OrderInv, GateInv, TypeInv
<1> SUFFICES ASSUME NEW k \in Attempts, k \notin launched'
             PROVE  /\ fixJob'[k] = NoJob /\ seenFixJob'[k] = NoJob
                    /\ remote'[k] = "none" /\ k \notin succeeded'
  BY DEF NotYetLaunched
<1>1. k \notin launched
  BY EndedForGood
<1>2. /\ fixJob[k] = NoJob /\ seenFixJob[k] = NoJob
      /\ remote[k] = "none" /\ k \notin succeeded
  BY <1>1 DEF NotYetLaunched
<1>3. fixJob'[k] = NoJob
  BY <1>1, <1>2, FixJobSteps DEF Created, EndsNow, Expired, NoJob
<1>4. seenFixJob' \in {seenFixJob, fixJob', fixJob}
  BY DEF Next, PassProgress, BeginPass, GetTriageJob, CreateTriageJob, GetFixJob,
         CreateFixJob, PatchStatus, ReturnError, Crash, SyncCR, SyncJobs,
         SetApproved, SetMaxFixAttempts, TriagePodEnds, TriagePodSucceeds,
         TriagePodFails, TriageJobExpires, FixPodEnds, FixPodSucceeds,
         FixPodFails, FixJobGetsNoPod, FixJobExpires, vars, cacheVars, CacheJobs
<1>5. remote'[k] = "none" /\ k \notin succeeded'
  <2>1. CASE \E n \in Attempts : FixPodEnds(n)
    <3>1. PICK n \in Attempts : FixPodEnds(n)
      BY <2>1
    <3>2. n # k
      BY <1>2, <3>1 DEF FixPodEnds, FixPodSucceeds, FixPodFails, FixJobGetsNoPod, NoJob
    <3> QED
      BY <1>2, <3>1, <3>2
         DEF FixPodEnds, FixPodSucceeds, FixPodFails, FixJobGetsNoPod, TypeOK,
             historyVars
  <2>2. CASE TriagePodEnds
    <3>1. k # 0
      BY DEF Attempts
    <3> QED
      BY <1>2, <2>2, <3>1
         DEF TriagePodEnds, TriagePodSucceeds, TriagePodFails, historyVars
  <2>3. CASE ~TriagePodEnds /\ ~\E n \in Attempts : FixPodEnds(n)
    <3>1. UNCHANGED <<remote, succeeded>>
      BY <2>3
         DEF Next, PassProgress, BeginPass, GetTriageJob, CreateTriageJob, GetFixJob,
             CreateFixJob, PatchStatus, ReturnError, Crash, SyncCR, SyncJobs,
             SetApproved, SetMaxFixAttempts, TriageJobExpires, FixJobExpires,
             vars, historyVars
    <3> QED
      BY <1>2, <3>1
  <2> QED
    BY <2>1, <2>2, <2>3
<1> QED
  BY <1>2, <1>3, <1>4, <1>5

(* A Job that has ended ends no second time, so an old result of it stands. *)
LEMMA KeepsResultsFinal ==
    ASSUME OrderInv, [Next]_vars
    PROVE  ResultsFinal'
<1> USE DEF OrderInv, GateInv, TypeInv
<1> SUFFICES ASSUME NEW k \in Attempts
             PROVE  /\ fixJob'[k].failedPods > 0 => fixJob'[k].state = "failed"
                    /\ seenFixJob'[k].failedPods > 0 => seenFixJob'[k].state = "failed"
                    /\ seenFixJob'[k].state \in {"complete", "failed"} =>
                           fixJob'[k].state \in {seenFixJob'[k].state, "absent"}
  BY DEF ResultsFinal
<1>1. fixJob[k] \in Job /\ seenFixJob[k] \in Job
  BY DEF TypeOK
<1>2. /\ fixJob[k].failedPods > 0 => fixJob[k].state = "failed"
      /\ seenFixJob[k].failedPods > 0 => seenFixJob[k].state = "failed"
      /\ seenFixJob[k].state \in {"complete", "failed"} =>
             fixJob[k].state \in {seenFixJob[k].state, "absent"}
  BY DEF ResultsFinal
<1>3. fixJob'[k].failedPods > 0 => fixJob'[k].state = "failed"
  BY <1>1, <1>2, FixJobSteps DEF Created, EndsNow, Expired, NoJob, NewJob, Job
<1>4. seenFixJob'[k] = seenFixJob[k] \/ seenFixJob'[k] = fixJob'[k]
  BY DEF Next, PassProgress, BeginPass, GetTriageJob, CreateTriageJob, GetFixJob,
         CreateFixJob, PatchStatus, ReturnError, Crash, SyncCR, SyncJobs,
         SetApproved, SetMaxFixAttempts, TriagePodEnds, TriagePodSucceeds,
         TriagePodFails, TriageJobExpires, FixPodEnds, FixPodSucceeds,
         FixPodFails, FixJobGetsNoPod, FixJobExpires, vars, clusterVars, cacheVars,
         CacheJobs
<1>5. seenFixJob[k].state \in {"complete", "failed"} =>
          fixJob'[k].state \in {seenFixJob[k].state, "absent"}
  <2>1. SUFFICES ASSUME seenFixJob[k].state \in {"complete", "failed"}
                 PROVE  fixJob'[k].state \in {seenFixJob[k].state, "absent"}
    OBVIOUS
  <2>2. k \in launched
    BY <2>1 DEF NotYetLaunched, NoJob
  <2>3. ~Created(k) /\ ~EndsNow(k)
    BY <1>2, <2>1, <2>2, OnlyNewCreated DEF EndsNow
  <2> QED
    BY <1>2, <2>1, <2>3, FixJobSteps DEF Expired, NoJob
<1> QED
  BY <1>2, <1>3, <1>4, <1>5

(* What is past stays past: no merge patch brings an earlier attempt or an
   earlier phase back, whatever other copies there are. *)
LEMMA PastStaysPast ==
    ASSUME GateInv, NEW j \in Attempts,
           NEW C \in SUBSET Status, Copies \subseteq C, PastIn(C, j),
           NEW D, \A st \in D : st \in C \/ Inherited(st) \/ Retried(st)
    PROVE  PastIn(D, j)
<1>0. j \in Nat /\ 1 <= j
  BY AttemptCapAssumption DEF Attempts
<1>1. CASE \A st \in C : st.attempt > j
  <2>1. ASSUME NEW a \in C
        PROVE  a.attempt \in Nat /\ a.attempt > j /\ CurrentAttempt(a) = a.attempt
    <3>1. a.attempt \in Nat /\ a.attempt > j
      BY <1>1, <2>1, AttemptCapAssumption DEF Status
    <3> QED
      BY <1>0, <3>1 DEF CurrentAttempt
  <2>2. ASSUME NEW st \in D, Inherited(st)
        PROVE  st.attempt > j
    BY <2>1, <2>2 DEF Inherited
  <2>3. ASSUME NEW st \in D, Retried(st)
        PROVE  st.attempt > j
    <3>1. new \in C
      BY <2>3 DEF Retried, Copies
    <3> QED
      BY <1>0, <2>1, <2>3, <3>1 DEF Retried
  <2> QED
    BY <1>1, <2>2, <2>3 DEF PastIn
<1>2. CASE \A st \in C : st.phase \in StoppedPhases
  <2>1. ASSUME NEW st \in D, Inherited(st)
        PROVE  st.phase \in StoppedPhases
    BY <1>2, <2>1 DEF Inherited
  <2>2. ASSUME NEW st \in D, Retried(st)
        PROVE  FALSE
    <3>1. new \in Copies /\ new.phase \in {"Ready", "Executing"}
      BY <2>2 DEF Retried, Copies, GateInv, PassOnTrack
    <3> QED
      BY <1>2, <3>1 DEF StoppedPhases
  <2> QED
    BY <1>2, <2>1, <2>2 DEF PastIn
<1> QED
  BY <1>1, <1>2 DEF PastIn

(* The TTL deletes a Job that was handled. *)
LEMMA KeepsGoneIsPast ==
    ASSUME OrderInv, [Next]_vars, "outage" \notin Faults
    PROVE  GoneIsPast'
<1> USE DEF OrderInv
<1> SUFFICES ASSUME NEW j \in Attempts, Gone(j)'
             PROVE  PastIn(Copies', j)
  BY DEF GoneIsPast, PastIn
<1>1. CASE Expired(j)
  <2>1. Copies' = {cr.status} /\ FixJobHandled(j)
    BY <1>1 DEF Expired, AnHourLater, Copies
  <2> QED
    BY <2>1 DEF FixJobHandled, PastIn
<1>2. CASE Gone(j)
  <2>1. PastIn(Copies, j) /\ Copies \in SUBSET Status
    BY <1>2, CopiesType DEF GoneIsPast, PastIn, GateInv, TypeInv
  <2> QED
    BY <2>1, CopiesFollow, PastStaysPast
<1>3. ~Created(j) /\ ~EndsNow(j)
  BY DEF Gone, Created, EndsNow, NewJob
<1> QED
  BY <1>1, <1>2, <1>3, FixJobSteps DEF Gone

(* The same of the triage Job: no copy goes back to Triage once it is deleted. *)
LEMMA KeepsTriageIsPast ==
    ASSUME OrderInv, [Next]_vars, "outage" \notin Faults
    PROVE  TriageIsPast'
<1> USE DEF OrderInv
<1> SUFFICES ASSUME 0 \in succeeded', triageJob'.state = "absent", NEW st \in Copies'
             PROVE  st.phase \notin {"", "Triage"}
  BY DEF TriageIsPast
<1>1. CASE TriageJobExpires
  <2>1. Copies' = {cr.status} /\ TriageJobHandled
    BY <1>1 DEF TriageJobExpires, AnHourLater, Copies, passVars, CacheCR
  <2> QED
    BY <2>1 DEF TriageJobHandled
<1>2. CASE ~TriageJobExpires
  <2>1. triageJob.state = "absent" /\ 0 \in succeeded
    <3>1. CASE TriagePodEnds \/ CreateTriageJob
      BY <3>1 DEF TriagePodEnds, TriagePodSucceeds, TriagePodFails,
                  CreateTriageJob, NewJob, historyVars, GateInv, TypeInv, TypeOK, Job
    <3>2. CASE \E k \in Attempts : FixPodEnds(k)
      <4>1. PICK k \in Attempts : FixPodEnds(k)
        BY <3>2
      <4>2. k # 0
        BY AttemptCapAssumption DEF Attempts
      <4> QED
        BY <4>1, <4>2 DEF FixPodEnds, FixPodSucceeds, FixPodFails, FixJobGetsNoPod,
                          historyVars
    <3>3. CASE ~TriagePodEnds /\ ~CreateTriageJob /\ ~\E k \in Attempts : FixPodEnds(k)
      <4>1. UNCHANGED <<triageJob, succeeded>>
        BY <1>2, <3>3
           DEF Next, PassProgress, BeginPass, GetTriageJob, GetFixJob,
               CreateFixJob, PatchStatus, ReturnError, Crash, SyncCR, SyncJobs,
               SetApproved, SetMaxFixAttempts, FixJobExpires, vars, clusterVars,
               historyVars
      <4> QED
        BY <4>1
    <3> QED
      BY <3>1, <3>2, <3>3
  <2>2. \A p \in Copies : p.phase \notin {"", "Triage"}
    BY <2>1 DEF TriageIsPast
  <2>3. Inherited(st) \/ Retried(st)
    BY CopiesFollow
  <2> QED
    BY <2>2, <2>3 DEF Inherited, Retried
<1> QED
  BY <1>1, <1>2

-----------------------------------------------------------------------------
(* At first there is no attempt. *)
LEMMA InitOrderInv == Init => OrderInv
<1> SUFFICES ASSUME Init PROVE OrderInv
  OBVIOUS
<1>1. GateInv
  BY InitGateInv
<1>2. Copies = {EmptyStatus} /\ launched = {} /\ succeeded = {}
  BY DEF Init, Copies
<1>3. CurrentAttempt(EmptyStatus) = 1
  BY DEF CurrentAttempt, EmptyStatus
<1>4. \A k \in Attempts : /\ fixJob[k] = NoJob /\ seenFixJob[k] = NoJob
                          /\ remote[k] = "none" /\ ~(k < 1)
  BY AttemptCapAssumption DEF Init, Attempts
<1>5. EarlierEnded /\ NotYetLaunched
  BY <1>2, <1>3, <1>4 DEF EarlierEnded, NotYetLaunched
<1>6. ResultsFinal
  BY <1>4 DEF ResultsFinal, NoJob
<1>7. GoneIsPast /\ TriageIsPast
  BY <1>2 DEF GoneIsPast, Gone, TriageIsPast
<1> QED
  BY <1>1, <1>5, <1>6, <1>7 DEF OrderInv

(* Every step keeps the order. *)
LEMMA OrderStep ==
    ASSUME OrderInv, [Next]_vars, "outage" \notin Faults
    PROVE  OrderInv'
<1>1. GateInv'
  BY GateStep DEF OrderInv
<1>2. EarlierEnded' /\ NotYetLaunched' /\ ResultsFinal' /\ GoneIsPast' /\ TriageIsPast'
  BY <1>1, KeepsEarlierEnded, KeepsNotYetLaunched, KeepsResultsFinal, KeepsGoneIsPast,
     KeepsTriageIsPast
     DEF GateInv
<1> QED
  BY <1>1, <1>2 DEF OrderInv

(* The invariant of every behaviour in which no finished Job outlives its
   TTL unhandled. *)
THEOREM OrderInvariant ==
    ASSUME "outage" \notin Faults
    PROVE  Spec => []OrderInv
<1>1. OrderInv /\ [Next]_vars => OrderInv'
  BY OrderStep
<1> QED
  BY <1>1, InitOrderInv, PTL DEF Spec

(* Of two attempts, the earlier one has ended. *)
LEMMA OneAtATime == OrderInv => OneFixJobAtATime
<1> SUFFICES ASSUME OrderInv, NEW j \in Attempts, NEW k \in Attempts,
                    fixJob[j].state = "active", fixJob[k].state = "active"
             PROVE  j = k
  BY DEF OneFixJobAtATime
<1>1. {j, k} \subseteq launched /\ ~Ended(j) /\ ~Ended(k)
  BY DEF OrderInv, NotYetLaunched, NoJob, Ended
<1>2. ~(j < k) /\ ~(k < j)
  BY <1>1 DEF OrderInv, EarlierEnded
<1> QED
  BY <1>2, AttemptCapAssumption DEF Attempts

(* No two fix Jobs of an issue run side by side, although reconcileFix looks
   a Job up in a cache that may be behind. *)
THEOREM OneFixJobAtATimeHolds ==
    ASSUME "outage" \notin Faults
    PROVE  Spec => []OneFixJobAtATime
BY OneAtATime, OrderInvariant, PTL

(* A fix Job is launched by CreateFixJob, and for the first time. *)
LEMMA LaunchIsCreated ==
    ASSUME OrderInv, [Next]_vars, NEW k \in Attempts, FixJobLaunch(k)
    PROVE  Created(k) /\ k \notin launched
<1>1. Created(k)
  BY FixJobSteps DEF OrderInv, FixJobLaunch, EndsNow, Expired, NoJob
<1> QED
  BY <1>1, OnlyNewCreated

(* The triage Job is launched by CreateTriageJob, for an issue in Triage. *)
LEMMA TriageLaunchInTriage ==
    ASSUME GateInv, [Next]_vars, TriageJobLaunch
    PROVE  new \in Copies /\ new.phase = "Triage"
<1>1. CreateTriageJob
  BY DEF TriageJobLaunch, NoJob, Next, PassProgress, BeginPass, GetTriageJob,
         GetFixJob, CreateFixJob, PatchStatus, ReturnError, Crash, SyncCR, SyncJobs,
         SetApproved, SetMaxFixAttempts, TriagePodEnds, TriagePodSucceeds,
         TriagePodFails, TriageJobExpires, FixPodEnds, FixPodSucceeds,
         FixPodFails, FixJobGetsNoPod, FixJobExpires, vars, clusterVars
<1> QED
  BY <1>1 DEF CreateTriageJob, GateInv, PassOnTrack, Copies

(* reconcileTriage and reconcileFix launch no Job that has succeeded before,
   deleted in the meantime or not. *)
THEOREM SucceededNotRelaunchedHolds ==
    ASSUME "outage" \notin Faults
    PROVE  Spec => SucceededNotRelaunched
<1> DEFINE Step == /\ TriageJobLaunch => 0 \notin succeeded
                   /\ \A k \in Attempts : FixJobLaunch(k) => k \notin succeeded
<1>1. ASSUME OrderInv, [Next]_vars
      PROVE  Step
  <2>1. TriageJobLaunch => 0 \notin succeeded
    BY <1>1, TriageLaunchInTriage DEF OrderInv, TriageIsPast, TriageJobLaunch
  <2>2. ASSUME NEW k \in Attempts, FixJobLaunch(k)
        PROVE  k \notin succeeded
    BY <1>1, <2>2, LaunchIsCreated DEF OrderInv, NotYetLaunched
  <2> QED
    BY <2>1, <2>2
<1>2. OrderInv /\ [Next]_vars => [Step]_vars
  BY <1>1
<1> QED
  BY <1>2, OrderInvariant, PTL DEF Spec, SucceededNotRelaunched

-----------------------------------------------------------------------------
(***************************************************************************)
(* The pull requests.  When, besides, every Pod that opens one reports it  *)
(* and the report of a complete Job can be read, an attempt is followed by *)
(* another one only when it has left no pull request.                      *)
(***************************************************************************)
EarlierNoPR ==
    /\ \A st \in Copies, j \in Attempts : j < CurrentAttempt(st) => remote[j] # "pr"
    /\ \A k \in launched, j \in Attempts : j < k => remote[j] # "pr"

ReportedPR ==
    \A k \in Attempts :
        /\ fixJob[k].state = "complete" => report[k] # NoPR
        /\ remote[k] = "pr" => fixJob[k].state \in {"complete", "absent"}

PRInv == OrderInv /\ EarlierNoPR /\ ReportedPR

ReportsReadable ==
    /\ "outage" \notin Faults
    /\ "lostReport" \notin Faults
    /\ "podLoss" \notin Faults

(* reconcileFix retries no attempt that has left a pull request. *)
LEMMA RetryHasNoPR ==
    ASSUME PRInv, ReportsReadable, GetFixJob,
           new'.attempt = CurrentAttempt(new) + 1, new'.phase = "Ready"
    PROVE  remote[CurrentAttempt(new)] # "pr"
<1> USE DEF PRInv, OrderInv, GateInv, TypeInv
<1> DEFINE k == CurrentAttempt(new)
<1>1. /\ new \in Status /\ new.phase \in {"Ready", "Executing"} /\ new \in Copies
      /\ orig.spec \in ResourceSpec
  BY DEF GetFixJob, TypeOK, PassOnTrack, Resource, Copies
<1>2. /\ k \in Attempts /\ seenFixJob[k] \in Job /\ k \in Nat /\ 1 <= k
      /\ seenFixJob[k].failedPods > 0 => seenFixJob[k].state = "failed"
      /\ report[k] \in 0..AttemptCap
  BY <1>1, CurrentAttemptType, AttemptCapAssumption DEF TypeOK, ResultsFinal, Attempts
<1>3. new.attempt \in Nat /\ new.attempt <= k
  BY <1>1, AttemptCapAssumption DEF Status, CurrentAttempt
<1>4. /\ new' # new
      /\ new' = AfterFixJob(orig.spec, new, seenFixJob[k], report[k])
  <2>1. new' # new
    BY <1>2, <1>3
  <2> QED
    BY <2>1 DEF GetFixJob, ReportsReadable, PodVisible
<1>5. ~Gone(k)
  <2>1. ~(new.attempt > k) /\ new.phase \notin StoppedPhases
    BY <1>1, <1>2, <1>3 DEF StoppedPhases
  <2> QED
    BY <1>1, <1>2, <2>1 DEF GoneIsPast, PastIn
<1>6. seenFixJob[k].state \in {"complete", "failed"}
  <2>1. \/ new'.attempt = new.attempt \/ new'.attempt = k
        \/ seenFixJob[k].state \in {"complete", "failed"}
    BY <1>1, <1>2, <1>4, AfterFixJobInherits
  <2>2. new'.attempt = k + 1
    OBVIOUS
  <2> QED
    BY <1>2, <1>3, <2>1, <2>2
<1>7. k \in launched /\ fixJob[k].state = seenFixJob[k].state
  BY <1>2, <1>5, <1>6 DEF NotYetLaunched, NoJob, ResultsFinal, Gone
<1>8. CASE seenFixJob[k].state = "failed"
  BY <1>2, <1>7, <1>8 DEF ReportedPR
<1>9. CASE seenFixJob[k].state = "complete"
  <2>1. report[k] # NoPR
    BY <1>2, <1>7, <1>9 DEF ReportedPR
  <2>2. new'.phase = "PROpen"
    BY <1>1, <1>4, <1>9, <2>1 DEF AfterFixJob, PullRequestOpened, WithCondition, Status
  <2> QED
    BY <2>2
<1> QED
  BY <1>6, <1>8, <1>9

(* A pull request is opened by the Pod of an active Job, which reports it. *)
LEMMA PRSteps ==
    ASSUME OrderInv, ReportsReadable, [Next]_vars
    PROVE  \A k \in Attempts :
               \/ remote'[k] = "pr" => remote[k] = "pr"
               \/ /\ FixPodSucceeds(k)
                  /\ fixJob[k].state = "active" /\ fixJob'[k].state = "complete"
                  /\ report'[k] = k
<1> USE DEF OrderInv, GateInv, TypeInv
<1> TAKE k \in Attempts
<1>1. ASSUME NEW n \in Attempts, FixPodSucceeds(n)
      PROVE  \/ remote'[k] = "pr" => remote[k] = "pr"
             \/ /\ FixPodSucceeds(k)
                /\ fixJob[k].state = "active" /\ fixJob'[k].state = "complete"
                /\ report'[k] = k
  BY <1>1 DEF FixPodSucceeds, ReportsReadable, TypeOK, Job
<1>2. ASSUME NEW n \in Attempts, FixPodFails(n) \/ FixJobGetsNoPod(n) \/ FixJobExpires(n)
      PROVE  remote'[k] = "pr" => remote[k] = "pr"
  BY <1>2 DEF FixPodFails, FixJobGetsNoPod, FixJobExpires, ReportsReadable, TypeOK
<1>3. ASSUME ~\E n \in Attempts : FixPodEnds(n) \/ FixJobExpires(n)
      PROVE  UNCHANGED remote
  BY <1>3
     DEF Next, PassProgress, BeginPass, GetTriageJob, CreateTriageJob, GetFixJob,
         CreateFixJob, PatchStatus, ReturnError, Crash, SyncCR, SyncJobs,
         SetApproved, SetMaxFixAttempts, TriagePodEnds, TriagePodSucceeds,
         TriagePodFails, TriageJobExpires, vars
<1> QED
  BY <1>1, <1>2, <1>3 DEF FixPodEnds

(* A copy that was not there is not one of a retry of an attempt with a
   pull request. *)
LEMMA RetriedHasNoPR ==
    ASSUME PRInv, ReportsReadable, [Next]_vars, NEW st \in Copies'
    PROVE  Inherited(st) \/ (Retried(st) /\ remote[CurrentAttempt(new)] # "pr")
<1> USE DEF PRInv, OrderInv
<1>1. CASE GetFixJob
  <2>1. Copies' \subseteq Copies \cup {new'}
    BY <1>1 DEF GetFixJob, Copies, cacheVars
  <2>2. Inherited(st) \/ Retried(st)
    BY CopiesFollow
  <2>3. CASE st \in Copies
    BY <2>3, StillThere
  <2>4. CASE st = new' /\ Retried(st)
    BY <1>1, <2>4, RetryHasNoPR DEF Retried
  <2> QED
    BY <2>1, <2>2, <2>3, <2>4
<1>2. CASE CreateFixJob
  BY <1>2, CopiesFollow DEF Retried, CreateFixJob
<1>3. CASE ~GetFixJob /\ ~CreateFixJob
  BY <1>3, BeginInherits, TriageInherits, PatchInherits, OthersInherit, StillThere
     DEF Next, PassProgress
<1> QED
  BY <1>1, <1>2, <1>3

(* No attempt that has left a pull request is ever behind another one. *)
LEMMA KeepsEarlierNoPR ==
    ASSUME PRInv, ReportsReadable, [Next]_vars
    PROVE  EarlierNoPR'
<1> USE DEF PRInv, OrderInv
<1>0. TypeOK /\ TypeOK'
  BY GateStep DEF GateInv, TypeInv
<1>1. ASSUME NEW j \in Attempts, Ended(j), remote[j] # "pr"
      PROVE  remote'[j] # "pr"
  BY <1>1, PRSteps DEF Ended
<1>2. ASSUME NEW st \in Copies', NEW j \in Attempts, j < CurrentAttempt(st)
      PROVE  Ended(j) /\ remote[j] # "pr"
  <2>1. CASE Inherited(st)
    <3>1. PICK a \in Copies : st.attempt = a.attempt \/ st.attempt = CurrentAttempt(a)
      BY <2>1 DEF Inherited
    <3>2. CurrentAttempt(st) = CurrentAttempt(a)
      BY <3>1 DEF CurrentAttempt
    <3> QED
      BY <1>2, <3>2 DEF EarlierEnded, EarlierNoPR
  <2>2. CASE Retried(st) /\ remote[CurrentAttempt(new)] # "pr"
    <3> DEFINE k == CurrentAttempt(new)
    <3>1. new \in Copies /\ k \in Attempts
      BY <1>0, <2>2, CurrentAttemptType DEF Retried, Copies, TypeOK
    <3>2. st.attempt = k + 1 /\ seenFixJob[k].state \in {"complete", "failed"}
      BY <2>2 DEF Retried
    <3>3. Ended(k) /\ remote[k] # "pr"
      BY <2>2, <3>1, <3>2 DEF NotYetLaunched, NoJob, ResultsFinal, Ended
    <3>4. j \in Nat /\ k \in Nat /\ 1 <= k
      BY <3>1, AttemptCapAssumption DEF Attempts
    <3> HIDE DEF k
    <3>5. j < k \/ j = k
      BY <1>2, <3>2, <3>4 DEF CurrentAttempt
    <3> QED
      BY <3>1, <3>3, <3>5 DEF EarlierEnded, EarlierNoPR, k
  <2> QED
    BY <2>1, <2>2, RetriedHasNoPR
<1>3. ASSUME NEW k \in launched', NEW j \in Attempts, j < k
      PROVE  Ended(j) /\ remote[j] # "pr"
  <2>1. CASE k \in launched
    BY <1>3, <2>1 DEF EarlierEnded, EarlierNoPR
  <2>2. CASE k \notin launched
    <3>1. k \in Attempts
      BY <1>0 DEF TypeOK
    <3>2. Created(k)
      BY <2>2, <3>1, FixJobSteps
    <3>3. new \in Copies /\ k = CurrentAttempt(new)
      BY <3>2 DEF Created, Copies
    <3> QED
      BY <1>3, <3>3 DEF EarlierEnded, EarlierNoPR
  <2> QED
    BY <2>1, <2>2
<1> QED
  BY <1>1, <1>2, <1>3 DEF EarlierNoPR

(* A Pod that opens a pull request completes its Job, and reports it. *)
LEMMA KeepsReportedPR ==
    ASSUME PRInv, ReportsReadable, [Next]_vars
    PROVE  ReportedPR'
<1> USE DEF PRInv, OrderInv
<1> SUFFICES ASSUME NEW k \in Attempts
             PROVE  /\ fixJob'[k].state = "complete" => report'[k] # NoPR
                    /\ remote'[k] = "pr" => fixJob'[k].state \in {"complete", "absent"}
  BY DEF ReportedPR
<1>0. TypeOK /\ k # NoPR
  BY AttemptCapAssumption DEF GateInv, TypeInv, Attempts, NoPR
<1>1. /\ fixJob[k].state = "complete" => report[k] # NoPR
      /\ remote[k] = "pr" => fixJob[k].state \in {"complete", "absent"}
  BY DEF ReportedPR
<1>2. CASE Created(k)
  <2>1. remote[k] = "none" /\ fixJob[k].state = "absent"
    BY <1>2, OnlyNewCreated DEF NotYetLaunched, Created
  <2>2. remote'[k] # "pr"
    BY <2>1, PRSteps
  <2> QED
    BY <1>2, <2>2 DEF Created, NewJob
<1>3. CASE Expired(k)
  BY <1>3 DEF Expired, NoJob
<1>4. CASE EndsNow(k)
  <2>1. PICK n \in Attempts : FixPodEnds(n)
    <3>1. ASSUME NEW n \in Attempts, FixJobExpires(n)
          PROVE  FALSE
      BY <1>0, <1>4, <3>1 DEF FixJobExpires, EndsNow, TypeOK, NoJob
    <3>2. ~CreateFixJob
      BY <1>0, <1>4 DEF CreateFixJob, EndsNow, TypeOK
    <3>3. fixJob' # fixJob
      BY <1>4 DEF EndsNow
    <3> QED
      BY <3>1, <3>2, <3>3
         DEF Next, PassProgress, BeginPass, GetTriageJob, CreateTriageJob,
             GetFixJob, PatchStatus, ReturnError, Crash, SyncCR, SyncJobs,
             SetApproved, SetMaxFixAttempts, TriagePodEnds, TriagePodSucceeds,
             TriagePodFails, TriageJobExpires, vars, clusterVars
  <2>2. n = k
    BY <1>0, <1>4, <2>1
       DEF EndsNow, FixPodEnds, FixPodSucceeds, FixPodFails, FixJobGetsNoPod, TypeOK
  <2>3. CASE FixPodSucceeds(k)
    BY <1>0, <2>3 DEF FixPodSucceeds, ReportsReadable, TypeOK, Job
  <2>4. CASE FixPodFails(k) \/ FixJobGetsNoPod(k)
    <3>1. fixJob'[k].state = "failed" /\ fixJob[k].state = "active"
      BY <1>0, <2>4 DEF FixPodFails, FixJobGetsNoPod, TypeOK, Job
    <3>2. remote'[k] # "pr"
      BY <1>1, <3>1, PRSteps
    <3> QED
      BY <3>1, <3>2
  <2> QED
    BY <2>1, <2>2, <2>3, <2>4 DEF FixPodEnds
<1>5. CASE fixJob'[k] = fixJob[k] /\ ~Created(k)
  <2>1. remote'[k] = "pr" => remote[k] = "pr"
    BY <1>5, PRSteps
  <2>2. fixJob[k].state = "complete" => report'[k] = report[k]
    <3>1. ASSUME NEW n \in Attempts, FixPodEnds(n) \/ FixJobExpires(n),
                 fixJob[k].state = "complete"
          PROVE  report'[k] = report[k]
      BY <1>0, <1>5, <3>1
         DEF FixPodEnds, FixPodSucceeds, FixPodFails, FixJobGetsNoPod, FixJobExpires,
             TypeOK, NoJob
    <3>2. CASE CreateFixJob /\ fixJob[k].state = "complete"
      BY <1>0, <3>2 DEF CreateFixJob, TypeOK
    <3>3. ASSUME ~CreateFixJob, ~\E n \in Attempts : FixPodEnds(n) \/ FixJobExpires(n)
          PROVE  UNCHANGED report
      BY <3>3
         DEF Next, PassProgress, BeginPass, GetTriageJob, CreateTriageJob, GetFixJob,
             PatchStatus, ReturnError, Crash, SyncCR, SyncJobs, SetApproved,
             SetMaxFixAttempts, TriagePodEnds, TriagePodSucceeds, TriagePodFails,
             TriageJobExpires, vars, clusterVars
    <3> QED
      BY <3>1, <3>2, <3>3
  <2> QED
    BY <1>1, <1>5, <2>1, <2>2
<1> QED
  BY <1>2, <1>3, <1>4, <1>5, FixJobSteps

(* The invariant of every behaviour that loses no report. *)
THEOREM PRInvariant ==
    ASSUME ReportsReadable
    PROVE  Spec => []PRInv
<1>1. Init => PRInv
  <2> SUFFICES ASSUME Init PROVE PRInv
    OBVIOUS
  <2>1. \A k \in Attempts : remote[k] = "none" /\ fixJob[k].state = "absent"
    BY DEF Init, NoJob
  <2> QED
    BY <2>1, InitOrderInv DEF PRInv, EarlierNoPR, ReportedPR, Init
<1>2. PRInv /\ [Next]_vars => PRInv'
  BY OrderStep, KeepsEarlierNoPR, KeepsReportedPR DEF PRInv, ReportsReadable
<1> QED
  BY <1>1, <1>2, PTL DEF Spec

(* Of two attempts, the earlier one has left no pull request. *)
LEMMA OnePR == PRInv => AtMostOnePR
<1> SUFFICES ASSUME PRInv, NEW j \in Attempts, NEW k \in Attempts,
                    remote[j] = "pr", remote[k] = "pr"
             PROVE  j = k
  BY DEF AtMostOnePR
<1>1. {j, k} \subseteq launched
  BY DEF PRInv, OrderInv, NotYetLaunched
<1>2. ~(j < k) /\ ~(k < j)
  BY <1>1 DEF PRInv, EarlierNoPR
<1> QED
  BY <1>2, AttemptCapAssumption DEF Attempts

(* An issue gets one pull request, over all its attempts. *)
THEOREM AtMostOnePRHolds ==
    ASSUME ReportsReadable
    PROVE  Spec => []AtMostOnePR
BY OnePR, PRInvariant, PTL

LaunchedAfterFailure ==
    \A k \in Attempts : FixJobLaunch(k) /\ k > 1 =>
        /\ k - 1 \in launched
        /\ fixJob[k - 1].state # "active"
        /\ remote[k - 1] # "pr"

(* What is launched is at the attempt of a copy, which has all others behind it. *)
LEMMA RetryStep == ASSUME PRInv, [Next]_vars PROVE LaunchedAfterFailure
<1> SUFFICES ASSUME NEW k \in Attempts, FixJobLaunch(k), k > 1
             PROVE  /\ k - 1 \in launched
                    /\ fixJob[k - 1].state # "active"
                    /\ remote[k - 1] # "pr"
  BY DEF LaunchedAfterFailure
<1>1. new \in Copies /\ k = CurrentAttempt(new)
  BY LaunchIsCreated DEF PRInv, Created, Copies
<1>2. k - 1 \in Attempts /\ k - 1 < k
  BY AttemptCapAssumption DEF Attempts
<1> QED
  BY <1>1, <1>2 DEF PRInv, OrderInv, EarlierEnded, EarlierNoPR, Ended

(* A new attempt is launched only after one that has ended without a pull
   request. *)
THEOREM RetryOnlyAfterFailureHolds ==
    ASSUME ReportsReadable
    PROVE  Spec => RetryOnlyAfterFailure
<1>1. PRInv /\ [Next]_vars => [LaunchedAfterFailure]_vars
  BY RetryStep
<1> QED
  BY <1>1, PRInvariant, PTL DEF Spec, RetryOnlyAfterFailure, LaunchedAfterFailure

-----------------------------------------------------------------------------
(***************************************************************************)
(* The verdict.  Where no result of the triage Job is lost, all passes     *)
(* that decide on it decide alike, however late they are: the verdict is   *)
(* final, and once a copy of the status has its inScope, the stored one    *)
(* has it for good.  So a merge patch may mix phases of several passes     *)
(* with verdicts of others, and they still agree.                          *)
(***************************************************************************)
Judged == {"PendingValidation", "Ready", "Executing", "PROpen"}

VerdictFinal ==
    /\ 0 \in succeeded => triageJob.state \in {"complete", "absent"}
    /\ triageJob.state = "complete" => 0 \in succeeded
    /\ everAccepted => /\ 0 \in succeeded
                       /\ triageJob.state = "complete" => Acceptable(verdict)

SeenVerdictFinal == seenTriageJob.state = "complete" => 0 \in succeeded

Agrees(st) ==
    /\ st.phase \in Judged => st.inScope
    /\ 0 \notin succeeded => ~st.inScope
    /\ 0 \notin succeeded \/ everAccepted => ~st.suspicious /\ ~st.parseError

CopiesAgree == \A st \in Copies : Agrees(st)

InScopeStays ==
    everAccepted =>
        /\ seenCR.status.inScope => cr.status.inScope
        /\ pc # "idle" /\ orig.status.inScope => cr.status.inScope /\ new.inScope

VerdictInv ==
    OrderInv /\ VerdictFinal /\ SeenVerdictFinal /\ CopiesAgree /\ InScopeStays

SameFlags(a, b) ==
    /\ a.inScope = b.inScope
    /\ a.suspicious = b.suspicious
    /\ a.parseError = b.parseError

(* Only what AfterTriageJob computes has other flags than what it is computed from. *)
LEMMA FlagsKept ==
    ASSUME NEW st \in Status, NEW spec \in ResourceSpec, NEW job \in Job,
           NEW pr \in 0..AttemptCap
    PROVE  /\ SameFlags(WithPhaseDefaulted(st), st)
           /\ SameFlags(TriageJobCreated(st), st)
           /\ SameFlags(AfterValidation(spec, st), st)
           /\ SameFlags(FixJobCreated(st), st)
           /\ SameFlags(AfterFixJob(spec, st, job, pr), st)
<1>1. SameFlags(WithPhaseDefaulted(st), st) /\ SameFlags(TriageJobCreated(st), st)
  BY DEF SameFlags, WithPhaseDefaulted, TriageJobCreated, WithCondition, Status
<1>2. SameFlags(AfterValidation(spec, st), st) /\ SameFlags(FixJobCreated(st), st)
  BY DEF SameFlags, AfterValidation, FixJobCreated, WithCondition, Status
<1>3. SameFlags(PullRequestOpened(st, pr), st)
  BY DEF SameFlags, PullRequestOpened, WithCondition, Status
<1>4. SameFlags(FixFailed(spec, st), st)
  BY DEF SameFlags, FixFailed, WithCondition, Status
<1>5. SameFlags([st EXCEPT !.phase = "Executing"], st)
  BY DEF SameFlags, Status
<1>6. SameFlags(AfterFixJob(spec, st, job, pr), st)
  BY <1>3, <1>4, <1>5 DEF AfterFixJob, Job
<1> QED
  BY <1>1, <1>2, <1>6

(* What a pass makes of the triage Job it has found. *)
LEMMA FlagsJudged ==
    ASSUME NEW st \in Status, NEW job \in Job, NEW v \in Verdict,
           st.phase = "Triage"
    PROVE  LET after == AfterTriageJob(st, job, v)
           IN  /\ job.state # "complete" =>
                      SameFlags(after, st) /\ after.phase \notin Judged
               /\ job.state = "complete" =>
                      \/ after.phase \notin Judged /\ ~Acceptable(v)
                      \/ after.inScope /\ ~after.suspicious /\ ~after.parseError
<1>1. SameFlags(st, st)
  BY DEF SameFlags
<1>2. /\ TriageUnreadable(st).phase = "Failed"
      /\ SameFlags(WithCondition([st EXCEPT !.phase = "Failed"], "Failed", "True"), st)
      /\ WithCondition([st EXCEPT !.phase = "Failed"], "Failed", "True").phase = "Failed"
  BY DEF TriageUnreadable, WithCondition, SameFlags, Status
<1>3. \/ TriageJudged(st, v).phase = "Rejected" /\ ~Acceptable(v)
      \/ /\ TriageJudged(st, v).inScope /\ ~TriageJudged(st, v).suspicious
         /\ ~TriageJudged(st, v).parseError
  BY DEF TriageJudged, WithCondition, Acceptable, Status, Verdict
<1> QED
  BY <1>1, <1>2, <1>3 DEF AfterTriageJob, Judged, Job, Acceptable, Verdict

SameVerdict ==
    /\ UNCHANGED everAccepted
    /\ 0 \in succeeded' <=> 0 \in succeeded

(* Only the triage Job's success changes what is known of the verdict, and only
   the first time. *)
LEMMA VerdictSteps ==
    ASSUME OrderInv, VerdictFinal, [Next]_vars
    PROVE  /\ VerdictFinal'
           /\ \/ SameVerdict
              \/ TriagePodSucceeds /\ 0 \notin succeeded
<1> USE DEF OrderInv, GateInv, TypeInv
<1>0. triageJob \in Job /\ everAccepted \in BOOLEAN /\ 0 \notin Attempts
  BY DEF TypeOK, Attempts
<1>1. CASE CreateTriageJob
  <2>1. new \in Copies /\ new.phase = "Triage"
    BY <1>1 DEF CreateTriageJob, PassOnTrack, Copies
  <2>2. triageJob.state = "absent" => 0 \notin succeeded
    BY <2>1 DEF TriageIsPast
  <2> QED
    BY <1>0, <1>1, <2>2
       DEF CreateTriageJob, VerdictFinal, SameVerdict, historyVars, NewJob
<1>2. CASE TriagePodSucceeds
  BY <1>0, <1>2 DEF TriagePodSucceeds, VerdictFinal, Job
<1>3. CASE TriagePodFails
  BY <1>0, <1>3 DEF TriagePodFails, VerdictFinal, SameVerdict, historyVars, Job
<1>4. CASE TriageJobExpires
  BY <1>0, <1>4 DEF TriageJobExpires, VerdictFinal, SameVerdict, historyVars, NoJob
<1>5. CASE \E k \in Attempts : FixPodEnds(k)
  BY <1>0, <1>5
     DEF FixPodEnds, FixPodSucceeds, FixPodFails, FixJobGetsNoPod, VerdictFinal,
         SameVerdict, historyVars
<1>6. CASE /\ ~CreateTriageJob /\ ~TriagePodEnds /\ ~TriageJobExpires
           /\ ~\E k \in Attempts : FixPodEnds(k)
  <2>1. UNCHANGED <<triageJob, verdict, everAccepted, succeeded>>
    BY <1>6
       DEF Next, PassProgress, BeginPass, GetTriageJob, GetFixJob, CreateFixJob,
           PatchStatus, ReturnError, Crash, SyncCR, SyncJobs, SetApproved,
           SetMaxFixAttempts, FixJobExpires, vars, clusterVars, historyVars
  <2> QED
    BY <2>1 DEF VerdictFinal, SameVerdict
<1> QED
  BY <1>1, <1>2, <1>3, <1>4, <1>5, <1>6 DEF TriagePodEnds

(* A cached triage Job is the stored one, or was. *)
LEMMA KeepsSeenVerdictFinal ==
    ASSUME OrderInv, VerdictFinal, SeenVerdictFinal, [Next]_vars
    PROVE  SeenVerdictFinal'
<1>1. seenTriageJob' \in {seenTriageJob, triageJob, triageJob'}
  BY DEF Next, PassProgress, BeginPass, GetTriageJob, CreateTriageJob, GetFixJob,
         CreateFixJob, PatchStatus, ReturnError, Crash, SyncCR, SyncJobs,
         SetApproved, SetMaxFixAttempts, TriagePodEnds, TriagePodSucceeds,
         TriagePodFails, TriageJobExpires, FixPodEnds, FixPodSucceeds,
         FixPodFails, FixJobGetsNoPod, FixJobExpires, vars, cacheVars, CacheJobs
<1>2. 0 \in succeeded => 0 \in succeeded'
  BY VerdictSteps DEF SameVerdict
<1>3. VerdictFinal'
  BY VerdictSteps
<1> QED
  BY <1>1, <1>2, <1>3 DEF SeenVerdictFinal, VerdictFinal

(* The copies that were there agree with whatever triage says now. *)
LEMMA StillAgrees ==
    ASSUME VerdictInv, [Next]_vars, NEW st \in Copies
    PROVE  Agrees(st)'
<1> USE DEF VerdictInv
<1>1. Agrees(st)
  BY DEF CopiesAgree
<1>2. CASE SameVerdict
  BY <1>1, <1>2 DEF Agrees, SameVerdict
<1>3. CASE 0 \notin succeeded
  BY <1>1, <1>3 DEF Agrees
<1> QED
  BY <1>2, <1>3, VerdictSteps

(* What a pass reads and computes agrees. *)
LEMMA PassAgrees ==
    ASSUME VerdictInv, "podLoss" \notin Faults,
           BeginPass \/ GetTriageJob \/ CreateTriageJob \/ GetFixJob \/ CreateFixJob
    PROVE  CopiesAgree' /\ InScopeStays'
<1> USE DEF VerdictInv, OrderInv, GateInv, TypeInv
<1>0. /\ TypeOK /\ SameVerdict /\ UNCHANGED <<cr, seenCR>>
      /\ \A st \in Copies : Agrees(st) /\ Agrees(st)'
  <2>1. [Next]_vars /\ ~TriagePodSucceeds
    BY DEF Next, PassProgress, BeginPass, GetTriageJob, CreateTriageJob, GetFixJob,
           CreateFixJob, TriagePodSucceeds, passVars, PassEnds
  <2>2. UNCHANGED <<cr, seenCR>>
    BY DEF BeginPass, GetTriageJob, CreateTriageJob, GetFixJob, CreateFixJob,
           cacheVars
  <2> QED
    BY <2>1, <2>2, VerdictSteps, StillAgrees DEF CopiesAgree
<1>1. SUFFICES \/ PassEnds
               \/ /\ Agrees(new') /\ pc' # "idle"
                  /\ (orig' = orig /\ pc # "idle") \/ orig' = seenCR
                  /\ everAccepted => /\ orig'.status.inScope => new'.inScope
                                     /\ orig'.status.inScope => cr.status.inScope
  <2>1. CASE PassEnds
    <3>1. Copies' = {cr.status, seenCR.status}
      BY <1>0, <2>1 DEF PassEnds, Copies
    <3>2. \A st \in Copies' : Agrees(st)'
      BY <1>0, <3>1 DEF Copies
    <3> QED
      BY <1>0, <2>1, <3>2 DEF PassEnds, CopiesAgree, InScopeStays, SameVerdict
  <2>2. CASE /\ Agrees(new') /\ pc' # "idle"
             /\ (orig' = orig /\ pc # "idle") \/ orig' = seenCR
             /\ everAccepted => /\ orig'.status.inScope => new'.inScope
                                /\ orig'.status.inScope => cr.status.inScope
    <3>1. Agrees(new)' /\ pc' # "idle"
      BY <1>0, <2>2 DEF Agrees, SameVerdict
    <3>2. Copies' \subseteq Copies \cup {new'}
      <4>1. orig'.status \in Copies
        BY <2>2 DEF Copies
      <4> QED
        BY <1>0, <2>2, <4>1 DEF Copies
    <3>3. \A st \in Copies' : Agrees(st)'
      BY <1>0, <3>1, <3>2
    <3> QED
      BY <1>0, <2>2, <3>3 DEF CopiesAgree, InScopeStays, SameVerdict
  <2> QED
    BY <2>1, <2>2
<1>2. ASSUME BeginPass
      PROVE  /\ Agrees(new') /\ pc' # "idle" /\ orig' = seenCR
             /\ orig'.status.inScope => new'.inScope
  <2> DEFINE st == WithPhaseDefaulted(seenCR.status)
  <2>1. seenCR.status \in Status /\ seenCR.spec \in ResourceSpec /\ st \in Status
    BY <1>0, WithPhaseDefaultedType DEF TypeOK, Resource
  <2>2. /\ SameFlags(st, seenCR.status)
        /\ SameFlags(AfterValidation(seenCR.spec, st), st)
    BY <1>0, <2>1, FlagsKept DEF TypeOK
  <2>3. st.phase \in Judged => st.phase = seenCR.status.phase
    BY <2>1 DEF WithPhaseDefaulted, Status, Judged
  <2>4. /\ orig' = seenCR /\ pc' # "idle"
        /\ \/ new' = st
           \/ new' = AfterValidation(seenCR.spec, st) /\ st.phase = "PendingValidation"
    BY <1>2 DEF BeginPass
  <2>5. Agrees(seenCR.status)
    BY <1>0 DEF Copies
  <2> HIDE DEF st
  <2> QED
    BY <2>2, <2>3, <2>4, <2>5 DEF SameFlags, Agrees, Judged
<1>3. ASSUME GetTriageJob
      PROVE  /\ Agrees(new') /\ pc' # "idle" /\ orig' = orig
             /\ everAccepted => (new.inScope => new'.inScope)
  <2>1. /\ new \in Status /\ seenTriageJob \in Job /\ verdict \in Verdict
        /\ new \in Copies /\ new.phase = "Triage" /\ pc = "getTriageJob"
    BY <1>0, <1>3 DEF TypeOK, GetTriageJob, Copies, PassOnTrack
  <2>2. Agrees(new)
    BY <1>0, <2>1
  <2>3. /\ orig' = orig /\ pc' # "idle"
        /\ new' = new \/ new' = AfterTriageJob(new, seenTriageJob, verdict)
    BY <1>3 DEF GetTriageJob, PodVisible
  <2>4. CASE new' = new
    BY <2>2, <2>3, <2>4
  <2>5. CASE new' = AfterTriageJob(new, seenTriageJob, verdict)
    <3>1. seenTriageJob.state = "complete" =>
              0 \in succeeded /\ (everAccepted => Acceptable(verdict))
      <4>1. triageJob.state # "absent" \/ 0 \notin succeeded
        BY <2>1 DEF TriageIsPast
      <4> QED
        BY <4>1 DEF SeenVerdictFinal, VerdictFinal
    <3>2. CASE seenTriageJob.state # "complete"
      <4>1. SameFlags(new', new) /\ new'.phase \notin Judged
        BY <2>1, <2>5, <3>2, FlagsJudged
      <4> QED
        BY <2>2, <2>3, <4>1 DEF SameFlags, Agrees
    <3>3. CASE seenTriageJob.state = "complete"
      <4>1. \/ new'.phase \notin Judged /\ ~Acceptable(verdict)
            \/ new'.inScope /\ ~new'.suspicious /\ ~new'.parseError
        BY <2>1, <2>5, <3>3, FlagsJudged
      <4> QED
        BY <2>3, <3>1, <3>3, <4>1 DEF Agrees
    <3> QED
      BY <3>2, <3>3
  <2> QED
    BY <2>3, <2>4, <2>5
<1>4. ASSUME CreateTriageJob, ~PassEnds
      PROVE  /\ Agrees(new') /\ pc' # "idle"
             /\ orig' = orig /\ (new.inScope => new'.inScope)
  <2>1. new \in Status /\ new \in Copies /\ new.phase = "Triage"
    BY <1>0, <1>4 DEF TypeOK, CreateTriageJob, Copies, PassOnTrack
  <2>2. orig' = orig /\ pc' # "idle" /\ new' = TriageJobCreated(new)
    BY <1>4 DEF CreateTriageJob, PassEnds
  <2>3. SameFlags(TriageJobCreated(new), new)
    BY <2>1 DEF SameFlags, TriageJobCreated, WithCondition, Status
  <2>4. TriageJobCreated(new).phase = new.phase
    BY <2>1 DEF TriageJobCreated, WithCondition, Status
  <2> QED
    BY <1>0, <2>1, <2>2, <2>3, <2>4 DEF SameFlags, Agrees
<1>5. ASSUME GetFixJob \/ CreateFixJob, ~PassEnds
      PROVE  /\ Agrees(new') /\ pc' # "idle"
             /\ orig' = orig /\ (new.inScope => new'.inScope)
  <2> DEFINE k == CurrentAttempt(new)
  <2>1. new \in Status /\ new \in Copies /\ new.phase \in {"Ready", "Executing"}
    BY <1>0, <1>5 DEF TypeOK, GetFixJob, CreateFixJob, Copies, PassOnTrack
  <2>2. k \in Attempts
    BY <2>1, CurrentAttemptType
  <2>3. /\ seenFixJob[k] \in Job /\ report[k] \in 0..AttemptCap /\ NoPR \in 0..AttemptCap
        /\ orig.spec \in ResourceSpec
    BY <1>0, <2>2, AttemptCapAssumption DEF TypeOK, Resource, NoPR
  <2> HIDE DEF k
  <2>4. /\ SameFlags(FixJobCreated(new), new)
        /\ \A pr \in 0..AttemptCap :
               SameFlags(AfterFixJob(orig.spec, new, seenFixJob[k], pr), new)
    BY <2>1, <2>3, FlagsKept
  <2>5. orig' = orig /\ pc' # "idle" /\ SameFlags(new', new)
    <3>1. SameFlags(new, new)
      BY DEF SameFlags
    <3>2. CASE GetFixJob
      BY <2>3, <2>4, <3>1, <3>2 DEF GetFixJob, PodVisible, k
    <3>3. CASE CreateFixJob
      BY <1>5, <2>4, <3>3 DEF CreateFixJob
    <3> QED
      BY <1>5, <3>2, <3>3
  <2> QED
    BY <1>0, <2>1, <2>5 DEF SameFlags, Agrees, Judged
<1>6. pc # "idle" => /\ everAccepted /\ orig.status.inScope => cr.status.inScope /\ new.inScope
  BY DEF InScopeStays
<1>7. everAccepted /\ seenCR.status.inScope => cr.status.inScope
  BY DEF InScopeStays
<1>8. CASE BeginPass
  BY <1>2, <1>7, <1>8
<1>9. CASE GetTriageJob
  <2>1. pc # "idle"
    BY <1>9 DEF GetTriageJob
  <2> QED
    BY <1>3, <1>6, <1>9, <2>1
<1>10. CASE CreateTriageJob
  <2>1. pc # "idle"
    BY <1>10 DEF CreateTriageJob
  <2> QED
    BY <1>4, <1>6, <1>10, <2>1
<1>11. CASE GetFixJob \/ CreateFixJob
  <2>1. pc # "idle"
    BY <1>11 DEF GetFixJob, CreateFixJob
  <2> QED
    BY <1>5, <1>6, <1>11, <2>1
<1> QED
  BY <1>8, <1>9, <1>10, <1>11

(* What a merge patch mixes agrees. *)
LEMMA PatchAgrees ==
    ASSUME VerdictInv, PatchStatus
    PROVE  CopiesAgree' /\ InScopeStays'
<1> USE DEF VerdictInv, OrderInv, GateInv, TypeInv
<1> DEFINE m == MergePatch(cr.status, orig.status, new)
<1>1. /\ cr.status \in Status /\ orig.status \in Status /\ new \in Status
      /\ cr \in Resource
  BY DEF TypeOK, Resource
<1>2. cr'.status = m /\ pc' = "idle" /\ UNCHANGED <<everAccepted, succeeded>>
      /\ seenCR' \in {seenCR, cr'}
  BY <1>1 DEF PatchStatus, PassEnds, historyVars, CacheCR, Resource
<1>3. Agrees(cr.status) /\ Agrees(orig.status) /\ Agrees(new) /\ Agrees(seenCR.status)
  BY DEF CopiesAgree, Copies, PatchStatus
<1>4. /\ m.phase \in {cr.status.phase, new.phase}
      /\ m.inScope = IF new.inScope # orig.status.inScope THEN new.inScope
                                                       ELSE cr.status.inScope
      /\ m.suspicious \in {cr.status.suspicious, new.suspicious}
      /\ m.parseError \in {cr.status.parseError, new.parseError}
  BY DEF MergePatch, Patched
<1>5. everAccepted => /\ seenCR.status.inScope => cr.status.inScope
                      /\ orig.status.inScope => cr.status.inScope /\ new.inScope
  BY DEF InScopeStays, PatchStatus
<1>6. m.phase \in Judged => everAccepted
  BY <1>4 DEF CopiesGated, Gated, Judged, BehindBarrier
<1>7. /\ new.inScope \in BOOLEAN /\ orig.status.inScope \in BOOLEAN
      /\ cr.status.inScope \in BOOLEAN
  BY <1>1 DEF Status
<1> HIDE DEF m
<1>8. everAccepted => (cr.status.inScope => m.inScope)
  BY <1>4, <1>5, <1>7
<1>9. Agrees(m)
  <2>1. m.phase \in Judged => m.inScope
    BY <1>3, <1>4, <1>5, <1>6, <1>7 DEF Agrees
  <2>2. 0 \notin succeeded => ~m.inScope
    BY <1>3, <1>4 DEF Agrees
  <2>3. 0 \notin succeeded \/ everAccepted => ~m.suspicious /\ ~m.parseError
    BY <1>3, <1>4 DEF Agrees
  <2> QED
    BY <2>1, <2>2, <2>3 DEF Agrees
<1>10. Copies' = {m, seenCR'.status} /\ seenCR'.status \in {seenCR.status, m}
  BY <1>2 DEF Copies
<1>11. CopiesAgree'
  <2>1. \A st \in Copies' : Agrees(st)
    BY <1>3, <1>9, <1>10
  <2>2. \A st \in Copies' : Agrees(st) => Agrees(st)'
    BY <1>2 DEF Agrees
  <2> QED
    BY <2>1, <2>2 DEF CopiesAgree
<1>12. InScopeStays'
  BY <1>2, <1>5, <1>8, <1>10 DEF InScopeStays
<1> QED
  BY <1>11, <1>12

(* All other steps leave the stored status alone. *)
LEMMA OthersAgree ==
    ASSUME VerdictInv, [Next]_vars, "podLoss" \notin Faults,
           ~PassProgress
    PROVE  CopiesAgree' /\ InScopeStays'
<1> USE DEF VerdictInv, OrderInv, GateInv, TypeInv
<1>1. /\ cr'.status = cr.status
      /\ seenCR'.status \in {seenCR.status, cr.status}
      /\ UNCHANGED passVars \/ PassEnds
  BY DEF Next, ReturnError, Crash, SyncCR, SyncJobs, SetApproved, SetMaxFixAttempts,
         TriagePodEnds, TriagePodSucceeds, TriagePodFails, TriageJobExpires, FixPodEnds,
         FixPodSucceeds, FixPodFails, FixJobGetsNoPod, FixJobExpires, vars, cacheVars,
         CacheCR, TypeOK, Resource
<1>2. Copies' \subseteq Copies
  BY <1>1 DEF Copies, passVars, PassEnds
<1>3. CopiesAgree'
  BY <1>2, StillAgrees DEF CopiesAgree
<1>4. CASE SameVerdict
  <2>1. /\ everAccepted => (seenCR.status.inScope => cr.status.inScope)
        /\ everAccepted /\ pc # "idle" =>
               (orig.status.inScope => cr.status.inScope /\ new.inScope)
    BY DEF InScopeStays
  <2>2. everAccepted' = everAccepted
    BY <1>4 DEF SameVerdict
  <2>3. everAccepted' => (seenCR'.status.inScope => cr'.status.inScope)
    BY <1>1, <2>1, <2>2
  <2>4. everAccepted' /\ pc' # "idle" =>
            (orig'.status.inScope => cr'.status.inScope /\ new'.inScope)
    <3>1. pc' # "idle" => UNCHANGED passVars
      BY <1>1 DEF PassEnds
    <3> QED
      BY <1>1, <2>1, <2>2, <3>1 DEF passVars
  <2> QED
    BY <1>3, <2>3, <2>4 DEF InScopeStays
<1>5. CASE 0 \notin succeeded
  <2>1. \A st \in Copies' : ~st.inScope
    BY <1>2, <1>5 DEF CopiesAgree, Agrees
  <2>2. ~seenCR'.status.inScope /\ (pc' # "idle" => ~orig'.status.inScope)
    BY <2>1 DEF Copies
  <2> QED
    BY <1>3, <2>2 DEF InScopeStays
<1>6. SameVerdict \/ 0 \notin succeeded
  BY VerdictSteps
<1> QED
  BY <1>3, <1>4, <1>5, <1>6

(* Every step keeps the verdict, and what the copies say of it, in agreement. *)
LEMMA VerdictStep ==
    ASSUME VerdictInv, [Next]_vars, "outage" \notin Faults, "podLoss" \notin Faults
    PROVE  VerdictInv'
<1>1. OrderInv'
  BY OrderStep DEF VerdictInv
<1>2. VerdictFinal' /\ SeenVerdictFinal'
  BY VerdictSteps, KeepsSeenVerdictFinal DEF VerdictInv
<1>3. CopiesAgree' /\ InScopeStays'
  BY PassAgrees, PatchAgrees, OthersAgree DEF PassProgress
<1> QED
  BY <1>1, <1>2, <1>3 DEF VerdictInv

(* At the start there is no verdict and no phase that needs one. *)
LEMMA InitVerdictInv == Init => VerdictInv
<1> SUFFICES ASSUME Init PROVE VerdictInv
  OBVIOUS
<1>1. OrderInv
  BY InitOrderInv
<1>2. Copies = {EmptyStatus} /\ succeeded = {} /\ everAccepted = FALSE
      /\ triageJob = NoJob /\ seenTriageJob = NoJob
  BY DEF Init, Copies
<1>3. Agrees(EmptyStatus)
  BY <1>2 DEF Agrees, EmptyStatus, Judged
<1> QED
  BY <1>1, <1>2, <1>3
     DEF VerdictInv, VerdictFinal, SeenVerdictFinal, CopiesAgree, InScopeStays, NoJob

(* The verdict of triage is final, and what every copy of the status says of it agrees
   with the copy's phase, in a cluster that loses neither the API server nor a
   finished pod. *)
THEOREM VerdictInvariant ==
    ASSUME "outage" \notin Faults, "podLoss" \notin Faults
    PROVE  Spec => []VerdictInv
<1>1. VerdictInv /\ [Next]_vars => VerdictInv'
  BY VerdictStep
<1> QED
  BY <1>1, InitVerdictInv, PTL DEF Spec

(* The stored status is a copy that agrees. *)
LEMMA AgreeingVerdict == VerdictInv => VerdictBehindPhase
<1> SUFFICES ASSUME VerdictInv, cr.status.phase \in Judged
             PROVE  Acceptable(cr.status)
  BY DEF VerdictBehindPhase, phase, Judged
<1>1. Agrees(cr.status)
  BY DEF VerdictInv, CopiesAgree, Copies
<1>2. everAccepted
  BY DEF VerdictInv, OrderInv, GateInv, CopiesGated, Gated, BehindBarrier, Judged
<1> QED
  BY <1>1, <1>2 DEF Agrees, Acceptable

(* The stored verdict agrees with the stored phase also where caches lag and
   merge patches mix what several passes have computed. *)
THEOREM VerdictBehindPhaseWithStaleCaches ==
    ASSUME "outage" \notin Faults, "podLoss" \notin Faults
    PROVE  Spec => []VerdictBehindPhase
BY AgreeingVerdict, VerdictInvariant, PTL

-----------------------------------------------------------------------------
(***************************************************************************)
(* For more than one manager (TwoManagers): what the invariants say of the *)
(* API server and GitHub alone, what every step does to that, and that a   *)
(* manager which only looks on keeps its side of them.                     *)
(***************************************************************************)
OwnStep == PassProgress \/ ReturnError \/ Crash \/ SyncCR \/ SyncJobs

WorldStep ==
    \/ SetApproved \/ SetMaxFixAttempts \/ TriagePodEnds
    \/ \E k \in Attempts : FixPodEnds(k)

LooksOn ==
    /\ UNCHANGED passVars
    /\ seenCR' = seenCR \/ seenCR' = cr'
    /\ seenTriageJob' = seenTriageJob \/ seenTriageJob' = triageJob'
    /\ seenFixJob' = seenFixJob \/ seenFixJob' = fixJob'

(* A manager that looks on gets no copy but the stored one. *)
LEMMA LookingOnCopies == ASSUME LooksOn PROVE Copies' \subseteq Copies \cup {cr'.status}
BY DEF LooksOn, Copies, passVars

SharedBudget ==
    /\ cr.spec.maxFixAttempts <= granted
    /\ WithinBudget(cr.status)
    /\ AttemptsGranted

(* The budget: BudgetInv implies the shared part, and no step cuts the budget. *)
LEMMA BudgetInvShared == BudgetInv => SharedBudget
BY DEF BudgetInv, SharedBudget

(* The largest cap there has been only grows. *)
LEMMA StepKeepsGranted ==
    ASSUME TypeOK, [Next]_vars
    PROVE  granted <= granted'
<1>0. granted \in Nat
  BY AttemptCapAssumption DEF TypeOK, Attempts
<1>1. CASE SetMaxFixAttempts
  BY <1>0, <1>1, AttemptCapAssumption DEF SetMaxFixAttempts, Attempts
<1>2. CASE ~SetMaxFixAttempts
  <2>1. UNCHANGED granted
    BY <1>2
       DEF Next, PassProgress, BeginPass, GetTriageJob, CreateTriageJob, GetFixJob,
           CreateFixJob, PatchStatus, ReturnError, Crash, SyncCR, SyncJobs,
           SetApproved, TriagePodEnds, TriagePodSucceeds, TriagePodFails,
           TriageJobExpires, FixPodEnds, FixPodSucceeds, FixPodFails,
           FixJobGetsNoPod, FixJobExpires, vars, historyVars
  <2> QED
    BY <1>0, <2>1
<1> QED
  BY <1>1, <1>2

(* A manager that looks on has no copy of a larger cap, or of a later attempt. *)
LEMMA LookingOnKeepsBudget ==
    ASSUME BudgetInv, LooksOn, TypeInv', SharedBudget', granted <= granted'
    PROVE  BudgetInv'
<1>0. granted \in Nat /\ granted' \in Nat
  BY AttemptCapAssumption DEF BudgetInv, TypeInv, TypeOK, Attempts
<1>1. /\ seenCR.spec.maxFixAttempts \in Nat /\ orig.spec.maxFixAttempts \in Nat
      /\ seenCR.status.attempt \in Nat /\ orig.status.attempt \in Nat
      /\ new.attempt \in Nat
  <2>1. seenCR \in Resource /\ orig \in Resource /\ new \in Status
    BY DEF BudgetInv, TypeInv, TypeOK
  <2>2. ASSUME NEW r \in Resource PROVE r.spec.maxFixAttempts \in Nat /\ r.status \in Status
    BY AttemptCapAssumption DEF Resource, ResourceSpec, Attempts
  <2>3. ASSUME NEW st \in Status PROVE st.attempt \in Nat
    BY AttemptCapAssumption DEF Status
  <2> QED
    BY <2>1, <2>2, <2>3
<1>2. /\ seenCR.spec.maxFixAttempts <= granted' /\ orig.spec.maxFixAttempts <= granted'
      /\ seenCR.status.attempt <= granted' /\ orig.status.attempt <= granted'
      /\ new.attempt <= granted'
  BY <1>0, <1>1 DEF BudgetInv, WithinBudget
<1>3. orig' = orig /\ new' = new /\ (seenCR' = seenCR \/ seenCR' = cr')
  BY DEF LooksOn, passVars
<1> QED
  BY <1>2, <1>3 DEF BudgetInv, SharedBudget, WithinBudget

SharedOrder ==
    /\ \A j \in Attempts : j < CurrentAttempt(cr.status) => Ended(j)
    /\ \A k \in launched, j \in Attempts : j < k => Ended(j)
    /\ \A k \in Attempts \ launched :
           fixJob[k] = NoJob /\ remote[k] = "none" /\ k \notin succeeded
    /\ \A k \in Attempts : fixJob[k].failedPods > 0 => fixJob[k].state = "failed"

AttemptsGrow ==
    \A j \in Attempts :
        /\ j \in launched => j \in launched'
        /\ Ended(j) => Ended(j)' /\ fixJob'[j].state \in {fixJob[j].state, "absent"}

(* OrderInv implies the shared part, and EndedForGood is about it. *)
LEMMA OrderInvShared == OrderInv => SharedOrder
BY DEF OrderInv, EarlierEnded, NotYetLaunched, ResultsFinal, SharedOrder, Copies

(* What has been launched or has ended stays so, and an ended Job keeps its state until
   it is deleted. *)
LEMMA StepAttemptsGrow == ASSUME OrderInv, [Next]_vars PROVE AttemptsGrow
BY EndedForGood DEF AttemptsGrow

(* Whoever acts, the order of the attempts is the same for one that looks on. *)
LEMMA LookingOnKeepsOrder ==
    ASSUME OrderInv, LooksOn, SharedOrder', AttemptsGrow
    PROVE  EarlierEnded' /\ NotYetLaunched' /\ ResultsFinal'
<1> USE DEF OrderInv
<1>1. EarlierEnded'
  <2>1. ASSUME NEW st \in Copies', NEW j \in Attempts, j < CurrentAttempt(st)
        PROVE  Ended(j)'
    <3>1. CASE st = cr'.status
      BY <2>1, <3>1 DEF SharedOrder
    <3>2. CASE st \in Copies
      BY <2>1, <3>2 DEF EarlierEnded, AttemptsGrow
    <3> QED
      BY <3>1, <3>2, LookingOnCopies
  <2> QED
    BY <2>1 DEF SharedOrder, EarlierEnded
<1>2. NotYetLaunched'
  <2> SUFFICES ASSUME NEW k \in Attempts, k \notin launched'
               PROVE  /\ fixJob'[k] = NoJob /\ seenFixJob'[k] = NoJob
                      /\ remote'[k] = "none" /\ k \notin succeeded'
    BY DEF NotYetLaunched
  <2>1. fixJob'[k] = NoJob /\ remote'[k] = "none" /\ k \notin succeeded'
    BY DEF SharedOrder
  <2>2. seenFixJob[k] = NoJob
    BY DEF AttemptsGrow, NotYetLaunched
  <2> QED
    BY <2>1, <2>2 DEF LooksOn
<1>3. ResultsFinal'
  <2> SUFFICES ASSUME NEW k \in Attempts
               PROVE  /\ fixJob'[k].failedPods > 0 => fixJob'[k].state = "failed"
                      /\ seenFixJob'[k].failedPods > 0 => seenFixJob'[k].state = "failed"
                      /\ seenFixJob'[k].state \in {"complete", "failed"} =>
                             fixJob'[k].state \in {seenFixJob'[k].state, "absent"}
    BY DEF ResultsFinal
  <2>1. fixJob'[k].failedPods > 0 => fixJob'[k].state = "failed"
    BY DEF SharedOrder
  <2>2. seenFixJob[k].failedPods > 0 => seenFixJob[k].state = "failed"
    BY DEF ResultsFinal
  <2>3. seenFixJob[k].state \in {"complete", "failed"} =>
            fixJob'[k].state \in {seenFixJob[k].state, "absent"}
    <3>1. SUFFICES ASSUME seenFixJob[k].state \in {"complete", "failed"}
                   PROVE  fixJob'[k].state \in {seenFixJob[k].state, "absent"}
      OBVIOUS
    <3>2. k \in launched /\ fixJob[k].state \in {seenFixJob[k].state, "absent"}
      BY <3>1 DEF NotYetLaunched, NoJob, ResultsFinal
    <3>3. Ended(k)
      BY <3>1, <3>2 DEF Ended
    <3> QED
      BY <3>2, <3>3 DEF AttemptsGrow
  <2> QED
    BY <2>1, <2>2, <2>3 DEF LooksOn
<1> QED
  BY <1>1, <1>2, <1>3

(* No Job is deleted but by its TTL. *)
NothingExpires ==
    /\ 0 \in succeeded' /\ triageJob'.state = "absent" =>
           0 \in succeeded /\ triageJob.state = "absent"
    /\ \A j \in Attempts : Gone(j)' => Gone(j)

(* No pass and no step of the world but the TTL controller deletes a Job. *)
LEMMA OnlyTTLDeletes ==
    ASSUME TypeOK, OwnStep \/ WorldStep \/ UNCHANGED vars
    PROVE  NothingExpires
<1> USE DEF TypeOK
<1>0. 0 \notin Attempts
  BY DEF Attempts
<1>1. CASE CreateTriageJob
  BY <1>1 DEF CreateTriageJob, NothingExpires, Gone, NewJob, historyVars
<1>2. CASE CreateFixJob
  <2>1. UNCHANGED <<triageJob, succeeded>>
    BY <1>2 DEF CreateFixJob
  <2>2. ASSUME NEW j \in Attempts, Gone(j)'
        PROVE  Gone(j)
    BY <1>2, <2>2 DEF CreateFixJob, Gone, NewJob
  <2> QED
    BY <2>1, <2>2 DEF NothingExpires
<1>3. CASE TriagePodEnds
  <2>1. triageJob'.state # "absent" /\ UNCHANGED <<fixJob, launched>>
    BY <1>3 DEF TriagePodEnds, TriagePodSucceeds, TriagePodFails, historyVars, Job
  <2> QED
    BY <2>1 DEF NothingExpires, Gone
<1>4. ASSUME NEW k \in Attempts, FixPodEnds(k)
      PROVE  NothingExpires
  <2>1. UNCHANGED <<triageJob, launched>> /\ (0 \in succeeded' => 0 \in succeeded)
    BY <1>0, <1>4 DEF FixPodEnds, FixPodSucceeds, FixPodFails, FixJobGetsNoPod, historyVars
  <2>2. ASSUME NEW j \in Attempts, fixJob'[j].state = "absent"
        PROVE  fixJob[j].state = "absent"
    <3>1. CASE FixPodSucceeds(k)
      BY <2>2, <3>1 DEF FixPodSucceeds, Job
    <3>2. CASE FixPodFails(k)
      BY <2>2, <3>2 DEF FixPodFails, Job
    <3>3. CASE FixJobGetsNoPod(k)
      BY <2>2, <3>3 DEF FixJobGetsNoPod, Job
    <3> QED
      BY <1>4, <3>1, <3>2, <3>3 DEF FixPodEnds
  <2> QED
    BY <2>1, <2>2 DEF NothingExpires, Gone
<1>5. CASE \/ BeginPass \/ GetTriageJob \/ GetFixJob \/ PatchStatus
           \/ ReturnError \/ Crash \/ SyncCR \/ SyncJobs
           \/ SetApproved \/ SetMaxFixAttempts \/ UNCHANGED vars
  <2>1. UNCHANGED <<triageJob, fixJob, launched, succeeded>>
    BY <1>5
       DEF BeginPass, GetTriageJob, GetFixJob, PatchStatus, ReturnError, Crash,
           SyncCR, SyncJobs, SetApproved, SetMaxFixAttempts, vars, clusterVars,
           historyVars
  <2> QED
    BY <2>1 DEF NothingExpires, Gone
<1> QED
  BY <1>1, <1>2, <1>3, <1>4, <1>5 DEF OwnStep, WorldStep, PassProgress

SharedPR ==
    /\ \A j \in Attempts : j < CurrentAttempt(cr.status) => remote[j] # "pr"
    /\ \A k \in launched, j \in Attempts : j < k => remote[j] # "pr"
    /\ ReportedPR

PRsStay == \A j \in Attempts : Ended(j) /\ remote[j] # "pr" => remote'[j] # "pr"

(* The same of the pull requests. *)
LEMMA PRInvShared == PRInv => SharedPR
BY DEF PRInv, EarlierNoPR, SharedPR, Copies

(* An attempt that ended without a pull request never has one later. *)
LEMMA StepPRsStay ==
    ASSUME OrderInv, ReportsReadable, [Next]_vars
    PROVE  PRsStay
BY PRSteps DEF PRsStay, Ended

(* A manager that looks on keeps what it knows of pull requests. *)
LEMMA LookingOnKeepsPR ==
    ASSUME PRInv, LooksOn, SharedPR', PRsStay
    PROVE  EarlierNoPR' /\ ReportedPR'
<1>1. ASSUME NEW st \in Copies', NEW j \in Attempts, j < CurrentAttempt(st)
      PROVE  remote'[j] # "pr"
  <2>1. CASE st = cr'.status
    BY <1>1, <2>1 DEF SharedPR
  <2>2. CASE st \in Copies
    BY <1>1, <2>2 DEF PRInv, OrderInv, EarlierEnded, EarlierNoPR, PRsStay
  <2> QED
    BY <2>1, <2>2, LookingOnCopies
<1> QED
  BY <1>1 DEF SharedPR, EarlierNoPR

SharedVerdict == VerdictFinal /\ Agrees(cr.status)

VerdictStays ==
    /\ 0 \in succeeded => 0 \in succeeded'
    /\ SameVerdict \/ 0 \notin succeeded
    /\ everAccepted => (cr.status.inScope => cr'.status.inScope)

(* And of the verdict. *)
LEMMA VerdictInvShared == VerdictInv => SharedVerdict
BY DEF VerdictInv, CopiesAgree, SharedVerdict, Copies

(* A verdict once given is final, and so is a verdict in scope once stored. *)
LEMMA StepVerdictStays ==
    ASSUME VerdictInv, [Next]_vars
    PROVE  VerdictStays
<1> USE DEF VerdictInv
<1>1. /\ 0 \in succeeded => 0 \in succeeded'
      /\ SameVerdict \/ 0 \notin succeeded
  BY VerdictSteps DEF SameVerdict
<1>2. CASE PatchStatus
  <2>1. everAccepted => (cr.status.inScope => cr'.status.inScope)
    <3>1. cr.status.inScope \in BOOLEAN /\ orig.status.inScope \in BOOLEAN
          /\ new.inScope \in BOOLEAN /\ cr \in Resource
      BY DEF OrderInv, GateInv, TypeInv, TypeOK, Resource, Status
    <3>2. cr'.status.inScope = IF new.inScope # orig.status.inScope THEN new.inScope
                                                                    ELSE cr.status.inScope
      BY <1>2, <3>1 DEF PatchStatus, MergePatch, Patched, Resource
    <3>3. everAccepted => (orig.status.inScope => new.inScope)
      BY <1>2 DEF InScopeStays, PatchStatus
    <3> QED
      BY <3>1, <3>2, <3>3
  <2> QED
    BY <1>1, <2>1 DEF VerdictStays
<1>3. CASE ~PatchStatus
  <2>1. cr'.status = cr.status
    BY <1>3
       DEF OrderInv, GateInv, TypeInv, TypeOK, Resource, Next, PassProgress, BeginPass,
           GetTriageJob, CreateTriageJob, GetFixJob, CreateFixJob, ReturnError, Crash,
           SyncCR, SyncJobs, SetApproved, SetMaxFixAttempts, TriagePodEnds,
           TriagePodSucceeds, TriagePodFails, TriageJobExpires, FixPodEnds,
           FixPodSucceeds, FixPodFails, FixJobGetsNoPod, FixJobExpires, vars
  <2> QED
    BY <1>1, <2>1 DEF VerdictStays
<1> QED
  BY <1>2, <1>3

(* A manager that looks on keeps what it knows of verdicts. *)
LEMMA LookingOnKeepsVerdict ==
    ASSUME VerdictInv, LooksOn, SharedVerdict', VerdictStays
    PROVE  VerdictFinal' /\ SeenVerdictFinal' /\ CopiesAgree' /\ InScopeStays'
<1> USE DEF VerdictInv
<1>1. VerdictFinal' /\ Agrees(cr.status)'
  BY DEF SharedVerdict
<1>2. SeenVerdictFinal'
  BY <1>1 DEF LooksOn, SeenVerdictFinal, VerdictFinal, VerdictStays
<1>3. ASSUME NEW st \in Copies
      PROVE  Agrees(st)'
  <2>1. Agrees(st)
    BY DEF CopiesAgree
  <2> QED
    BY <2>1 DEF Agrees, VerdictStays, SameVerdict
<1>4. CopiesAgree'
  <2>1. \A st \in Copies' : Agrees(st)'
    BY <1>1, <1>3, LookingOnCopies
  <2> QED
    BY <2>1 DEF CopiesAgree
<1>5. CASE SameVerdict
  <2>1. /\ everAccepted => (seenCR.status.inScope => cr.status.inScope)
        /\ everAccepted /\ pc # "idle" =>
               (orig.status.inScope => cr.status.inScope /\ new.inScope)
    BY DEF InScopeStays
  <2>2. /\ everAccepted' = everAccepted /\ pc' = pc /\ orig' = orig /\ new' = new
        /\ everAccepted => (cr.status.inScope => cr'.status.inScope)
        /\ seenCR' = seenCR \/ seenCR' = cr'
    BY <1>5 DEF SameVerdict, VerdictStays, LooksOn, passVars
  <2>3. everAccepted' => (seenCR'.status.inScope => cr'.status.inScope)
    BY <2>1, <2>2
  <2>4. everAccepted' /\ pc' # "idle" =>
            (orig'.status.inScope => cr'.status.inScope /\ new'.inScope)
    BY <2>1, <2>2
  <2> QED
    BY <1>1, <1>2, <1>4, <2>3, <2>4 DEF InScopeStays
<1>6. CASE 0 \notin succeeded
  <2>1. ~seenCR.status.inScope /\ (pc # "idle" => ~orig.status.inScope)
    BY <1>6 DEF CopiesAgree, Agrees, Copies
  <2>2. /\ pc' = pc /\ orig' = orig
        /\ seenCR' = seenCR \/ seenCR' = cr'
    BY DEF LooksOn, passVars
  <2> QED
    BY <1>1, <1>2, <1>4, <2>1, <2>2 DEF InScopeStays
<1> QED
  BY <1>5, <1>6 DEF VerdictStays
=============================================================================
