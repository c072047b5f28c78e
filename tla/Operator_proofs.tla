---------------------------- MODULE Operator_proofs ----------------------------
(***************************************************************************)
(* Proofs about Operator, for every AttemptCap, every set of Faults, every *)
(* set of TriageResults and every MaxInterruptions.                        *)
(***************************************************************************)
EXTENDS Operator, Reconcile_proofs


(***************************************************************************)
(* TypeOK is not inductive: TriagePodFails counts a failed Pod, and stays  *)
(* within job.Status.Failed <= 2 only because a Job that is still active   *)
(* has not used up its BackoffLimit.                                       *)
(***************************************************************************)
BackoffLeft == triageJob.state = "active" => triageJob.failedPods <= TriageBackoffLimit

TypeInv == TypeOK /\ BackoffLeft

(* The records an absent and a freshly created Job have. *)
LEMMA JobTypes == NoJob \in Job /\ NewJob \in Job
BY DEF NoJob, NewJob, Job, JobState

(* What orig holds between passes is a resource. *)
LEMMA NothingReadType == NothingRead \in Resource
BY EmptyStatusType, AttemptCapAssumption
   DEF NothingRead, Resource, ResourceSpec, Attempts

(* The initial states are well typed. *)
LEMMA InitTypeInv == Init => TypeInv
<1> SUFFICES ASSUME Init PROVE TypeInv
  OBVIOUS
<1>1. cr \in Resource /\ cr.spec \in ResourceSpec
  BY EmptyStatusType DEF Init, Resource
<1>2. Unreadable \in Verdict
  BY DEF Unreadable, Verdict
<1>3. NoPR \in 0..AttemptCap
  BY AttemptCapAssumption DEF NoPR
<1>4. MaxInterruptions \in Nat => 0 \in 0..MaxInterruptions
  OBVIOUS
<1>5. cr.spec.approved \in BOOLEAN /\ cr.spec.maxFixAttempts \in Attempts
  BY <1>1 DEF ResourceSpec
<1>6. TypeOK
  BY <1>1, <1>2, <1>3, <1>4, <1>5, JobTypes, EmptyStatusType, NothingReadType,
     MaxInterruptionsAssumption
     DEF Init, TypeOK, PassStep
<1>7. BackoffLeft
  BY DEF Init, BackoffLeft, NoJob
<1> QED
  BY <1>6, <1>7 DEF TypeInv

(***************************************************************************)
(* One lemma per group of actions: the reconciler, the faults and caches,  *)
(* the human, the Jobs.                                                    *)
(***************************************************************************)
LEMMA PassTypes ==
    ASSUME TypeInv, PassProgress
    PROVE  TypeInv'
<1> USE DEF TypeInv
<1>1. CASE BeginPass
  <2> DEFINE st == WithPhaseDefaulted(seenCR.status)
  <2>1. seenCR.status \in Status /\ seenCR.spec \in ResourceSpec
    BY DEF TypeOK, Resource
  <2>2. st \in Status /\ AfterValidation(seenCR.spec, st) \in Status
    BY <2>1, WithPhaseDefaultedType, AfterValidationType
  <2>3. /\ new' \in Status /\ pc' \in PassStep /\ orig' \in Resource
        /\ UNCHANGED <<cr, clusterVars, cacheVars, remote, historyVars>>
    BY <1>1, <2>2 DEF BeginPass, TypeOK, PassStep
  <2> QED
    BY <2>3 DEF TypeOK, BackoffLeft, clusterVars, cacheVars, historyVars
<1>2. CASE GetTriageJob
  <2>1. ASSUME NEW v \in Verdict
        PROVE  AfterTriageJob(new, seenTriageJob, v) \in Status
    BY AfterTriageJobType DEF TypeOK
  <2>2. verdict \in Verdict /\ Unreadable \in Verdict
    BY DEF TypeOK, Unreadable, Verdict
  <2>3. /\ new' \in Status /\ pc' \in PassStep
        /\ UNCHANGED <<cr, clusterVars, cacheVars, orig, remote, historyVars>>
    BY <1>2, <2>1, <2>2 DEF GetTriageJob, TypeOK, PassStep
  <2> QED
    BY <2>3 DEF TypeOK, BackoffLeft, clusterVars, cacheVars, historyVars
<1>3. CASE CreateTriageJob
  <2>1. TriageJobCreated(new) \in Status
    BY WithConditionType DEF TriageJobCreated, TypeOK, ConditionType, ConditionStatus
  <2>2. Unreadable \in Verdict
    BY DEF Unreadable, Verdict
  <2>3. /\ triageJob' \in Job /\ verdict' \in Verdict
        /\ new' \in Status /\ pc' \in PassStep /\ orig' \in Resource
    BY <1>3, <2>1, <2>2, JobTypes, EmptyStatusType, NothingReadType
       DEF CreateTriageJob, PassEnds, TypeOK, PassStep
  <2>4. BackoffLeft'
    BY <1>3 DEF CreateTriageJob, BackoffLeft, NewJob, TriageBackoffLimit
  <2> QED
    BY <1>3, <2>3, <2>4 DEF CreateTriageJob, CacheJobs, TypeOK, historyVars
<1>4. CASE GetFixJob
  <2>1. CurrentAttempt(new) \in Attempts
    BY CurrentAttemptType DEF TypeOK
  <2>2. seenFixJob[CurrentAttempt(new)] \in Job /\ orig.spec \in ResourceSpec
    BY <2>1 DEF TypeOK, Resource
  <2>3. report[CurrentAttempt(new)] \in 0..AttemptCap /\ NoPR \in 0..AttemptCap
    BY <2>1, AttemptCapAssumption DEF TypeOK, NoPR
  <2>4. ASSUME NEW pr \in 0..AttemptCap
        PROVE  AfterFixJob(orig.spec, new, seenFixJob[CurrentAttempt(new)], pr)
                   \in Status
    BY <2>2, AfterFixJobType DEF TypeOK
  <2>5. /\ new' \in Status /\ pc' \in PassStep
        /\ UNCHANGED <<cr, clusterVars, cacheVars, orig, remote, historyVars>>
    BY <1>4, <2>3, <2>4 DEF GetFixJob, TypeOK, PassStep
  <2> QED
    BY <2>5 DEF TypeOK, BackoffLeft, clusterVars, cacheVars, historyVars
<1>5. CASE CreateFixJob
  <2>1. CurrentAttempt(new) \in Attempts /\ NoPR \in 0..AttemptCap
    BY CurrentAttemptType, AttemptCapAssumption DEF TypeOK, NoPR
  <2>2. FixJobCreated(new) \in Status
    BY FixJobCreatedType DEF TypeOK
  <2>3. /\ fixJob' \in [Attempts -> Job]
        /\ report' \in [Attempts -> 0..AttemptCap]
        /\ launched' \subseteq Attempts
        /\ new' \in Status /\ pc' \in PassStep /\ orig' \in Resource
    BY <1>5, <2>1, <2>2, JobTypes, EmptyStatusType, NothingReadType
       DEF CreateFixJob, PassEnds, TypeOK, PassStep
  <2> QED
    BY <1>5, <2>3 DEF CreateFixJob, CacheJobs, TypeOK, BackoffLeft
<1>6. CASE PatchStatus
  <2>1. MergePatch(cr.status, orig.status, new) \in Status
    BY MergePatchType DEF TypeOK, Resource
  <2>2. cr' \in Resource
    BY <1>6, <2>1 DEF PatchStatus, TypeOK, Resource
  <2>3. seenCR' \in Resource
    BY <1>6, <2>2 DEF PatchStatus, CacheCR, TypeOK
  <2>4. new' \in Status /\ pc' \in PassStep /\ orig' \in Resource
    BY <1>6, EmptyStatusType, NothingReadType DEF PatchStatus, PassEnds, PassStep
  <2> QED
    BY <1>6, <2>2, <2>3, <2>4
       DEF PatchStatus, TypeOK, BackoffLeft, clusterVars, historyVars
<1> QED
  BY <1>1, <1>2, <1>3, <1>4, <1>5, <1>6 DEF PassProgress

(* A failed call, a crash and a watch event keep the types. *)
LEMMA InterruptionTypes ==
    ASSUME TypeInv, ReturnError \/ Crash \/ SyncCR \/ SyncJobs
    PROVE  TypeInv'
<1> USE DEF TypeInv
<1>1. ASSUME interruptions < MaxInterruptions, interruptions' = interruptions + 1
      PROVE  interruptions' \in 0..MaxInterruptions
  BY <1>1, MaxInterruptionsAssumption DEF TypeOK
<1>2. ASSUME PassEnds
      PROVE  new' \in Status /\ pc' \in PassStep /\ orig' \in Resource
  BY <1>2, EmptyStatusType, NothingReadType DEF PassEnds, PassStep
<1>3. CASE ReturnError
  BY <1>1, <1>2, <1>3
     DEF ReturnError, TypeOK, BackoffLeft, clusterVars, cacheVars
<1>4. CASE Crash
  BY <1>1, <1>2, <1>4 DEF Crash, TypeOK, BackoffLeft, clusterVars
<1>5. CASE SyncCR
  BY <1>5 DEF SyncCR, TypeOK, BackoffLeft, clusterVars, passVars, historyVars
<1>6. CASE SyncJobs
  BY <1>6 DEF SyncJobs, TypeOK, BackoffLeft, clusterVars, passVars, historyVars
<1> QED
  BY <1>3, <1>4, <1>5, <1>6

(* The edits of spec keep the types. *)
LEMMA HumanTypes ==
    ASSUME TypeInv, SetApproved \/ SetMaxFixAttempts
    PROVE  TypeInv'
<1> USE DEF TypeInv
<1>1. CASE SetApproved
  <2>1. cr' \in Resource /\ cr'.spec.approved \in BOOLEAN
    BY <1>1 DEF SetApproved, TypeOK, Resource, ResourceSpec
  <2>2. seenCR' \in Resource
    BY <1>1, <2>1 DEF SetApproved, CacheCR, TypeOK
  <2>3. everApproved' \in BOOLEAN
    BY <1>1, <2>1 DEF SetApproved, TypeOK
  <2> QED
    BY <1>1, <2>1, <2>2, <2>3
       DEF SetApproved, TypeOK, BackoffLeft, clusterVars, passVars
<1>2. CASE SetMaxFixAttempts
  <2>1. cr' \in Resource /\ granted' \in Attempts
    BY <1>2 DEF SetMaxFixAttempts, TypeOK, Resource, ResourceSpec
  <2>2. seenCR' \in Resource
    BY <1>2, <2>1 DEF SetMaxFixAttempts, CacheCR, TypeOK
  <2> QED
    BY <1>2, <2>1, <2>2
       DEF SetMaxFixAttempts, TypeOK, BackoffLeft, clusterVars, passVars
<1> QED
  BY <1>1, <1>2

(* The life of the triage Job keeps the types and its BackoffLimit. *)
LEMMA TriageJobTypes ==
    ASSUME TypeInv, TriagePodEnds \/ TriageJobExpires
    PROVE  TypeInv'
<1> USE DEF TypeInv
<1>1. CASE TriagePodSucceeds
  <2>1. triageJob' \in Job /\ BackoffLeft'
    BY <1>1 DEF TriagePodSucceeds, TypeOK, Job, JobState, BackoffLeft
  <2>2. verdict' \in Verdict /\ everAccepted' \in BOOLEAN
    BY <1>1, TriageResultsAssumption DEF TriagePodSucceeds, TypeOK, Acceptable, Verdict
  <2>3. succeeded' \subseteq 0..AttemptCap
    BY <1>1, AttemptCapAssumption DEF TriagePodSucceeds, TypeOK
  <2> QED
    BY <1>1, <2>1, <2>2, <2>3 DEF TriagePodSucceeds, CacheJobs, TypeOK, passVars
<1>2. CASE TriagePodFails
  <2>1. triageJob' \in Job /\ BackoffLeft'
    BY <1>2 DEF TriagePodFails, TypeOK, Job, JobState, BackoffLeft, TriageBackoffLimit
  <2> QED
    BY <1>2, <2>1 DEF TriagePodFails, CacheJobs, TypeOK, passVars, historyVars
<1>3. CASE TriageJobExpires
  <2>1. triageJob' \in Job /\ BackoffLeft' /\ verdict' \in Verdict
    BY <1>3, JobTypes DEF TriageJobExpires, BackoffLeft, NoJob, Unreadable, Verdict
  <2> QED
    BY <1>3, <2>1 DEF TriageJobExpires, CacheJobs, TypeOK, passVars, historyVars
<1> QED
  BY <1>1, <1>2, <1>3 DEF TriagePodEnds

(* The life of a fix Job keeps the types. *)
LEMMA FixJobTypes ==
    ASSUME TypeInv, NEW k \in Attempts, FixPodEnds(k) \/ FixJobExpires(k)
    PROVE  TypeInv'
<1> USE DEF TypeInv
<1>0. fixJob[k] \in Job /\ k \in 0..AttemptCap /\ NoPR \in 0..AttemptCap
  BY AttemptCapAssumption DEF TypeOK, Attempts, NoPR
<1>1. CASE FixPodSucceeds(k)
  <2>1. fixJob' \in [Attempts -> Job]
    BY <1>0, <1>1 DEF FixPodSucceeds, TypeOK, Job, JobState
  <2>2. report' \in [Attempts -> 0..AttemptCap]
    BY <1>0, <1>1 DEF FixPodSucceeds, TypeOK
  <2>3. remote' \in [Attempts -> {"none", "branch", "pr"}]
    BY <1>1 DEF FixPodSucceeds, TypeOK
  <2>4. succeeded' \subseteq 0..AttemptCap
    BY <1>0, <1>1 DEF FixPodSucceeds, TypeOK
  <2> QED
    BY <1>1, <2>1, <2>2, <2>3, <2>4
       DEF FixPodSucceeds, CacheJobs, TypeOK, BackoffLeft, passVars
<1>2. CASE FixPodFails(k)
  <2>1. [state |-> "failed", failedPods |-> 1] \in Job
    BY DEF Job, JobState
  <2>2. fixJob' \in [Attempts -> Job]
    BY <1>2, <2>1 DEF FixPodFails, TypeOK
  <2>3. remote' \in [Attempts -> {"none", "branch", "pr"}]
    BY <1>2 DEF FixPodFails, TypeOK
  <2> QED
    BY <1>2, <2>2, <2>3
       DEF FixPodFails, CacheJobs, TypeOK, BackoffLeft, passVars, historyVars
<1>3. CASE FixJobGetsNoPod(k)
  <2>1. fixJob' \in [Attempts -> Job]
    BY <1>0, <1>3 DEF FixJobGetsNoPod, TypeOK, Job, JobState
  <2> QED
    BY <1>3, <2>1
       DEF FixJobGetsNoPod, CacheJobs, TypeOK, BackoffLeft, passVars, historyVars
<1>4. CASE FixJobExpires(k)
  <2>1. fixJob' \in [Attempts -> Job] /\ report' \in [Attempts -> 0..AttemptCap]
    BY <1>0, <1>4, JobTypes DEF FixJobExpires, TypeOK
  <2> QED
    BY <1>4, <2>1
       DEF FixJobExpires, CacheJobs, TypeOK, BackoffLeft, passVars, historyVars
<1> QED
  BY <1>1, <1>2, <1>3, <1>4 DEF FixPodEnds

(* So does a step that changes nothing. *)
LEMMA StutterTypes == TypeInv /\ UNCHANGED vars => TypeInv'
BY DEF TypeInv, TypeOK, BackoffLeft, vars, clusterVars, cacheVars, passVars,
       historyVars

(***************************************************************************)
(* Type correctness: in particular status.execution.attempt stays within   *)
(* the attempts a spec may grant, and no record is ever looked up outside  *)
(* its domain.                                                             *)
(***************************************************************************)
THEOREM TypeInvariant == Spec => []TypeInv
<1>1. Init => TypeInv
  BY InitTypeInv
<1>2. TypeInv /\ [Next]_vars => TypeInv'
  BY PassTypes, InterruptionTypes, HumanTypes, TriageJobTypes, FixJobTypes,
     StutterTypes
     DEF Next
<1> QED
  BY <1>1, <1>2, PTL DEF Spec

(* TypeOK, the invariant the runs check, on every state of every behaviour. *)
THEOREM TypeCorrect == Spec => []TypeOK
<1>1. TypeInv => TypeOK
  BY DEF TypeInv
<1> QED
  BY <1>1, TypeInvariant, PTL

-----------------------------------------------------------------------------
(***************************************************************************)
(* The human gate.  HumanGate speaks of the Jobs that were created; what   *)
(* makes it inductive is that no copy of the status, the stored one, the   *)
(* cached one, the one a pass read and the one it is computing, is beyond  *)
(* the barrier before the human and the triage have spoken.  Merge patches *)
(* mix copies, but a patched phase is always one of the two it is made of. *)
(***************************************************************************)
BehindBarrier == {"Ready", "Executing", "PROpen"}

Gated(st) ==
    /\ st.phase \in BehindBarrier => everApproved /\ everAccepted
    /\ st.phase = "PendingValidation" => everAccepted

CopiesGated ==
    /\ Gated(cr.status) /\ Gated(seenCR.status) /\ Gated(orig.status)
    /\ Gated(new)

ApprovalsKnown ==
    cr.spec.approved \/ seenCR.spec.approved \/ orig.spec.approved => everApproved

PassOnTrack ==
    /\ pc \in {"getTriageJob", "createTriageJob"} => new.phase = "Triage"
    /\ pc \in {"getFixJob", "createFixJob"} => new.phase \in {"Ready", "Executing"}

VerdictKnown == Acceptable(verdict) => everAccepted

GateInv ==
    TypeInv /\ CopiesGated /\ ApprovalsKnown /\ PassOnTrack /\ VerdictKnown
    /\ HumanGate

(***************************************************************************)
(* Only SetApproved and TriagePodSucceeds write the two histories, and     *)
(* neither ever takes a word back.                                         *)
(***************************************************************************)
HistoryGrows ==
    /\ everApproved => everApproved'
    /\ everAccepted => everAccepted'

(* No step takes back an approval or a verdict once given. *)
LEMMA NextHistoryGrows ==
    ASSUME TypeInv, [Next]_vars
    PROVE  HistoryGrows
BY DEF TypeInv, TypeOK, HistoryGrows, Next, PassProgress, BeginPass, GetTriageJob,
       CreateTriageJob, GetFixJob, CreateFixJob, PatchStatus, ReturnError,
       Crash, SyncCR, SyncJobs, SetApproved, SetMaxFixAttempts,
       TriagePodEnds, TriagePodSucceeds, TriagePodFails, TriageJobExpires,
       FixPodEnds, FixPodSucceeds, FixPodFails, FixJobGetsNoPod,
       FixJobExpires, vars, historyVars

(* At first nothing is approved beyond spec and nothing is launched. *)
LEMMA InitGateInv == Init => GateInv
<1> SUFFICES ASSUME Init PROVE GateInv
  OBVIOUS
<1>1. TypeInv
  BY InitTypeInv
<1>2. /\ cr.status = EmptyStatus /\ orig.status = EmptyStatus
      /\ seenCR = cr /\ new = EmptyStatus
  BY DEF Init, NothingRead
<1>3. EmptyStatus.phase = ""
  BY DEF EmptyStatus
<1>4. CopiesGated
  BY <1>2, <1>3 DEF CopiesGated, Gated, BehindBarrier
<1>5. ApprovalsKnown
  BY DEF Init, ApprovalsKnown, NothingRead
<1>6. PassOnTrack /\ VerdictKnown /\ HumanGate
  BY DEF Init, PassOnTrack, VerdictKnown, HumanGate, Acceptable, Unreadable
<1> QED
  BY <1>1, <1>4, <1>5, <1>6 DEF GateInv

(* No step of a pass lets a phase, a copy or a Job past the barrier. *)
LEMMA PassKeepsGate ==
    ASSUME GateInv, PassProgress, TypeInv', HistoryGrows
    PROVE  GateInv'
<1> USE DEF GateInv, TypeInv
<1>0. ASSUME PassEnds
      PROVE  /\ ~orig'.spec.approved
             /\ new'.phase = "" /\ orig'.status.phase = ""
             /\ pc' = "idle"
  BY <1>0 DEF PassEnds, NothingRead, EmptyStatus
<1>1. CASE BeginPass
  <2> DEFINE st == WithPhaseDefaulted(seenCR.status)
  <2>1. seenCR.status \in Status /\ seenCR.spec \in ResourceSpec /\ st \in Status
    BY WithPhaseDefaultedType DEF TypeOK, Resource
  <2>2. st.phase = seenCR.status.phase \/ st.phase = "Triage"
    BY <2>1 DEF WithPhaseDefaulted, Status
  <2>3. orig' = seenCR /\ UNCHANGED <<cr, seenCR, verdict, launched, everApproved,
                                      everAccepted>>
    BY <1>1 DEF BeginPass, clusterVars, cacheVars, historyVars
  <2> HIDE DEF st
  <2>4. Gated(st)
    BY <2>2 DEF CopiesGated, Gated, BehindBarrier
  <2>5. \/ new' = st
        \/ new' = AfterValidation(seenCR.spec, st) /\ st.phase = "PendingValidation"
    BY <1>1 DEF BeginPass, st
  <2>6. Gated(new)'
    BY <2>1, <2>3, <2>4, <2>5, ValidationPhases
       DEF Gated, BehindBarrier, ApprovalsKnown
  <2>7. PassOnTrack'
    BY <1>1 DEF BeginPass, PassOnTrack
  <2> QED
    BY <2>3, <2>6, <2>7
       DEF CopiesGated, Gated, ApprovalsKnown, VerdictKnown, HumanGate
<1>2. CASE GetTriageJob
  <2>1. new \in Status /\ new.phase = "Triage" /\ seenTriageJob \in Job
    BY <1>2 DEF GetTriageJob, TypeOK, PassOnTrack
  <2>2. UNCHANGED <<cr, seenCR, orig, verdict, launched, everApproved, everAccepted>>
    BY <1>2 DEF GetTriageJob, clusterVars, cacheVars, historyVars
  <2>3. \/ new' = new
        \/ \E v \in {verdict, Unreadable} :
              new' = AfterTriageJob(new, seenTriageJob, v)
    BY <1>2 DEF GetTriageJob
  <2>4. verdict \in Verdict /\ Unreadable \in Verdict /\ ~Acceptable(Unreadable)
    BY DEF TypeOK, Unreadable, Verdict, Acceptable
  <2>5. Gated(new)'
    BY <2>1, <2>2, <2>3, <2>4, TriagePhases
       DEF Gated, BehindBarrier, VerdictKnown
  <2>6. PassOnTrack'
    BY <1>2, <2>1 DEF GetTriageJob, PassOnTrack
  <2> QED
    BY <2>2, <2>5, <2>6
       DEF CopiesGated, Gated, ApprovalsKnown, VerdictKnown, HumanGate
<1>3. CASE CreateTriageJob
  <2>1. new \in Status /\ new.phase = "Triage"
    BY <1>3 DEF CreateTriageJob, TypeOK, PassOnTrack
  <2>2. TriageJobCreated(new).phase = "Triage"
    BY <2>1, WithConditionKeepsPhase DEF TriageJobCreated
  <2>3. UNCHANGED <<cr, seenCR, launched, everApproved, everAccepted>>
    BY <1>3 DEF CreateTriageJob, historyVars
  <2>4. VerdictKnown'
    BY <1>3, <2>3 DEF CreateTriageJob, VerdictKnown, Acceptable, Unreadable
  <2>5. /\ Gated(new)' /\ Gated(orig.status)'
        /\ PassOnTrack' /\ ApprovalsKnown'
    BY <1>0, <1>3, <2>2, <2>3
       DEF CreateTriageJob, CopiesGated, Gated, BehindBarrier, PassOnTrack,
           ApprovalsKnown
  <2> QED
    BY <2>3, <2>4, <2>5 DEF CopiesGated, Gated, HumanGate
<1>4. CASE GetFixJob
  <2>1. everApproved /\ everAccepted
    BY <1>4 DEF GetFixJob, PassOnTrack, CopiesGated, Gated, BehindBarrier
  <2>2. UNCHANGED <<cr, seenCR, orig, verdict, launched, everApproved, everAccepted>>
    BY <1>4 DEF GetFixJob, clusterVars, cacheVars, historyVars
  <2>3. PassOnTrack'
    BY <1>4 DEF GetFixJob, PassOnTrack
  <2> QED
    BY <2>1, <2>2, <2>3
       DEF CopiesGated, Gated, ApprovalsKnown, VerdictKnown, HumanGate
<1>5. CASE CreateFixJob
  <2>1. everApproved /\ everAccepted
    BY <1>5 DEF CreateFixJob, PassOnTrack, CopiesGated, Gated, BehindBarrier
  <2>2. UNCHANGED <<cr, seenCR, verdict, everApproved, everAccepted>>
    BY <1>5 DEF CreateFixJob
  <2>3. pc' \in {"patch", "idle"}
    BY <1>5 DEF CreateFixJob, PassEnds
  <2>4. CopiesGated' /\ ApprovalsKnown' /\ HumanGate'
    BY <2>1, <2>2 DEF CopiesGated, Gated, ApprovalsKnown, HumanGate
  <2>5. PassOnTrack' /\ VerdictKnown'
    BY <2>2, <2>3 DEF PassOnTrack, VerdictKnown
  <2> QED
    BY <2>4, <2>5
<1>6. CASE PatchStatus
  <2>1. /\ cr.status \in Status /\ orig.status \in Status /\ new \in Status
        /\ cr \in Resource
    BY DEF TypeOK, Resource
  <2>2. UNCHANGED <<verdict, launched, everApproved, everAccepted>>
    BY <1>6 DEF PatchStatus, clusterVars, historyVars
  <2>3. cr'.spec = cr.spec /\ cr'.status = MergePatch(cr.status, orig.status, new)
    BY <1>6, <2>1 DEF PatchStatus, Resource
  <2>4. Gated(cr.status)'
    BY <2>1, <2>2, <2>3, PatchedPhase DEF CopiesGated, Gated, BehindBarrier
  <2>5. seenCR' = seenCR \/ seenCR' = cr'
    BY <1>6 DEF PatchStatus, CacheCR
  <2>6. PassEnds
    BY <1>6 DEF PatchStatus
  <2>7. CopiesGated' /\ ApprovalsKnown' /\ PassOnTrack'
    BY <1>0, <2>2, <2>3, <2>4, <2>5, <2>6
       DEF CopiesGated, Gated, BehindBarrier, ApprovalsKnown, PassOnTrack
  <2> QED
    BY <2>2, <2>7 DEF VerdictKnown, HumanGate
<1> QED
  BY <1>1, <1>2, <1>3, <1>4, <1>5, <1>6 DEF PassProgress

(* Neither does a fault, a watch event or an edit of spec. *)
LEMMA WorldKeepsGate ==
    ASSUME GateInv, TypeInv', HistoryGrows,
           \/ ReturnError \/ Crash \/ SyncCR \/ SyncJobs
           \/ SetApproved \/ SetMaxFixAttempts
    PROVE  GateInv'
<1> USE DEF GateInv, TypeInv
<1>0. ASSUME PassEnds
      PROVE  /\ ~orig'.spec.approved
             /\ new'.phase = "" /\ orig'.status.phase = ""
             /\ pc' = "idle"
  BY <1>0 DEF PassEnds, NothingRead, EmptyStatus
<1>1. CASE ReturnError \/ Crash
  <2>1. /\ PassEnds /\ UNCHANGED <<cr, verdict, launched, everApproved, everAccepted>>
        /\ seenCR' \in {seenCR, cr}
    BY <1>1 DEF ReturnError, Crash, clusterVars, cacheVars
  <2> QED
    BY <1>0, <2>1
       DEF CopiesGated, Gated, BehindBarrier, ApprovalsKnown, PassOnTrack,
           VerdictKnown, HumanGate
<1>2. CASE SyncCR \/ SyncJobs
  <2>1. /\ UNCHANGED <<cr, verdict, pc, orig, new, launched, everApproved, everAccepted>>
        /\ seenCR' \in {seenCR, cr}
    BY <1>2 DEF SyncCR, SyncJobs, clusterVars, passVars, historyVars
  <2> QED
    BY <2>1 DEF CopiesGated, Gated, ApprovalsKnown, PassOnTrack, VerdictKnown, HumanGate
<1>3. CASE SetApproved \/ SetMaxFixAttempts
  <2>1. cr'.status = cr.status
    BY <1>3 DEF SetApproved, SetMaxFixAttempts, TypeOK, Resource
  <2>2. cr'.spec.approved => everApproved'
    BY <1>3 DEF SetApproved, SetMaxFixAttempts, TypeOK, Resource, ResourceSpec,
                ApprovalsKnown
  <2>3. /\ UNCHANGED <<verdict, pc, orig, new, launched, everAccepted>>
        /\ seenCR' = seenCR \/ seenCR' = cr'
    BY <1>3 DEF SetApproved, SetMaxFixAttempts, CacheCR, clusterVars, passVars
  <2>4. CopiesGated'
    BY <2>1, <2>3 DEF CopiesGated, Gated, HistoryGrows
  <2>5. ApprovalsKnown'
    BY <2>2, <2>3 DEF ApprovalsKnown, HistoryGrows
  <2> QED
    BY <2>3, <2>4, <2>5 DEF PassOnTrack, VerdictKnown, HumanGate, HistoryGrows
<1> QED
  BY <1>1, <1>2, <1>3

(* Neither does anything that happens to a Job or a Pod. *)
LEMMA JobsKeepGate ==
    ASSUME GateInv, TypeInv', HistoryGrows,
           \/ TriagePodEnds \/ TriageJobExpires
           \/ \E k \in Attempts : FixPodEnds(k) \/ FixJobExpires(k)
    PROVE  GateInv'
<1> USE DEF GateInv
<1>1. UNCHANGED <<cr, seenCR, pc, orig, new, launched, everApproved>>
  BY DEF TriagePodEnds, TriagePodSucceeds, TriagePodFails, TriageJobExpires,
         FixPodEnds, FixPodSucceeds, FixPodFails, FixJobGetsNoPod, FixJobExpires,
         passVars, historyVars
<1>2. VerdictKnown'
  <2>1. CASE TriagePodSucceeds
    BY <2>1, TriageResultsAssumption
       DEF TriagePodSucceeds, VerdictKnown, Acceptable
  <2>2. CASE TriageJobExpires
    BY <2>2 DEF TriageJobExpires, VerdictKnown, Acceptable, Unreadable
  <2>3. CASE TriagePodFails \/ \E k \in Attempts : FixPodEnds(k)
    <3>1. UNCHANGED <<verdict, everAccepted>>
      BY <2>3 DEF TriagePodFails, FixPodEnds, FixPodSucceeds, FixPodFails,
                  FixJobGetsNoPod, historyVars
    <3> QED
      BY <3>1 DEF VerdictKnown
  <2>4. CASE \E k \in Attempts : FixJobExpires(k)
    <3>1. UNCHANGED <<verdict, everAccepted>>
      BY <2>4 DEF FixJobExpires, historyVars
    <3> QED
      BY <3>1 DEF VerdictKnown
  <2> QED
    BY <2>1, <2>2, <2>3, <2>4 DEF TriagePodEnds
<1> QED
  BY <1>1, <1>2
     DEF CopiesGated, Gated, ApprovalsKnown, PassOnTrack, HumanGate, HistoryGrows

(* So every step keeps the gate. *)
LEMMA GateStep ==
    ASSUME GateInv, [Next]_vars
    PROVE  GateInv' /\ HistoryGrows
<1>1. TypeInv' /\ HistoryGrows
  BY PassTypes, InterruptionTypes, HumanTypes, TriageJobTypes, FixJobTypes,
     StutterTypes, NextHistoryGrows
     DEF Next, GateInv
<1>2. CASE Next
  BY <1>1, <1>2, PassKeepsGate, WorldKeepsGate, JobsKeepGate DEF Next
<1>3. CASE UNCHANGED vars
  BY <1>1, <1>3
     DEF GateInv, CopiesGated, Gated, ApprovalsKnown, PassOnTrack, VerdictKnown,
         HumanGate, vars, clusterVars, cacheVars, passVars, historyVars
<1> QED
  BY <1>1, <1>2, <1>3

(***************************************************************************)
(* What GateInv says of the state outside the manager, which is the same   *)
(* for every manager there is; and a manager that looks on while another   *)
(* one, or the world, moves on from it keeps its side of GateInv.          *)
(***************************************************************************)
SharedTypes ==
    /\ cr \in Resource
    /\ triageJob \in Job /\ fixJob \in [Attempts -> Job]
    /\ verdict \in Verdict /\ report \in [Attempts -> 0..AttemptCap]
    /\ remote \in [Attempts -> {"none", "branch", "pr"}]
    /\ everApproved \in BOOLEAN /\ everAccepted \in BOOLEAN
    /\ granted \in Attempts /\ launched \subseteq Attempts
    /\ succeeded \subseteq 0..AttemptCap
    /\ interruptions \in 0..MaxInterruptions
    /\ BackoffLeft

SharedGate ==
    /\ Gated(cr.status) /\ (cr.spec.approved => everApproved)
    /\ VerdictKnown /\ HumanGate

(* Each side of GateInv implies the shared part. *)
LEMMA GateInvShared == GateInv => SharedTypes /\ SharedGate
BY DEF GateInv, TypeInv, TypeOK, CopiesGated, ApprovalsKnown, SharedTypes,
       SharedGate

(* A manager that looks on keeps its side. *)
LEMMA LookingOnKeepsGate ==
    ASSUME GateInv, UNCHANGED passVars, CacheCR, CacheJobs,
           SharedTypes', SharedGate', HistoryGrows
    PROVE  GateInv'
<1> USE DEF GateInv, SharedTypes, SharedGate
<1>1. UNCHANGED <<pc, orig, new>>
  BY DEF passVars
<1>2. seenCR' = seenCR \/ seenCR' = cr'
  BY DEF CacheCR
<1>3. /\ seenTriageJob' = seenTriageJob \/ seenTriageJob' = triageJob'
      /\ seenFixJob' = seenFixJob \/ seenFixJob' = fixJob'
  BY DEF CacheJobs
<1>4. TypeInv'
  BY <1>1, <1>2, <1>3 DEF TypeInv, TypeOK
<1>5. CopiesGated' /\ ApprovalsKnown' /\ PassOnTrack'
  BY <1>1, <1>2 DEF CopiesGated, Gated, ApprovalsKnown, PassOnTrack, HistoryGrows
<1> QED
  BY <1>4, <1>5

(***************************************************************************)
(* The human gate holds whatever crashes, fails, lags, expires or is lost: *)
(* no fix Job is created before the human approved and a triage Pod        *)
(* reported an issue in scope and not suspicious.                          *)
(***************************************************************************)
THEOREM GateInvariant == Spec => []GateInv
BY InitGateInv, GateStep, PTL DEF Spec

(* HumanGate, the invariant the runs check: reconcileFix never creates a
   Job for an issue that was not approved and found acceptable. *)
THEOREM HumanGateHolds == Spec => []HumanGate
<1>1. GateInv => HumanGate
  BY DEF GateInv
<1> QED
  BY <1>1, GateInvariant, PTL

-----------------------------------------------------------------------------
(***************************************************************************)
(* The attempt budget.  A pass raises the attempt up to the cap of the     *)
(* spec it has read, which may be an old one; the largest cap there has    *)
(* ever been bounds them all, in every copy.                               *)
(***************************************************************************)
WithinBudget(st) == st.attempt <= granted

BudgetInv ==
    /\ TypeInv
    /\ /\ cr.spec.maxFixAttempts <= granted
       /\ seenCR.spec.maxFixAttempts <= granted
       /\ orig.spec.maxFixAttempts <= granted
    /\ /\ WithinBudget(cr.status) /\ WithinBudget(seenCR.status)
       /\ WithinBudget(orig.status) /\ WithinBudget(new)
    /\ AttemptsGranted

(* At first no attempt is under way. *)
LEMMA InitBudgetInv == Init => BudgetInv
<1> SUFFICES ASSUME Init PROVE BudgetInv
  OBVIOUS
<1>1. TypeInv
  BY InitTypeInv
<1>2. granted \in Attempts /\ granted = cr.spec.maxFixAttempts
  BY <1>1 DEF Init, TypeInv, TypeOK
<1>3. /\ seenCR = cr /\ cr.status = EmptyStatus /\ new = EmptyStatus
      /\ orig.status = EmptyStatus /\ orig.spec.maxFixAttempts = 1
      /\ launched = {}
  BY DEF Init, NothingRead
<1>4. EmptyStatus.attempt = 0
  BY DEF EmptyStatus
<1> QED
  BY <1>1, <1>2, <1>3, <1>4, AttemptCapAssumption
     DEF BudgetInv, WithinBudget, AttemptsGranted, Attempts

(* No step of a pass takes an attempt beyond the spec the pass has read. *)
LEMMA PassKeepsBudget ==
    ASSUME BudgetInv, PassProgress, TypeInv'
    PROVE  BudgetInv'
<1> USE DEF BudgetInv, TypeInv
<1>0. /\ granted \in Attempts /\ granted \in Nat /\ 1 <= granted
      /\ new \in Status /\ new.attempt \in Nat
      /\ CurrentAttempt(new) \in Attempts /\ CurrentAttempt(new) <= granted
  <2>1. granted \in Attempts /\ granted \in Nat /\ 1 <= granted
    BY AttemptCapAssumption DEF TypeOK, Attempts
  <2>2. new \in Status /\ CurrentAttempt(new) \in Attempts
    BY CurrentAttemptType DEF TypeOK
  <2>3. new.attempt \in 0..AttemptCap
    BY <2>2 DEF Status
  <2>4. new.attempt \in Nat
    BY <2>3, AttemptCapAssumption
  <2>5. CurrentAttempt(new) <= granted
    BY <2>1 DEF CurrentAttempt, WithinBudget
  <2> QED
    BY <2>1, <2>2, <2>4, <2>5
<1>e. ASSUME PassEnds
      PROVE  /\ orig'.spec.maxFixAttempts = 1
             /\ orig'.status.attempt = 0 /\ new'.attempt = 0
  BY <1>e DEF PassEnds, NothingRead, EmptyStatus
<1>1. CASE BeginPass
  <2> DEFINE st == WithPhaseDefaulted(seenCR.status)
  <2>1. seenCR.status \in Status /\ seenCR.spec \in ResourceSpec /\ st \in Status
    BY WithPhaseDefaultedType DEF TypeOK, Resource
  <2>2. st.attempt = seenCR.status.attempt
    BY <2>1, ValidationKeepsAttempt
  <2>3. /\ orig' = seenCR /\ UNCHANGED <<cr, seenCR, granted, launched>>
        /\ new' = st \/ new' = AfterValidation(seenCR.spec, st)
    BY <1>1 DEF BeginPass, clusterVars, cacheVars, historyVars
  <2> HIDE DEF st
  <2>4. new'.attempt = seenCR.status.attempt
    BY <2>1, <2>2, <2>3, ValidationKeepsAttempt
  <2> QED
    BY <2>3, <2>4 DEF WithinBudget, AttemptsGranted
<1>2. CASE GetTriageJob \/ CreateTriageJob
  <2>1. UNCHANGED <<cr, seenCR, granted, launched>>
    BY <1>2 DEF GetTriageJob, CreateTriageJob, cacheVars, historyVars
  <2>2. ASSUME GetTriageJob
        PROVE  orig' = orig /\ new'.attempt = new.attempt
    <3>1. seenTriageJob \in Job /\ verdict \in Verdict /\ Unreadable \in Verdict
      BY DEF TypeOK, Unreadable, Verdict
    <3>2. \/ new' = new
          \/ \E v \in {verdict, Unreadable} :
                new' = AfterTriageJob(new, seenTriageJob, v)
      BY <2>2 DEF GetTriageJob
    <3> QED
      BY <1>0, <2>2, <3>1, <3>2, TriageKeepsAttempt DEF GetTriageJob
  <2>3. ASSUME CreateTriageJob
        PROVE  PassEnds \/ (orig' = orig /\ new'.attempt = new.attempt)
    BY <1>0, <2>3, WithConditionKeepsAttempt DEF CreateTriageJob, TriageJobCreated
  <2> QED
    BY <1>0, <1>2, <1>e, <2>1, <2>2, <2>3 DEF WithinBudget, AttemptsGranted
<1>3. CASE GetFixJob
  <2>1. UNCHANGED <<cr, seenCR, orig, granted, launched>>
    BY <1>3 DEF GetFixJob, cacheVars, historyVars
  <2>2. /\ seenFixJob[CurrentAttempt(new)] \in Job /\ orig.spec \in ResourceSpec
        /\ report[CurrentAttempt(new)] \in 0..AttemptCap /\ NoPR \in 0..AttemptCap
    <3>1. NoPR \in 0..AttemptCap
      BY AttemptCapAssumption DEF NoPR
    <3>2. orig.spec \in ResourceSpec
      BY DEF TypeOK, Resource
    <3> QED
      BY <1>0, <3>1, <3>2 DEF TypeOK
  <2>3. \/ new' = new
        \/ \E pr \in 0..AttemptCap :
              new' = AfterFixJob(orig.spec, new, seenFixJob[CurrentAttempt(new)], pr)
    BY <1>3, <2>2 DEF GetFixJob
  <2>4. \/ new'.attempt = new.attempt
        \/ new'.attempt = CurrentAttempt(new)
        \/ new'.attempt \in Attempts /\ new'.attempt <= orig.spec.maxFixAttempts
    BY <1>0, <2>2, <2>3, FixJobAttempt
  <2>5. orig.spec.maxFixAttempts \in Attempts
    BY <2>2 DEF ResourceSpec
  <2>6. new'.attempt <= granted
    BY <1>0, <2>4, <2>5, AttemptCapAssumption DEF WithinBudget, Attempts
  <2> QED
    BY <2>1, <2>6 DEF WithinBudget, AttemptsGranted
<1>4. CASE CreateFixJob
  <2>1. UNCHANGED <<cr, seenCR, granted>>
    BY <1>4 DEF CreateFixJob
  <2>2. launched' \subseteq launched \cup {CurrentAttempt(new)}
    BY <1>4 DEF CreateFixJob
  <2>3. AttemptsGranted'
    BY <1>0, <2>1, <2>2 DEF AttemptsGranted, Attempts
  <2>4. PassEnds \/ (orig' = orig /\ new'.attempt = CurrentAttempt(new))
    BY <1>0, <1>4, FixJobCreatedAttempt DEF CreateFixJob
  <2> QED
    BY <1>0, <1>e, <2>1, <2>3, <2>4 DEF WithinBudget
<1>5. CASE PatchStatus
  <2>1. cr.status \in Status /\ orig.status \in Status /\ cr \in Resource
    BY DEF TypeOK, Resource
  <2>2. cr'.spec = cr.spec /\ cr'.status = MergePatch(cr.status, orig.status, new)
    BY <1>5, <2>1 DEF PatchStatus, Resource
  <2>3. cr'.status.attempt \in {cr.status.attempt, new.attempt}
    BY <1>0, <2>1, <2>2, PatchedAttempt
  <2>4. /\ PassEnds /\ UNCHANGED <<granted, launched>>
        /\ seenCR' = seenCR \/ seenCR' = cr'
    BY <1>5 DEF PatchStatus, CacheCR, historyVars
  <2> QED
    BY <1>0, <1>e, <2>2, <2>3, <2>4 DEF WithinBudget, AttemptsGranted
<1> QED
  BY <1>1, <1>2, <1>3, <1>4, <1>5 DEF PassProgress

(* Nothing outside the reconciler raises an attempt, and granted only grows. *)
LEMMA WorldKeepsBudget ==
    ASSUME BudgetInv, TypeInv',
           \/ ReturnError \/ Crash \/ SyncCR \/ SyncJobs
           \/ SetApproved \/ SetMaxFixAttempts
           \/ TriagePodEnds \/ TriageJobExpires
           \/ \E k \in Attempts : FixPodEnds(k) \/ FixJobExpires(k)
    PROVE  BudgetInv'
<1> USE DEF BudgetInv, TypeInv
<1>0. granted \in Attempts /\ granted \in Nat /\ 1 <= granted
  BY AttemptCapAssumption DEF TypeOK, Attempts
<1>1. CASE ReturnError \/ Crash
  <2>1. /\ PassEnds /\ UNCHANGED <<cr, granted, launched>> /\ seenCR' \in {seenCR, cr}
    BY <1>1 DEF ReturnError, Crash, cacheVars
  <2>2. /\ orig'.spec.maxFixAttempts = 1
        /\ orig'.status.attempt = 0 /\ new'.attempt = 0
    BY <2>1 DEF PassEnds, NothingRead, EmptyStatus
  <2> QED
    BY <1>0, <2>1, <2>2 DEF WithinBudget, AttemptsGranted
<1>2. CASE SyncCR \/ SyncJobs
  <2>1. UNCHANGED <<cr, orig, new, granted, launched>> /\ seenCR' \in {seenCR, cr}
    BY <1>2 DEF SyncCR, SyncJobs, passVars, historyVars
  <2> QED
    BY <2>1 DEF WithinBudget, AttemptsGranted
<1>3. CASE SetApproved
  <2>1. /\ cr'.status = cr.status
        /\ cr'.spec.maxFixAttempts = cr.spec.maxFixAttempts
        /\ UNCHANGED <<orig, new, granted, launched>>
        /\ seenCR' = seenCR \/ seenCR' = cr'
    BY <1>3 DEF SetApproved, CacheCR, TypeOK, Resource, ResourceSpec, passVars
  <2> QED
    BY <2>1 DEF WithinBudget, AttemptsGranted
<1>4. CASE SetMaxFixAttempts
  <2>1. PICK m \in Attempts : /\ cr' = [cr EXCEPT !.spec.maxFixAttempts = m]
                              /\ granted' = IF m > granted THEN m ELSE granted
    BY <1>4 DEF SetMaxFixAttempts
  <2>2. m \in Nat /\ granted' \in Nat /\ granted <= granted' /\ m <= granted'
    BY <1>0, <2>1, AttemptCapAssumption DEF Attempts
  <2>3. cr'.status = cr.status /\ cr'.spec.maxFixAttempts = m
    BY <2>1 DEF TypeOK, Resource, ResourceSpec
  <2>4. UNCHANGED <<orig, new, launched>> /\ (seenCR' = seenCR \/ seenCR' = cr')
    BY <1>4 DEF SetMaxFixAttempts, CacheCR, passVars
  <2>5. ASSUME NEW n \in Nat, n <= granted
        PROVE  n <= granted'
    BY <1>0, <2>2, <2>5
  <2>6. /\ cr.status.attempt \in Nat /\ seenCR.status.attempt \in Nat
        /\ orig.status.attempt \in Nat /\ new.attempt \in Nat
        /\ seenCR.spec.maxFixAttempts \in Nat /\ orig.spec.maxFixAttempts \in Nat
    <3>1. /\ cr.status \in Status /\ seenCR.status \in Status
          /\ orig.status \in Status /\ new \in Status
          /\ seenCR.spec \in ResourceSpec /\ orig.spec \in ResourceSpec
      BY DEF TypeOK, Resource
    <3>2. ASSUME NEW st \in Status PROVE st.attempt \in Nat
      <4>1. st.attempt \in 0..AttemptCap
        BY DEF Status
      <4> QED
        BY <4>1, AttemptCapAssumption
    <3>3. ASSUME NEW sp \in ResourceSpec PROVE sp.maxFixAttempts \in Nat
      BY AttemptCapAssumption DEF ResourceSpec, Attempts
    <3> QED
      BY <3>1, <3>2, <3>3
  <2>7. AttemptsGranted'
    BY <1>0, <2>2, <2>4 DEF AttemptsGranted
  <2> QED
    BY <2>2, <2>3, <2>4, <2>5, <2>6, <2>7 DEF WithinBudget
<1>5. CASE \/ TriagePodEnds \/ TriageJobExpires
           \/ \E k \in Attempts : FixPodEnds(k) \/ FixJobExpires(k)
  <2>1. UNCHANGED <<cr, seenCR, orig, new, granted, launched>>
    BY <1>5
       DEF TriagePodEnds, TriagePodSucceeds, TriagePodFails, TriageJobExpires,
           FixPodEnds, FixPodSucceeds, FixPodFails, FixJobGetsNoPod,
           FixJobExpires, passVars, historyVars
  <2> QED
    BY <2>1 DEF WithinBudget, AttemptsGranted
<1> QED
  BY <1>1, <1>2, <1>3, <1>4, <1>5

(* Every step keeps the budget. *)
LEMMA BudgetStep ==
    ASSUME BudgetInv, [Next]_vars
    PROVE  BudgetInv'
<1>1. TypeInv'
  BY PassTypes, InterruptionTypes, HumanTypes, TriageJobTypes, FixJobTypes,
     StutterTypes
     DEF Next, BudgetInv
<1>2. CASE Next
  BY <1>1, <1>2, PassKeepsBudget, WorldKeepsBudget DEF Next
<1>3. CASE UNCHANGED vars
  BY <1>1, <1>3
     DEF BudgetInv, WithinBudget, AttemptsGranted, vars, cacheVars, passVars,
         historyVars
<1> QED
  BY <1>2, <1>3

(***************************************************************************)
(* The operator never creates a fix Job for an attempt beyond the largest  *)
(* spec.maxFixAttempts the resource has had, even from a stale cache.      *)
(***************************************************************************)
THEOREM BudgetInvariant == Spec => []BudgetInv
<1>1. BudgetInv /\ [Next]_vars => BudgetInv'
  BY BudgetStep
<1> QED
  BY <1>1, InitBudgetInv, PTL DEF Spec

(* AttemptsGranted, the invariant the runs check: handleFixFailure hands
   out no attempt that no spec.maxFixAttempts ever granted. *)
THEOREM AttemptsGrantedHolds == Spec => []AttemptsGranted
<1>1. BudgetInv => AttemptsGranted
  BY DEF BudgetInv
<1> QED
  BY <1>1, BudgetInvariant, PTL
=============================================================================
