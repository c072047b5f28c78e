-------------------------- MODULE TwoManagers_proofs --------------------------
(***************************************************************************)
(* Two managers at once, for every AttemptCap, every set of Faults that a  *)
(* theorem does not exclude and every set of verdicts: each manager keeps  *)
(* its invariants by the lemmas about one, and the one that looks on       *)
(* meanwhile loses nothing.                                                *)
(***************************************************************************)
EXTENDS TwoManagers, Attempts_proofs

(***************************************************************************)
(* The definitions and lemmas of Attempts_proofs for the second manager.   *)
(* Its actions have two names thereby, Second!A in TwoManagers and Other!A *)
(* here; the prover sees that they are one when it expands both.           *)
(***************************************************************************)
Other == INSTANCE Attempts_proofs WITH
              seenCR <- seenCR2, seenTriageJob <- seenTriageJob2,
              seenFixJob <- seenFixJob2,
              pc <- pc2, orig <- orig2, new <- new2

(* The two names of the initial states. *)
LEMMA SameInit == Second!Init => Other!Init
BY DEF Second!Attempts, Second!NoName, Second!NoPR, Second!ConditionType,
       Second!ResourceSpec, Second!EmptyStatus, Second!NoJob, Second!Unreadable,
       Second!NothingRead, Second!Init, Other!Attempts, Other!NoName,
       Other!NoPR, Other!ConditionType, Other!ResourceSpec, Other!EmptyStatus,
       Other!NoJob, Other!Unreadable, Other!NothingRead, Other!Init

(* The two names of the second manager's own actions. *)
LEMMA SameActions ==
    ASSUME \/ Second!PassProgress \/ Second!ReturnError \/ Second!Crash
           \/ Second!SyncCR \/ Second!SyncJobs
    PROVE  Other!OwnStep
BY DEF Other!OwnStep,
       Second!NoName, Second!FixJobName, Second!NoPR, Second!StoppedPhases,
       Second!ConditionType, Second!EmptyStatus, Second!WithCondition,
       Second!Patched, Second!MergePatch, Second!NewJob, Second!Unreadable,
       Second!WithPhaseDefaulted, Second!TriageJobCreated,
       Second!TriageUnreadable, Second!TriageJudged, Second!AfterTriageJob,
       Second!AfterValidation, Second!CurrentAttempt, Second!MayCreateFixJob,
       Second!FixJobCreated, Second!FixFailed, Second!PullRequestOpened,
       Second!AfterFixJob, Second!clusterVars, Second!cacheVars,
       Second!passVars, Second!historyVars, Second!NothingRead, Second!CacheCR,
       Second!CacheJobs, Second!PassEnds, Second!BeginPass, Second!PodVisible,
       Second!GetTriageJob, Second!CreateTriageJob, Second!GetFixJob,
       Second!CreateFixJob, Second!PatchStatus, Second!ReturnError,
       Second!Crash, Second!SyncCR, Second!SyncJobs, Second!PassProgress,
       Other!NoName, Other!FixJobName, Other!NoPR, Other!StoppedPhases,
       Other!ConditionType, Other!EmptyStatus, Other!WithCondition,
       Other!Patched, Other!MergePatch, Other!NewJob, Other!Unreadable,
       Other!WithPhaseDefaulted, Other!TriageJobCreated, Other!TriageUnreadable,
       Other!TriageJudged, Other!AfterTriageJob, Other!AfterValidation,
       Other!CurrentAttempt, Other!MayCreateFixJob, Other!FixJobCreated,
       Other!FixFailed, Other!PullRequestOpened, Other!AfterFixJob,
       Other!clusterVars, Other!cacheVars, Other!passVars, Other!historyVars,
       Other!NothingRead, Other!CacheCR, Other!CacheJobs, Other!PassEnds,
       Other!BeginPass, Other!PodVisible, Other!GetTriageJob,
       Other!CreateTriageJob, Other!GetFixJob, Other!CreateFixJob,
       Other!PatchStatus, Other!ReturnError, Other!Crash, Other!SyncCR,
       Other!SyncJobs, Other!PassProgress

(* The two names of what the second manager does when it only looks on. *)
LEMMA SameLooksOn ==
    SecondLooksOn => UNCHANGED Other!passVars /\ Other!CacheCR /\ Other!CacheJobs
BY DEF SecondLooksOn, passVars2, Second!CacheCR, Second!CacheJobs, Other!CacheCR,
       Other!CacheJobs, Other!passVars

(* What does not depend on a manager is the same for both. *)
LEMMA SameShared ==
    /\ SharedTypes <=> Other!SharedTypes
    /\ SharedGate <=> Other!SharedGate
BY DEF Attempts, Phase, ConditionType, ConditionStatus, ResourceSpec, Status,
       JobState, Job, Verdict, Acceptable, Resource, TriageBackoffLimit,
       HumanGate, BackoffLeft, BehindBarrier, Gated, VerdictKnown,
       SharedTypes, SharedGate, Other!Attempts, Other!Phase,
       Other!ConditionType, Other!ConditionStatus, Other!ResourceSpec,
       Other!Status, Other!JobState, Other!Job, Other!Verdict, Other!Acceptable,
       Other!Resource, Other!TriageBackoffLimit, Other!HumanGate,
       Other!BackoffLeft, Other!BehindBarrier, Other!Gated, Other!VerdictKnown,
       Other!SharedTypes, Other!SharedGate

(* So is the history. *)
LEMMA SameHistory == HistoryGrows <=> Other!HistoryGrows
BY DEF HistoryGrows, Other!HistoryGrows

(* The assumptions on the constants, as the second manager's lemmas ask for them. *)
LEMMA SameAssumptions ==
    Faults \subseteq Other!FaultKind /\ TriageResults \subseteq Other!Verdict
BY FaultsAssumption, TriageResultsAssumption
   DEF FaultKind, Other!FaultKind, Verdict, Other!Verdict

(* GateStep for the second manager. *)
LEMMA OtherGateStep ==
    ASSUME Other!GateInv, Other!Next
    PROVE  Other!GateInv' /\ Other!HistoryGrows
BY SameAssumptions, AttemptCapAssumption, MaxInterruptionsAssumption, Other!GateStep

(* LookingOnKeepsGate for the second manager. *)
LEMMA OtherLooksOn ==
    ASSUME Other!GateInv, SecondLooksOn, SharedTypes', SharedGate', HistoryGrows
    PROVE  Other!GateInv'
<1>1. Other!HistoryGrows
  BY SameHistory
<1>2. Other!SharedTypes' /\ Other!SharedGate'
  BY SameShared, PTL
<1> QED
  BY <1>1, <1>2, SameLooksOn, SameAssumptions, AttemptCapAssumption,
     MaxInterruptionsAssumption, Other!LookingOnKeepsGate

(* Each side of the second manager's invariant implies the shared part. *)
LEMMA OtherShared == Other!GateInv => SharedTypes /\ SharedGate
BY SameShared, SameAssumptions, AttemptCapAssumption, MaxInterruptionsAssumption,
   Other!GateInvShared

-----------------------------------------------------------------------------
BothGate == GateInv /\ Other!GateInv

(* Both managers start before the gate. *)
LEMMA BothInitGate == BothInit => BothGate
<1> SUFFICES ASSUME BothInit PROVE BothGate
  OBVIOUS
<1>1. GateInv
  BY InitGateInv DEF BothInit
<1>2. Other!GateInv
  BY SameInit, SameAssumptions, AttemptCapAssumption, MaxInterruptionsAssumption,
     Other!InitGateInv
     DEF BothInit
<1> QED
  BY <1>1, <1>2 DEF BothGate

(* Whoever moves, both keep the gate. *)
LEMMA BothGateStep ==
    ASSUME BothGate, [BothNext]_allVars
    PROVE  BothGate'
<1> USE DEF BothGate
<1>1. ASSUME Next, SecondLooksOn
      PROVE  BothGate'
  <2>1. GateInv' /\ HistoryGrows
    BY <1>1, GateStep
  <2>2. SharedTypes' /\ SharedGate'
    BY <2>1, GateInvShared, PTL
  <2> QED
    BY <1>1, <2>1, <2>2, OtherLooksOn
<1>2. CASE FirstActs
  BY <1>1, <1>2 DEF FirstActs, Next
<1>3. CASE WorldActs
  BY <1>1, <1>3 DEF WorldActs, Next
<1>4. CASE JobExpires
  BY <1>1, <1>4 DEF JobExpires, Next
<1>5. CASE SecondActs
  <2>1. Other!Next
    BY <1>5, SameActions DEF SecondActs, Other!OwnStep, Other!Next
  <2>2. Other!GateInv' /\ Other!HistoryGrows
    BY <2>1, OtherGateStep
  <2>3. SharedTypes' /\ SharedGate'
    BY <2>2, OtherShared, PTL
  <2>4. HistoryGrows
    BY <2>2, SameHistory
  <2>5. UNCHANGED passVars /\ CacheCR /\ CacheJobs
    BY <1>5 DEF SecondActs, FirstLooksOn
  <2> QED
    BY <2>2, <2>3, <2>4, <2>5, LookingOnKeepsGate
<1>6. CASE UNCHANGED allVars
  <2>1. UNCHANGED vars
    BY <1>6 DEF allVars
  <2>2. UNCHANGED Other!vars
    BY <1>6 DEF allVars, vars, clusterVars, cacheVars, passVars, historyVars,
                cacheVars2, passVars2, Other!vars, Other!clusterVars,
                Other!cacheVars, Other!passVars, Other!historyVars
  <2>3. GateInv'
    BY <2>1, GateStep
  <2>4. Other!GateInv'
    BY <2>2, SameAssumptions, AttemptCapAssumption, MaxInterruptionsAssumption,
       Other!GateStep
  <2> QED
    BY <2>3, <2>4
<1> QED
  BY <1>2, <1>3, <1>4, <1>5, <1>6 DEF BothNext

(***************************************************************************)
(* The chart runs its manager without leader election, so that two may     *)
(* reconcile at once: still no fix Job is created before the human         *)
(* approved and a triage Pod reported an issue in scope and not            *)
(* suspicious, however old the caches of either manager are.               *)
(***************************************************************************)
THEOREM HumanGateWithTwoManagers == BothSpec => []HumanGate
<1>1. BothGate => HumanGate
  BY DEF BothGate, GateInv
<1> QED
  BY <1>1, BothInitGate, BothGateStep, PTL DEF BothSpec

-----------------------------------------------------------------------------
(***************************************************************************)
(* The order of the attempts.  Each manager has its own OrderInv; what no  *)
(* one can have alone is that a deleted Job is past: one manager's copies  *)
(* are at a later attempt and the other's say that the issue has stopped,  *)
(* and a merge patch mixes them.  So this is about all copies at once.     *)
(***************************************************************************)
AllCopies == Copies \cup Other!Copies

BothPast == \A j \in Attempts : Gone(j) => PastIn(AllCopies, j)

BothOrder == OrderInv /\ Other!OrderInv /\ BothPast

(* What is about the server, or about any status, is the same for both. *)
LEMMA SameStatus ==
    /\ Other!Attempts = Attempts /\ Other!Status = Status
    /\ \A C, j : Other!PastIn(C, j) <=> PastIn(C, j)
    /\ \A j : (Other!Gone(j) <=> Gone(j)) /\ (Other!Ended(j) <=> Ended(j))
    /\ \A st : Other!CurrentAttempt(st) = CurrentAttempt(st)
    /\ Other!NoJob = NoJob
BY DEF Attempts, Phase, ConditionType, ConditionStatus, Status, StoppedPhases,
       PastIn, Gone, Ended, CurrentAttempt, NoJob, Other!Attempts, Other!Phase,
       Other!ConditionType, Other!ConditionStatus, Other!Status,
       Other!StoppedPhases, Other!PastIn, Other!Gone, Other!Ended,
       Other!CurrentAttempt, Other!NoJob

(* The shared part of the order says the same of either manager. *)
LEMMA SameOrder == SharedOrder <=> Other!SharedOrder
BY SameStatus DEF SharedOrder, Other!SharedOrder

(* So do the two claims about how attempts go on. *)
LEMMA SameGrowth ==
    /\ AttemptsGrow <=> Other!AttemptsGrow
    /\ NothingExpires <=> Other!NothingExpires
BY DEF AttemptsGrow, NothingExpires, Gone, Ended, Attempts, Other!AttemptsGrow,
       Other!NothingExpires, Other!Gone, Other!Ended, Other!Attempts

(* The lemmas of Attempts_proofs for the second manager. *)
LEMMA OtherOrderStep ==
    ASSUME Other!OrderInv, Other!Next, "outage" \notin Faults
    PROVE  Other!OrderInv' /\ AttemptsGrow
<1>1. Other!OrderInv' /\ Other!AttemptsGrow
  BY SameAssumptions, AttemptCapAssumption, MaxInterruptionsAssumption,
     Other!OrderStep, Other!StepAttemptsGrow
<1> QED
  BY <1>1, SameGrowth

(* The second manager's invariant contains the shared part. *)
LEMMA OtherOrderShared == Other!OrderInv => SharedOrder
BY SameOrder, SameAssumptions, AttemptCapAssumption, MaxInterruptionsAssumption,
   Other!OrderInvShared

(* The second manager, looking on, keeps its side of the order. *)
LEMMA OtherKeepsOrder ==
    ASSUME Other!OrderInv, Other!LooksOn, SharedOrder', AttemptsGrow
    PROVE  Other!EarlierEnded' /\ Other!NotYetLaunched' /\ Other!ResultsFinal'
<1>1. Other!SharedOrder' /\ Other!AttemptsGrow
  BY SameOrder, SameGrowth, PTL
<1> QED
  BY <1>1, SameAssumptions, AttemptCapAssumption, MaxInterruptionsAssumption,
     Other!LookingOnKeepsOrder

(* The second manager's pass deletes no Job. *)
LEMMA OtherDeletesNothing ==
    ASSUME Other!TypeOK, Other!OwnStep
    PROVE  NothingExpires
<1>1. Other!NothingExpires
  BY SameAssumptions, AttemptCapAssumption, MaxInterruptionsAssumption,
     Other!OnlyTTLDeletes
<1> QED
  BY <1>1, SameGrowth

(* While the second manager looks on, its only new copy is the stored one. *)
LEMMA OtherCopies ==
    ASSUME Other!LooksOn
    PROVE  Other!Copies' \subseteq Other!Copies \cup {cr'.status}
BY SameAssumptions, AttemptCapAssumption, MaxInterruptionsAssumption,
   Other!LookingOnCopies

(* The second manager's copies come from copies it had, or from a retry. *)
LEMMA OtherCopiesFollow ==
    ASSUME Other!OrderInv, Other!Next
    PROVE  \A st \in Other!Copies' : Other!Inherited(st) \/ Other!Retried(st)
BY SameAssumptions, AttemptCapAssumption, MaxInterruptionsAssumption,
   Other!CopiesFollow
   DEF Other!OrderInv

(* What all copies have passed, the second manager's next copies have passed too. *)
LEMMA OtherPastStaysPast ==
    ASSUME Other!OrderInv, NEW i \in Attempts,
           NEW C \in SUBSET Status, Other!Copies \subseteq C, PastIn(C, i),
           NEW D, \A st \in D : st \in C \/ Other!Inherited(st) \/ Other!Retried(st)
    PROVE  PastIn(D, i)
<1>1. i \in Other!Attempts /\ C \in SUBSET Other!Status /\ Other!PastIn(C, i)
      /\ Other!GateInv
  BY SameStatus DEF Other!OrderInv
<1>2. Other!PastIn(D, i)
  BY <1>1, SameAssumptions, AttemptCapAssumption, MaxInterruptionsAssumption,
     Other!PastStaysPast
<1> QED
  BY <1>2, SameStatus

-----------------------------------------------------------------------------
FirstMoves  == [Next]_vars /\ Other!LooksOn
SecondMoves == Other!Next /\ LooksOn
AllAtRest   == AllCopies' = Copies' /\ AllCopies' = {cr'.status}

(* Whoever acts, the other one looks on; a Job is deleted only when both rest. *)
LEMMA WhoMoves ==
    ASSUME BothOrder, [BothNext]_allVars, "outage" \notin Faults
    PROVE  \/ FirstMoves /\ (NothingExpires \/ AllAtRest)
           \/ SecondMoves /\ NothingExpires
<1>0. TypeOK /\ Other!TypeOK
  BY DEF BothOrder, OrderInv, GateInv, TypeInv, Other!OrderInv, Other!GateInv,
         Other!TypeInv
<1>1. SecondLooksOn => Other!LooksOn
  BY SameLooksOn DEF Other!LooksOn, Other!CacheCR, Other!CacheJobs
<1>2. FirstLooksOn => LooksOn
  BY DEF FirstLooksOn, LooksOn, CacheCR, CacheJobs
<1>3. CASE FirstActs
  <2>1. Next /\ OwnStep /\ SecondLooksOn
    BY <1>3 DEF FirstActs, Next, OwnStep
  <2> QED
    BY <1>0, <1>1, <2>1, OnlyTTLDeletes DEF FirstMoves
<1>4. CASE WorldActs
  <2>1. Next /\ WorldStep /\ SecondLooksOn
    BY <1>4 DEF WorldActs, Next, WorldStep
  <2> QED
    BY <1>0, <1>1, <2>1, OnlyTTLDeletes DEF FirstMoves
<1>5. CASE SecondActs
  <2>1. Other!OwnStep /\ FirstLooksOn
    BY <1>5, SameActions DEF SecondActs
  <2>2. Other!Next
    BY <2>1 DEF Other!OwnStep, Other!Next
  <2> QED
    BY <1>0, <1>2, <2>1, <2>2, OtherDeletesNothing DEF SecondMoves
<1>6. CASE JobExpires
  <2>1. Next /\ SecondLooksOn
    BY <1>6 DEF JobExpires, Next
  <2>2. /\ pc = "idle" /\ pc' = "idle" /\ seenCR = cr /\ seenCR2 = cr /\ pc2 = "idle"
        /\ cr' = cr /\ seenCR' = cr
    BY <1>6 DEF JobExpires, TriageJobExpires, FixJobExpires, AnHourLater,
                Second!AnHourLater, passVars
  <2>3. pc2' = "idle" /\ (seenCR2' = seenCR2 \/ seenCR2' = cr')
    BY <2>1, <2>2 DEF SecondLooksOn, passVars2, Second!CacheCR
  <2>4. AllAtRest
    BY <2>2, <2>3 DEF AllAtRest, AllCopies, Copies, Other!Copies
  <2> QED
    BY <1>1, <2>1, <2>4 DEF FirstMoves
<1>7. CASE UNCHANGED allVars
  <2>1. UNCHANGED vars
    BY <1>7 DEF allVars
  <2>2. Other!LooksOn
    BY <1>7 DEF allVars, cacheVars2, passVars2, Other!LooksOn, Other!passVars
  <2> QED
    BY <1>0, <2>1, <2>2, OnlyTTLDeletes DEF FirstMoves
<1> QED
  BY <1>3, <1>4, <1>5, <1>6, <1>7 DEF BothNext

(* Each step is one manager's, with the other one looking on. *)
LEMMA SomeoneMoves == ASSUME [BothNext]_allVars PROVE FirstMoves \/ SecondMoves
<1>1. CASE FirstActs \/ WorldActs \/ JobExpires
  <2>1. Next /\ SecondLooksOn
    BY <1>1 DEF FirstActs, WorldActs, JobExpires, Next
  <2> QED
    BY <2>1, SameLooksOn DEF FirstMoves, Other!LooksOn, Other!CacheCR, Other!CacheJobs
<1>2. CASE SecondActs
  BY <1>2, SameActions
     DEF SecondActs, FirstLooksOn, LooksOn, CacheCR, CacheJobs, Other!OwnStep,
         Other!Next, SecondMoves
<1>3. CASE UNCHANGED allVars
  BY <1>3 DEF allVars, cacheVars2, passVars2, FirstMoves, Other!LooksOn, Other!passVars
<1> QED
  BY <1>1, <1>2, <1>3 DEF BothNext

(* What is past for both stays past for both. *)
LEMMA KeepsBothPast ==
    ASSUME BothOrder, \/ FirstMoves /\ GoneIsPast' /\ (NothingExpires \/ AllAtRest)
                      \/ SecondMoves /\ NothingExpires
    PROVE  BothPast'
<1> USE DEF BothOrder
<1>1. CASE FirstMoves /\ GoneIsPast' /\ AllAtRest
  BY <1>1 DEF AllAtRest, BothPast, GoneIsPast
<1>2. CASE NothingExpires /\ (FirstMoves \/ SecondMoves)
  <2> SUFFICES ASSUME NEW i \in Attempts, Gone(i)'
               PROVE  PastIn(AllCopies', i)
    BY DEF BothPast, PastIn
  <2>1. PastIn(AllCopies, i)
    BY <1>2 DEF NothingExpires, BothPast
  <2>2. AllCopies \in SUBSET Status
    <3>1. Copies \subseteq Status
      BY CopiesType DEF OrderInv, GateInv, TypeInv
    <3>2. Other!Copies \subseteq Other!Status
      BY SameAssumptions, AttemptCapAssumption, MaxInterruptionsAssumption,
         Other!CopiesType
         DEF Other!OrderInv, Other!GateInv, Other!TypeInv
    <3> QED
      BY <3>1, <3>2, SameStatus DEF AllCopies
  <2>3. Copies \subseteq AllCopies /\ Other!Copies \subseteq AllCopies
    BY DEF AllCopies
  <2>4. cr'.status \in Copies' /\ cr'.status \in Other!Copies'
    BY DEF Copies, Other!Copies
  <2>5. CASE FirstMoves
    <3>1. \A st \in Copies' : Inherited(st) \/ Retried(st)
      BY <2>5, CopiesFollow DEF FirstMoves, OrderInv
    <3>2. Other!Copies' \subseteq AllCopies \cup Copies'
      BY <2>3, <2>4, <2>5, OtherCopies DEF FirstMoves
    <3>3. \A st \in AllCopies' : st \in AllCopies \/ Inherited(st) \/ Retried(st)
      BY <3>1, <3>2 DEF AllCopies
    <3> QED
      BY <2>1, <2>2, <2>3, <3>3, PastStaysPast DEF OrderInv
  <2>6. CASE SecondMoves
    <3>1. \A st \in Other!Copies' : Other!Inherited(st) \/ Other!Retried(st)
      BY <2>6, OtherCopiesFollow DEF SecondMoves
    <3>2. Copies' \subseteq AllCopies \cup Other!Copies'
      BY <2>3, <2>4, <2>6, LookingOnCopies DEF SecondMoves
    <3>3. \A st \in AllCopies' :
              st \in AllCopies \/ Other!Inherited(st) \/ Other!Retried(st)
      BY <3>1, <3>2 DEF AllCopies
    <3> QED
      BY <2>1, <2>2, <2>3, <3>3, OtherPastStaysPast
  <2> QED
    BY <1>2, <2>5, <2>6
<1> QED
  BY <1>1, <1>2

(* Nor does a copy go back to Triage when its Job is deleted. *)
LEMMA KeepsTriagePast ==
    ASSUME BothOrder
    PROVE  /\ FirstMoves /\ TriageIsPast' /\ (NothingExpires \/ AllAtRest) =>
                  Other!TriageIsPast'
           /\ SecondMoves /\ Other!TriageIsPast' /\ NothingExpires => TriageIsPast'
<1> USE DEF BothOrder
<1>1. cr'.status \in Copies' /\ cr'.status \in Other!Copies'
  BY DEF Copies, Other!Copies
<1>2. ASSUME FirstMoves, TriageIsPast', NothingExpires
      PROVE  Other!TriageIsPast'
  <2>1. Other!Copies' \subseteq Other!Copies \cup {cr'.status}
    BY <1>2, OtherCopies DEF FirstMoves
  <2>2. ASSUME 0 \in succeeded', triageJob'.state = "absent"
        PROVE  \A st \in Other!Copies \cup {cr'.status} : st.phase \notin {"", "Triage"}
    BY <1>1, <1>2, <2>2 DEF NothingExpires, TriageIsPast, Other!OrderInv, Other!TriageIsPast
  <2> QED
    BY <2>1, <2>2 DEF Other!TriageIsPast
<1>3. ASSUME TriageIsPast', AllAtRest
      PROVE  Other!TriageIsPast'
  <2>1. Other!Copies' \subseteq Copies'
    BY <1>3 DEF AllAtRest, AllCopies
  <2> QED
    BY <1>3, <2>1 DEF TriageIsPast, Other!TriageIsPast
<1>4. ASSUME SecondMoves, Other!TriageIsPast', NothingExpires
      PROVE  TriageIsPast'
  <2>1. Copies' \subseteq Copies \cup {cr'.status}
    BY <1>4, LookingOnCopies DEF SecondMoves
  <2>2. ASSUME 0 \in succeeded', triageJob'.state = "absent"
        PROVE  \A st \in Copies \cup {cr'.status} : st.phase \notin {"", "Triage"}
    BY <1>1, <1>4, <2>2 DEF NothingExpires, TriageIsPast, OrderInv, Other!TriageIsPast
  <2> QED
    BY <2>1, <2>2 DEF TriageIsPast
<1> QED
  BY <1>2, <1>3, <1>4

(* Whoever moves, both keep the order. *)
LEMMA BothOrderStep ==
    ASSUME BothOrder, [BothNext]_allVars, "outage" \notin Faults
    PROVE  BothOrder'
<1> USE DEF BothOrder
<1>1. GateInv' /\ Other!GateInv'
  BY BothGateStep DEF BothGate, OrderInv, Other!OrderInv
<1>2. ASSUME FirstMoves, NothingExpires \/ AllAtRest
      PROVE  BothOrder'
  <2>1. OrderInv' /\ AttemptsGrow
    BY <1>2, OrderStep, StepAttemptsGrow DEF FirstMoves
  <2>2. SharedOrder'
    BY <2>1, OrderInvShared, PTL
  <2>3. Other!EarlierEnded' /\ Other!NotYetLaunched' /\ Other!ResultsFinal'
    BY <1>2, <2>1, <2>2, OtherKeepsOrder DEF FirstMoves
  <2>4. BothPast'
    BY <1>2, <2>1, KeepsBothPast DEF OrderInv
  <2>5. Other!GoneIsPast'
    BY <2>4, SameStatus DEF BothPast, AllCopies, PastIn, Other!GoneIsPast,
       Other!PastIn, Other!StoppedPhases, StoppedPhases, Gone, Other!Gone, Attempts,
       Other!Attempts
  <2>6. Other!TriageIsPast'
    BY <1>2, <2>1, KeepsTriagePast DEF OrderInv
  <2> QED
    BY <1>1, <2>1, <2>3, <2>4, <2>5, <2>6 DEF Other!OrderInv
<1>3. ASSUME SecondMoves, NothingExpires
      PROVE  BothOrder'
  <2>1. Other!OrderInv' /\ AttemptsGrow
    BY <1>3, OtherOrderStep DEF SecondMoves
  <2>2. SharedOrder'
    BY <2>1, OtherOrderShared, PTL
  <2>3. EarlierEnded' /\ NotYetLaunched' /\ ResultsFinal'
    BY <1>3, <2>1, <2>2, LookingOnKeepsOrder DEF SecondMoves
  <2>4. BothPast'
    BY <1>3, KeepsBothPast
  <2>5. GoneIsPast'
    BY <2>4 DEF BothPast, AllCopies, PastIn, GoneIsPast
  <2>6. TriageIsPast'
    BY <1>3, <2>1, KeepsTriagePast DEF Other!OrderInv
  <2> QED
    BY <1>1, <2>1, <2>3, <2>4, <2>5, <2>6 DEF OrderInv
<1> QED
  BY <1>2, <1>3, WhoMoves

(* Both start with no attempt. *)
LEMMA BothInitOrder == BothInit => BothOrder
<1> SUFFICES ASSUME BothInit PROVE BothOrder
  OBVIOUS
<1>1. OrderInv
  BY InitOrderInv DEF BothInit
<1>2. Other!OrderInv
  BY SameInit, SameAssumptions, AttemptCapAssumption, MaxInterruptionsAssumption,
     Other!InitOrderInv
     DEF BothInit
<1>3. BothPast
  BY DEF BothInit, Init, BothPast, Gone
<1> QED
  BY <1>1, <1>2, <1>3 DEF BothOrder

(* The invariant of two managers, whatever the caches of each have missed. *)
THEOREM BothOrderInvariant ==
    ASSUME "outage" \notin Faults
    PROVE  BothSpec => []BothOrder
<1>1. BothOrder /\ [BothNext]_allVars => BothOrder'
  BY BothOrderStep
<1> QED
  BY <1>1, BothInitOrder, PTL DEF BothSpec

(* Two managers that reconcile at once, each from caches of its own, start
   no second fix Job beside one that runs. *)
THEOREM OneFixJobAtATimeWithTwoManagers ==
    ASSUME "outage" \notin Faults
    PROVE  BothSpec => []OneFixJobAtATime
<1>1. BothOrder => OneFixJobAtATime
  BY OneAtATime DEF BothOrder
<1> QED
  BY <1>1, BothOrderInvariant, PTL

-----------------------------------------------------------------------------
(***************************************************************************)
(* The attempt budget, with every fault.                                   *)
(***************************************************************************)
BothBudget == BothGate /\ BudgetInv /\ Other!BudgetInv

(* The shared part of the budget says the same of either manager. *)
LEMMA SameBudget == SharedBudget <=> Other!SharedBudget
BY DEF SharedBudget, WithinBudget, AttemptsGranted, Other!SharedBudget,
       Other!WithinBudget, Other!AttemptsGranted

(* The lemmas about the budget for the second manager. *)
LEMMA OtherBudgetStep ==
    ASSUME Other!BudgetInv, Other!Next
    PROVE  Other!BudgetInv' /\ granted <= granted'
BY SameAssumptions, AttemptCapAssumption, MaxInterruptionsAssumption,
   Other!BudgetStep, Other!StepKeepsGranted
   DEF Other!BudgetInv, Other!TypeInv

(* The second manager's invariant contains it. *)
LEMMA OtherBudgetShared == Other!BudgetInv => SharedBudget
BY SameBudget, SameAssumptions, AttemptCapAssumption, MaxInterruptionsAssumption,
   Other!BudgetInvShared

(* The second manager, looking on, keeps the budget. *)
LEMMA OtherKeepsBudget ==
    ASSUME Other!BudgetInv, Other!LooksOn, Other!TypeInv', SharedBudget',
           granted <= granted'
    PROVE  Other!BudgetInv'
<1>1. Other!SharedBudget'
  BY SameBudget, PTL
<1> QED
  BY <1>1, SameAssumptions, AttemptCapAssumption, MaxInterruptionsAssumption,
     Other!LookingOnKeepsBudget

(* Whoever moves, no copy of either manager goes past what was granted. *)
LEMMA BothBudgetStep ==
    ASSUME BothBudget, [BothNext]_allVars
    PROVE  BothBudget'
<1> USE DEF BothBudget
<1>1. BothGate' /\ TypeInv' /\ Other!TypeInv'
  BY BothGateStep DEF BothGate, GateInv, Other!GateInv
<1>2. CASE FirstMoves
  <2>1. BudgetInv' /\ granted <= granted'
    BY <1>2, BudgetStep, StepKeepsGranted DEF FirstMoves, BudgetInv, TypeInv
  <2>2. SharedBudget'
    BY <2>1, BudgetInvShared, PTL
  <2> QED
    BY <1>1, <1>2, <2>1, <2>2, OtherKeepsBudget DEF FirstMoves
<1>3. CASE SecondMoves
  <2>1. Other!BudgetInv' /\ granted <= granted'
    BY <1>3, OtherBudgetStep DEF SecondMoves
  <2>2. SharedBudget'
    BY <2>1, OtherBudgetShared, PTL
  <2> QED
    BY <1>1, <1>3, <2>1, <2>2, LookingOnKeepsBudget DEF SecondMoves
<1> QED
  BY <1>2, <1>3, SomeoneMoves

(* Both start within the budget. *)
LEMMA BothInitBudget == BothInit => BothBudget
<1> SUFFICES ASSUME BothInit PROVE BothBudget
  OBVIOUS
<1>1. BudgetInv
  BY InitBudgetInv DEF BothInit
<1>2. Other!BudgetInv
  BY SameInit, SameAssumptions, AttemptCapAssumption, MaxInterruptionsAssumption,
     Other!InitBudgetInv
     DEF BothInit
<1> QED
  BY <1>1, <1>2, BothInitGate DEF BothBudget

(* Two managers between them hand out no attempt that no spec ever granted. *)
THEOREM AttemptsGrantedWithTwoManagers == BothSpec => []AttemptsGranted
<1>1. BothBudget /\ [BothNext]_allVars => BothBudget'
  BY BothBudgetStep
<1>2. BothBudget => AttemptsGranted
  BY DEF BothBudget, BudgetInv
<1> QED
  BY <1>1, <1>2, BothInitBudget, PTL DEF BothSpec

-----------------------------------------------------------------------------
(***************************************************************************)
(* The pull requests, where every report can be read.                      *)
(***************************************************************************)
BothPR == BothOrder /\ PRInv /\ Other!PRInv

(* The two names of what the invariants and steps say of pull requests. *)
LEMMA SamePR ==
    /\ SharedPR <=> Other!SharedPR
    /\ ReportsReadable <=> Other!ReportsReadable
BY SameStatus
   DEF SharedPR, ReportedPR, NoPR, ReportsReadable, Other!SharedPR,
       Other!ReportedPR, Other!NoPR, Other!ReportsReadable

(* What steps keep of pull requests says the same of either manager. *)
LEMMA SamePRSteps ==
    /\ PRsStay <=> Other!PRsStay
    /\ LaunchedAfterFailure <=> Other!LaunchedAfterFailure
BY SameStatus
   DEF PRsStay, LaunchedAfterFailure, FixJobLaunch, Other!PRsStay,
       Other!LaunchedAfterFailure, Other!FixJobLaunch

(* The lemmas about pull requests for the second manager. *)
LEMMA OtherPRStep ==
    ASSUME Other!PRInv, Other!Next, ReportsReadable
    PROVE  Other!PRInv' /\ PRsStay /\ LaunchedAfterFailure
<1>1. Other!ReportsReadable /\ Other!OrderInv
  BY SamePR DEF Other!PRInv
<1>2. /\ Other!EarlierNoPR' /\ Other!ReportedPR' /\ Other!OrderInv'
      /\ Other!PRsStay /\ Other!LaunchedAfterFailure
  BY <1>1, SameAssumptions, AttemptCapAssumption, MaxInterruptionsAssumption,
     Other!KeepsEarlierNoPR, Other!KeepsReportedPR, Other!StepPRsStay,
     Other!RetryStep, Other!OrderStep
     DEF Other!ReportsReadable
<1> QED
  BY <1>2, SamePRSteps DEF Other!PRInv

(* The second manager's invariant contains the shared part. *)
LEMMA OtherPRShared == Other!PRInv => SharedPR
BY SamePR, SameAssumptions, AttemptCapAssumption, MaxInterruptionsAssumption,
   Other!PRInvShared

(* The second manager, looking on, keeps what it knows of pull requests. *)
LEMMA OtherKeepsPR ==
    ASSUME Other!PRInv, Other!LooksOn, SharedPR', PRsStay
    PROVE  Other!EarlierNoPR' /\ Other!ReportedPR'
<1>1. Other!SharedPR' /\ Other!PRsStay
  BY SamePR, SamePRSteps, PTL
<1> QED
  BY <1>1, SameAssumptions, AttemptCapAssumption, MaxInterruptionsAssumption,
     Other!LookingOnKeepsPR

(* Neither manager retries what has left a pull request. *)
LEMMA BothPRStep ==
    ASSUME BothPR, [BothNext]_allVars, ReportsReadable
    PROVE  BothPR' /\ LaunchedAfterFailure
<1> USE DEF BothPR
<1>1. "outage" \notin Faults
  BY DEF ReportsReadable
<1>2. BothOrder' /\ OrderInv' /\ Other!OrderInv'
  BY <1>1, BothOrderStep DEF BothOrder
<1>3. CASE FirstMoves
  <2>1. PRInv' /\ PRsStay /\ LaunchedAfterFailure
    BY <1>2, <1>3, KeepsEarlierNoPR, KeepsReportedPR, StepPRsStay, RetryStep
       DEF FirstMoves, PRInv
  <2>2. SharedPR'
    BY <2>1, PRInvShared, PTL
  <2>3. Other!EarlierNoPR' /\ Other!ReportedPR'
    BY <1>3, <2>1, <2>2, OtherKeepsPR DEF FirstMoves
  <2> QED
    BY <1>2, <2>1, <2>3 DEF Other!PRInv
<1>4. CASE SecondMoves
  <2>1. Other!PRInv' /\ PRsStay /\ LaunchedAfterFailure
    BY <1>4, OtherPRStep DEF SecondMoves
  <2>2. SharedPR'
    BY <2>1, OtherPRShared, PTL
  <2>3. EarlierNoPR' /\ ReportedPR'
    BY <1>4, <2>1, <2>2, LookingOnKeepsPR DEF SecondMoves
  <2> QED
    BY <1>2, <2>1, <2>3 DEF PRInv
<1> QED
  BY <1>1, <1>3, <1>4, WhoMoves

(* Both start without a pull request. *)
LEMMA BothInitPR == BothInit => BothPR
<1> SUFFICES ASSUME BothInit PROVE BothPR
  OBVIOUS
<1>1. BothOrder /\ OrderInv /\ Other!OrderInv
  BY BothInitOrder DEF BothOrder
<1>2. \A k \in Attempts : remote[k] = "none" /\ fixJob[k].state = "absent"
  BY DEF BothInit, Init, NoJob
<1>3. launched = {}
  BY DEF BothInit, Init
<1>4. PRInv
  BY <1>1, <1>2, <1>3 DEF PRInv, EarlierNoPR, ReportedPR
<1>5. Other!PRInv
  BY <1>1, <1>2, <1>3, SameStatus
     DEF Other!PRInv, Other!EarlierNoPR, Other!ReportedPR
<1> QED
  BY <1>1, <1>4, <1>5 DEF BothPR

(* The invariant of two managers that lose no report. *)
THEOREM BothPRInvariant ==
    ASSUME ReportsReadable
    PROVE  BothSpec => []BothPR
<1>1. BothPR /\ [BothNext]_allVars => BothPR'
  BY BothPRStep
<1> QED
  BY <1>1, BothInitPR, PTL DEF BothSpec

(* During a rolling update, too, an issue gets one pull request. *)
THEOREM AtMostOnePRWithTwoManagers ==
    ASSUME ReportsReadable
    PROVE  BothSpec => []AtMostOnePR
<1>1. BothPR => AtMostOnePR
  BY OnePR DEF BothPR
<1> QED
  BY <1>1, BothPRInvariant, PTL

(* And neither manager launches an attempt after one that runs or has
   opened a pull request, whichever of them launched that one. *)
THEOREM RetryOnlyAfterFailureWithTwoManagers ==
    ASSUME ReportsReadable
    PROVE  BothSpec => RetryOnlyAfterFailure
<1>1. BothPR /\ [BothNext]_allVars => [LaunchedAfterFailure]_vars
  BY BothPRStep
<1> QED
  BY <1>1, BothPRInvariant, PTL DEF BothSpec, RetryOnlyAfterFailure, LaunchedAfterFailure

-----------------------------------------------------------------------------
(***************************************************************************)
(* The verdict, where none is lost: both managers judge alike.             *)
(***************************************************************************)
BothVerdict == BothOrder /\ VerdictInv /\ Other!VerdictInv

(* The two names of what is said of the verdict. *)
LEMMA SameVerdicts == SharedVerdict <=> Other!SharedVerdict
BY DEF SharedVerdict, VerdictFinal, Agrees, Judged, Acceptable, Other!SharedVerdict,
       Other!VerdictFinal, Other!Agrees, Other!Judged, Other!Acceptable

(* That a verdict stays says the same of either manager. *)
LEMMA SameVerdictStays == VerdictStays <=> Other!VerdictStays
BY DEF VerdictStays, SameVerdict, Other!VerdictStays, Other!SameVerdict

(* The lemmas about the verdict for the second manager. *)
LEMMA OtherVerdictStep ==
    ASSUME Other!VerdictInv, Other!Next, "outage" \notin Faults, "podLoss" \notin Faults
    PROVE  Other!VerdictInv' /\ VerdictStays
<1>1. Other!VerdictInv' /\ Other!VerdictStays
  BY SameAssumptions, AttemptCapAssumption, MaxInterruptionsAssumption,
     Other!VerdictStep, Other!StepVerdictStays
<1> QED
  BY <1>1, SameVerdictStays

(* The second manager's invariant contains the shared part. *)
LEMMA OtherVerdictShared == Other!VerdictInv => SharedVerdict
BY SameVerdicts, SameAssumptions, AttemptCapAssumption, MaxInterruptionsAssumption,
   Other!VerdictInvShared

(* The second manager, looking on, keeps what it knows of verdicts. *)
LEMMA OtherKeepsVerdict ==
    ASSUME Other!VerdictInv, Other!LooksOn, SharedVerdict', VerdictStays
    PROVE  /\ Other!VerdictFinal' /\ Other!SeenVerdictFinal'
           /\ Other!CopiesAgree' /\ Other!InScopeStays'
<1>1. Other!SharedVerdict' /\ Other!VerdictStays
  BY SameVerdicts, SameVerdictStays, PTL
<1> QED
  BY <1>1, SameAssumptions, AttemptCapAssumption, MaxInterruptionsAssumption,
     Other!LookingOnKeepsVerdict

(* One manager's patch may carry another phase than the other's, never
   another verdict. *)
LEMMA BothVerdictStep ==
    ASSUME BothVerdict, [BothNext]_allVars,
           "outage" \notin Faults, "podLoss" \notin Faults
    PROVE  BothVerdict'
<1> USE DEF BothVerdict
<1>1. BothOrder' /\ OrderInv' /\ Other!OrderInv'
  BY BothOrderStep DEF BothOrder
<1>2. CASE FirstMoves
  <2>1. VerdictInv' /\ VerdictStays
    BY <1>2, VerdictStep, StepVerdictStays DEF FirstMoves
  <2>2. SharedVerdict'
    BY <2>1, VerdictInvShared, PTL
  <2>3. /\ Other!VerdictFinal' /\ Other!SeenVerdictFinal'
        /\ Other!CopiesAgree' /\ Other!InScopeStays'
    BY <1>2, <2>1, <2>2, OtherKeepsVerdict DEF FirstMoves
  <2> QED
    BY <1>1, <2>1, <2>3 DEF Other!VerdictInv
<1>3. CASE SecondMoves
  <2>1. Other!VerdictInv' /\ VerdictStays
    BY <1>3, OtherVerdictStep DEF SecondMoves
  <2>2. SharedVerdict'
    BY <2>1, OtherVerdictShared, PTL
  <2>3. VerdictFinal' /\ SeenVerdictFinal' /\ CopiesAgree' /\ InScopeStays'
    BY <1>3, <2>1, <2>2, LookingOnKeepsVerdict DEF SecondMoves
  <2> QED
    BY <1>1, <2>1, <2>3 DEF VerdictInv
<1> QED
  BY <1>2, <1>3, WhoMoves

(* Both start without a verdict. *)
LEMMA BothInitVerdict == BothInit => BothVerdict
<1> SUFFICES ASSUME BothInit PROVE BothVerdict
  OBVIOUS
<1>1. VerdictInv
  BY InitVerdictInv DEF BothInit
<1>2. Other!VerdictInv
  BY SameInit, SameAssumptions, AttemptCapAssumption, MaxInterruptionsAssumption,
     Other!InitVerdictInv
     DEF BothInit
<1> QED
  BY <1>1, <1>2, BothInitOrder DEF BothVerdict

(* With two managers the status never says that an issue is past triage
   while it calls the issue unacceptable, whichever manager wrote what. *)
THEOREM VerdictBehindPhaseWithTwoManagers ==
    ASSUME "outage" \notin Faults, "podLoss" \notin Faults
    PROVE  BothSpec => []VerdictBehindPhase
<1>1. BothVerdict /\ [BothNext]_allVars => BothVerdict'
  BY BothVerdictStep
<1>2. BothVerdict => VerdictBehindPhase
  BY AgreeingVerdict DEF BothVerdict
<1> QED
  BY <1>1, <1>2, BothInitVerdict, PTL DEF BothSpec
=============================================================================
