--------------------------- MODULE FixWorker_proofs ---------------------------
(***************************************************************************)
(* Proofs about FixWorker, for any number of Jobs of one name and of       *)
(* pushes of others and merges to the base branch.                         *)
(***************************************************************************)
EXTENDS FixWorker, TLAPS

(***************************************************************************)
(* What a pod knows where it is.  Past the baseline test its baseline is   *)
(* red; between verification and push its tree is green; until the push    *)
(* the branch is what it was when the Job was launched; and after it the   *)
(* branch is its own, and was free when it was pushed.                     *)
(***************************************************************************)
BeforePush == {"none", "clone", "checkout", "baseline", "locate", "rewrite",
               "validate", "verify", "push"}

PastBaseline == {"locate", "rewrite", "validate", "verify", "push"}

PodKnows ==
    /\ pc # "none" => job = "active"
    /\ pc \in PastBaseline => baseline = "red"
    /\ pc = "push" => work = "green"
    /\ job = "active" /\ pc \in BeforePush => Left = before
    /\ pc \in {"openPR", "message"} =>
           /\ branch /\ pushed.job = jobs /\ jobs \in published
           /\ before.remote = "none" \/ before.job \in base.contains
    /\ pc = "message" => jobs \in prs
    /\ report => job = "complete"

(***************************************************************************)
(* What was cloned is still part of the base branch.  Only what has been   *)
(* pushed is under the branch name, and the Job before this one, or one    *)
(* before that, has left what was there when this one was launched.        *)
(***************************************************************************)
HistoryKept ==
    /\ clone.contains \subseteq base.contains
    /\ (published # {} => branch) /\ prs \subseteq published
    /\ pushed.job <= jobs /\ before.job < jobs
    /\ before.remote = "pr" => prs # {}

WorkerInv ==
    TypeOK /\ PodKnows /\ HistoryKept /\ PushedIsVerified /\ ReportIsOwn /\ NothingLost

(* The initial states satisfy the invariant. *)
LEMMA WorkerInit == Init => WorkerInv
<1> SUFFICES ASSUME Init PROVE WorkerInv
  OBVIOUS
<1>0. 0 \in 0..MaxMoves /\ 0 \in 0..MaxJobs /\ 1 \in 1..MaxJobs
  BY MaxMovesAssumption, MaxJobsAssumption
<1>1. published \subseteq 0..MaxJobs
  BY <1>0 DEF Init
<1>2. base \in Revision /\ Nothing \in Revision
  BY <1>0, <1>1 DEF Init, Revision, Nothing
<1>3. NoCommit \in Commit
  BY <1>0 DEF NoCommit, Commit
<1>4. Left.job = 0 /\ Left.remote \in {"none", "branch"}
  BY DEF Init, Left, NoCommit
<1>5. before \in [job: 0..MaxJobs, remote: {"none", "branch", "pr"}]
  BY <1>0, <1>4 DEF Init, Left
<1>6. TypeOK
  BY <1>0, <1>1, <1>2, <1>3, <1>5 DEF Init, TypeOK, PodStep
<1>7. PodKnows /\ PushedIsVerified /\ ReportIsOwn
  BY DEF Init, PodKnows, PushedIsVerified, ReportIsOwn, BeforePush, PastBaseline
<1>8. NothingLost
  BY DEF Init, NothingLost, NoCommit
<1>9. HistoryKept
  <2>1. pushed.job = 0 /\ before.job = 0 /\ before.remote # "pr"
    BY <1>4 DEF Init, NoCommit
  <2>2. pushed.job <= jobs /\ before.job < jobs
    <3>1. jobs = 1
      BY DEF Init
    <3> QED
      BY <2>1, <3>1
  <2>3. clone.contains = {} /\ (published # {} => branch) /\ prs = {}
    BY DEF Init, Nothing
  <2> QED
    BY <2>1, <2>2, <2>3 DEF HistoryKept
<1> QED
  BY <1>6, <1>7, <1>8, <1>9 DEF WorkerInv

(* What one push leaves: a commit of this Job, from red to green, where    *)
(* nothing was or where what was is part of the base branch.               *)
LEMMA PushEffect ==
    ASSUME WorkerInv, PushTakesEffect
    PROVE  /\ pc = "push" /\ job = "active" /\ before = Left
           /\ before.remote = "none" \/ before.job \in base.contains
           /\ branch' = TRUE
           /\ pushed' \in Commit /\ pushed'.job = jobs
           /\ pushed'.baseline = "red" /\ pushed'.tests = "green"
           /\ UNCHANGED <<base, prs>>
           /\ published' \subseteq 0..MaxJobs
           /\ NothingLost'
<1> USE DEF WorkerInv
<1>1. /\ pc = "push" /\ branch' = TRUE
      /\ pushed' = [job |-> jobs, baseline |-> baseline, tests |-> work]
      /\ published' = published \union {jobs}
      /\ UNCHANGED <<base, prs>>
      /\ branch => pushed.job \in clone.contains
  BY DEF PushTakesEffect, PushAccepted
<1>2. job = "active" /\ baseline = "red" /\ work = "green" /\ before = Left
  BY <1>1 DEF PodKnows, BeforePush, PastBaseline
<1>3. jobs \in 0..MaxJobs
  <2>1. jobs \in 1..MaxJobs
    BY DEF TypeOK
  <2> QED
    BY <2>1, MaxJobsAssumption
<1>4. branch => pushed.job \in base.contains
  BY <1>1 DEF HistoryKept
<1>5. before.remote = "none" \/ before.job \in base.contains
  <2>1. CASE branch
    BY <1>2, <1>4, <2>1 DEF Left
  <2>2. CASE prs # {}
    <3>1. published # {}
      BY <2>2 DEF HistoryKept
    <3> QED
      BY <2>1, <3>1 DEF HistoryKept
  <2>3. CASE ~branch /\ prs = {}
    BY <1>2, <2>3 DEF Left, TypeOK
  <2> QED
    BY <2>1, <2>2, <2>3 DEF TypeOK
<1>6. NothingLost'
  <2> SUFFICES ASSUME NEW n \in published', n # jobs
               PROVE  n \in base.contains
    BY <1>1 DEF NothingLost
  <2>1. n \in published /\ branch
    BY <1>1 DEF HistoryKept
  <2> QED
    BY <1>4, <2>1 DEF NothingLost
<1>7. pushed' \in Commit /\ published' \subseteq 0..MaxJobs
  BY <1>1, <1>2, <1>3 DEF Commit, TypeOK
<1> QED
  BY <1>1, <1>2, <1>5, <1>6, <1>7

(* Every step of the worker, of others and of the operator keeps it. *)
LEMMA WorkerStep == WorkerInv /\ [Next]_vars => WorkerInv'
<1> SUFFICES ASSUME WorkerInv, [Next]_vars PROVE WorkerInv'
  OBVIOUS
<1> USE DEF WorkerInv, githubVars, jobVars, podVars
<1>0. Nothing \in Revision /\ Nothing.contains = {} /\ jobs \in Nat /\ jobs <= jobs
  <2>1. Nothing \in Revision /\ Nothing.contains = {}
    BY MaxMovesAssumption DEF Nothing, Revision
  <2>2. jobs \in 1..MaxJobs
    BY DEF TypeOK
  <2> QED
    BY <2>1, <2>2, MaxJobsAssumption
<1>1. ASSUME UNCHANGED <<githubVars, jobVars>>, clone' \in {clone, base, Nothing}
      PROVE  HistoryKept' /\ PushedIsVerified' /\ ReportIsOwn' /\ NothingLost'
  BY <1>0, <1>1 DEF HistoryKept, PushedIsVerified, ReportIsOwn, NothingLost
<1>2. CASE StartPod
  BY <1>1, <1>2 DEF StartPod, TypeOK, PodStep, PodKnows, BeforePush, PastBaseline, Left
<1>3. CASE Clone
  <2>1. base.tests \in {"red", "green"}
    BY DEF TypeOK, Revision
  <2> QED
    BY <1>1, <1>3, <2>1 DEF Clone, TypeOK, PodStep, PodKnows, BeforePush, PastBaseline, Left
<1>4. CASE CheckoutNewBranch
  BY <1>1, <1>4 DEF CheckoutNewBranch, TypeOK, PodStep, PodKnows, BeforePush, PastBaseline, Left
<1>5. CASE BaselineTest
  <2>1. baseline' = "red"
    BY <1>5 DEF BaselineTest, WorthFixing
  <2> QED
    BY <1>1, <1>5, <2>1
       DEF BaselineTest, TypeOK, PodStep, PodKnows, BeforePush, PastBaseline, Left
<1>6. CASE LocateFile
  BY <1>1, <1>6 DEF LocateFile, TypeOK, PodStep, PodKnows, BeforePush, PastBaseline, Left
<1>7. CASE RewriteFile
  BY <1>1, <1>7 DEF RewriteFile, TypeOK, PodStep, PodKnows, BeforePush, PastBaseline, Left
<1>8. CASE ValidateGoSource
  BY <1>1, <1>8 DEF ValidateGoSource, TypeOK, PodStep, PodKnows, BeforePush, PastBaseline, Left
<1>9. CASE VerificationTest
  <2>1. work = "green"
    BY <1>9 DEF VerificationTest, TestRun, Verified
  <2> QED
    BY <1>1, <1>9, <2>1
       DEF VerificationTest, TypeOK, PodStep, PodKnows, BeforePush, PastBaseline, Left
<1>10. CASE CommitAndPush
  <2>1. PushTakesEffect /\ pc' = "openPR" /\ UNCHANGED <<jobVars, clone, baseline, work>>
    BY <1>10 DEF CommitAndPush
  <2>2. job = "active" /\ ~report
    BY <2>1, PushEffect DEF PodKnows
  <2>3. jobs \in published' /\ published \subseteq published'
    BY <2>1 DEF PushTakesEffect
  <2>4. HistoryKept'
    <3>1. pushed'.job <= jobs /\ UNCHANGED <<base, clone, jobs, before, prs>>
      BY <1>0, <2>1, PushEffect
    <3> QED
      BY <2>1, <2>3, <3>1, PushEffect DEF HistoryKept
  <2> QED
    BY <2>1, <2>2, <2>3, <2>4, PushEffect
       DEF TypeOK, PodStep, PodKnows, BeforePush, PastBaseline, PushedIsVerified,
           ReportIsOwn
<1>11. CASE OpenPR
  <2>1. /\ pc = "openPR" /\ prs' = prs \union {jobs}
        /\ UNCHANGED <<base, branch, pushed, published, jobVars>>
        /\ pc' = "message" /\ UNCHANGED <<clone, baseline, work>>
    BY <1>11 DEF OpenPR, OpenPRTakesEffect
  <2>2. job = "active" /\ ~report /\ jobs \in published
    BY <2>1 DEF PodKnows
  <2> QED
    BY <2>1, <2>2 DEF TypeOK, PodStep, PodKnows, BeforePush, PastBaseline, HistoryKept,
                      PushedIsVerified, ReportIsOwn, NothingLost
<1>12. CASE WriteTermination
  <2>1. pushed.job = jobs /\ jobs \in prs
    BY <1>12 DEF WriteTermination, PodKnows
  <2> QED
    BY <1>0, <1>12, <2>1
       DEF WriteTermination, PodEnds, TypeOK, PodStep, PodKnows, BeforePush, PastBaseline,
           HistoryKept, PushedIsVerified, ReportIsOwn, NothingLost
<1>13. CASE PodFails
  <2>1. /\ branch' \in BOOLEAN /\ pushed' \in Commit /\ base' = base
        /\ prs' \subseteq 1..MaxJobs /\ published' \subseteq 0..MaxJobs
        /\ PushedIsVerified' /\ NothingLost'
        /\ (published' # {} => branch') /\ prs' \subseteq published'
        /\ pushed'.job <= jobs /\ prs \subseteq prs'
    <3>1. CASE PushTakesEffect
      <4>1. published' = published \union {jobs}
        BY <3>1 DEF PushTakesEffect
      <4> QED
        BY <1>0, <3>1, <4>1, PushEffect DEF TypeOK, PushedIsVerified, HistoryKept
    <3>2. CASE OpenPRTakesEffect
      BY <3>2 DEF OpenPRTakesEffect, TypeOK, PushedIsVerified, NothingLost, HistoryKept,
                  PodKnows
    <3>3. CASE UNCHANGED githubVars
      BY <3>3 DEF TypeOK, PushedIsVerified, NothingLost, HistoryKept
    <3> QED
      BY <1>13, <3>1, <3>2, <3>3 DEF PodFails
  <2>2. job' = "failed" /\ ~report' /\ PodEnds /\ UNCHANGED <<jobs, before>>
    BY <1>13 DEF PodFails, ReportAfterFailure
  <2>3. report' \in BOOLEAN
    BY <1>13 DEF PodFails, ReportAfterFailure
  <2>4. HistoryKept'
    BY <1>0, <2>1, <2>2 DEF PodEnds, HistoryKept
  <2> QED
    BY <1>0, <2>1, <2>2, <2>3, <2>4
       DEF PodEnds, TypeOK, PodStep, PodKnows, BeforePush, PastBaseline, ReportIsOwn
<1>14. ASSUME NEW contains \in SUBSET (0..MaxJobs), base.contains \subseteq contains,
              Advance(contains)
       PROVE  WorkerInv'
  <2>1. base' \in Revision /\ base.contains \subseteq base'.contains
    <3>1. base.rev \in 0..MaxMoves /\ base.rev < MaxMoves
      BY <1>14 DEF Advance, TypeOK, Revision
    <3>2. base.rev + 1 \in 0..MaxMoves
      BY <3>1, MaxMovesAssumption
    <3> QED
      BY <1>14, <3>2 DEF Advance, Revision
  <2>2. UNCHANGED <<branch, pushed, prs, published, jobVars, podVars>>
    BY <1>14 DEF Advance
  <2>3. TypeOK'
    BY <2>1, <2>2 DEF TypeOK
  <2>4. PodKnows'
    <3>1. UNCHANGED Left
      BY <2>2 DEF Left
    <3> QED
      BY <2>1, <2>2, <3>1 DEF PodKnows
  <2>5. HistoryKept' /\ NothingLost'
    BY <2>1, <2>2 DEF HistoryKept, NothingLost
  <2>6. PushedIsVerified' /\ ReportIsOwn'
    BY <2>2 DEF PushedIsVerified, ReportIsOwn
  <2> QED
    BY <2>3, <2>4, <2>5, <2>6
<1>15. CASE BaseMoves
  <2>1. base.contains \in SUBSET (0..MaxJobs)
    BY DEF TypeOK, Revision
  <2> QED
    BY <1>14, <1>15, <2>1 DEF BaseMoves
<1>16. CASE Merge
  <2>1. base.contains \union {pushed.job} \in SUBSET (0..MaxJobs)
    BY DEF TypeOK, Revision, Commit
  <2> QED
    BY <1>14, <1>16, <2>1 DEF Merge
<1>17. CASE Relaunch
  <2>1. jobs' \in 1..MaxJobs /\ jobs' = jobs + 1 /\ jobs \in Nat
    <3>1. jobs \in 1..MaxJobs /\ jobs < MaxJobs /\ jobs' = jobs + 1
      BY <1>17 DEF Relaunch, TypeOK
    <3> QED
      BY <3>1, MaxJobsAssumption
  <2>2. pc = "none"
    BY <1>17 DEF Relaunch, PodKnows
  <2>3. /\ before' = Left /\ Left' = Left
        /\ UNCHANGED <<githubVars, podVars>> /\ job' = "active" /\ report' = FALSE
    BY <1>17 DEF Relaunch, Left
  <2>4. pushed.job \in 0..MaxJobs
    BY DEF TypeOK, Commit
  <2>5. before' \in [job: 0..MaxJobs, remote: {"none", "branch", "pr"}]
    BY <2>3, <2>4 DEF Left
  <2>6. HistoryKept'
    <3>1. pushed.job <= jobs' /\ pushed.job < jobs'
      BY <2>1, <2>4, MaxJobsAssumption DEF HistoryKept
    <3>2. before'.job = pushed.job /\ (before'.remote = "pr" => prs # {})
      BY <2>3 DEF Left
    <3> QED
      BY <2>3, <3>1, <3>2 DEF HistoryKept
  <2> QED
    BY <2>1, <2>2, <2>3, <2>5, <2>6
       DEF TypeOK, PodKnows, BeforePush, PastBaseline, PushedIsVerified, ReportIsOwn,
           NothingLost
<1>18. CASE UNCHANGED vars
  <2>1. UNCHANGED <<githubVars, jobVars, podVars, published, Left>>
    BY <1>18 DEF vars, Left
  <2>2. TypeOK' /\ PodKnows'
    BY <2>1 DEF TypeOK, PodKnows
  <2>3. HistoryKept' /\ PushedIsVerified' /\ ReportIsOwn' /\ NothingLost'
    BY <2>1, <1>1
  <2> QED
    BY <2>2, <2>3
<1> QED
  BY <1>2, <1>3, <1>4, <1>5, <1>6, <1>7, <1>8, <1>9, <1>10, <1>11, <1>12, <1>13,
     <1>15, <1>16, <1>17, <1>18 DEF Next

(* The worker is well typed, and keeps the strengthened invariant. *)
THEOREM WorkerInvariant == Spec => []WorkerInv
BY WorkerInit, WorkerStep, PTL DEF Spec

(* The worker is well typed. *)
THEOREM WorkerTypeCorrect == Spec => []TypeOK
<1>1. WorkerInv => TypeOK
  BY DEF WorkerInv
<1> QED
  BY <1>1, WorkerInvariant, PTL

(* Only work that went from red to green is ever pushed, however many Jobs *)
(* of one name there are and wherever they stop.                           *)
THEOREM PushedIsVerifiedHolds == Spec => []PushedIsVerified
<1>1. WorkerInv => PushedIsVerified
  BY DEF WorkerInv
<1> QED
  BY <1>1, WorkerInvariant, PTL

(* A pull request that is reported is there, and of the Job that reports. *)
THEOREM ReportIsOwnHolds == Spec => []ReportIsOwn
<1>1. WorkerInv => ReportIsOwn
  BY DEF WorkerInv
<1> QED
  BY <1>1, WorkerInvariant, PTL

(* What was pushed under the branch name stays there until it is merged,   *)
(* however many Jobs of the name there are and wherever they stop.         *)
THEOREM NothingLostHolds == Spec => []NothingLost
<1>1. WorkerInv => NothingLost
  BY DEF WorkerInv
<1> QED
  BY <1>1, WorkerInvariant, PTL

(***************************************************************************)
(* The worker implements FixContract: what it does before its pod ends is  *)
(* a stutter, and the end of the pod is PodSucceeds or PodFails.           *)
(***************************************************************************)
LEMMA ContractInit == Init => AsAssumed!Init
<1> SUFFICES ASSUME Init PROVE AsAssumed!Init
  OBVIOUS
<1>1. SeenLeft = [job |-> 0, remote |-> IF branch THEN "branch" ELSE "none"]
  BY DEF Init, SeenLeft, Left, NoCommit
<1>2. SeenLeft.job \in base.contains => SeenLeft.remote = "branch"
  BY <1>1 DEF Init
<1>3. (SeenLeft.job \in base.contains) \in BOOLEAN
  OBVIOUS
<1>4. SeenLeft.remote \in {"none", "branch"}
  BY <1>1
<1> QED
  BY <1>2, <1>3, <1>4 DEF Init, AsAssumed!Init

(* What the operator sees of a Job that is under way does not change. *)
LEMMA UnderWay ==
    ASSUME job = "active", UNCHANGED <<job, before, report, base>>
    PROVE  UNCHANGED AsAssumed!contractVars
BY DEF AsAssumed!contractVars, SeenLeft

(* Every step is one of the contract's, or changes nothing it tells of. *)
LEMMA ContractStep ==
    WorkerInv /\ [Next]_vars => [AsAssumed!Next]_(AsAssumed!contractVars)
<1> SUFFICES ASSUME WorkerInv, [Next]_vars
             PROVE  AsAssumed!Next \/ UNCHANGED AsAssumed!contractVars
  OBVIOUS
<1> USE DEF WorkerInv, githubVars, jobVars, podVars
<1>1. CASE \/ StartPod \/ Clone \/ CheckoutNewBranch \/ BaselineTest \/ LocateFile
           \/ RewriteFile \/ ValidateGoSource \/ VerificationTest \/ CommitAndPush
           \/ OpenPR
  <2>1. job = "active" /\ UNCHANGED <<job, before, report, base>>
    BY <1>1 DEF StartPod, Clone, CheckoutNewBranch, BaselineTest, LocateFile,
                RewriteFile, ValidateGoSource, VerificationTest, CommitAndPush,
                PushTakesEffect, OpenPR, OpenPRTakesEffect, PodKnows
  <2> QED
    BY <2>1, UnderWay
<1>2. CASE WriteTermination
  <2>1. /\ job = "active" /\ (before.remote = "none" \/ before.job \in base.contains)
        /\ jobs \in prs /\ job' = "complete" /\ report' \in BOOLEAN
        /\ UNCHANGED githubVars
    BY <1>2 DEF WriteTermination, PodKnows
  <2>2. SeenLeft = before /\ SeenLeft'.remote = "pr"
    BY <2>1 DEF SeenLeft, Left
  <2> QED
    BY <2>1, <2>2 DEF AsAssumed!Next, AsAssumed!PodSucceeds, AsAssumed!CanPush
<1>3. CASE PodFails
  <2>1. job = "active" /\ job' = "failed" /\ ~report /\ ~report' /\ before' = before
    BY <1>3 DEF PodFails, ReportAfterFailure, PodKnows
  <2>2. report = FALSE /\ report' = FALSE
    BY <2>1, <1>3 DEF TypeOK, PodFails, ReportAfterFailure
  <2>3. SeenLeft = before /\ SeenLeft' = Left'
    BY <2>1 DEF SeenLeft
  <2>4. ASSUME branch' = TRUE, prs \subseteq prs',
               before.remote = "none" \/ before.job \in base.contains
        PROVE  AsAssumed!PodFails
    <3>1. Left'.remote \in {"branch", "pr"}
      BY <2>4 DEF Left
    <3>2. before.remote = "pr" => Left'.remote = "pr"
      BY <2>4 DEF Left, HistoryKept
    <3>3. (SeenLeft.job \in base.contains)' \in BOOLEAN
      OBVIOUS
    <3>4. AsAssumed!CanPush
      BY <2>3, <2>4 DEF AsAssumed!CanPush
    <3>5. SeenLeft'.remote \in {"branch", "pr"}
          /\ (SeenLeft.remote = "pr" => SeenLeft'.remote = "pr")
      BY <2>3, <3>1, <3>2
    <3> QED
      BY <2>1, <2>2, <3>3, <3>4, <3>5 DEF AsAssumed!PodFails
  <2>5. CASE PushTakesEffect
    BY <2>4, <2>5, PushEffect DEF AsAssumed!Next
  <2>6. CASE OpenPRTakesEffect
    <3>1. branch' = TRUE /\ prs \subseteq prs'
      BY <2>6 DEF OpenPRTakesEffect, PodKnows, TypeOK
    <3>2. before.remote = "none" \/ before.job \in base.contains
      BY <2>6 DEF OpenPRTakesEffect, PodKnows
    <3> QED
      BY <2>4, <3>1, <3>2 DEF AsAssumed!Next
  <2>7. CASE UNCHANGED githubVars /\ pc \in BeforePush
    <3>1. Left' = Left /\ Left = before /\ base' = base
      BY <2>1, <2>7 DEF Left, PodKnows
    <3> QED
      BY <2>1, <2>2, <2>3, <3>1 DEF AsAssumed!Next, AsAssumed!PodFails
  <2>8. CASE UNCHANGED githubVars /\ pc \notin BeforePush
    <3>1. branch' = TRUE /\ prs \subseteq prs'
      BY <2>8 DEF PodKnows, TypeOK, PodStep, BeforePush
    <3>2. before.remote = "none" \/ before.job \in base.contains
      BY <2>8 DEF PodKnows, TypeOK, PodStep, BeforePush
    <3> QED
      BY <2>4, <3>1, <3>2 DEF AsAssumed!Next
  <2> QED
    BY <1>3, <2>5, <2>6, <2>7, <2>8 DEF PodFails
<1>4. CASE BaseMoves
  <2>1. base'.contains = base.contains /\ UNCHANGED <<job, report, SeenLeft>>
    BY <1>4 DEF BaseMoves, Advance, SeenLeft, Left
  <2> QED
    BY <2>1 DEF AsAssumed!contractVars
<1>5. CASE Merge
  <2>1. /\ branch /\ pushed.job \notin base.contains
        /\ base'.contains = base.contains \union {pushed.job}
        /\ UNCHANGED <<job, report, Left, SeenLeft>>
    BY <1>5 DEF Merge, Advance, Left, SeenLeft
  <2>2. CASE SeenLeft.job = pushed.job
    <3>1. ASSUME job = "active", pc \notin BeforePush
          PROVE  FALSE
      <4>1. pushed.job = jobs
        BY <3>1 DEF PodKnows, TypeOK, PodStep, BeforePush
      <4>2. before.job = pushed.job /\ before.job < jobs
        BY <2>2, <3>1 DEF SeenLeft, HistoryKept
      <4>3. jobs \in 1..MaxJobs
        BY DEF TypeOK
      <4> QED
        BY <4>1, <4>2, <4>3, MaxJobsAssumption
    <3>2. SeenLeft = Left
      BY <3>1 DEF SeenLeft, PodKnows, TypeOK
    <3>3. SeenLeft.remote # "none"
      BY <2>1, <3>2 DEF Left
    <3> QED
      BY <2>1, <2>2, <3>3 DEF AsAssumed!Next, AsAssumed!Merge
  <2>3. CASE SeenLeft.job # pushed.job
    BY <2>1, <2>3 DEF AsAssumed!contractVars
  <2> QED
    BY <2>2, <2>3
<1>6. CASE Relaunch
  <2>1. SeenLeft' = SeenLeft /\ base' = base
    BY <1>6 DEF Relaunch, SeenLeft, Left
  <2> QED
    BY <1>6, <2>1 DEF Relaunch, AsAssumed!Next, AsAssumed!Relaunch
<1>7. CASE UNCHANGED vars
  BY <1>7 DEF vars, AsAssumed!contractVars, SeenLeft, Left
<1> QED
  BY <1>1, <1>2, <1>3, <1>4, <1>5, <1>6, <1>7 DEF Next

(* FixWorker is an implementation of FixContract. *)
THEOREM KeepsContractHolds == Spec => KeepsContract
BY ContractInit, ContractStep, WorkerInvariant, PTL
   DEF Spec, KeepsContract, AsAssumed!Contract
=============================================================================
