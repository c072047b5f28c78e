------------------------- MODULE TriageWorker_proofs -------------------------
(***************************************************************************)
(* Proofs about TriageWorker, for whatever the model says and any number   *)
(* of Jobs.                                                                *)
(***************************************************************************)
EXTENDS TriageWorker, TLAPS

(***************************************************************************)
(* The three labels that contradict a verdict, and what is left of them    *)
(* after each removal.                                                     *)
(***************************************************************************)
OtherSuspicious(v) == IF v.suspicious THEN "suspicious:false" ELSE "suspicious:true"
OtherScope(v) == IF v.inScope THEN "in-scope:false" ELSE "in-scope:true"
OtherAgent(v) == IF v.inScope /\ ~v.suspicious THEN "agent:rejected"
                                               ELSE "agent:pending-validation"

Three(v) == <<OtherSuspicious(v), OtherScope(v), OtherAgent(v)>>
Two(v)   == <<OtherScope(v), OtherAgent(v)>>
One(v)   == <<OtherAgent(v)>>

(* The removals are the three labels, one after the other. *)
LEMMA Removals ==
    ASSUME NEW v \in Verdict
    PROVE  /\ LabelsToRemove(v) = Three(v)
           /\ Three(v) \in Seq(Label) /\ Two(v) \in Seq(Label) /\ One(v) \in Seq(Label)
           /\ Head(Three(v)) = OtherSuspicious(v) /\ Tail(Three(v)) = Two(v)
           /\ Head(Two(v)) = OtherScope(v) /\ Tail(Two(v)) = One(v)
           /\ Head(One(v)) = OtherAgent(v) /\ Tail(One(v)) = <<>>
           /\ Two(v) # <<>> /\ One(v) # <<>>
<1>1. LabelsToRemove(v) = Three(v)
  BY DEF LabelsToRemove, Three, OtherSuspicious, OtherScope, OtherAgent
<1>2. OtherSuspicious(v) \in Label /\ OtherScope(v) \in Label /\ OtherAgent(v) \in Label
  BY DEF OtherSuspicious, OtherScope, OtherAgent, Label
<1>3. ASSUME NEW a, NEW b, NEW c
      PROVE  /\ Head(<<a, b, c>>) = a /\ Tail(<<a, b, c>>) = <<b, c>>
             /\ Head(<<b, c>>) = b /\ Tail(<<b, c>>) = <<c>>
             /\ Head(<<c>>) = c /\ Tail(<<c>>) = <<>>
             /\ <<b, c>> # <<>> /\ <<c>> # <<>>
  OBVIOUS
<1> QED
  BY <1>1, <1>2, <1>3 DEF Three, Two, One

(* With its contradictions gone, the labels of a verdict are all there are. *)
LEMMA Additions ==
    ASSUME NEW v \in Verdict, labels \subseteq Label,
           OtherSuspicious(v) \notin labels, OtherScope(v) \notin labels,
           OtherAgent(v) \notin labels
    PROVE  /\ labels \cup LabelsToAdd(v) = LabelsToAdd(v)
           /\ LabelsToAdd(v) \subseteq Label
BY DEF LabelsToAdd, OtherSuspicious, OtherScope, OtherAgent, Label, Verdict

(* The labels of one verdict agree. *)
LEMMA OneVerdictAgrees ==
    ASSUME NEW v \in Verdict, labels' = LabelsToAdd(v)
    PROVE  LabelsAgree'
BY DEF LabelsAgree, LabelsToAdd, Verdict

-----------------------------------------------------------------------------
(***************************************************************************)
(* What a pod knows where it is: the last comment is its verdict, the      *)
(* contradicting labels go one by one, and in the end the labels are those *)
(* of its verdict.  And of the Job: no pod of an active Job has exited 0.  *)
(***************************************************************************)
Published == comments # <<>> /\ comments[Len(comments)] = result

PodKnows ==
    /\ pc # "none" => job.state = "active"
    /\ pc \in {"remove", "ensure", "add", "message"} => Published
    /\ pc = "remove" =>
          \/ stale = Three(result)
          \/ stale = Two(result) /\ OtherSuspicious(result) \notin labels
          \/ /\ stale = One(result)
             /\ OtherSuspicious(result) \notin labels /\ OtherScope(result) \notin labels
    /\ pc \in {"ensure", "add"} =>
          /\ OtherSuspicious(result) \notin labels /\ OtherScope(result) \notin labels
          /\ OtherAgent(result) \notin labels
    /\ pc = "message" => labels = LabelsToAdd(result)

JobKnows ==
    /\ job.state = "active" => job.failedPods <= 1
    /\ job.state # "complete" => \A p \in ended : p.exitCode = 1

TriageInv == TypeOK /\ PodKnows /\ JobKnows /\ LabelsAgree /\ ReadIsPublished
                /\ LabelsTellOneComment

(* The types of the constants the actions assign. *)
LEMMA Constants ==
    /\ NoVerdict \in Verdict /\ Hostile \in Verdict /\ Unreadable \in Verdict
    /\ NewJob \in Job /\ NewJob.state = "active" /\ NewJob.failedPods = 0
    /\ <<>> \in Seq(Label) /\ <<>> \in Seq(Verdict)
BY DEF NoVerdict, Hostile, Unreadable, Verdict, NewJob, Job, JobState

(* The initial states satisfy the invariant. *)
LEMMA TriageInit == Init => TriageInv
<1> SUFFICES ASSUME Init PROVE TriageInv
  OBVIOUS
<1>1. 1 \in 1..MaxJobs
  BY MaxJobsAssumption
<1>2. TypeOK
  BY <1>1, Constants DEF Init, TypeOK, PodStep
<1>3. PodKnows /\ LabelsAgree /\ LabelsTellOneComment
  BY DEF Init, PodKnows, LabelsAgree, LabelsTellOneComment
<1>4. JobKnows /\ ReadIsPublished
  BY Constants DEF Init, JobKnows, ReadIsPublished
<1> QED
  BY <1>2, <1>3, <1>4 DEF TriageInv

-----------------------------------------------------------------------------
(* A comment more does not take one away. *)
LEMMA CommentsGrow ==
    ASSUME NEW v \in Verdict, comments \in Seq(Verdict), comments' = Append(comments, v)
    PROVE  /\ comments' \in Seq(Verdict) /\ comments' # <<>>
           /\ comments'[Len(comments')] = v
           /\ Len(comments) \in Nat /\ Len(comments') = Len(comments) + 1
           /\ \A i \in 1..Len(comments) : comments'[i] = comments[i]
OBVIOUS

(* Any request, whether the pod sees it succeed or fail, keeps the issue's *)
(* labels consistent and a comment behind them.                            *)
LEMMA RequestKeeps ==
    ASSUME TriageInv, pc # "none", Request \/ UNCHANGED githubVars
    PROVE  /\ comments' \in Seq(Verdict) /\ labels' \subseteq Label
           /\ LabelsAgree' /\ LabelsTellOneComment'
<1> USE DEF TriageInv
<1>0. /\ result \in Verdict /\ comments \in Seq(Verdict) /\ labels \subseteq Label
      /\ pc \in PodStep
  BY DEF TypeOK
<1>1. CASE UNCHANGED githubVars
  BY <1>0, <1>1 DEF githubVars, LabelsAgree, LabelsTellOneComment
<1>2. CASE Request /\ pc = "comment"
  <2>1. comments' = Append(comments, result) /\ labels' = labels
    BY <1>2 DEF Request
  <2>2. comments' \in Seq(Verdict) /\ LabelsAgree'
    BY <1>0, <2>1, CommentsGrow DEF LabelsAgree
  <2>3. LabelsTellOneComment'
    <3> SUFFICES ASSUME labels # {}
                 PROVE  \E i \in 1..Len(comments') : labels \subseteq LabelsToAdd(comments'[i])
      BY <2>1 DEF LabelsTellOneComment, LabelsToAdd
    <3>1. PICK i \in 1..Len(comments) : labels \subseteq LabelsToAdd(comments[i])
      BY DEF LabelsTellOneComment
    <3>2. i \in 1..Len(comments') /\ comments'[i] = comments[i]
      BY <1>0, <2>1, <3>1, CommentsGrow
    <3> QED
      BY <3>1, <3>2
  <2> QED
    BY <1>0, <2>1, <2>2, <2>3
<1>3. CASE Request /\ pc = "remove"
  <2>1. labels' \subseteq labels /\ comments' = comments
    BY <1>3 DEF Request
  <2> QED
    BY <1>0, <2>1 DEF LabelsAgree, LabelsTellOneComment
<1>4. CASE Request /\ pc = "add"
  <2>1. labels' = labels \cup LabelsToAdd(result) /\ comments' = comments
    BY <1>4 DEF Request
  <2>2. labels' = LabelsToAdd(result) /\ labels' \subseteq Label
    BY <1>0, <1>4, <2>1, Additions DEF PodKnows
  <2>3. LabelsAgree'
    BY <1>0, <2>2, OneVerdictAgrees
  <2>4. LabelsTellOneComment'
    <3>1. comments # <<>> /\ comments[Len(comments)] = result
      BY <1>4 DEF PodKnows, Published
    <3>2. Len(comments) \in 1..Len(comments)
      BY <1>0, <3>1
    <3> QED
      BY <2>1, <2>2, <3>1, <3>2 DEF LabelsTellOneComment, LabelsToAdd
  <2> QED
    BY <1>0, <2>1, <2>2, <2>3, <2>4
<1>5. CASE Request /\ pc \notin {"comment", "remove", "add"}
  <2>1. UNCHANGED githubVars
    BY <1>5 DEF Request
  <2> QED
    BY <1>1, <2>1
<1> QED
  BY <1>1, <1>2, <1>3, <1>4, <1>5

(* The steps of a pod that do not end it. *)
LEMMA PodStepKeeps ==
    ASSUME TriageInv,
           \/ StartPod \/ Prefilter \/ CallGemini
           \/ PostComment \/ RemoveLabel \/ EnsureLabels \/ AddLabels
    PROVE  TriageInv'
<1> USE DEF TriageInv
<1>0. /\ result \in Verdict /\ comments \in Seq(Verdict) /\ labels \subseteq Label
      /\ job \in Job /\ jobs \in 1..MaxJobs /\ ended \subseteq Terminated
      /\ hit \in BOOLEAN /\ stale \in Seq(Label)
  BY DEF TypeOK
<1>1. /\ UNCHANGED jobVars /\ hit' = hit /\ job.state = "active"
      /\ pc' # "none" /\ pc' \in PodStep
  BY DEF StartPod, Prefilter, CallGemini, PostComment, RemoveLabel, EnsureLabels,
         AddLabels, PodKnows, jobVars, PodStep
<1>2. JobKnows' /\ ReadIsPublished' /\ (pc' # "none" => job'.state = "active")
  BY <1>1 DEF JobKnows, ReadIsPublished, jobVars
<1>3. /\ comments' \in Seq(Verdict) /\ labels' \subseteq Label
      /\ LabelsAgree' /\ LabelsTellOneComment'
  <2>1. CASE StartPod
    BY <1>0, <2>1 DEF StartPod, githubVars, LabelsAgree, LabelsTellOneComment
  <2>2. ASSUME ~StartPod PROVE pc # "none" /\ (Request \/ UNCHANGED githubVars)
    BY <2>2 DEF Prefilter, CallGemini, PostComment, RemoveLabel, EnsureLabels, AddLabels
  <2> QED
    BY <2>1, <2>2, RequestKeeps
<1>4. ASSUME result' \in Verdict, stale' \in Seq(Label), PodKnows'
      PROVE  TriageInv'
  BY <1>0, <1>1, <1>2, <1>3, <1>4 DEF TypeOK, jobVars
<1>5. CASE StartPod
  BY <1>0, <1>1, <1>2, <1>4, <1>5 DEF StartPod, PodKnows
<1>6. CASE Prefilter
  <2>1. result' \in Verdict /\ stale' = stale /\ pc' \in {"comment", "gemini"}
    BY <1>0, <1>6, Constants DEF Prefilter
  <2> QED
    BY <1>0, <1>2, <1>4, <2>1 DEF PodKnows
<1>7. CASE CallGemini
  <2>1. result' \in Verdict /\ stale' = stale /\ pc' = "comment"
    BY <1>0, <1>7, Constants, ModelVerdictsAssumption DEF CallGemini
  <2> QED
    BY <1>0, <1>2, <1>4, <2>1 DEF PodKnows
<1>8. CASE PostComment
  <2>1. /\ comments' = Append(comments, result) /\ result' = result /\ pc' = "remove"
        /\ stale' = Three(result) /\ stale' \in Seq(Label)
    BY <1>0, <1>8, Removals DEF PostComment, Request
  <2>2. Published'
    BY <1>0, <2>1, CommentsGrow DEF Published
  <2> QED
    BY <1>0, <1>2, <1>4, <2>1, <2>2 DEF PodKnows
<1>9. CASE RemoveLabel
  <2>1. /\ pc = "remove" /\ result' = result /\ comments' = comments
        /\ labels' = labels \ {Head(stale)} /\ stale' = Tail(stale)
        /\ pc' = IF Tail(stale) = <<>> THEN "ensure" ELSE "remove"
    BY <1>9 DEF RemoveLabel, Request
  <2>2. Published'
    BY <2>1 DEF PodKnows, Published
  <2>3. CASE stale = Three(result)
    <3>1. stale' = Two(result) /\ pc' = "remove" /\ OtherSuspicious(result) \notin labels'
      BY <1>0, <2>1, <2>3, Removals
    <3> QED
      BY <1>0, <1>2, <1>4, <2>1, <2>2, <3>1, Removals
         DEF PodKnows, OtherSuspicious, OtherScope, OtherAgent
  <2>4. CASE stale = Two(result) /\ OtherSuspicious(result) \notin labels
    <3>1. /\ stale' = One(result) /\ pc' = "remove"
          /\ OtherSuspicious(result) \notin labels' /\ OtherScope(result) \notin labels'
      BY <1>0, <2>1, <2>4, Removals
    <3> QED
      BY <1>0, <1>2, <1>4, <2>1, <2>2, <3>1, Removals
         DEF PodKnows, OtherSuspicious, OtherScope, OtherAgent
  <2>5. CASE /\ stale = One(result)
             /\ OtherSuspicious(result) \notin labels /\ OtherScope(result) \notin labels
    <3>1. /\ stale' = <<>> /\ pc' = "ensure"
          /\ OtherSuspicious(result) \notin labels' /\ OtherScope(result) \notin labels'
          /\ OtherAgent(result) \notin labels'
      BY <1>0, <2>1, <2>5, Removals
    <3> QED
      BY <1>0, <1>2, <1>4, <2>1, <2>2, <3>1, Constants
         DEF PodKnows, OtherSuspicious, OtherScope, OtherAgent
  <2> QED
    BY <2>1, <2>3, <2>4, <2>5 DEF PodKnows
<1>10. CASE EnsureLabels
  <2>1. /\ pc = "ensure" /\ pc' = "add"
        /\ UNCHANGED <<comments, labels, result, stale>>
    BY <1>10 DEF EnsureLabels, githubVars
  <2> QED
    BY <1>0, <1>2, <1>4, <2>1
       DEF PodKnows, Published, OtherSuspicious, OtherScope, OtherAgent
<1>11. CASE AddLabels
  <2>1. /\ pc = "add" /\ pc' = "message" /\ UNCHANGED <<comments, result, stale>>
        /\ labels' = labels \cup LabelsToAdd(result)
    BY <1>11 DEF AddLabels, Request
  <2>2. labels' = LabelsToAdd(result) /\ Published
    BY <1>0, <2>1, Additions DEF PodKnows
  <2>3. labels' = LabelsToAdd(result')
    BY <2>1, <2>2
  <2>4. Published'
    BY <2>1, <2>2 DEF Published
  <2> QED
    BY <1>0, <1>2, <1>4, <2>1, <2>3, <2>4 DEF PodKnows
<1> QED
  BY <1>5, <1>6, <1>7, <1>8, <1>9, <1>10, <1>11

(* What a terminated container may be. *)
LEMMA TerminatedRecord ==
    ASSUME NEW c \in {0, 1}, NEW m \in {"", "json", "cut"}, NEW v \in Verdict
    PROVE  /\ [exitCode |-> c, message |-> m, verdict |-> v] \in Terminated
           /\ [exitCode |-> c, message |-> m, verdict |-> v].exitCode = c
BY DEF Terminated

(* What a failing pod leaves is such a container, with exit code 1. *)
LEMMA FailedPodLeft ==
    ASSUME result \in Verdict, NEW left \in LeftByFailure
    PROVE  left \in Terminated /\ left.exitCode = 1
<1>1. PICK m \in {"", "json"}, v \in Verdict :
          left = [exitCode |-> 1, message |-> m, verdict |-> v]
  <2>1. CASE left = [exitCode |-> 1, message |-> "", verdict |-> NoVerdict]
    BY <2>1, Constants
  <2>2. CASE left \in [exitCode: {1}, message: {"json"}, verdict: {NoVerdict, result}]
    <3>1. PICK v \in {NoVerdict, result} :
              left = [exitCode |-> 1, message |-> "json", verdict |-> v]
      BY <2>2
    <3> QED
      BY <3>1, Constants
  <2> QED
    BY <2>1, <2>2 DEF LeftByFailure
<1> QED
  BY <1>1, TerminatedRecord

(* A pod that exits 0: what it reports is what the issue shows. *)
LEMMA SuccessKeeps == TriageInv /\ WriteTermination => TriageInv'
<1> SUFFICES ASSUME TriageInv, WriteTermination PROVE TriageInv'
  OBVIOUS
<1> USE DEF TriageInv
<1>1. PICK text \in {"json", "cut"} :
          ended' = ended \cup {[exitCode |-> 0, message |-> text, verdict |-> result]}
  BY DEF WriteTermination
<1>2. /\ job.state = "active" /\ Published /\ labels = LabelsToAdd(result)
      /\ result \in Verdict /\ job \in Job /\ ended \subseteq Terminated
  BY DEF WriteTermination, PodKnows, TypeOK
<1>3. \A p \in ended : p.exitCode = 1
  BY <1>2 DEF JobKnows
<1>4. /\ job' = [job EXCEPT !.state = "complete"]
      /\ pc' = "none" /\ result' = NoVerdict /\ stale' = <<>>
      /\ UNCHANGED <<comments, labels, jobs, hit>>
  BY DEF WriteTermination, PodEnds, githubVars
<1>5. /\ job' \in Job /\ job'.state = "complete"
      /\ job'.failedPods = job.failedPods
  BY <1>2, <1>4 DEF Job, JobState
<1>6. TypeOK'
  <2>1. ended' \subseteq Terminated
    BY <1>1, <1>2, TerminatedRecord
  <2> QED
    BY <1>4, <1>5, <2>1, Constants DEF TypeOK, PodStep
<1>7. PodKnows' /\ JobKnows' /\ LabelsAgree' /\ LabelsTellOneComment'
  BY <1>4, <1>5 DEF PodKnows, JobKnows, LabelsAgree, LabelsTellOneComment
<1>8. ReadIsPublished'
  <2> SUFFICES ASSUME NEW v \in ReadTriageResult(ended') \ {Unreadable}
               PROVE  /\ comments # <<>> /\ comments[Len(comments)] = v
                      /\ labels = LabelsToAdd(v)
    BY <1>4 DEF ReadIsPublished
  <2>1. PICK p \in ended' : /\ p.exitCode = 0
                            /\ v = IF p.message = "json" THEN p.verdict ELSE Unreadable
    BY DEF ReadTriageResult
  <2>2. p = [exitCode |-> 0, message |-> text, verdict |-> result]
    BY <1>1, <1>3, <2>1
  <2>3. v = result
    BY <2>1, <2>2
  <2> QED
    BY <1>2, <2>3 DEF Published
<1> QED
  BY <1>6, <1>7, <1>8

(* A pod that fails at any step, its last request done or not. *)
LEMMA FailureKeeps == TriageInv /\ PodFails => TriageInv'
<1> SUFFICES ASSUME TriageInv, PodFails PROVE TriageInv'
  OBVIOUS
<1> USE DEF TriageInv
<1>1. /\ comments' \in Seq(Verdict) /\ labels' \subseteq Label
      /\ LabelsAgree' /\ LabelsTellOneComment'
  BY RequestKeeps DEF PodFails
<1>2. /\ pc' = "none" /\ result' = NoVerdict /\ stale' = <<>>
      /\ UNCHANGED <<jobs, hit>>
      /\ job' = [state |-> IF job.failedPods < 1 THEN "active" ELSE "failed",
                 failedPods |-> job.failedPods + 1]
  BY DEF PodFails, PodEnds
<1>3. job.state = "active" /\ job.failedPods \in 0..2 /\ job.failedPods <= 1
  BY DEF PodFails, PodKnows, JobKnows, TypeOK, Job
<1>4. job.failedPods + 1 \in 0..2 /\ (job.failedPods < 1 => job.failedPods + 1 <= 1)
  BY <1>3
<1>5. /\ job' \in Job /\ job'.state # "complete"
      /\ job'.state = "active" => job'.failedPods <= 1
  BY <1>2, <1>4 DEF Job, JobState
<1>6. ended' \subseteq Terminated /\ \A p \in ended' : p.exitCode = 1
  <2>1. PICK left \in LeftByFailure : ended' = ended \cup {left}
    BY DEF PodFails
  <2>2. left.exitCode = 1 /\ left \in Terminated
    BY <2>1, FailedPodLeft DEF TypeOK
  <2>3. ended \subseteq Terminated /\ \A p \in ended : p.exitCode = 1
    BY <1>3 DEF TypeOK, JobKnows
  <2> QED
    BY <2>1, <2>2, <2>3
<1>7. TypeOK'
  BY <1>1, <1>2, <1>5, <1>6, Constants DEF TypeOK, PodStep
<1>8. PodKnows' /\ JobKnows' /\ ReadIsPublished'
  BY <1>2, <1>5, <1>6 DEF PodKnows, JobKnows, ReadIsPublished
<1> QED
  BY <1>1, <1>7, <1>8

(* A Job launched again starts without pods. *)
LEMMA RelaunchKeeps == TriageInv /\ Relaunch => TriageInv'
<1> SUFFICES ASSUME TriageInv, Relaunch PROVE TriageInv'
  OBVIOUS
<1> USE DEF TriageInv
<1>1. /\ job' = NewJob /\ ended' = {} /\ jobs' = jobs + 1 /\ jobs < MaxJobs
      /\ UNCHANGED <<comments, labels, hit, pc, result, stale>>
  BY DEF Relaunch, githubVars, podVars
<1>2. pc = "none"
  BY DEF Relaunch, PodKnows
<1>3. jobs' \in 1..MaxJobs
  <2>1. jobs \in 1..MaxJobs
    BY DEF TypeOK
  <2> QED
    BY <1>1, <2>1, MaxJobsAssumption
<1>4. TypeOK'
  BY <1>1, <1>3, Constants DEF TypeOK
<1>5. PodKnows' /\ LabelsAgree' /\ LabelsTellOneComment'
  BY <1>1, <1>2 DEF PodKnows, LabelsAgree, LabelsTellOneComment
<1>6. JobKnows' /\ ReadIsPublished'
  BY <1>1, Constants DEF JobKnows, ReadIsPublished
<1> QED
  BY <1>4, <1>5, <1>6

(* The invariant of the worker, at every step. *)
THEOREM TriageInvariant == Spec => []TriageInv
<1>1. TriageInv /\ UNCHANGED vars => TriageInv'
  <2> SUFFICES ASSUME TriageInv, UNCHANGED vars PROVE TriageInv'
    OBVIOUS
  <2>1. UNCHANGED <<comments, labels, job, jobs, ended, hit, pc, result, stale>>
    BY DEF vars, githubVars, jobVars, podVars
  <2> QED
    BY <2>1 DEF TriageInv, TypeOK, PodKnows, Published, JobKnows, LabelsAgree,
                ReadIsPublished, LabelsTellOneComment, OtherSuspicious, OtherScope,
                OtherAgent, Three, Two, One
<1>2. TriageInv /\ [Next]_vars => TriageInv'
  BY <1>1, PodStepKeeps, SuccessKeeps, FailureKeeps, RelaunchKeeps DEF Next
<1> QED
  BY <1>2, TriageInit, PTL DEF Spec

(* The worker is well typed. *)
THEOREM TriageTypeCorrect == Spec => []TypeOK
<1>1. TriageInv => TypeOK
  BY DEF TriageInv
<1> QED
  BY <1>1, TriageInvariant, PTL

(* The issue's labels never contradict each other, over any number of Jobs *)
(* and pods with any verdicts, failing anywhere.                           *)
THEOREM LabelsAgreeHolds == Spec => []LabelsAgree
<1>1. TriageInv => LabelsAgree
  BY DEF TriageInv
<1> QED
  BY <1>1, TriageInvariant, PTL

(* What the controller reads is what the issue shows. *)
THEOREM ReadIsPublishedHolds == Spec => []ReadIsPublished
<1>1. TriageInv => ReadIsPublished
  BY DEF TriageInv
<1> QED
  BY <1>1, TriageInvariant, PTL

(* The labels of the issue all come from one verdict, told by a comment. *)
THEOREM LabelsTellOneCommentHolds == Spec => []LabelsTellOneComment
<1>1. TriageInv => LabelsTellOneComment
  BY DEF TriageInv
<1> QED
  BY <1>1, TriageInvariant, PTL
=============================================================================
