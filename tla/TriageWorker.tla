----------------------------- MODULE TriageWorker -----------------------------
(***************************************************************************)
(* Job 1 from the inside: the pods of one issue's triage Job, one after    *)
(* the other, the GitHub issue they comment on and label, and what the     *)
(* controller reads of them once the Job is complete.                      *)
(*                                                                         *)
(* A pod may fail at every step, and a request that failed for the pod may *)
(* have taken effect on GitHub.  Pods of one Job do not overlap: the two   *)
(* timeouts of a pod (120 s and 60 s) end it before a replacement is due.  *)
(* A verdict (Reconcile!Verdict) stands for a triageResult; the summary    *)
(* matters only in that it may make the termination message too long.      *)
(***************************************************************************)
EXTENDS Reconcile, Sequences

CONSTANTS
    ModelVerdicts,  \* what the JSON of the model may say
    MaxJobs         \* bound: triage Jobs launched for the issue

ASSUME ModelVerdictsAssumption == ModelVerdicts \subseteq Verdict
ASSUME MaxJobsAssumption == MaxJobs \in Nat \ {0}

VARIABLES
    (* GitHub *)
    comments,   \* the verdicts the issue's triage comments tell, oldest first
    labels,     \* the labels of the issue
    (* the Job *)
    job,        \* its Job record
    jobs,       \* Jobs launched so far
    ended,      \* its terminated pods
    (* the running pod *)
    hit,        \* scanSuspicious finds something in the title or body
    pc,
    result,     \* the verdict the pod has reached
    stale       \* labels it has still to remove

githubVars == <<comments, labels>>
jobVars    == <<job, jobs, ended>>
podVars    == <<pc, result, stale>>
vars == <<githubVars, jobVars, hit, podVars>>

PodStep == {"none", "scan", "gemini", "comment", "remove", "ensure", "add", "message"}

Label == {"triage:executed", "suspicious:true", "suspicious:false",
          "in-scope:true", "in-scope:false",
          "agent:pending-validation", "agent:rejected"}

(***************************************************************************)
(* A terminated container: its exit code, 1 for any failure, and what the  *)
(* kubelet kept of its termination log: nothing, the JSON of a verdict, or *)
(* (over 4096 bytes) its beginning, which is no JSON.                      *)
(***************************************************************************)
Terminated == [exitCode: {0, 1}, message: {"", "json", "cut"}, verdict: Verdict]

TypeOK ==
    /\ comments \in Seq(Verdict)
    /\ labels \subseteq Label
    /\ job \in Job
    /\ jobs \in 1..MaxJobs
    /\ ended \subseteq Terminated
    /\ hit \in BOOLEAN
    /\ pc \in PodStep
    /\ result \in Verdict
    /\ stale \in Seq(Label)

NoVerdict == [inScope |-> FALSE, suspicious |-> FALSE, parseError |-> FALSE]
Hostile   == [inScope |-> FALSE, suspicious |-> TRUE,  parseError |-> FALSE]

-----------------------------------------------------------------------------
(***************************************************************************)
(* triageLabelPlan: the labels to add, and those to remove, in order.      *)
(***************************************************************************)
LabelsToAdd_IgnoresScope(v) ==      \* mutant: anything harmless is cleared
    {"triage:executed",
     IF v.suspicious THEN "suspicious:true" ELSE "suspicious:false",
     IF v.inScope THEN "in-scope:true" ELSE "in-scope:false",
     IF ~v.suspicious THEN "agent:pending-validation" ELSE "agent:rejected"}

LabelsToAdd_Misspelt(v) ==          \* mutant: the spelling of the docs
    {"triage:executed",
     IF v.suspicious THEN "suspicious:true" ELSE "suspicious:false",
     IF v.inScope THEN "in-scope:true" ELSE "in-scope:false",
     IF v.inScope /\ ~v.suspicious THEN "agent: pending-validation"
                                   ELSE "agent:rejected"}

LabelsToAdd(v) ==
    {"triage:executed",
     IF v.suspicious THEN "suspicious:true" ELSE "suspicious:false",
     IF v.inScope THEN "in-scope:true" ELSE "in-scope:false",
     IF v.inScope /\ ~v.suspicious THEN "agent:pending-validation"
                                   ELSE "agent:rejected"}

LabelsToRemove_OnlyVerdict(v) ==    \* mutant: the agent label is not exchanged
    <<IF v.suspicious THEN "suspicious:false" ELSE "suspicious:true",
      IF v.inScope THEN "in-scope:false" ELSE "in-scope:true">>

LabelsToRemove(v) ==
    <<IF v.suspicious THEN "suspicious:false" ELSE "suspicious:true",
      IF v.inScope THEN "in-scope:false" ELSE "in-scope:true",
      IF v.inScope /\ ~v.suspicious THEN "agent:rejected"
                                    ELSE "agent:pending-validation">>

(***************************************************************************)
(* readTriageResult: the pods are listed in no particular order, and the   *)
(* first container that exited 0 with a message decides.                   *)
(***************************************************************************)
ReadTriageResult_AnyExit(pods) ==   \* mutant: the exit code is not looked at
    {IF p.message = "json" THEN p.verdict ELSE Unreadable :
        p \in {q \in pods : q.message # ""}}

ReadTriageResult(pods) ==
    {IF p.message = "json" THEN p.verdict ELSE Unreadable :
        p \in {q \in pods : q.exitCode = 0 /\ q.message # ""}}

-----------------------------------------------------------------------------
Init ==
    /\ comments = <<>> /\ labels = {}
    /\ job = NewJob /\ jobs = 1 /\ ended = {}
    /\ hit \in BOOLEAN
    /\ pc = "none" /\ result = NoVerdict /\ stale = <<>>

StartPod ==
    /\ job.state = "active" /\ pc = "none"
    /\ pc' = "scan"
    /\ UNCHANGED <<githubVars, jobVars, hit, result, stale>>

(***************************************************************************)
(* A hit of the prefilter is the verdict, and the model is not asked.      *)
(***************************************************************************)
Prefilter ==
    /\ pc = "scan"
    /\ \/ hit  /\ result' = Hostile /\ pc' = "comment"
       \/ ~hit /\ pc' = "gemini" /\ UNCHANGED result
    /\ UNCHANGED <<githubVars, jobVars, hit, stale>>

CallGemini ==
    /\ pc = "gemini"
    /\ \E v \in ModelVerdicts \cup {Unreadable} : result' = v
    /\ pc' = "comment"
    /\ UNCHANGED <<githubVars, jobVars, hit, stale>>

(* What the request of the current step does to the issue. *)
Request ==
    CASE pc = "comment" -> comments' = Append(comments, result) /\ UNCHANGED labels
      [] pc = "remove"  -> labels' = labels \ {Head(stale)} /\ UNCHANGED comments
      [] pc = "add"     -> labels' = labels \cup LabelsToAdd(result) /\ UNCHANGED comments
      [] OTHER          -> UNCHANGED githubVars

PostComment_ErrorIgnored ==     \* mutant: an error is only logged, labels follow
    /\ pc = "comment" /\ (Request \/ UNCHANGED githubVars)
    /\ pc' = "remove" /\ stale' = LabelsToRemove(result)
    /\ UNCHANGED <<jobVars, hit, result>>

PostComment ==
    /\ pc = "comment" /\ Request
    /\ pc' = "remove" /\ stale' = LabelsToRemove(result)
    /\ UNCHANGED <<jobVars, hit, result>>

(* A label the issue does not have is a 404, which is ignored. *)
RemoveLabel ==
    /\ pc = "remove" /\ Request
    /\ stale' = Tail(stale)
    /\ pc' = IF Tail(stale) = <<>> THEN "ensure" ELSE "remove"
    /\ UNCHANGED <<jobVars, hit, result>>

(* ensureLabel creates the label in the repository; 422 means it is there. *)
EnsureLabels ==
    /\ pc = "ensure"
    /\ pc' = "add"
    /\ UNCHANGED <<githubVars, jobVars, hit, result, stale>>

AddLabels ==
    /\ pc = "add" /\ Request
    /\ pc' = "message"
    /\ UNCHANGED <<jobVars, hit, result, stale>>

PodEnds == pc' = "none" /\ result' = NoVerdict /\ stale' = <<>>

(***************************************************************************)
(* The pod exits 0, and the Job is complete.                               *)
(***************************************************************************)
WriteTermination ==
    /\ pc = "message"
    /\ \E text \in {"json", "cut"} :
          ended' = ended \cup {[exitCode |-> 0, message |-> text, verdict |-> result]}
    /\ job' = [job EXCEPT !.state = "complete"]
    /\ PodEnds
    /\ UNCHANGED <<githubVars, jobs, hit>>

(***************************************************************************)
(* main writes a message of its own over the one of finishTriage, exits 1, *)
(* and the Job starts another pod or fails.  A pod that is killed, or      *)
(* cannot write, leaves less.                                              *)
(***************************************************************************)
LeftByFailure ==
    [exitCode: {1}, message: {"json"}, verdict: {NoVerdict, result}]
        \cup {[exitCode |-> 1, message |-> "", verdict |-> NoVerdict]}

PodFails ==
    /\ pc # "none"
    /\ Request \/ UNCHANGED githubVars
    /\ \E left \in LeftByFailure : ended' = ended \cup {left}
    /\ job' = [state |-> IF job.failedPods < 1 THEN "active" ELSE "failed",
               failedPods |-> job.failedPods + 1]
    /\ PodEnds
    /\ UNCHANGED <<jobs, hit>>

(***************************************************************************)
(* The operator launches a triage Job of the same name again, after the    *)
(* TTL of one it has not looked at (Operator, "outage").                   *)
(***************************************************************************)
Relaunch ==
    /\ job.state # "active" /\ jobs < MaxJobs
    /\ job' = NewJob /\ jobs' = jobs + 1 /\ ended' = {}
    /\ UNCHANGED <<githubVars, hit, podVars>>

Next ==
    \/ StartPod \/ Prefilter \/ CallGemini
    \/ PostComment \/ RemoveLabel \/ EnsureLabels \/ AddLabels
    \/ WriteTermination \/ PodFails
    \/ Relaunch

Spec == Init /\ [][Next]_vars
-----------------------------------------------------------------------------
(***************************************************************************)
(* The labels of the issue never say two things at once, however many pods *)
(* with different verdicts have labelled it and wherever they failed       *)
(* (syncTriageLabels removes before it adds).                              *)
(***************************************************************************)
LabelsAgree ==
    /\ ~({"suspicious:true", "suspicious:false"} \subseteq labels)
    /\ ~({"in-scope:true", "in-scope:false"} \subseteq labels)
    /\ ~({"agent:pending-validation", "agent:rejected"} \subseteq labels)

(***************************************************************************)
(* What the controller reads from a complete Job is what the issue shows:  *)
(* the verdict of its last comment, and exactly the labels of that verdict.*)
(***************************************************************************)
ReadIsPublished ==
    job.state = "complete" =>
        \A v \in ReadTriageResult(ended) \ {Unreadable} :
            /\ comments # <<>> /\ comments[Len(comments)] = v
            /\ labels = LabelsToAdd(v)

(***************************************************************************)
(* Whatever labels are on the issue, half exchanged or not, somebody can   *)
(* read why: they all come from one verdict, and a comment tells it.  No   *)
(* mixture of two verdicts is ever on the issue, however many pods with    *)
(* different ones have failed on it.                                       *)
(***************************************************************************)
LabelsTellOneComment ==
    labels # {} => \E i \in 1..Len(comments) : labels \subseteq LabelsToAdd(comments[i])
=============================================================================
