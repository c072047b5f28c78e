------------------------------ MODULE WorkQueue ------------------------------
(***************************************************************************)
(* Operator with the work queue of controller-runtime, which decides       *)
(* whether there is a next pass.  Reconcile's own result brings one: a     *)
(* RequeueAfter or an error.  A watch event brings one too, but none is    *)
(* owed here: passes begun by events come or stay away, so that what goes  *)
(* on does so because of the requeues alone.                               *)
(***************************************************************************)
EXTENDS Operator

VARIABLES
    queued,     \* the last pass has asked for another one, which is still to come
    givenUp     \* reconcileFix has returned an empty result for a missing Job

queueVars == <<vars, queued, givenUp>>

QueueInit == Init /\ queued = TRUE /\ givenUp = FALSE

-----------------------------------------------------------------------------
(***************************************************************************)
(* The RequeueAfter of a pass that returns no error, by the phase it       *)
(* leaves: none in a phase where the reconciler stops, 5 s for a Job, 30 s *)
(* for an approval, 1 s in between.                                        *)
(***************************************************************************)
Requeue_NotWhenReady(st) ==         \* mutant: a launch that waits for an event
    st.phase \notin StoppedPhases \cup {"Ready"}

Requeue_NotWhileExecuting(st) ==    \* mutant: a Job that is not polled
    st.phase \notin StoppedPhases \cup {"Executing"}

Requeue(st) == st.phase \notin StoppedPhases

QueuedPass ==
    /\ BeginPass
    /\ queued' = FALSE /\ givenUp' = FALSE

LooksUp ==
    /\ GetTriageJob \/ GetFixJob
    /\ givenUp' = (/\ pc = "getFixJob" /\ ~MayCreateFixJob(new)
                   /\ seenFixJob[CurrentAttempt(new)].state = "absent")
    /\ UNCHANGED queued

(* A Create that is refused is an error, and errors are requeued. *)
Creates ==
    /\ CreateTriageJob \/ CreateFixJob
    /\ queued' = (queued \/ pc' = "idle")
    /\ UNCHANGED givenUp

Patches ==
    /\ PatchStatus
    /\ queued' = (queued \/ (Requeue(new) /\ ~givenUp))
    /\ UNCHANGED givenUp

(* A manager that starts finds every resource new, and queues it. *)
Fails ==
    /\ ReturnError \/ Crash
    /\ queued' = TRUE
    /\ UNCHANGED givenUp

Others ==
    /\ \/ SyncCR \/ SyncJobs
       \/ SetApproved \/ SetMaxFixAttempts
       \/ TriagePodEnds \/ TriageJobExpires
       \/ \E k \in Attempts : FixPodEnds(k) \/ FixJobExpires(k)
    /\ UNCHANGED <<queued, givenUp>>

QueueNext == QueuedPass \/ LooksUp \/ Creates \/ Patches \/ Fails \/ Others

(***************************************************************************)
(* Fairness.  A pass begins when one has been asked for, and comes to its  *)
(* end; the rest is that of Operator.                                      *)
(***************************************************************************)
QueueFairness ==
    /\ WF_vars(\/ queued /\ BeginPass
               \/ GetTriageJob \/ CreateTriageJob \/ GetFixJob \/ CreateFixJob
               \/ PatchStatus)
    /\ WF_vars(SyncCR) /\ WF_vars(SyncJobs)
    /\ WF_vars(TriagePodEnds)
    /\ \A k \in Attempts : WF_vars(FixPodEnds(k))

QueueSpec == QueueInit /\ [][QueueNext]_queueVars /\ QueueFairness
=============================================================================
