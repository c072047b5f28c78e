------------------------------ MODULE Recreation ------------------------------
(***************************************************************************)
(* An IssueResolution that is deleted and created again under its name     *)
(* (docs/plans/T11-chart-runbook-job2-kind.md:171, POC.md:277).  Operator  *)
(* is the life of one resource; here there are several, one after another, *)
(* and what outlives a resource is in the next one's way: Jobs that the    *)
(* garbage collector has not removed yet (kubectl deletes in the           *)
(* background), branches on GitHub, and a pass that was under way.         *)
(*                                                                         *)
(* The reconciler finds resources and Jobs by name.  What it does not look *)
(* at is kept here: which life a resource, a Job and a pass belong to.     *)
(***************************************************************************)
EXTENDS Operator

CONSTANT MaxLives       \* bound: resources created under the name

VARIABLES
    exists,         \* the resource is there; cr is its content
    life,           \* how many resources of the name there have been
    triageOwner,    \* ownerReference (UID) of the triage Job
    fixOwner,       \* ownerReference of each fix Job
    passLife        \* metadata.uid of the copy the pass has read

lifeVars == <<exists, life, triageOwner, fixOwner, passLife>>
allVars  == <<vars, lifeVars>>

LivesInit ==
    /\ Init
    /\ exists = TRUE /\ life = 1
    /\ triageOwner = 0 /\ fixOwner = [k \in Attempts |-> 0]
    /\ passLife = 0

-----------------------------------------------------------------------------
(* The reconciler: what is not found is left alone, and a Job gets the UID *)
(* of the copy that was read (SetControllerReference), alive or not.       *)

Begin ==
    /\ exists
    /\ BeginPass
    /\ passLife' = life
    /\ UNCHANGED <<exists, life, triageOwner, fixOwner>>

LookUp ==
    /\ GetTriageJob \/ GetFixJob
    /\ UNCHANGED lifeVars

CreateTriage ==
    /\ CreateTriageJob
    /\ triageOwner' = IF triageJob.state = "absent" THEN passLife ELSE triageOwner
    /\ UNCHANGED <<exists, life, fixOwner, passLife>>

CreateFix ==
    /\ CreateFixJob
    /\ fixOwner' = [k \in Attempts |-> IF fixJob[k] # fixJob'[k] THEN passLife
                                                                 ELSE fixOwner[k]]
    /\ UNCHANGED <<exists, life, triageOwner, passLife>>

(***************************************************************************)
(* The patch names the resource and nothing else: it fails when there is   *)
(* none, and changes whichever there is.                                   *)
(***************************************************************************)
Patch ==
    /\ \/ exists /\ PatchStatus
       \/ /\ ~exists /\ pc = "patch"
          /\ PassEnds
          /\ UNCHANGED <<cr, clusterVars, cacheVars, remote, historyVars>>
    /\ UNCHANGED lifeVars

-----------------------------------------------------------------------------
(* The cluster and the people around it *)

(* kubectl delete; nothing in the operator hears of it (there is no finalizer). *)
DeleteResource ==
    /\ exists
    /\ exists' = FALSE
    /\ UNCHANGED <<vars, life, triageOwner, fixOwner, passLife>>

CreateAgain ==
    /\ ~exists /\ life < MaxLives
    /\ exists' = TRUE /\ life' = life + 1
    /\ cr' \in [spec: ResourceSpec, status: {EmptyStatus}]
    /\ everApproved' = (everApproved \/ cr'.spec.approved)
    /\ granted' = IF cr'.spec.maxFixAttempts > granted
                  THEN cr'.spec.maxFixAttempts ELSE granted
    /\ UNCHANGED <<clusterVars, seenTriageJob, seenFixJob, passVars, remote,
                   everAccepted, launched, succeeded, interruptions,
                   triageOwner, fixOwner, passLife>>
    /\ CacheCR

Orphan(owner) == ~exists \/ owner # life

CollectTriageJob ==
    /\ triageJob.state # "absent" /\ Orphan(triageOwner)
    /\ triageJob' = NoJob /\ verdict' = Unreadable
    /\ UNCHANGED <<cr, fixJob, report, seenCR, passVars, remote, historyVars,
                   lifeVars>>
    /\ CacheJobs

(* A Pod that is killed with its Job may have pushed, and proposed, by then. *)
CollectFixJob(k) ==
    /\ fixJob[k].state # "absent" /\ Orphan(fixOwner[k])
    /\ \/ UNCHANGED remote
       \/ /\ fixJob[k].state = "active" /\ remote[k] # "pr"
          /\ \E left \in {"branch", "pr"} : remote' = [remote EXCEPT ![k] = left]
    /\ fixJob' = [fixJob EXCEPT ![k] = NoJob]
    /\ report' = [report EXCEPT ![k] = NoPR]
    /\ UNCHANGED <<cr, triageJob, verdict, seenCR, passVars, historyVars, lifeVars>>
    /\ CacheJobs

PodsGoOn ==
    /\ TriagePodEnds \/ \E k \in Attempts : FixPodEnds(k)
    /\ UNCHANGED lifeVars

Approve == exists /\ SetApproved /\ UNCHANGED lifeVars

JobExpires ==
    /\ \/ TriageJobExpires /\ ~Orphan(triageOwner)
       \/ \E k \in Attempts : FixJobExpires(k) /\ ~Orphan(fixOwner[k])
    /\ UNCHANGED lifeVars

LivesNext ==
    \/ Begin \/ LookUp \/ CreateTriage \/ CreateFix \/ Patch
    \/ DeleteResource \/ CreateAgain
    \/ CollectTriageJob \/ \E k \in Attempts : CollectFixJob(k)
    \/ PodsGoOn \/ Approve \/ JobExpires

LivesSpec == LivesInit /\ [][LivesNext]_allVars
-----------------------------------------------------------------------------
(***************************************************************************)
(* A reconcile reads "status.phase + owned Jobs (OwnerReference)"          *)
(* (docs/operator-architecture.md:142): a resource leaves Triage only on   *)
(* the word of a triage Job that it owns, not of one that an earlier       *)
(* resource of its name has left behind.                                   *)
(***************************************************************************)
TriagedByOwnJob ==
    [][(life' = life /\ phase \in {"", "Triage"} /\ phase' \notin {"", "Triage"})
           => triageOwner = life]_allVars
=============================================================================
