----------------------------- MODULE TwoManagers -----------------------------
(***************************************************************************)
(* Two managers side by side.  The chart runs one replica without leader   *)
(* election, and a rolling update of its Deployment starts the new manager *)
(* before it stops the old one: for a while both reconcile the resource,   *)
(* each with a pass and with informer caches of its own, over the same API *)
(* server.                                                                 *)
(*                                                                         *)
(* The first manager is Operator; the second is another instance of it     *)
(* that shares all variables but the pass and the caches.  Nothing says    *)
(* when the update happens: a manager that has not started yet, or has     *)
(* been stopped, is one that takes no step.                                *)
(***************************************************************************)
EXTENDS Operator

VARIABLES
    seenCR2, seenTriageJob2, seenFixJob2,   \* the second manager's caches
    pc2, orig2, new2                        \* its pass

cacheVars2 == <<seenCR2, seenTriageJob2, seenFixJob2>>
passVars2  == <<pc2, orig2, new2>>
allVars    == <<vars, cacheVars2, passVars2>>

Second == INSTANCE Operator WITH
              seenCR <- seenCR2, seenTriageJob <- seenTriageJob2,
              seenFixJob <- seenFixJob2,
              pc <- pc2, orig <- orig2, new <- new2

BothInit == Init /\ Second!Init

(***************************************************************************)
(* A step that is not the manager's own leaves its pass alone, and its     *)
(* caches too unless they follow the server at once.                       *)
(***************************************************************************)
FirstLooksOn  == UNCHANGED passVars  /\ CacheCR /\ CacheJobs
SecondLooksOn == UNCHANGED passVars2 /\ Second!CacheCR /\ Second!CacheJobs

FirstActs ==
    /\ PassProgress \/ ReturnError \/ Crash \/ SyncCR \/ SyncJobs
    /\ SecondLooksOn

SecondActs ==
    /\ \/ Second!PassProgress \/ Second!ReturnError \/ Second!Crash
       \/ Second!SyncCR \/ Second!SyncJobs
    /\ FirstLooksOn

WorldActs ==
    /\ \/ SetApproved \/ SetMaxFixAttempts \/ TriagePodEnds
       \/ \E k \in Attempts : FixPodEnds(k)
    /\ SecondLooksOn

(***************************************************************************)
(* A finished Job lives for an hour, through which neither manager sleeps  *)
(* without an outage.                                                      *)
(***************************************************************************)
JobExpires ==
    /\ \/ TriageJobExpires /\ Second!AnHourLater(TriageJobHandled)
       \/ \E k \in Attempts :
              FixJobExpires(k) /\ Second!AnHourLater(FixJobHandled(k))
    /\ SecondLooksOn

BothNext == FirstActs \/ SecondActs \/ WorldActs \/ JobExpires

BothSpec == BothInit /\ [][BothNext]_allVars
=============================================================================
