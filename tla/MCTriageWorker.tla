---------------------------- MODULE MCTriageWorker ----------------------------
(***************************************************************************)
(* TriageWorker over two Jobs, with a model that says anything, its JSON   *)
(* once having the parseError field of triageResult too.                   *)
(***************************************************************************)
EXTENDS TriageWorker

MCModelVerdicts ==
    {v \in Verdict : v.parseError => v.inScope /\ ~v.suspicious}
=============================================================================
