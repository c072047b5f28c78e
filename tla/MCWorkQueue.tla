----------------------------- MODULE MCWorkQueue -----------------------------
(***************************************************************************)
(* WorkQueue on one resource, with the verdicts of MCOperator.             *)
(***************************************************************************)
EXTENDS WorkQueue, MCOperator
=============================================================================
