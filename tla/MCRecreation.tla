----------------------------- MODULE MCRecreation -----------------------------
(***************************************************************************)
(* Recreation with the verdicts of MCOperator.                             *)
(***************************************************************************)
EXTENDS Recreation, MCOperator
=============================================================================
