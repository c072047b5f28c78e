------------------------------ MODULE MCOperator ------------------------------
(***************************************************************************)
(* Operator on one resource with at most two attempts.  The verdicts are   *)
(* the four the reconciler tells apart: acceptable, out of scope, hostile  *)
(* although in scope, and not parsed.                                      *)
(***************************************************************************)
EXTENDS Operator

MCTriageResults ==
    {[inScope |-> TRUE,  suspicious |-> FALSE, parseError |-> FALSE],
     [inScope |-> FALSE, suspicious |-> FALSE, parseError |-> FALSE],
     [inScope |-> TRUE,  suspicious |-> TRUE,  parseError |-> FALSE],
     [inScope |-> FALSE, suspicious |-> FALSE, parseError |-> TRUE]}
=============================================================================
