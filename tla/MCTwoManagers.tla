---------------------------- MODULE MCTwoManagers ----------------------------
(***************************************************************************)
(* TwoManagers with the two verdicts that part at the human gate.          *)
(***************************************************************************)
EXTENDS TwoManagers

MCTriageResults ==
    {[inScope |-> TRUE,  suspicious |-> FALSE, parseError |-> FALSE],
     [inScope |-> TRUE,  suspicious |-> TRUE,  parseError |-> FALSE]}
=============================================================================
