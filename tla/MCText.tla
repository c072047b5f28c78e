-------------------------------- MODULE MCText --------------------------------
(***************************************************************************)
(* The two algorithms on text, side by side but never in one behaviour:    *)
(* either the triage worker sanitizes an issue or the fix worker applies   *)
(* an answer.                                                              *)
(***************************************************************************)
EXTENDS Redaction, EditScript

MCInit == (RedactionInit /\ NoAnswer) \/ (NoText /\ EditInit)

MCNext == \/ RedactionNext /\ UNCHANGED editVars
          \/ EditNext /\ UNCHANGED redactionVars

MCSpec == MCInit /\ [][MCNext]_<<redactionVars, editVars>>

MCChar == {"x", "nl"}
=============================================================================
