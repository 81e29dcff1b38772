----------------------------- MODULE MCWorkflow -----------------------------
(* Small instances of the delivery workflow for TLC. *)
EXTENDS Workflow

\* The stage a coordinator reviews: the one before the last gate.
MCRequired == {"push_preparation"}
=============================================================================
