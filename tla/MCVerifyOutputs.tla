-------------------------- MODULE MCVerifyOutputs --------------------------
(* An instance of VerifyOutputs: a payee's script and one of our own.       *)
EXTENDS VerifyOutputs, TLC

CONSTANTS payee, ours
============================================================================
