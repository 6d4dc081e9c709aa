------------------------------ MODULE MCTokens ------------------------------
(* Small instances of Tokens for TLC: one account, two callers and two      *)
(* workers.  They are not symmetric, since Spawn chooses the first that is   *)
(* free and liveness is checked; the values are in the configurations.       *)
EXTENDS Tokens
=============================================================================
