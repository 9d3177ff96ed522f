------------------------------ MODULE MCEdmmHook ------------------------------
(* Model-checking instance of EdmmHook: see the .cfg files for the bounds.   *)
EXTENDS EdmmHook
==============================================================================
