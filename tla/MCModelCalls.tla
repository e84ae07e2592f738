---------------------------- MODULE MCModelCalls ----------------------------
(* Small instances of ModelCalls: the configurations MCCalls_*.cfg.        *)
EXTENDS ModelCalls
=============================================================================
