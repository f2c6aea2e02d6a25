------------------------------ MODULE MCFailover ------------------------------
(***************************************************************************)
(* Two callers on a chain of three models, for model checking.             *)
(***************************************************************************)
EXTENDS Failover

CONSTANTS primary, fallback, lastResort

ThreeModels == <<primary, fallback, lastResort>>
===============================================================================
