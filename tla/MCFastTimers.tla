---------------------------- MODULE MCFastTimers ----------------------------
(* Instances of FastTimers for TLC.                                           *)
EXTENDS FastTimers, TLC

Periods == 0 :> 2 @@ 1 :> 4 @@ 2 :> 8
===============================================================================
