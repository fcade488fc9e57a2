---------------------------- MODULE MCRepeatedRuns ----------------------------
(* RepeatedRuns on two events of different age. *)
EXTENDS RepeatedRuns, TLC

CONSTANTS d, e

MCEvents == {d, e}
MCTsOf == (d :> 0 @@ e :> 1)
===============================================================================
