------------------------------ MODULE MCFleetJobs ------------------------------
(***************************************************************************)
(* Instances of FleetJobs for TLC.                                         *)
(***************************************************************************)
EXTENDS FleetJobs, TLC

CONSTANTS w1, w2, j1

(* Workers play the same role everywhere.                                   *)
WorkerSymmetry == Permutations(Workers)
===============================================================================
