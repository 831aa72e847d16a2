--------------------------- MODULE MCLeaderElection ---------------------------
(***************************************************************************)
(* Instances of LeaderElection for TLC.                                    *)
(***************************************************************************)
EXTENDS LeaderElection, TLC

CONSTANTS p1, p2, i1

(* Every replica with an instance id of its own, as in the Helm chart.      *)
OwnIds == [p \in Procs |-> p]

(* Replicas in containers of their own without ROUTECAIRN_INSTANCE_ID: both *)
(* are process 1, so both are routecairn-1.                                 *)
SharedId == [p \in Procs |-> i1]

ProcSymmetry == Permutations(Procs)
===============================================================================
