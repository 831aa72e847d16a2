--------------------------- MODULE MCCleanupAttempts ---------------------------
(***************************************************************************)
(* Instances of CleanupAttempts for TLC.                                   *)
(***************************************************************************)
EXTENDS CleanupAttempts

CONSTANTS a1, a2, k1

(* Two attempts of one case, one after the other: an approval of a scan     *)
(* that was interrupted, and one that no scan used.                         *)
SameCase == [a \in {a1, a2} |-> k1]
===============================================================================
