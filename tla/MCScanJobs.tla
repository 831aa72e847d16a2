------------------------------- MODULE MCScanJobs -------------------------------
(***************************************************************************)
(* ScanJobs for model checking: two scans, one of them mutating, from      *)
(* three situations. The counters of stops and incidents start where they  *)
(* leave what each situation is about.                                     *)
(***************************************************************************)
EXTENDS ScanJobs

CONSTANTS s1, s2

MCScans == {s1, s2}
MCMutating == {s1}

(* Two scans, and nothing fails.                                            *)
TwoScans ==
    /\ EmptyDatabase
    /\ FreshMemory
    /\ NoWorkers
    /\ dashboard = "up"
    /\ stops = MaxStops
    /\ incidents = MaxIncidents

(* The mutating scan alone (the other was cancelled before), with all that  *)
(* can happen to it.                                                        *)
OneScan ==
    /\ status = [s \in Scans |-> IF s = s1 THEN "none" ELSE "CANCELLED"]
    /\ ingested = [s \in Scans |-> "none"]
    /\ approval = [s \in Scans |-> IF s = s1 THEN "APPROVED" ELSE "none"]
    /\ recovery = [s \in Scans |-> "none"]
    /\ lease = [s \in Scans |-> "none"]
    /\ resource = [s \in Scans |-> "none"]
    /\ fleet = [quarantined |-> FALSE, crashes |-> 0]
    /\ FreshMemory
    /\ NoWorkers
    /\ dashboard = "up"
    /\ stops = 0
    /\ incidents = 0

(* The dashboard has crashed while the first scan's worker was at any of    *)
(* its stages, and that worker has not noticed yet.                         *)
Orphaned ==
    /\ status = [s \in Scans |-> IF s = s1 THEN "RUNNING" ELSE "none"]
    /\ ingested = [s \in Scans |-> "none"]
    /\ approval = [s \in Scans |-> IF s = s1 THEN "EXECUTING" ELSE "none"]
    /\ recovery = [s \in Scans |-> "none"]
    /\ lease = [s \in Scans |-> IF s = s1 THEN "held" ELSE "none"]
    /\ resource = [s \in Scans |-> IF s = s1 THEN "LIVE" ELSE "none"]
    /\ fleet = [quarantined |-> FALSE, crashes |-> 0]
    /\ FreshMemory
    /\ \E p \in {"bootstrap", "loading", "ready", "accepted", "running"} :
           process = [s \in Scans |-> IF s = s1 THEN p ELSE "none"]
    /\ signal = [s \in Scans |-> "none"]
    /\ report = [s \in Scans |-> FALSE]
    /\ toWorker = [s \in Scans |-> <<>>]
    /\ dashboard = "down"
    /\ stops = MaxStops
    /\ incidents = MaxIncidents - 1

MCInit == TwoScans \/ OneScan \/ Orphaned

MCSpec == MCInit /\ [][Next]_vars

MCLiveSpec == MCSpec /\ Fairness

=============================================================================
