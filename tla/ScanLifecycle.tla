------------------------------ MODULE ScanLifecycle ------------------------------
(***************************************************************************)
(* What the dashboard promises of its scans (the status column of the      *)
(* scans table): one scan at a time leaves the queue, a cancellation is    *)
(* never taken back, a status that ends a scan is final, and a scan that   *)
(* was accepted ends.                                                      *)
(***************************************************************************)
CONSTANT Scans

VARIABLE status

Unfinished == {"QUEUED", "RUNNING", "CANCEL_REQUESTED"}
Ended == {"COMPLETED", "FAILED", "CANCELLED", "INTERRUPTED"}
Status == {"none"} \cup Unfinished \cup Ended

Running(s) == status[s] \in {"RUNNING", "CANCEL_REQUESTED"}

(* The table may hold scans of earlier days, one of them cut off.           *)
LifecycleInit ==
    /\ status \in [Scans -> Status]
    /\ \A s, t \in Scans : Running(s) /\ Running(t) => s = t

Accept(s) ==
    /\ status[s] = "none"
    /\ status' = [status EXCEPT ![s] = "QUEUED"]

Run(s) ==
    /\ status[s] = "QUEUED"
    /\ \A t \in Scans : ~Running(t)
    /\ status' = [status EXCEPT ![s] = "RUNNING"]

RequestCancel(s) ==
    /\ status[s] = "RUNNING"
    /\ status' = [status EXCEPT ![s] = "CANCEL_REQUESTED"]

(* Only a scan that ran can complete.                                       *)
Conclude(s) ==
    /\ status[s] \in Unfinished
    /\ \E e \in Ended :
           /\ e = "COMPLETED" => Running(s)
           /\ status' = [status EXCEPT ![s] = e]

(* Scans end together when the process that held them stops.                *)
Interrupt(group) ==
    /\ \A s \in group : status[s] \in Unfinished
    /\ status' = [s \in Scans |-> IF s \in group THEN "INTERRUPTED" ELSE status[s]]

LifecycleNext ==
    \/ \E s \in Scans : Accept(s) \/ Run(s) \/ RequestCancel(s) \/ Conclude(s)
    \/ \E group \in SUBSET Scans : Interrupt(group)

LifecycleSafety == LifecycleInit /\ [][LifecycleNext]_status

LifecycleSpec ==
    /\ LifecycleSafety
    /\ \A s \in Scans :
           WF_status(Conclude(s) \/ \E group \in SUBSET Scans : s \in group /\ Interrupt(group))

=============================================================================
