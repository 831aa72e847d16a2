-------------------------------- MODULE ScanJobs --------------------------------
(***************************************************************************)
(* The scans of a dashboard: the queue and the run of ScanExecutionService *)
(* (dashboard/execution), the worker manager and its governance            *)
(* (dashboard/worker), the worker process of each scan, the approvals that *)
(* mutating scans and recoveries consume, and the reconciliation of what   *)
(* an earlier dashboard left behind.                                       *)
(*                                                                         *)
(* The dashboard is one event loop: what happens between two awaits is one *)
(* step. Its workers are processes of their own, joined to it by ordered   *)
(* channels; they outlive it until they notice. The rows of the database   *)
(* survive it.                                                             *)
(***************************************************************************)
EXTENDS Naturals, Sequences, FiniteSets

CONSTANTS
    Scans,         \* the scans that may be requested, once each
    Mutating,      \* those that carry mutation contracts, hence an approval
    NoScan,        \* no scan
    CrashLimit,    \* policy.crashLoopLimit
    MaxStops,      \* stops and crashes of the dashboard (bound)
    MaxIncidents   \* failures around the workers and interventions (bound)

ASSUME ScanJobsAssumption ==
    /\ Mutating \subseteq Scans
    /\ NoScan \notin Scans
    /\ CrashLimit \in Nat \ {0}
    /\ MaxStops \in Nat
    /\ MaxIncidents \in Nat

VARIABLES
    (* Rows of the database.                                                *)
    status,        \* status[s]: scans.status, "none" before the row exists
    ingested,      \* ingested[s]: "report" artifact, "unavailable" or "none"
    approval,      \* approval[s]: status of the approval s consumes, or "none"
    recovery,      \* recovery[s]: the one recovery that approval may authorize
    lease,         \* lease[s]: scan_job_leases, "none", "held" or "released"
    resource,      \* resource[s]: worker_resources; LIVE is CREATED, RUNNING, DRAINING
    fleet,         \* worker_governance_state
    (* Memory of the dashboard.                                             *)
    dashboard,     \* "up", "stopping", "closing" or "down"
    stops,         \* times it went down
    queue,         \* ScanExecutionService.queue
    active,        \* ScanExecutionService.active
    aborted,       \* active.abortController.signal.aborted
    call,          \* where run(active) awaits: "worker", "read", "record" or "none"
    result,        \* what the manager's run resolved to, or "none"
    manager,       \* manager[s]: the manager's ActiveWorker and run's locals
    failures,      \* retentionFailures is not empty
    reconciler,    \* reconcileInterruptedReports: its step, rows and the row recorded
    incidents,     \* history: failures and interventions so far
    (* The worker processes.                                                *)
    process,       \* process[s]: where s's worker is
    signal,        \* signal[s]: "none", "abort" or "shutdown"
    report,        \* report[s]: a report or a checkpoint of s is on disk
    toManager,     \* toManager[s]: messages to the dashboard
    toWorker       \* toWorker[s]: messages from the dashboard

approvalVars == <<approval, recovery>>
governanceVars == <<fleet, failures>>
serviceVars == <<queue, active, aborted, call, result>>
workerVars == <<process, signal, report>>
vars == <<status, ingested, approvalVars, lease, resource, governanceVars, dashboard, stops,
          serviceVars, manager, reconciler, incidents, workerVars, toManager, toWorker>>

-------------------------------------------------------------------------------

Unfinished == {"QUEUED", "RUNNING", "CANCEL_REQUESTED"}
Ended == {"COMPLETED", "FAILED", "CANCELLED", "INTERRUPTED"}

NotOwned == [phase |-> "none", cancel |-> FALSE, termination |-> "none"]
Forked == [NotOwned EXCEPT !.phase = "BOOTING"]
Idle == [step |-> "idle", rows |-> {}, recorded |-> NoScan]

Alive(s) == process[s] \notin {"none", "gone"}
Owned(s) == manager[s].phase # "none"

(* A worker whose result the manager still awaits.                          *)
Awaited(s) == manager[s].phase \notin {"none", "SETTLED"}

(* The bound on failures.                                                   *)
Incident ==
    /\ incidents < MaxIncidents
    /\ incidents' = incidents + 1

TypeOK ==
    /\ status \in [Scans -> {"none"} \cup Unfinished \cup Ended]
    /\ ingested \in [Scans -> {"none", "report", "unavailable"}]
    /\ approval \in [Scans -> {"none", "APPROVED", "EXECUTING", "COMPLETED",
                               "CLEANUP_REQUIRED", "CLEANUP_FAILED"}]
    /\ recovery \in [Scans -> {"none", "running", "recorded", "NOT_EXECUTED", "UNKNOWN"}]
    /\ lease \in [Scans -> {"none", "held", "released"}]
    /\ resource \in [Scans -> {"none", "LIVE", "RETAINED", "UNKNOWN_RETAINED"}]
    /\ fleet \in [quarantined : BOOLEAN, crashes : 0..CrashLimit]
    /\ dashboard \in {"up", "stopping", "closing", "down"}
    /\ stops \in 0..MaxStops
    /\ incidents \in 0..MaxIncidents
    /\ queue \in Seq(Scans)
    /\ active \in Scans \cup {NoScan}
    /\ aborted \in BOOLEAN
    /\ call \in {"none", "worker", "read", "record"}
    /\ result \in {"none"} \cup Ended
    /\ manager \in [Scans -> [phase : {"none", "BOOTING", "BOOTSTRAPPED", "INITIALIZING",
                                       "RUNNING", "SETTLED"},
                              cancel : BOOLEAN,
                              termination : {"none", "manual", "limit"}]]
    /\ failures \in BOOLEAN
    /\ reconciler \in [step : {"idle", "leases", "rows"}, rows : SUBSET Scans,
                       recorded : Scans \cup {NoScan}]
    /\ process \in [Scans -> {"none", "bootstrap", "loading", "ready", "accepted",
                              "running", "finished", "gone"}]
    /\ signal \in [Scans -> {"none", "abort", "shutdown"}]
    /\ report \in [Scans -> BOOLEAN]
    /\ toManager \in [Scans -> Seq({"WORKER_BOOTSTRAP_READY", "WORKER_READY",
                                    "JOB_ACCEPTED", "WORKER_SHUTDOWN"} \cup Ended)]
    /\ toWorker \in [Scans -> Seq({"ACTIVATE_RUNTIME", "INITIALIZE_JOB", "START_JOB",
                                   "CANCEL_JOB", "SHUTDOWN"})]

EmptyDatabase ==
    /\ status = [s \in Scans |-> "none"]
    /\ ingested = [s \in Scans |-> "none"]
    /\ approval = [s \in Scans |-> IF s \in Mutating THEN "APPROVED" ELSE "none"]
    /\ recovery = [s \in Scans |-> "none"]
    /\ lease = [s \in Scans |-> "none"]
    /\ resource = [s \in Scans |-> "none"]
    /\ fleet = [quarantined |-> FALSE, crashes |-> 0]

(* The memory of a dashboard that has just been started.                    *)
FreshMemory ==
    /\ queue = <<>>
    /\ active = NoScan
    /\ aborted = FALSE
    /\ call = "none"
    /\ result = "none"
    /\ manager = [s \in Scans |-> NotOwned]
    /\ failures = FALSE
    /\ reconciler = Idle
    /\ toManager = [s \in Scans |-> <<>>]

NoWorkers ==
    /\ process = [s \in Scans |-> "none"]
    /\ signal = [s \in Scans |-> "none"]
    /\ report = [s \in Scans |-> FALSE]
    /\ toWorker = [s \in Scans |-> <<>>]

Init ==
    /\ EmptyDatabase
    /\ FreshMemory
    /\ NoWorkers
    /\ dashboard = "up"
    /\ stops = 0
    /\ incidents = 0

-------------------------------------------------------------------------------
(* Approvals (ControlledMutationApprovalRepository).                        *)

(* An approval enters one execution: EXECUTING, bound to the scan.          *)
beginExecution(s) ==
    /\ approval[s] \in {"none", "APPROVED"}
    /\ approval' = [approval EXCEPT ![s] = IF @ = "APPROVED" THEN "EXECUTING" ELSE @]

finishExecution(s, cleanupUnresolved) ==
    approval' = [approval EXCEPT ![s] =
                    IF @ # "EXECUTING" THEN @
                    ELSE IF cleanupUnresolved THEN "CLEANUP_REQUIRED" ELSE "COMPLETED"]

(* Mutant: scans that were cancelled in the queue are forgotten.            *)
ForgetsCancelled(a, st) ==
    [s \in Scans |-> IF a[s] = "EXECUTING" /\ st[s] \in {"FAILED", "INTERRUPTED"}
                     THEN "CLEANUP_REQUIRED" ELSE a[s]]

(* Mutant: a cancellation that is under way counts as one that is over.     *)
RecoversCancelling(a, st) ==
    [s \in Scans |->
        IF a[s] = "EXECUTING" /\ st[s] \in {"FAILED", "INTERRUPTED", "CANCELLED", "CANCEL_REQUESTED"}
        THEN "CLEANUP_REQUIRED" ELSE a[s]]

recoverInterruptedExecutions(a, st) ==
    [s \in Scans |->
        IF a[s] = "EXECUTING" /\ st[s] \in {"FAILED", "INTERRUPTED", "CANCELLED"}
        THEN "CLEANUP_REQUIRED" ELSE a[s]]

(* A recovery under the approval of s, by a manager and a worker of its     *)
(* own: beginRecovery when its attempt is reserved, then runRecovery, which *)
(* refuses to start beside any resource that is not its own. The bundle it  *)
(* restores from may be one that an earlier scan of the same plan left.     *)
BeginRecovery(s) ==
    /\ dashboard = "up"
    /\ recovery[s] = "none"
    /\ approval[s] \in {"APPROVED", "CLEANUP_REQUIRED", "CLEANUP_FAILED"}
    /\ LET refused == \E t \in Scans : \/ resource[t] \in {"LIVE", "UNKNOWN_RETAINED"}
                                       \/ recovery[t] \in {"running", "UNKNOWN"}
       IN /\ recovery' = [recovery EXCEPT ![s] = IF refused THEN "NOT_EXECUTED" ELSE "running"]
          /\ approval' = [approval EXCEPT ![s] = IF refused THEN "CLEANUP_FAILED" ELSE "EXECUTING"]
    /\ UNCHANGED <<status, ingested, lease, resource, governanceVars, dashboard, stops,
                   serviceVars, manager, reconciler, workerVars, toManager, toWorker>>

(* The recovery's result is recorded with the approval's, in one            *)
(* transaction that requires the approval to be EXECUTING; when it is not,  *)
(* the transaction fails and interruptAndProject ends the attempt.          *)
EndRecovery(s) ==
    /\ dashboard # "down"
    /\ recovery[s] = "running"
    /\ \/ /\ approval[s] = "EXECUTING"
          /\ recovery' = [recovery EXCEPT ![s] = "recorded"]
          /\ \E a \in {"COMPLETED", "CLEANUP_FAILED"} : approval' = [approval EXCEPT ![s] = a]
       \/ /\ approval[s] # "EXECUTING"
          /\ recovery' = [recovery EXCEPT ![s] = "UNKNOWN"]
          /\ UNCHANGED approval
    /\ UNCHANGED <<status, ingested, lease, resource, governanceVars, dashboard, stops,
                   serviceVars, manager, reconciler, workerVars, toManager, toWorker>>

(* The recovery's worker fails: interruptAndProject, before or after the    *)
(* recovery command was given.                                              *)
RecoveryFails(s) ==
    /\ dashboard # "down"
    /\ recovery[s] = "running"
    /\ \E r \in {"UNKNOWN", "NOT_EXECUTED"} : recovery' = [recovery EXCEPT ![s] = r]
    /\ approval' = [approval EXCEPT ![s] = IF @ = "EXECUTING" THEN "CLEANUP_FAILED" ELSE @]
    /\ UNCHANGED <<status, ingested, lease, resource, governanceVars, dashboard, stops,
                   serviceVars, manager, reconciler, workerVars, toManager, toWorker>>

-------------------------------------------------------------------------------
(* Governance (WorkerGovernanceRepository) and custody.                     *)

recordCrash ==
    \E count \in {1, fleet.crashes + 1} :   \* 1: the window of earlier crashes is over
        fleet' = [quarantined |-> fleet.quarantined \/ count >= CrashLimit,
                  crashes |-> IF count > CrashLimit THEN CrashLimit ELSE count]

(* Mutant: only custody that is recorded as lost stops the dispatch.        *)
UnknownCustody ==
    \/ failures
    \/ \E s \in Scans : resource[s] = "UNKNOWN_RETAINED" \/ recovery[s] = "UNKNOWN"

(* hasUnresolvedCustody, or an attempt the ledger calls unresolved. The     *)
(* resource of a recovery belongs to another manager, hence to none of ours.*)
CustodyUnresolved ==
    \/ failures
    \/ \E s \in Scans : \/ resource[s] = "UNKNOWN_RETAINED"
                        \/ resource[s] = "LIVE" /\ ~Owned(s)
                        \/ recovery[s] \in {"running", "UNKNOWN"}

QuarantineFleet ==
    /\ dashboard = "up"
    /\ ~fleet.quarantined
    /\ fleet' = [fleet EXCEPT !.quarantined = TRUE]
    /\ UNCHANGED <<status, ingested, approvalVars, lease, resource, failures, dashboard, stops,
                   serviceVars, manager, reconciler, workerVars, toManager, toWorker>>

ReleaseFleet ==
    /\ dashboard = "up"
    /\ ~CustodyUnresolved
    /\ fleet' = [quarantined |-> FALSE, crashes |-> 0]
    /\ fleet' # fleet
    /\ UNCHANGED <<status, ingested, approvalVars, lease, resource, failures, dashboard, stops,
                   serviceVars, manager, reconciler, workerVars, toManager, toWorker>>

-------------------------------------------------------------------------------
(* The service: enqueue, pump, cancel.                                      *)

enqueue(s) ==
    /\ dashboard \in {"up", "stopping"}
    /\ status[s] = "none"
    /\ beginExecution(s)
    /\ status' = [status EXCEPT ![s] = "QUEUED"]
    /\ queue' = Append(queue, s)
    /\ UNCHANGED <<ingested, recovery, lease, resource, governanceVars, dashboard, stops,
                   active, aborted, call, result, manager, reconciler, workerVars,
                   toManager, toWorker>>

(* pump, run up to its first await and the manager's run up to its promise. *)
pump ==
    /\ dashboard = "up"
    /\ active = NoScan
    /\ queue # <<>>
    /\ queue' = Tail(queue)
    /\ LET s == Head(queue) IN
       \/ (* The plan, its credentials or the manager refuse.               *)
          /\ status' = [status EXCEPT ![s] = "FAILED"]
          /\ finishExecution(s, TRUE)
          /\ UNCHANGED <<lease, resource, active, call, manager, process, toManager>>
       \/ /\ ~CustodyUnresolved
          /\ ~fleet.quarantined
          /\ status' = [status EXCEPT ![s] = "RUNNING"]
          /\ lease' = [lease EXCEPT ![s] = "held"]
          /\ resource' = [resource EXCEPT ![s] = "LIVE"]
          /\ manager' = [manager EXCEPT ![s] = Forked]
          /\ process' = [process EXCEPT ![s] = "bootstrap"]
          /\ toManager' = [toManager EXCEPT ![s] = <<"WORKER_BOOTSTRAP_READY">>]
          /\ active' = s
          /\ call' = "worker"
          /\ UNCHANGED approval
    /\ UNCHANGED <<ingested, recovery, governanceVars, dashboard, stops, aborted, result,
                   reconciler, signal, report, toWorker>>

Connected(s) == Alive(s) /\ Owned(s)

(* The end of a process: what it had not read is lost.                      *)
Exit(s) ==
    /\ process' = [process EXCEPT ![s] = "gone"]
    /\ signal' = [signal EXCEPT ![s] = "none"]
    /\ toWorker' = [toWorker EXCEPT ![s] = <<>>]

(* child.send: nothing is sent on a closed channel.                         *)
Send(s, message) ==
    toWorker' = [toWorker EXCEPT ![s] = IF Connected(s) THEN Append(@, message) ELSE @]

(* ScanWorkerManager.cancel.                                                *)
managerCancel(s) ==
    IF Awaited(s) /\ ~manager[s].cancel
    THEN /\ manager' = [manager EXCEPT ![s].cancel = TRUE]
         /\ Send(s, "CANCEL_JOB")
    ELSE UNCHANGED <<manager, toWorker>>

(* cancel, also when a credential the scan uses loses its authority.        *)
cancel(s) ==
    /\ dashboard \in {"up", "stopping"}
    /\ \/ /\ \E i \in DOMAIN queue :
                 /\ queue[i] = s
                 /\ queue' = SubSeq(queue, 1, i - 1) \o SubSeq(queue, i + 1, Len(queue))
          /\ status' = [status EXCEPT ![s] = "CANCELLED"]
          /\ UNCHANGED <<aborted, manager, toWorker>>
       \/ /\ active = s
          /\ status[s] = "RUNNING"
          /\ status' = [status EXCEPT ![s] = "CANCEL_REQUESTED"]
          /\ aborted' = TRUE
          /\ managerCancel(s)
          /\ UNCHANGED queue
    /\ UNCHANGED <<ingested, approvalVars, lease, resource, governanceVars, dashboard, stops,
                   active, call, result, reconciler, workerVars, toManager>>

-------------------------------------------------------------------------------
(* The manager's run: it is settled once, by whichever comes first of the   *)
(* worker's messages, the end of the process and a failure of the channel.  *)

(* Mutant: the result that was reported stands, whatever stopped the worker. *)
ReportedOutcome(s, outcome, categorized) == outcome

(* A requested termination overrides a result that has no failure category. *)
EffectiveOutcome(s, outcome, categorized) ==
    CASE manager[s].termination = "none" \/ categorized -> outcome
      [] manager[s].termination = "manual" -> "INTERRUPTED"
      [] OTHER -> "FAILED"

(* settle. The worker is asked to exit and run goes on to the ingestion.    *)
Settled(s, outcome) ==
    /\ manager' = [manager EXCEPT ![s] = [NotOwned EXCEPT !.phase = "SETTLED"]]
    /\ toManager' = [toManager EXCEPT ![s] = <<>>]
    /\ Send(s, "SHUTDOWN")
    /\ call' = "read"
    /\ result' = outcome

settle(s, outcome, categorized) ==
    /\ Settled(s, EffectiveOutcome(s, outcome, categorized))
    /\ lease' = [lease EXCEPT ![s] = "released"]
    /\ UNCHANGED failures

(* Its bookkeeping fails: the lease stays and dispatch stops.               *)
settleUnrecorded(s) ==
    /\ Settled(s, "INTERRUPTED")
    /\ failures' = TRUE
    /\ UNCHANGED lease

StopRequested(s) == manager[s].cancel \/ manager[s].termination # "none"

(* Mutant: the manager does not look again once the runtime is activated.   *)
StartAtOnce(s, phase, answer) ==
    IF StopRequested(s) /\ phase = "BOOTSTRAPPED"
    THEN settle(s, "CANCELLED", FALSE)
    ELSE /\ manager' = [manager EXCEPT ![s].phase = phase]
         /\ toManager' = [toManager EXCEPT ![s] = Tail(@)]
         /\ Send(s, answer)
         /\ UNCHANGED <<call, result, lease, failures>>

(* One step of the protocol: the manager answers and goes on to its next    *)
(* phase, unless the scan was cancelled or stopped in the meantime.         *)
Advance(s, phase, answer) ==
    IF StopRequested(s)
    THEN settle(s, "CANCELLED", FALSE)
    ELSE /\ manager' = [manager EXCEPT ![s].phase = phase]
         /\ toManager' = [toManager EXCEPT ![s] = Tail(@)]
         /\ Send(s, answer)
         /\ UNCHANGED <<call, result, lease, failures>>

onMessage(s) ==
    /\ Awaited(s)
    /\ toManager[s] # <<>>
    /\ LET message == Head(toManager[s]) IN
       \/ message = "WORKER_BOOTSTRAP_READY" /\ Advance(s, "BOOTSTRAPPED", "ACTIVATE_RUNTIME")
       \/ message = "WORKER_READY" /\ Advance(s, "INITIALIZING", "INITIALIZE_JOB")
       \/ message = "JOB_ACCEPTED" /\ Advance(s, "RUNNING", "START_JOB")
       \/ message \in Ended /\ settle(s, message, FALSE)
       \/ message = "WORKER_SHUTDOWN" /\ settle(s, "INTERRUPTED", FALSE)
    /\ UNCHANGED <<status, ingested, approvalVars, resource, fleet, dashboard, stops, queue,
                   active, aborted, reconciler, workerVars>>

(* A message is refused or its handling fails (PROTOCOL_FAILURE), or the    *)
(* process or its channel reports an error, which counts as a crash.        *)
onError(s) ==
    /\ Awaited(s)
    /\ settle(s, "INTERRUPTED", TRUE) \/ settleUnrecorded(s)
    /\ recordCrash \/ UNCHANGED fleet
    /\ UNCHANGED <<status, ingested, approvalVars, resource, dashboard, stops, queue,
                   active, aborted, reconciler, workerVars>>

onExit(s) ==
    /\ Awaited(s)
    /\ process[s] = "gone"
    /\ settle(s, "INTERRUPTED", TRUE)
    /\ IF manager[s].termination = "none" THEN recordCrash ELSE UNCHANGED fleet
    /\ UNCHANGED <<status, ingested, approvalVars, resource, dashboard, stops, queue,
                   active, aborted, reconciler, workerVars>>

(* requestTermination by an operator or by the limits of the policy.        *)
requestTermination(s, category) ==
    /\ manager' = [manager EXCEPT ![s].termination = category]
    /\ Send(s, "CANCEL_JOB")

Terminate(s, category) ==
    /\ Awaited(s)
    /\ manager[s].termination = "none"
    /\ requestTermination(s, category)
    /\ UNCHANGED <<status, ingested, approvalVars, lease, resource, governanceVars, dashboard,
                   stops, serviceVars, reconciler, workerVars, toManager>>

(* recordCustodyLoss: quarantine first, then ask the worker to stop.        *)
LoseCustody(s) ==
    /\ Connected(s)
    /\ resource[s] = "LIVE"
    /\ resource' = [resource EXCEPT ![s] = "UNKNOWN_RETAINED"]
    /\ fleet' = [fleet EXCEPT !.quarantined = TRUE]
    /\ failures' = TRUE
    /\ IF Awaited(s) /\ manager[s].termination = "none"
       THEN requestTermination(s, "limit")
       ELSE UNCHANGED <<manager, toWorker>>
    /\ UNCHANGED <<status, ingested, approvalVars, lease, dashboard, stops, serviceVars,
                   reconciler, workerVars, toManager>>

(* The cancellation, force-kill and exit timers.                            *)
terminateOwned(s) ==
    /\ Connected(s)
    /\ StopRequested(s) \/ ~Awaited(s)
    /\ Exit(s)
    /\ UNCHANGED <<status, ingested, approvalVars, lease, resource, governanceVars, dashboard,
                   stops, serviceVars, manager, reconciler, report, toManager>>

(* The process has closed: its resource is drained and retained.            *)
Drained(s) ==
    /\ manager[s].phase = "SETTLED"
    /\ process[s] = "gone"
    /\ manager' = [manager EXCEPT ![s] = NotOwned]

retainResource(s) ==
    /\ Drained(s)
    /\ resource' = [resource EXCEPT ![s] = IF @ = "LIVE" THEN "RETAINED" ELSE @]
    /\ UNCHANGED <<status, ingested, approvalVars, lease, governanceVars, dashboard, stops,
                   serviceVars, reconciler, workerVars, toManager, toWorker>>

(* Its custody turns out unknown, or the retention itself fails.            *)
RetentionFails(s) ==
    /\ Drained(s)
    /\ failures' = TRUE
    /\ \/ /\ resource' = [resource EXCEPT ![s] = "UNKNOWN_RETAINED"]
          /\ fleet' = [fleet EXCEPT !.quarantined = TRUE]
       \/ UNCHANGED <<resource, fleet>>
    /\ UNCHANGED <<status, ingested, approvalVars, lease, dashboard, stops, serviceVars,
                   reconciler, workerVars, toManager, toWorker>>

-------------------------------------------------------------------------------
(* run's last part: ingestResult, its failures, and the end of the run.     *)

EndRun(s, ended) ==
    /\ status' = [status EXCEPT ![s] = ended]
    /\ active' = NoScan
    /\ aborted' = FALSE
    /\ call' = "none"
    /\ result' = "none"

(* The report of a completed scan, the checkpoint of any other: read, and   *)
(* the approval finished by what it says of the cleanup.                    *)
ingestRead(s) ==
    /\ active = s
    /\ call = "read"
    /\ IF result # "COMPLETED" /\ ~report[s]
       THEN /\ finishExecution(s, TRUE)
            /\ ingested' = [ingested EXCEPT ![s] = "unavailable"]
            /\ EndRun(s, result)
       ELSE /\ \E cleanupUnresolved \in BOOLEAN : finishExecution(s, cleanupUnresolved)
            /\ call' = "record"
            /\ UNCHANGED <<status, ingested, active, aborted, result>>
    /\ UNCHANGED <<recovery, lease, resource, governanceVars, dashboard, stops, queue, manager,
                   reconciler, workerVars, toManager, toWorker>>

ingestRecord(s) ==
    /\ active = s
    /\ call = "record"
    /\ ingested' = [ingested EXCEPT ![s] = "report"]
    /\ EndRun(s, result)
    /\ UNCHANGED <<approvalVars, lease, resource, governanceVars, dashboard, stops, queue,
                   manager, reconciler, workerVars, toManager, toWorker>>

(* run's catch.                                                             *)
ingestFail(s) ==
    /\ active = s
    /\ call \in {"read", "record"}
    /\ finishExecution(s, TRUE)
    /\ EndRun(s, IF aborted THEN "CANCELLED" ELSE "FAILED")
    /\ UNCHANGED <<ingested, recovery, lease, resource, governanceVars, dashboard, stops, queue,
                   manager, reconciler, workerVars, toManager, toWorker>>

-------------------------------------------------------------------------------
(* reconcileInterruptedReports, every 30 seconds and at the start.          *)

(* Leases whose worker is gone without its end having been recorded.        *)
Expirable ==
    {s \in Scans : lease[s] = "held" /\ process[s] = "gone" /\ s # active /\ ~Awaited(s)}

Unaccounted(st) == {s \in Scans : st[s] = "INTERRUPTED" /\ ingested[s] = "none"}

(* A pass that would find nothing changes nothing.                          *)
StartReconcile ==
    /\ dashboard = "up"
    /\ reconciler = Idle
    /\ \/ Expirable # {}
       \/ Unaccounted(status) # {}
       \/ recoverInterruptedExecutions(approval, status) # approval
    /\ reconciler' = [Idle EXCEPT !.step = "leases"]
    /\ UNCHANGED <<status, ingested, approvalVars, lease, resource, governanceVars, dashboard,
                   stops, serviceVars, manager, workerVars, toManager, toWorker>>

(* recoverWorkerLeases for the leases that are past their grace, then       *)
(* recoverInterruptedExecutions and the selection of the rows to ingest.    *)
ReconcileLeases(due) ==
    /\ dashboard # "down"
    /\ reconciler.step = "leases"
    /\ due => Expirable # {}
    /\ LET expired == IF due THEN Expirable ELSE {}
           st == [s \in Scans |-> IF s \in expired /\ status[s] \in Unfinished
                                  THEN "INTERRUPTED" ELSE status[s]]
           rows == Unaccounted(st)
       IN /\ status' = st
          /\ lease' = [s \in Scans |-> IF s \in expired THEN "released" ELSE lease[s]]
          /\ resource' = [s \in Scans |-> IF s \in expired /\ resource[s] = "LIVE"
                                          THEN "UNKNOWN_RETAINED" ELSE resource[s]]
          /\ fleet' = [fleet EXCEPT !.quarantined = @ \/ expired # {}]
          /\ approval' = recoverInterruptedExecutions(approval, st)
          /\ reconciler' = IF rows = {} THEN Idle ELSE [Idle EXCEPT !.step = "rows", !.rows = rows]
    /\ UNCHANGED <<ingested, recovery, failures, dashboard, stops, serviceVars, manager,
                   workerVars, toManager, toWorker>>

NextRow(s) ==
    reconciler' = IF reconciler.rows = {s} THEN Idle
                  ELSE [reconciler EXCEPT !.rows = @ \ {s}, !.recorded = NoScan]

(* ingestResult of an interrupted scan: unavailable, or read to be recorded.*)
ReconcileRead(s) ==
    /\ dashboard # "down"
    /\ reconciler.step = "rows" /\ s \in reconciler.rows /\ reconciler.recorded = NoScan
    /\ IF report[s]
       THEN /\ \E cleanupUnresolved \in BOOLEAN : finishExecution(s, cleanupUnresolved)
            /\ reconciler' = [reconciler EXCEPT !.recorded = s]
            /\ UNCHANGED ingested
       ELSE /\ finishExecution(s, TRUE)
            /\ ingested' = [ingested EXCEPT ![s] = "unavailable"]
            /\ NextRow(s)
    /\ UNCHANGED <<status, recovery, lease, resource, governanceVars, dashboard, stops,
                   serviceVars, manager, workerVars, toManager, toWorker>>

ReconcileRecord(s) ==
    /\ dashboard # "down"
    /\ reconciler.recorded = s
    /\ ingested' = [ingested EXCEPT ![s] = "report"]
    /\ NextRow(s)
    /\ UNCHANGED <<status, approvalVars, lease, resource, governanceVars, dashboard, stops,
                   serviceVars, manager, workerVars, toManager, toWorker>>

(* The row stays for the next pass.                                         *)
ReconcileFail(s) ==
    /\ dashboard # "down"
    /\ reconciler.step = "rows" /\ s \in reconciler.rows
    /\ reconciler.recorded \in {NoScan, s}
    /\ NextRow(s)
    /\ UNCHANGED <<status, ingested, approvalVars, lease, resource, governanceVars, dashboard,
                   stops, serviceVars, manager, workerVars, toManager, toWorker>>

-------------------------------------------------------------------------------
(* The worker process: the bootstrap, then ScanWorkerMain.                  *)

(* send: nobody reads it once the manager is gone or settled.               *)
Reply(s, message) ==
    toManager' = [toManager EXCEPT ![s] = IF Awaited(s) THEN Append(@, message) ELSE @]

(* shutdown: a job in progress is aborted and awaited, else the process     *)
(* says so and exits.                                                       *)
WorkerShutdown(s) ==
    IF process[s] = "running"
    THEN /\ signal' = [signal EXCEPT ![s] = "shutdown"]
         /\ toWorker' = [toWorker EXCEPT ![s] = <<>>]   \* the queue waits for the exit
         /\ UNCHANGED <<process, toManager>>
    ELSE /\ Exit(s)
         /\ Reply(s, "WORKER_SHUTDOWN")

(* One message. The bootstrap obeys ACTIVATE_RUNTIME and SHUTDOWN; nobody   *)
(* listens while the runtime loads; CANCEL_JOB means nothing before the job *)
(* is known.                                                                *)
handleMessage(s) ==
    /\ Alive(s)
    /\ toWorker[s] # <<>>
    /\ signal[s] # "shutdown"
    /\ LET message == Head(toWorker[s])
           Read == toWorker' = [toWorker EXCEPT ![s] = Tail(@)]
       IN CASE process[s] = "bootstrap" /\ message = "ACTIVATE_RUNTIME" ->
                 /\ process' = [process EXCEPT ![s] = "loading"]
                 /\ Read
                 /\ UNCHANGED <<signal, toManager>>
            [] process[s] = "bootstrap" /\ message = "SHUTDOWN" ->
                 Exit(s) /\ UNCHANGED toManager
            [] process[s] = "ready" /\ message = "INITIALIZE_JOB" ->
                 /\ process' = [process EXCEPT ![s] = "accepted"]
                 /\ Reply(s, "JOB_ACCEPTED")
                 /\ Read
                 /\ UNCHANGED signal
            [] process[s] = "accepted" /\ message = "START_JOB" ->
                 /\ process' = [process EXCEPT ![s] = "running"]
                 /\ Read
                 /\ UNCHANGED <<signal, toManager>>
            [] process[s] \in {"accepted", "running"} /\ message = "CANCEL_JOB" ->
                 /\ signal' = [signal EXCEPT ![s] = "abort"]
                 /\ Read
                 /\ UNCHANGED <<process, toManager>>
            [] process[s] \notin {"bootstrap", "loading"} /\ message = "SHUTDOWN" ->
                 WorkerShutdown(s)
            [] OTHER -> Read /\ UNCHANGED <<process, signal, toManager>>
    /\ UNCHANGED <<status, ingested, approvalVars, lease, resource, governanceVars, dashboard,
                   stops, serviceVars, manager, reconciler, report>>

(* The runtime is imported.                                                 *)
WorkerLoaded(s) ==
    /\ process[s] = "loading"
    /\ process' = [process EXCEPT ![s] = "ready"]
    /\ Reply(s, "WORKER_READY")
    /\ UNCHANGED <<status, ingested, approvalVars, lease, resource, governanceVars, dashboard,
                   stops, serviceVars, manager, reconciler, signal, report, toWorker>>

(* A durable checkpoint of the job (or the rest of its report).             *)
WriteCheckpoint(s) ==
    /\ process[s] = "running"
    /\ ~report[s]
    /\ report' = [report EXCEPT ![s] = TRUE]
    /\ UNCHANGED <<status, ingested, approvalVars, lease, resource, governanceVars, dashboard,
                   stops, serviceVars, manager, reconciler, process, signal, toManager, toWorker>>

(* startJob ends. An abort that came too late does not change the outcome.  *)
FinishJob(s, outcome) ==
    /\ process[s] = "running"
    /\ outcome = "COMPLETED" => report[s]
    /\ outcome = "CANCELLED" => signal[s] # "none"
    /\ Reply(s, outcome)
    /\ IF signal[s] = "shutdown"
       THEN Exit(s)
       ELSE /\ process' = [process EXCEPT ![s] = "finished"]
            /\ signal' = [signal EXCEPT ![s] = "none"]
            /\ UNCHANGED toWorker
    /\ UNCHANGED <<status, ingested, approvalVars, lease, resource, governanceVars, dashboard,
                   stops, serviceVars, manager, reconciler, report>>

(* The channel to the dashboard is closed: the bootstrap exits, the worker  *)
(* shuts down. Also SIGTERM and SIGINT, at any time after the bootstrap.    *)
onDisconnect(s) ==
    /\ ~Owned(s) /\ toWorker[s] = <<>>
    /\ Alive(s) /\ process[s] # "loading" /\ signal[s] # "shutdown"
    /\ WorkerShutdown(s)
    /\ UNCHANGED <<status, ingested, approvalVars, lease, resource, governanceVars, dashboard,
                   stops, serviceVars, manager, reconciler, report>>

onSignal(s) ==
    /\ process[s] \in {"ready", "accepted", "running"}
    /\ signal[s] # "shutdown"
    /\ WorkerShutdown(s)
    /\ UNCHANGED <<status, ingested, approvalVars, lease, resource, governanceVars, dashboard,
                   stops, serviceVars, manager, reconciler, report>>

WorkerCrash(s) ==
    /\ Alive(s)
    /\ Exit(s)
    /\ UNCHANGED <<status, ingested, approvalVars, lease, resource, governanceVars, dashboard,
                   stops, serviceVars, manager, reconciler, report, toManager>>

(* A shutdown in progress has a deadline.                                   *)
ShutdownDeadline(s) ==
    /\ signal[s] = "shutdown"
    /\ Exit(s)
    /\ UNCHANGED <<status, ingested, approvalVars, lease, resource, governanceVars, dashboard,
                   stops, serviceVars, manager, reconciler, report, toManager>>

-------------------------------------------------------------------------------
(* The dashboard: shutdown, crash and start.                                *)

BeginShutdown ==
    /\ dashboard = "up"
    /\ stops < MaxStops
    /\ dashboard' = "stopping"
    /\ UNCHANGED <<status, ingested, approvalVars, lease, resource, governanceVars, stops,
                   serviceVars, manager, reconciler, workerVars, toManager, toWorker>>

(* The reconciliation is over: cancel what runs, interrupt what waits.      *)
shutdown ==
    /\ dashboard = "stopping"
    /\ reconciler = Idle
    /\ dashboard' = "closing"
    /\ aborted' = (active # NoScan)
    /\ IF active # NoScan THEN managerCancel(active) ELSE UNCHANGED <<manager, toWorker>>
    /\ status' = [s \in Scans |-> IF status[s] = "QUEUED" THEN "INTERRUPTED" ELSE status[s]]
    /\ queue' = <<>>
    /\ UNCHANGED <<ingested, approvalVars, lease, resource, governanceVars, stops, active, call,
                   result, reconciler, workerVars, toManager>>

GoDown ==
    /\ dashboard' = "down"
    /\ stops' = stops + 1
    /\ queue' = <<>>
    /\ active' = NoScan
    /\ aborted' = FALSE
    /\ call' = "none"
    /\ result' = "none"
    /\ manager' = [s \in Scans |-> NotOwned]
    /\ failures' = FALSE
    /\ reconciler' = Idle
    /\ toManager' = [s \in Scans |-> <<>>]
    /\ UNCHANGED <<status, ingested, approvalVars, lease, resource, fleet, workerVars, toWorker>>

(* The run and its bookkeeping are over and every worker is drained.        *)
Close ==
    /\ dashboard = "closing"
    /\ active = NoScan
    /\ \A s \in Scans : ~Owned(s) /\ recovery[s] # "running"
    /\ GoDown

DashboardCrash ==
    /\ dashboard # "down"
    /\ stops < MaxStops
    /\ GoDown

(* Mutant: scans a crash left behind are not marked.                        *)
KeepsStatus(st) == st

(* Mutant: scans that had ended are marked as well.                         *)
InterruptsAll(st) ==
    [s \in Scans |-> IF st[s] = "none" THEN "none" ELSE "INTERRUPTED"]

recoverInterruptedScans(st) ==
    [s \in Scans |-> IF st[s] \in Unfinished THEN "INTERRUPTED" ELSE st[s]]

(* The order of startDashboardServer: recoverInterruptedScans, the ledger's *)
(* reconcileStartup, then the service, which reconciles at once.            *)
Start ==
    /\ dashboard = "down"
    /\ dashboard' = "up"
    /\ status' = recoverInterruptedScans(status)
    /\ recovery' = [s \in Scans |-> IF recovery[s] = "running" THEN "UNKNOWN" ELSE recovery[s]]
    /\ approval' = [s \in Scans |-> IF recovery[s] = "running" /\ approval[s] = "EXECUTING"
                                    THEN "CLEANUP_FAILED" ELSE approval[s]]
    /\ reconciler' = [Idle EXCEPT !.step = "leases"]
    /\ UNCHANGED <<ingested, lease, resource, governanceVars, stops, serviceVars, manager,
                   workerVars, toManager, toWorker>>

-------------------------------------------------------------------------------

(* What the dashboard, a worker and a scan go on to do by themselves.       *)
Proceed(s) ==
    \/ onMessage(s) \/ onExit(s) \/ Terminate(s, "limit") \/ terminateOwned(s)
    \/ retainResource(s) \/ ingestRead(s) \/ ingestRecord(s) \/ EndRecovery(s)
    \/ handleMessage(s) \/ WorkerLoaded(s) \/ onDisconnect(s) \/ ShutdownDeadline(s)

Progress ==
    /\ \/ \E s \in Scans : Proceed(s)
       \/ pump \/ shutdown \/ Close \/ Start
    /\ UNCHANGED incidents

Reconcile ==
    /\ \/ StartReconcile
       \/ \E due \in BOOLEAN : ReconcileLeases(due)
       \/ \E s \in Scans : ReconcileRead(s) \/ ReconcileRecord(s)
    /\ UNCHANGED incidents

ExpireLeases == ReconcileLeases(TRUE) /\ UNCHANGED incidents

Work(s) ==
    /\ \/ WriteCheckpoint(s)
       \/ \E outcome \in {"COMPLETED", "CANCELLED", "FAILED"} : FinishJob(s, outcome)
    /\ UNCHANGED incidents

Operate ==
    /\ \/ \E s \in Scans : enqueue(s) \/ cancel(s) \/ BeginRecovery(s)
       \/ ReleaseFleet \/ BeginShutdown \/ DashboardCrash
    /\ UNCHANGED incidents

Fault ==
    /\ \/ \E s \in Scans : \/ onError(s) \/ LoseCustody(s) \/ onSignal(s) \/ WorkerCrash(s)
                          \/ RetentionFails(s) \/ ingestFail(s) \/ ReconcileFail(s)
                          \/ RecoveryFails(s) \/ Terminate(s, "manual")
       \/ QuarantineFleet
    /\ Incident

Next ==
    \/ Progress
    \/ Reconcile
    \/ \E s \in Scans : Work(s)
    \/ Operate
    \/ Fault

Spec == Init /\ [][Next]_vars

(* The event loop, the timers and the processes go on, one or the other;    *)
(* no job has to end by itself. The reconciliation is repeated, and a lease *)
(* that can expire does in the end.                                         *)
Fairness ==
    /\ WF_vars(Progress)
    /\ WF_vars(Reconcile)
    /\ SF_vars(ExpireLeases)

LiveSpec == Spec /\ Fairness

-------------------------------------------------------------------------------

(* A dashboard that is up accounts for every unfinished scan of the         *)
(* database: it waits in the queue or it is the active one                  *)
(* (recoverInterruptedScans, enqueue, cancel, the end of run).              *)
UnfinishedIsHeld ==
    dashboard # "down" =>
        \A s \in Scans :
            /\ status[s] = "QUEUED" <=> \E i \in DOMAIN queue : queue[i] = s
            /\ status[s] \in {"RUNNING", "CANCEL_REQUESTED"} <=> active = s

(* A job that runs after it was cancelled or terminated has been told, or   *)
(* will read it: the messages that the bootstrap, the loading runtime and   *)
(* the uninitialized worker ignore are made up for by the manager, which    *)
(* looks again before each answer.                                          *)
CancellationNotLost ==
    \A s \in Scans :
        Awaited(s) /\ StopRequested(s) /\ process[s] = "running" =>
            signal[s] # "none" \/ \E i \in DOMAIN toWorker[s] : toWorker[s][i] = "CANCEL_JOB"

(* Processes of two supervisors never run together: no worker of this       *)
(* dashboard beside one that an earlier dashboard left behind, and no       *)
(* recovery beside any scan's worker (hasUnresolvedCustody).                *)
SupervisorsExclude ==
    /\ \A s, t \in Scans : Alive(s) /\ Alive(t) => (Owned(s) <=> Owned(t))
    /\ \A r, s \in Scans : recovery[r] = "running" => ~Alive(s)

(* While its job runs for the manager, a mutating scan has its approval:    *)
(* nothing that settles approvals takes it for one that has ended.          *)
MutationHasApproval ==
    \A s \in Mutating : process[s] = "running" /\ Awaited(s) => approval[s] = "EXECUTING"

(* A worker that was told to stop never completes its scan: the result it   *)
(* sends before it reads the message, or in spite of it, is overridden when *)
(* the race for settle is decided.                                          *)
StoppedIsNotComplete ==
    [][\A s \in Scans :
           manager[s].termination # "none" /\ active' = s => result' # "COMPLETED"]_vars

(* The scans go through their lifecycle, each to its end.                   *)
Lifecycle == INSTANCE ScanLifecycle

LifecycleHolds == Lifecycle!LifecycleSpec

(* Of a scan that was accepted nothing stays open: it ends, its worker      *)
(* exits, its lease is released, its approval is settled and, if it was     *)
(* interrupted, its evidence is ingested or found unavailable.              *)
LeavesNothingOpen ==
    \A s \in Scans :
        status[s] # "none" ~>
            /\ status[s] \in Ended
            /\ ~Alive(s)
            /\ lease[s] # "held"
            /\ approval[s] # "EXECUTING"
            /\ status[s] = "INTERRUPTED" => ingested[s] # "none"

(* An approval that a recovery runs under stays EXECUTING until the         *)
(* recovery has recorded its result (updateStatus requires it).             *)
RecoveryKeepsApproval ==
    \A s \in Scans : recovery[s] = "running" => approval[s] = "EXECUTING"

=============================================================================
