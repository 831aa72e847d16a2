---------------------------- MODULE ScanJobsProofs ----------------------------
(***************************************************************************)
(* Safety of the dashboard's scans, for any scans, limits, crashes and     *)
(* restarts.  The inductive invariant says, part by part, what a dashboard *)
(* remembers (MemoryInv), which rows its memory stands for (RowsInv), what *)
(* is known of processes without asking them (CustodyInv), which approvals *)
(* are in use (ApprovalInv) and which messages a stopped worker has before *)
(* it (CancelInv).                                                         *)
(***************************************************************************)
EXTENDS ScanJobs, SequenceTheorems, TLAPS

(* The types, by where the variables are kept.                              *)
RowTypes ==
    /\ status \in [Scans -> {"none"} \cup Unfinished \cup Ended]
    /\ ingested \in [Scans -> {"none", "report", "unavailable"}]
    /\ approval \in [Scans -> {"none", "APPROVED", "EXECUTING", "COMPLETED",
                               "CLEANUP_REQUIRED", "CLEANUP_FAILED"}]
    /\ recovery \in [Scans -> {"none", "running", "recorded", "NOT_EXECUTED", "UNKNOWN"}]
    /\ lease \in [Scans -> {"none", "held", "released"}]
    /\ resource \in [Scans -> {"none", "LIVE", "RETAINED", "UNKNOWN_RETAINED"}]

FleetTypes == fleet \in [quarantined : BOOLEAN, crashes : 0..CrashLimit]

FlagTypes == failures \in BOOLEAN /\ aborted \in BOOLEAN

ServiceTypes ==
    /\ dashboard \in {"up", "stopping", "closing", "down"}
    /\ stops \in 0..MaxStops
    /\ queue \in Seq(Scans)
    /\ active \in Scans \cup {NoScan}
    /\ call \in {"none", "worker", "read", "record"}
    /\ result \in {"none"} \cup Ended
    /\ reconciler \in [step : {"idle", "leases", "rows"}, rows : SUBSET Scans,
                       recorded : Scans \cup {NoScan}]

ManagerTypes ==
    manager \in [Scans -> [phase : {"none", "BOOTING", "BOOTSTRAPPED", "INITIALIZING",
                                    "RUNNING", "SETTLED"},
                           cancel : BOOLEAN,
                           termination : {"none", "manual", "limit"}]]

WorkerTypes ==
    /\ process \in [Scans -> {"none", "bootstrap", "loading", "ready", "accepted",
                              "running", "finished", "gone"}]
    /\ signal \in [Scans -> {"none", "abort", "shutdown"}]
    /\ report \in [Scans -> BOOLEAN]

Reports == {"WORKER_BOOTSTRAP_READY", "WORKER_READY", "JOB_ACCEPTED", "WORKER_SHUTDOWN"} \cup Ended
Commands == {"ACTIVATE_RUNTIME", "INITIALIZE_JOB", "START_JOB", "CANCEL_JOB", "SHUTDOWN"}

ChannelTypes ==
    /\ toManager \in [Scans -> Seq(Reports)]
    /\ toWorker \in [Scans -> Seq(Commands)]

Types ==
    /\ RowTypes /\ FleetTypes /\ FlagTypes /\ ServiceTypes
    /\ ManagerTypes /\ WorkerTypes /\ ChannelTypes

LEMMA TypesAreTypeOK == TypeOK <=> Types /\ incidents \in 0..MaxIncidents
  BY DEF TypeOK, Types, RowTypes, FleetTypes, FlagTypes, ServiceTypes, ManagerTypes, WorkerTypes, ChannelTypes,
     Reports, Commands

(* One run at a time; its worker, its result and its ingestion follow each  *)
(* other; a stopped dashboard has no memory.                                *)
MemoryInv ==
    /\ active = NoScan <=> call = "none"
    /\ call \in {"read", "record"} <=> result # "none"
    /\ \A s \in Scans : Awaited(s) <=> (active = s /\ call = "worker")
    /\ \A s \in Scans : ~Awaited(s) => ~manager[s].cancel /\ manager[s].termination = "none"
    /\ dashboard \in {"stopping", "closing"} => stops < MaxStops
    /\ dashboard = "down" =>
          /\ queue = <<>>
          /\ active = NoScan
          /\ reconciler = Idle
          /\ \A s \in Scans : ~Owned(s)

(* The queue and the active scan are the unfinished rows; a scan that never *)
(* left the queue has no process, lease or resource; the rows a             *)
(* reconciliation works on have ended.                                      *)
RowsInv ==
    /\ \A i, j \in DOMAIN queue : queue[i] = queue[j] => i = j
    /\ UnfinishedIsHeld
    /\ \A s \in Scans : status[s] \in {"none", "QUEUED"} =>
          process[s] = "none" /\ lease[s] = "none" /\ resource[s] = "none" /\ ~Owned(s)
    /\ \A s \in reconciler.rows : status[s] = "INTERRUPTED"
    /\ reconciler.recorded \in reconciler.rows \cup {NoScan}

(* A process that lives is in the table of resources; only a process that   *)
(* knows its job can have been told to stop it.                             *)
CustodyInv ==
    /\ SupervisorsExclude
    /\ \A s \in Scans : signal[s] # "none" => process[s] \in {"accepted", "running"}
    /\ \A s \in Scans : Alive(s) => resource[s] \in {"LIVE", "UNKNOWN_RETAINED"}

(* The approval of a mutating scan is in use until its result is read, and  *)
(* is not one that a recovery has taken.                                    *)
Consuming(s) == status[s] = "QUEUED" \/ (active = s /\ call \in {"worker", "read"})
ApprovalInv ==
    \A s \in Scans :
        /\ approval[s] = "none" <=> s \notin Mutating
        /\ recovery[s] # "none" => approval[s] \notin {"none", "APPROVED"}
        /\ s \in Mutating /\ Consuming(s) => approval[s] = "EXECUTING" /\ recovery[s] # "running"

(* START_JOB is never the last word of a manager that wants the job to stop.*)
CancelInv ==
    /\ CancellationNotLost
    /\ \A s \in Scans : \A i \in DOMAIN toWorker[s] :
          /\ Awaited(s) /\ StopRequested(s)
          /\ process[s] \in {"bootstrap", "loading", "ready", "accepted"}
          /\ toWorker[s][i] = "START_JOB"
          => signal[s] # "none" \/ \E j \in DOMAIN toWorker[s] : i < j /\ toWorker[s][j] = "CANCEL_JOB"

IInv == Types /\ MemoryInv /\ RowsInv /\ CustodyInv /\ ApprovalInv /\ CancelInv

-------------------------------------------------------------------------------
(* The steps, each by itself.                                               *)

(* What a worker process does.                                              *)
WorkerStep(s) ==
    \/ handleMessage(s) \/ WorkerLoaded(s) \/ onDisconnect(s) \/ onSignal(s)
    \/ ShutdownDeadline(s) \/ WorkerCrash(s) \/ WriteCheckpoint(s)
    \/ \E outcome \in {"COMPLETED", "CANCELLED", "FAILED"} : FinishJob(s, outcome)

(* What settles the manager's run.                                          *)
SettleStep(s) == onMessage(s) \/ onExit(s) \/ onError(s)

(* What the manager does to a worker besides.                               *)
ManagerStep(s) ==
    \/ \E category \in {"manual", "limit"} : Terminate(s, category)
    \/ LoseCustody(s) \/ terminateOwned(s) \/ retainResource(s) \/ RetentionFails(s)

IngestStep(s) == ingestRead(s) \/ ingestRecord(s) \/ ingestFail(s)

RecoveryStep(s) == BeginRecovery(s) \/ EndRecovery(s) \/ RecoveryFails(s)

RowStep(s) == ReconcileRead(s) \/ ReconcileRecord(s) \/ ReconcileFail(s)

FleetStep == ReleaseFleet \/ QuarantineFleet

DashboardStep ==
    \/ BeginShutdown \/ shutdown \/ Close \/ DashboardCrash \/ Start
    \/ StartReconcile \/ \E due \in BOOLEAN : ReconcileLeases(due)

ScanStep(s) ==
    \/ WorkerStep(s) \/ SettleStep(s) \/ ManagerStep(s) \/ IngestStep(s) \/ RecoveryStep(s)
    \/ RowStep(s) \/ enqueue(s) \/ cancel(s)

LEMMA Steps ==
  ASSUME incidents \in 0..MaxIncidents, Next
  PROVE  /\ \/ \E s \in Scans : ScanStep(s)
            \/ pump \/ FleetStep \/ DashboardStep
         /\ incidents' \in 0..MaxIncidents
<1>1. incidents' \in 0..MaxIncidents
  BY ScanJobsAssumption DEF Next, Progress, Reconcile, Work, Operate, Fault, Incident
<1>2. ASSUME Progress PROVE (\E s \in Scans : ScanStep(s)) \/ pump \/ FleetStep \/ DashboardStep
  BY <1>2 DEF Progress, Proceed, ScanStep, WorkerStep, SettleStep, ManagerStep, IngestStep,
     RecoveryStep, DashboardStep
<1>3. ASSUME Reconcile PROVE (\E s \in Scans : ScanStep(s)) \/ pump \/ FleetStep \/ DashboardStep
  BY <1>3 DEF Reconcile, ScanStep, RowStep, DashboardStep
<1>4. ASSUME NEW s \in Scans, Work(s) PROVE ScanStep(s)
  BY <1>4 DEF Work, ScanStep, WorkerStep
<1>5. ASSUME Operate PROVE (\E s \in Scans : ScanStep(s)) \/ pump \/ FleetStep \/ DashboardStep
  BY <1>5 DEF Operate, ScanStep, RecoveryStep, FleetStep, DashboardStep
<1>6. ASSUME Fault PROVE (\E s \in Scans : ScanStep(s)) \/ pump \/ FleetStep \/ DashboardStep
  BY <1>6 DEF Fault, ScanStep, WorkerStep, SettleStep, ManagerStep, IngestStep, RecoveryStep,
     RowStep, FleetStep
<1> QED
  BY <1>1, <1>2, <1>3, <1>4, <1>5, <1>6 DEF Next

(* What each kind of step leaves alone.                                     *)
memoryVars == <<dashboard, stops, queue, active, aborted, call, result, reconciler>>

LEMMA WorkerFrame ==
  ASSUME NEW s \in Scans, WorkerStep(s)
  PROVE  UNCHANGED <<status, ingested, approval, recovery, lease, resource, fleet, failures,
                     memoryVars, manager>>
  BY DEF WorkerStep, handleMessage, WorkerLoaded, onDisconnect, onSignal, ShutdownDeadline,
     WorkerCrash, WriteCheckpoint, FinishJob, approvalVars, governanceVars, serviceVars, memoryVars

LEMMA SettleFrame ==
  ASSUME NEW s \in Scans, SettleStep(s)
  PROVE  UNCHANGED <<status, ingested, approval, recovery, resource, dashboard, stops, queue, active,
                     aborted, reconciler, process, signal, report>>
  BY DEF SettleStep, onMessage, onExit, onError, approvalVars, workerVars

LEMMA ManagerFrame ==
  ASSUME NEW s \in Scans, ManagerStep(s)
  PROVE  UNCHANGED <<status, ingested, approval, recovery, lease, memoryVars, report, toManager>>
  BY DEF ManagerStep, Terminate, LoseCustody, terminateOwned, retainResource, RetentionFails,
     approvalVars, serviceVars, workerVars, memoryVars

LEMMA IngestFrame ==
  ASSUME NEW s \in Scans, IngestStep(s)
  PROVE  UNCHANGED <<recovery, lease, resource, fleet, failures, dashboard, stops, queue, manager,
                     reconciler, process, signal, report, toManager, toWorker>>
  BY DEF IngestStep, ingestRead, ingestRecord, ingestFail, approvalVars, governanceVars, workerVars

LEMMA RecoveryFrame ==
  ASSUME NEW s \in Scans, RecoveryStep(s)
  PROVE  UNCHANGED <<status, ingested, lease, resource, fleet, failures, memoryVars, manager, process,
                     signal, report, toManager, toWorker>>
  BY DEF RecoveryStep, BeginRecovery, EndRecovery, RecoveryFails, governanceVars, serviceVars,
     workerVars, memoryVars

LEMMA RowFrame ==
  ASSUME NEW s \in Scans, RowStep(s)
  PROVE  UNCHANGED <<status, recovery, lease, resource, fleet, failures, dashboard, stops, queue,
                     active, aborted, call, result, manager, process, signal, report, toManager,
                     toWorker>>
  BY DEF RowStep, ReconcileRead, ReconcileRecord, ReconcileFail, approvalVars, governanceVars,
     serviceVars, workerVars

LEMMA FleetFrame ==
  ASSUME FleetStep
  PROVE  UNCHANGED <<status, ingested, approval, recovery, lease, resource, failures, memoryVars,
                     manager, process, signal, report, toManager, toWorker>>
  BY DEF FleetStep, ReleaseFleet, QuarantineFleet, approvalVars, serviceVars, workerVars, memoryVars

-------------------------------------------------------------------------------
LEMMA InitInv == Init => IInv
<1> SUFFICES ASSUME Init PROVE IInv
  OBVIOUS
<1> USE ScanJobsAssumption DEF Init, EmptyDatabase, FreshMemory, NoWorkers
<1>1. Types
  <2>1. RowTypes
    BY DEF RowTypes, Unfinished, Ended
  <2>2. FleetTypes
    BY DEF FleetTypes
  <2>6. FlagTypes
    BY DEF FlagTypes
  <2>7. ServiceTypes
    BY EmptySeq DEF ServiceTypes, Idle
  <2>3. ManagerTypes
    BY DEF ManagerTypes, NotOwned
  <2>4. WorkerTypes
    BY DEF WorkerTypes
  <2>5. ChannelTypes
    BY EmptySeq DEF ChannelTypes
  <2> QED
    BY <2>1, <2>2, <2>3, <2>4, <2>5, <2>6, <2>7 DEF Types
<1>2. MemoryInv
  BY DEF MemoryInv, NotOwned, Idle, Awaited, Owned
<1>3. RowsInv
  BY DEF RowsInv, UnfinishedIsHeld, NotOwned, Idle, Owned
<1>4. CustodyInv
  BY DEF CustodyInv, SupervisorsExclude, Alive
<1>5. ApprovalInv
  BY DEF ApprovalInv, Consuming
<1>6. CancelInv
  BY DEF CancelInv, CancellationNotLost
<1> QED
  BY <1>1, <1>2, <1>3, <1>4, <1>5, <1>6 DEF IInv

-------------------------------------------------------------------------------
(* Types are kept.                                                          *)

LEMMA SendTypes ==
  ASSUME ChannelTypes, NEW s \in Scans, NEW message \in Commands, Send(s, message)
  PROVE  toWorker' \in [Scans -> Seq(Commands)]
<1>1. Append(toWorker[s], message) \in Seq(Commands)
  BY AppendProperties DEF ChannelTypes
<1> QED
  BY <1>1 DEF ChannelTypes, Send

LEMMA CrashTypes == ASSUME FleetTypes, recordCrash PROVE FleetTypes'
<1>1. PICK count \in {1, fleet.crashes + 1} :
        fleet' = [quarantined |-> fleet.quarantined \/ count >= CrashLimit,
                  crashes |-> IF count > CrashLimit THEN CrashLimit ELSE count]
  BY DEF recordCrash
<1>2. (IF count > CrashLimit THEN CrashLimit ELSE count) \in 0..CrashLimit
  BY ScanJobsAssumption DEF FleetTypes
<1>3. (fleet.quarantined \/ count >= CrashLimit) \in BOOLEAN
  OBVIOUS
<1> QED
  BY <1>1, <1>2, <1>3, Zenon DEF FleetTypes

LEMMA ManagerUpdates ==
  ASSUME ManagerTypes, NEW s \in Scans,
         \/ manager' = manager
         \/ \E category \in {"manual", "limit"} : manager' = [manager EXCEPT ![s].termination = category]
         \/ \E phase \in {"BOOTSTRAPPED", "INITIALIZING", "RUNNING"} :
                manager' = [manager EXCEPT ![s].phase = phase]
         \/ manager' = [manager EXCEPT ![s].cancel = TRUE]
         \/ manager' = [manager EXCEPT ![s] = NotOwned]
         \/ manager' = [manager EXCEPT ![s] = Forked]
         \/ manager' = [manager EXCEPT ![s] = [NotOwned EXCEPT !.phase = "SETTLED"]]
  PROVE  ManagerTypes'
<1>1. CASE manager' = manager
  BY <1>1 DEF ManagerTypes
<1>2. ASSUME NEW category \in {"manual", "limit"}, manager' = [manager EXCEPT ![s].termination = category]
      PROVE  ManagerTypes'
  BY <1>2 DEF ManagerTypes
<1>3. ASSUME NEW phase \in {"BOOTSTRAPPED", "INITIALIZING", "RUNNING"},
             manager' = [manager EXCEPT ![s].phase = phase]
      PROVE  ManagerTypes'
  BY <1>3 DEF ManagerTypes
<1>4. CASE manager' = [manager EXCEPT ![s].cancel = TRUE]
  BY <1>4 DEF ManagerTypes
<1>5. CASE manager' = [manager EXCEPT ![s] = NotOwned]
  BY <1>5 DEF ManagerTypes, NotOwned
<1>6. CASE manager' = [manager EXCEPT ![s] = Forked]
  BY <1>6 DEF ManagerTypes, Forked, NotOwned
<1>7. CASE manager' = [manager EXCEPT ![s] = [NotOwned EXCEPT !.phase = "SETTLED"]]
  BY <1>7 DEF ManagerTypes, NotOwned
<1> QED
  BY <1>1, <1>2, <1>3, <1>4, <1>5, <1>6, <1>7

LEMMA WorkerTypesStep == ASSUME IInv, NEW s \in Scans, WorkerStep(s) PROVE Types'
<1> USE DEF IInv, Types
<1>1. RowTypes' /\ FleetTypes' /\ FlagTypes' /\ ServiceTypes' /\ ManagerTypes'
  BY WorkerFrame DEF RowTypes, FleetTypes, FlagTypes, ServiceTypes, ManagerTypes, memoryVars
<1>2. WorkerTypes'
  BY DEF WorkerTypes, WorkerStep, handleMessage, WorkerShutdown, WorkerLoaded, onDisconnect, onSignal,
     ShutdownDeadline, WorkerCrash, WriteCheckpoint, FinishJob, Exit, workerVars
<1>3. ASSUME NEW message \in Reports, Reply(s, message)
      PROVE  toManager' \in [Scans -> Seq(Reports)]
  BY <1>3, AppendProperties DEF ChannelTypes, Reply
<1>4. toManager' \in [Scans -> Seq(Reports)]
  <2>1. toManager' = toManager \/ \E message \in Reports : Reply(s, message)
    BY DEF WorkerStep, handleMessage, WorkerShutdown, WorkerLoaded, onDisconnect, onSignal,
       ShutdownDeadline, WorkerCrash, WriteCheckpoint, FinishJob, Reports, Ended
  <2> QED
    BY <1>3, <2>1 DEF ChannelTypes
<1>5. toWorker' \in [Scans -> Seq(Commands)]
  <2>1. \/ toWorker' = toWorker
        \/ toWorker' = [toWorker EXCEPT ![s] = <<>>]
        \/ toWorker[s] # <<>> /\ toWorker' = [toWorker EXCEPT ![s] = Tail(@)]
    BY DEF WorkerStep, handleMessage, WorkerShutdown, WorkerLoaded, onDisconnect, onSignal,
       ShutdownDeadline, WorkerCrash, WriteCheckpoint, FinishJob, Exit
  <2>2. <<>> \in Seq(Commands) /\ (toWorker[s] # <<>> => Tail(toWorker[s]) \in Seq(Commands))
    BY EmptySeq, HeadTailProperties DEF ChannelTypes
  <2> QED
    BY <2>1, <2>2 DEF ChannelTypes
<1>6. ChannelTypes'
  BY <1>4, <1>5 DEF ChannelTypes
<1> QED
  BY <1>1, <1>2, <1>6

LEMMA FleetTypesStep == ASSUME IInv, FleetStep PROVE Types'
<1> USE DEF IInv, Types
<1>1. RowTypes' /\ FlagTypes' /\ ServiceTypes' /\ ManagerTypes' /\ WorkerTypes' /\ ChannelTypes'
  BY FleetFrame DEF RowTypes, FlagTypes, ServiceTypes, ManagerTypes, WorkerTypes, ChannelTypes,
     memoryVars
<1>2. FleetTypes'
  <2>1. CASE ReleaseFleet
    BY <2>1, ScanJobsAssumption DEF FleetTypes, ReleaseFleet
  <2>2. CASE QuarantineFleet
    BY <2>2 DEF FleetTypes, QuarantineFleet
  <2> QED
    BY <2>1, <2>2 DEF FleetStep
<1> QED
  BY <1>1, <1>2

LEMMA ManagerTypesStep == ASSUME IInv, NEW s \in Scans, ManagerStep(s) PROVE Types'
<1> USE DEF IInv, Types
<1>1. RowTypes'
  BY ManagerFrame DEF RowTypes, ManagerStep, Terminate, LoseCustody, terminateOwned, retainResource,
     RetentionFails
<1>2. FleetTypes'
  BY DEF FleetTypes, ManagerStep, Terminate, LoseCustody, terminateOwned, retainResource,
     RetentionFails, governanceVars
<1>3. FlagTypes'
  BY ManagerFrame DEF FlagTypes, ManagerStep, Terminate, LoseCustody, terminateOwned, retainResource,
     RetentionFails, governanceVars, memoryVars
<1>4. ServiceTypes'
  BY ManagerFrame DEF ServiceTypes, memoryVars
<1>5. ManagerTypes'
  <2>1. \/ manager' = manager
        \/ \E category \in {"manual", "limit"} : manager' = [manager EXCEPT ![s].termination = category]
        \/ manager' = [manager EXCEPT ![s] = NotOwned]
    BY DEF ManagerStep, Terminate, LoseCustody, terminateOwned, retainResource, RetentionFails,
       requestTermination, Drained
  <2> QED
    BY <2>1, ManagerUpdates
<1>6. WorkerTypes'
  BY DEF WorkerTypes, ManagerStep, Terminate, LoseCustody, terminateOwned, retainResource,
     RetentionFails, Exit, workerVars
<1>7. ChannelTypes'
  <2>1. toManager' = toManager
    BY ManagerFrame
  <2>2. \/ toWorker' = toWorker
        \/ toWorker' = [toWorker EXCEPT ![s] = <<>>]
        \/ Send(s, "CANCEL_JOB")
    BY DEF ManagerStep, Terminate, LoseCustody, terminateOwned, retainResource, RetentionFails,
       requestTermination, Exit
  <2>3. <<>> \in Seq(Commands) /\ "CANCEL_JOB" \in Commands
    BY EmptySeq DEF Commands
  <2>4. toWorker' \in [Scans -> Seq(Commands)]
    BY <2>2, <2>3, SendTypes DEF ChannelTypes
  <2> QED
    BY <2>1, <2>4 DEF ChannelTypes
<1> QED
  BY <1>1, <1>2, <1>3, <1>4, <1>5, <1>6, <1>7

LEMMA SettleTypesStep == ASSUME IInv, NEW s \in Scans, SettleStep(s) PROVE Types'
<1> USE DEF IInv, Types
<1>1. /\ lease' = lease \/ lease' = [lease EXCEPT ![s] = "released"]
      /\ failures' = failures \/ failures' = TRUE
      /\ fleet' = fleet \/ recordCrash
  BY DEF SettleStep, onMessage, onExit, onError, Advance, settle, settleUnrecorded
<1>2. \/ /\ \E outcome \in Ended : Settled(s, outcome)
      \/ /\ call' = call /\ result' = result
         /\ \E phase \in {"BOOTSTRAPPED", "INITIALIZING", "RUNNING"} :
                manager' = [manager EXCEPT ![s].phase = phase]
         /\ toManager[s] # <<>> /\ toManager' = [toManager EXCEPT ![s] = Tail(@)]
         /\ \E answer \in Commands : Send(s, answer)
  BY DEF SettleStep, onMessage, onExit, onError, Advance, settle, settleUnrecorded, EffectiveOutcome,
     Ended, Commands
<1>3. RowTypes'
  BY SettleFrame, <1>1 DEF RowTypes
<1>4. FleetTypes'
  <2>1. CASE fleet' = fleet
    BY <2>1 DEF FleetTypes
  <2>2. CASE recordCrash
    BY <2>2, CrashTypes
  <2> QED
    BY <1>1, <2>1, <2>2
<1>5. FlagTypes'
  BY <1>1, SettleFrame DEF FlagTypes
<1>6. ServiceTypes'
  BY <1>2, SettleFrame DEF ServiceTypes, Settled, Ended
<1>7. ManagerTypes'
  BY <1>2, ManagerUpdates DEF Settled
<1>8. WorkerTypes'
  BY SettleFrame DEF WorkerTypes
<1>9. ChannelTypes'
  <2>1. <<>> \in Seq(Reports) /\ (toManager[s] # <<>> => Tail(toManager[s]) \in Seq(Reports))
    BY EmptySeq, HeadTailProperties DEF ChannelTypes
  <2>2. \E answer \in Commands : Send(s, answer)
    BY <1>2 DEF Settled, Commands
  <2>3. toWorker' \in [Scans -> Seq(Commands)]
    BY <2>2, SendTypes
  <2>4. toManager' \in [Scans -> Seq(Reports)]
    BY <1>2, <2>1 DEF ChannelTypes, Settled
  <2> QED
    BY <2>3, <2>4 DEF ChannelTypes
<1> QED
  BY <1>3, <1>4, <1>5, <1>6, <1>7, <1>8, <1>9

LEMMA IngestTypesStep == ASSUME IInv, NEW s \in Scans, IngestStep(s) PROVE Types'
<1> USE DEF IInv, Types
<1>1. FleetTypes' /\ ManagerTypes' /\ WorkerTypes' /\ ChannelTypes'
  BY IngestFrame DEF FleetTypes, ManagerTypes, WorkerTypes, ChannelTypes
<1>2. call \in {"read", "record"} => result \in Ended
  BY DEF MemoryInv, ServiceTypes
<1>3. /\ \/ status' = status
         \/ \E ended \in Ended : status' = [status EXCEPT ![s] = ended]
      /\ ingested' = ingested \/ \E i \in {"report", "unavailable"} : ingested' = [ingested EXCEPT ![s] = i]
  BY <1>2 DEF IngestStep, ingestRead, ingestRecord, ingestFail, EndRun, Ended
<1>4. approval' = approval \/ \E cleanup \in BOOLEAN : finishExecution(s, cleanup)
  BY DEF IngestStep, ingestRead, ingestRecord, ingestFail, approvalVars
<1>5. /\ active' \in {active, NoScan} /\ call' \in {"none", "record"} /\ result' \in {result, "none"}
      /\ aborted' = aborted \/ aborted' = FALSE
  BY DEF IngestStep, ingestRead, ingestRecord, ingestFail, EndRun
<1>6. RowTypes'
  <2>1. approval' \in [Scans -> {"none", "APPROVED", "EXECUTING", "COMPLETED",
                                 "CLEANUP_REQUIRED", "CLEANUP_FAILED"}]
    BY <1>4 DEF RowTypes, finishExecution
  <2>2. status' \in [Scans -> {"none"} \cup Unfinished \cup Ended]
    BY <1>3 DEF RowTypes
  <2>3. ingested' \in [Scans -> {"none", "report", "unavailable"}]
    BY <1>3 DEF RowTypes
  <2> QED
    BY <2>1, <2>2, <2>3, IngestFrame DEF RowTypes
<1>7. FlagTypes'
  BY <1>5, IngestFrame DEF FlagTypes
<1>8. ServiceTypes'
  BY <1>5, IngestFrame DEF ServiceTypes
<1> QED
  BY <1>1, <1>6, <1>7, <1>8

LEMMA RecoveryTypesStep == ASSUME IInv, NEW s \in Scans, RecoveryStep(s) PROVE Types'
<1> USE DEF IInv, Types
<1>1. FleetTypes' /\ FlagTypes' /\ ServiceTypes' /\ ManagerTypes' /\ WorkerTypes' /\ ChannelTypes'
  BY RecoveryFrame DEF FleetTypes, FlagTypes, ServiceTypes, ManagerTypes, WorkerTypes, ChannelTypes,
     memoryVars
<1>2. RowTypes'
  <2>1. CASE BeginRecovery(s)
    BY <2>1, RecoveryFrame DEF RowTypes, BeginRecovery
  <2>2. CASE EndRecovery(s)
    BY <2>2, RecoveryFrame DEF RowTypes, EndRecovery
  <2>3. CASE RecoveryFails(s)
    BY <2>3, RecoveryFrame DEF RowTypes, RecoveryFails
  <2> QED
    BY <2>1, <2>2, <2>3 DEF RecoveryStep
<1> QED
  BY <1>1, <1>2

LEMMA RowTypesStep == ASSUME IInv, NEW s \in Scans, RowStep(s) PROVE Types'
<1> USE DEF IInv, Types
<1>1. FleetTypes' /\ FlagTypes' /\ ManagerTypes' /\ WorkerTypes' /\ ChannelTypes'
  BY RowFrame DEF FleetTypes, FlagTypes, ManagerTypes, WorkerTypes, ChannelTypes
<1>2. /\ approval' = approval \/ \E cleanup \in BOOLEAN : finishExecution(s, cleanup)
      /\ ingested' = ingested \/ \E i \in {"report", "unavailable"} : ingested' = [ingested EXCEPT ![s] = i]
      /\ reconciler' = [reconciler EXCEPT !.recorded = s] \/ NextRow(s)
  BY DEF RowStep, ReconcileRead, ReconcileRecord, ReconcileFail, approvalVars
<1>3. RowTypes'
  BY <1>2, RowFrame DEF RowTypes, finishExecution
<1>4. ServiceTypes'
  <2>1. reconciler' \in [step : {"idle", "leases", "rows"}, rows : SUBSET Scans,
                         recorded : Scans \cup {NoScan}]
    <3>1. CASE reconciler' = [reconciler EXCEPT !.recorded = s]
      BY <3>1 DEF ServiceTypes
    <3>2. CASE reconciler' = Idle
      BY <3>2 DEF Idle
    <3>3. CASE reconciler' = [reconciler EXCEPT !.rows = @ \ {s}, !.recorded = NoScan]
      BY <3>3 DEF ServiceTypes
    <3> QED
      BY <1>2, <3>1, <3>2, <3>3 DEF NextRow
  <2> QED
    BY <2>1, RowFrame DEF ServiceTypes
<1> QED
  BY <1>1, <1>3, <1>4

(* The queue without its i-th element.                                      *)
LEMMA Removal ==
  ASSUME NEW q \in Seq(Scans), NEW i \in DOMAIN q, NEW r,
         r = SubSeq(q, 1, i - 1) \o SubSeq(q, i + 1, Len(q))
  PROVE  /\ r \in Seq(Scans)
         /\ DOMAIN q = 1..Len(q) /\ Len(q) \in Nat
         /\ DOMAIN r = 1..(Len(q) - 1)
         /\ \A k \in 1..(Len(q) - 1) : r[k] = IF k < i THEN q[k] ELSE q[k + 1]
<1>1. i \in 1..Len(q) /\ Len(q) \in Nat /\ DOMAIN q = 1..Len(q)
  BY LenProperties
<1>2. /\ SubSeq(q, 1, i - 1) \in Seq(Scans) /\ Len(SubSeq(q, 1, i - 1)) = i - 1
      /\ \A k \in 1..(i - 1) : SubSeq(q, 1, i - 1)[k] = q[k]
  BY <1>1, SubSeqProperties
<1>3. /\ SubSeq(q, i + 1, Len(q)) \in Seq(Scans) /\ Len(SubSeq(q, i + 1, Len(q))) = Len(q) - i
      /\ \A k \in 1..(Len(q) - i) : SubSeq(q, i + 1, Len(q))[k] = q[i + k]
  BY <1>1, SubSeqProperties
<1> DEFINE a == SubSeq(q, 1, i - 1)
           b == SubSeq(q, i + 1, Len(q))
<1> HIDE DEF a, b
<1>4. /\ a \in Seq(Scans) /\ Len(a) = i - 1 /\ (\A k \in 1..(i - 1) : a[k] = q[k])
      /\ b \in Seq(Scans) /\ Len(b) = Len(q) - i /\ (\A k \in 1..(Len(q) - i) : b[k] = q[i + k])
      /\ r = a \o b
  BY <1>2, <1>3 DEF a, b
<1>5. /\ r \in Seq(Scans) /\ Len(r) = Len(a) + Len(b)
      /\ \A k \in 1..(Len(a) + Len(b)) : r[k] = IF k <= Len(a) THEN a[k] ELSE b[k - Len(a)]
  <2>1. /\ a \o b \in Seq(Scans) /\ Len(a \o b) = Len(a) + Len(b)
        /\ \A k \in 1..(Len(a) + Len(b)) : (a \o b)[k] = IF k <= Len(a) THEN a[k] ELSE b[k - Len(a)]
    BY <1>4, ConcatProperties, Zenon
  <2> QED
    BY <1>4, <2>1, Zenon
<1>6. Len(a) + Len(b) = Len(q) - 1
  BY <1>1, <1>4
<1>7. DOMAIN r = 1..(Len(q) - 1)
  BY <1>5, <1>6, LenProperties
<1>8. ASSUME NEW k \in 1..(Len(q) - 1) PROVE r[k] = IF k < i THEN q[k] ELSE q[k + 1]
  <2>1. CASE k < i
    <3>1. k \in 1..(i - 1) /\ k <= Len(a) /\ k \in 1..(Len(a) + Len(b))
      BY <1>1, <1>4, <2>1
    <3> QED
      BY <1>4, <1>5, <2>1, <3>1
  <2>2. CASE ~(k < i)
    <3>1. k - (i - 1) \in 1..(Len(q) - i) /\ ~(k <= i - 1) /\ i + (k - (i - 1)) = k + 1
      <4>1. \A n \in Nat : \A x \in 1..n, y \in 1..(n - 1) : ~(y < x) =>
               y - (x - 1) \in 1..(n - x) /\ ~(y <= x - 1) /\ x + (y - (x - 1)) = y + 1
        OBVIOUS
      <4> QED
        BY <1>1, <2>2, <4>1, Zenon
    <3>2. k \in 1..(Len(a) + Len(b))
      BY <1>6
    <3>3. r[k] = b[k - (i - 1)]
      BY <1>4, <1>5, <3>1, <3>2
    <3>4. b[k - (i - 1)] = q[i + (k - (i - 1))]
      BY <1>4, <3>1
    <3> QED
      BY <2>2, <3>1, <3>3, <3>4
  <2> QED
    BY <2>1, <2>2
<1> QED
  BY <1>1, <1>5, <1>7, <1>8

LEMMA ServiceTypesStep ==
  ASSUME IInv, NEW s \in Scans, enqueue(s) \/ cancel(s)
  PROVE  Types'
<1> USE DEF IInv, Types
<1>1. UNCHANGED <<fleet, process, signal, report, toManager, failures, call, result, active, stops,
                  dashboard, reconciler, ingested, lease, resource, recovery>>
  BY DEF enqueue, cancel, approvalVars, governanceVars, workerVars
<1>2. FleetTypes' /\ WorkerTypes'
  BY <1>1 DEF FleetTypes, WorkerTypes
<1>3. FlagTypes'
  BY <1>1 DEF FlagTypes, enqueue, cancel
<1>4. RowTypes'
  BY <1>1 DEF RowTypes, enqueue, cancel, beginExecution, Unfinished, Ended, approvalVars
<1>5. queue' \in Seq(Scans)
  <2>1. CASE enqueue(s)
    BY <2>1, AppendProperties DEF enqueue, ServiceTypes
  <2>2. CASE queue' = queue
    BY <2>2 DEF ServiceTypes
  <2>3. ASSUME NEW i \in DOMAIN queue,
               queue' = SubSeq(queue, 1, i - 1) \o SubSeq(queue, i + 1, Len(queue))
        PROVE  queue' \in Seq(Scans)
    BY <2>3, Removal DEF ServiceTypes
  <2> QED
    BY <2>1, <2>2, <2>3 DEF cancel
<1>6. ServiceTypes'
  BY <1>1, <1>5 DEF ServiceTypes
<1>7. /\ manager' = manager \/ manager' = [manager EXCEPT ![s].cancel = TRUE]
      /\ toWorker' = toWorker \/ Send(s, "CANCEL_JOB")
  BY DEF enqueue, cancel, managerCancel
<1>8. ManagerTypes'
  BY <1>7, ManagerUpdates
<1>9. ChannelTypes'
  BY <1>1, <1>7, SendTypes DEF ChannelTypes, Commands
<1> QED
  BY <1>2, <1>3, <1>4, <1>6, <1>8, <1>9

LEMMA PumpTypesStep == ASSUME IInv, pump PROVE Types'
<1> USE DEF IInv, Types
<1>1. queue # <<>> /\ Head(queue) \in Scans /\ Tail(queue) \in Seq(Scans)
  BY HeadTailProperties DEF pump, ServiceTypes
<1> DEFINE s == Head(queue)
<1>2. UNCHANGED <<ingested, recovery, fleet, failures, dashboard, stops, aborted, result, reconciler,
                  signal, report, toWorker>> /\ queue' = Tail(queue)
  BY DEF pump, governanceVars
<1>3. /\ status' = [status EXCEPT ![s] = "FAILED"] \/ status' = [status EXCEPT ![s] = "RUNNING"]
      /\ approval' = approval \/ finishExecution(s, TRUE)
      /\ lease' = lease \/ lease' = [lease EXCEPT ![s] = "held"]
      /\ resource' = resource \/ resource' = [resource EXCEPT ![s] = "LIVE"]
      /\ manager' = manager \/ manager' = [manager EXCEPT ![s] = Forked]
      /\ process' = process \/ process' = [process EXCEPT ![s] = "bootstrap"]
      /\ toManager' = toManager \/ toManager' = [toManager EXCEPT ![s] = <<"WORKER_BOOTSTRAP_READY">>]
      /\ active' \in {active, s} /\ call' \in {call, "worker"}
  BY DEF pump
<1> HIDE DEF s
<1>4. s \in Scans
  BY <1>1 DEF s
<1>5. RowTypes'
  BY <1>2, <1>3, <1>4 DEF RowTypes, finishExecution, Unfinished, Ended
<1>6. FleetTypes'
  BY <1>2 DEF FleetTypes
<1>7. FlagTypes'
  BY <1>2 DEF FlagTypes
<1>8. ServiceTypes'
  BY <1>1, <1>2, <1>3, <1>4 DEF ServiceTypes
<1>9. ManagerTypes'
  BY <1>3, <1>4, ManagerUpdates
<1>10. WorkerTypes'
  BY <1>2, <1>3, <1>4 DEF WorkerTypes
<1>11. ChannelTypes'
  <2>1. <<"WORKER_BOOTSTRAP_READY">> \in Seq(Reports)
    BY DEF Reports
  <2> QED
    BY <1>2, <1>3, <1>4, <2>1 DEF ChannelTypes
<1> QED
  BY <1>5, <1>6, <1>7, <1>8, <1>9, <1>10, <1>11

LEMMA DashboardTypesStep == ASSUME IInv, DashboardStep PROVE Types'
<1> USE DEF IInv, Types
<1>1. CASE BeginShutdown
  BY <1>1 DEF BeginShutdown, approvalVars, governanceVars, serviceVars, workerVars, RowTypes, FleetTypes,
     FlagTypes, ServiceTypes, ManagerTypes, WorkerTypes, ChannelTypes
<1>2. CASE StartReconcile
  <2>1. UNCHANGED <<status, ingested, approval, recovery, lease, resource, fleet, failures, dashboard,
                    stops, queue, active, aborted, call, result, manager, process, signal, report,
                    toManager, toWorker>> /\ reconciler' = [Idle EXCEPT !.step = "leases"]
    BY <1>2 DEF StartReconcile, approvalVars, governanceVars, serviceVars, workerVars
  <2>2. RowTypes' /\ FleetTypes' /\ FlagTypes' /\ ManagerTypes' /\ WorkerTypes' /\ ChannelTypes'
    BY <2>1 DEF RowTypes, FleetTypes, FlagTypes, ManagerTypes, WorkerTypes, ChannelTypes
  <2>3. ServiceTypes'
    BY <2>1 DEF ServiceTypes, Idle
  <2> QED
    BY <2>2, <2>3
<1>3. ASSUME NEW due \in BOOLEAN, ReconcileLeases(due) PROVE Types'
  <2>1. UNCHANGED <<ingested, recovery, failures, dashboard, stops, queue, active, aborted, call, result,
                    manager, process, signal, report, toManager, toWorker>>
    BY <1>3 DEF ReconcileLeases, serviceVars, workerVars
  <2>2. FlagTypes' /\ ManagerTypes' /\ WorkerTypes' /\ ChannelTypes'
    BY <2>1 DEF FlagTypes, ManagerTypes, WorkerTypes, ChannelTypes
  <2>3. RowTypes'
    BY <1>3, <2>1 DEF ReconcileLeases, RowTypes, recoverInterruptedExecutions, Unfinished, Ended
  <2>4. FleetTypes'
    BY <1>3 DEF ReconcileLeases, FleetTypes
  <2>5. ServiceTypes'
    <3>1. PICK rows \in SUBSET Scans :
            reconciler' = IF rows = {} THEN Idle ELSE [Idle EXCEPT !.step = "rows", !.rows = rows]
      BY <1>3 DEF ReconcileLeases, Unaccounted
    <3>2. reconciler' \in [step : {"idle", "leases", "rows"}, rows : SUBSET Scans,
                           recorded : Scans \cup {NoScan}]
      BY <3>1 DEF Idle
    <3> QED
      BY <2>1, <3>2 DEF ServiceTypes
  <2> QED
    BY <2>2, <2>3, <2>4, <2>5
<1>4. CASE shutdown
  <2>1. UNCHANGED <<ingested, approval, recovery, lease, resource, fleet, failures, stops, active, call,
                    result, reconciler, process, signal, report, toManager>>
    BY <1>4 DEF shutdown, approvalVars, governanceVars, workerVars
  <2>2. RowTypes'
    BY <1>4, <2>1 DEF shutdown, RowTypes, Unfinished, Ended
  <2>3. FleetTypes' /\ WorkerTypes'
    BY <2>1 DEF FleetTypes, WorkerTypes
  <2>4. FlagTypes'
    BY <1>4, <2>1 DEF shutdown, FlagTypes
  <2>5. ServiceTypes'
    BY <1>4, <2>1, EmptySeq DEF shutdown, ServiceTypes
  <2>6. CASE active = NoScan
    BY <1>4, <2>1, <2>2, <2>3, <2>4, <2>5, <2>6 DEF shutdown, ManagerTypes, ChannelTypes
  <2>7. CASE active # NoScan
    <3>1. active \in Scans
      BY <2>7 DEF ServiceTypes
    <3>2. /\ manager' = manager \/ manager' = [manager EXCEPT ![active].cancel = TRUE]
          /\ toWorker' = toWorker \/ Send(active, "CANCEL_JOB")
      BY <1>4, <2>7 DEF shutdown, managerCancel
    <3>3. ManagerTypes'
      BY <3>1, <3>2, ManagerUpdates
    <3>4. ChannelTypes'
      BY <2>1, <3>1, <3>2, SendTypes DEF ChannelTypes, Commands
    <3> QED
      BY <2>2, <2>3, <2>4, <2>5, <3>3, <3>4
  <2> QED
    BY <2>6, <2>7
<1>5. CASE GoDown /\ stops < MaxStops
  <2>1. UNCHANGED <<status, ingested, approval, recovery, lease, resource, fleet, process, signal, report,
                    toWorker>>
    BY <1>5 DEF GoDown, approvalVars, workerVars
  <2>2. RowTypes' /\ FleetTypes' /\ WorkerTypes'
    BY <2>1 DEF RowTypes, FleetTypes, WorkerTypes
  <2>3. FlagTypes'
    BY <1>5 DEF GoDown, FlagTypes
  <2>4. ServiceTypes'
    BY <1>5, EmptySeq, ScanJobsAssumption DEF GoDown, ServiceTypes, Idle
  <2>5. ManagerTypes'
    BY <1>5 DEF GoDown, ManagerTypes, NotOwned
  <2>6. ChannelTypes'
    BY <1>5, <2>1, EmptySeq DEF GoDown, ChannelTypes
  <2> QED
    BY <2>2, <2>3, <2>4, <2>5, <2>6
<1>6. CASE Start
  <2>1. UNCHANGED <<ingested, lease, resource, fleet, failures, stops, queue, active, aborted, call, result,
                    manager, process, signal, report, toManager, toWorker>>
    BY <1>6 DEF Start, governanceVars, serviceVars, workerVars
  <2>2. FleetTypes' /\ FlagTypes' /\ ManagerTypes' /\ WorkerTypes' /\ ChannelTypes'
    BY <2>1 DEF FleetTypes, FlagTypes, ManagerTypes, WorkerTypes, ChannelTypes
  <2>3. RowTypes'
    BY <1>6, <2>1 DEF Start, RowTypes, recoverInterruptedScans, Unfinished, Ended
  <2>4. ServiceTypes'
    BY <1>6, <2>1 DEF Start, ServiceTypes, Idle
  <2> QED
    BY <2>2, <2>3, <2>4
<1> QED
  BY <1>1, <1>2, <1>3, <1>4, <1>5, <1>6 DEF DashboardStep, Close, DashboardCrash, MemoryInv

LEMMA TypesStep ==
  ASSUME IInv, (\E s \in Scans : ScanStep(s)) \/ pump \/ FleetStep \/ DashboardStep
  PROVE  Types'
  BY WorkerTypesStep, SettleTypesStep, ManagerTypesStep, IngestTypesStep, RecoveryTypesStep,
     RowTypesStep, ServiceTypesStep, PumpTypesStep, FleetTypesStep, DashboardTypesStep DEF ScanStep

-------------------------------------------------------------------------------
(* MemoryInv is kept.                                                       *)

LEMMA MemoryFrame ==
  ASSUME MemoryInv, UNCHANGED <<active, call, result, manager, dashboard, stops, queue, reconciler>>
  PROVE  MemoryInv'
  BY DEF MemoryInv, Awaited, Owned

(* How the manager's record of a worker changes besides by settling.        *)
LEMMA ManagerMemory ==
  ASSUME IInv, NEW s \in Scans, ManagerStep(s)
  PROVE  /\ \A t \in Scans : (Awaited(t) <=> Awaited(t)') /\ (Owned(t)' => Owned(t))
         /\ \A t \in Scans : ~Awaited(t)' => ~manager'[t].cancel /\ manager'[t].termination = "none"
<1>1. ManagerTypes
  BY DEF IInv, Types
<1>2. \/ manager' = manager
      \/ /\ Awaited(s)
         /\ \E category \in {"manual", "limit"} : manager' = [manager EXCEPT ![s].termination = category]
      \/ /\ manager[s].phase = "SETTLED"
         /\ manager' = [manager EXCEPT ![s] = NotOwned]
  BY DEF ManagerStep, Terminate, LoseCustody, terminateOwned, retainResource, RetentionFails,
     requestTermination, Drained
<1>3. CASE manager' = manager
  BY <1>3 DEF IInv, MemoryInv, Awaited, Owned
<1>4. ASSUME Awaited(s), NEW category \in {"manual", "limit"},
             manager' = [manager EXCEPT ![s].termination = category]
      PROVE  /\ \A t \in Scans : (Awaited(t) <=> Awaited(t)') /\ (Owned(t)' => Owned(t))
             /\ \A t \in Scans : ~Awaited(t)' => ~manager'[t].cancel /\ manager'[t].termination = "none"
  <2>1. \A t \in Scans : manager'[t].phase = manager[t].phase /\ (t # s => manager'[t] = manager[t])
    BY <1>1, <1>4 DEF ManagerTypes
  <2> QED
    BY <1>4, <2>1 DEF IInv, MemoryInv, Awaited, Owned
<1>5. CASE manager[s].phase = "SETTLED" /\ manager' = [manager EXCEPT ![s] = NotOwned]
  <2>1. manager'[s] = NotOwned /\ \A t \in Scans \ {s} : manager'[t] = manager[t]
    BY <1>1, <1>5 DEF ManagerTypes
  <2> QED
    BY <1>5, <2>1 DEF IInv, MemoryInv, Awaited, Owned, NotOwned
<1> QED
  BY <1>2, <1>3, <1>4, <1>5

(* A worker's run is settled, or goes on.                                   *)
LEMMA SettleMemory ==
  ASSUME IInv, NEW s \in Scans, SettleStep(s)
  PROVE  /\ Awaited(s) /\ active = s /\ call = "worker" /\ result = "none" /\ dashboard # "down"
         /\ \/ /\ ~Awaited(s)' /\ Owned(s)' /\ ~manager'[s].cancel /\ manager'[s].termination = "none"
               /\ call' = "read" /\ result' \in Ended
            \/ /\ Awaited(s)' /\ manager'[s].cancel = manager[s].cancel
               /\ manager'[s].termination = manager[s].termination
               /\ call' = call /\ result' = result
         /\ \A t \in Scans \ {s} : manager'[t] = manager[t]
<1>1. ManagerTypes
  BY DEF IInv, Types
<1>2. Awaited(s)
  BY DEF SettleStep, onMessage, onExit, onError
<1>3. active = s /\ call = "worker" /\ result = "none" /\ dashboard # "down"
  BY <1>2, ScanJobsAssumption DEF IInv, MemoryInv
<1>4. \/ \E outcome \in Ended : Settled(s, outcome)
      \/ /\ call' = call /\ result' = result
         /\ \E phase \in {"BOOTSTRAPPED", "INITIALIZING", "RUNNING"} :
                manager' = [manager EXCEPT ![s].phase = phase]
  BY DEF SettleStep, onMessage, onExit, onError, Advance, settle, settleUnrecorded, EffectiveOutcome,
     Ended
<1>5. ASSUME NEW outcome \in Ended, Settled(s, outcome)
      PROVE  /\ ~Awaited(s)' /\ Owned(s)' /\ ~manager'[s].cancel /\ manager'[s].termination = "none"
             /\ call' = "read" /\ result' \in Ended
             /\ \A t \in Scans \ {s} : manager'[t] = manager[t]
  BY <1>1, <1>5 DEF Settled, NotOwned, ManagerTypes, Awaited, Owned
<1>6. ASSUME NEW phase \in {"BOOTSTRAPPED", "INITIALIZING", "RUNNING"},
             manager' = [manager EXCEPT ![s].phase = phase]
      PROVE  /\ Awaited(s)' /\ manager'[s].cancel = manager[s].cancel
             /\ manager'[s].termination = manager[s].termination
             /\ \A t \in Scans \ {s} : manager'[t] = manager[t]
  BY <1>1, <1>6 DEF ManagerTypes, Awaited
<1> QED
  BY <1>2, <1>3, <1>4, <1>5, <1>6

LEMMA MemoryStep ==
  ASSUME IInv, (\E s \in Scans : ScanStep(s)) \/ pump \/ FleetStep \/ DashboardStep
  PROVE  MemoryInv'
<1> USE DEF IInv
<1>1. ASSUME NEW s \in Scans, WorkerStep(s) \/ RecoveryStep(s) PROVE MemoryInv'
  BY <1>1, WorkerFrame, RecoveryFrame, MemoryFrame DEF memoryVars
<1>2. CASE FleetStep
  BY <1>2, FleetFrame, MemoryFrame DEF memoryVars
<1>3. ASSUME NEW s \in Scans, ManagerStep(s) PROVE MemoryInv'
  BY <1>3, ManagerFrame, ManagerMemory DEF MemoryInv, memoryVars
<1>4. ASSUME NEW s \in Scans, SettleStep(s) PROVE MemoryInv'
  <2>1. \A t \in Scans \ {s} : (Awaited(t)' <=> Awaited(t)) /\ (Owned(t)' <=> Owned(t))
    BY <1>4, SettleMemory DEF Awaited, Owned
  <2>2. dashboard' # "down" /\ active' = s /\ UNCHANGED <<dashboard, stops>> /\ s # NoScan
    BY <1>4, SettleMemory, SettleFrame, ScanJobsAssumption
  <2> QED
    BY <1>4, <2>1, <2>2, SettleMemory DEF MemoryInv, Ended
<1>5. ASSUME NEW s \in Scans, IngestStep(s) PROVE MemoryInv'
  <2>1. active = s /\ call \in {"read", "record"} /\ dashboard # "down" /\ s # NoScan
        /\ \A t \in Scans : ~Awaited(t)
    BY <1>5, ScanJobsAssumption DEF IngestStep, ingestRead, ingestRecord, ingestFail, MemoryInv
  <2>2. \/ active' = NoScan /\ call' = "none" /\ result' = "none"
        \/ active' = active /\ call' = "record" /\ result' = result
    BY <1>5 DEF IngestStep, ingestRead, ingestRecord, ingestFail, EndRun
  <2> QED
    BY <1>5, <2>1, <2>2, IngestFrame, ScanJobsAssumption DEF MemoryInv, Awaited, Owned
<1>6. ASSUME NEW s \in Scans, RowStep(s) PROVE MemoryInv'
  <2>1. dashboard # "down"
    BY <1>6 DEF RowStep, ReconcileRead, ReconcileRecord, ReconcileFail
  <2> QED
    BY <1>6, <2>1, RowFrame DEF MemoryInv, Awaited, Owned
<1>7. ASSUME NEW s \in Scans, enqueue(s) PROVE MemoryInv'
  BY <1>7 DEF enqueue, MemoryInv, Awaited, Owned
<1>8. ASSUME NEW s \in Scans, cancel(s) PROVE MemoryInv'
  <2>1. UNCHANGED <<active, call, result, dashboard, stops, reconciler>> /\ dashboard # "down"
    BY <1>8 DEF cancel
  <2>2. manager' = manager \/ (Awaited(s) /\ manager' = [manager EXCEPT ![s].cancel = TRUE])
    BY <1>8 DEF cancel, managerCancel
  <2>3. \A t \in Scans : (Awaited(t)' <=> Awaited(t)) /\ (~Awaited(t) => manager'[t] = manager[t])
    BY <2>2 DEF Types, ManagerTypes, Awaited
  <2> QED
    BY <2>1, <2>3 DEF MemoryInv
<1>9. CASE pump
  <2>1. CASE UNCHANGED <<active, call, manager>>
    BY <1>9, <2>1 DEF pump, MemoryInv, Awaited, Owned
  <2>2. CASE ~UNCHANGED <<active, call, manager>>
    <3>1. Head(queue) \in Scans
      BY <1>9, HeadTailProperties DEF pump, Types, ServiceTypes
    <3>2. PICK s \in Scans : manager' = [manager EXCEPT ![s] = Forked] /\ active' = s /\ call' = "worker"
      BY <1>9, <2>2, <3>1 DEF pump
    <3>3. Awaited(s)' /\ \A t \in Scans \ {s} : manager'[t] = manager[t]
      BY <3>2 DEF Types, ManagerTypes, Forked, NotOwned, Awaited
    <3>4. /\ active = NoScan /\ call = "none" /\ result' = "none" /\ dashboard' = "up"
          /\ UNCHANGED <<dashboard, stops>> /\ \A t \in Scans : ~Awaited(t)
      BY <1>9, ScanJobsAssumption DEF pump, MemoryInv
    <3>5. \A t \in Scans \ {s} : ~Awaited(t)'
      BY <3>3, <3>4 DEF Awaited
    <3> QED
      BY <3>2, <3>3, <3>4, <3>5, ScanJobsAssumption DEF MemoryInv
  <2> QED
    BY <2>1, <2>2
<1>10. CASE DashboardStep
  <2>1. CASE BeginShutdown
    BY <2>1 DEF BeginShutdown, serviceVars, MemoryInv, Awaited, Owned
  <2>2. CASE StartReconcile \/ \E due \in BOOLEAN : ReconcileLeases(due)
    BY <2>2 DEF StartReconcile, ReconcileLeases, serviceVars, MemoryInv, Awaited, Owned
  <2>3. CASE Start
    BY <2>3 DEF Start, serviceVars, MemoryInv, Awaited, Owned
  <2>4. CASE GoDown
    <3>1. \A t \in Scans : manager'[t] = NotOwned
      BY <2>4 DEF GoDown
    <3> QED
      BY <2>4, <3>1, ScanJobsAssumption DEF GoDown, MemoryInv, Awaited, Owned, NotOwned
  <2>5. CASE shutdown
    <3>1. UNCHANGED <<active, call, result, stops, reconciler>> /\ dashboard = "stopping" /\ dashboard' = "closing"
      BY <2>5 DEF shutdown
    <3>2. \/ manager' = manager
          \/ active \in Scans /\ Awaited(active) /\ manager' = [manager EXCEPT ![active].cancel = TRUE]
      BY <2>5 DEF shutdown, managerCancel, Types, ServiceTypes
    <3>3. \A t \in Scans : (Awaited(t)' <=> Awaited(t)) /\ (~Awaited(t) => manager'[t] = manager[t])
      BY <3>2 DEF Types, ManagerTypes, Awaited
    <3> QED
      BY <3>1, <3>3 DEF MemoryInv
  <2> QED
    BY <1>10, <2>1, <2>2, <2>3, <2>4, <2>5 DEF DashboardStep, Close, DashboardCrash
<1> QED
  BY <1>1, <1>2, <1>3, <1>4, <1>5, <1>6, <1>7, <1>8, <1>9, <1>10 DEF ScanStep

-------------------------------------------------------------------------------
(* RowsInv is kept.                                                         *)

In(s, q) == \E i \in DOMAIN q : q[i] = s
Distinct(q) == \A i, j \in DOMAIN q : q[i] = q[j] => i = j

LEMMA AppendRows ==
  ASSUME NEW q \in Seq(Scans), NEW s \in Scans, Distinct(q), ~In(s, q)
  PROVE  Distinct(Append(q, s)) /\ \A t \in Scans : In(t, Append(q, s)) <=> t = s \/ In(t, q)
<1>1. /\ Append(q, s) \in Seq(Scans) /\ Len(Append(q, s)) = Len(q) + 1
      /\ \A i \in 1..Len(q) : Append(q, s)[i] = q[i]
      /\ Append(q, s)[Len(q) + 1] = s
  BY AppendProperties
<1>2. Len(q) \in Nat /\ DOMAIN q = 1..Len(q) /\ DOMAIN Append(q, s) = 1..(Len(q) + 1)
  BY <1>1, LenProperties
<1>3. \A n \in Nat : \A i \in 1..(n + 1) : i \in 1..n \/ i = n + 1
  OBVIOUS
<1>4. \A n \in Nat : n + 1 \in 1..(n + 1) /\ 1..n \subseteq 1..(n + 1)
  OBVIOUS
<1>5. \A i \in DOMAIN Append(q, s) :
         \/ i \in DOMAIN q /\ Append(q, s)[i] = q[i]
         \/ i = Len(q) + 1 /\ Append(q, s)[i] = s
  BY <1>1, <1>2, <1>3, Zenon
<1>6. Distinct(Append(q, s))
  BY <1>5, Zenon DEF Distinct, In
<1>7. ASSUME NEW t \in Scans PROVE In(t, Append(q, s)) <=> t = s \/ In(t, q)
  BY <1>1, <1>2, <1>4, <1>5, Zenon DEF In
<1> QED
  BY <1>6, <1>7

LEMMA TailRows ==
  ASSUME NEW q \in Seq(Scans), q # <<>>, Distinct(q)
  PROVE  /\ Head(q) \in Scans /\ In(Head(q), q) /\ Tail(q) \in Seq(Scans) /\ Distinct(Tail(q))
         /\ \A t \in Scans : In(t, Tail(q)) <=> t # Head(q) /\ In(t, q)
<1>1. /\ Head(q) \in Scans /\ Tail(q) \in Seq(Scans) /\ Len(Tail(q)) = Len(q) - 1
      /\ Head(q) = q[1]
      /\ \A i \in 1..Len(Tail(q)) : Tail(q)[i] = q[i + 1]
  BY HeadTailProperties
<1>2. Len(q) \in Nat \ {0} /\ DOMAIN q = 1..Len(q) /\ DOMAIN Tail(q) = 1..(Len(q) - 1)
  BY <1>1, EmptySeq, LenProperties
<1>3. \A n \in Nat \ {0} : /\ 1 \in 1..n
                           /\ \A i \in 1..(n - 1) : i + 1 \in 1..n /\ i + 1 # 1
                           /\ \A i \in 1..n : i = 1 \/ (i - 1 \in 1..(n - 1) /\ (i - 1) + 1 = i)
                           /\ \A i, j \in 1..(n - 1) : i + 1 = j + 1 => i = j
  OBVIOUS
<1>4. \A i \in DOMAIN Tail(q) : i + 1 \in DOMAIN q /\ i + 1 # 1 /\ Tail(q)[i] = q[i + 1]
  BY <1>1, <1>2, <1>3, Zenon
<1>5. \A i \in DOMAIN q : i = 1 \/ (i - 1 \in DOMAIN Tail(q) /\ Tail(q)[i - 1] = q[i])
  BY <1>1, <1>2, <1>3, Zenon
<1>6. 1 \in DOMAIN q /\ \A i, j \in DOMAIN Tail(q) : i + 1 = j + 1 => i = j
  BY <1>2, <1>3, Zenon
<1>7. Distinct(Tail(q))
  BY <1>4, <1>6, Zenon DEF Distinct
<1>8. ASSUME NEW t \in Scans PROVE In(t, Tail(q)) <=> t # Head(q) /\ In(t, q)
  <2>1. ASSUME NEW i \in DOMAIN Tail(q), Tail(q)[i] = t PROVE t # Head(q) /\ In(t, q)
    BY <1>1, <1>4, <1>6, <2>1, Zenon DEF In, Distinct
  <2>2. ASSUME NEW i \in DOMAIN q, q[i] = t, t # Head(q) PROVE In(t, Tail(q))
    BY <1>1, <1>5, <2>2, Zenon DEF In
  <2> QED
    BY <2>1, <2>2 DEF In
<1> QED
  BY <1>1, <1>6, <1>7, <1>8, Zenon DEF In

LEMMA RemovalRows ==
  ASSUME NEW q \in Seq(Scans), Distinct(q), NEW i \in DOMAIN q
  PROVE  LET r == SubSeq(q, 1, i - 1) \o SubSeq(q, i + 1, Len(q)) IN
         Distinct(r) /\ \A t \in Scans : In(t, r) <=> t # q[i] /\ In(t, q)
<1> DEFINE r == SubSeq(q, 1, i - 1) \o SubSeq(q, i + 1, Len(q))
<1>1. /\ DOMAIN q = 1..Len(q) /\ Len(q) \in Nat
      /\ DOMAIN r = 1..(Len(q) - 1)
      /\ \A k \in 1..(Len(q) - 1) : r[k] = IF k < i THEN q[k] ELSE q[k + 1]
  BY Removal
<1> HIDE DEF r
<1> DEFINE old(k) == IF k < i THEN k ELSE k + 1
           new(k) == IF k < i THEN k ELSE k - 1
<1>2. /\ \A k \in DOMAIN r : old(k) \in DOMAIN q /\ old(k) # i
      /\ \A j, k \in DOMAIN r : old(j) = old(k) => j = k
      /\ \A k \in DOMAIN q : k # i => new(k) \in DOMAIN r /\ old(new(k)) = k
  <2>1. \A n \in Nat : \A x \in 1..n :
           /\ \A k \in 1..(n - 1) : (IF k < x THEN k ELSE k + 1) \in (1..n) \ {x}
           /\ \A j, k \in 1..(n - 1) : (IF j < x THEN j ELSE j + 1) = (IF k < x THEN k ELSE k + 1) => j = k
           /\ \A k \in 1..n : k # x =>
                /\ (IF k < x THEN k ELSE k - 1) \in 1..(n - 1)
                /\ (IF (IF k < x THEN k ELSE k - 1) < x THEN (IF k < x THEN k ELSE k - 1)
                    ELSE (IF k < x THEN k ELSE k - 1) + 1) = k
    OBVIOUS
  <2> QED
    BY <1>1, <2>1
<1>3. \A k \in DOMAIN r : r[k] = q[old(k)]
  BY <1>1
<1> HIDE DEF old, new
<1>4. Distinct(r)
  BY <1>2, <1>3, Zenon DEF Distinct
<1>5. ASSUME NEW t \in Scans PROVE In(t, r) <=> t # q[i] /\ In(t, q)
  <2>1. ASSUME NEW k \in DOMAIN r, r[k] = t PROVE t # q[i] /\ In(t, q)
    BY <1>2, <1>3, <2>1, Zenon DEF In, Distinct
  <2>2. ASSUME NEW k \in DOMAIN q, q[k] = t, t # q[i] PROVE In(t, r)
    <3>1. k # i
      BY <2>2
    <3> QED
      BY <1>2, <1>3, <2>2, <3>1, Zenon DEF In
  <2> QED
    BY <2>1, <2>2 DEF In
<1> QED
  BY <1>4, <1>5 DEF r

LEMMA QueueOf ==
  ASSUME IInv
  PROVE  /\ queue \in Seq(Scans) /\ Distinct(queue)
         /\ dashboard # "down" => \A t \in Scans : status[t] = "QUEUED" <=> In(t, queue)
  BY DEF IInv, Types, ServiceTypes, RowsInv, UnfinishedIsHeld, Distinct, In

(* RowsInv from its parts.                                                  *)
LEMMA RowsFrom ==
  ASSUME Distinct(queue)',
         (dashboard # "down" => \A t \in Scans :
            /\ status[t] = "QUEUED" <=> In(t, queue)
            /\ status[t] \in {"RUNNING", "CANCEL_REQUESTED"} <=> active = t)',
         (\A t \in Scans : status[t] \in {"none", "QUEUED"} =>
            process[t] = "none" /\ lease[t] = "none" /\ resource[t] = "none" /\ ~Owned(t))',
         (\A t \in reconciler.rows : status[t] = "INTERRUPTED")',
         (reconciler.recorded \in reconciler.rows \cup {NoScan})'
  PROVE  RowsInv'
  BY Zenon DEF RowsInv, UnfinishedIsHeld, Distinct, In

LEMMA RowsFrame ==
  ASSUME RowsInv, UNCHANGED <<status, queue, active, dashboard, reconciler>>,
         \A t \in Scans : process[t] = "none" /\ lease[t] = "none" /\ resource[t] = "none" /\ ~Owned(t) =>
            (process[t] = "none" /\ lease[t] = "none" /\ resource[t] = "none" /\ ~Owned(t))'
  PROVE  RowsInv'
  BY DEF RowsInv, UnfinishedIsHeld

LEMMA WorkerRows == ASSUME IInv, NEW s \in Scans, WorkerStep(s) PROVE RowsInv'
<1>1. process[s] # "none" /\ \A t \in Scans \ {s} : process'[t] = process[t]
  BY DEF WorkerStep, handleMessage, WorkerShutdown, WorkerLoaded, onDisconnect, onSignal, ShutdownDeadline,
     WorkerCrash, WriteCheckpoint, FinishJob, Exit, Alive, IInv, Types, WorkerTypes, CustodyInv, workerVars
<1>2. UNCHANGED <<status, queue, active, dashboard, reconciler, lease, resource, manager>>
  BY WorkerFrame DEF memoryVars
<1>3. RowsInv
  BY DEF IInv
<1> QED
  BY <1>1, <1>2, <1>3, RowsFrame DEF Owned

LEMMA ManagerRows == ASSUME IInv, NEW s \in Scans, ManagerStep(s) PROVE RowsInv'
<1>1. Owned(s)
  BY DEF ManagerStep, Terminate, LoseCustody, terminateOwned, retainResource, RetentionFails, Drained,
     Connected, Awaited, Owned
<1>2. \A t \in Scans \ {s} : process'[t] = process[t] /\ resource'[t] = resource[t]
  BY DEF ManagerStep, Terminate, LoseCustody, terminateOwned, retainResource, RetentionFails, Exit,
     IInv, Types, WorkerTypes, RowTypes, workerVars
<1>3. UNCHANGED <<status, queue, active, dashboard, reconciler, lease>>
  BY ManagerFrame DEF memoryVars
<1>4. \A t \in Scans : Owned(t)' => Owned(t)
  BY ManagerMemory
<1>5. RowsInv
  BY DEF IInv
<1> QED
  BY <1>1, <1>2, <1>3, <1>4, <1>5, RowsFrame

LEMMA SettleRows == ASSUME IInv, NEW s \in Scans, SettleStep(s) PROVE RowsInv'
<1>1. Owned(s)
  BY SettleMemory DEF Awaited, Owned
<1>2. \A t \in Scans \ {s} : manager'[t] = manager[t] /\ lease'[t] = lease[t]
  <2>1. lease' = lease \/ lease' = [lease EXCEPT ![s] = "released"]
    BY DEF SettleStep, onMessage, onExit, onError, Advance, settle, settleUnrecorded
  <2> QED
    BY <2>1, SettleMemory DEF IInv, Types, RowTypes
<1>3. UNCHANGED <<status, queue, active, dashboard, reconciler, resource, process>>
  BY SettleFrame
<1>4. RowsInv
  BY DEF IInv
<1> QED
  BY <1>1, <1>2, <1>3, <1>4, RowsFrame DEF Owned

LEMMA IngestRows == ASSUME IInv, NEW s \in Scans, IngestStep(s) PROVE RowsInv'
<1>1. UNCHANGED <<lease, resource, dashboard, queue, manager, reconciler, process>>
  BY IngestFrame
<1>2. active = s /\ call \in {"read", "record"} /\ dashboard # "down"
  BY ScanJobsAssumption DEF IngestStep, ingestRead, ingestRecord, ingestFail, IInv, MemoryInv
<1>3. \/ status' = status /\ active' = active
      \/ active' = NoScan /\ \E e \in Ended : status' = [status EXCEPT ![s] = e]
  <2>1. result \in Ended
    BY <1>2 DEF IInv, Types, ServiceTypes, MemoryInv
  <2> QED
    BY <2>1 DEF IngestStep, ingestRead, ingestRecord, ingestFail, EndRun, Ended
<1>4. CASE status' = status /\ active' = active
  BY <1>1, <1>4, RowsFrame DEF IInv, Owned
<1>5. ASSUME active' = NoScan, NEW e \in Ended, status' = [status EXCEPT ![s] = e]
      PROVE  RowsInv'
  <2>1. status'[s] = e /\ \A t \in Scans \ {s} : status'[t] = status[t]
    BY <1>5 DEF IInv, Types, RowTypes
  <2>2. status[s] \in {"RUNNING", "CANCEL_REQUESTED"} /\ e \notin {"none", "QUEUED", "RUNNING", "CANCEL_REQUESTED"}
    BY <1>2, <1>5 DEF IInv, RowsInv, UnfinishedIsHeld, Ended
  <2>3. Distinct(queue)'
    BY <1>1, QueueOf
  <2>4. \A t \in Scans : /\ status'[t] = "QUEUED" <=> In(t, queue)'
                         /\ status'[t] \in {"RUNNING", "CANCEL_REQUESTED"} <=> active' = t
    <3>1. \A t \in Scans : In(t, queue)' <=> In(t, queue)
      BY <1>1 DEF In
    <3> QED
      BY <1>2, <1>5, <2>1, <2>2, <3>1, QueueOf, ScanJobsAssumption DEF IInv, RowsInv, UnfinishedIsHeld
  <2>5. \A t \in Scans : status'[t] \in {"none", "QUEUED"} =>
            process'[t] = "none" /\ lease'[t] = "none" /\ resource'[t] = "none" /\ ~Owned(t)'
    BY <1>1, <2>1, <2>2 DEF IInv, RowsInv, Owned
  <2>6. /\ \A t \in reconciler'.rows : status'[t] = "INTERRUPTED"
        /\ reconciler'.recorded \in reconciler'.rows \cup {NoScan}
    BY <1>1, <2>1, <2>2 DEF IInv, Types, ServiceTypes, RowsInv
  <2> QED
    BY <2>3, <2>4, <2>5, <2>6, RowsFrom
<1> QED
  BY <1>3, <1>4, <1>5

LEMMA RowRows == ASSUME IInv, NEW s \in Scans, RowStep(s) PROVE RowsInv'
<1>1. UNCHANGED <<status, lease, resource, dashboard, queue, active, manager, process>>
  BY RowFrame
<1>2. /\ s \in reconciler.rows
      /\ \/ reconciler' = Idle
         \/ reconciler' = [reconciler EXCEPT !.rows = @ \ {s}, !.recorded = NoScan]
         \/ reconciler' = [reconciler EXCEPT !.recorded = s]
  BY ScanJobsAssumption DEF RowStep, ReconcileRead, ReconcileRecord, ReconcileFail, NextRow, IInv, RowsInv
<1>3. /\ reconciler'.rows \subseteq reconciler.rows
      /\ reconciler'.recorded \in reconciler'.rows \cup {NoScan}
  <2>1. reconciler \in [step : {"idle", "leases", "rows"}, rows : SUBSET Scans,
                        recorded : Scans \cup {NoScan}]
    BY DEF IInv, Types, ServiceTypes
  <2>2. CASE reconciler' = Idle
    BY <2>2 DEF Idle
  <2>3. CASE reconciler' = [reconciler EXCEPT !.rows = @ \ {s}, !.recorded = NoScan]
    <3>1. reconciler'.rows = reconciler.rows \ {s} /\ reconciler'.recorded = NoScan
      BY <2>1, <2>3
    <3> QED
      BY <3>1, Zenon
  <2>4. CASE reconciler' = [reconciler EXCEPT !.recorded = s]
    <3>1. reconciler'.rows = reconciler.rows /\ reconciler'.recorded = s
      BY <2>1, <2>4
    <3> QED
      BY <1>2, <3>1, Zenon
  <2> QED
    BY <1>2, <2>2, <2>3, <2>4
<1> QED
  BY <1>1, <1>3 DEF IInv, RowsInv, UnfinishedIsHeld, Owned

LEMMA EnqueueRows == ASSUME IInv, NEW s \in Scans, enqueue(s) PROVE RowsInv'
<1>1. UNCHANGED <<lease, resource, dashboard, active, manager, process, reconciler>> /\ dashboard # "down"
  BY DEF enqueue, workerVars
<1>2. status[s] = "none" /\ status'[s] = "QUEUED" /\ \A t \in Scans \ {s} : status'[t] = status[t]
  BY DEF enqueue, IInv, Types, RowTypes
<1>3. Distinct(queue)' /\ \A t \in Scans : In(t, queue)' <=> t = s \/ In(t, queue)
  <2>1. queue' = Append(queue, s) /\ ~In(s, queue)
    BY <1>1, <1>2, QueueOf DEF enqueue
  <2>2. /\ Distinct(Append(queue, s))
        /\ \A t \in Scans : In(t, Append(queue, s)) <=> t = s \/ In(t, queue)
    BY <2>1, QueueOf, AppendRows
  <2> QED
    BY <2>1, <2>2, Zenon DEF Distinct, In
<1>4. \A t \in Scans : /\ status'[t] = "QUEUED" <=> In(t, queue)'
                       /\ status'[t] \in {"RUNNING", "CANCEL_REQUESTED"} <=> active' = t
  BY <1>1, <1>2, <1>3, QueueOf DEF IInv, RowsInv, UnfinishedIsHeld
<1>5. \A t \in Scans : status'[t] \in {"none", "QUEUED"} =>
          process'[t] = "none" /\ lease'[t] = "none" /\ resource'[t] = "none" /\ ~Owned(t)'
  BY <1>1, <1>2 DEF IInv, RowsInv, Owned
<1>6. /\ \A t \in reconciler'.rows : status'[t] = "INTERRUPTED"
      /\ reconciler'.recorded \in reconciler'.rows \cup {NoScan}
  BY <1>1, <1>2 DEF IInv, Types, ServiceTypes, RowsInv
<1> QED
  BY <1>3, <1>4, <1>5, <1>6, RowsFrom

LEMMA CancelRows == ASSUME IInv, NEW s \in Scans, cancel(s) PROVE RowsInv'
<1>1. UNCHANGED <<lease, resource, dashboard, active, process, reconciler>> /\ dashboard # "down"
  BY DEF cancel, workerVars
<1>2. CASE queue' = queue /\ status' # [status EXCEPT ![s] = "CANCELLED"]
  <2>1. /\ status[s] = "RUNNING" /\ active = s /\ status' = [status EXCEPT ![s] = "CANCEL_REQUESTED"]
        /\ manager' = manager \/ manager' = [manager EXCEPT ![s].cancel = TRUE]
    BY <1>2 DEF cancel, managerCancel
  <2>2. status'[s] = "CANCEL_REQUESTED" /\ \A t \in Scans \ {s} : status'[t] = status[t]
    BY <2>1 DEF IInv, Types, RowTypes
  <2>3. \A t \in Scans : Owned(t)' <=> Owned(t)
    BY <2>1 DEF IInv, Types, ManagerTypes, Owned
  <2>4. Distinct(queue)' /\ \A t \in Scans : In(t, queue)' <=> In(t, queue)
    BY <1>2, QueueOf DEF In
  <2>5. \A t \in Scans : /\ status'[t] = "QUEUED" <=> In(t, queue)'
                         /\ status'[t] \in {"RUNNING", "CANCEL_REQUESTED"} <=> active' = t
    BY <1>1, <2>1, <2>2, <2>4, QueueOf DEF IInv, RowsInv, UnfinishedIsHeld
  <2>6. \A t \in Scans : status'[t] \in {"none", "QUEUED"} =>
            process'[t] = "none" /\ lease'[t] = "none" /\ resource'[t] = "none" /\ ~Owned(t)'
    BY <1>1, <2>1, <2>2, <2>3 DEF IInv, RowsInv
  <2>7. /\ \A t \in reconciler'.rows : status'[t] = "INTERRUPTED"
        /\ reconciler'.recorded \in reconciler'.rows \cup {NoScan}
    BY <1>1, <2>1, <2>2 DEF IInv, Types, ServiceTypes, RowsInv
  <2> QED
    BY <2>4, <2>5, <2>6, <2>7, RowsFrom
<1>3. ASSUME NEW i \in DOMAIN queue, queue[i] = s,
             queue' = SubSeq(queue, 1, i - 1) \o SubSeq(queue, i + 1, Len(queue)),
             status' = [status EXCEPT ![s] = "CANCELLED"], UNCHANGED manager
      PROVE  RowsInv'
  <2>1. status[s] = "QUEUED" /\ active # s
    BY <1>1, <1>3, QueueOf DEF In, IInv, RowsInv, UnfinishedIsHeld
  <2>2. status'[s] = "CANCELLED" /\ \A t \in Scans \ {s} : status'[t] = status[t]
    BY <1>3 DEF IInv, Types, RowTypes
  <2>3. Distinct(queue)' /\ \A t \in Scans : In(t, queue)' <=> t # s /\ In(t, queue)
    <3> DEFINE r == SubSeq(queue, 1, i - 1) \o SubSeq(queue, i + 1, Len(queue))
    <3>1. Distinct(r) /\ \A t \in Scans : In(t, r) <=> t # queue[i] /\ In(t, queue)
      BY QueueOf, RemovalRows
    <3>2. queue' = r
      BY <1>3
    <3> HIDE DEF r
    <3> QED
      BY <1>3, <3>1, <3>2, Zenon DEF Distinct, In
  <2>4. \A t \in Scans : /\ status'[t] = "QUEUED" <=> In(t, queue)'
                         /\ status'[t] \in {"RUNNING", "CANCEL_REQUESTED"} <=> active' = t
    BY <1>1, <2>1, <2>2, <2>3, QueueOf DEF IInv, RowsInv, UnfinishedIsHeld
  <2>5. \A t \in Scans : status'[t] \in {"none", "QUEUED"} =>
            process'[t] = "none" /\ lease'[t] = "none" /\ resource'[t] = "none" /\ ~Owned(t)'
    BY <1>1, <1>3, <2>1, <2>2 DEF IInv, RowsInv, Owned
  <2>6. /\ \A t \in reconciler'.rows : status'[t] = "INTERRUPTED"
        /\ reconciler'.recorded \in reconciler'.rows \cup {NoScan}
    BY <1>1, <2>1, <2>2 DEF IInv, Types, ServiceTypes, RowsInv
  <2> QED
    BY <2>3, <2>4, <2>5, <2>6, RowsFrom
<1>4. \/ queue' = queue /\ status' # [status EXCEPT ![s] = "CANCELLED"]
      \/ \E i \in DOMAIN queue : /\ queue[i] = s
                                 /\ queue' = SubSeq(queue, 1, i - 1) \o SubSeq(queue, i + 1, Len(queue))
                                 /\ status' = [status EXCEPT ![s] = "CANCELLED"]
                                 /\ UNCHANGED manager
  <2>1. ASSUME status' = [status EXCEPT ![s] = "CANCEL_REQUESTED"]
        PROVE  status' # [status EXCEPT ![s] = "CANCELLED"]
    BY <2>1 DEF IInv, Types, RowTypes
  <2> QED
    BY <2>1, Zenon DEF cancel
<1> QED
  BY <1>2, <1>3, <1>4

LEMMA PumpRows == ASSUME IInv, pump PROVE RowsInv'
<1> DEFINE s == Head(queue)
<1>1. /\ s \in Scans /\ In(s, queue) /\ Distinct(queue)'
      /\ \A t \in Scans : In(t, queue)' <=> t # s /\ In(t, queue)
  <2>1. queue' = Tail(queue) /\ queue # <<>>
    BY DEF pump
  <2> QED
    BY <2>1, QueueOf, TailRows, Zenon DEF Distinct, In
<1>2. UNCHANGED <<dashboard, reconciler>> /\ dashboard # "down" /\ active = NoScan
  BY DEF pump
<1>3. \/ /\ status' = [status EXCEPT ![s] = "FAILED"]
         /\ UNCHANGED <<lease, resource, active, manager, process>>
      \/ /\ status' = [status EXCEPT ![s] = "RUNNING"] /\ active' = s
         /\ lease' = [lease EXCEPT ![s] = "held"] /\ resource' = [resource EXCEPT ![s] = "LIVE"]
         /\ manager' = [manager EXCEPT ![s] = Forked] /\ process' = [process EXCEPT ![s] = "bootstrap"]
  BY DEF pump
<1> HIDE DEF s
<1>4. /\ \/ status'[s] = "FAILED" /\ active' = NoScan
         \/ status'[s] = "RUNNING" /\ active' = s
      /\ \A t \in Scans \ {s} :
            /\ status'[t] = status[t] /\ lease'[t] = lease[t] /\ resource'[t] = resource[t]
            /\ manager'[t] = manager[t] /\ process'[t] = process[t]
  BY <1>1, <1>2, <1>3 DEF IInv, Types, RowTypes, ManagerTypes, WorkerTypes
<1>5. status[s] = "QUEUED"
  BY <1>1, <1>2, QueueOf
<1>6. \A t \in Scans : /\ status'[t] = "QUEUED" <=> In(t, queue)'
                       /\ status'[t] \in {"RUNNING", "CANCEL_REQUESTED"} <=> active' = t
  BY <1>1, <1>2, <1>4, <1>5, QueueOf, ScanJobsAssumption DEF IInv, RowsInv, UnfinishedIsHeld
<1>7. \A t \in Scans : status'[t] \in {"none", "QUEUED"} =>
          process'[t] = "none" /\ lease'[t] = "none" /\ resource'[t] = "none" /\ ~Owned(t)'
  BY <1>1, <1>4 DEF IInv, RowsInv, Owned
<1>8. /\ \A t \in reconciler'.rows : status'[t] = "INTERRUPTED"
      /\ reconciler'.recorded \in reconciler'.rows \cup {NoScan}
  BY <1>2, <1>4, <1>5 DEF IInv, Types, ServiceTypes, RowsInv
<1> QED
  BY <1>1, <1>6, <1>7, <1>8, RowsFrom

LEMMA DashboardRows == ASSUME IInv, DashboardStep PROVE RowsInv'
<1> USE DEF IInv
<1>1. CASE BeginShutdown
  <2>1. UNCHANGED <<status, queue, active, reconciler, process, lease, resource, manager>>
        /\ dashboard = "up" /\ dashboard' # "down"
    BY <1>1 DEF BeginShutdown, serviceVars, workerVars
  <2> QED
    BY <2>1 DEF RowsInv, UnfinishedIsHeld, Owned
<1>2. CASE StartReconcile
  <2>1. UNCHANGED <<status, queue, active, dashboard, process, lease, resource, manager>>
        /\ reconciler'.rows = {} /\ reconciler'.recorded = NoScan
    BY <1>2 DEF StartReconcile, serviceVars, workerVars, Idle
  <2> QED
    BY <2>1 DEF RowsInv, UnfinishedIsHeld, Owned
<1>3. ASSUME NEW due \in BOOLEAN, ReconcileLeases(due) PROVE RowsInv'
  <2>1. PICK expired \in {{}, Expirable} :
          /\ status' = [t \in Scans |-> IF t \in expired /\ status[t] \in Unfinished
                                        THEN "INTERRUPTED" ELSE status[t]]
          /\ lease' = [t \in Scans |-> IF t \in expired THEN "released" ELSE lease[t]]
          /\ resource' = [t \in Scans |-> IF t \in expired /\ resource[t] = "LIVE"
                                          THEN "UNKNOWN_RETAINED" ELSE resource[t]]
    BY <1>3 DEF ReconcileLeases
  <2>2. UNCHANGED <<queue, active, dashboard, process, manager>> /\ dashboard # "down"
    BY <1>3 DEF ReconcileLeases, serviceVars, workerVars
  <2>3. \A t \in expired : lease[t] = "held" /\ t # active
    BY <2>1 DEF Expirable
  <2>4. \A t \in expired : t \in Scans /\ status[t] \notin Unfinished
    BY <2>1, <2>2, <2>3 DEF RowsInv, UnfinishedIsHeld, Unfinished, Expirable
  <2>5. \A t \in Scans : status'[t] = status[t]
    BY <2>1, <2>4
  <2>6. \A t \in Scans : status[t] \in {"none", "QUEUED"} => lease'[t] = lease[t] /\ resource'[t] = resource[t]
    BY <2>1, <2>3 DEF RowsInv
  <2>7. /\ \A t \in reconciler'.rows : status'[t] = "INTERRUPTED"
        /\ reconciler'.recorded \in reconciler'.rows \cup {NoScan}
    <3>1. PICK rows : /\ \A t \in rows : status'[t] = "INTERRUPTED"
                      /\ reconciler' = IF rows = {} THEN Idle ELSE [Idle EXCEPT !.step = "rows", !.rows = rows]
      BY <1>3, <2>5 DEF ReconcileLeases, Unaccounted
    <3> QED
      BY <3>1 DEF Idle
  <2> QED
    BY <2>2, <2>5, <2>6, <2>7 DEF RowsInv, UnfinishedIsHeld, Owned
<1>4. CASE shutdown
  <2>1. /\ UNCHANGED <<lease, resource, active, process, reconciler>> /\ reconciler = Idle
        /\ queue' = <<>> /\ dashboard = "stopping"
        /\ status' = [t \in Scans |-> IF status[t] = "QUEUED" THEN "INTERRUPTED" ELSE status[t]]
    BY <1>4 DEF shutdown, workerVars
  <2>2. \A t \in Scans : Owned(t)' <=> Owned(t)
    <3>1. \/ manager' = manager
          \/ active \in Scans /\ manager' = [manager EXCEPT ![active].cancel = TRUE]
      BY <1>4 DEF shutdown, managerCancel, Types, ServiceTypes
    <3> QED
      BY <3>1 DEF Types, ManagerTypes, Owned
  <2>3. DOMAIN queue' = {}
    BY <2>1
  <2> QED
    BY <2>1, <2>2, <2>3 DEF RowsInv, UnfinishedIsHeld, Idle
<1>5. CASE GoDown
  <2>1. /\ UNCHANGED <<status, lease, resource, process>> /\ dashboard' = "down"
        /\ reconciler' = Idle /\ queue' = <<>> /\ \A t \in Scans : manager'[t] = NotOwned
    BY <1>5 DEF GoDown, workerVars
  <2>2. DOMAIN queue' = {}
    BY <2>1
  <2> QED
    BY <2>1, <2>2 DEF RowsInv, UnfinishedIsHeld, Idle, Owned, NotOwned
<1>6. CASE Start
  <2>1. /\ UNCHANGED <<lease, resource, queue, active, manager, process>>
        /\ status' = [t \in Scans |-> IF status[t] \in Unfinished THEN "INTERRUPTED" ELSE status[t]]
        /\ reconciler' = [Idle EXCEPT !.step = "leases"]
    BY <1>6 DEF Start, serviceVars, workerVars, recoverInterruptedScans
  <2>2. queue = <<>> /\ active = NoScan
    BY <1>6 DEF Start, MemoryInv
  <2>3. DOMAIN queue' = {} /\ reconciler'.rows = {} /\ reconciler'.recorded = NoScan
    BY <2>1, <2>2 DEF Idle
  <2>4. \A t \in Scans : status'[t] \notin {"QUEUED", "RUNNING", "CANCEL_REQUESTED"}
    BY <2>1 DEF Unfinished
  <2> QED
    BY <2>1, <2>2, <2>3, <2>4, ScanJobsAssumption DEF RowsInv, UnfinishedIsHeld, Owned, Unfinished
<1> QED
  BY <1>1, <1>2, <1>3, <1>4, <1>5, <1>6 DEF DashboardStep, Close, DashboardCrash

LEMMA RowsStep ==
  ASSUME IInv, (\E s \in Scans : ScanStep(s)) \/ pump \/ FleetStep \/ DashboardStep
  PROVE  RowsInv'
<1>1. ASSUME NEW s \in Scans, RecoveryStep(s) PROVE RowsInv'
  <2>1. UNCHANGED <<status, queue, active, dashboard, reconciler, process, lease, resource, manager>>
    BY <1>1, RecoveryFrame DEF memoryVars
  <2> QED
    BY <2>1, RowsFrame DEF IInv, Owned
<1>2. CASE FleetStep
  <2>1. UNCHANGED <<status, queue, active, dashboard, reconciler, process, lease, resource, manager>>
    BY <1>2, FleetFrame DEF memoryVars
  <2> QED
    BY <2>1, RowsFrame DEF IInv, Owned
<1> QED
  BY <1>1, <1>2, WorkerRows, ManagerRows, SettleRows, IngestRows, RowRows, EnqueueRows, CancelRows, PumpRows,
     DashboardRows DEF ScanStep

-------------------------------------------------------------------------------
(* CustodyInv is kept: no step but pump gives life to a process, none but   *)
(* BeginRecovery to a recovery, and both look at the table of resources.    *)

LEMMA CustodyFrom ==
  ASSUME IInv,
         \A t \in Scans : Alive(t)' =>
             /\ Alive(t)
             /\ resource'[t] \in {resource[t], "UNKNOWN_RETAINED"}
             /\ Owned(t)' <=> Owned(t),
         \A t \in Scans : recovery'[t] = "running" => recovery[t] = "running",
         \A t \in Scans : signal'[t] # "none" => process'[t] \in {"accepted", "running"}
  PROVE  CustodyInv'
  BY DEF IInv, CustodyInv, SupervisorsExclude

LEMMA CustodyStep ==
  ASSUME IInv, (\E s \in Scans : ScanStep(s)) \/ pump \/ FleetStep \/ DashboardStep
  PROVE  CustodyInv'
<1> USE DEF IInv
<1>1. ASSUME NEW s \in Scans, WorkerStep(s) PROVE CustodyInv'
  <2>1. UNCHANGED <<resource, recovery, manager>>
    BY <1>1, WorkerFrame
  <2>2. /\ \A t \in Scans \ {s} : process'[t] = process[t] /\ signal'[t] = signal[t]
        /\ Alive(s)
        /\ signal'[s] # "none" => process'[s] \in {"accepted", "running"}
    BY <1>1 DEF WorkerStep, handleMessage, WorkerShutdown, WorkerLoaded, onDisconnect, onSignal, ShutdownDeadline,
       WorkerCrash, WriteCheckpoint, FinishJob, Exit, Alive, Types, WorkerTypes, CustodyInv, workerVars
  <2> QED
    BY <2>1, <2>2, CustodyFrom DEF Alive, Owned, CustodyInv
<1>2. ASSUME NEW s \in Scans, SettleStep(s) PROVE CustodyInv'
  <2>1. UNCHANGED <<resource, recovery, process, signal>>
    BY <1>2, SettleFrame
  <2>2. \A t \in Scans : Owned(t)' <=> Owned(t)
    BY <1>2, SettleMemory DEF Owned, Awaited
  <2> QED
    BY <2>1, <2>2, CustodyFrom DEF Alive, CustodyInv
<1>3. ASSUME NEW s \in Scans, ManagerStep(s) PROVE CustodyInv'
  <2>1. UNCHANGED recovery
    BY <1>3, ManagerFrame
  <2>2. \/ /\ UNCHANGED <<process, signal>>
           /\ resource' = resource \/ resource' = [resource EXCEPT ![s] = "UNKNOWN_RETAINED"]
           /\ manager' = manager \/ \E category \in {"manual", "limit"} :
                                        manager' = [manager EXCEPT ![s].termination = category]
        \/ Exit(s) /\ UNCHANGED <<resource, manager>>
        \/ /\ process[s] = "gone" /\ manager' = [manager EXCEPT ![s] = NotOwned] /\ UNCHANGED <<process, signal>>
           /\ \A t \in Scans \ {s} : resource'[t] = resource[t]
    BY <1>3 DEF ManagerStep, Terminate, LoseCustody, terminateOwned, retainResource, RetentionFails, Drained,
       requestTermination, Types, RowTypes, workerVars
  <2>3. CASE /\ UNCHANGED <<process, signal>>
             /\ resource' = resource \/ resource' = [resource EXCEPT ![s] = "UNKNOWN_RETAINED"]
             /\ manager' = manager \/ \E category \in {"manual", "limit"} :
                                          manager' = [manager EXCEPT ![s].termination = category]
    <3>1. \A t \in Scans : resource'[t] \in {resource[t], "UNKNOWN_RETAINED"}
      BY <2>3 DEF Types, RowTypes
    <3>2. \A t \in Scans : Owned(t)' <=> Owned(t)
      BY <2>3 DEF Types, ManagerTypes, Owned
    <3> QED
      BY <2>1, <2>3, <3>1, <3>2, CustodyFrom DEF Alive, CustodyInv
  <2>4. CASE Exit(s) /\ UNCHANGED <<resource, manager>>
    <3>1. /\ process'[s] = "gone" /\ signal'[s] = "none"
          /\ \A t \in Scans \ {s} : process'[t] = process[t] /\ signal'[t] = signal[t]
      BY <2>4 DEF Exit, Types, WorkerTypes
    <3> QED
      BY <2>1, <2>4, <3>1, CustodyFrom DEF Alive, Owned, CustodyInv
  <2>5. CASE /\ process[s] = "gone" /\ manager' = [manager EXCEPT ![s] = NotOwned] /\ UNCHANGED <<process, signal>>
             /\ \A t \in Scans \ {s} : resource'[t] = resource[t]
    <3>1. \A t \in Scans \ {s} : Owned(t)' <=> Owned(t)
      BY <2>5 DEF Types, ManagerTypes, Owned
    <3> QED
      BY <2>1, <2>5, <3>1, CustodyFrom DEF Alive, CustodyInv
  <2> QED
    BY <2>2, <2>3, <2>4, <2>5
<1>4. ASSUME NEW s \in Scans, IngestStep(s) \/ RowStep(s) \/ enqueue(s) PROVE CustodyInv'
  <2>1. UNCHANGED <<recovery, resource, manager, process, signal>>
    BY <1>4, IngestFrame, RowFrame DEF enqueue, workerVars
  <2> QED
    BY <2>1, CustodyFrom DEF Alive, Owned, CustodyInv
<1>5. ASSUME NEW s \in Scans, cancel(s) PROVE CustodyInv'
  <2>1. UNCHANGED <<recovery, resource, process, signal>>
    BY <1>5 DEF cancel, approvalVars, workerVars
  <2>2. manager' = manager \/ manager' = [manager EXCEPT ![s].cancel = TRUE]
    BY <1>5 DEF cancel, managerCancel
  <2>3. \A t \in Scans : Owned(t)' <=> Owned(t)
    BY <2>2 DEF Types, ManagerTypes, Owned
  <2> QED
    BY <2>1, <2>3, CustodyFrom DEF Alive, CustodyInv
<1>6. ASSUME NEW s \in Scans, RecoveryStep(s) PROVE CustodyInv'
  <2>1. UNCHANGED <<resource, manager, process, signal>>
    BY <1>6, RecoveryFrame
  <2>2. CASE \A t \in Scans : recovery'[t] = "running" => recovery[t] = "running"
    BY <2>1, <2>2, CustodyFrom DEF Alive, Owned, CustodyInv
  <2>3. CASE \E t \in Scans : recovery'[t] = "running" /\ recovery[t] # "running"
    <3>1. \A t \in Scans : resource[t] \notin {"LIVE", "UNKNOWN_RETAINED"}
      BY <1>6, <2>3 DEF RecoveryStep, BeginRecovery, EndRecovery, RecoveryFails, Types, RowTypes
    <3> QED
      BY <2>1, <3>1 DEF Alive, Owned, CustodyInv, SupervisorsExclude
  <2> QED
    BY <2>2, <2>3
<1>7. CASE FleetStep
  <2>1. UNCHANGED <<recovery, resource, manager, process, signal>>
    BY <1>7, FleetFrame
  <2> QED
    BY <2>1, CustodyFrom DEF Alive, Owned, CustodyInv
<1>8. CASE pump
  <2>1. UNCHANGED <<recovery, signal>>
    BY <1>8 DEF pump
  <2>2. CASE UNCHANGED <<resource, manager, process>>
    BY <2>1, <2>2, CustodyFrom DEF Alive, Owned, CustodyInv
  <2>3. CASE ~UNCHANGED <<resource, manager, process>>
    <3>1. Head(queue) \in Scans
      BY <1>8, HeadTailProperties DEF pump, Types, ServiceTypes
    <3>2. PICK s \in Scans : /\ resource' = [resource EXCEPT ![s] = "LIVE"]
                             /\ manager' = [manager EXCEPT ![s] = Forked]
                             /\ process' = [process EXCEPT ![s] = "bootstrap"]
                             /\ s = Head(queue)
      BY <1>8, <2>3, <3>1 DEF pump
    <3>3. ~CustodyUnresolved
      BY <1>8, <2>3 DEF pump
    <3>4. /\ \A t \in Scans : Alive(t) => Owned(t)
          /\ \A t \in Scans : recovery[t] # "running"
      BY <3>3 DEF CustodyUnresolved, CustodyInv
    <3>5. /\ Owned(s)' /\ resource'[s] = "LIVE" /\ process'[s] = "bootstrap"
          /\ \A t \in Scans \ {s} : /\ resource'[t] = resource[t] /\ process'[t] = process[t]
                                    /\ Owned(t)' <=> Owned(t)
      BY <3>2 DEF Types, RowTypes, ManagerTypes, WorkerTypes, Forked, NotOwned, Owned
    <3>6. process[s] = "none"
      BY <1>8, <3>2, QueueOf, TailRows DEF pump, RowsInv
    <3> QED
      BY <2>1, <3>4, <3>5, <3>6 DEF Alive, CustodyInv, SupervisorsExclude
  <2> QED
    BY <2>2, <2>3
<1>9. CASE DashboardStep
  <2>1. CASE BeginShutdown \/ StartReconcile
    <3>1. UNCHANGED <<recovery, resource, manager, process, signal>>
      BY <2>1 DEF BeginShutdown, StartReconcile, approvalVars, workerVars
    <3> QED
      BY <3>1, CustodyFrom DEF Alive, Owned, CustodyInv
  <2>2. ASSUME NEW due \in BOOLEAN, ReconcileLeases(due) PROVE CustodyInv'
    <3>1. UNCHANGED <<recovery, manager, process, signal>>
      BY <2>2 DEF ReconcileLeases, workerVars
    <3>2. \A t \in Scans : resource'[t] \in {resource[t], "UNKNOWN_RETAINED"}
      BY <2>2 DEF ReconcileLeases
    <3> QED
      BY <3>1, <3>2, CustodyFrom DEF Alive, Owned, CustodyInv
  <2>3. CASE shutdown
    <3>1. UNCHANGED <<recovery, resource, process, signal>>
      BY <2>3 DEF shutdown, approvalVars, workerVars
    <3>2. \/ manager' = manager
          \/ active \in Scans /\ manager' = [manager EXCEPT ![active].cancel = TRUE]
      BY <2>3 DEF shutdown, managerCancel, Types, ServiceTypes
    <3>3. \A t \in Scans : Owned(t)' <=> Owned(t)
      BY <3>2 DEF Types, ManagerTypes, Owned
    <3> QED
      BY <3>1, <3>3, CustodyFrom DEF Alive, CustodyInv
  <2>4. CASE GoDown
    <3>1. UNCHANGED <<recovery, resource, process, signal>> /\ \A t \in Scans : manager'[t] = NotOwned
      BY <2>4 DEF GoDown, approvalVars, workerVars
    <3> QED
      BY <3>1 DEF Alive, Owned, NotOwned, CustodyInv, SupervisorsExclude
  <2>5. CASE Start
    <3>1. UNCHANGED <<resource, manager, process, signal>> /\ \A t \in Scans : recovery'[t] # "running"
      BY <2>5 DEF Start, workerVars
    <3> QED
      BY <3>1, CustodyFrom DEF Alive, Owned, CustodyInv
  <2> QED
    BY <1>9, <2>1, <2>2, <2>3, <2>4, <2>5 DEF DashboardStep, Close, DashboardCrash
<1> QED
  BY <1>1, <1>2, <1>3, <1>4, <1>5, <1>6, <1>7, <1>8, <1>9 DEF ScanStep

-------------------------------------------------------------------------------
(* ApprovalInv is kept: what finishes an execution or takes an approval for *)
(* interrupted finds it with a scan that has ended.                         *)

LEMMA ApprovalFrame ==
  ASSUME ApprovalInv, UNCHANGED <<approval, recovery>>,
         \A t \in Scans : Consuming(t)' => Consuming(t)
  PROVE  ApprovalInv'
  BY DEF ApprovalInv

(* An execution that is over.                                               *)
LEMMA ApprovalFinish ==
  ASSUME IInv, NEW s \in Scans, NEW cleanupUnresolved \in BOOLEAN, finishExecution(s, cleanupUnresolved),
         UNCHANGED recovery, ~Consuming(s)', \A t \in Scans : Consuming(t)' => Consuming(t)
  PROVE  ApprovalInv'
<1>1. \A t \in Scans \ {s} : approval'[t] = approval[t]
  BY DEF IInv, Types, RowTypes, finishExecution
<1>2. approval'[s] \in {approval[s], "CLEANUP_REQUIRED", "COMPLETED"} /\ (approval[s] # "EXECUTING" => approval'[s] = approval[s])
  BY DEF IInv, Types, RowTypes, finishExecution
<1> QED
  BY <1>1, <1>2 DEF IInv, ApprovalInv

LEMMA ApprovalStep ==
  ASSUME IInv, (\E s \in Scans : ScanStep(s)) \/ pump \/ FleetStep \/ DashboardStep
  PROVE  ApprovalInv'
<1> USE DEF IInv
<1>1. ASSUME NEW s \in Scans, WorkerStep(s) \/ ManagerStep(s) PROVE ApprovalInv'
  <2>1. UNCHANGED <<approval, recovery, status, active, call>>
    BY <1>1, WorkerFrame, ManagerFrame DEF memoryVars
  <2> QED
    BY <2>1, ApprovalFrame DEF Consuming
<1>2. CASE FleetStep
  <2>1. UNCHANGED <<approval, recovery, status, active, call>>
    BY <1>2, FleetFrame DEF memoryVars
  <2> QED
    BY <2>1, ApprovalFrame DEF Consuming
<1>3. ASSUME NEW s \in Scans, SettleStep(s) PROVE ApprovalInv'
  <2>1. UNCHANGED <<approval, recovery, status, active>> /\ active = s /\ call = "worker"
    BY <1>3, SettleFrame, SettleMemory
  <2> QED
    BY <2>1, ApprovalFrame DEF Consuming
<1>4. ASSUME NEW s \in Scans, IngestStep(s) PROVE ApprovalInv'
  <2>1. active = s /\ UNCHANGED recovery /\ dashboard # "down"
    BY <1>4, IngestFrame, ScanJobsAssumption DEF IngestStep, ingestRead, ingestRecord, ingestFail, MemoryInv
  <2>2. \/ UNCHANGED <<status, active>> /\ call' = "record"
        \/ active' = NoScan /\ \E e \in Ended : status' = [status EXCEPT ![s] = e]
    <3>1. call \in {"read", "record"} => result \in Ended
      BY DEF Types, ServiceTypes, MemoryInv
    <3> QED
      BY <1>4, <3>1 DEF IngestStep, ingestRead, ingestRecord, ingestFail, EndRun, Ended
  <2>3. ~Consuming(s)' /\ \A t \in Scans : Consuming(t)' => Consuming(t)
    <3>1. status[s] # "QUEUED"
      BY <2>1 DEF RowsInv, UnfinishedIsHeld
    <3>2. \A t \in Scans : status'[t] = "QUEUED" => status[t] = "QUEUED"
      BY <2>2 DEF Types, RowTypes, Ended
    <3>3. \A t \in Scans \ {s} : active # t
      BY <2>1
    <3> QED
      BY <2>2, <3>1, <3>2, <3>3, ScanJobsAssumption DEF Consuming, Types, RowTypes, Ended
  <2>4. approval' = approval \/ \E cleanupUnresolved \in BOOLEAN : finishExecution(s, cleanupUnresolved)
    BY <1>4 DEF IngestStep, ingestRead, ingestRecord, ingestFail, approvalVars
  <2> QED
    BY <2>1, <2>3, <2>4, ApprovalFrame, ApprovalFinish
<1>5. ASSUME NEW s \in Scans, RowStep(s) PROVE ApprovalInv'
  <2>1. UNCHANGED <<recovery, status, active, call, dashboard>>
    BY <1>5, RowFrame
  <2>2. \/ approval' = approval
        \/ /\ s \in reconciler.rows /\ dashboard # "down"
           /\ \E cleanupUnresolved \in BOOLEAN : finishExecution(s, cleanupUnresolved)
    BY <1>5 DEF RowStep, ReconcileRead, ReconcileRecord, ReconcileFail, approvalVars
  <2>3. ASSUME s \in reconciler.rows, dashboard # "down" PROVE ~Consuming(s)'
    <3>1. status[s] = "INTERRUPTED" /\ active # s
      BY <2>3 DEF RowsInv, UnfinishedIsHeld
    <3> QED
      BY <2>1, <3>1 DEF Consuming
  <2>4. \A t \in Scans : Consuming(t)' => Consuming(t)
    BY <2>1 DEF Consuming
  <2> QED
    BY <2>1, <2>2, <2>3, <2>4, ApprovalFrame, ApprovalFinish
<1>6. ASSUME NEW s \in Scans, RecoveryStep(s) PROVE ApprovalInv'
  <2>1. UNCHANGED <<status, active, call>>
    BY <1>6, RecoveryFrame DEF memoryVars
  <2>2. \A t \in Scans : Consuming(t)' <=> Consuming(t)
    BY <2>1 DEF Consuming
  <2>3. \A t \in Scans \ {s} : approval'[t] = approval[t] /\ recovery'[t] = recovery[t]
    BY <1>6 DEF RecoveryStep, BeginRecovery, EndRecovery, RecoveryFails, Types, RowTypes
  <2>4. \/ recovery[s] = "running"
        \/ recovery[s] = "none" /\ approval[s] \in {"APPROVED", "CLEANUP_REQUIRED", "CLEANUP_FAILED"}
    BY <1>6 DEF RecoveryStep, BeginRecovery, EndRecovery, RecoveryFails
  <2>5. s \in Mutating => ~Consuming(s)
    BY <2>4 DEF ApprovalInv
  <2>6. approval'[s] \in {"EXECUTING", "COMPLETED", "CLEANUP_FAILED"} \/ (recovery[s] # "none" /\ approval'[s] = approval[s])
    BY <1>6, <2>4 DEF RecoveryStep, BeginRecovery, EndRecovery, RecoveryFails, Types, RowTypes
  <2>7. s \in Mutating
    BY <2>4 DEF ApprovalInv
  <2> QED
    BY <2>2, <2>3, <2>4, <2>5, <2>6, <2>7 DEF ApprovalInv
<1>7. ASSUME NEW s \in Scans, enqueue(s) PROVE ApprovalInv'
  <2>1. UNCHANGED <<recovery, active, call>> /\ approval[s] \in {"none", "APPROVED"}
    BY <1>7 DEF enqueue, beginExecution
  <2>2. \A t \in Scans \ {s} : approval'[t] = approval[t] /\ status'[t] = status[t]
    BY <1>7 DEF enqueue, beginExecution, Types, RowTypes
  <2>3. approval'[s] = IF approval[s] = "APPROVED" THEN "EXECUTING" ELSE approval[s]
    BY <1>7 DEF enqueue, beginExecution, Types, RowTypes
  <2>4. \A t \in Scans \ {s} : Consuming(t)' => Consuming(t)
    BY <2>1, <2>2 DEF Consuming
  <2> QED
    BY <2>1, <2>2, <2>3, <2>4 DEF ApprovalInv
<1>8. ASSUME NEW s \in Scans, cancel(s) PROVE ApprovalInv'
  <2>1. UNCHANGED <<approval, recovery, active, call>>
    BY <1>8 DEF cancel, approvalVars
  <2>2. status' = [status EXCEPT ![s] = "CANCELLED"] \/ status' = [status EXCEPT ![s] = "CANCEL_REQUESTED"]
    BY <1>8 DEF cancel
  <2>3. \A t \in Scans : status'[t] = "QUEUED" => status[t] = "QUEUED"
    BY <2>2 DEF Types, RowTypes
  <2> QED
    BY <2>1, <2>3, ApprovalFrame DEF Consuming
<1>9. CASE pump
  <2>1. UNCHANGED recovery /\ active = NoScan
    BY <1>9 DEF pump
  <2>2. PICK s \in Scans : s = Head(queue) /\ status[s] = "QUEUED"
    BY <1>9, QueueOf, TailRows DEF pump
  <2>3. \/ /\ status' = [status EXCEPT ![s] = "FAILED"] /\ finishExecution(s, TRUE) /\ UNCHANGED active
        \/ /\ status' = [status EXCEPT ![s] = "RUNNING"] /\ UNCHANGED approval /\ active' = s
    BY <1>9, <2>2 DEF pump
  <2>4. CASE /\ status' = [status EXCEPT ![s] = "FAILED"] /\ finishExecution(s, TRUE) /\ UNCHANGED active
    <3>1. status'[s] = "FAILED" /\ \A t \in Scans \ {s} : status'[t] = status[t]
      BY <2>2, <2>4 DEF Types, RowTypes
    <3>2. ~Consuming(s)' /\ \A t \in Scans : Consuming(t)' => Consuming(t)
      BY <2>1, <2>2, <2>4, <3>1, ScanJobsAssumption DEF Consuming
    <3> QED
      BY <2>1, <2>2, <2>4, <3>2, ApprovalFinish
  <2>5. CASE /\ status' = [status EXCEPT ![s] = "RUNNING"] /\ UNCHANGED approval /\ active' = s
    <3>1. \A t \in Scans : Consuming(t)' => Consuming(t)
      BY <2>1, <2>2, <2>5 DEF Consuming, Types, RowTypes
    <3> QED
      BY <2>1, <2>5, <3>1, ApprovalFrame
  <2> QED
    BY <2>3, <2>4, <2>5
<1>10. CASE DashboardStep
  <2>1. CASE BeginShutdown \/ StartReconcile
    <3>1. UNCHANGED <<approval, recovery, status, active, call>>
      BY <2>1 DEF BeginShutdown, StartReconcile, approvalVars, serviceVars
    <3> QED
      BY <3>1, ApprovalFrame DEF Consuming
  <2>2. ASSUME NEW due \in BOOLEAN, ReconcileLeases(due) PROVE ApprovalInv'
    <3>1. UNCHANGED <<recovery, active, call, dashboard>> /\ dashboard # "down"
      BY <2>2 DEF ReconcileLeases, serviceVars
    <3>2. \A t \in Scans : status'[t] = status[t] \/ (status'[t] = "INTERRUPTED" /\ t # active)
      BY <2>2 DEF ReconcileLeases, Expirable
    <3>3. \A t \in Scans : Consuming(t)' => /\ Consuming(t)
                                            /\ status'[t] \in {"QUEUED", "RUNNING", "CANCEL_REQUESTED"}
      BY <3>1, <3>2 DEF Consuming, RowsInv, UnfinishedIsHeld
    <3>4. \A t \in Scans :
             \/ approval'[t] = approval[t]
             \/ /\ approval[t] = "EXECUTING" /\ approval'[t] = "CLEANUP_REQUIRED"
                /\ status'[t] \in {"FAILED", "INTERRUPTED", "CANCELLED"}
      BY <2>2 DEF ReconcileLeases, recoverInterruptedExecutions
    <3> QED
      BY <3>1, <3>3, <3>4 DEF ApprovalInv
  <2>3. CASE shutdown
    <3>1. /\ UNCHANGED <<approval, recovery, active, call>>
          /\ \A t \in Scans : status'[t] = "QUEUED" => status[t] = "QUEUED"
      BY <2>3 DEF shutdown, approvalVars
    <3> QED
      BY <3>1, ApprovalFrame DEF Consuming
  <2>4. CASE GoDown
    <3>1. UNCHANGED <<approval, recovery, status>> /\ call' = "none"
      BY <2>4 DEF GoDown, approvalVars
    <3> QED
      BY <3>1, ApprovalFrame DEF Consuming
  <2>5. CASE Start
    <3>1. UNCHANGED <<active, call>> /\ active = NoScan
      BY <2>5 DEF Start, serviceVars, MemoryInv
    <3>2. \A t \in Scans : status'[t] # "QUEUED"
      BY <2>5 DEF Start, recoverInterruptedScans, Unfinished
    <3>3. \A t \in Scans : ~Consuming(t)'
      BY <3>1, <3>2, ScanJobsAssumption DEF Consuming
    <3>4. \A t \in Scans : /\ approval'[t] = approval[t] \/ (approval[t] = "EXECUTING" /\ approval'[t] = "CLEANUP_FAILED")
                           /\ recovery'[t] = recovery[t] \/ (recovery[t] = "running" /\ recovery'[t] = "UNKNOWN")
      BY <2>5 DEF Start
    <3> QED
      BY <3>3, <3>4 DEF ApprovalInv
  <2> QED
    BY <1>10, <2>1, <2>2, <2>3, <2>4, <2>5 DEF DashboardStep, Close, DashboardCrash
<1> QED
  BY <1>1, <1>2, <1>3, <1>4, <1>5, <1>6, <1>7, <1>8, <1>9, <1>10 DEF ScanStep

-------------------------------------------------------------------------------
(* CancelInv is kept.                                                       *)

Stopping(s) == Awaited(s) /\ StopRequested(s)
CancelOf(s) ==
    /\ Stopping(s) /\ process[s] = "running" => signal[s] # "none" \/ In("CANCEL_JOB", toWorker[s])
    /\ \A i \in DOMAIN toWorker[s] :
          /\ Stopping(s)
          /\ process[s] \in {"bootstrap", "loading", "ready", "accepted"}
          /\ toWorker[s][i] = "START_JOB"
          => signal[s] # "none" \/ \E j \in DOMAIN toWorker[s] : i < j /\ toWorker[s][j] = "CANCEL_JOB"

LEMMA CancelParts == CancelInv <=> \A s \in Scans : CancelOf(s)
  BY Zenon DEF CancelInv, CancellationNotLost, CancelOf, Stopping, In

LEMMA CancelFrame ==
  ASSUME NEW t \in Scans, CancelOf(t), Stopping(t)' => Stopping(t),
         process'[t] = process[t], signal'[t] = signal[t], toWorker'[t] = toWorker[t]
  PROVE  CancelOf(t)'
  BY Zenon DEF CancelOf, In

LEMMA CancelVacuous == ASSUME NEW t \in Scans, ~Stopping(t)' PROVE CancelOf(t)'
  BY Zenon DEF CancelOf

LEMMA CancelSent ==
  ASSUME ChannelTypes, NEW t \in Scans, toWorker'[t] = Append(toWorker[t], "CANCEL_JOB")
  PROVE  CancelOf(t)'
<1> DEFINE q == toWorker[t]
<1>1. q \in Seq(Commands) /\ "CANCEL_JOB" \in Commands
  BY DEF ChannelTypes, Commands
<1>2. /\ Append(q, "CANCEL_JOB") \in Seq(Commands) /\ Len(Append(q, "CANCEL_JOB")) = Len(q) + 1
      /\ \A i \in 1..Len(q) : Append(q, "CANCEL_JOB")[i] = q[i]
      /\ Append(q, "CANCEL_JOB")[Len(q) + 1] = "CANCEL_JOB"
  BY <1>1, AppendProperties
<1>3. Len(q) \in Nat /\ DOMAIN Append(q, "CANCEL_JOB") = 1..(Len(q) + 1)
  BY <1>1, <1>2, LenProperties
<1>4. \A n \in Nat : n + 1 \in 1..(n + 1) /\ \A i \in 1..(n + 1) : i = n + 1 \/ i < n + 1
  OBVIOUS
<1>5. PICK last \in DOMAIN toWorker'[t] :
        toWorker'[t][last] = "CANCEL_JOB" /\ \A i \in DOMAIN toWorker'[t] : i = last \/ i < last
  BY <1>2, <1>3, <1>4, Zenon
<1>6. "START_JOB" # "CANCEL_JOB"
  OBVIOUS
<1> QED
  BY <1>5, <1>6, Zenon DEF CancelOf, In

(* One message is read; a cancellation is not overlooked.                   *)
LEMMA CancelRead ==
  ASSUME ChannelTypes, NEW t \in Scans, CancelOf(t), Stopping(t)' => Stopping(t), toWorker[t] # <<>>,
         toWorker'[t] = Tail(toWorker[t]), signal[t] # "none" => signal'[t] # "none",
         \/ signal'[t] # "none"
         \/ process[t] = "running" /\ process'[t] = "running" /\ Head(toWorker[t]) # "CANCEL_JOB"
         \/ process[t] = "accepted" /\ process'[t] = "running" /\ Head(toWorker[t]) = "START_JOB"
         \/ /\ process[t] \in {"bootstrap", "loading", "ready", "accepted"}
            /\ process'[t] \in {"bootstrap", "loading", "ready", "accepted"}
         \/ process'[t] = "finished"
  PROVE  CancelOf(t)'
<1> DEFINE q == toWorker[t]
<1>1. q \in Seq(Commands)
  BY DEF ChannelTypes
<1>2. /\ Tail(q) \in Seq(Commands) /\ Len(Tail(q)) = Len(q) - 1 /\ Head(q) = q[1]
      /\ \A i \in 1..Len(Tail(q)) : Tail(q)[i] = q[i + 1]
  BY <1>1, HeadTailProperties
<1>3. Len(q) \in Nat \ {0} /\ DOMAIN q = 1..Len(q) /\ DOMAIN Tail(q) = 1..(Len(q) - 1)
  BY <1>1, <1>2, EmptySeq, LenProperties
<1>4. \A n \in Nat \ {0} :
         /\ 1 \in 1..n
         /\ \A i \in 1..(n - 1) : i + 1 \in 1..n
         /\ \A i \in 1..n : i = 1 \/ (i - 1 \in 1..(n - 1) /\ (i - 1) + 1 = i)
         /\ \A i \in 1..n : ~(i < 1) /\ (1 < i => i # 1)
         /\ \A i \in 1..(n - 1), j \in 1..n : i + 1 < j => j - 1 \in 1..(n - 1) /\ i < j - 1 /\ (j - 1) + 1 = j
  OBVIOUS
<1>5. /\ 1 \in DOMAIN q /\ q[1] = Head(q)
      /\ \A i \in DOMAIN Tail(q) : i + 1 \in DOMAIN q /\ Tail(q)[i] = q[i + 1]
      /\ \A i \in DOMAIN q : i = 1 \/ (i - 1 \in DOMAIN Tail(q) /\ Tail(q)[i - 1] = q[i])
      /\ \A i \in DOMAIN q : 1 < i => i # 1
  BY <1>2, <1>3, <1>4, Zenon
<1>10. ASSUME NEW i \in DOMAIN Tail(q), NEW j \in DOMAIN q, i + 1 < j
       PROVE  j - 1 \in DOMAIN Tail(q) /\ i < j - 1 /\ Tail(q)[j - 1] = q[j]
  <2>1. j - 1 \in 1..(Len(q) - 1) /\ i < j - 1 /\ (j - 1) + 1 = j
    BY <1>3, <1>4, <1>10, Zenon
  <2> QED
    BY <1>2, <1>3, <2>1, Zenon
<1> HIDE DEF q
<1>6. CancelOf(t) <=>
        /\ Stopping(t) /\ process[t] = "running" => signal[t] # "none" \/ \E i \in DOMAIN q : q[i] = "CANCEL_JOB"
        /\ \A i \in DOMAIN q :
              Stopping(t) /\ process[t] \in {"bootstrap", "loading", "ready", "accepted"} /\ q[i] = "START_JOB"
              => signal[t] # "none" \/ \E j \in DOMAIN q : i < j /\ q[j] = "CANCEL_JOB"
  BY Zenon DEF CancelOf, In, q
<1>7. toWorker'[t] = Tail(q)
  BY DEF q
<1>8. ASSUME Stopping(t)', process'[t] = "running" PROVE signal'[t] # "none" \/ In("CANCEL_JOB", toWorker'[t])
  <2>1. CASE process[t] = "running" /\ Head(q) # "CANCEL_JOB"
    BY <1>5, <1>6, <1>7, <1>8, <2>1, Zenon DEF In
  <2>2. CASE process[t] = "accepted" /\ Head(q) = "START_JOB"
    <3>1. signal[t] # "none" \/ \E j \in DOMAIN q : 1 < j /\ q[j] = "CANCEL_JOB"
      BY <1>5, <1>6, <1>8, <2>2
    <3> QED
      BY <1>5, <1>7, <3>1, Zenon DEF In
  <2> QED
    BY <1>8, <2>1, <2>2 DEF q
<1>9. ASSUME NEW i \in DOMAIN toWorker'[t], Stopping(t)', toWorker'[t][i] = "START_JOB",
             process'[t] \in {"bootstrap", "loading", "ready", "accepted"}
      PROVE  signal'[t] # "none" \/ \E j \in DOMAIN toWorker'[t] : i < j /\ toWorker'[t][j] = "CANCEL_JOB"
  <2>1. signal'[t] # "none" \/ process[t] \in {"bootstrap", "loading", "ready", "accepted"}
    BY <1>9
  <2>2. CASE process[t] \in {"bootstrap", "loading", "ready", "accepted"}
    <3>1. i \in DOMAIN Tail(q) /\ i + 1 \in DOMAIN q /\ q[i + 1] = "START_JOB"
      BY <1>5, <1>7, <1>9, Zenon
    <3>2. signal[t] # "none" \/ \E j \in DOMAIN q : i + 1 < j /\ q[j] = "CANCEL_JOB"
      BY <1>6, <1>9, <2>2, <3>1, Zenon
    <3> QED
      BY <1>7, <1>10, <3>1, <3>2, Zenon
  <2> QED
    BY <2>1, <2>2
<1> QED
  BY <1>8, <1>9, Zenon DEF CancelOf

LEMMA CancelStep ==
  ASSUME IInv, (\E s \in Scans : ScanStep(s)) \/ pump \/ FleetStep \/ DashboardStep
  PROVE  CancelInv'
<1> USE DEF IInv, Types
<1> SUFFICES ASSUME NEW t \in Scans PROVE CancelOf(t)'
  <2>1. (\A u \in Scans : CancelOf(u)') => CancelInv'
    BY Zenon DEF CancelInv, CancellationNotLost, CancelOf, Stopping, In
  <2> QED
    BY <2>1
<1>1. CancelOf(t)
  BY CancelParts
<1>2. ASSUME manager'[t] = manager[t], process'[t] = process[t], signal'[t] = signal[t], toWorker'[t] = toWorker[t]
      PROVE  CancelOf(t)'
  <2>1. Stopping(t)' => Stopping(t)
    BY <1>2 DEF Stopping, Awaited, StopRequested
  <2> QED
    BY <1>1, <1>2, <2>1, CancelFrame
<1>3. ASSUME NEW s \in Scans, s # t,
             \/ toWorker' = toWorker
             \/ \E q : toWorker' = [toWorker EXCEPT ![s] = q]
      PROVE  toWorker'[t] = toWorker[t]
  BY <1>3 DEF ChannelTypes
<1>4. ASSUME NEW s \in Scans, WorkerStep(s) PROVE CancelOf(t)'
  <2>1. manager' = manager
    BY <1>4, WorkerFrame
  <2>2. Stopping(t)' => Stopping(t)
    BY <2>1 DEF Stopping, Awaited, StopRequested
  <2>3. CASE s # t
    <3>1. process'[t] = process[t] /\ signal'[t] = signal[t]
      BY <1>4, <2>3 DEF WorkerStep, handleMessage, WorkerShutdown, WorkerLoaded, onDisconnect, onSignal,
         ShutdownDeadline, WorkerCrash, WriteCheckpoint, FinishJob, Exit, WorkerTypes, workerVars
    <3>2. toWorker' = toWorker \/ \E q : toWorker' = [toWorker EXCEPT ![s] = q]
      BY <1>4 DEF WorkerStep, handleMessage, WorkerShutdown, WorkerLoaded, onDisconnect, onSignal,
         ShutdownDeadline, WorkerCrash, WriteCheckpoint, FinishJob, Exit
    <3> QED
      BY <1>2, <1>3, <2>1, <2>3, <3>1, <3>2
  <2>4. ASSUME s = t, process'[t] \in {"gone", "finished"} PROVE CancelOf(t)'
    BY <2>4 DEF CancelOf
  <2>5. ASSUME process'[t] = "running", signal'[t] # "none" PROVE CancelOf(t)'
    BY <2>5 DEF CancelOf
  <2>6. ASSUME s = t, WorkerShutdown(t) PROVE CancelOf(t)'
    <3>1. process'[t] = "gone" \/ (process'[t] = "running" /\ signal'[t] # "none")
      BY <2>6 DEF WorkerShutdown, Exit, WorkerTypes
    <3> QED
      BY <2>4, <2>5, <2>6, <3>1
  <2>7. CASE s = t /\ handleMessage(s)
    <3>1. \/ WorkerShutdown(t) \/ Exit(t)
          \/ /\ toWorker' = [toWorker EXCEPT ![t] = Tail(@)]
             /\ toWorker[t] # <<>>
             /\ \/ process[t] = "bootstrap" /\ process' = [process EXCEPT ![t] = "loading"] /\ signal' = signal
                \/ process[t] = "ready" /\ process' = [process EXCEPT ![t] = "accepted"] /\ signal' = signal
                \/ /\ process[t] = "accepted" /\ Head(toWorker[t]) = "START_JOB"
                   /\ process' = [process EXCEPT ![t] = "running"] /\ signal' = signal
                \/ process' = process /\ signal' = [signal EXCEPT ![t] = "abort"]
                \/ /\ process' = process /\ signal' = signal
                   /\ process[t] = "running" => Head(toWorker[t]) # "CANCEL_JOB"
      BY <2>7 DEF handleMessage
    <3>2. CASE WorkerShutdown(t)
      BY <2>6, <2>7, <3>2
    <3>3. CASE Exit(t)
      BY <2>4, <2>7, <3>3 DEF Exit, WorkerTypes
    <3>4. CASE ~WorkerShutdown(t) /\ ~Exit(t)
      <4>1. toWorker'[t] = Tail(toWorker[t]) /\ toWorker[t] # <<>>
        BY <3>1, <3>4 DEF ChannelTypes
      <4>2. /\ signal[t] # "none" => signal'[t] # "none"
            /\ \/ signal'[t] # "none"
               \/ process[t] = "running" /\ process'[t] = "running" /\ Head(toWorker[t]) # "CANCEL_JOB"
               \/ process[t] = "accepted" /\ process'[t] = "running" /\ Head(toWorker[t]) = "START_JOB"
               \/ /\ process[t] \in {"bootstrap", "loading", "ready", "accepted"}
                  /\ process'[t] \in {"bootstrap", "loading", "ready", "accepted"}
               \/ process'[t] \in {"finished", "gone", "none"}
        BY <3>1, <3>4 DEF WorkerTypes
      <4>3. CASE process'[t] \in {"gone", "none"}
        BY <4>3 DEF CancelOf
      <4> QED
        BY <1>1, <2>2, <4>1, <4>2, <4>3, CancelRead
    <3> QED
      BY <3>2, <3>3, <3>4
  <2>8. CASE s = t /\ WorkerLoaded(s)
    <3>1. process[t] = "loading" /\ process'[t] = "ready" /\ signal'[t] = signal[t] /\ toWorker'[t] = toWorker[t]
      BY <2>8 DEF WorkerLoaded, WorkerTypes
    <3>2. process[t] \in {"bootstrap", "loading", "ready", "accepted"} /\ process'[t] # "running"
      BY <3>1
    <3> QED
      BY <1>1, <2>2, <3>1, <3>2, Zenon DEF CancelOf
  <2>9. CASE s = t /\ (WorkerCrash(s) \/ ShutdownDeadline(s) \/ \E outcome \in {"COMPLETED", "CANCELLED", "FAILED"} : FinishJob(s, outcome))
    BY <2>4, <2>9 DEF WorkerCrash, ShutdownDeadline, FinishJob, Exit, WorkerTypes
  <2>10. CASE s = t /\ WriteCheckpoint(s)
    BY <1>2, <2>1, <2>10 DEF WriteCheckpoint
  <2>11. CASE s = t /\ (onDisconnect(s) \/ onSignal(s))
    BY <2>6, <2>11 DEF onDisconnect, onSignal
  <2> QED
    BY <1>4, <2>3, <2>7, <2>8, <2>9, <2>10, <2>11 DEF WorkerStep
<1>5. ASSUME NEW s \in Scans, SettleStep(s) PROVE CancelOf(t)'
  <2>1. UNCHANGED <<process, signal>>
    BY <1>5, SettleFrame
  <2>2. CASE s = t
    <3>1. \/ ~Awaited(t)'
          \/ /\ ~StopRequested(t) /\ manager'[t].cancel = manager[t].cancel
             /\ manager'[t].termination = manager[t].termination
      <4>1. \/ \E outcome : Settled(t, outcome)
            \/ ~StopRequested(t)
        BY <1>5, <2>2 DEF SettleStep, onMessage, onExit, onError, Advance, settle, settleUnrecorded
      <4>2. ASSUME NEW outcome, Settled(t, outcome) PROVE ~Awaited(t)'
        BY <4>2 DEF Settled, NotOwned, ManagerTypes, Awaited
      <4> QED
        BY <1>5, <2>2, <4>1, <4>2, SettleMemory
    <3>2. ~Stopping(t)'
      BY <3>1 DEF Stopping, StopRequested
    <3> QED
      BY <3>2, CancelVacuous
  <2>3. CASE s # t
    <3>1. manager'[t] = manager[t]
      BY <1>5, <2>3, SettleMemory
    <3>2. toWorker' = toWorker \/ \E q : toWorker' = [toWorker EXCEPT ![s] = q]
      BY <1>5 DEF SettleStep, onMessage, onExit, onError, Advance, settle, settleUnrecorded, Settled, Send
    <3> QED
      BY <1>2, <1>3, <2>1, <2>3, <3>1, <3>2
  <2> QED
    BY <2>2, <2>3
(* A step that may send CANCEL_JOB to one worker.                           *)
<1>6. ASSUME NEW s \in Scans, UNCHANGED <<process, signal>>,
             \/ UNCHANGED <<manager, toWorker>>
             \/ Awaited(s) /\ manager' = [manager EXCEPT ![s].cancel = TRUE] /\ Send(s, "CANCEL_JOB")
             \/ /\ Awaited(s) /\ Send(s, "CANCEL_JOB")
                /\ \E category \in {"manual", "limit"} : manager' = [manager EXCEPT ![s].termination = category]
      PROVE  CancelOf(t)'
  <2>1. CASE UNCHANGED <<manager, toWorker>>
    BY <1>2, <1>6, <2>1
  <2>2. CASE Awaited(s) /\ Send(s, "CANCEL_JOB") /\ s # t
    <3>1. manager'[t] = manager[t]
      BY <1>6, <2>2 DEF ManagerTypes
    <3>2. \E q : toWorker' = [toWorker EXCEPT ![s] = q]
      BY <2>2 DEF Send
    <3> QED
      BY <1>2, <1>3, <1>6, <2>2, <3>1, <3>2
  <2>3. CASE Awaited(s) /\ Send(s, "CANCEL_JOB") /\ s = t
    <3>1. CASE Alive(t)
      <4>1. Connected(t)
        BY <2>3, <3>1 DEF Connected, Awaited, Owned
      <4>2. toWorker'[t] = Append(toWorker[t], "CANCEL_JOB")
        BY <2>3, <4>1 DEF Send, ChannelTypes
      <4> QED
        BY <4>2, CancelSent
    <3>2. CASE ~Alive(t)
      <4>1. process'[t] \in {"none", "gone"}
        BY <1>6, <3>2 DEF Alive
      <4> QED
        BY <4>1 DEF CancelOf
    <3> QED
      BY <3>1, <3>2
  <2> QED
    BY <1>6, <2>1, <2>2, <2>3
<1>7. ASSUME NEW s \in Scans, ManagerStep(s) PROVE CancelOf(t)'
  <2>1. CASE \/ \E category \in {"manual", "limit"} : Terminate(s, category)
             \/ LoseCustody(s)
    <3>1. /\ UNCHANGED <<process, signal>>
          /\ \/ UNCHANGED <<manager, toWorker>>
             \/ /\ Awaited(s) /\ Send(s, "CANCEL_JOB")
                /\ \E category \in {"manual", "limit"} : manager' = [manager EXCEPT ![s].termination = category]
      BY <2>1 DEF Terminate, LoseCustody, requestTermination, workerVars
    <3> QED
      BY <1>6, <3>1
  <2>2. CASE terminateOwned(s)
    <3>1. manager' = manager /\ Exit(s)
      BY <2>2 DEF terminateOwned
    <3>2. CASE s = t
      <4>1. process'[t] = "gone"
        BY <3>1, <3>2 DEF Exit, WorkerTypes
      <4> QED
        BY <4>1 DEF CancelOf
    <3>3. CASE s # t
      <4>1. process'[t] = process[t] /\ signal'[t] = signal[t] /\ toWorker'[t] = toWorker[t]
        BY <3>1, <3>3 DEF Exit, WorkerTypes, ChannelTypes
      <4> QED
        BY <1>2, <3>1, <4>1
    <3> QED
      BY <3>2, <3>3
  <2>3. CASE retainResource(s) \/ RetentionFails(s)
    <3>1. UNCHANGED <<process, signal, toWorker>> /\ manager' = [manager EXCEPT ![s] = NotOwned]
      BY <2>3 DEF retainResource, RetentionFails, Drained, workerVars
    <3>2. CASE s = t
      <4>1. ~Stopping(t)'
        BY <3>1, <3>2 DEF ManagerTypes, NotOwned, Stopping, Awaited
      <4> QED
        BY <4>1, CancelVacuous
    <3>3. CASE s # t
      <4>1. manager'[t] = manager[t]
        BY <3>1, <3>3 DEF ManagerTypes
      <4> QED
        BY <1>2, <3>1, <4>1
    <3> QED
      BY <3>2, <3>3
  <2> QED
    BY <1>7, <2>1, <2>2, <2>3 DEF ManagerStep
<1>8. ASSUME NEW s \in Scans, IngestStep(s) \/ RecoveryStep(s) \/ RowStep(s) \/ enqueue(s) PROVE CancelOf(t)'
  <2>1. UNCHANGED <<manager, process, signal, toWorker>>
    BY <1>8, IngestFrame, RecoveryFrame, RowFrame DEF enqueue, workerVars
  <2> QED
    BY <1>2, <2>1
<1>9. CASE FleetStep
  BY <1>2, <1>9, FleetFrame
<1>10. ASSUME NEW s \in Scans, cancel(s) PROVE CancelOf(t)'
  <2>1. /\ UNCHANGED <<process, signal>>
        /\ \/ UNCHANGED <<manager, toWorker>>
           \/ Awaited(s) /\ manager' = [manager EXCEPT ![s].cancel = TRUE] /\ Send(s, "CANCEL_JOB")
    BY <1>10 DEF cancel, managerCancel, workerVars
  <2> QED
    BY <1>6, <2>1
<1>11. CASE pump
  <2>1. UNCHANGED <<signal, toWorker>>
    BY <1>11 DEF pump
  <2>2. CASE UNCHANGED <<manager, process>>
    BY <1>2, <2>1, <2>2
  <2>3. CASE ~UNCHANGED <<manager, process>>
    <3>1. Head(queue) \in Scans
      BY <1>11, HeadTailProperties DEF pump, ServiceTypes
    <3>2. PICK s \in Scans : manager' = [manager EXCEPT ![s] = Forked] /\ process' = [process EXCEPT ![s] = "bootstrap"]
      BY <1>11, <2>3, <3>1 DEF pump
    <3>3. CASE s = t
      <4>1. ~Stopping(t)'
        BY <3>2, <3>3 DEF ManagerTypes, Forked, NotOwned, Stopping, StopRequested
      <4> QED
        BY <4>1, CancelVacuous
    <3>4. CASE s # t
      <4>1. manager'[t] = manager[t] /\ process'[t] = process[t]
        BY <3>2, <3>4 DEF ManagerTypes, WorkerTypes
      <4> QED
        BY <1>2, <2>1, <4>1
    <3> QED
      BY <3>3, <3>4
  <2> QED
    BY <2>2, <2>3
<1>12. CASE DashboardStep
  <2>1. CASE BeginShutdown \/ StartReconcile \/ Start \/ \E due \in BOOLEAN : ReconcileLeases(due)
    <3>1. UNCHANGED <<manager, process, signal, toWorker>>
      BY <2>1 DEF BeginShutdown, StartReconcile, Start, ReconcileLeases, workerVars
    <3> QED
      BY <1>2, <3>1
  <2>2. CASE shutdown
    <3>1. /\ UNCHANGED <<process, signal>>
          /\ \/ UNCHANGED <<manager, toWorker>>
             \/ /\ active \in Scans /\ Awaited(active)
                /\ manager' = [manager EXCEPT ![active].cancel = TRUE] /\ Send(active, "CANCEL_JOB")
      BY <2>2 DEF shutdown, managerCancel, workerVars, ServiceTypes
    <3> QED
      BY <1>2, <1>6, <3>1
  <2>3. CASE GoDown
    <3>1. ~Stopping(t)'
      BY <2>3 DEF GoDown, NotOwned, Stopping, Awaited
    <3> QED
      BY <3>1, CancelVacuous
  <2> QED
    BY <1>12, <2>1, <2>2, <2>3 DEF DashboardStep, Close, DashboardCrash
<1> QED
  BY <1>4, <1>5, <1>7, <1>8, <1>9, <1>10, <1>11, <1>12 DEF ScanStep

-------------------------------------------------------------------------------
(* The theorems.                                                            *)

LEMMA NextInv ==
  ASSUME IInv, incidents \in 0..MaxIncidents, [Next]_vars
  PROVE  (IInv /\ incidents \in 0..MaxIncidents)'
<1>1. CASE Next
  BY <1>1, Steps, TypesStep, MemoryStep, RowsStep, CustodyStep, ApprovalStep, CancelStep DEF IInv
<1>2. CASE UNCHANGED vars
  <2> USE <1>2 DEF vars, approvalVars, governanceVars, serviceVars, workerVars
  <2>1. Types'
    BY DEF IInv, Types, RowTypes, FleetTypes, FlagTypes, ServiceTypes, ManagerTypes, WorkerTypes, ChannelTypes
  <2>2. MemoryInv'
    BY MemoryFrame DEF IInv
  <2>3. RowsInv'
    BY RowsFrame DEF IInv, Owned
  <2>4. CustodyInv'
    BY CustodyFrom DEF IInv, CustodyInv, Alive, Owned
  <2>5. ApprovalInv'
    BY ApprovalFrame DEF IInv, Consuming
  <2>6. CancelInv'
    BY DEF IInv, CancelInv, CancellationNotLost, Awaited, StopRequested
  <2> QED
    BY <2>1, <2>2, <2>3, <2>4, <2>5, <2>6 DEF IInv
<1> QED
  BY <1>1, <1>2

(* In every reachable state the dashboard's memory, its rows, the processes *)
(* and the approvals agree as IInv says.                                    *)
THEOREM Invariance == Spec => [](IInv /\ incidents \in 0..MaxIncidents)
<1>1. Init => IInv /\ incidents \in 0..MaxIncidents
  BY InitInv, ScanJobsAssumption DEF Init
<1>2. IInv /\ incidents \in 0..MaxIncidents /\ [Next]_vars => (IInv /\ incidents \in 0..MaxIncidents)'
  BY NextInv
<1> QED
  BY <1>1, <1>2, PTL DEF Spec

(* Every variable keeps its type: the statuses, the counters within their   *)
(* bounds, and the channels with the messages the protocol names.           *)
THEOREM TypeCorrect == Spec => []TypeOK
<1>1. IInv /\ incidents \in 0..MaxIncidents => TypeOK
  BY TypesAreTypeOK DEF IInv
<1> QED
  BY <1>1, Invariance, PTL

(* A dashboard that is up accounts for every unfinished row: queue and      *)
(* active scan of ScanExecutionService, and nothing else, are unfinished.   *)
THEOREM HeldByTheDashboard == Spec => []UnfinishedIsHeld
<1>1. IInv => UnfinishedIsHeld
  BY DEF IInv, RowsInv
<1> QED
  BY <1>1, Invariance, PTL

(* Workers of two dashboards, or a worker and a recovery, never run at the  *)
(* same time, whatever crashes: hasUnresolvedCustody is enough.             *)
THEOREM SupervisorsApart == Spec => []SupervisorsExclude
<1>1. IInv => SupervisorsExclude
  BY DEF IInv, CustodyInv
<1> QED
  BY <1>1, Invariance, PTL

(* A mutating job that runs for its manager has its approval: neither the   *)
(* reconciliation nor a recovery settles an approval that is in use.        *)
THEOREM ApprovalInUse == Spec => []MutationHasApproval
<1>1. IInv => MutationHasApproval
  BY ScanJobsAssumption DEF IInv, MemoryInv, ApprovalInv, Consuming, MutationHasApproval
<1> QED
  BY <1>1, Invariance, PTL

(* A job that runs although it was to stop has CANCEL_JOB before it or has  *)
(* been aborted, whichever message the bootstrap or the loader ignored.     *)
THEOREM CancellationHeard == Spec => []CancellationNotLost
<1>1. IInv => CancellationNotLost
  BY DEF IInv, CancelInv
<1> QED
  BY <1>1, Invariance, PTL

(* What a step may make of a result.                                        *)
LEMMA ResultStep ==
  ASSUME IInv, incidents \in 0..MaxIncidents, [Next]_vars
  PROVE  \A s \in Scans : manager[s].termination # "none" /\ active' = s => result' # "COMPLETED"
<1> SUFFICES ASSUME NEW s \in Scans, manager[s].termination # "none", active' = s
             PROVE  result' # "COMPLETED"
  OBVIOUS
<1>1. Awaited(s) /\ active = s /\ call = "worker" /\ result = "none"
  BY DEF IInv, MemoryInv
<1>2. CASE result' = result \/ result' = "none"
  BY <1>1, <1>2
<1>3. CASE Next /\ ~(result' = result \/ result' = "none")
  <2>1. PICK t \in Scans : SettleStep(t)
    <3>1. ASSUME NEW t \in Scans, ScanStep(t), ~SettleStep(t) PROVE result' = result \/ result' = "none"
      BY <3>1, WorkerFrame, ManagerFrame, RecoveryFrame, RowFrame DEF ScanStep, memoryVars, IngestStep, ingestRead,
         ingestRecord, ingestFail, EndRun, enqueue, cancel
    <3>2. ASSUME FleetStep PROVE result' = result
      BY <3>2, FleetFrame DEF memoryVars
    <3>3. ASSUME pump PROVE result' = result
      BY <3>3 DEF pump
    <3>4. ASSUME DashboardStep PROVE result' = result \/ result' = "none"
      BY <3>4 DEF DashboardStep, BeginShutdown, shutdown, Close, DashboardCrash, GoDown, Start, StartReconcile,
         ReconcileLeases, serviceVars
    <3> QED
      BY <1>3, <3>1, <3>2, <3>3, <3>4, Steps
  <2>2. t = s
    BY <1>1, <2>1, SettleMemory
  <2> QED
    BY <1>3, <2>1, <2>2 DEF SettleStep, onMessage, onExit, onError, Advance, settle, settleUnrecorded, Settled,
       EffectiveOutcome
<1>4. CASE UNCHANGED vars
  BY <1>2, <1>4 DEF vars, serviceVars
<1> QED
  BY <1>2, <1>3, <1>4

(* A worker that was told to stop never completes its scan, whatever it     *)
(* reports and whenever the report arrives.                                 *)
THEOREM StoppedNeverCompletes == Spec => StoppedIsNotComplete
<1>1. IInv /\ incidents \in 0..MaxIncidents /\ [Next]_vars =>
        [\A s \in Scans : manager[s].termination # "none" /\ active' = s => result' # "COMPLETED"]_vars
  BY ResultStep
<1> QED
  BY <1>1, Invariance, PTL DEF Spec, StoppedIsNotComplete

-------------------------------------------------------------------------------
(* The scans go through their lifecycle.                                    *)

LEMMA LifecycleStep ==
  ASSUME IInv, incidents \in 0..MaxIncidents, Next
  PROVE  Lifecycle!LifecycleNext \/ UNCHANGED status
<1> USE DEF IInv
<1>1. status \in [Scans -> {"none"} \cup Unfinished \cup Ended]
  BY DEF Types, RowTypes
<1>2. ASSUME NEW s \in Scans, enqueue(s) PROVE Lifecycle!Accept(s)
  BY <1>2 DEF enqueue, Lifecycle!Accept
<1>3. ASSUME NEW s \in Scans, cancel(s) PROVE Lifecycle!RequestCancel(s) \/ Lifecycle!Conclude(s)
  <2>1. CASE status[s] = "RUNNING" /\ status' = [status EXCEPT ![s] = "CANCEL_REQUESTED"]
    BY <2>1 DEF Lifecycle!RequestCancel
  <2>2. CASE In(s, queue) /\ status' = [status EXCEPT ![s] = "CANCELLED"]
    <3>1. status[s] = "QUEUED"
      BY <1>3, <2>2, QueueOf DEF cancel
    <3> QED
      BY <2>2, <3>1 DEF Lifecycle!Conclude, Lifecycle!Unfinished, Lifecycle!Ended
  <2> QED
    BY <1>3, <2>1, <2>2 DEF cancel, In
<1>4. ASSUME NEW s \in Scans, IngestStep(s), status' # status PROVE Lifecycle!Conclude(s)
  <2>1. active = s /\ call \in {"read", "record"} /\ dashboard # "down"
    BY <1>4, ScanJobsAssumption DEF IngestStep, ingestRead, ingestRecord, ingestFail, MemoryInv
  <2>2. result \in Ended
    BY <2>1 DEF Types, ServiceTypes, MemoryInv
  <2>3. PICK e \in Ended : status' = [status EXCEPT ![s] = e]
    BY <1>4, <2>2 DEF IngestStep, ingestRead, ingestRecord, ingestFail, EndRun, Ended
  <2>4. status[s] \in {"RUNNING", "CANCEL_REQUESTED"}
    BY <2>1 DEF RowsInv, UnfinishedIsHeld
  <2> QED
    BY <2>3, <2>4 DEF Lifecycle!Conclude, Lifecycle!Unfinished, Lifecycle!Ended, Lifecycle!Running, Ended
<1>5. ASSUME pump PROVE \E s \in Scans : Lifecycle!Run(s) \/ Lifecycle!Conclude(s)
  <2>1. PICK s \in Scans : s = Head(queue) /\ status[s] = "QUEUED"
    BY <1>5, QueueOf, TailRows DEF pump
  <2>2. \A t \in Scans : status[t] \notin {"RUNNING", "CANCEL_REQUESTED"}
    BY <1>5, ScanJobsAssumption DEF pump, RowsInv, UnfinishedIsHeld
  <2>3. status' = [status EXCEPT ![s] = "FAILED"] \/ status' = [status EXCEPT ![s] = "RUNNING"]
    BY <1>5, <2>1 DEF pump
  <2> QED
    BY <2>1, <2>2, <2>3 DEF Lifecycle!Run, Lifecycle!Conclude, Lifecycle!Unfinished, Lifecycle!Ended, Lifecycle!Running
<1>6. ASSUME DashboardStep PROVE UNCHANGED status \/ \E group \in SUBSET Scans : Lifecycle!Interrupt(group)
  <2>1. CASE UNCHANGED status
    BY <2>1
  <2>2. ASSUME NEW due \in BOOLEAN, ReconcileLeases(due)
        PROVE  \E group \in SUBSET Scans : Lifecycle!Interrupt(group)
    <3>1. PICK expired : status' = [t \in Scans |-> IF t \in expired /\ status[t] \in Unfinished
                                                    THEN "INTERRUPTED" ELSE status[t]]
      BY <2>2 DEF ReconcileLeases
    <3>2. Lifecycle!Interrupt({t \in Scans : t \in expired /\ status[t] \in Unfinished})
      BY <3>1 DEF Lifecycle!Interrupt, Lifecycle!Unfinished, Unfinished
    <3> QED
      BY <3>2
  <2>3. CASE shutdown
    <3>1. status' = [t \in Scans |-> IF status[t] = "QUEUED" THEN "INTERRUPTED" ELSE status[t]]
      BY <2>3 DEF shutdown
    <3>2. Lifecycle!Interrupt({t \in Scans : status[t] = "QUEUED"})
      BY <3>1 DEF Lifecycle!Interrupt, Lifecycle!Unfinished
    <3> QED
      BY <3>2
  <2>4. CASE Start
    <3>1. status' = [t \in Scans |-> IF status[t] \in Unfinished THEN "INTERRUPTED" ELSE status[t]]
      BY <2>4 DEF Start, recoverInterruptedScans
    <3>2. Lifecycle!Interrupt({t \in Scans : status[t] \in Unfinished})
      BY <3>1 DEF Lifecycle!Interrupt, Lifecycle!Unfinished, Unfinished
    <3> QED
      BY <3>2
  <2> QED
    BY <1>6, <2>1, <2>2, <2>3, <2>4 DEF DashboardStep, BeginShutdown, StartReconcile, Close, DashboardCrash, GoDown
<1>7. ASSUME NEW s \in Scans, WorkerStep(s) \/ SettleStep(s) \/ ManagerStep(s) \/ RecoveryStep(s) \/ RowStep(s)
      PROVE  UNCHANGED status
  BY <1>7, WorkerFrame, SettleFrame, ManagerFrame, RecoveryFrame, RowFrame
<1>8. ASSUME FleetStep PROVE UNCHANGED status
  BY <1>8, FleetFrame
<1> QED
  BY <1>2, <1>3, <1>4, <1>5, <1>6, <1>7, <1>8, Steps DEF ScanStep, Lifecycle!LifecycleNext

(* The dashboard implements ScanLifecycle's safety: one scan at a time      *)
(* leaves the queue, a cancellation is never taken back and a status that   *)
(* ends a scan is final, across crashes and restarts of the dashboard.      *)
THEOREM FollowsTheLifecycle == Spec => Lifecycle!LifecycleSafety
<1>1. Init => Lifecycle!LifecycleInit
  BY DEF Init, EmptyDatabase, Lifecycle!LifecycleInit, Lifecycle!Status, Lifecycle!Running
<1>2. IInv /\ incidents \in 0..MaxIncidents /\ [Next]_vars => [Lifecycle!LifecycleNext]_status
  BY LifecycleStep DEF vars
<1> QED
  BY <1>1, <1>2, Invariance, PTL DEF Spec, Lifecycle!LifecycleSafety
=============================================================================
