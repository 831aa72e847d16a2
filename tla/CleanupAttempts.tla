---------------------------- MODULE CleanupAttempts ----------------------------
(***************************************************************************)
(* Cleanup attempts: the ledger that authorizes one recovery of a case     *)
(* (dashboard/recovery/CleanupAttemptLedger.ts), the services that run it, *)
(* the worker manager's runRecovery and the recovery worker process.       *)
(*                                                                         *)
(* The manager and the worker exchange messages in order, each way. The    *)
(* dashboard may die at any point and is started again; its workers go on  *)
(* until they notice.                                                      *)
(*                                                                         *)
(* An attempt stands for its authority key (an approval or a checkpoint),  *)
(* which can be used once. REQUESTED and AUTHORIZED are one transaction.   *)
(***************************************************************************)
EXTENDS Naturals, Sequences, FiniteSets

CONSTANTS
    Attempts,          \* authority keys
    CaseOf,            \* CaseOf[a]: the target's case that a recovers
    ScanApprovals,     \* those that are approvals of a scan that ended early
    Windows,           \* workers run in a kernel job, whose custody can be lost
    MaxRequests,       \* requests of one recovery (bound; 10000 in gate)
    MaxIncarnations    \* starts of the dashboard (bound)

ASSUME AttemptsAssumption ==
    /\ ScanApprovals \subseteq Attempts
    /\ Windows \in BOOLEAN
    /\ MaxRequests \in Nat \ {0}
    /\ MaxIncarnations \in Nat \ {0}

VARIABLES
    (* Rows of the database.                                                *)
    phase,         \* phase[a]: kind of a's last event, or "none"
    gates,         \* gates[a]: DISPATCH_ATTEMPTED events
    controller,    \* controller[a]: the incarnation that reserved a
    summary,       \* summary[a]: status of the recovery job or approval
    row,           \* row[a]: state of the worker_resources row, or "none"
    (* Memory of the dashboard.                                             *)
    server,        \* "down", "starting" (reconcileStartup) or "serving"
    incarnation,   \* its starts so far, which stand for controllerId
    shuttingDown,  \* the manager's flag
    failures,      \* retentionFailures is not empty
    call,          \* call[a]: where the service's run of a awaits
    outcome,       \* outcome[a]: the worker's result, once received
    step,          \* step[a]: runRecovery's local phase
    cancelled,     \* cancelled[a]: cancelRequested
    custody,       \* custody[a]: what is left of pendingWorkerCleanup
    lost,          \* lost[a]: custody of the process was lost
    (* The worker processes.                                                *)
    toManager,     \* toManager[a]: messages to the dashboard
    toWorker,      \* toWorker[a]: messages from the dashboard
    worker,        \* worker[a]: where the process is
    stopping,      \* stopping[a]: shutdownRequested
    refused,       \* refused[a]: gateRefused
    ordinal,       \* ordinal[a]: cleanupOrdinal
    sent           \* history: requests a's worker transmitted

ledgerVars == <<phase, gates, controller, summary>>
managerVars == <<server, incarnation, shuttingDown, failures, call, outcome, step,
                 cancelled, custody, lost>>
workerVars == <<worker, stopping, refused, ordinal, sent>>
vars == <<ledgerVars, row, managerVars, toManager, toWorker, workerVars>>

-------------------------------------------------------------------------------

Message(type, n) == [type |-> type, ordinal |-> n]
Result(o) == [type |-> "JOB_MUTATION_RECOVERY", ordinal |-> 0, outcome |-> o]

Outcomes == {"ROLLBACK_VERIFIED", "CLEANUP_FAILED"}

(* workerToApi and apiToWorker messages that matter here.                   *)
WorkerToApi ==
    [type : {"WORKER_BOOTSTRAP_READY", "WORKER_READY", "JOB_ACCEPTED",
             "RECOVERY_REQUEST_GATE", "WORKER_ERROR"}, ordinal : 0..MaxRequests]
        \cup [type : {"JOB_MUTATION_RECOVERY"}, ordinal : {0}, outcome : Outcomes]

ApiToWorker ==
    [type : {"ACTIVATE_RUNTIME", "INITIALIZE_JOB", "RECOVER_MUTATION",
             "RECOVERY_REQUEST_ACK", "SHUTDOWN"}, ordinal : 0..MaxRequests]

terminal == {"RESTORATION_VERIFIED", "FAILED", "UNKNOWN", "NOT_EXECUTED"}

(* Phases without a DISPATCH_ARMED event.                                   *)
Undispatched == {"AUTHORIZED", "WORKER_PENDING", "WORKER_ACTIVATED"}

(* Phases that let the case's next attempt in.                              *)
Resolved == {"RESTORATION_VERIFIED", "NOT_EXECUTED"}

Phases == {"none", "DISPATCH_ARMED", "DISPATCH_ATTEMPTED", "RESULT_RECEIVED"}
              \cup Undispatched \cup terminal

(* The status of a recovery job. Of an approval, RUNNING is EXECUTING and   *)
(* ROLLBACK_VERIFIED is COMPLETED.                                          *)
Summaries == {"none", "RUNNING", "ROLLBACK_VERIFIED", "CLEANUP_FAILED", "CLEANUP_REQUIRED"}

RowStates == {"none", "CREATED", "RUNNING", "DRAINING", "RETAINED", "UNKNOWN_RETAINED"}

Alive(a) == worker[a] \notin {"none", "closed"}

TypeOK ==
    /\ phase \in [Attempts -> Phases]
    /\ gates \in [Attempts -> 0..MaxRequests]
    /\ controller \in [Attempts -> 0..MaxIncarnations]
    /\ summary \in [Attempts -> Summaries]
    /\ row \in [Attempts -> RowStates]
    /\ server \in {"down", "starting", "serving"}
    /\ incarnation \in 1..MaxIncarnations
    /\ shuttingDown \in BOOLEAN
    /\ failures \in BOOLEAN
    /\ call \in [Attempts -> {"none", "accepted", "created", "pending", "running",
                              "result", "failed"}]
    /\ outcome \in [Attempts -> {"none"} \cup Outcomes]
    /\ step \in [Attempts -> {"none", "BOOTING", "BOOTSTRAPPED", "INITIALIZING", "RUNNING"}]
    /\ cancelled \in [Attempts -> BOOLEAN]
    /\ custody \in [Attempts -> {"none", "held", "closed"}]
    /\ lost \in [Attempts -> BOOLEAN]
    /\ toManager \in [Attempts -> Seq(WorkerToApi)]
    /\ toWorker \in [Attempts -> Seq(ApiToWorker)]
    /\ worker \in [Attempts -> {"none", "booting", "ready", "initialized", "recovering",
                                "waiting", "granted", "finished", "closed"}]
    /\ stopping \in [Attempts -> BOOLEAN]
    /\ refused \in [Attempts -> BOOLEAN]
    /\ ordinal \in [Attempts -> 0..MaxRequests]
    /\ sent \in [Attempts -> 0..MaxRequests]

Init ==
    /\ phase = [a \in Attempts |-> "none"]
    /\ gates = [a \in Attempts |-> 0]
    /\ controller = [a \in Attempts |-> 0]
    /\ summary = [a \in Attempts |-> "none"]
    /\ row = [a \in Attempts |-> "none"]
    /\ server = "serving"
    /\ incarnation = 1
    /\ shuttingDown = FALSE
    /\ failures = FALSE
    /\ call = [a \in Attempts |-> "none"]
    /\ outcome = [a \in Attempts |-> "none"]
    /\ step = [a \in Attempts |-> "none"]
    /\ cancelled = [a \in Attempts |-> FALSE]
    /\ custody = [a \in Attempts |-> "none"]
    /\ lost = [a \in Attempts |-> FALSE]
    /\ toManager = [a \in Attempts |-> <<>>]
    /\ toWorker = [a \in Attempts |-> <<>>]
    /\ worker = [a \in Attempts |-> "none"]
    /\ stopping = [a \in Attempts |-> FALSE]
    /\ refused = [a \in Attempts |-> FALSE]
    /\ ordinal = [a \in Attempts |-> 0]
    /\ sent = [a \in Attempts |-> 0]

-------------------------------------------------------------------------------
Connected(a) == server = "serving" /\ controller[a] = incarnation

(* runRecovery does not pause between its checks and its promise.           *)
NotStarting(a) == \A b \in Attempts \ {a} : call[b] \notin {"created", "pending"}

(* The dashboard that reserved a takes a step for it.                       *)
Owned(a) == Connected(a) /\ NotStarting(a)

-------------------------------------------------------------------------------
(* The ledger                                                               *)

(* unresolved: outcomes that stop every dispatch.                           *)
unresolved ==
    \E a \in Attempts :
        phase[a] \in {"DISPATCH_ARMED", "DISPATCH_ATTEMPTED", "RESULT_RECEIVED", "UNKNOWN"}

(* Mutant of reserve: only what blocks dispatch blocks the next attempt.    *)
NoPriorUnresolved(a) ==
    \A b \in Attempts \ {a} : CaseOf[b] = CaseOf[a] =>
        phase[b] \notin {"DISPATCH_ARMED", "DISPATCH_ATTEMPTED", "RESULT_RECEIVED", "UNKNOWN"}

(* Every earlier attempt of the case is resolved.                           *)
PriorAttemptsResolved(a) ==
    \A b \in Attempts \ {a} :
        CaseOf[b] = CaseOf[a] => phase[b] \in Resolved \cup {"none"}

(* reserve, and the service's row in the same transaction. The service goes *)
(* on to runRecovery.                                                       *)
Reserve(a) ==
    /\ server = "serving"
    /\ NotStarting(a)
    /\ phase[a] = "none"
    /\ PriorAttemptsResolved(a)
    /\ phase' = [phase EXCEPT ![a] = "AUTHORIZED"]
    /\ controller' = [controller EXCEPT ![a] = incarnation]
    /\ summary' = [summary EXCEPT ![a] = "RUNNING"]
    /\ call' = [call EXCEPT ![a] = "accepted"]
    /\ UNCHANGED <<gates, row, server, incarnation, shuttingDown, failures, outcome, step,
                   cancelled, custody, lost, toManager, toWorker, workerVars>>

(* Mutant of interrupt: the worker's resource is not asked about.           *)
InterruptedByEvents(a) ==
    IF phase[a] \in Undispatched THEN "NOT_EXECUTED" ELSE "UNKNOWN"

(* What interrupt records: a command was never granted, or nobody knows.    *)
InterruptedPhase(a) ==
    IF phase[a] \in Undispatched /\ row[a] \in {"none", "RETAINED"}
    THEN "NOT_EXECUTED" ELSE "UNKNOWN"

(* Mutant: the compatibility projection is left out.                        *)
InterruptOnly(a) ==
    /\ phase[a] \notin terminal
    /\ phase' = [phase EXCEPT ![a] = InterruptedPhase(a)]
    /\ UNCHANGED <<gates, controller, summary, row>>

(* interruptAndProject: the ledger, and the service's row if it still says  *)
(* that the recovery runs.                                                  *)
InterruptAndProject(a) ==
    /\ phase[a] \notin terminal
    /\ phase' = [phase EXCEPT ![a] = InterruptedPhase(a)]
    /\ summary' = [summary EXCEPT ![a] = IF @ = "RUNNING" THEN "CLEANUP_FAILED" ELSE @]
    /\ UNCHANGED <<gates, controller, row>>

-------------------------------------------------------------------------------
(* The start of a recovery worker: runRecovery up to its promise            *)

hasUnresolvedCustody ==
    \E a \in Attempts :
        \/ row[a] = "UNKNOWN_RETAINED"
        \/ row[a] \in {"CREATED", "RUNNING", "DRAINING"} /\ controller[a] # incarnation

assertCustodyResolved == ~unresolved /\ ~hasUnresolvedCustody /\ ~failures

(* The service's call moves on; nothing else of the manager's memory does.  *)
Await(a, at) ==
    /\ call' = [call EXCEPT ![a] = at]
    /\ UNCHANGED <<server, incarnation, shuttingDown, outcome, step, cancelled, lost>>

(* retainResource: the row ends as retained, or as unknown for good.        *)
RetainResource(a) ==
    \E state \in {"RETAINED", "UNKNOWN_RETAINED"} :
        /\ lost[a] => state = "UNKNOWN_RETAINED"
        /\ row' = [row EXCEPT ![a] = state]
        /\ failures' = (failures \/ state = "UNKNOWN_RETAINED")

StartRecovery(a) ==
    /\ Owned(a)
    /\ call[a] = "accepted"
    /\ assertCustodyResolved
    /\ phase[a] = "AUTHORIZED"
    /\ ~shuttingDown
    /\ row' = [row EXCEPT ![a] = "CREATED"]
    /\ Await(a, "created")
    /\ UNCHANGED <<ledgerVars, failures, custody, toManager, toWorker, workerVars>>

(* A check of runRecovery fails, or the resource cannot be created.         *)
RefuseRecovery(a) ==
    /\ Owned(a)
    /\ call[a] = "accepted"
    /\ Await(a, "failed")
    /\ UNCHANGED <<ledgerVars, row, failures, custody, toManager, toWorker, workerVars>>

RecordPending(a) ==
    /\ Owned(a)
    /\ call[a] = "created"
    /\ phase' = [phase EXCEPT ![a] = "WORKER_PENDING"]
    /\ Await(a, "pending")
    /\ UNCHANGED <<gates, controller, summary, row, failures, custody, toManager, toWorker, workerVars>>

(* The append or the fork fails before there is a process.                  *)
FailBeforeFork(a) ==
    /\ Owned(a)
    /\ call[a] \in {"created", "pending"}
    /\ RetainResource(a)
    /\ Await(a, "failed")
    /\ UNCHANGED <<ledgerVars, custody, toManager, toWorker, workerVars>>

(* The bootstrap script says that it is ready. When the worker and its      *)
(* lease cannot be recorded, it is killed and the call fails.               *)
Fork(a, recorded) ==
    /\ Owned(a)
    /\ call[a] = "pending"
    /\ worker' = [worker EXCEPT ![a] = "booting"]
    /\ custody' = [custody EXCEPT ![a] = "held"]
    /\ step' = [step EXCEPT ![a] = "BOOTING"]
    /\ call' = [call EXCEPT ![a] = IF recorded THEN "running" ELSE "failed"]
    /\ toManager' = [toManager EXCEPT ![a] =
                        IF recorded THEN <<Message("WORKER_BOOTSTRAP_READY", 0)>> ELSE <<>>]
    /\ UNCHANGED <<ledgerVars, row, server, incarnation, shuttingDown, failures, outcome,
                   cancelled, lost, toWorker, stopping, refused, ordinal, sent>>

-------------------------------------------------------------------------------
(* The manager's messages                                                   *)

(* The next message from a's worker has this type, and runRecovery has not  *)
(* settled.                                                                 *)
Receives(a, type) ==
    /\ Owned(a)
    /\ call[a] = "running"
    /\ toManager[a] # <<>>
    /\ Head(toManager[a]).type = type

(* The handler takes the message and answers. Answers to a process that is  *)
(* gone are lost.                                                           *)
Reply(a, message) ==
    /\ toManager' = [toManager EXCEPT ![a] = Tail(@)]
    /\ toWorker' = [toWorker EXCEPT ![a] = IF Alive(a) THEN Append(@, message) ELSE @]

GoOn(a, from, to) ==
    /\ step[a] = from
    /\ step' = [step EXCEPT ![a] = to]
    /\ ~cancelled[a]
    /\ UNCHANGED <<server, incarnation, shuttingDown, failures, call, outcome, cancelled,
                   custody, lost, workerVars>>

(* The process is bound, unless it has closed.                              *)
HandleBootstrapReady(a) ==
    /\ Receives(a, "WORKER_BOOTSTRAP_READY")
    /\ custody[a] = "held"
    /\ GoOn(a, "BOOTING", "BOOTSTRAPPED")
    /\ row' = [row EXCEPT ![a] = "RUNNING"]
    /\ Reply(a, Message("ACTIVATE_RUNTIME", 0))
    /\ UNCHANGED ledgerVars

HandleReady(a) ==
    /\ Receives(a, "WORKER_READY")
    /\ phase[a] = "WORKER_PENDING"
    /\ GoOn(a, "BOOTSTRAPPED", "INITIALIZING")
    /\ phase' = [phase EXCEPT ![a] = "WORKER_ACTIVATED"]
    /\ Reply(a, Message("INITIALIZE_JOB", 0))
    /\ UNCHANGED <<gates, controller, summary, row>>

(* The event is durable before the envelope and the command leave.          *)
HandleAccepted(a) ==
    /\ Receives(a, "JOB_ACCEPTED")
    /\ phase[a] = "WORKER_ACTIVATED"
    /\ GoOn(a, "INITIALIZING", "RUNNING")
    /\ phase' = [phase EXCEPT ![a] = "DISPATCH_ARMED"]
    /\ Reply(a, Message("RECOVER_MUTATION", 0))
    /\ UNCHANGED <<gates, controller, summary, row>>

(* gate: the next ordinal, of an attempt of this controller, is recorded.   *)
Gate(a, n) ==
    /\ controller[a] = incarnation
    /\ n = gates[a] + 1
    /\ phase[a] \in {"DISPATCH_ARMED", "DISPATCH_ATTEMPTED"}
    /\ gates' = [gates EXCEPT ![a] = n]
    /\ phase' = [phase EXCEPT ![a] = "DISPATCH_ATTEMPTED"]
    /\ UNCHANGED <<controller, summary, row>>

HandleGate(a) ==
    /\ Receives(a, "RECOVERY_REQUEST_GATE")
    /\ step[a] = "RUNNING"
    /\ custody[a] = "held"
    /\ ~lost[a]
    /\ Gate(a, Head(toManager[a]).ordinal)
    /\ Reply(a, Message("RECOVERY_REQUEST_ACK", Head(toManager[a]).ordinal))
    /\ UNCHANGED <<managerVars, workerVars>>

(* settle: what is still on its way is ignored, and the worker is told to   *)
(* leave. Its bookkeeping may fail, which fails the call.                   *)
Settle(a, at) ==
    /\ toManager' = [toManager EXCEPT ![a] = <<>>]
    /\ toWorker' = [toWorker EXCEPT ![a] =
                       IF Alive(a) THEN Append(@, Message("SHUTDOWN", 0)) ELSE @]
    /\ \E bookkept \in BOOLEAN :
          /\ failures' = (failures \/ ~bookkept)
          /\ call' = [call EXCEPT ![a] = IF bookkept THEN at ELSE "failed"]
    /\ UNCHANGED <<server, incarnation, shuttingDown, step, cancelled, custody, lost, row, workerVars>>

HandleResult(a) ==
    /\ Receives(a, "JOB_MUTATION_RECOVERY")
    /\ step[a] = "RUNNING"
    /\ phase[a] = "DISPATCH_ATTEMPTED"
    /\ phase' = [phase EXCEPT ![a] = "RESULT_RECEIVED"]
    /\ outcome' = [outcome EXCEPT ![a] = Head(toManager[a]).outcome]
    /\ Settle(a, "result")
    /\ UNCHANGED <<gates, controller, summary>>

(* The timeout, the exit, an IPC error, WORKER_ERROR, WORKER_SHUTDOWN, a    *)
(* cancellation, or a check or a write of a handler that fails.             *)
SettleWithError(a) ==
    /\ Owned(a)
    /\ call[a] = "running"
    /\ Settle(a, "failed")
    /\ UNCHANGED <<ledgerVars, outcome>>

-------------------------------------------------------------------------------
(* Custody of the process (scheduleTempCleanup), and the end of the call    *)

(* recordCustodyLoss. Its write may fail.                                   *)
LoseCustody(a) ==
    /\ Windows
    /\ Owned(a)
    /\ custody[a] # "none"
    /\ ~lost[a]
    /\ lost' = [lost EXCEPT ![a] = TRUE]
    /\ failures' = TRUE
    /\ \/ row' = [row EXCEPT ![a] = "UNKNOWN_RETAINED"]
       \/ UNCHANGED row
    /\ UNCHANGED <<ledgerVars, server, incarnation, shuttingDown, call, outcome, step,
                   cancelled, custody, toManager, toWorker, workerVars>>

(* The exit has settled runRecovery first. The write may fail.              *)
ObserveExit(a) ==
    /\ Owned(a)
    /\ call[a] # "running"
    /\ custody[a] = "held"
    /\ worker[a] = "closed"
    /\ custody' = [custody EXCEPT ![a] = "closed"]
    /\ \/ /\ row' = [row EXCEPT ![a] = IF @ = "UNKNOWN_RETAINED" THEN @ ELSE "DRAINING"]
          /\ UNCHANGED failures
       \/ failures' = TRUE /\ UNCHANGED row
    /\ UNCHANGED <<ledgerVars, server, incarnation, shuttingDown, call, outcome, step,
                   cancelled, lost, toManager, toWorker, workerVars>>

(* The row is retained, or its write fails.                                 *)
ReleaseCustody(a) ==
    /\ Owned(a)
    /\ custody[a] = "closed"
    /\ custody' = [custody EXCEPT ![a] = "none"]
    /\ RetainResource(a) \/ (failures' = TRUE /\ UNCHANGED row)
    /\ UNCHANGED <<ledgerVars, server, incarnation, shuttingDown, call, outcome, step,
                   cancelled, lost, toManager, toWorker, workerVars>>

(* Mutant of the drain: it ends with the processes, before their resources. *)
Exited == \A a \in Attempts : custody[a] # "held"

(* drainCompletedWorkers waits for every worker of the manager.             *)
Drained == \A a \in Attempts : custody[a] = "none"

(* verifyCleanupRestoration: the result claims a rollback that follows a    *)
(* request, and the journal confirms it.                                    *)
VerifiedRestoration(a, confirmed) ==
    outcome[a] = "ROLLBACK_VERIFIED" /\ gates[a] > 0 /\ confirmed

(* Mutant: the approval is written whatever it says by then.                *)
FinishRegardless(a, confirmed) ==
    /\ Owned(a)
    /\ call[a] = "result"
    /\ Drained
    /\ ~failures
    /\ outcome[a] = "ROLLBACK_VERIFIED" => VerifiedRestoration(a, confirmed)
    /\ phase' = [phase EXCEPT ![a] =
                    IF VerifiedRestoration(a, confirmed) THEN "RESTORATION_VERIFIED" ELSE "FAILED"]
    /\ summary' = [summary EXCEPT ![a] =
                    IF @ # "RUNNING" THEN @
                    ELSE IF VerifiedRestoration(a, confirmed) THEN "ROLLBACK_VERIFIED" ELSE "CLEANUP_FAILED"]
    /\ Await(a, "none")
    /\ UNCHANGED <<gates, controller, row, failures, custody, toManager, toWorker, workerVars>>

(* The service records the result once the workers are drained. Its row     *)
(* must still say that the recovery runs: updateStatus throws otherwise     *)
(* (MUTATION_RECOVERY_STATE_CONFLICT) and takes the verdict back with it.   *)
FinishRecovery(a, confirmed) ==
    /\ Owned(a)
    /\ call[a] = "result"
    /\ Drained
    /\ ~failures
    /\ summary[a] = "RUNNING"
    /\ outcome[a] = "ROLLBACK_VERIFIED" => VerifiedRestoration(a, confirmed)
    /\ phase' = [phase EXCEPT ![a] =
                    IF VerifiedRestoration(a, confirmed) THEN "RESTORATION_VERIFIED" ELSE "FAILED"]
    /\ summary' = [summary EXCEPT ![a] =
                    IF VerifiedRestoration(a, confirmed) THEN "ROLLBACK_VERIFIED" ELSE "CLEANUP_FAILED"]
    /\ Await(a, "none")
    /\ UNCHANGED <<gates, controller, row, failures, custody, toManager, toWorker, workerVars>>

(* Custody is uncertain, the journal does not confirm, or a write fails.    *)
RejectResult(a) ==
    /\ Owned(a)
    /\ call[a] = "result"
    /\ Drained
    /\ Await(a, "failed")
    /\ UNCHANGED <<ledgerVars, row, failures, custody, toManager, toWorker, workerVars>>

(* The catch block of the service.                                          *)
Interrupt(a) ==
    /\ Owned(a)
    /\ call[a] = "failed"
    /\ Drained
    /\ InterruptAndProject(a)
    /\ Await(a, "none")
    /\ UNCHANGED <<failures, custody, toManager, toWorker, workerVars>>

-------------------------------------------------------------------------------
(* The scan service, which writes approvals too                             *)

(* The scan service runs: not while runRecovery starts a worker.            *)
Between == server = "serving" /\ \A a \in Attempts : call[a] \notin {"created", "pending"}

(* recoverInterruptedExecutions, every 30 seconds: it does not tell a scan  *)
(* under the approval from a recovery.                                      *)
RecoverInterruptedExecutions ==
    /\ Between
    /\ \E a \in ScanApprovals : summary[a] = "RUNNING"
    /\ summary' = [a \in Attempts |-> IF a \in ScanApprovals /\ summary[a] = "RUNNING"
                                      THEN "CLEANUP_REQUIRED" ELSE summary[a]]
    /\ UNCHANGED <<phase, gates, controller, row, managerVars, toManager, toWorker, workerVars>>

(* finishExecution, when the interrupted scan's partial report is ingested. *)
FinishExecution(a, cleanupUnresolved) ==
    /\ Between
    /\ a \in ScanApprovals
    /\ summary[a] = "RUNNING"
    /\ summary' = [summary EXCEPT ![a] =
                      IF cleanupUnresolved THEN "CLEANUP_REQUIRED" ELSE "ROLLBACK_VERIFIED"]
    /\ UNCHANGED <<phase, gates, controller, row, managerVars, toManager, toWorker, workerVars>>

-------------------------------------------------------------------------------
(* The dashboard process                                                    *)

(* The manager's shutdown, which the scan service calls while recoveries    *)
(* may be running.                                                          *)
Shutdown ==
    /\ server = "serving"
    /\ \A a \in Attempts : call[a] \notin {"created", "pending"}
    /\ ~shuttingDown
    /\ shuttingDown' = TRUE
    /\ cancelled' = [a \in Attempts |-> custody[a] # "none"]
    /\ UNCHANGED <<ledgerVars, row, server, incarnation, failures, call, outcome, step,
                   custody, lost, toManager, toWorker, workerVars>>

(* The process dies, or exits. Messages on their way to workers arrive.     *)
Crash ==
    /\ server # "down"
    /\ incarnation < MaxIncarnations
    /\ server' = "down"
    /\ shuttingDown' = FALSE
    /\ failures' = FALSE
    /\ call' = [a \in Attempts |-> "none"]
    /\ outcome' = [a \in Attempts |-> "none"]
    /\ step' = [a \in Attempts |-> "none"]
    /\ cancelled' = [a \in Attempts |-> FALSE]
    /\ custody' = [a \in Attempts |-> "none"]
    /\ lost' = [a \in Attempts |-> FALSE]
    /\ toManager' = [a \in Attempts |-> <<>>]
    /\ UNCHANGED <<ledgerVars, row, incarnation, toWorker, workerVars>>

Restart ==
    /\ server = "down"
    /\ server' = "starting"
    /\ incarnation' = incarnation + 1
    /\ UNCHANGED <<ledgerVars, row, shuttingDown, failures, call, outcome, step, cancelled,
                   custody, lost, toManager, toWorker, workerVars>>

(* Mutant of the reconciliation: attempts that sent a command are left to   *)
(* the operator.                                                            *)
StaleUndispatched(a) == phase[a] \in Undispatched /\ controller[a] # incarnation

(* Attempts of other controllers that reconcileStartup interrupts.          *)
Stale(a) == phase[a] \notin terminal \cup {"none"} /\ controller[a] # incarnation

(* reconcileStartup, one transaction per attempt.                           *)
Reconcile(a) ==
    /\ server = "starting"
    /\ Stale(a)
    /\ InterruptAndProject(a)
    /\ UNCHANGED <<managerVars, toManager, toWorker, workerVars>>

Serve ==
    /\ server = "starting"
    /\ ~\E a \in Attempts : Stale(a)
    /\ server' = "serving"
    /\ UNCHANGED <<ledgerVars, row, incarnation, shuttingDown, failures, call, outcome, step,
                   cancelled, custody, lost, toManager, toWorker, workerVars>>

-------------------------------------------------------------------------------
(* The worker process                                                       *)

(* A message to a manager that still listens.                               *)
Tell(a, message) ==
    toManager' = [toManager EXCEPT ![a] =
                     IF Connected(a) /\ call[a] = "running" THEN Append(@, message) ELSE @]

Gets(a, type) == Alive(a) /\ toWorker[a] # <<>> /\ Head(toWorker[a]).type = type

(* The worker takes the message and goes to the given place.                *)
Take(a, at) ==
    /\ toWorker' = [toWorker EXCEPT ![a] = Tail(@)]
    /\ worker' = [worker EXCEPT ![a] = at]

Activate(a) ==
    /\ Gets(a, "ACTIVATE_RUNTIME")
    /\ worker[a] = "booting"
    /\ Take(a, "ready")
    /\ Tell(a, Message("WORKER_READY", 0))
    /\ UNCHANGED <<ledgerVars, row, managerVars, stopping, refused, ordinal, sent>>

Initialize(a) ==
    /\ Gets(a, "INITIALIZE_JOB")
    /\ worker[a] = "ready"
    /\ Take(a, "initialized")
    /\ Tell(a, Message("JOB_ACCEPTED", 0))
    /\ UNCHANGED <<ledgerVars, row, managerVars, stopping, refused, ordinal, sent>>

(* Refused when a shutdown is under way.                                    *)
BeginRecovery(a) ==
    /\ Gets(a, "RECOVER_MUTATION")
    /\ worker[a] = "initialized"
    /\ Take(a, IF stopping[a] THEN "finished" ELSE "recovering")
    /\ IF stopping[a] THEN Tell(a, Message("WORKER_ERROR", 0)) ELSE UNCHANGED toManager
    /\ UNCHANGED <<ledgerVars, row, managerVars, stopping, refused, ordinal, sent>>

(* beforeCleanupRequest, up to its await.                                   *)
RequestGate(a) ==
    /\ worker[a] = "recovering"
    /\ ~refused[a]
    /\ ~stopping[a]
    /\ ordinal[a] < MaxRequests
    /\ ordinal' = [ordinal EXCEPT ![a] = @ + 1]
    /\ worker' = [worker EXCEPT ![a] = "waiting"]
    /\ Tell(a, Message("RECOVERY_REQUEST_GATE", ordinal'[a]))
    /\ UNCHANGED <<ledgerVars, row, managerVars, toWorker, stopping, refused, sent>>

(* The acknowledgement lets the request go, unless the worker is stopping.  *)
Acknowledge(a) ==
    /\ Gets(a, "RECOVERY_REQUEST_ACK")
    /\ worker[a] = "waiting"
    /\ Head(toWorker[a]).ordinal = ordinal[a]
    /\ Take(a, IF stopping[a] THEN "recovering" ELSE "granted")
    /\ UNCHANGED <<ledgerVars, row, managerVars, toManager, stopping, refused, ordinal, sent>>

(* Mutant of the timeout: it resolves the promise.                          *)
AckTimeoutProceeds(a) ==
    /\ worker[a] = "waiting"
    /\ worker' = [worker EXCEPT ![a] = "granted"]
    /\ refused' = [refused EXCEPT ![a] = TRUE]
    /\ UNCHANGED <<ledgerVars, row, managerVars, toManager, toWorker, stopping, ordinal, sent>>

(* No acknowledgement within 5 seconds: this gate and all later ones fail.  *)
AckTimeout(a) ==
    /\ worker[a] = "waiting"
    /\ worker' = [worker EXCEPT ![a] = "recovering"]
    /\ refused' = [refused EXCEPT ![a] = TRUE]
    /\ UNCHANGED <<ledgerVars, row, managerVars, toManager, toWorker, stopping, ordinal, sent>>

(* An acknowledgement that comes after the timeout is an error.             *)
RejectAck(a) ==
    /\ Gets(a, "RECOVERY_REQUEST_ACK")
    /\ worker[a] \in {"recovering", "finished"}
    /\ Take(a, worker[a])
    /\ Tell(a, Message("WORKER_ERROR", 0))
    /\ UNCHANGED <<ledgerVars, row, managerVars, stopping, refused, ordinal, sent>>

SendRequest(a) ==
    /\ worker[a] = "granted"
    /\ sent' = [sent EXCEPT ![a] = @ + 1]
    /\ worker' = [worker EXCEPT ![a] = "recovering"]
    /\ UNCHANGED <<ledgerVars, row, managerVars, toManager, toWorker, stopping, refused, ordinal>>

(* recoverMutation returns or throws.                                       *)
EndRecovery(a) ==
    /\ worker[a] = "recovering"
    /\ worker' = [worker EXCEPT ![a] = "finished"]
    /\ \/ ~refused[a] /\ sent[a] > 0 /\ Tell(a, Result("ROLLBACK_VERIFIED"))
       \/ Tell(a, Result("CLEANUP_FAILED"))
       \/ Tell(a, Message("WORKER_ERROR", 0))
    /\ UNCHANGED <<ledgerVars, row, managerVars, toWorker, stopping, refused, ordinal, sent>>

(* The process ends: nothing reaches it any more.                           *)
Exit(a) ==
    /\ worker' = [worker EXCEPT ![a] = "closed"]
    /\ toWorker' = [toWorker EXCEPT ![a] = <<>>]
    /\ UNCHANGED <<ledgerVars, row, managerVars, toManager, stopping, refused, ordinal, sent>>

(* SHUTDOWN, or the channel is closed once its messages have been read. The *)
(* bootstrap script exits at once.                                          *)
ToldToStop(a) ==
    \/ Gets(a, "SHUTDOWN")
    \/ Alive(a) /\ toWorker[a] = <<>> /\ ~Connected(a)

ExitUnactivated(a) ==
    /\ worker[a] = "booting"
    /\ ToldToStop(a)
    /\ Exit(a)

StopWorker(a) ==
    /\ worker[a] # "booting"
    /\ ~stopping[a]
    /\ ToldToStop(a)
    /\ stopping' = [stopping EXCEPT ![a] = TRUE]
    /\ toWorker' = [toWorker EXCEPT ![a] = <<>>]
    /\ UNCHANGED <<ledgerVars, row, managerVars, toManager, worker, refused, ordinal, sent>>

(* SIGTERM or SIGINT: messages are still handled.                           *)
SignalWorker(a) ==
    /\ worker[a] \notin {"none", "booting", "closed"}
    /\ ~stopping[a]
    /\ stopping' = [stopping EXCEPT ![a] = TRUE]
    /\ UNCHANGED <<ledgerVars, row, managerVars, toManager, toWorker, worker, refused, ordinal, sent>>

(* The job is over, or the restoration deadline has passed.                 *)
ExitStopped(a) ==
    /\ Alive(a)
    /\ stopping[a]
    /\ Exit(a)

(* The exit timer of gracefulWorkerExit, after runRecovery settled.         *)
TerminateOwned(a) ==
    /\ Owned(a)
    /\ custody[a] = "held"
    /\ call[a] # "running"
    /\ Alive(a)
    /\ \/ Exit(a)
       \/ /\ failures' = TRUE
          /\ UNCHANGED <<ledgerVars, row, server, incarnation, shuttingDown, call, outcome, step,
                         cancelled, custody, lost, toManager, toWorker, workerVars>>

(* The process fails, or a resource limit has it killed.                    *)
WorkerDies(a) ==
    /\ Alive(a)
    /\ Exit(a)

-------------------------------------------------------------------------------

StartSteps(a) ==
    \/ StartRecovery(a) \/ RefuseRecovery(a) \/ RecordPending(a) \/ FailBeforeFork(a)
    \/ \E recorded \in BOOLEAN : Fork(a, recorded)

MessageSteps(a) ==
    \/ HandleBootstrapReady(a) \/ HandleReady(a) \/ HandleAccepted(a)
    \/ HandleGate(a) \/ HandleResult(a) \/ SettleWithError(a)

EndSteps(a) ==
    \/ ObserveExit(a) \/ ReleaseCustody(a)
    \/ \E confirmed \in BOOLEAN : FinishRecovery(a, confirmed)
    \/ RejectResult(a) \/ Interrupt(a)

(* What the dashboard's calls, timers and startup do for an attempt.        *)
DashboardSteps(a) ==
    \/ StartSteps(a) \/ MessageSteps(a) \/ EndSteps(a)
    \/ TerminateOwned(a) \/ Reconcile(a)

WorkerSteps(a) ==
    \/ Activate(a) \/ Initialize(a) \/ BeginRecovery(a)
    \/ RequestGate(a) \/ Acknowledge(a) \/ AckTimeout(a) \/ RejectAck(a)
    \/ SendRequest(a) \/ EndRecovery(a)
    \/ ExitUnactivated(a) \/ StopWorker(a) \/ ExitStopped(a)

Next ==
    \/ \E a \in Attempts :
          \/ Reserve(a) \/ DashboardSteps(a) \/ WorkerSteps(a)
          \/ SignalWorker(a) \/ WorkerDies(a) \/ LoseCustody(a)
          \/ \E cleanupUnresolved \in BOOLEAN : FinishExecution(a, cleanupUnresolved)
    \/ RecoverInterruptedExecutions
    \/ Shutdown \/ Crash \/ Restart \/ Serve

Spec == Init /\ [][Next]_vars

(* A dashboard that is up runs its calls and timers, one that is down is    *)
(* started again, and worker processes run until they end: no attempt is    *)
(* favoured, and nobody has to reserve one.                                 *)
LiveSpec ==
    /\ Spec
    /\ WF_vars(Restart \/ Serve \/ \E a \in Attempts : DashboardSteps(a) \/ WorkerSteps(a))

-------------------------------------------------------------------------------
(* Properties                                                               *)

(* NOT_EXECUTED (interrupt) is true for good: the worker never transmitted  *)
(* a request and is gone, so it never will, whenever the dashboard died.    *)
NotExecutedMeansUntouched ==
    \A a \in Attempts : phase[a] = "NOT_EXECUTED" => sent[a] = 0 /\ ~Alive(a)

(* Every request a worker transmitted, or may still transmit on the         *)
(* acknowledgement it has, was recorded by gate before: a dashboard that    *)
(* dies does not lose one.                                                  *)
EveryRequestIsRecorded ==
    \A a \in Attempts :
        sent[a] + (IF worker[a] = "granted" THEN 1 ELSE 0) <= gates[a]

(* Two workers never recover the same case at the same time: reserve lets   *)
(* the next attempt in only when the last one's worker is gone, also after  *)
(* a restart of the dashboard, whose old workers go on for a while.         *)
OneWorkerPerCase ==
    \A a, b \in Attempts : a # b /\ CaseOf[a] = CaseOf[b] => ~(Alive(a) /\ Alive(b))

(* A verdict on the restoration (RESTORATION_VERIFIED or FAILED) is given   *)
(* only of a worker that is gone, whose resource is retained: nothing can   *)
(* change the target behind it.                                             *)
VerdictAfterCustody ==
    \A a \in Attempts :
        phase[a] \in {"RESTORATION_VERIFIED", "FAILED"} => ~Alive(a) /\ row[a] = "RETAINED"

(* While an outcome is UNKNOWN no later dashboard starts a recovery worker  *)
(* (unresolved, which runRecovery asks, also after a restart).              *)
UnknownStopsDispatch ==
    \A a, b \in Attempts :
        phase[a] = "UNKNOWN" /\ controller[b] > controller[a] => worker[b] = "none"

(* What the operator is shown agrees with the ledger, although the scan     *)
(* service writes approvals of its ended scans behind the recovery's back:  *)
(* no verdict leaves a recovery that runs, and a verdict on the restoration *)
(* is shown as what it is. Of every other attempt the row also says RUNNING *)
(* until the verdict, and verified only when the ledger does.               *)
SummaryAgrees ==
    \A a \in Attempts : phase[a] # "none" =>
        /\ summary[a] = "RUNNING" => phase[a] \notin terminal
        /\ phase[a] = "RESTORATION_VERIFIED" => summary[a] = "ROLLBACK_VERIFIED"
        /\ phase[a] = "FAILED" => summary[a] = "CLEANUP_FAILED"
        /\ a \notin ScanApprovals =>
              /\ phase[a] \notin terminal => summary[a] = "RUNNING"
              /\ summary[a] = "ROLLBACK_VERIFIED" => phase[a] = "RESTORATION_VERIFIED"

(* Every attempt that was reserved gets a verdict, and its worker leaves,   *)
(* for good, whatever dies or stops answering and whoever writes its row.   *)
AttemptsEnd ==
    <>[](\A a \in Attempts : phase[a] # "none" => phase[a] \in terminal /\ ~Alive(a))
===============================================================================
