# RouteCairn: TLA+ verification project

RouteCairn assesses web applications its operator is authorized to test. A scan
engine plans and sends requests; a dashboard runs scans in worker processes and
keeps their results; an optional PostgreSQL control plane connects several
dashboards, remote workers and a mutation coordinator. Most of the code is
sequential and derives records from records. What is hard about it is a handful
of protocols that must survive crashes, lost requests, expiring leases and
several processes: these are modelled here, one module per component, checked
with TLC on small instances and, where it matters most, proved with TLAPS for
every instance.

Paths below are relative to the repository (`src/` is its TypeScript source).

## Inventory

| Component | State it keeps | Operations | Hard behaviour | Model |
|---|---|---|---|---|
| Controlled-mutation kernel (`src/core/offensive/ControlledMutationExecutor.ts`, `MutationJournal.ts`, `MutationRecoveryVault.ts`) | journal, sealed recovery bundles, per-host lock (SQLite lease and metadata file), the assessed object | execute, recover, rollback, acquire and release of the lock | crash between any two durable steps, writes that fail after they became durable, recoveries that race | `ControlledMutation` |
| Distributed mutation coordinator (`src/dashboard/operations/DistributedMutationCoordinatorService.ts`, client in `core/offensive`) | one active lease and the cleanup obligations per namespace | acquire, renew, release, orphan, resolve | clients that stop waiting, late releases, expiry, operators | `MutationCoordinator` |
| Remote worker queue and agent (`src/controlPlane/PostgresRemoteWorkerService.ts`, `src/dashboard/operations/RemoteWorkerService.ts`, `src/cli/commands/agent.ts`) | workers with status and generation, jobs with lease token and attempts | heartbeat, claim, renew, complete, enqueue, setStatus | expiry against late answers, stale authentication, operator decisions that cross requests | `FleetJobs` |
| Leader election and fenced transactions (`src/controlPlane/PostgresControlPlane.ts`) | the scheduler row; what each replica believes | tick, isLeader, fencedTransaction, shutdown | late answers, callbacks that outlive their lease, restarts | `LeaderElection` |
| Event outbox (same file) | the outbox table, each consumer's cursor | publish, drain, listen, poll | commit order against id order, lost notifications | `Outbox` |
| Cleanup attempts and recovery workers (`src/dashboard/recovery/CleanupAttemptLedger.ts`, the recovery services in `src/dashboard/execution/`, `runRecovery` in `src/dashboard/worker/ScanWorkerManager.ts`, the worker process) | the attempt ledger, job and approval rows, resource rows, custody of processes, both message queues | reserve, dispatch, gate, settle, drain, record, interrupt, reconcile | crash between any two steps, workers that outlive the dashboard, late acknowledgements, lost custody | `CleanupAttempts` |
| Scans of a dashboard (`src/dashboard/execution/ScanExecutionService.ts`, `src/dashboard/worker/`, `src/dashboard/db/ControlledMutationApprovalRepository.ts`) | the queue, the active run, the manager's workers, rows of scans, leases, resources and approvals | enqueue, cancel, run, settle, ingest, reconcile, shutdown, start | messages, exits, timers, cancellation, crash and restart in any order, workers of an earlier dashboard | `ScanJobs`, promise in `ScanLifecycle` |
| Request path (`src/core/http/RequestSafetyBroker.ts`, `ScanRequestLedger.ts`, `RequestQueue.ts`, `RateLimiter.ts`, `HttpClient.ts`, `src/core/authorization/TargetAuthorization.ts`) | three budgets, slots, queues, rate windows, the cache, abort signals | send, synchronized group, raw pair, discovery, browser route, commit | several brokers over one ledger, aborts that race with a hand-over of a slot, retries and replays of what was already written | `RequestBroker` |
| Workflow mutations (`src/core/offensive/WorkflowMutationCoordinator.ts`, `WorkflowRecoveryExecutor.ts`, the seven engines in `src/modules/`) | journal stages, encrypted checkpoints, the host's lock, the steps the application applied | register, lock, append with checkpoint, checkpoint, cleanup, recovery | a write that fails before, between or after its two files, a crash in a half-changed case, a recovery with an old checkpoint | `WorkflowMutation` |
| Sessions, credential vault, findings, assurance, discovery, synchronization (`src/dashboard/`) | rows of the dashboard database | see `PROJECT.json` | expiry, rotation, merge | planned in part |
| Scan modules, reports, standards, planning, schemas, UI, benchmarks | none that outlives a call | pure or I/O | none a model checker would help with | not modelled |

How they interact: the engine runs inside a scan worker process and calls the
kernel; the kernel takes the host's lock, then the coordinator's lease over
signed HTTP; the dashboard starts workers and, after a failure, recoveries;
remote agents poll the fleet server, whose replicas elect a leader and tell each
other of changes through the outbox. Shared state is always a database row, a
file or a lease; no two components share memory across a process.

`PROJECT.json` lists every component with its sources and what is modelled of
it, the hazards at their lines, and the definitions with the code they model.

## Modules

### The mutation kernel

`ControlledMutation` extends `MutationCoordinator`; together they model the
whole path of one mutation of a target object.

| State | In the code |
|---|---|
| `journal[h][c]` | stage of case `c`'s latest entry in host `h`'s journal file |
| `bundle[h][c]` | the pre-state sealed in the encrypted recovery bundle |
| `lease[h]`, `metadata[h]` | the open SQLite write lease of `GlobalMutationLock`, and the pid in its metadata file |
| `pc`, `kind`, `case`, `pre`, `retries` | a process inside `execute` or `recover`, with the locals that matter |
| `target[c]` | the object of the assessed application (external) |
| `activeLease`, `obligations` and the late releases | the coordinator's rows |
| `abandoned` | acquire requests whose client stopped waiting |

Every await is a step boundary: a process may crash there, another may run. A
journal append either succeeds, fails before it is durable, or throws after it
is durable (`afterAppend`). Requests to the target are applied or not, and their
answer is lost or not. `Execute`, `Reject` and `Recover` start calls;
`AcquireLocal` to `RemoveBundle` are the steps of the code in its order, with
`Throw` for the catch block (its one retry of the rollback included) and
`Release` for the finally block with its report to the coordinator. The
environment delivers late requests, expires leases, reuses pids, and lets
operators orphan and resolve. An expired authorization throws before anything
changed, and is a call that is not made.

`SingleMutation` is the abstract promise: at most one object of a namespace is
away from its original state, and the next one is touched only after the last
was restored. `AtMostOneMutated` says that the kernel implements it (the
refinement mapping is the target itself).

Abstractions: encryption, digests and signatures are left out; whether an
assertion on the object holds is whether its state is the expected one of
`original` and `mutated`; the coordinator's nonces are left out because they
only reject repetitions of a request.

### The control plane

`FleetJobs` models both implementations of the queue, chosen by `Distributed`
(PostgreSQL behind the fleet server, or the dashboard's SQLite). A request is
sent, authenticated against the worker's row, and handled later with the
generation read at authentication, each in a step of its own. `agent[w]` follows
the loop of `agent.ts`: heartbeat, claim, confirming heartbeat, handler, report;
`held` is its job and token; the renewal timer sends next to it. An agent stops
waiting for a request that is lost or still on its way; a lost answer is an
agent that stopped waiting before. `Requeued` is the sweep at the start of a
claim. `EndLeases` is the SQLite service's way to end the leases of a
quarantined worker; PostgreSQL compares the generation instead (`HoldsLease`).
A lease token is a random value in the code, here the attempt it was issued for.

`LeaderElection` models `PostgresLeaderElection` and `fencedTransaction` for one
scheduler key: a tick takes `started` before it sends the upsert, the database
executes it at one instant (`RunTick`), the answer is used at another
(`EndTick`); a failed tick may be executed later (`RunLate`). `onLeadership`
runs a fenced transaction with the token it was called with, whatever happened
since. The new expiry is taken when the row is written; PostgreSQL evaluates it
before it waits for the row, which makes a granted lease shorter, never longer,
while the replica counts from before it sent the request in either case.

`Outbox` models `publishInTransaction` with its advisory lock, sequence ids that
a rollback does not return, and consumers that read a cursor, drain in pages and
fail. A notification only wakes a consumer that polls anyway.

### Cleanup attempts

After a mutation could not be rolled back, an operator authorizes a recovery.
`CleanupAttempts` follows one attempt from `reserve` to its verdict, through
three parties that fail on their own.

| State | In the code |
|---|---|
| `phase[a]`, `gates[a]` | the last event of the attempt, and its DISPATCH_ATTEMPTED events |
| `controller[a]`, `incarnation` | the ledger's `controller_id`: which start of the dashboard reserved it |
| `summary[a]` | status of the recovery job or approval that the operator sees |
| `row[a]` | state of the `worker_resources` row |
| `call[a]`, `outcome[a]` | where the service's `execute` awaits, and the result it got |
| `step[a]`, `cancelled[a]` | locals of `runRecovery` |
| `custody[a]`, `lost[a]`, `failures` | `pendingWorkerCleanup`, a lost kernel job, `retentionFailures` |
| `toManager[a]`, `toWorker[a]` | the two directions of the IPC channel, in order |
| `worker[a]`, `stopping[a]`, `refused[a]`, `ordinal[a]` | the worker process |
| `sent[a]` | history: requests that left for the target |

`StartRecovery` to `Fork` are the synchronous beginning of `runRecovery`, split
only because the process may die between its durable writes; no other call moves
there (`NotStarting`). The `Handle*` actions are the branches of its message
handler, `SettleWithError` everything that settles it with an error (timeout,
exit, IPC error, a refused check, a failing write). `LoseCustody`,
`ObserveExit` and `ReleaseCustody` are the custody of the process and its
resource row, each with its failing write. `FinishRecovery`, `RejectResult` and
`Interrupt` are the rest of the services' `execute`. `Crash` forgets the memory
of the dashboard and leaves its workers and what is on its way to them;
`Reconcile` interrupts old attempts one at a time, so a crash may come between.

The approval of a single-request mutation has writers that know nothing of the
attempt: `ScanApprovals` are the attempts whose approval is still bound to an
ended scan, and for them the scan service's `RecoverInterruptedExecutions` (every
30 seconds) and `FinishExecution` (a late ingestion) may write the summary at any
time between two steps of a recovery.

Abstractions: an attempt stands for its authority key, which is used once;
REQUESTED and AUTHORIZED are one transaction; the hash chain and the MACs are
left out; CANCEL_JOB, heartbeats and the recovery lease change no control here
(a recovery runs on a transport that ignores the abort signal). `bindProcess` is
one step, because no condition of the code tells CREATED, RUNNING and DRAINING
apart. Between the drain and the verdict the services read the journal; no other
worker can start meanwhile, since RESULT_RECEIVED is `unresolved`, so drain and
verdict are one step. A failing write of `interrupt` leaves what a crash before
it leaves.

### The scans of a dashboard

`ScanJobs` follows every scan from `enqueue` to its last row: the service's
queue, the worker manager, the worker process, and what the next dashboard makes
of what an earlier one left behind.

| State | In the code |
|---|---|
| `status[s]`, `ingested[s]`, `lease[s]`, `resource[s]` | rows of `scans`, its artifacts, `scan_job_leases`, `worker_resources` |
| `approval[s]`, `recovery[s]` | the approval a mutating scan consumes, and the recovery it may authorize afterwards |
| `fleet`, `failures` | `worker_governance_state`; `retentionFailures` |
| `queue`, `active`, `aborted`, `call`, `result` | `ScanExecutionService` and where its `run` awaits |
| `manager[s]` | the manager's entry of the worker with the locals of its `run` |
| `reconciler` | `reconcileInterruptedReports`: its step and the rows it has read |
| `process[s]`, `signal[s]`, `report[s]` | the worker process, and what it left on disk |
| `toManager[s]`, `toWorker[s]` | the IPC channel, in order |

The dashboard is one event loop, so everything between two awaits is one action:
`pump` up to the fork, `onMessage` and `onExit` with the settlement they cause,
`ingestRead` and `ingestRecord` around the reading of the report. `shutdown`
waits for the reconciliation, then for the run. `GoDown` forgets the memory;
the rows and the workers stay. `Start` is `startDashboardServer` with its order
of repairs. A recovery is one step here from its start to its end: what happens
within it is `CleanupAttempts`.

`ScanLifecycle` is the abstract promise: one scan at a time leaves the queue,
`COMPLETED` only follows a run, an ended scan never changes, an accepted scan
ends. `LifecycleHolds` says that `ScanJobs` implements it.

Abstractions: CREATED, RUNNING and DRAINING are LIVE, since no condition tells
them apart; PLANNING lasts no step, since nothing is awaited in it; a limit of the
policy may be exceeded at any time (the figures of heartbeats are left out); a
fork or a registration either happens as a whole or does not; an exit's process id
is not given to another process before its lease is recovered.

### The request path

`RequestBroker` models the requests of one scan, over the brokers that share its
ledger. Every await of `send` is a step: the cache and the broker's queue
(`joined`, `settled`, `queued`), the authorization's rate (`attempt`), one of the ledger's
slots (`slotWait`), the rate limiter's chain (`turn`), the last check (`guard`)
and the transport, which reserves the budgets at the moment it writes. Between
any two of them other requests, an abort of either lane, the end of the
authorization's window or the clock may intervene. The seven kinds of request
(read, mutation, raw, discovery, burst, race, browser) take the paths that
`sendRequest`, `sendRawHttp1`, `dispatchTrustedDiscoveryGet`,
`sendSynchronizedMutations` and the browser routes take; a browser's budgets are
reserved when its route is evaluated, and its slot of the window is a `permit`
until the local proxy writes.

The cache holds promises: `cache[b][u]` is the request whose promise is there,
`awaited[r]` the one whose promise a caller awaits. A read that ends settles its
promise (`Settle`); what its callers then do are steps of their own, between
which others run. `Resume` is the owner's continuation with those of the callers
that awaited the promise when it settled, which the event loop runs in a row;
`Reuse` that of a caller that found the promise settled. Each of them removes
whatever the cache holds under its key when the answer was a refusal (`Dropped`).

The ledger's waiters are kept by lane: the code takes the first waiter of the
cleanup lane, or else the first one. The authorization's list of time stamps is
`recent`: for each request ever charged, the time its stamp has left in the
window; `permit` says which of them is a browser's. `wireRecent` is the same for
the writes themselves. Time is counted in intervals of the rate limiter; which
assets and rules a request matches is an unconstrained refusal; audit entries and
redaction are left out.

### Workflow mutations

`WorkflowMutation` models cases of several steps. One coordinator per process
keeps the entry of each case; the journal, the checkpoints and the lock belong
to the host.

| State | In the code |
|---|---|
| `plan[c]` | the engine that runs the case |
| `stage[c]` | the stage of its latest journal entry |
| `bundle[c]` | its encrypted checkpoint: the run and the captured values |
| `lock` | the holder of the host's mutation lock |
| `pc[p]`, `at[p]` | a process in `executeCase`, with the coordinator's entry and its locals |
| `current` | recoveries whose checkpoint still is the revision they opened |
| `claimed` | checkpoint digests that a cleanup attempt has used up |
| `effects[c]`, `changedBy[c]` | the steps the application applied, and the run that did (external) |

`Append` is the coordinator's append with its hooks: `beforeAppend` refuses or
seals, the journal writes, `afterAppend` removes. It fails early, after it armed
the case, before its entry is durable, or after. The engines differ in few
places, which `plan` decides: what they write for a request that was kept back,
whether they observe the state before and after, and what skips the final entry.
`Register` to `Release` are the steps in the order of the code, `Clean` one
cleanup request, `Failed` the protocol engine's catch block, `Enqueue` and
`Open` the beginning of a recovery. Six engines acquire the lock before their try
block and return when it is refused; the protocol engine acquires it inside, and
a recovery is armed from the start, so `RefuseLock` leads a protocol recovery to
its catch block, which appends and seals without the lock (`refused`).

The promise is that of the kernel: `OneCaseAtATime` instantiates `SingleMutation`
with a case being mutated while a step of it is applied.

Abstractions: the lock's metadata, its distributed lease and the journal's writer
lock are those of `ControlledMutation`, the attempts of the dashboard those of
`CleanupAttempts`. A cleanup whose assertions pass is taken to have undone every
step, and a request to be applied, or not, before the engine goes on. An append is
one step also beside another process's: the writer lock covers the checkpoint and
the entry, and no condition reads the one without the other in between. The second
ROLLBACK_SENT entry of the stepped engines seals the same again and is left out,
as are read-only cases.

The `MC*` modules declare model values and, where sound, symmetry sets. No
configuration replaces a definition.

## Runs

| Run | What it shows |
|---|---|
| `mutation_one_host` | Two processes of a host, one contract, all faults: a mutated target always keeps a bundle with its original state on a host that refuses ordinary mutations; bundles never hold a mutated state; only a verified rollback clears an obligation; the lock is given back on every path; once faults stop a mutated target is restored. |
| `mutation_two_hosts` | Two hosts with a contract each and reused pids: one mutation window at a time, the namespace stays closed while a target is mutated, and the kernel refines `SingleMutation`. |
| `mutation_split_brain` (violation) | See Findings. |
| `fleet_handover` | Two agents and a job of the PostgreSQL queue: only the latest lease's result is accepted, and a finished job never changes. |
| `fleet_operators` | One agent of either queue and all operator decisions: quarantine and revocation end leases for good; a worker out of service stays so, and gets no lease, until an operator enables it in a new generation, whatever heartbeat or claim was authenticated before; every queued job ends while some worker stays enabled. |
| `leader_election` | At most one leader, one owner per fencing token, commits in token order. |
| `outbox` | No event is skipped, repeated or reordered, and every event arrives although notifications are lost and drains fail. |
| `cleanup_attempts` | Two attempts at a case, their workers, a dashboard that dies anywhere and restarts, and a scan service that writes the approval of one of them: NOT_EXECUTED is true, requests are recorded before they leave, one worker per case, verdicts only of workers that are gone, no verdict leaves the operator with a running recovery or hides what became of the restoration, and every attempt ends. |
| `requests` | Requests of all kinds over three brokers: no slot or place is lost or given twice, the three budgets agree, what changes state is written once, a read in flight is the one that later callers share until a sharing one is refused, the target never sees more than the rate, a discovery GET is the first of its address, and every request ends. |
| `scan_jobs` | Scans with crashes, restarts, failures and an earlier dashboard's workers: every unfinished scan is accounted for, a cancellation reaches its worker, supervisors never run two workers together, a mutating job has its approval, a stopped one does not complete, the lifecycle is implemented, and nothing stays open. |
| `scan_recovery_approval` (violation) | See Findings. |
| `workflow_mutations` | Two processes run and recover cases of two steps with every write failing at every place: an applied step keeps the checkpoint of its run (a protocol case at least one that a refused recovery put there) and closes the host to other cases, and changes of one case at a time are on the application. |

Each property has a mutant in `PROJECT.json`: a definition changed as a
plausible bug would change it, under which TLC finds the property violated.

### Bounds

- Mutation: two processes suffice for every race the code has (a lock holder and
  one competitor; the third party, the operator, is an action). One case per
  host, because the lock is per host and obligations are per case; two cases
  with two hosts make the namespace shared. `MaxAbandoned` bounds requests
  nobody waits for: one on the single host; none with two, where late releases
  still arrive. Reused pids only keep a lock refused, so they are with the two
  hosts, where no progress is claimed. Retries need no bound: the code retries a rollback once.
- Fleet: two attempts are the least with which a job changes hands. Generation
  3 is the least with which a worker is quarantined and enabled again.
  `MaxAbandoned` = 1 lets one report or claim outlive its agent's interest in
  `fleet_handover`; it is 0 in `fleet_operators`, where `JobsEnd` would take too
  long with more, and requests still get lost there. The theorems on its safety
  properties hold for any bound. One job: jobs only share the worker's row.
- Leader: a lease of 1 tick and 4 ticks of time let leases expire twice under a
  callback; three fencing tokens let two successors lead in between. The
  theorems are free of these bounds.
- Cleanup attempts: two attempts at one case are the least for `reserve` to
  refuse one and for an old worker to live next to a new attempt; two
  incarnations let the dashboard die once, at any point; one request is enough
  for a late or lost acknowledgement. One of the two has an approval the scan
  service writes, the other has none. The
  theorems are free of these bounds and hold for any assignment of attempts to
  cases and any set of such approvals.
- Outbox: five ids and pages of two rows let a drain take several pages and a
  consumer restart between them; two producers are enough for ids to commit out
  of order without the lock. The theorems are free of these bounds.
- Requests: three requests, because a hand-over of a slot needs a holder, a
  waiter that is aborted, and the next one. Five plans put together what shares
  something: three reads of one address; a read, the discovery of its address and
  a raw pair; a mutation, or a raw pair, with a browser route and a cleanup; a
  group of two. One slot and rate 2
  make every request wait; brokers of 2, 2 and 1 requests, a scan capacity of 2,
  a reserve of 1 and an authorization of 3 make each budget the first to run out.
  Two attempts and one redirect are one repetition of each. Three readers are the
  least for a late removal to hit another's promise: one that is refused, one that
  comes late, one that asks again. The theorems are free of these bounds.
- Scans: `MCScanJobs` starts from three situations, because all faults of two
  scans together are too many: two scans of which nothing fails (queue, next run,
  recovery beside a scan); one mutating scan with one stop or crash and two
  failures anywhere; a dashboard that crashed while a worker was at any of its
  stages, with one more failure. Crash limit 2 is the least for the fleet to
  be quarantined by a second crash and not by the first. Deadlock is not checked:
  when all scans have ended and the bounds are used up nothing is left to do. The
  theorems are free of the bounds and start from an empty database.
- Workflow mutations: two steps are the least for a later one to fail after an
  earlier one was applied; the first needs a captured value. Two runs are the
  least for a case to be run again, or another one after it; two processes for a
  run next to a recovery. Three plans pair the five engines' behaviours. Deadlock
  is not checked, since runs are bounded. The theorems are free of these bounds.

### Fairness

- `ControlledMutation!LiveSpec`: weak fairness of each process's steps (the
  event loop runs what did not crash), strong fairness of starting a recovery
  (operators and the dashboard's recovery panel keep trying, under an
  authorization that has not expired), weak fairness of
  expiry, orphaning and resolving. `MutationIsRestored` is claimed from the
  moment `calm` holds: nobody can restore a target that never answers.
- `FleetJobs!LiveSpec`: weak fairness of the agent's own steps (the loop and
  `maxJobMs` end them) and of lease expiry; strong fairness of authenticating
  and handling a worker's heartbeats and claims, that is, requests do not get
  lost for ever. `PromptNext` restricts behaviours to those in which a claim is
  handled before the heartbeat before it has become 90 seconds old: `agent.ts`
  sends it at once and waits at most 35 seconds. Nothing is assumed of reports
  and renewals.
- `Outbox!LiveSpec`: weak fairness of listening and of starting a drain (the
  one-second poll timer), strong fairness of delivering a drained page (queries
  do not fail for ever). No notification is assumed to arrive.
- `CleanupAttempts!LiveSpec`: weak fairness, taken together, of what the dashboard
  does for the attempts (its event loop, the recovery timeout and the exit timer),
  of starting it again and of its reconciliation, and of the workers' own steps
  (their loops, the acknowledgement timeout, the shutdown deadline). Crashes, signals, lost
  custody and operators are not fair: nobody has to reserve an attempt.
- `RequestBroker!LiveSpec`: weak fairness of all requests' steps and the clock
  together: the event loop runs a ready continuation, every wait of the transport
  has a time-out. No single request is favoured, so `EveryRequestEnds` rests on
  the order of the queues.
- `ScanJobs!LiveSpec`: weak fairness of everything that goes on by itself taken
  together (the event loop, its timers, the workers' loops), and of the
  reconciliation, which an interval repeats; strong fairness of the expiry of
  leases. No job has to end by itself, since the policy's run-time limit ends
  it. Assumed: terminating an owned process succeeds in the end; failures of the
  ingestion are as finite as `MaxIncidents`; a dashboard that is down is started
  again.
- `LeaderElection` has no liveness property: with a failing database nobody
  leads, and the code promises nothing else. `WorkflowMutation` has none either:
  a case may stay uncleaned for ever (see Observations).

## Proofs

`ControlledMutationProofs` proves for any hosts, processes, cases and bounds
that the specification keeps its type invariant, `MutationIsRecoverable`,
`NamespaceStaysBlocked`, `SealedPreStateIsOriginal`, `SingleMutationWindow`,
`OnlyVerifiedRollbackClears`, and that it implements `SingleMutation`. Two
hypotheses appear in the statements, because the code is wrong without them (see
Findings): `OwnCasesOnly`, no contract runs from two hosts, and `~OrphansLive`,
operators orphan only the lease of a holder that is gone.

None of the properties is inductive: they do not say why the process inside the
window is the only one. The inductive invariant `Inv` adds
- `CaseInv`: a process that is not idle works on a case of its own host;
- `LockInv`: a process that holds the host's lock owns its SQLite lease;
- `LeaseInv`: one that entered owns the coordinator's active lease, which is why
  `Exclusion` follows: two processes inside are the same;
- `PreStateInv`: what is sealed, or about to be, is the original state;
- `ExecuteInv`: while a process prepares or is about to send, every target is
  original; after `MUTATION_ARMED` its own case is sealed, journalled and
  tracked by the lease or as an obligation (`TrackedInv`).

The proof goes by action: lemmas for what `Append`, `Goto` and `Throw` leave
alone, then the steps of `execute`, of `recover`, of the lock, crashes, and the
environment. The refinement follows because only `SendAttack` and `SendRollback`
change a target, under `ExecuteInv`.

`LeaderElectionProofs` proves for any replicas with instance ids of their own
(`OwnInstanceIds`), any lease duration and unbounded time that at most one
replica is leader, that a fencing token has one owner, and that fenced commits
follow their tokens. `Inv` relates what a replica believes to the row: a
leader's deadline never exceeds the row's expiry while the row is its own
(`LeaderInv`), the same of an answer still under way (`AnswerInv`), a transaction
that passed the fence check has the row locked with its token (`WorkInv`), and
tokens granted are at most the row's (`FenceInv`). Assumed: `performance.now()`
and the database's clock run at the same rate.

`CleanupAttemptsProofs` proves for any attempts, any assignment to cases, any
number of requests and restarts that the specification keeps its types,
`NotExecutedMeansUntouched`, `EveryRequestIsRecorded`, `OneWorkerPerCase`,
`VerdictAfterCustody`, `SummaryAgrees` and `UnknownStopsDispatch`; the last one
needs attempts at two cases to say anything, so it is proved and has no run. The
properties relate the ledger to processes the ledger cannot see. `Inv` adds the
links between them:
- `CallInv`, `CustodyInv`: a service that awaits has an open attempt of the
  serving dashboard, and which process that call still has in custody;
- `RowInv`, `VerdictInv`: a resource without a row, or a retained one, has no
  process, and verdicts other than UNKNOWN rest on such a resource. This is why
  `interrupt` may trust the row after a restart;
- `DispatchInv`, `SentInv`: a recovery command, on its way or taken, implies
  DISPATCH_ARMED, and acknowledgements on their way are at most `gates`;
- `CaseInv`: of two attempts of a case at most one is unresolved;
- `ControllerInv`: open attempts are the newest, and when a worker is about to
  start no outcome of an earlier dashboard is UNKNOWN.

`WorkerFrame` reduces the steps of a worker to what they do to its own queue and
counters; `GlobalFrame` the steps that give no verdict and start no process.
`SummaryAgrees` is proved on top of `Inv`, by the steps that write the ledger. It
holds beside the scan service's writes because those only touch a summary that is
RUNNING, and a verdict is recorded together with its summary or not at all.

`FleetJobsProofs` proves for any workers, jobs, attempt budgets, generations and
requests under way, and for both services, the type invariant,
`ResultOfLatestLease`, `TerminalIsFinal`, `RevokedLeaseIsDead` and
`OutOfServiceStays`. The invariant has two halves: `AgentInv`, an agent
waits for at most one request and whoever reports carries a lease; `JobInv`, a
leased row's token is its latest, and a revoked lease is either over or of an
earlier generation than its worker's (`Dead`).

`OutboxProofs` proves `NothingSkipped` and the types for any transactions,
consumers, events and page size. `OrderInv` is the point of the advisory lock:
who has inserted holds it and its id is the newest, so ids commit in their order;
`PageInv` says that a page follows its cursor without a gap, also when more was
committed since it was read.

`ScanJobsProofs` proves for any scans, limits, stops and failures the types,
`UnfinishedIsHeld`, `SupervisorsExclude`, `MutationHasApproval`,
`CancellationNotLost`, `StoppedIsNotComplete`, and that the dashboard implements
the safety part of `ScanLifecycle`. The invariant:
- `MemoryInv`: one run at a time, whose worker, result and ingestion follow each
  other; a dashboard that is down has no memory. What the manager awaits is
  therefore the active scan;
- `RowsInv`: the queue and the active scan are the unfinished rows, and what the
  reconciliation works on has ended, so that it cannot touch a running scan;
- `CustodyInv`: a living process is in the table of resources, which is all that
  a restarted dashboard can see of it; exclusion follows from it;
- `ApprovalInv`: an approval is in use until its scan's result is read, and never
  by a scan and a recovery at once;
- `CancelInv`: on the channel of a job that is to stop, START_JOB is followed by
  CANCEL_JOB.

`WorkflowMutationProofs` proves for any cases, processes, steps, runs and
assignment of engines to cases the types, `ChangedIsGuarded`, and that a host
implements `SingleMutation`. `ChangedIsGuarded` says what the files are when a
case is changed; that it stays so depends on who may write them:
- `LockInv`: the places from which a process touches the application are those at
  which it holds the lock. The journal and the checkpoints are written there too,
  and by a protocol recovery that was refused it;
- `ClaimInv`: such a recovery is of a protocol case and of a run whose digest is
  used up. It writes CLEANUP_FAILED and a checkpoint of that run and removes
  nothing, so a case stays guarded, by an older checkpoint at worst;
- `HolderInv`: a scan that holds the lock found nothing applied, so whatever is
  applied now is of its own case and its own run, which it armed; when it is about
  to send, its checkpoint is sealed and names that run, or has been replaced in
  the way above. A recovery may find changes of other cases, and knows the run
  that changed its own, unless it is of a protocol case;
- `CurrentInv`: a recovery whose checkpoint is still the one it opened cleans up
  after the very run that the checkpoint names. It ties what `recover` read before
  it had the lock to what is there when it gets it;
- `ProcInv`: what a process's place tells about its entry; in particular a
  recovery never gets to where a step is sent.

The refinement follows: a step is sent only under `HolderInv`, when no other case
is changed, and everything else only undoes.

`RequestBrokerProofs` proves for any finite sets of requests and brokers, any
addresses, plans and limits, the types, `SlotsConserved`, `BudgetsAgree`,
`WrittenOnce`, `SharedUntilRefused`, `WireRateKept` and `DiscoveryIsFirst`. The counters of
the code are compared with sets of requests, so the invariant says who is where:
- `SlotInv`, `PlaceInv`: the ledger's and each queue's counter is the number of
  requests that hold a slot or a place, nobody waits while one is free, and the
  waiters are listed once each, in the list of their own lane or broker. A
  hand-over therefore reaches a request that still waits, and leaves the counter
  right;
- `BudgetInv`: the authorization's budget is what both lanes reserved and what
  browsers were refused after it was charged. Each lane's reservation covers what
  its requests have written together with what a browser has committed and not
  yet written (`Due`); without the second part the proxy's late write could not be
  shown to be paid for;
- `RateInv`: the window holds at most the rate, and the write of each slot leaves
  the window no later than the slot itself, so the writes of a window are at most
  its slots;
- `ReqInv`: for each request by itself, what it may have written at its place,
  and that the history of GETs knows its address before it may write.

A step moves one request, or a synchronized group, by its own code. The others it
touches are moved in five ways only (`OtherMoves`: not at all, a shared promise
settles, its continuation runs, a slot is handed over or an abort rejects the wait
for it, a place is handed over), so each action is examined for its own request
alone.

`SharedUntilRefused` rests on `FlightInv`, proved on top of `Inv`: whoever is in
flight, or is refused and has not yet removed its entry, owns the entry of its
address, unless a caller that shared a promise was refused. Only a refused
continuation removes an entry. The owner's own removes its own, before anybody
else can have taken the place; one that takes another's entry away is that of a
late caller, and it leaves the exception behind.

Only model-checked: `ScanLifecycle`'s fairness and all liveness (temporal
reasoning with fairness is outside the prover's reach). Every other property of a
passing run, and every module's type invariant, is a theorem.

## Findings

1. `mutation_split_brain`: the renewal timer ignores its errors and the holder
   never looks at its lease again, so a holder that was cut off continues after
   its lease was orphaned and resolved, next to the namespace's next mutation.
   README.md:809 says that this is avoided. With operators who orphan only dead
   holders' leases the property holds (`mutation_two_hosts`, `OneWindow`).
2. `scan_recovery_approval`: `recoverInterruptedExecutions`, which the periodic
   reconciliation calls, takes the approval of a running recovery for that of an
   interrupted scan and marks it CLEANUP_REQUIRED. The recovery's COMPLETED is
   then refused, its attempt ends UNKNOWN although the target was restored, and
   further dispatches are blocked (`ControlledMutationApprovalRepository.ts:37`
   and `ScanExecutionService.ts:898`).

## Observations

What the models showed besides, without a run of its own. Those of the first
three groups can be seen with a configuration: the four unlisted ones, and
`MCRequests.cfg` with `SPECIFICATION Spec` and only the invariant named.

Shared identities:
- When two hosts run contracts with the same case id, a recovery that fails early
  on one host reports CLEAN and deletes the obligation of the other
  (`MutationJournal.ts:196`, `DistributedMutationCoordinatorService.ts:53`,
  against README.md:811). `MCMutationSharedCases.cfg` shows it.
- The default instance id `routecairn-<pid>` (`ControlPlaneConfig.ts:55`) is the
  same in every container unless it is set, and two replicas with the same id
  renew each other's lease and are both leader (`PostgresControlPlane.ts:205`).
  `MCLeaderSharedId.cfg` shows it.

Workflow checkpoints:
- A protocol recovery is armed from the start and acquires the lock inside its try
  block (`ProtocolSecurityModule.ts:1203` and `:1209`). Refused the lock, or with
  another checkpoint than it opened, it runs into its catch block, appends
  CLEANUP_FAILED (`:1258`) and thereby seals its own old checkpoint over that of
  the run that is changing the target (`WorkflowMutationCoordinator.ts:55`). If
  that run dies then, the exact case, scope and bindings that README.md:813
  promises are lost, and the digest of what is left is used up.
  `MCWorkflowCheckpoint.cfg` shows it (`ChangeHasItsCheckpoint`). The host stays
  closed (`ChangedIsGuarded`). The catch block may also write CLEANUP_FAILED, and
  seal a checkpoint with a used-up digest, after the case was verified as rolled
  back. The other engines acquire the lock before their try block and leave
  without writing.

Requests:
- The cache of reads is cleared by key, by every caller that sees its promise
  refused, in a continuation of its own (`RequestSafetyBroker.ts:569`). One that
  came to a refused promise after it settled removes the entry of a caller that
  has asked again since; a fourth one then finds nothing, and the same request is
  in flight twice. `tests/unit/request-safety-broker.test.ts:62` says that
  requests are deduplicated globally. `MCSharedReadTwice.cfg` shows it
  (`OneFlight`). While nobody that shares a promise is refused, they are
  (`SharedUntilRefused`).
- `ScanRequestLedger.ts:31` says that the ordinary lane can never consume cleanup
  capacity. The ledger keeps to it, but the authorization's budget has no
  reserve: an ordinary request, or a browser's route that the other budgets then
  refuse, may leave it too small for the cleanup (`CleanupCapacityKept`).
- `waitForRate` promises that HTTP requests wait for the rate
  (`TargetAuthorization.ts:267`), but between its wait and the reservation others
  may take the window, and the request is refused (`HttpWaitsForRate`).

Scans:
- `WorkerLeaseRecovery.ts` holds evidence back during the restoration window, but
  the reconciliation at the start ingests the reports of interrupted scans whose
  leases have not expired as well.
- A cancelled worker that has to be killed is counted as crashed, and its scan
  ends INTERRUPTED. A completed scan whose ingestion throws ends FAILED or
  CANCELLED; its report is not read again.
- Recoveries and scans keep each other waiting through `hasUnresolvedCustody`.

The mutation kernel:
- `recover` opens the bundle before it has the lock
  (`ControlledMutationExecutor.ts:176`), so a second recovery of a case can record
  a cleanup obligation after the first one removed the bundle; the host then
  stays closed, which is safe.
- A leftover lock metadata file whose pid belongs to another process keeps the
  lock refused although nobody holds it (`MutationJournal.ts:148`), which is on
  the safe side.

Workflow mutations, all on the safe side (the host stays closed):
- A recovery preserves its evidence, so the checkpoint stays after
  ROLLBACK_VERIFIED, where README.md:820 says that this removes it. If the same
  case is run again and dies before it arms, the old checkpoint closes the host,
  and its digest is already used up.
- A disposable case that is recovered after an interruption ends SEALED and keeps
  its checkpoint; the host stays closed.
- When the report that follows the protocol engine's ROLLBACK_VERIFIED throws,
  CLEANUP_FAILED is written without a checkpoint to recover from.
- A failed recovery cannot be repeated under the same checkpoint digest.

Cleanup attempts:
- While the scan service may write an approval (finding 2), it can be shown as
  COMPLETED or CLEANUP_REQUIRED while its recovery is running, and stay so when
  the attempt ends UNKNOWN or NOT_EXECUTED. `SummaryAgrees` states what is left:
  an approval is never EXECUTING after the verdict, and a verdict on the
  restoration is shown.

The fleet:
- `setStatus` lets a REVOKED worker be enabled again, where README.md:1810 says
  "permanently revoked"; its old leases stay dead (`RevokedLeaseIsDead`).

## Plan

Done:
1. Mutation kernel, coordinator, abstract promise, theorems.
2. Fleet queue, leader election, outbox, theorems.
3. `CleanupAttempts` with theorems.
4. `ScanJobs` and `ScanLifecycle` with theorems.
5. `RequestBroker` with theorems.
6. `WorkflowMutation` with theorems.

Left: dashboard sessions and step-up; credential rotation while scans read
credentials; the lifecycle of findings over scans and retests; continuous
assurance; state merge and synchronization.

## Not modelled

Most of the code is not a protocol. The scan modules' heuristics, planning
tables, schemas, reports, standards, the command line and the user interface
derive records from records, or render them; they keep no state across steps, and
a model of them would be a transcription of their tables. They are the greater
part of the source's lines, which is why the definitions map to a small share
of it. `PROJECT.json` gives the reason component by component, and names what is
planned.

Cryptography, SQL and the file system are taken at their word: a transaction is
atomic, a synced file survives a crash, a signature identifies its signer.
Sockets and name resolution are the transport's outcomes. A target that applies a
request only after its client gave up and the rollback was verified is outside
the program. Performance, logging and wording are left out.
