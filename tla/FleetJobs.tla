------------------------------- MODULE FleetJobs -------------------------------
(***************************************************************************)
(* Remote workers: the job queue of the control plane with its leases and  *)
(* worker generations, and the agents that heartbeat, claim, renew and     *)
(* complete over requests that are authenticated first and handled later,  *)
(* that get lost, and that their sender stops waiting for.                 *)
(*                                                                         *)
(* distributed: controlPlane/PostgresRemoteWorkerService.ts behind the     *)
(* fleet server; otherwise dashboard/operations/RemoteWorkerService.ts.    *)
(***************************************************************************)
EXTENDS Naturals, FiniteSets

CONSTANTS
    Workers,        \* enrolled workers of one organization
    Jobs,           \* its jobs, all within every worker's capabilities
    None,           \* "no token", "nobody"
    Services,       \* the services that may keep the queue: TRUE the distributed one
    Decisions,      \* the worker statuses operators set in this instance
    MaxAttempts,    \* the jobs' attempt budget
    MaxGeneration,  \* operator actions per worker (bound)
    MaxAbandoned    \* requests in flight nobody waits for (bound)

ASSUME FleetAssumption ==
    /\ Services \subseteq BOOLEAN
    /\ Decisions \subseteq {"ONLINE", "DRAINING", "QUARANTINED", "REVOKED"}
    /\ {MaxAttempts, MaxGeneration, MaxAbandoned} \subseteq Nat
    /\ MaxGeneration > 0
    /\ None \notin Workers \cup Nat
    /\ None \notin {"QUEUED", "LEASED", "RUNNING", "COMPLETED", "FAILED"}

VARIABLES
    distributed, \* which of the two services keeps the queue
    status,      \* status[w], generation[w], fresh[w]: the worker's row;
    generation,  \* fresh: its last_seen_at is at most 90 seconds old
    fresh,
    job,         \* job[j]: the job's row
    agent,       \* agent[w]: what the agent process waits for or does
    held,        \* held[w]: the job and lease token it works on, or None
    aborted,     \* aborted[w]: its AbortController has fired
    requests,    \* requests that were sent and not yet answered
    revoked      \* history: leases whose holder was quarantined or revoked

workerVars == <<status, generation, fresh>>
agentVars == <<agent, held, aborted>>
vars == <<distributed, workerVars, job, agentVars, requests, revoked>>

-------------------------------------------------------------------------------
Statuses == {"ONLINE", "DRAINING", "QUARANTINED", "REVOKED"}
Terminal == {"COMPLETED", "FAILED"}
Leased   == {"LEASED", "RUNNING"}

(* What an agent waits for, and the request it has sent for it.             *)
Waiting == {"beating", "claiming", "starting", "completing", "failing"}
OpOf == [beating |-> "heartbeat", claiming |-> "claim", starting |-> "heartbeat",
         completing |-> "COMPLETED", failing |-> "FAILED"]
Working == {"starting", "running", "completing", "failing"}

Leases == Jobs \X (1..MaxAttempts)

(* A lease token is random in the code; the attempt it was issued for       *)
(* identifies it.  result: the token of the accepted result.                *)
Row == [status : {None, "QUEUED"} \cup Leased \cup Terminal,
        attempts : 0..MaxAttempts,
        worker : Workers \cup {None},
        token : 1..MaxAttempts \cup {None},
        generation : 1..MaxGeneration \cup {None},
        live : BOOLEAN,
        result : 1..MaxAttempts \cup {None}]

(* generation = None: not yet authenticated.  online: the claiming worker's *)
(* status when it was.                                                      *)
Request == [op : {"heartbeat", "claim", "renew"} \cup Terminal,
            worker : Workers, lease : Leases \cup {None},
            generation : 1..MaxGeneration \cup {None}, online : BOOLEAN,
            waiting : BOOLEAN]

TypeOK ==
    /\ distributed \in Services
    /\ status \in [Workers -> Statuses]
    /\ generation \in [Workers -> 1..MaxGeneration]
    /\ fresh \in [Workers -> BOOLEAN]
    /\ job \in [Jobs -> Row]
    /\ agent \in [Workers -> Waiting \cup {"idle", "running"}]
    /\ held \in [Workers -> Leases \cup {None}]
    /\ aborted \in [Workers -> BOOLEAN]
    /\ requests \in SUBSET Request
    /\ revoked \in SUBSET Leases

Init ==
    /\ distributed \in Services
    /\ status = [w \in Workers |-> "ONLINE"]
    /\ generation = [w \in Workers |-> 1]
    /\ fresh = [w \in Workers |-> TRUE]
    /\ job = [j \in Jobs |-> [status |-> None, attempts |-> 0, worker |-> None,
                              token |-> None, generation |-> None, live |-> FALSE,
                              result |-> None]]
    /\ agent = [w \in Workers |-> "idle"]
    /\ held = [w \in Workers |-> None]
    /\ aborted = [w \in Workers |-> FALSE]
    /\ requests = {}
    /\ revoked = {}

-------------------------------------------------------------------------------
(* The agent                                                                *)

Send(w, op, lease) ==
    [op |-> op, worker |-> w, lease |-> lease, generation |-> None,
     online |-> FALSE, waiting |-> TRUE]

(* The agent goes on to here and sends the request that here waits for;     *)
(* others are the remaining requests.                                       *)
Enter(w, here, lease, others) ==
    /\ agent' = [agent EXCEPT ![w] = here]
    /\ held' = [held EXCEPT ![w] = lease]
    /\ aborted' = [aborted EXCEPT ![w] = @ /\ here # "idle"]
    /\ requests' = others \cup (IF here \in Waiting THEN {Send(w, OpOf[here], lease)}
                                                   ELSE {})

(* Where an answered or a failed request leads.                             *)
AfterAnswer(here, ok) ==
    CASE here = "beating"    -> IF ok THEN "claiming" ELSE "idle"
      [] here = "starting"   -> IF ok THEN "running" ELSE "failing"
      [] here = "completing" -> IF ok THEN "idle" ELSE "failing"
      [] here \in {"claiming", "failing"} -> "idle"

Proceed(w, ok, others) ==
    LET here == AfterAnswer(agent[w], ok)
    IN  Enter(w, here, IF here = "idle" THEN None ELSE held[w], others)

(* The requests of w that it still waits for, as nobody's.                  *)
Mine(w, ops) == {r \in requests : r.worker = w /\ r.waiting /\ r.op \in ops}
Forsaken(s) == {[r EXCEPT !.waiting = FALSE] : r \in s}
Abandoned == {r \in requests : ~r.waiting}
Main == {"heartbeat", "claim"} \cup Terminal

StartCycle(w) ==
    /\ agent[w] = "idle"
    /\ Enter(w, "beating", None, requests)
    /\ UNCHANGED <<workerVars, job, revoked>>

(* The handler returns a result, unless the controller was aborted.         *)
FinishJob(w) ==
    /\ agent[w] = "running"
    /\ ~aborted[w]
    /\ Enter(w, "completing", held[w], requests)
    /\ UNCHANGED <<workerVars, job, revoked>>

(* The handler fails, is aborted or runs into AGENT_JOB_DEADLINE_EXCEEDED.  *)
FailJob(w) ==
    /\ agent[w] = "running"
    /\ Enter(w, "failing", held[w], requests)
    /\ UNCHANGED <<workerVars, job, revoked>>

(* The renewal timer, while a job is worked on.                             *)
SendRenewal(w) ==
    /\ agent[w] \in Working
    /\ ~aborted[w]
    /\ \A r \in Mine(w, {"renew"}) : r.lease # held[w]
    /\ requests' = requests \cup {Send(w, "renew", held[w])}
    /\ UNCHANGED <<workerVars, job, agentVars, revoked>>

(* The agent stops waiting; the request was lost, or is still on its way.   *)
GiveUp(w) ==
    /\ agent[w] \in Waiting
    /\ \E rest \in {{}, Forsaken(Mine(w, Main))} :
          /\ Cardinality(Abandoned \cup rest) <= MaxAbandoned
          /\ Proceed(w, FALSE, (requests \ Mine(w, Main)) \cup rest)
    /\ UNCHANGED <<workerVars, job, revoked>>

(* A failed renewal aborts the job it belongs to; one that outlived its job *)
(* has no effect.                                                           *)
RenewalFailed(r) ==
    aborted' = [aborted EXCEPT ![r.worker] = @ \/ r.lease = held[r.worker]]

GiveUpRenewal(w) ==
    /\ \E r \in Mine(w, {"renew"}) : \E rest \in {{}, Forsaken({r})} :
          /\ Cardinality(Abandoned \cup rest) <= MaxAbandoned
          /\ requests' = (requests \ {r}) \cup rest
          /\ RenewalFailed(r)
    /\ UNCHANGED <<workerVars, job, agent, held, revoked>>

(* The agent process dies and is started again.                             *)
RestartAgent(w) ==
    /\ agent[w] # "idle"
    /\ \E rest \in SUBSET Forsaken(Mine(w, Main \cup {"renew"})) :
          /\ Cardinality(Abandoned \cup rest) <= MaxAbandoned
          /\ Enter(w, "idle", None,
                   (requests \ Mine(w, Main \cup {"renew"})) \cup rest)
    /\ UNCHANGED <<workerVars, job, revoked>>

(* The answer to r.  A lost answer is an agent that stopped waiting earlier. *)
Answer(r, ok) ==
    \/ /\ ~r.waiting
       /\ requests' = requests \ {r}
       /\ UNCHANGED agentVars
    \/ /\ r.waiting
       /\ r.op \in Main
       /\ Proceed(r.worker, ok, requests \ {r})
    \/ /\ r.waiting
       /\ r.op = "renew"
       /\ requests' = requests \ {r}
       /\ IF ok THEN UNCHANGED aborted ELSE RenewalFailed(r)
       /\ UNCHANGED <<agent, held>>

-------------------------------------------------------------------------------
(* The service                                                              *)

Authenticated(r) == r.generation # None

(* authenticate: the worker's row as it is now travels with the request.    *)
Authenticate(r) ==
    /\ ~Authenticated(r)
    /\ \/ /\ status[r.worker] \in {"ONLINE", "DRAINING"}
          /\ requests' = (requests \ {r}) \cup
                {[r EXCEPT !.generation = generation[r.worker],
                           !.online = r.op = "claim" /\ status[r.worker] = "ONLINE"]}
          /\ UNCHANGED agentVars
       \/ /\ status[r.worker] \in {"QUARANTINED", "REVOKED"}
          /\ Answer(r, FALSE)
    /\ UNCHANGED <<workerVars, job, revoked>>

(* lockActiveWorker, activeWorker: the row as it is when r is handled.      *)
Active(r) ==
    /\ generation[r.worker] = r.generation
    /\ status[r.worker] \in {"ONLINE", "DRAINING"}

(* Mutant of the heartbeat: the status is set without looking at the row's, *)
(* so that a heartbeat under way undoes an operator's drain.                *)
HeartbeatOverwrites(r) ==
    /\ r.op = "heartbeat" /\ Authenticated(r)
    /\ \/ /\ Active(r)
          /\ status' = [status EXCEPT ![r.worker] = "ONLINE"]
          /\ fresh' = [fresh EXCEPT ![r.worker] = TRUE]
          /\ Answer(r, TRUE)
       \/ /\ ~Active(r)
          /\ Answer(r, FALSE)
          /\ UNCHANGED <<status, fresh>>
    /\ UNCHANGED <<generation, job, revoked>>

(* The status agents report, always.                                        *)
Reported == "ONLINE"

(* heartbeat writes the reported status over the row's, unless that is      *)
(* DRAINING now; a row of another generation or out of service is left.     *)
Heartbeat(r) ==
    /\ r.op = "heartbeat" /\ Authenticated(r)
    /\ \/ /\ Active(r)
          /\ status' = [status EXCEPT ![r.worker] = IF @ = "DRAINING" THEN @ ELSE Reported]
          /\ fresh' = [fresh EXCEPT ![r.worker] = TRUE]
          /\ Answer(r, TRUE)
       \/ /\ ~Active(r)
          /\ Answer(r, FALSE)
          /\ UNCHANGED <<status, fresh>>
    /\ UNCHANGED <<generation, job, revoked>>

(* Mutant of the requeueing: the attempt budget is not looked at.           *)
RequeuedForever ==
    [j \in Jobs |->
        IF job[j].status \in Leased /\ ~job[j].live
        THEN [job[j] EXCEPT !.status = "QUEUED", !.worker = None, !.token = None,
                            !.generation = None]
        ELSE job[j]]

(* Jobs whose lease has expired go back to the queue or have failed.        *)
Requeued ==
    [j \in Jobs |->
        IF job[j].status \in Leased /\ ~job[j].live
        THEN [job[j] EXCEPT
                !.status = IF job[j].attempts >= MaxAttempts THEN "FAILED" ELSE "QUEUED",
                !.worker = None, !.token = None, !.generation = None]
        ELSE job[j]]

MayClaim(r) ==
    /\ Active(r)
    /\ status[r.worker] = "ONLINE"
    /\ distributed => r.online /\ fresh[r.worker]

Claimable(rows) == {j \in Jobs : rows[j].status = "QUEUED" /\ rows[j].attempts < MaxAttempts}

Lease(row, r) ==
    [row EXCEPT !.status = "LEASED", !.worker = r.worker, !.attempts = @ + 1,
                !.token = row.attempts + 1, !.live = TRUE,
                !.generation = IF distributed THEN r.generation ELSE None]

(* claimNow with a job: the answer carries the lease token, unless it       *)
(* arrives after the lease's end (AGENT_JOB_LEASE_DEADLINE_INVALID).        *)
Claim(r) ==
    /\ r.op = "claim" /\ Authenticated(r)
    /\ MayClaim(r)
    /\ \E j \in Claimable(Requeued) :
          /\ job' = [Requeued EXCEPT ![j] = Lease(@, r)]
          /\ \/ ~r.waiting /\ requests' = requests \ {r} /\ UNCHANGED agentVars
             \/ /\ r.waiting
                /\ \/ Enter(r.worker, "starting", <<j, job'[j].token>>, requests \ {r})
                   \/ Enter(r.worker, "idle", None, requests \ {r})
    /\ UNCHANGED <<workerVars, revoked>>

(* ... and without one.  A bounded claim waits and tries again before it    *)
(* answers; Postgres requeues only for a worker that may claim.             *)
ClaimNothing(r) ==
    /\ r.op = "claim" /\ Authenticated(r)
    /\ ~MayClaim(r) \/ Claimable(Requeued) = {}
    /\ job' = IF distributed => MayClaim(r) THEN Requeued ELSE job
    /\ \/ Answer(r, TRUE)
       \/ distributed /\ UNCHANGED <<requests, agentVars>>
    /\ UNCHANGED <<workerVars, revoked>>

(* Mutants of the lease check: the token, or the worker's generation at the *)
(* claim, is not compared.                                                  *)
AnyToken(r, row) ==
    /\ row.status \in Leased /\ row.live
    /\ row.worker = r.worker
    /\ distributed => row.generation = r.generation

AnyGeneration(r, row) ==
    /\ row.status \in Leased /\ row.live
    /\ row.worker = r.worker
    /\ row.token = r.lease[2]

HoldsLease(r, row) ==
    /\ row.status \in Leased /\ row.live
    /\ row.worker = r.worker
    /\ row.token = r.lease[2]
    /\ distributed => row.generation = r.generation

Renew(r) ==
    /\ r.op = "renew" /\ Authenticated(r)
    /\ LET j == r.lease[1]
       IN  \/ /\ Active(r) /\ HoldsLease(r, job[j])
              /\ job' = [job EXCEPT ![j].status = "RUNNING"]
              /\ Answer(r, TRUE)
           \/ /\ ~(Active(r) /\ HoldsLease(r, job[j]))
              /\ Answer(r, FALSE)
              /\ UNCHANGED job
    /\ UNCHANGED <<workerVars, revoked>>

(* Mutant of complete: a finished job is overwritten by a second report.    *)
CompleteAgain(r) ==
    /\ r.op \in Terminal /\ Authenticated(r)
    /\ Active(r)
    /\ job[r.lease[1]].worker = r.worker
    /\ job' = [job EXCEPT ![r.lease[1]] =
                  [@ EXCEPT !.status = r.op, !.result = r.lease[2],
                            !.token = None, !.live = FALSE]]
    /\ Answer(r, TRUE)
    /\ UNCHANGED <<workerVars, revoked>>

Complete(r) ==
    /\ r.op \in Terminal /\ Authenticated(r)
    /\ LET j == r.lease[1]
       IN  \/ /\ Active(r) /\ HoldsLease(r, job[j])
              /\ job' = [job EXCEPT ![j] =
                            [@ EXCEPT !.status = r.op, !.result = r.lease[2],
                                      !.token = None, !.live = FALSE]]
              /\ Answer(r, TRUE)
           \/ /\ ~(Active(r) /\ HoldsLease(r, job[j]))
              /\ Answer(r, FALSE)
              /\ UNCHANGED job
    /\ UNCHANGED <<workerVars, revoked>>

-------------------------------------------------------------------------------
(* The dashboard and time                                                   *)

Enqueue(j) ==
    /\ job[j].status = None
    /\ job' = [job EXCEPT ![j].status = "QUEUED"]
    /\ UNCHANGED <<workerVars, agentVars, requests, revoked>>

LeasedTo(w) == {j \in Jobs : job[j].status \in Leased /\ job[j].worker = w}

(* Mutant of setStatus: the local service forgets to end the leases.        *)
LeavesLeases(w, s) == job

(* RemoteWorkerService ends the leases of a quarantined or revoked worker.  *)
EndLeases(w, s) ==
    IF ~distributed /\ s \in {"QUARANTINED", "REVOKED"}
    THEN [j \in Jobs |-> IF j \in LeasedTo(w) THEN [job[j] EXCEPT !.live = FALSE]
                                              ELSE job[j]]
    ELSE job

(* setStatus: every change but a drain starts a new generation.             *)
SetStatus(w, s) ==
    /\ s # "DRAINING" => generation[w] < MaxGeneration
    /\ status' = [status EXCEPT ![w] = s]
    /\ generation' = [generation EXCEPT ![w] = IF s = "DRAINING" THEN @ ELSE @ + 1]
    /\ job' = EndLeases(w, s)
    /\ revoked' = IF s \in {"QUARANTINED", "REVOKED"}
                  THEN revoked \cup {<<j, job[j].token>> : j \in LeasedTo(w)}
                  ELSE revoked
    /\ UNCHANGED <<fresh, agentVars, requests>>

ExpireLease(j) ==
    /\ job[j].status \in Leased /\ job[j].live
    /\ job' = [job EXCEPT ![j].live = FALSE]
    /\ UNCHANGED <<workerVars, agentVars, requests, revoked>>

(* 90 seconds pass without a heartbeat.                                     *)
GoStale(w) ==
    /\ distributed
    /\ fresh[w]
    /\ fresh' = [fresh EXCEPT ![w] = FALSE]
    /\ UNCHANGED <<status, generation, job, agentVars, requests, revoked>>

AgentStep(w) ==
    \/ StartCycle(w) \/ FinishJob(w) \/ FailJob(w) \/ GiveUp(w)

Serve(r) ==
    \/ Authenticate(r) \/ Heartbeat(r) \/ Claim(r) \/ ClaimNothing(r)
    \/ Renew(r) \/ Complete(r)

Step ==
    \/ \E w \in Workers :
          \/ AgentStep(w) \/ SendRenewal(w) \/ GiveUpRenewal(w) \/ RestartAgent(w)
          \/ GoStale(w)
          \/ \E s \in Decisions : SetStatus(w, s)
    \/ \E r \in requests : Serve(r)
    \/ \E j \in Jobs : Enqueue(j) \/ ExpireLease(j)

Next == Step /\ UNCHANGED distributed

Spec == Init /\ [][Next]_vars

(* Assumed for liveness.  A claim is sent right after a heartbeat and waits *)
(* at most 35 seconds (agent.ts), less than the 90 seconds a heartbeat      *)
(* counts; handlers end (maxJobMs), a lease that is not renewed expires,    *)
(* and a worker's heartbeats and claims do not get lost for ever.           *)
Handle(w, op) == \E r \in Mine(w, {op}) :
    Heartbeat(r) \/ Claim(r) \/ ClaimNothing(r)

PromptNext ==
    /\ Next
    /\ \A w \in Workers : agent[w] = "claiming" /\ fresh[w] => fresh'[w]

LiveSpec ==
    /\ Init /\ [][PromptNext]_vars
    /\ \A w \in Workers :
          /\ WF_vars(AgentStep(w) /\ UNCHANGED distributed)
          /\ \A op \in {"heartbeat", "claim"} :
                /\ SF_vars((\E r \in Mine(w, {op}) : Authenticate(r)) /\ UNCHANGED distributed)
                /\ SF_vars(Handle(w, op) /\ UNCHANGED distributed)
    /\ \A j \in Jobs : WF_vars(ExpireLease(j) /\ UNCHANGED distributed)

-------------------------------------------------------------------------------
(* Properties                                                               *)

(* The accepted result is the one of the latest lease: a worker whose lease *)
(* expired and whose job was leased again, to another worker or to itself,  *)
(* never gets a late report accepted (complete compares the token).         *)
ResultOfLatestLease ==
    \A j \in Jobs : job[j].result # None =>
        job[j].result = job[j].attempts /\ job[j].status \in Terminal

(* A job ends once: no late renewal, report, claim or expiry changes a      *)
(* COMPLETED or FAILED job.                                                 *)
TerminalIsFinal ==
    [][\A j \in Jobs : job[j].status \in Terminal => job'[j] = job[j]]_vars

(* Quarantine and revocation end a worker's leases for good: neither a      *)
(* request authenticated before nor one sent after the worker was enabled   *)
(* again is accepted for a lease from before.                               *)
RevokedLeaseIsDead ==
    [][\A j \in Jobs : job'[j].result # job[j].result =>
          <<j, job'[j].result>> \notin revoked]_vars

(* A worker an operator drained, quarantined or revoked stays out of        *)
(* service and gets no lease until an operator enables it in a new          *)
(* generation: not by a heartbeat, whose UPDATE writes the status, nor by a *)
(* claim, when the request was authenticated while the worker was ONLINE.   *)
OutOfServiceStays ==
    [][\A w \in Workers : status[w] # "ONLINE" /\ generation'[w] = generation[w] =>
          /\ status'[w] # "ONLINE"
          /\ \A j \in Jobs : job'[j].attempts # job[j].attempts => job'[j].worker # w]_vars

(* With a worker that stays enabled, every job ends: no crash, expiry, lost *)
(* answer or spent attempt budget leaves it queued or leased for ever.      *)
JobsEnd ==
    (\E w \in Workers : <>[](status[w] = "ONLINE")) =>
        \A j \in Jobs : job[j].status = "QUEUED" ~> job[j].status \in Terminal
===============================================================================
