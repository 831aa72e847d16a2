---------------------------- MODULE FleetJobsProofs ----------------------------
(***************************************************************************)
(* The safety of the remote worker queue, for any workers, jobs, attempt   *)
(* budgets and number of requests nobody waits for, and for both services. *)
(*                                                                         *)
(* The invariant has two halves. AgentInv: an agent has at most one        *)
(* request it waits for, the one its position says, and requests about a   *)
(* lease carry one. JobInv: a leased job's token is its latest, and a      *)
(* lease that was revoked is either over or of an earlier generation than  *)
(* its worker's.                                                           *)
(***************************************************************************)
EXTENDS FleetJobs, TLAPS

-------------------------------------------------------------------------------
(* The agents and their requests                                            *)

Positions == Waiting \cup {"idle", "running"}

AgentTypes ==
    /\ agent \in [Workers -> Positions]
    /\ held \in [Workers -> Leases \cup {None}]
    /\ aborted \in [Workers -> BOOLEAN]
    /\ requests \in SUBSET Request

(* Whoever works on a job holds a lease; so do requests about a job.        *)
Carried ==
    /\ \A w \in Workers : agent[w] \in Working => held[w] \in Leases
    /\ \A r \in requests : r.op \in {"renew"} \cup Terminal => r.lease \in Leases

Awaits(r) == r.waiting /\ r.op \in Main

(* The one request an agent waits for.                                      *)
OneAwaited ==
    /\ \A r \in requests : Awaits(r) => agent[r.worker] \in Waiting
    /\ \A r, q \in requests : Awaits(r) /\ Awaits(q) /\ r.worker = q.worker => r = q

AgentInv == AgentTypes /\ Carried /\ OneAwaited

(* Each position that waits has sent a request of the main loop; the two    *)
(* reports are about the job that is held.                                  *)
LEMMA OpOfWaiting ==
    /\ \A h \in Waiting : OpOf[h] \in Main
    /\ \A h \in Waiting : OpOf[h] \in Terminal => h \in Working
  BY DEF Waiting, OpOf, Main, Terminal, Working

(* An agent that goes on to another position: Enter keeps the invariant     *)
(* when the requests it leaves behind are none it waits for.                *)
LEMMA EnterKeeps ==
    ASSUME AgentInv, NEW w \in Workers, NEW here \in Positions,
           NEW lease \in Leases \cup {None}, here \in Working => lease \in Leases,
           NEW others \in SUBSET Request,
           \A r \in others : r.op \in {"renew"} \cup Terminal => r.lease \in Leases,
           \A r \in others : Awaits(r) => r \in requests /\ r.worker # w,
           Enter(w, here, lease, others)
    PROVE  AgentInv'
<1>1. Waiting \subseteq Positions /\ Working \subseteq Positions
  BY DEF Positions, Waiting, Working
<1> DEFINE mine == IF here \in Waiting THEN {Send(w, OpOf[here], lease)} ELSE {}
<1>2. requests' = others \cup mine
  BY DEF Enter
<1>3. mine \in SUBSET Request
  <2>1. CASE here \in Waiting
    <3>1. OpOf[here] \in {"heartbeat", "claim", "renew"} \cup Terminal
      BY <2>1, OpOfWaiting DEF Main
    <3> QED BY <2>1, <3>1 DEF Send, Request
  <2>2. CASE here \notin Waiting
    BY <2>2
  <2> QED BY <2>1, <2>2
<1>4. \A r \in mine : /\ r.worker = w /\ r.lease = lease /\ r.waiting
                      /\ r.op = OpOf[here] /\ here \in Waiting
  BY DEF Send
<1>5. AgentTypes'
  BY <1>2, <1>3 DEF AgentInv, AgentTypes, Enter
<1>6. Carried'
  <2>1. \A v \in Workers : agent'[v] \in Working => held'[v] \in Leases
    BY DEF Enter, AgentInv, AgentTypes, Carried
  <2>2. ASSUME NEW r \in requests', r.op \in {"renew"} \cup Terminal
        PROVE  r.lease \in Leases
    <3>1. CASE r \in others
      BY <2>2, <3>1
    <3>2. CASE r \in mine
      <4>1. r.op = OpOf[here] /\ here \in Waiting /\ r.lease = lease
        BY <3>2, <1>4
      <4>2. OpOf[here] \in Main
        BY <4>1, OpOfWaiting
      <4>3. OpOf[here] \in Terminal
        BY <2>2, <4>1, <4>2 DEF Main, Terminal
      <4> QED BY <4>1, <4>3, OpOfWaiting
    <3> QED BY <1>2, <2>2, <3>1, <3>2
  <2> QED BY <2>1, <2>2 DEF Carried
<1>7. OneAwaited'
  <2>1. agent' = [agent EXCEPT ![w] = here]
    BY DEF Enter
  <2>2. ASSUME NEW r \in requests', Awaits(r)
        PROVE  agent'[r.worker] \in Waiting
    <3>1. CASE r \in others
      BY <2>1, <2>2, <3>1 DEF AgentInv, AgentTypes, OneAwaited, Request
    <3>2. CASE r \in mine
      BY <2>1, <3>2, <1>4 DEF AgentInv, AgentTypes
    <3> QED BY <1>2, <2>2, <3>1, <3>2
  <2>3. ASSUME NEW r \in requests', NEW q \in requests', Awaits(r), Awaits(q),
               r.worker = q.worker
        PROVE  r = q
    <3>1. CASE r \in others /\ q \in others
      BY <2>3, <3>1 DEF AgentInv, OneAwaited
    <3>2. CASE r \in mine /\ q \in mine
      BY <3>2
    <3>3. CASE r \in others /\ q \in mine
      BY <2>3, <3>3, <1>4
    <3>4. CASE r \in mine /\ q \in others
      BY <2>3, <3>4, <1>4
    <3> QED BY <1>2, <2>3, <3>1, <3>2, <3>3, <3>4
  <2> QED BY <2>2, <2>3 DEF OneAwaited, Awaits
<1> QED BY <1>5, <1>6, <1>7 DEF AgentInv

(* Where an answered or failed request leads, and what is held there.       *)
LEMMA ProceedKeeps ==
    ASSUME AgentInv, NEW w \in Workers, agent[w] \in Waiting, NEW ok \in BOOLEAN,
           NEW others \in SUBSET Request,
           \A r \in others : r.op \in {"renew"} \cup Terminal => r.lease \in Leases,
           \A r \in others : Awaits(r) => r \in requests /\ r.worker # w,
           Proceed(w, ok, others)
    PROVE  AgentInv'
<1> DEFINE here == AfterAnswer(agent[w], ok)
           lease == IF here = "idle" THEN None ELSE held[w]
<1>1. here \in Positions /\ (here \in Working => agent[w] \in Working)
  BY DEF AfterAnswer, Waiting, Positions, Working
<1>2. lease \in Leases \cup {None}
  BY DEF AgentInv, AgentTypes
<1>3. here \in Working => lease \in Leases
  BY <1>1 DEF AgentInv, Carried, Working
<1>4. Enter(w, here, lease, others)
  BY DEF Proceed
<1> HIDE DEF here, lease
<1> QED BY <1>1, <1>2, <1>3, <1>4, EnterKeeps

(* Requests that are gone, or that nobody waits for any more.               *)
LEMMA ForsakenRequests ==
    ASSUME AgentInv, NEW s \in SUBSET requests
    PROVE  \A r \in Forsaken(s) : /\ r \in Request
                                  /\ r.op \in {"renew"} \cup Terminal => r.lease \in Leases
                                  /\ ~Awaits(r)
<1> SUFFICES ASSUME NEW q \in s
             PROVE  LET r == [q EXCEPT !.waiting = FALSE]
                    IN  /\ r \in Request
                        /\ r.op \in {"renew"} \cup Terminal => r.lease \in Leases
                        /\ ~Awaits(r)
  BY DEF Forsaken
<1>1. q \in Request /\ (q.op \in {"renew"} \cup Terminal => q.lease \in Leases)
  BY DEF AgentInv, AgentTypes, Carried
<1> QED BY <1>1 DEF Request, Awaits

(* Fewer requests, or other ones that nobody waits for, and the same or an  *)
(* aborted job.                                                             *)
LEMMA RequestsKeep ==
    ASSUME AgentInv, UNCHANGED <<agent, held>>, aborted' \in [Workers -> BOOLEAN],
           requests' \in SUBSET Request,
           \A r \in requests' : r.op \in {"renew"} \cup Terminal => r.lease \in Leases,
           \A r \in requests' : Awaits(r) => r \in requests
    PROVE  AgentInv'
  BY DEF AgentInv, AgentTypes, Carried, OneAwaited, Awaits

(* The answer to a request.                                                 *)
LEMMA AnswerKeeps ==
    ASSUME AgentInv, NEW r \in requests, NEW ok \in BOOLEAN, Answer(r, ok)
    PROVE  AgentInv'
<1>1. r \in Request /\ r.worker \in Workers
  BY DEF AgentInv, AgentTypes, Request
<1>2. requests \ {r} \in SUBSET Request
  BY DEF AgentInv, AgentTypes
<1>3. \A q \in requests \ {r} : q.op \in {"renew"} \cup Terminal => q.lease \in Leases
  BY DEF AgentInv, Carried
<1>4. CASE ~r.waiting /\ requests' = requests \ {r} /\ UNCHANGED agentVars
  BY <1>2, <1>3, <1>4, RequestsKeep DEF agentVars, AgentInv, AgentTypes
<1>5. CASE r.waiting /\ r.op \in Main /\ Proceed(r.worker, ok, requests \ {r})
  <2>1. Awaits(r) /\ agent[r.worker] \in Waiting
    BY <1>5 DEF Awaits, AgentInv, OneAwaited
  <2>2. \A q \in requests \ {r} : Awaits(q) => q \in requests /\ q.worker # r.worker
    BY <2>1 DEF AgentInv, OneAwaited
  <2> QED BY <1>1, <1>2, <1>3, <1>5, <2>1, <2>2, ProceedKeeps
<1>6. CASE /\ r.waiting /\ r.op = "renew" /\ requests' = requests \ {r}
           /\ IF ok THEN UNCHANGED aborted ELSE RenewalFailed(r)
           /\ UNCHANGED <<agent, held>>
  <2>1. aborted' \in [Workers -> BOOLEAN]
    BY <1>1, <1>6 DEF AgentInv, AgentTypes, RenewalFailed
  <2> QED BY <1>2, <1>3, <1>6, <2>1, RequestsKeep
<1> QED BY <1>4, <1>5, <1>6 DEF Answer

(* The steps of an agent.                                                   *)
LEMMA AgentActs ==
    ASSUME AgentInv, NEW w \in Workers,
           AgentStep(w) \/ SendRenewal(w) \/ GiveUpRenewal(w) \/ RestartAgent(w)
    PROVE  AgentInv'
<1> USE DEF Positions, Waiting, Working
<1>1. /\ requests \in SUBSET Request
      /\ \A r \in requests : r.op \in {"renew"} \cup Terminal => r.lease \in Leases
      /\ held[w] \in Leases \cup {None}
  BY DEF AgentInv, AgentTypes, Carried
<1>2. ASSUME agent[w] \in {"idle", "running"}
      PROVE  \A r \in requests : Awaits(r) => r \in requests /\ r.worker # w
  BY <1>2 DEF AgentInv, OneAwaited
<1>3. agent[w] = "running" => held[w] \in Leases
  BY DEF AgentInv, Carried
<1>4. CASE StartCycle(w)
  <2>1. Enter(w, "beating", None, requests) /\ agent[w] = "idle"
    BY <1>4 DEF StartCycle
  <2> QED BY <1>1, <1>2, <2>1, EnterKeeps
<1>5. CASE FinishJob(w)
  <2>1. Enter(w, "completing", held[w], requests) /\ agent[w] = "running"
    BY <1>5 DEF FinishJob
  <2> QED BY <1>1, <1>2, <1>3, <2>1, EnterKeeps
<1>6. CASE FailJob(w)
  <2>1. Enter(w, "failing", held[w], requests) /\ agent[w] = "running"
    BY <1>6 DEF FailJob
  <2> QED BY <1>1, <1>2, <1>3, <2>1, EnterKeeps
<1>7. CASE SendRenewal(w)
  <2>1. held[w] \in Leases
    BY <1>7 DEF SendRenewal, AgentInv, Carried
  <2>2. Send(w, "renew", held[w]) \in Request /\ ~Awaits(Send(w, "renew", held[w]))
    BY <2>1 DEF Send, Request, Awaits, Main, Terminal
  <2>3. Send(w, "renew", held[w]).lease = held[w]
    BY DEF Send
  <2> QED BY <1>1, <1>7, <2>1, <2>2, <2>3, RequestsKeep
          DEF SendRenewal, agentVars, AgentInv, AgentTypes
<1>8. CASE GiveUp(w)
  <2>1. Mine(w, Main) \in SUBSET requests
    BY DEF Mine
  <2>2. PICK rest \in {{}, Forsaken(Mine(w, Main))} :
            Proceed(w, FALSE, (requests \ Mine(w, Main)) \cup rest)
    BY <1>8 DEF GiveUp
  <2> DEFINE others == (requests \ Mine(w, Main)) \cup rest
  <2>3. \A r \in others : /\ r \in Request
                          /\ r.op \in {"renew"} \cup Terminal => r.lease \in Leases
    BY <1>1, <2>1, <2>2, ForsakenRequests
  <2>4. \A r \in others : Awaits(r) => r \in requests /\ r.worker # w
    BY <2>1, <2>2, ForsakenRequests DEF Mine, Awaits
  <2>5. agent[w] \in Waiting
    BY <1>8 DEF GiveUp
  <2>6. others \in SUBSET Request /\ Proceed(w, FALSE, others)
    BY <2>2, <2>3
  <2> HIDE DEF others
  <2> QED BY <2>3, <2>4, <2>5, <2>6, ProceedKeeps
<1>9. CASE GiveUpRenewal(w)
  <2>1. PICK r \in Mine(w, {"renew"}) : \E rest \in {{}, Forsaken({r})} :
            requests' = (requests \ {r}) \cup rest /\ RenewalFailed(r)
    BY <1>9 DEF GiveUpRenewal
  <2>2. r \in requests /\ {r} \in SUBSET requests
    BY DEF Mine
  <2>3. \A q \in requests' : /\ q \in Request
                             /\ q.op \in {"renew"} \cup Terminal => q.lease \in Leases
                             /\ Awaits(q) => q \in requests
    BY <1>1, <2>1, <2>2, ForsakenRequests
  <2>4. aborted' \in [Workers -> BOOLEAN]
    BY <1>1, <2>1, <2>2 DEF RenewalFailed, AgentInv, AgentTypes, Request
  <2> QED BY <1>9, <2>3, <2>4, RequestsKeep DEF GiveUpRenewal
<1>10. CASE RestartAgent(w)
  <2> DEFINE mine == Mine(w, Main \cup {"renew"})
  <2>1. mine \in SUBSET requests
    BY DEF Mine
  <2>2. PICK rest \in SUBSET Forsaken(mine) :
            Enter(w, "idle", None, (requests \ mine) \cup rest)
    BY <1>10 DEF RestartAgent
  <2> DEFINE others == (requests \ mine) \cup rest
  <2>3. \A r \in others : /\ r \in Request
                          /\ r.op \in {"renew"} \cup Terminal => r.lease \in Leases
    BY <1>1, <2>1, <2>2, ForsakenRequests
  <2>4. \A r \in others : Awaits(r) => r \in requests /\ r.worker # w
    BY <2>1, <2>2, ForsakenRequests DEF Mine, Awaits
  <2>5. others \in SUBSET Request /\ Enter(w, "idle", None, others)
    BY <2>2, <2>3
  <2> HIDE DEF others
  <2> QED BY <2>3, <2>4, <2>5, EnterKeeps
<1> QED BY <1>4, <1>5, <1>6, <1>7, <1>8, <1>9, <1>10 DEF AgentStep

-------------------------------------------------------------------------------
(* The rows of jobs and workers                                             *)

JobTypes ==
    /\ distributed \in Services
    /\ status \in [Workers -> Statuses]
    /\ generation \in [Workers -> 1..MaxGeneration]
    /\ fresh \in [Workers -> BOOLEAN]
    /\ job \in [Jobs -> Row]
    /\ revoked \in SUBSET Leases

(* The token of a leased job is its latest one, of a generation its worker  *)
(* has had; only an ended job has a result, that of its latest token.       *)
RowOK(row) ==
    /\ row.status \in Leased =>
          /\ row.token = row.attempts
          /\ row.worker \in Workers
          /\ row.attempts > 0
          /\ distributed => /\ row.generation \in 1..MaxGeneration
                            /\ row.generation <= generation[row.worker]
    /\ row.result # None => row.status \in Terminal /\ row.result = row.attempts

Rows == \A j \in Jobs : RowOK(job[j])

(* A revoked lease is no later one than the job's, and while it is still    *)
(* the job's, nobody can use it.                                            *)
Dead ==
    \A l \in revoked :
        LET row == job[l[1]] IN
        /\ l[2] <= row.attempts
        /\ row.status \in Leased /\ row.token = l[2] =>
              IF distributed THEN row.generation < generation[row.worker] ELSE ~row.live

JobInv == JobTypes /\ Rows /\ Dead

LEMMA RequeuedRow ==
    ASSUME JobTypes, NEW j \in Jobs
    PROVE  /\ Requeued \in [Jobs -> Row]
           /\ Requeued[j].attempts = job[j].attempts
           /\ Requeued[j].result = job[j].result
           /\ Requeued[j].status \in Leased => Requeued[j] = job[j]
           /\ job[j].status \in Terminal => Requeued[j] = job[j]
           /\ Requeued[j] # job[j] => job[j].status \in Leased
<1>1. \A i \in Jobs : job[i] \in Row
  BY DEF JobTypes
<1>2. \A i \in Jobs : [job[i] EXCEPT
          !.status = IF job[i].attempts >= MaxAttempts THEN "FAILED" ELSE "QUEUED",
          !.worker = None, !.token = None, !.generation = None] \in Row
  BY <1>1 DEF Row, Leased, Terminal
<1>3. Requeued \in [Jobs -> Row]
  BY <1>1, <1>2 DEF Requeued
<1>4. job[j] \in Row
  BY <1>1
<1> QED BY <1>3, <1>4 DEF Requeued, Row, Leased, Terminal

LEMMA ClaimedRow ==
    ASSUME JobTypes, NEW r \in Request, NEW j \in Claimable(Requeued),
           job' = [Requeued EXCEPT ![j] = Lease(@, r)]
    PROVE  /\ j \in Jobs
           /\ job'[j] = Lease(Requeued[j], r)
           /\ job'[j] \in Row
           /\ job'[j].token \in 1..MaxAttempts
           /\ job'[j].token = job'[j].attempts
           /\ job'[j].attempts = job[j].attempts + 1
<1>1. j \in Jobs /\ Requeued[j].status = "QUEUED" /\ Requeued[j].attempts < MaxAttempts
  BY DEF Claimable
<1>2. Requeued \in [Jobs -> Row] /\ Requeued[j].attempts = job[j].attempts
  BY <1>1, RequeuedRow
<1>3. job'[j] = Lease(Requeued[j], r)
  BY <1>1, <1>2
<1>4. Requeued[j] \in Row
  BY <1>1, <1>2
<1>5. MaxAttempts \in Nat
  BY FleetAssumption
<1>6. Requeued[j].attempts + 1 \in 1..MaxAttempts
  BY <1>1, <1>4, <1>5 DEF Row
<1>7. r.worker \in Workers /\ r.generation \in 1..MaxGeneration \cup {None}
  BY DEF Request
<1> DEFINE g == IF distributed THEN r.generation ELSE None
<1>8. g \in 1..MaxGeneration \cup {None}
  BY <1>7
<1> DEFINE row == Requeued[j]
           n == row.attempts + 1
           new == [row EXCEPT !.status = "LEASED", !.worker = r.worker, !.attempts = n,
                              !.token = n, !.live = TRUE, !.generation = g]
<1>9. Lease(row, r) = new
  BY <1>4 DEF Lease, Row
<1>10. n \in 1..MaxAttempts /\ n \in 0..MaxAttempts /\ row \in Row
  BY <1>4, <1>5, <1>6
<1>11. "LEASED" \in {None, "QUEUED"} \cup Leased \cup Terminal
  BY DEF Leased
<1> HIDE DEF g, n, row
<1>12. new \in Row /\ new.token = n /\ new.attempts = n
  BY <1>7, <1>8, <1>10, <1>11 DEF Row
<1>13. n = job[j].attempts + 1
  BY <1>2 DEF n, row
<1> QED BY <1>1, <1>3, <1>9, <1>10, <1>12, <1>13 DEF row

(* The steps of the service, as far as the agents see them.                 *)
LEMMA ServiceActs ==
    ASSUME AgentInv, JobTypes, NEW r \in requests, Serve(r)
    PROVE  AgentInv'
<1>1. r \in Request /\ r.worker \in Workers
  BY DEF AgentInv, AgentTypes, Request
<1>2. /\ requests \ {r} \in SUBSET Request
      /\ \A q \in requests \ {r} : q.op \in {"renew"} \cup Terminal => q.lease \in Leases
  BY DEF AgentInv, AgentTypes, Carried
<1>3. CASE Authenticate(r)
  <2>1. CASE Answer(r, FALSE)
    BY <2>1, AnswerKeeps
  <2>2. CASE /\ requests' = (requests \ {r}) \cup
                 {[r EXCEPT !.generation = generation[r.worker],
                            !.online = r.op = "claim" /\ status[r.worker] = "ONLINE"]}
             /\ UNCHANGED agentVars
    <3> DEFINE new == [r EXCEPT !.generation = generation[r.worker],
                                !.online = r.op = "claim" /\ status[r.worker] = "ONLINE"]
    <3>1. /\ new \in Request /\ new.op = r.op /\ new.worker = r.worker
          /\ new.lease = r.lease /\ new.waiting = r.waiting
      BY <1>1 DEF Request, JobTypes
    <3>2. requests' = (requests \ {r}) \cup {new}
      BY <2>2
    <3> HIDE DEF new
    <3>3. AgentTypes' /\ Carried'
      BY <1>2, <2>2, <3>1, <3>2 DEF AgentInv, AgentTypes, Carried, agentVars
    <3>4. OneAwaited'
      <4>1. UNCHANGED agent
        BY <2>2 DEF agentVars
      <4> QED BY <3>1, <3>2, <4>1 DEF AgentInv, OneAwaited, Awaits
    <3> QED BY <3>3, <3>4 DEF AgentInv
  <2> QED BY <1>3, <2>1, <2>2 DEF Authenticate
<1>4. CASE Heartbeat(r)
  BY <1>4, AnswerKeeps DEF Heartbeat
<1>5. CASE Renew(r)
  BY <1>5, AnswerKeeps DEF Renew
<1>6. CASE Complete(r)
  BY <1>6, AnswerKeeps DEF Complete
<1>7. CASE ClaimNothing(r)
  <2>1. CASE UNCHANGED <<requests, agentVars>>
    BY <2>1 DEF agentVars, AgentInv, AgentTypes, Carried, OneAwaited, Awaits
  <2> QED BY <1>7, <2>1, AnswerKeeps DEF ClaimNothing
<1>8. CASE Claim(r)
  <2>1. PICK j \in Claimable(Requeued) :
            /\ job' = [Requeued EXCEPT ![j] = Lease(@, r)]
            /\ \/ ~r.waiting /\ requests' = requests \ {r} /\ UNCHANGED agentVars
               \/ /\ r.waiting
                  /\ \/ Enter(r.worker, "starting", <<j, job'[j].token>>, requests \ {r})
                     \/ Enter(r.worker, "idle", None, requests \ {r})
    BY <1>8 DEF Claim
  <2>2. j \in Jobs /\ job'[j].token \in 1..MaxAttempts
    BY <1>1, <2>1, ClaimedRow
  <2>3. CASE ~r.waiting /\ requests' = requests \ {r} /\ UNCHANGED agentVars
    BY <1>2, <2>3, RequestsKeep DEF agentVars, AgentInv, AgentTypes
  <2>4. CASE r.waiting /\ (\/ Enter(r.worker, "starting", <<j, job'[j].token>>, requests \ {r})
                           \/ Enter(r.worker, "idle", None, requests \ {r}))
    <3>1. Awaits(r)
      BY <1>8, <2>4 DEF Awaits, Claim, Main
    <3>2. \A q \in requests \ {r} : Awaits(q) => q \in requests /\ q.worker # r.worker
      BY <3>1 DEF AgentInv, OneAwaited
    <3>3. <<j, job'[j].token>> \in Leases
      BY <2>2 DEF Leases
    <3>4. "starting" \in Positions /\ "idle" \in Positions /\ "idle" \notin Working
      BY DEF Positions, Waiting, Working
    <3> QED BY <1>1, <1>2, <2>4, <3>2, <3>3, <3>4, EnterKeeps
  <2> QED BY <2>1, <2>3, <2>4
<1> QED BY <1>3, <1>4, <1>5, <1>6, <1>7, <1>8 DEF Serve

-------------------------------------------------------------------------------
(* The rows are kept                                                        *)

(* Nothing about jobs changes, nor any generation.                          *)
LEMMA RowsUntouched ==
    ASSUME JobInv, UNCHANGED <<distributed, generation, job, revoked>>,
           status' \in [Workers -> Statuses], fresh' \in [Workers -> BOOLEAN]
    PROVE  JobInv'
  BY DEF JobInv, JobTypes, Rows, RowOK, Dead

(* One job's row changes and keeps its attempts: enough that the new row is *)
(* in order and, while leased, was leased before, no more alive than then.  *)
LEMMA RowChanges ==
    ASSUME JobInv, UNCHANGED <<distributed, workerVars, revoked>>,
           job' \in [Jobs -> Row],
           \A j \in Jobs : RowOK(job'[j]),
           \A j \in Jobs :
               /\ job'[j].attempts = job[j].attempts
               /\ job'[j].status \in Leased =>
                     /\ job[j].status \in Leased
                     /\ job'[j].token = job[j].token
                     /\ job'[j].worker = job[j].worker
                     /\ job'[j].generation = job[j].generation
                     /\ job'[j].live => job[j].live
    PROVE  JobInv'
<1> USE DEF workerVars
<1>1. JobTypes'
  BY DEF JobInv, JobTypes
<1>2. Rows'
  BY DEF Rows, RowOK
<1>3. Dead'
  <2> SUFFICES ASSUME NEW l \in revoked'
               PROVE  /\ l[2] <= job'[l[1]].attempts
                      /\ job'[l[1]].status \in Leased /\ job'[l[1]].token = l[2] =>
                            IF distributed' THEN job'[l[1]].generation < generation'[job'[l[1]].worker]
                                            ELSE ~job'[l[1]].live
    BY DEF Dead
  <2>1. l \in revoked /\ l[1] \in Jobs
    BY DEF JobInv, JobTypes, Leases
  <2>2. /\ l[2] <= job[l[1]].attempts
        /\ job[l[1]].status \in Leased /\ job[l[1]].token = l[2] =>
              IF distributed THEN job[l[1]].generation < generation[job[l[1]].worker]
                             ELSE ~job[l[1]].live
    BY <2>1 DEF JobInv, Dead
  <2> QED BY <2>1, <2>2
<1> QED BY <1>1, <1>2, <1>3 DEF JobInv

(* What the types say of one row.                                           *)
LEMMA RowFacts ==
    ASSUME JobInv, NEW j \in Jobs
    PROVE  job[j] \in Row /\ RowOK(job[j])
  BY DEF JobInv, JobTypes, Rows

LEMMA ExpireKeeps ==
    ASSUME JobInv, NEW j \in Jobs, ExpireLease(j), UNCHANGED distributed
    PROVE  JobInv'
<1>1. job' = [job EXCEPT ![j].live = FALSE] /\ UNCHANGED <<workerVars, revoked>>
  BY DEF ExpireLease
<1>2. job \in [Jobs -> Row]
  BY DEF JobInv, JobTypes
<1>3. [job[j] EXCEPT !.live = FALSE] \in Row
  BY <1>2 DEF Row
<1>4. \A i \in Jobs : job'[i] = IF i = j THEN [job[j] EXCEPT !.live = FALSE] ELSE job[i]
  BY <1>1, <1>2
<1>5. job' \in [Jobs -> Row]
  BY <1>1, <1>2, <1>3
<1>6. RowOK([job[j] EXCEPT !.live = FALSE])
  BY <1>2, RowFacts DEF RowOK, Row
<1>7. \A i \in Jobs : RowOK(job'[i])
  BY <1>4, <1>6, RowFacts
<1>8. \A i \in Jobs : /\ job'[i].attempts = job[i].attempts
                      /\ job'[i].status = job[i].status
                      /\ job'[i].token = job[i].token
                      /\ job'[i].worker = job[i].worker
                      /\ job'[i].generation = job[i].generation
                      /\ job'[i].live => job[i].live
  BY <1>2, <1>4 DEF Row
<1> QED BY <1>1, <1>5, <1>7, <1>8, RowChanges

LEMMA EnqueueKeeps ==
    ASSUME JobInv, NEW j \in Jobs, Enqueue(j), UNCHANGED distributed
    PROVE  JobInv'
<1> DEFINE new == [job[j] EXCEPT !.status = "QUEUED"]
<1>1. job' = [job EXCEPT ![j] = new] /\ UNCHANGED <<workerVars, revoked>> /\ job[j].status = None
  BY DEF Enqueue
<1>2. job \in [Jobs -> Row]
  BY DEF JobInv, JobTypes
<1>3. new \in Row
  BY <1>2 DEF Row
<1>4. \A i \in Jobs : job'[i] = IF i = j THEN new ELSE job[i]
  BY <1>1, <1>2
<1>5. job' \in [Jobs -> Row]
  BY <1>1, <1>2, <1>3
<1>6. new.attempts = job[j].attempts /\ new.status = "QUEUED" /\ new.result = job[j].result
  BY <1>2 DEF Row
<1>7. job[j].result = None
  BY <1>1, <1>2, RowFacts, FleetAssumption DEF RowOK, Terminal
<1> HIDE DEF new
<1>8. RowOK(new)
  BY <1>6, <1>7 DEF RowOK, Leased
<1>9. \A i \in Jobs : RowOK(job'[i])
  BY <1>4, <1>8, RowFacts
<1>10. "QUEUED" \notin Leased
  BY DEF Leased
<1> QED BY <1>1, <1>4, <1>5, <1>6, <1>9, <1>10, RowChanges

LEMMA RequeuedKeeps ==
    ASSUME JobInv, NEW j \in Jobs
    PROVE  /\ RowOK(Requeued[j])
           /\ Requeued[j].attempts = job[j].attempts
           /\ Requeued[j].status \in Leased => Requeued[j] = job[j]
<1>1. JobTypes /\ RowOK(job[j])
  BY RowFacts DEF JobInv
<1>2. /\ Requeued[j].attempts = job[j].attempts /\ Requeued[j].result = job[j].result
      /\ Requeued[j].status \in Leased => Requeued[j] = job[j]
      /\ job[j].status \in Terminal => Requeued[j] = job[j]
  BY <1>1, RequeuedRow
<1>3. CASE Requeued[j] = job[j]
  BY <1>1, <1>2, <1>3
<1>4. CASE Requeued[j] # job[j]
  BY <1>1, <1>2, <1>4 DEF RowOK
<1> QED BY <1>2, <1>3, <1>4

LEMMA ClaimNothingKeeps ==
    ASSUME JobInv, NEW r, ClaimNothing(r), UNCHANGED distributed
    PROVE  JobInv'
<1>1. UNCHANGED <<workerVars, revoked>> /\ (job' = Requeued \/ UNCHANGED job)
  BY DEF ClaimNothing
<1>2. CASE UNCHANGED job
  BY <1>1, <1>2, RowsUntouched DEF workerVars, JobInv, JobTypes
<1>3. CASE job' = Requeued
  <2>1. Requeued \in [Jobs -> Row]
    BY RequeuedRow DEF JobInv, Requeued, JobTypes
  <2> QED BY <1>1, <1>3, <2>1, RequeuedKeeps, RowChanges
<1> QED BY <1>1, <1>2, <1>3

(* A new lease has a token that no lease had before, and the generation of  *)
(* a worker that is active.                                                 *)
LEMMA ClaimKeeps ==
    ASSUME JobInv, NEW r \in Request, Claim(r), UNCHANGED distributed
    PROVE  JobInv'
<1>1. PICK j \in Claimable(Requeued) : job' = [Requeued EXCEPT ![j] = Lease(@, r)]
  BY DEF Claim
<1>2. /\ UNCHANGED <<workerVars, revoked>> /\ r.worker \in Workers
      /\ generation[r.worker] = r.generation
  BY DEF Claim, MayClaim, Active, Request
<1>3. JobTypes
  BY DEF JobInv
<1>4. /\ j \in Jobs /\ job'[j] = Lease(Requeued[j], r) /\ job'[j] \in Row
      /\ job'[j].token \in 1..MaxAttempts /\ job'[j].token = job'[j].attempts
      /\ job'[j].attempts = job[j].attempts + 1
  BY <1>1, <1>3, ClaimedRow
<1>5. Requeued \in [Jobs -> Row]
  BY <1>3, <1>4, RequeuedRow
<1>6. \A i \in Jobs : i # j => job'[i] = Requeued[i]
  BY <1>1, <1>5
<1>7. Requeued[j] \in Row /\ Requeued[j].status = "QUEUED" /\ job[j] \in Row
  BY <1>3, <1>4, <1>5 DEF Claimable, JobTypes
<1>8. Requeued[j].result = None
  BY <1>4, <1>7, RequeuedKeeps DEF RowOK, Terminal
<1>9. /\ job'[j].worker = r.worker
      /\ job'[j].result = None
      /\ distributed => job'[j].generation = r.generation
  BY <1>4, <1>7, <1>8 DEF Lease, Row
<1>10. JobTypes'
  <2>1. job' \in [Jobs -> Row]
    BY <1>1, <1>4, <1>5, <1>6
  <2> QED BY <1>2, <1>3, <2>1 DEF JobTypes, workerVars
<1>11. Rows'
  <2> SUFFICES ASSUME NEW i \in Jobs PROVE RowOK(job[i])'
    BY DEF Rows
  <2>1. CASE i # j
    BY <1>2, <1>6, <2>1, RequeuedKeeps DEF RowOK, workerVars
  <2>2. CASE i = j
    <3>1. generation[r.worker] \in 1..MaxGeneration /\ MaxGeneration \in Nat /\ MaxAttempts \in Nat
      BY <1>2, <1>3, FleetAssumption DEF JobTypes
    <3> QED BY <1>2, <1>4, <1>9, <2>2, <3>1 DEF RowOK, workerVars
  <2> QED BY <2>1, <2>2
<1>12. Dead'
  <2> SUFFICES ASSUME NEW l \in revoked'
               PROVE  /\ l[2] <= job'[l[1]].attempts
                      /\ job'[l[1]].status \in Leased /\ job'[l[1]].token = l[2] =>
                            IF distributed' THEN job'[l[1]].generation < generation'[job'[l[1]].worker]
                                            ELSE ~job'[l[1]].live
    BY DEF Dead
  <2>1. l \in revoked /\ l[1] \in Jobs /\ l[2] \in 1..MaxAttempts
    BY <1>2, <1>3 DEF JobTypes, Leases
  <2>2. /\ l[2] <= job[l[1]].attempts
        /\ job[l[1]].status \in Leased /\ job[l[1]].token = l[2] =>
              IF distributed THEN job[l[1]].generation < generation[job[l[1]].worker]
                             ELSE ~job[l[1]].live
    BY <2>1 DEF JobInv, Dead
  <2>3. CASE l[1] = j
    <3>1. job[j].attempts \in Nat /\ l[2] \in Nat
      BY <1>7, <2>1 DEF Row
    <3> QED BY <1>4, <2>2, <2>3, <3>1
  <2>4. CASE l[1] # j
    <3>1. /\ job'[l[1]].attempts = job[l[1]].attempts
          /\ job'[l[1]].status \in Leased => job'[l[1]] = job[l[1]]
      BY <1>6, <2>1, <2>4, RequeuedKeeps
    <3> QED BY <1>2, <2>2, <3>1 DEF workerVars
  <2> QED BY <2>3, <2>4
<1> QED BY <1>10, <1>11, <1>12 DEF JobInv

LEMMA RenewKeeps ==
    ASSUME JobInv, NEW r \in Request, r.lease \in Leases, Renew(r), UNCHANGED distributed
    PROVE  JobInv'
<1> DEFINE j == r.lease[1]
           new == [job[j] EXCEPT !.status = "RUNNING"]
<1>1. j \in Jobs /\ UNCHANGED <<workerVars, revoked>>
  BY DEF Renew, Leases
<1>2. job \in [Jobs -> Row] /\ job[j] \in Row
  BY <1>1 DEF JobInv, JobTypes
<1>3. CASE UNCHANGED job
  BY <1>1, <1>3, RowsUntouched DEF workerVars, JobInv, JobTypes
<1>4. CASE HoldsLease(r, job[j]) /\ job' = [job EXCEPT ![j].status = "RUNNING"]
  <2>1. \A i \in Jobs : job'[i] = IF i = j THEN new ELSE job[i]
    BY <1>2, <1>4
  <2>2. new \in Row
    BY <1>2 DEF Row, Leased
  <2>3. job' \in [Jobs -> Row]
    BY <1>2, <1>4, <2>2
  <2>4. /\ new.attempts = job[j].attempts /\ new.token = job[j].token
        /\ new.worker = job[j].worker /\ new.generation = job[j].generation
        /\ new.live = job[j].live /\ new.result = job[j].result /\ new.status = "RUNNING"
    BY <1>2 DEF Row
  <2>5. job[j].status \in Leased /\ "RUNNING" \in Leased /\ Leased \cap Terminal = {}
    BY <1>4 DEF HoldsLease, Leased, Terminal
  <2>6. RowOK(job[j])
    BY <1>1, RowFacts
  <2>7. job[j].result = None
    BY <2>5, <2>6 DEF RowOK
  <2> HIDE DEF new
  <2>8. RowOK(new)
    BY <2>4, <2>5, <2>6, <2>7 DEF RowOK
  <2>9. \A i \in Jobs : RowOK(job'[i])
    BY <2>1, <2>8, RowFacts
  <2> QED BY <1>1, <2>1, <2>3, <2>4, <2>5, <2>9, RowChanges
<1> QED BY <1>3, <1>4 DEF Renew

LEMMA CompleteKeeps ==
    ASSUME JobInv, NEW r \in Request, r.lease \in Leases, Complete(r), UNCHANGED distributed
    PROVE  JobInv'
<1> DEFINE j == r.lease[1]
           new == [job[j] EXCEPT !.status = r.op, !.result = r.lease[2],
                                 !.token = None, !.live = FALSE]
<1>1. /\ j \in Jobs /\ r.lease[2] \in 1..MaxAttempts /\ r.op \in Terminal
      /\ UNCHANGED <<workerVars, revoked>>
  BY DEF Complete, Leases
<1>2. job \in [Jobs -> Row] /\ job[j] \in Row
  BY <1>1 DEF JobInv, JobTypes
<1>3. CASE UNCHANGED job
  BY <1>1, <1>3, RowsUntouched DEF workerVars, JobInv, JobTypes
<1>4. CASE HoldsLease(r, job[j]) /\ job' = [job EXCEPT ![j] = new]
  <2>1. \A i \in Jobs : job'[i] = IF i = j THEN new ELSE job[i]
    BY <1>2, <1>4
  <2>2. new \in Row
    BY <1>1, <1>2 DEF Row
  <2>3. job' \in [Jobs -> Row]
    BY <1>2, <1>4, <2>2
  <2>4. new.attempts = job[j].attempts /\ new.result = r.lease[2] /\ new.status = r.op
    BY <1>2 DEF Row
  <2>5. /\ job[j].status \in Leased /\ job[j].token = r.lease[2]
        /\ Leased \cap Terminal = {}
    BY <1>4 DEF HoldsLease, Leased, Terminal
  <2>6. job[j].token = job[j].attempts
    BY <1>1, <2>5, RowFacts DEF RowOK
  <2> HIDE DEF new
  <2>7. RowOK(new)
    BY <1>1, <2>4, <2>5, <2>6 DEF RowOK
  <2>8. \A i \in Jobs : RowOK(job'[i])
    BY <2>1, <2>7, RowFacts
  <2> QED BY <1>1, <2>1, <2>3, <2>4, <2>5, <2>8, RowChanges
<1> QED BY <1>3, <1>4 DEF Complete

(* An operator's decision: every lease of the worker that it revokes is of  *)
(* an earlier generation from then on, or has ended.                        *)
LEMMA SetStatusKeeps ==
    ASSUME JobInv, NEW w \in Workers, NEW s \in Decisions, SetStatus(w, s),
           UNCHANGED distributed
    PROVE  JobInv'
<1>1. JobTypes /\ MaxGeneration \in Nat /\ MaxAttempts \in Nat /\ s \in Statuses
  BY FleetAssumption DEF JobInv, Statuses
<1>2. job' \in [Jobs -> Row]
  <2>1. \A i \in Jobs : job[i] \in Row /\ [job[i] EXCEPT !.live = FALSE] \in Row
    BY <1>1 DEF JobTypes, Row
  <2>2. job \in [Jobs -> Row]
    BY <1>1 DEF JobTypes
  <2> QED BY <2>1, <2>2 DEF SetStatus, EndLeases
<1>3. \A i \in Jobs : \/ job'[i] = job[i]
                      \/ i \in LeasedTo(w) /\ job'[i] = [job[i] EXCEPT !.live = FALSE]
  BY DEF SetStatus, EndLeases
<1>4. \A i \in Jobs : /\ job'[i].attempts = job[i].attempts
                      /\ job'[i].status = job[i].status
                      /\ job'[i].token = job[i].token
                      /\ job'[i].worker = job[i].worker
                      /\ job'[i].generation = job[i].generation
                      /\ job'[i].result = job[i].result
                      /\ job'[i].live => job[i].live
  <2> SUFFICES ASSUME NEW i \in Jobs
               PROVE  /\ job'[i].attempts = job[i].attempts
                      /\ job'[i].status = job[i].status
                      /\ job'[i].token = job[i].token
                      /\ job'[i].worker = job[i].worker
                      /\ job'[i].generation = job[i].generation
                      /\ job'[i].result = job[i].result
                      /\ job'[i].live => job[i].live
    OBVIOUS
  <2>1. job[i] \in Row
    BY <1>1 DEF JobTypes
  <2>2. CASE job'[i] = job[i]
    BY <2>2
  <2>3. CASE job'[i] = [job[i] EXCEPT !.live = FALSE]
    BY <2>1, <2>3 DEF Row
  <2> QED BY <1>3, <2>2, <2>3
<1>5. /\ generation' \in [Workers -> 1..MaxGeneration]
      /\ \A v \in Workers : generation[v] <= generation'[v]
      /\ s # "DRAINING" => generation'[w] = generation[w] + 1
  BY <1>1 DEF JobTypes, SetStatus
<1>6. \A l \in revoked' : l \in revoked
                          \/ /\ s \in {"QUARANTINED", "REVOKED"}
                             /\ \E i \in LeasedTo(w) : l = <<i, job[i].token>>
  BY DEF SetStatus
<1>7. \A i \in LeasedTo(w) : /\ i \in Jobs /\ job[i].worker = w /\ job[i].status \in Leased
                             /\ job[i].token = job[i].attempts
                             /\ job[i].attempts \in 1..MaxAttempts
                             /\ distributed => job[i].generation \in 1..MaxGeneration
                                              /\ job[i].generation <= generation[w]
  <2> SUFFICES ASSUME NEW i \in LeasedTo(w)
               PROVE  /\ i \in Jobs /\ job[i].worker = w /\ job[i].status \in Leased
                      /\ job[i].token = job[i].attempts
                      /\ job[i].attempts \in 1..MaxAttempts
                      /\ distributed => job[i].generation \in 1..MaxGeneration
                                       /\ job[i].generation <= generation[w]
    OBVIOUS
  <2>1. i \in Jobs /\ job[i].worker = w /\ job[i].status \in Leased
    BY DEF LeasedTo
  <2>2. job[i] \in Row /\ RowOK(job[i])
    BY <2>1, RowFacts
  <2> QED BY <1>1, <2>1, <2>2 DEF RowOK, Row
<1>8. JobTypes'
  <2>1. revoked' \in SUBSET Leases
    BY <1>1, <1>6, <1>7 DEF JobTypes, Leases
  <2>2. status' \in [Workers -> Statuses] /\ fresh' \in [Workers -> BOOLEAN]
    BY <1>1 DEF SetStatus, JobTypes
  <2> QED BY <1>1, <1>2, <1>5, <2>1, <2>2 DEF JobTypes
<1>9. Rows'
  <2> SUFFICES ASSUME NEW i \in Jobs PROVE RowOK(job[i])'
    BY DEF Rows
  <2>1. job[i] \in Row /\ RowOK(job[i])
    BY RowFacts
  <2>2. ASSUME job[i].status \in Leased, distributed
        PROVE  job[i].generation \in 1..MaxGeneration /\ job[i].generation <= generation'[job[i].worker]
    <3>1. /\ job[i].worker \in Workers /\ job[i].generation \in 1..MaxGeneration
          /\ job[i].generation <= generation[job[i].worker]
      BY <2>1, <2>2 DEF RowOK
    <3>2. generation[job[i].worker] \in Nat /\ generation'[job[i].worker] \in Nat
      BY <1>1, <1>5, <3>1 DEF JobTypes
    <3> QED BY <1>1, <1>5, <3>1, <3>2
  <2> QED BY <1>4, <2>1, <2>2 DEF RowOK
<1>10. Dead'
  <2> SUFFICES ASSUME NEW l \in revoked'
               PROVE  /\ l[2] <= job'[l[1]].attempts
                      /\ job'[l[1]].status \in Leased /\ job'[l[1]].token = l[2] =>
                            IF distributed' THEN job'[l[1]].generation < generation'[job'[l[1]].worker]
                                            ELSE ~job'[l[1]].live
    BY DEF Dead
  <2>1. CASE l \in revoked
    <3>1. l[1] \in Jobs
      BY <1>1, <2>1 DEF JobTypes, Leases
    <3>2. /\ l[2] <= job[l[1]].attempts
          /\ job[l[1]].status \in Leased /\ job[l[1]].token = l[2] =>
                IF distributed THEN job[l[1]].generation < generation[job[l[1]].worker]
                               ELSE ~job[l[1]].live
      BY <2>1 DEF JobInv, Dead
    <3>3. ASSUME job[l[1]].status \in Leased, distributed
          PROVE  /\ job[l[1]].generation \in Nat
                 /\ generation[job[l[1]].worker] \in Nat
                 /\ generation'[job[l[1]].worker] \in Nat
                 /\ generation[job[l[1]].worker] <= generation'[job[l[1]].worker]
      <4>1. job[l[1]].worker \in Workers /\ job[l[1]].generation \in 1..MaxGeneration
        BY <3>1, <3>3, RowFacts DEF RowOK
      <4> QED BY <1>1, <1>5, <4>1 DEF JobTypes
    <3>4. CASE distributed
      BY <1>4, <3>1, <3>2, <3>3, <3>4
    <3>5. CASE ~distributed
      BY <1>4, <3>1, <3>2, <3>5
    <3> QED BY <3>4, <3>5
  <2>2. CASE /\ s \in {"QUARANTINED", "REVOKED"}
             /\ \E i \in LeasedTo(w) : l = <<i, job[i].token>>
    <3>1. PICK i \in LeasedTo(w) : l = <<i, job[i].token>>
      BY <2>2
    <3>2. /\ l[1] = i /\ l[2] = job[i].token /\ i \in Jobs /\ job[i].worker = w
          /\ l[2] = job[i].attempts /\ job[i].attempts \in Nat
      BY <1>1, <1>7, <3>1
    <3>3. CASE distributed
      <4>1. job[i].generation \in Nat /\ generation[w] \in Nat /\ job[i].generation <= generation[w]
        BY <1>1, <1>7, <3>3 DEF JobTypes
      <4>2. generation'[w] = generation[w] + 1
        BY <1>5, <2>2
      <4> QED BY <1>4, <3>2, <3>3, <4>1, <4>2
    <3>4. CASE ~distributed
      <4>1. job'[i] = [job[i] EXCEPT !.live = FALSE]
        BY <2>2, <3>2, <3>4 DEF SetStatus, EndLeases
      <4>2. ~job'[i].live
        BY <1>1, <3>2, <4>1 DEF JobTypes, Row
      <4> QED BY <1>4, <3>2, <3>4, <4>2
    <3> QED BY <3>3, <3>4
  <2> QED BY <1>6, <2>1, <2>2
<1> QED BY <1>8, <1>9, <1>10 DEF JobInv

-------------------------------------------------------------------------------
(* The theorems                                                             *)

IInv == AgentInv /\ JobInv

LEMMA InitInv == Init => IInv
<1> SUFFICES ASSUME Init PROVE IInv
  OBVIOUS
<1>1. AgentInv
  BY DEF Init, AgentInv, AgentTypes, Carried, OneAwaited, Positions, Working
<1>2. JobInv
  <2>1. MaxGeneration \in Nat /\ MaxAttempts \in Nat
    BY FleetAssumption
  <2>2. JobTypes
    BY <2>1, FleetAssumption DEF Init, JobTypes, Statuses, Row
  <2> QED BY <2>2, FleetAssumption DEF Init, JobInv, Rows, RowOK, Dead, Leased
<1> QED BY <1>1, <1>2 DEF IInv

LEMMA NextInv == IInv /\ [Next]_vars => IInv'
<1> SUFFICES ASSUME IInv, [Next]_vars PROVE IInv'
  OBVIOUS
<1>0. AgentInv /\ JobInv /\ JobTypes
  BY DEF IInv, JobInv
<1>1. CASE UNCHANGED vars
  <2>1. AgentInv'
    BY <1>0, <1>1 DEF vars, agentVars, AgentInv, AgentTypes, Carried, OneAwaited, Awaits
  <2>2. JobInv'
    BY <1>0, <1>1, RowsUntouched DEF vars, workerVars, JobTypes
  <2> QED BY <2>1, <2>2 DEF IInv
<1>2. ASSUME NEW w \in Workers, UNCHANGED distributed,
             AgentStep(w) \/ SendRenewal(w) \/ GiveUpRenewal(w) \/ RestartAgent(w)
      PROVE  IInv'
  <2>1. UNCHANGED <<workerVars, job, revoked>>
    BY <1>2 DEF AgentStep, StartCycle, FinishJob, FailJob, GiveUp, SendRenewal, GiveUpRenewal,
                RestartAgent
  <2> QED BY <1>0, <1>2, <2>1, AgentActs, RowsUntouched DEF IInv, workerVars, JobTypes
<1>3. ASSUME UNCHANGED <<distributed, agentVars, requests>> PROVE AgentInv'
  BY <1>0, <1>3 DEF agentVars, AgentInv, AgentTypes, Carried, OneAwaited, Awaits
<1>4. ASSUME NEW w \in Workers, UNCHANGED distributed, GoStale(w) PROVE IInv'
  <2>1. AgentInv'
    BY <1>3, <1>4 DEF GoStale
  <2>2. JobInv'
    BY <1>0, <1>4, RowsUntouched DEF GoStale, JobTypes
  <2> QED BY <2>1, <2>2 DEF IInv
<1>5. ASSUME NEW w \in Workers, NEW s \in Decisions, UNCHANGED distributed, SetStatus(w, s)
      PROVE  IInv'
  <2>1. AgentInv'
    BY <1>3, <1>5 DEF SetStatus
  <2> QED BY <1>0, <1>5, <2>1, SetStatusKeeps DEF IInv
<1>6. ASSUME NEW j \in Jobs, UNCHANGED distributed, Enqueue(j) \/ ExpireLease(j)
      PROVE  IInv'
  <2>1. AgentInv'
    BY <1>3, <1>6 DEF Enqueue, ExpireLease
  <2> QED BY <1>0, <1>6, <2>1, EnqueueKeeps, ExpireKeeps DEF IInv
<1>7. ASSUME NEW r \in requests, UNCHANGED distributed, Serve(r) PROVE IInv'
  <2>1. AgentInv'
    BY <1>0, <1>7, ServiceActs
  <2>2. r \in Request
    BY <1>0 DEF AgentInv, AgentTypes
  <2>3. CASE Authenticate(r) \/ Heartbeat(r)
    <3>1. /\ UNCHANGED <<generation, job, revoked>>
          /\ status' \in [Workers -> Statuses] /\ fresh' \in [Workers -> BOOLEAN]
      BY <1>0, <2>2, <2>3 DEF Authenticate, Heartbeat, Reported, Statuses, workerVars, JobTypes,
                              Request
    <3> QED BY <1>0, <1>7, <2>1, <3>1, RowsUntouched DEF IInv
  <2>4. CASE Claim(r)
    BY <1>0, <1>7, <2>1, <2>2, <2>4, ClaimKeeps DEF IInv
  <2>5. CASE ClaimNothing(r)
    BY <1>0, <1>7, <2>1, <2>5, ClaimNothingKeeps DEF IInv
  <2>6. CASE Renew(r)
    <3>1. r.lease \in Leases
      BY <1>0, <2>6 DEF Renew, AgentInv, Carried
    <3> QED BY <1>0, <1>7, <2>1, <2>2, <2>6, <3>1, RenewKeeps DEF IInv
  <2>7. CASE Complete(r)
    <3>1. r.lease \in Leases
      BY <1>0, <2>7 DEF Complete, AgentInv, Carried
    <3> QED BY <1>0, <1>7, <2>1, <2>2, <2>7, <3>1, CompleteKeeps DEF IInv
  <2> QED BY <1>7, <2>3, <2>4, <2>5, <2>6, <2>7 DEF Serve
<1> QED BY <1>1, <1>2, <1>4, <1>5, <1>6, <1>7 DEF Next, Step

(* Agents and rows are in order in every reachable state, with any number   *)
(* of workers, jobs, attempts and abandoned requests, in either service.    *)
THEOREM Invariance == Spec => []IInv
  BY InitInv, NextInv, PTL DEF Spec

(* Every variable of the queue and its agents keeps its type.               *)
THEOREM TypeCorrect == Spec => []TypeOK
<1>1. IInv => TypeOK
  BY DEF IInv, AgentInv, AgentTypes, Positions, JobInv, JobTypes, TypeOK
<1> QED BY <1>1, Invariance, PTL

(* The result that complete accepts is the latest lease's.                  *)
THEOREM ResultsAreLatest == Spec => []ResultOfLatestLease
<1>1. IInv => ResultOfLatestLease
  BY DEF IInv, JobInv, Rows, RowOK, ResultOfLatestLease
<1> QED BY <1>1, Invariance, PTL

(* What a step does to a job's row: nothing once it has ended, and a result *)
(* only for a lease that can be used.                                       *)
LEMMA StepOnRows ==
    ASSUME IInv, [Next]_vars, NEW j \in Jobs
    PROVE  /\ job[j].status \in Terminal => job'[j] = job[j]
           /\ job'[j].result # job[j].result => <<j, job'[j].result>> \notin revoked
<1>0. /\ AgentInv /\ JobInv /\ JobTypes /\ job \in [Jobs -> Row] /\ job[j] \in Row
      /\ Leased \cap Terminal = {}
  BY DEF IInv, JobInv, JobTypes, Leased, Terminal
<1>1. CASE UNCHANGED job
  BY <1>1
<1>2. ASSUME NEW i \in Jobs, Enqueue(i) \/ ExpireLease(i)
      PROVE  /\ job[j].status \in Terminal => job'[j] = job[j]
             /\ job'[j].result = job[j].result
  <2>1. CASE i # j
    BY <1>0, <1>2, <2>1 DEF Enqueue, ExpireLease
  <2>2. CASE i = j
    BY <1>0, <1>2, <2>2, FleetAssumption DEF Enqueue, ExpireLease, Row, Terminal
  <2> QED BY <2>1, <2>2
<1>3. ASSUME NEW w \in Workers, NEW s \in Decisions, SetStatus(w, s)
      PROVE  /\ job[j].status \in Terminal => job'[j] = job[j]
             /\ job'[j].result = job[j].result
  <2>1. \/ job'[j] = job[j]
        \/ j \in LeasedTo(w) /\ job'[j] = [job[j] EXCEPT !.live = FALSE]
    BY <1>3 DEF SetStatus, EndLeases
  <2>2. CASE job'[j] = job[j]
    BY <2>2
  <2>3. CASE j \in LeasedTo(w) /\ job'[j] = [job[j] EXCEPT !.live = FALSE]
    BY <1>0, <2>3 DEF LeasedTo, Row
  <2> QED BY <2>1, <2>2, <2>3
<1>4. ASSUME NEW r \in requests, Claim(r) \/ ClaimNothing(r)
      PROVE  /\ job[j].status \in Terminal => job'[j] = job[j]
             /\ job'[j].result = job[j].result
  <2>1. /\ Requeued[j].result = job[j].result
        /\ job[j].status \in Terminal => Requeued[j] = job[j]
        /\ Requeued \in [Jobs -> Row]
    BY <1>0, RequeuedRow
  <2>2. CASE ClaimNothing(r)
    BY <2>1, <2>2 DEF ClaimNothing
  <2>3. CASE Claim(r)
    <3>1. PICK i \in Claimable(Requeued) : job' = [Requeued EXCEPT ![i] = Lease(@, r)]
      BY <2>3 DEF Claim
    <3>2. CASE i # j
      BY <2>1, <3>1, <3>2
    <3>3. CASE i = j
      <4>1. job'[j] = Lease(Requeued[j], r) /\ Requeued[j] \in Row /\ Requeued[j].status = "QUEUED"
        BY <2>1, <3>1, <3>3 DEF Claimable
      <4>2. Lease(Requeued[j], r).result = Requeued[j].result
        BY <4>1 DEF Lease, Row
      <4>3. "QUEUED" \notin Terminal
        BY DEF Terminal
      <4> QED BY <2>1, <4>1, <4>2, <4>3
    <3> QED BY <3>2, <3>3
  <2> QED BY <1>4, <2>2, <2>3
<1>5. ASSUME NEW r \in requests, Renew(r)
      PROVE  /\ job[j].status \in Terminal => job'[j] = job[j]
             /\ job'[j].result = job[j].result
  <2>1. CASE UNCHANGED job
    BY <2>1
  <2>2. CASE HoldsLease(r, job[r.lease[1]]) /\ job' = [job EXCEPT ![r.lease[1]].status = "RUNNING"]
    <3>1. CASE r.lease[1] = j
      BY <1>0, <2>2, <3>1 DEF HoldsLease, Row
    <3>2. CASE r.lease[1] # j
      BY <1>0, <2>2, <3>2
    <3> QED BY <3>1, <3>2
  <2> QED BY <1>5, <2>1, <2>2 DEF Renew
<1>6. ASSUME NEW r \in requests, Complete(r)
      PROVE  /\ job[j].status \in Terminal => job'[j] = job[j]
             /\ job'[j].result # job[j].result => <<j, job'[j].result>> \notin revoked
  <2>1. CASE UNCHANGED job
    BY <2>1
  <2>2. CASE /\ Active(r) /\ HoldsLease(r, job[r.lease[1]])
             /\ job' = [job EXCEPT ![r.lease[1]] =
                            [@ EXCEPT !.status = r.op, !.result = r.lease[2],
                                      !.token = None, !.live = FALSE]]
    <3>1. CASE r.lease[1] # j
      BY <1>0, <2>2, <3>1
    <3>2. CASE r.lease[1] = j
      <4>1. job'[j].result = r.lease[2] /\ job[j].status \in Leased /\ job[j].token = r.lease[2]
        BY <1>0, <2>2, <3>2 DEF HoldsLease, Row
      <4>2. SUFFICES ASSUME <<j, r.lease[2]>> \in revoked PROVE FALSE
        BY <1>0, <4>1
      <4>3. IF distributed THEN job[j].generation < generation[job[j].worker] ELSE ~job[j].live
        BY <1>0, <4>1, <4>2 DEF JobInv, Dead
      <4>4. job[j].live /\ job[j].worker = r.worker /\ (distributed => job[j].generation = r.generation)
        BY <2>2, <3>2 DEF HoldsLease
      <4>5. generation[r.worker] = r.generation /\ generation[r.worker] \in Nat
        <5>1. r.worker \in Workers
          BY <1>0 DEF AgentInv, AgentTypes, Request
        <5> QED BY <1>0, <2>2, <5>1 DEF Active, JobTypes
      <4> QED BY <4>3, <4>4, <4>5
    <3> QED BY <3>1, <3>2
  <2> QED BY <1>6, <2>1, <2>2 DEF Complete
<1>7. ASSUME NEW r \in requests, Authenticate(r) \/ Heartbeat(r) PROVE UNCHANGED job
  BY <1>7 DEF Authenticate, Heartbeat
<1>8. ASSUME NEW w \in Workers,
             AgentStep(w) \/ SendRenewal(w) \/ GiveUpRenewal(w) \/ RestartAgent(w) \/ GoStale(w)
      PROVE  UNCHANGED job
  BY <1>8 DEF AgentStep, StartCycle, FinishJob, FailJob, GiveUp, SendRenewal, GiveUpRenewal,
              RestartAgent, GoStale
<1>9. UNCHANGED vars => UNCHANGED job
  BY DEF vars
<1> QED BY <1>1, <1>2, <1>3, <1>4, <1>5, <1>6, <1>7, <1>8, <1>9 DEF Next, Step, Serve

(* No late renewal, report, claim, expiry or decision changes a job that    *)
(* has ended.                                                               *)
THEOREM EndedIsFinal == Spec => TerminalIsFinal
<1>1. IInv /\ [Next]_vars => [\A j \in Jobs : job[j].status \in Terminal => job'[j] = job[j]]_vars
  BY StepOnRows
<1> QED BY <1>1, Invariance, PTL DEF Spec, TerminalIsFinal

(* A lease from before a quarantine or a revocation is never accepted       *)
(* again: by its generation in PostgreSQL, by its end in SQLite.            *)
THEOREM RevokedStaysDead == Spec => RevokedLeaseIsDead
<1>1. IInv /\ [Next]_vars =>
        [\A j \in Jobs : job'[j].result # job[j].result => <<j, job'[j].result>> \notin revoked]_vars
  BY StepOnRows
<1> QED BY <1>1, Invariance, PTL DEF Spec, RevokedLeaseIsDead

(* Only a claim of an active, ONLINE worker adds to a job's attempts, and   *)
(* the job is that worker's then.                                           *)
LEMMA AttemptsAreClaims ==
    ASSUME IInv, Next, NEW j \in Jobs, job'[j].attempts # job[j].attempts
    PROVE  /\ status[job'[j].worker] = "ONLINE"
           /\ UNCHANGED workerVars
<1>0. /\ AgentInv /\ JobInv /\ JobTypes /\ job \in [Jobs -> Row] /\ job[j] \in Row
      /\ requests \in SUBSET Request
  BY DEF IInv, JobInv, JobTypes, AgentInv, AgentTypes
<1>1. Requeued \in [Jobs -> Row] /\ Requeued[j].attempts = job[j].attempts
  BY <1>0, RequeuedRow
<1>2. job' # job
  OBVIOUS
<1>3. ASSUME NEW r \in requests, Claim(r)
      PROVE  status[job'[j].worker] = "ONLINE" /\ UNCHANGED workerVars
  <2>1. PICK i \in Claimable(Requeued) : job' = [Requeued EXCEPT ![i] = Lease(@, r)]
    BY <1>3 DEF Claim
  <2>2. i = j
    BY <1>1, <2>1
  <2>3. job'[j] = Lease(Requeued[j], r) /\ Requeued[j] \in Row
    BY <1>1, <2>1, <2>2
  <2>4. job'[j].worker = r.worker
    BY <2>3 DEF Lease, Row
  <2> QED BY <1>3, <2>4 DEF Claim, MayClaim
<1>4. ASSUME NEW r \in requests, ClaimNothing(r) PROVE FALSE
  BY <1>1, <1>4 DEF ClaimNothing
<1>5. ASSUME NEW r \in requests, Renew(r) PROVE FALSE
  <2>1. job' = [job EXCEPT ![r.lease[1]].status = "RUNNING"]
    BY <1>2, <1>5 DEF Renew
  <2>2. job'[j] = job[j] \/ job'[j] = [job[j] EXCEPT !.status = "RUNNING"]
    BY <1>0, <2>1
  <2> QED BY <1>0, <2>2 DEF Row
<1>6. ASSUME NEW r \in requests, Complete(r) PROVE FALSE
  <2>1. job' = [job EXCEPT ![r.lease[1]] = [@ EXCEPT !.status = r.op, !.result = r.lease[2],
                                                     !.token = None, !.live = FALSE]]
    BY <1>2, <1>6 DEF Complete
  <2>2. \/ job'[j] = job[j]
        \/ job'[j] = [job[j] EXCEPT !.status = r.op, !.result = r.lease[2], !.token = None,
                                    !.live = FALSE]
    BY <1>0, <2>1
  <2> QED BY <1>0, <2>2 DEF Row
<1>7. ASSUME NEW r \in requests, Authenticate(r) \/ Heartbeat(r) PROVE FALSE
  BY <1>2, <1>7 DEF Authenticate, Heartbeat
<1>8. ASSUME NEW w \in Workers,
             AgentStep(w) \/ SendRenewal(w) \/ GiveUpRenewal(w) \/ RestartAgent(w) \/ GoStale(w)
      PROVE  FALSE
  BY <1>2, <1>8 DEF AgentStep, StartCycle, FinishJob, FailJob, GiveUp, SendRenewal, GiveUpRenewal,
                    RestartAgent, GoStale
<1>9. ASSUME NEW w \in Workers, NEW s \in Decisions, SetStatus(w, s) PROVE FALSE
  <2>1. job'[j] = job[j] \/ job'[j] = [job[j] EXCEPT !.live = FALSE]
    BY <1>9 DEF SetStatus, EndLeases
  <2> QED BY <1>0, <2>1 DEF Row
<1>10. ASSUME NEW i \in Jobs, Enqueue(i) \/ ExpireLease(i) PROVE FALSE
  BY <1>0, <1>10 DEF Enqueue, ExpireLease, Row
<1> QED BY <1>3, <1>4, <1>5, <1>6, <1>7, <1>8, <1>9, <1>10 DEF Next, Step, Serve

(* A worker out of service stays so and gets no lease until setStatus       *)
(* enables it, in a new generation: heartbeat writes no other status over   *)
(* DRAINING, and handles nothing for QUARANTINED, REVOKED or an earlier     *)
(* generation; claims look at the row as it is when they are handled.       *)
THEOREM OperatorsDecide == Spec => OutOfServiceStays
<1>1. ASSUME IInv, Next, NEW w \in Workers, status[w] # "ONLINE", generation'[w] = generation[w]
      PROVE  /\ status'[w] # "ONLINE"
             /\ \A j \in Jobs : job'[j].attempts # job[j].attempts => job'[j].worker # w
  <2>1. status \in [Workers -> Statuses] /\ generation \in [Workers -> 1..MaxGeneration]
    BY <1>1 DEF IInv, JobInv, JobTypes
  <2>2. CASE status' = status
    BY <1>1, <2>2, AttemptsAreClaims
  <2>3. ASSUME NEW r \in requests, Heartbeat(r)
        PROVE  status'[w] # "ONLINE" /\ UNCHANGED job
    <3>1. CASE Active(r) /\ r.worker = w
      BY <1>1, <2>1, <2>3, <3>1 DEF Heartbeat, Active, Reported
    <3>2. CASE ~(Active(r) /\ r.worker = w)
      BY <1>1, <2>1, <2>3, <3>2 DEF Heartbeat
    <3> QED BY <2>3, <3>1, <3>2 DEF Heartbeat
  <2>4. ASSUME NEW v \in Workers, NEW s \in Decisions, SetStatus(v, s)
        PROVE  status'[w] # "ONLINE"
    BY <1>1, <2>1, <2>4, FleetAssumption DEF SetStatus
  <2>5. ASSUME NEW v \in Workers, NEW s \in Decisions, SetStatus(v, s), status' # status
        PROVE  \A j \in Jobs : job'[j].attempts = job[j].attempts
    BY <1>1, <2>5, AttemptsAreClaims DEF workerVars
  <2>6. ASSUME status' # status
        PROVE  \/ \E r \in requests : Heartbeat(r)
               \/ \E v \in Workers, s \in Decisions : SetStatus(v, s)
    BY <1>1, <2>6 DEF Next, Step, Serve, Authenticate, Claim, ClaimNothing, Renew, Complete,
           AgentStep, StartCycle, FinishJob, FailJob, GiveUp, SendRenewal, GiveUpRenewal,
           RestartAgent, GoStale, Enqueue, ExpireLease, workerVars
  <2> QED BY <2>2, <2>3, <2>4, <2>5, <2>6
<1>2. IInv /\ [Next]_vars =>
        [\A w \in Workers : status[w] # "ONLINE" /\ generation'[w] = generation[w] =>
            /\ status'[w] # "ONLINE"
            /\ \A j \in Jobs : job'[j].attempts # job[j].attempts => job'[j].worker # w]_vars
  BY <1>1
<1> QED BY <1>2, Invariance, PTL DEF Spec, OutOfServiceStays

===============================================================================
