------------------------- MODULE CleanupAttemptsProofs -------------------------
(***************************************************************************)
(* What a verdict on a cleanup attempt says about its worker, proved for   *)
(* any attempts, cases, numbers of requests and restarts.                  *)
(***************************************************************************)
EXTENDS CleanupAttempts, SequenceTheorems, TLAPS

(* A recovery command may have been granted.                                *)
Dispatched(a) == phase[a] \notin Undispatched \cup {"none", "NOT_EXECUTED"}

Open(a) == phase[a] \notin terminal \cup {"none"}

(* Where the service's call is, with what its locals stand for.             *)
CallInv(a) ==
    /\ call[a] # "none" => Connected(a) /\ Open(a)
    /\ call[a] = "accepted" => worker[a] = "none"
    /\ call[a] \in {"created", "pending"} =>
          worker[a] = "none" /\ row[a] = "CREATED" /\ phase[a] \in Undispatched
    /\ call[a] = "running" => custody[a] = "held"
    /\ call[a] = "result" => custody[a] # "none" \/ row[a] = "RETAINED" \/ failures

(* The manager has custody of a worker until its call has ended.            *)
CustodyInv(a) ==
    /\ custody[a] # "none" => call[a] \in {"running", "result", "failed"}
    /\ custody[a] = "held" => worker[a] # "none"
    /\ custody[a] = "closed" => worker[a] = "closed"

(* A resource without a row, or a retained one, has no process.             *)
RowInv(a) == row[a] \in {"none", "RETAINED"} => ~Alive(a)

VerdictInv(a) ==
    /\ phase[a] = "none" => worker[a] = "none"
    /\ phase[a] = "NOT_EXECUTED" => row[a] \in {"none", "RETAINED"}
    /\ phase[a] \in {"RESTORATION_VERIFIED", "FAILED"} => row[a] = "RETAINED"

(* A worker recovers only after the command was recorded.                   *)
DispatchInv(a) ==
    /\ ~Dispatched(a) =>
          sent[a] = 0 /\ worker[a] \in {"none", "booting", "ready", "initialized", "closed"}
    /\ \A i \in 1..Len(toWorker[a]) :
          /\ toWorker[a][i].type = "RECOVER_MUTATION" => Dispatched(a)
          /\ toWorker[a][i].type = "RECOVERY_REQUEST_ACK" => toWorker[a][i].ordinal <= gates[a]

SentInv(a) ==
    /\ sent[a] + (IF worker[a] = "granted" THEN 1 ELSE 0) <= gates[a]
    /\ sent[a] + (IF worker[a] \in {"waiting", "granted"} THEN 1 ELSE 0) <= ordinal[a]

Local(a) ==
    CallInv(a) /\ CustodyInv(a) /\ RowInv(a) /\ VerdictInv(a) /\ DispatchInv(a) /\ SentInv(a)

(* Of two attempts of a case, one is resolved or not reserved yet.          *)
CaseInv ==
    \A a, b \in Attempts : a # b /\ CaseOf[a] = CaseOf[b] =>
        phase[a] \in Resolved \cup {"none"} \/ phase[b] \in Resolved \cup {"none"}

(* Open attempts are the newest, a dashboard that serves has none of its    *)
(* predecessors', and starts no worker next to an unknown outcome of one.   *)
ControllerInv ==
    /\ server = "down" => incarnation < MaxIncarnations
    /\ \A a \in Attempts : controller[a] <= incarnation
    /\ \A a, b \in Attempts : Open(a) => controller[b] <= controller[a]
    /\ server = "serving" => \A a \in Attempts : Open(a) => controller[a] = incarnation
    /\ \A a, b \in Attempts :
          call[b] \in {"created", "pending"} /\ phase[a] = "UNKNOWN" =>
              controller[a] = incarnation

Inv ==
    /\ TypeOK
    /\ \A a \in Attempts : Local(a)
    /\ CaseInv
    /\ ControllerInv
    /\ UnknownStopsDispatch

-------------------------------------------------------------------------------
(* Queues                                                                   *)

(* Taking the first message of a queue.                                     *)
LEMMA TakeFirst ==
    ASSUME NEW S, NEW q \in Seq(S), q # <<>>
    PROVE  /\ Head(q) \in S
           /\ Tail(q) \in Seq(S)
           /\ Len(q) \in Nat /\ Len(q) >= 1
           /\ Head(q) = q[1]
           /\ Len(Tail(q)) = Len(q) - 1
           /\ \A i \in 1..Len(Tail(q)) : Tail(q)[i] = q[i + 1]
BY HeadTailProperties, EmptySeq, SMT

(* Adding a message to a queue.                                             *)
LEMMA AddLast ==
    ASSUME NEW S, NEW q \in Seq(S), NEW e \in S
    PROVE  /\ Append(q, e) \in Seq(S)
           /\ Len(q) \in Nat
           /\ Len(Append(q, e)) = Len(q) + 1
           /\ \A i \in 1..Len(q) : Append(q, e)[i] = q[i]
           /\ Append(q, e)[Len(q) + 1] = e
BY AppendProperties, SMT

(* Messages have the types of their channel.                                *)
LEMMA MessageTypes ==
    ASSUME NEW n \in 0..MaxRequests
    PROVE  /\ Message("WORKER_BOOTSTRAP_READY", n) \in WorkerToApi
           /\ Message("WORKER_READY", n) \in WorkerToApi
           /\ Message("JOB_ACCEPTED", n) \in WorkerToApi
           /\ Message("RECOVERY_REQUEST_GATE", n) \in WorkerToApi
           /\ Message("WORKER_ERROR", n) \in WorkerToApi
           /\ \A o \in Outcomes : Result(o) \in WorkerToApi
           /\ Message("ACTIVATE_RUNTIME", n) \in ApiToWorker
           /\ Message("INITIALIZE_JOB", n) \in ApiToWorker
           /\ Message("RECOVER_MUTATION", n) \in ApiToWorker
           /\ Message("RECOVERY_REQUEST_ACK", n) \in ApiToWorker
           /\ Message("SHUTDOWN", n) \in ApiToWorker
           /\ \A t : Message(t, n).type = t /\ Message(t, n).ordinal = n
BY DEF Message, Result, WorkerToApi, ApiToWorker, Outcomes

(* What is known of an attempt that a step does not concern stays known.    *)
LEMMA Frame ==
    ASSUME NEW a \in Attempts, Local(a),
           phase'[a] = phase[a], gates'[a] = gates[a], controller'[a] = controller[a],
           row'[a] = row[a], call'[a] = call[a], custody'[a] = custody[a],
           toWorker'[a] = toWorker[a], worker'[a] = worker[a],
           ordinal'[a] = ordinal[a], sent'[a] = sent[a],
           server' = server, incarnation' = incarnation, failures => failures'
    PROVE  Local(a)'
BY DEF Local, CallInv, CustodyInv, RowInv, VerdictInv, DispatchInv, SentInv, Connected, Open,
       Alive, Dispatched

(* The parts of the invariant that relate attempts stay true when no        *)
(* attempt gets a verdict, is reserved or starts its worker.                *)
LEMMA GlobalFrame ==
    ASSUME TypeOK, CaseInv, ControllerInv, UnknownStopsDispatch,
           server' = server, incarnation' = incarnation, controller' = controller,
           \A b \in Attempts : phase'[b] = phase[b] \/ (Open(b) /\ Open(b)'),
           \A b \in Attempts : call'[b] \in {"created", "pending"} => call[b] \in {"created", "pending"},
           \A b \in Attempts : worker[b] = "none" => worker'[b] = "none"
    PROVE  CaseInv' /\ ControllerInv' /\ UnknownStopsDispatch'
<1>1. CaseInv'
  BY DEF CaseInv, Open, Resolved, terminal
<1>2. ControllerInv'
  BY DEF ControllerInv, Open, terminal
<1>3. UnknownStopsDispatch'
  BY DEF UnknownStopsDispatch, Open, terminal
<1> QED BY <1>1, <1>2, <1>3

(* The queues after a handler of the manager answered.                      *)
LEMMA Replies ==
    ASSUME TypeOK, NEW a \in Attempts, NEW m \in ApiToWorker, toManager[a] # <<>>, Reply(a, m)
    PROVE  /\ toManager' \in [Attempts -> Seq(WorkerToApi)]
           /\ toWorker' \in [Attempts -> Seq(ApiToWorker)]
           /\ \A b \in Attempts : b # a => toWorker'[b] = toWorker[b]
           /\ \A i \in 1..Len(toWorker'[a]) :
                 \/ toWorker'[a][i] = m
                 \/ i \in 1..Len(toWorker[a]) /\ toWorker'[a][i] = toWorker[a][i]
<1>1. Tail(toManager[a]) \in Seq(WorkerToApi)
  BY TakeFirst DEF TypeOK
<1>2. toWorker[a] \in Seq(ApiToWorker)
  BY DEF TypeOK
<1>3. /\ Append(toWorker[a], m) \in Seq(ApiToWorker)
      /\ \A i \in 1..Len(Append(toWorker[a], m)) :
            \/ Append(toWorker[a], m)[i] = m
            \/ i \in 1..Len(toWorker[a]) /\ Append(toWorker[a], m)[i] = toWorker[a][i]
  BY <1>2, AddLast
<1> QED BY <1>1, <1>2, <1>3 DEF Reply, TypeOK

(* The queues after runRecovery settled.                                    *)
LEMMA Settles ==
    ASSUME TypeOK, NEW a \in Attempts, NEW at, Settle(a, at)
    PROVE  /\ toManager' \in [Attempts -> Seq(WorkerToApi)]
           /\ toWorker' \in [Attempts -> Seq(ApiToWorker)]
           /\ \A b \in Attempts : b # a => toWorker'[b] = toWorker[b]
           /\ \A i \in 1..Len(toWorker'[a]) :
                 \/ toWorker'[a][i] = Message("SHUTDOWN", 0)
                 \/ i \in 1..Len(toWorker[a]) /\ toWorker'[a][i] = toWorker[a][i]
<1> DEFINE m == Message("SHUTDOWN", 0)
<1>1. m \in ApiToWorker
  BY MessageTypes, AttemptsAssumption
<1>2. toWorker[a] \in Seq(ApiToWorker)
  BY DEF TypeOK
<1>3. /\ Append(toWorker[a], m) \in Seq(ApiToWorker)
      /\ \A i \in 1..Len(Append(toWorker[a], m)) :
            \/ Append(toWorker[a], m)[i] = m
            \/ i \in 1..Len(toWorker[a]) /\ Append(toWorker[a], m)[i] = toWorker[a][i]
  BY <1>1, <1>2, AddLast
<1>4. <<>> \in Seq(WorkerToApi)
  OBVIOUS
<1> HIDE DEF m
<1>5. toWorker' = [toWorker EXCEPT ![a] = IF Alive(a) THEN Append(@, m) ELSE @]
  BY DEF Settle, m
<1>6. toManager' \in [Attempts -> Seq(WorkerToApi)]
  BY <1>4 DEF Settle, TypeOK
<1>7. \A i \in 1..Len(toWorker'[a]) :
         \/ toWorker'[a][i] = m
         \/ i \in 1..Len(toWorker[a]) /\ toWorker'[a][i] = toWorker[a][i]
  BY <1>2, <1>3, <1>5 DEF TypeOK
<1> QED BY <1>2, <1>3, <1>5, <1>6, <1>7 DEF TypeOK, m

(* The queue after the worker took a message.                               *)
LEMMA Takes ==
    ASSUME TypeOK, NEW a \in Attempts, NEW at, toWorker[a] # <<>>, Take(a, at)
    PROVE  /\ toWorker' \in [Attempts -> Seq(ApiToWorker)]
           /\ \A b \in Attempts : b # a => toWorker'[b] = toWorker[b]
           /\ \A i \in 1..Len(toWorker'[a]) :
                 i + 1 \in 1..Len(toWorker[a]) /\ toWorker'[a][i] = toWorker[a][i + 1]
           /\ 1 \in 1..Len(toWorker[a])
           /\ Head(toWorker[a]) = toWorker[a][1]
           /\ worker' = [worker EXCEPT ![a] = at]
<1>1. toWorker[a] \in Seq(ApiToWorker)
  BY DEF TypeOK
<1>2. /\ Tail(toWorker[a]) \in Seq(ApiToWorker)
      /\ Len(toWorker[a]) \in Nat /\ Len(toWorker[a]) >= 1
      /\ Head(toWorker[a]) = toWorker[a][1]
      /\ Len(Tail(toWorker[a])) = Len(toWorker[a]) - 1
      /\ \A i \in 1..Len(Tail(toWorker[a])) : Tail(toWorker[a])[i] = toWorker[a][i + 1]
  BY <1>1, TakeFirst
<1> QED BY <1>2 DEF Take, TypeOK

(* The manager's queue after the worker told it something.                  *)
LEMMA Tells ==
    ASSUME TypeOK, NEW a \in Attempts, NEW m \in WorkerToApi, Tell(a, m)
    PROVE  toManager' \in [Attempts -> Seq(WorkerToApi)]
<1>1. Append(toManager[a], m) \in Seq(WorkerToApi)
  BY AddLast DEF TypeOK
<1> QED BY <1>1 DEF Tell, TypeOK

-------------------------------------------------------------------------------
(* The dashboard                                                            *)

(* A refused start leaves no worker behind.                                 *)
LEMMA RefuseRecoveryStep ==
    ASSUME Inv, NEW a \in Attempts, RefuseRecovery(a)
    PROVE  Inv'
<1> USE DEF RefuseRecovery, Owned, Connected, Await
<1>0. TypeOK /\ Local(a) /\ Open(a)
  BY DEF Inv, Local, CallInv, CustodyInv, TypeOK, Open, terminal
<1>1. TypeOK'
  BY <1>0 DEF TypeOK, ledgerVars, managerVars, workerVars
<1>2. Local(a)'
  BY <1>0
  DEF TypeOK, Local, CallInv, CustodyInv, RowInv, VerdictInv, DispatchInv, SentInv, Connected,
      Open, Alive, Dispatched, terminal, Undispatched, ledgerVars, managerVars, workerVars
<1>3. ASSUME NEW b \in Attempts, b # a PROVE Local(b)'
  BY <1>0, <1>3, Frame DEF Inv, TypeOK, ledgerVars, managerVars, workerVars
<1>4. CaseInv' /\ ControllerInv' /\ UnknownStopsDispatch'
  BY <1>0, GlobalFrame
  DEF Inv, Open, terminal, Undispatched, TypeOK, Alive, ledgerVars, managerVars, workerVars
<1> QED BY <1>1, <1>2, <1>3, <1>4 DEF Inv

(* The attempt is pending before there is a process.                        *)
LEMMA RecordPendingStep ==
    ASSUME Inv, NEW a \in Attempts, RecordPending(a)
    PROVE  Inv'
<1> USE DEF RecordPending, Owned, Connected, Await
<1>0. TypeOK /\ Local(a) /\ Open(a)
  BY DEF Inv, Local, CallInv, CustodyInv, TypeOK, Open, terminal
<1>1. TypeOK'
  BY <1>0 DEF TypeOK, ledgerVars, managerVars, workerVars, Phases, Undispatched
<1>2. Local(a)'
  BY <1>0
  DEF TypeOK, Local, CallInv, CustodyInv, RowInv, VerdictInv, DispatchInv, SentInv, Connected,
      Open, Alive, Dispatched, terminal, Undispatched, ledgerVars, managerVars, workerVars
<1>3. ASSUME NEW b \in Attempts, b # a PROVE Local(b)'
  BY <1>0, <1>3, Frame DEF Inv, TypeOK, ledgerVars, managerVars, workerVars
<1>4. CaseInv' /\ ControllerInv' /\ UnknownStopsDispatch'
  BY <1>0, GlobalFrame
  DEF Inv, Open, terminal, Undispatched, TypeOK, Alive, ledgerVars, managerVars, workerVars
<1> QED BY <1>1, <1>2, <1>3, <1>4 DEF Inv

(* A resource is retained without a process.                                *)
LEMMA FailBeforeForkStep ==
    ASSUME Inv, NEW a \in Attempts, FailBeforeFork(a)
    PROVE  Inv'
<1> USE DEF FailBeforeFork, Owned, Connected, Await, RetainResource
<1>0. TypeOK /\ Local(a) /\ Open(a)
  BY DEF Inv, Local, CallInv, CustodyInv, TypeOK, Open, terminal
<1>1. TypeOK'
  BY <1>0 DEF TypeOK, ledgerVars, managerVars, workerVars, RowStates
<1>2. Local(a)'
  BY <1>0
  DEF TypeOK, Local, CallInv, CustodyInv, RowInv, VerdictInv, DispatchInv, SentInv, Connected,
      Open, Alive, Dispatched, terminal, Undispatched, ledgerVars, managerVars, workerVars
<1>3. ASSUME NEW b \in Attempts, b # a PROVE Local(b)'
  BY <1>0, <1>3, Frame DEF Inv, TypeOK, ledgerVars, managerVars, workerVars
<1>4. CaseInv' /\ ControllerInv' /\ UnknownStopsDispatch'
  BY <1>0, GlobalFrame
  DEF Inv, Open, terminal, Undispatched, TypeOK, Alive, ledgerVars, managerVars, workerVars
<1> QED BY <1>1, <1>2, <1>3, <1>4 DEF Inv

(* The worker is bound to its resource and activated.                       *)
LEMMA HandleBootstrapReadyStep ==
    ASSUME Inv, NEW a \in Attempts, HandleBootstrapReady(a)
    PROVE  Inv'
<1> USE DEF HandleBootstrapReady, Owned, Connected, Receives, GoOn
<1>0. TypeOK /\ Local(a) /\ Open(a)
  BY DEF Inv, Local, CallInv, CustodyInv, TypeOK, Open, terminal
<1>a. /\ Message("ACTIVATE_RUNTIME", 0) \in ApiToWorker
      /\ Message("ACTIVATE_RUNTIME", 0).type = "ACTIVATE_RUNTIME"
  <2>1. 0 \in 0..MaxRequests
    BY AttemptsAssumption
  <2> QED BY <2>1, MessageTypes
<1>b. /\ toManager' \in [Attempts -> Seq(WorkerToApi)]
      /\ toWorker' \in [Attempts -> Seq(ApiToWorker)]
      /\ \A b \in Attempts : b # a => toWorker'[b] = toWorker[b]
      /\ \A i \in 1..Len(toWorker'[a]) :
            \/ toWorker'[a][i] = Message("ACTIVATE_RUNTIME", 0)
            \/ i \in 1..Len(toWorker[a]) /\ toWorker'[a][i] = toWorker[a][i]
  BY <1>0, <1>a, Replies
<1>1. TypeOK'
  BY <1>0, <1>a, <1>b
  DEF TypeOK, ledgerVars, managerVars, workerVars, RowStates, Phases, Undispatched
<1>2. Local(a)'
  BY <1>0, <1>a, <1>b
  DEF TypeOK, Local, CallInv, CustodyInv, RowInv, VerdictInv, DispatchInv, SentInv, Connected,
      Open, Alive, Dispatched, terminal, Undispatched, ledgerVars, managerVars, workerVars
<1>3. ASSUME NEW b \in Attempts, b # a PROVE Local(b)'
  BY <1>0, <1>3, <1>a, <1>b, Frame DEF Inv, TypeOK, ledgerVars, managerVars, workerVars
<1>4. CaseInv' /\ ControllerInv' /\ UnknownStopsDispatch'
  BY <1>0, GlobalFrame
  DEF Inv, Open, terminal, Undispatched, TypeOK, Alive, ledgerVars, managerVars, workerVars
<1> QED BY <1>1, <1>2, <1>3, <1>4 DEF Inv

(* The worker is activated and gets its job.                                *)
LEMMA HandleReadyStep ==
    ASSUME Inv, NEW a \in Attempts, HandleReady(a)
    PROVE  Inv'
<1> USE DEF HandleReady, Owned, Connected, Receives, GoOn
<1>0. TypeOK /\ Local(a) /\ Open(a)
  BY DEF Inv, Local, CallInv, CustodyInv, TypeOK, Open, terminal
<1>a. /\ Message("INITIALIZE_JOB", 0) \in ApiToWorker
      /\ Message("INITIALIZE_JOB", 0).type = "INITIALIZE_JOB"
  <2>1. 0 \in 0..MaxRequests
    BY AttemptsAssumption
  <2> QED BY <2>1, MessageTypes
<1>b. /\ toManager' \in [Attempts -> Seq(WorkerToApi)]
      /\ toWorker' \in [Attempts -> Seq(ApiToWorker)]
      /\ \A b \in Attempts : b # a => toWorker'[b] = toWorker[b]
      /\ \A i \in 1..Len(toWorker'[a]) :
            \/ toWorker'[a][i] = Message("INITIALIZE_JOB", 0)
            \/ i \in 1..Len(toWorker[a]) /\ toWorker'[a][i] = toWorker[a][i]
  BY <1>0, <1>a, Replies
<1>1. TypeOK'
  BY <1>0, <1>a, <1>b
  DEF TypeOK, ledgerVars, managerVars, workerVars, RowStates, Phases, Undispatched
<1>2. Local(a)'
  BY <1>0, <1>a, <1>b
  DEF TypeOK, Local, CallInv, CustodyInv, RowInv, VerdictInv, DispatchInv, SentInv, Connected,
      Open, Alive, Dispatched, terminal, Undispatched, ledgerVars, managerVars, workerVars
<1>3. ASSUME NEW b \in Attempts, b # a PROVE Local(b)'
  BY <1>0, <1>3, <1>a, <1>b, Frame DEF Inv, TypeOK, ledgerVars, managerVars, workerVars
<1>4. CaseInv' /\ ControllerInv' /\ UnknownStopsDispatch'
  BY <1>0, GlobalFrame
  DEF Inv, Open, terminal, Undispatched, TypeOK, Alive, ledgerVars, managerVars, workerVars
<1> QED BY <1>1, <1>2, <1>3, <1>4 DEF Inv

(* The dispatch is armed before the command leaves.                         *)
LEMMA HandleAcceptedStep ==
    ASSUME Inv, NEW a \in Attempts, HandleAccepted(a)
    PROVE  Inv'
<1> USE DEF HandleAccepted, Owned, Connected, Receives, GoOn
<1>0. TypeOK /\ Local(a) /\ Open(a)
  BY DEF Inv, Local, CallInv, CustodyInv, TypeOK, Open, terminal
<1>a. /\ Message("RECOVER_MUTATION", 0) \in ApiToWorker
      /\ Message("RECOVER_MUTATION", 0).type = "RECOVER_MUTATION"
  <2>1. 0 \in 0..MaxRequests
    BY AttemptsAssumption
  <2> QED BY <2>1, MessageTypes
<1>b. /\ toManager' \in [Attempts -> Seq(WorkerToApi)]
      /\ toWorker' \in [Attempts -> Seq(ApiToWorker)]
      /\ \A b \in Attempts : b # a => toWorker'[b] = toWorker[b]
      /\ \A i \in 1..Len(toWorker'[a]) :
            \/ toWorker'[a][i] = Message("RECOVER_MUTATION", 0)
            \/ i \in 1..Len(toWorker[a]) /\ toWorker'[a][i] = toWorker[a][i]
  BY <1>0, <1>a, Replies
<1>1. TypeOK'
  BY <1>0, <1>a, <1>b
  DEF TypeOK, ledgerVars, managerVars, workerVars, RowStates, Phases, Undispatched
<1>2. Local(a)'
  BY <1>0, <1>a, <1>b
  DEF TypeOK, Local, CallInv, CustodyInv, RowInv, VerdictInv, DispatchInv, SentInv, Connected,
      Open, Alive, Dispatched, terminal, Undispatched, ledgerVars, managerVars, workerVars
<1>3. ASSUME NEW b \in Attempts, b # a PROVE Local(b)'
  BY <1>0, <1>3, <1>a, <1>b, Frame DEF Inv, TypeOK, ledgerVars, managerVars, workerVars
<1>4. CaseInv' /\ ControllerInv' /\ UnknownStopsDispatch'
  BY <1>0, GlobalFrame
  DEF Inv, Open, terminal, Undispatched, TypeOK, Alive, ledgerVars, managerVars, workerVars
<1> QED BY <1>1, <1>2, <1>3, <1>4 DEF Inv

(* A request is recorded before it is acknowledged.                         *)
LEMMA HandleGateStep ==
    ASSUME Inv, NEW a \in Attempts, HandleGate(a)
    PROVE  Inv'
<1> USE DEF HandleGate, Owned, Connected, Receives, Gate
<1>0. TypeOK /\ Local(a) /\ Open(a)
  BY DEF Inv, Local, CallInv, CustodyInv, TypeOK, Open, terminal
<1> DEFINE n == Head(toManager[a]).ordinal
           m == Message("RECOVERY_REQUEST_ACK", n)
<1>n. n \in 0..MaxRequests /\ n = gates[a] + 1
  <2>1. Head(toManager[a]) \in WorkerToApi
    BY <1>0, TakeFirst DEF TypeOK
  <2> QED BY <2>1, AttemptsAssumption DEF WorkerToApi
<1>a. m \in ApiToWorker /\ m.type = "RECOVERY_REQUEST_ACK" /\ m.ordinal = n
  BY <1>n, MessageTypes
<1>o. \A i \in 1..Len(toWorker[a]) : toWorker[a][i].ordinal \in 0..MaxRequests
  <2>1. toWorker[a] \in Seq(ApiToWorker)
    BY <1>0 DEF TypeOK
  <2>2. \A m1 \in ApiToWorker : m1.ordinal \in 0..MaxRequests
    BY DEF ApiToWorker
  <2> QED BY <2>1, <2>2
<1>p. phase[a] \in {"DISPATCH_ARMED", "DISPATCH_ATTEMPTED"}
  OBVIOUS
<1>q. /\ gates' = [gates EXCEPT ![a] = n]
      /\ Reply(a, m)
  OBVIOUS
<1> HIDE DEF n, m
<1>b. /\ toManager' \in [Attempts -> Seq(WorkerToApi)]
      /\ toWorker' \in [Attempts -> Seq(ApiToWorker)]
      /\ \A b \in Attempts : b # a => toWorker'[b] = toWorker[b]
      /\ \A i \in 1..Len(toWorker'[a]) :
            \/ toWorker'[a][i] = m
            \/ i \in 1..Len(toWorker[a]) /\ toWorker'[a][i] = toWorker[a][i]
  BY <1>0, <1>a, <1>q, Replies
<1>1. TypeOK'
  <2>1. "DISPATCH_ATTEMPTED" \in Phases
    BY DEF Phases
  <2>2. /\ phase' \in [Attempts -> Phases] /\ gates' \in [Attempts -> 0..MaxRequests]
        /\ UNCHANGED <<controller, summary, row, managerVars, workerVars>>
    BY <1>0, <1>n, <1>a, <1>q, <2>1 DEF TypeOK
  <2> QED BY <1>0, <1>b, <2>2 DEF TypeOK, managerVars, workerVars
<1>2. Local(a)'
  <2>1. /\ phase' = [phase EXCEPT ![a] = "DISPATCH_ATTEMPTED"]
        /\ UNCHANGED <<controller, row, managerVars, workerVars>>
    OBVIOUS
  <2>2. CallInv(a)' /\ CustodyInv(a)'
    BY <1>0, <2>1 DEF TypeOK, Local, CallInv, CustodyInv, Open, terminal, managerVars, workerVars
  <2>3. RowInv(a)' /\ VerdictInv(a)'
    BY <1>0, <2>1 DEF TypeOK, Local, RowInv, VerdictInv, Alive, workerVars
  <2>4. SentInv(a)'
    <3>1. /\ gates[a] \in Nat /\ sent[a] \in Nat /\ gates'[a] = gates[a] + 1
          /\ sent' = sent /\ worker' = worker /\ ordinal' = ordinal
      BY <1>0, <1>n, <1>q, <2>1, AttemptsAssumption DEF TypeOK, workerVars
    <3>2. SentInv(a)
      BY <1>0 DEF Local
    <3> QED BY <3>1, <3>2 DEF SentInv
  <2>5. DispatchInv(a)'
    <3>1. phase'[a] = "DISPATCH_ATTEMPTED" /\ gates'[a] = gates[a] + 1 /\ gates[a] \in Nat
      BY <1>0, <1>n, <1>q, <2>1, AttemptsAssumption DEF TypeOK
    <3>2. Dispatched(a)'
      BY <3>1 DEF Dispatched, Undispatched
    <3>3. DispatchInv(a)
      BY <1>0 DEF Local
    <3>4. ASSUME NEW i \in 1..Len(toWorker'[a]), toWorker'[a][i].type = "RECOVERY_REQUEST_ACK"
          PROVE  toWorker'[a][i].ordinal <= gates'[a]
      <4>1. CASE toWorker'[a][i] = m
        BY <4>1, <1>a, <1>n, <3>1
      <4>2. CASE i \in 1..Len(toWorker[a]) /\ toWorker'[a][i] = toWorker[a][i]
        BY <4>2, <1>o, <3>1, <3>3, <3>4, AttemptsAssumption DEF DispatchInv
      <4> QED BY <4>1, <4>2, <1>b
    <3> QED BY <3>2, <3>4 DEF DispatchInv
  <2> QED BY <2>2, <2>3, <2>4, <2>5 DEF Local
<1>3. ASSUME NEW b \in Attempts, b # a PROVE Local(b)'
  BY <1>0, <1>3, <1>n, <1>a, <1>b, <1>p, <1>q, Frame
  DEF Inv, TypeOK, ledgerVars, managerVars, workerVars
<1>4. CaseInv' /\ ControllerInv' /\ UnknownStopsDispatch'
  BY <1>0, GlobalFrame
  DEF Inv, Open, terminal, Undispatched, TypeOK, Alive, ledgerVars, managerVars, workerVars
<1> QED BY <1>1, <1>2, <1>3, <1>4 DEF Inv

(* A result ends the call while the worker is in custody.                   *)
LEMMA HandleResultStep ==
    ASSUME Inv, NEW a \in Attempts, HandleResult(a)
    PROVE  Inv'
<1> USE DEF HandleResult, Owned, Connected, Receives
<1>0. TypeOK /\ Local(a) /\ Open(a)
  BY DEF Inv, Local, CallInv, CustodyInv, TypeOK, Open, terminal
<1>o. Head(toManager[a]).outcome \in Outcomes
  <2>1. Head(toManager[a]) \in WorkerToApi
    BY <1>0, TakeFirst DEF TypeOK
  <2> QED BY <2>1 DEF WorkerToApi
<1>b. /\ toManager' \in [Attempts -> Seq(WorkerToApi)]
      /\ toWorker' \in [Attempts -> Seq(ApiToWorker)]
      /\ \A b \in Attempts : b # a => toWorker'[b] = toWorker[b]
      /\ \A i \in 1..Len(toWorker'[a]) :
            \/ toWorker'[a][i] = Message("SHUTDOWN", 0)
            \/ i \in 1..Len(toWorker[a]) /\ toWorker'[a][i] = toWorker[a][i]
  BY <1>0, Settles
<1>c. /\ \E bookkept \in BOOLEAN :
            /\ failures' = (failures \/ ~bookkept)
            /\ call' = [call EXCEPT ![a] = IF bookkept THEN "result" ELSE "failed"]
      /\ UNCHANGED <<server, incarnation, shuttingDown, step, cancelled, custody, lost, row,
                     workerVars>>
  BY DEF Settle
<1>d. Message("SHUTDOWN", 0).type = "SHUTDOWN"
  BY DEF Message
<1>1. TypeOK'
  BY <1>0, <1>b, <1>c, <1>d, <1>o DEF TypeOK, ledgerVars, managerVars, workerVars, Phases
<1>2. Local(a)'
  BY <1>0, <1>b, <1>c, <1>d, <1>o
  DEF TypeOK, Local, CallInv, CustodyInv, RowInv, VerdictInv, DispatchInv, SentInv, Connected,
      Open, Alive, Dispatched, terminal, Undispatched, ledgerVars, managerVars, workerVars
<1>3. ASSUME NEW b \in Attempts, b # a PROVE Local(b)'
  BY <1>0, <1>3, <1>b, <1>c, <1>d, <1>o, Frame DEF Inv, TypeOK, ledgerVars, managerVars, workerVars
<1>4. CaseInv' /\ ControllerInv' /\ UnknownStopsDispatch'
  BY <1>0, <1>c, GlobalFrame
  DEF Inv, Open, terminal, Undispatched, TypeOK, Alive, ledgerVars, managerVars, workerVars
<1> QED BY <1>1, <1>2, <1>3, <1>4 DEF Inv

(* So does an error.                                                        *)
LEMMA SettleWithErrorStep ==
    ASSUME Inv, NEW a \in Attempts, SettleWithError(a)
    PROVE  Inv'
<1> USE DEF SettleWithError, Owned, Connected
<1>0. TypeOK /\ Local(a) /\ Open(a)
  BY DEF Inv, Local, CallInv, CustodyInv, TypeOK, Open, terminal
<1>b. /\ toManager' \in [Attempts -> Seq(WorkerToApi)]
      /\ toWorker' \in [Attempts -> Seq(ApiToWorker)]
      /\ \A b \in Attempts : b # a => toWorker'[b] = toWorker[b]
      /\ \A i \in 1..Len(toWorker'[a]) :
            \/ toWorker'[a][i] = Message("SHUTDOWN", 0)
            \/ i \in 1..Len(toWorker[a]) /\ toWorker'[a][i] = toWorker[a][i]
  BY <1>0, Settles
<1>c. /\ \E bookkept \in BOOLEAN :
            /\ failures' = (failures \/ ~bookkept)
            /\ call' = [call EXCEPT ![a] = IF bookkept THEN "failed" ELSE "failed"]
      /\ UNCHANGED <<server, incarnation, shuttingDown, step, cancelled, custody, lost, row,
                     workerVars>>
  BY DEF Settle
<1>d. Message("SHUTDOWN", 0).type = "SHUTDOWN"
  BY DEF Message
<1>1. TypeOK'
  BY <1>0, <1>b, <1>c, <1>d DEF TypeOK, ledgerVars, managerVars, workerVars
<1>2. Local(a)'
  <2>1. call' = [call EXCEPT ![a] = "failed"] /\ phase' = phase /\ row' = row /\ gates' = gates
    BY <1>0, <1>c DEF ledgerVars
  <2>2. CallInv(a)' /\ CustodyInv(a)'
    BY <1>0, <1>c, <2>1 DEF TypeOK, Local, CallInv, CustodyInv, Open, ledgerVars, workerVars
  <2>3. RowInv(a)' /\ VerdictInv(a)' /\ SentInv(a)'
    BY <1>0, <1>c, <2>1 DEF Local, RowInv, VerdictInv, SentInv, Alive, workerVars
  <2>4. DispatchInv(a)'
    BY <1>0, <1>b, <1>c, <1>d, <2>1 DEF Local, DispatchInv, Dispatched, workerVars
  <2> QED BY <2>2, <2>3, <2>4 DEF Local
<1>3. ASSUME NEW b \in Attempts, b # a PROVE Local(b)'
  BY <1>0, <1>3, <1>b, <1>c, <1>d, Frame DEF Inv, TypeOK, ledgerVars, managerVars, workerVars
<1>4. CaseInv' /\ ControllerInv' /\ UnknownStopsDispatch'
  BY <1>0, <1>c, GlobalFrame
  DEF Inv, Open, terminal, Undispatched, TypeOK, Alive, ledgerVars, managerVars, workerVars
<1> QED BY <1>1, <1>2, <1>3, <1>4 DEF Inv

(* A lost process is never taken for a retained one.                        *)
LEMMA LoseCustodyStep ==
    ASSUME Inv, NEW a \in Attempts, LoseCustody(a)
    PROVE  Inv'
<1> USE DEF LoseCustody, Owned, Connected
<1>0. TypeOK /\ Local(a) /\ Open(a)
  BY DEF Inv, Local, CallInv, CustodyInv, TypeOK, Open, terminal
<1>1. TypeOK'
  BY <1>0 DEF TypeOK, ledgerVars, managerVars, workerVars, RowStates
<1>2. Local(a)'
  BY <1>0
  DEF TypeOK, Local, CallInv, CustodyInv, RowInv, VerdictInv, DispatchInv, SentInv, Connected,
      Open, Alive, Dispatched, terminal, Undispatched, ledgerVars, managerVars, workerVars
<1>3. ASSUME NEW b \in Attempts, b # a PROVE Local(b)'
  BY <1>0, <1>3, Frame DEF Inv, TypeOK, ledgerVars, managerVars, workerVars
<1>4. CaseInv' /\ ControllerInv' /\ UnknownStopsDispatch'
  BY <1>0, GlobalFrame
  DEF Inv, Open, terminal, Undispatched, TypeOK, Alive, ledgerVars, managerVars, workerVars
<1> QED BY <1>1, <1>2, <1>3, <1>4 DEF Inv

(* The exit of the process is seen.                                         *)
LEMMA ObserveExitStep ==
    ASSUME Inv, NEW a \in Attempts, ObserveExit(a)
    PROVE  Inv'
<1> USE DEF ObserveExit, Owned, Connected
<1>0. TypeOK /\ Local(a) /\ Open(a)
  BY DEF Inv, Local, CallInv, CustodyInv, TypeOK, Open, terminal
<1>r. row' \in [Attempts -> RowStates] /\ failures' \in BOOLEAN
  <2>1. [row EXCEPT ![a] = IF @ = "UNKNOWN_RETAINED" THEN @ ELSE "DRAINING"] \in [Attempts -> RowStates]
    BY <1>0 DEF TypeOK, RowStates
  <2> QED BY <1>0, <2>1 DEF TypeOK
<1>1. TypeOK'
  BY <1>0, <1>r DEF TypeOK, ledgerVars, managerVars, workerVars
<1>2. Local(a)'
  BY <1>0, <1>r
  DEF TypeOK, Local, CallInv, CustodyInv, RowInv, VerdictInv, DispatchInv, SentInv, Connected,
      Open, Alive, Dispatched, terminal, Undispatched, ledgerVars, managerVars, workerVars
<1>3. ASSUME NEW b \in Attempts, b # a PROVE Local(b)'
  BY <1>0, <1>3, <1>r, Frame DEF Inv, TypeOK, ledgerVars, managerVars, workerVars
<1>4. CaseInv' /\ ControllerInv' /\ UnknownStopsDispatch'
  BY <1>0, GlobalFrame
  DEF Inv, Open, terminal, Undispatched, TypeOK, Alive, ledgerVars, managerVars, workerVars
<1> QED BY <1>1, <1>2, <1>3, <1>4 DEF Inv

(* A resource is retained once its process is gone.                         *)
LEMMA ReleaseCustodyStep ==
    ASSUME Inv, NEW a \in Attempts, ReleaseCustody(a)
    PROVE  Inv'
<1> USE DEF ReleaseCustody, Owned, Connected, RetainResource
<1>0. TypeOK /\ Local(a) /\ Open(a)
  BY DEF Inv, Local, CallInv, CustodyInv, TypeOK, Open, terminal
<1>r. row' \in [Attempts -> RowStates] /\ failures' \in BOOLEAN
  <2>1. \A s \in RowStates : [row EXCEPT ![a] = s] \in [Attempts -> RowStates]
    BY <1>0 DEF TypeOK
  <2>2. CASE RetainResource(a)
    BY <1>0, <2>1, <2>2 DEF TypeOK, RowStates
  <2>3. CASE failures' = TRUE /\ UNCHANGED row
    BY <1>0, <2>3 DEF TypeOK
  <2> QED BY <2>2, <2>3
<1>1. TypeOK'
  BY <1>0, <1>r DEF TypeOK, ledgerVars, managerVars, workerVars
<1>2. Local(a)'
  BY <1>0
  DEF TypeOK, Local, CallInv, CustodyInv, RowInv, VerdictInv, DispatchInv, SentInv, Connected,
      Open, Alive, Dispatched, terminal, Undispatched, ledgerVars, managerVars, workerVars
<1>3. ASSUME NEW b \in Attempts, b # a PROVE Local(b)'
  BY <1>0, <1>3, Frame DEF Inv, TypeOK, ledgerVars, managerVars, workerVars
<1>4. CaseInv' /\ ControllerInv' /\ UnknownStopsDispatch'
  BY <1>0, GlobalFrame
  DEF Inv, Open, terminal, Undispatched, TypeOK, Alive, ledgerVars, managerVars, workerVars
<1> QED BY <1>1, <1>2, <1>3, <1>4 DEF Inv

(* A result that is not confirmed fails.                                    *)
LEMMA RejectResultStep ==
    ASSUME Inv, NEW a \in Attempts, RejectResult(a)
    PROVE  Inv'
<1> USE DEF RejectResult, Owned, Connected, Await
<1>0. TypeOK /\ Local(a) /\ Open(a)
  BY DEF Inv, Local, CallInv, CustodyInv, TypeOK, Open, terminal
<1>1. TypeOK'
  BY <1>0 DEF TypeOK, ledgerVars, managerVars, workerVars
<1>2. Local(a)'
  BY <1>0
  DEF TypeOK, Local, CallInv, CustodyInv, RowInv, VerdictInv, DispatchInv, SentInv, Connected,
      Open, Alive, Dispatched, terminal, Undispatched, ledgerVars, managerVars, workerVars
<1>3. ASSUME NEW b \in Attempts, b # a PROVE Local(b)'
  BY <1>0, <1>3, Frame DEF Inv, TypeOK, ledgerVars, managerVars, workerVars
<1>4. CaseInv' /\ ControllerInv' /\ UnknownStopsDispatch'
  BY <1>0, GlobalFrame
  DEF Inv, Open, terminal, Undispatched, TypeOK, Alive, ledgerVars, managerVars, workerVars
<1> QED BY <1>1, <1>2, <1>3, <1>4 DEF Inv

-------------------------------------------------------------------------------
(* The worker process                                                       *)

(* What a step of a's process has to show for the invariant.                *)
LEMMA WorkerFrame ==
    ASSUME Inv, NEW a \in Attempts, Alive(a), TypeOK', DispatchInv(a)', SentInv(a)',
           worker'[a] # "none", UNCHANGED <<ledgerVars, row, managerVars>>,
           \A b \in Attempts : b # a =>
               /\ toWorker'[b] = toWorker[b] /\ worker'[b] = worker[b]
               /\ ordinal'[b] = ordinal[b] /\ sent'[b] = sent[b]
    PROVE  Inv'
<1>1. Local(a)'
  BY DEF Inv, Local, CallInv, CustodyInv, RowInv, VerdictInv, Connected, Open, Alive,
         ledgerVars, managerVars
<1>2. ASSUME NEW b \in Attempts, b # a PROVE Local(b)'
  BY <1>2, Frame DEF Inv, ledgerVars, managerVars
<1>3. CaseInv' /\ ControllerInv' /\ UnknownStopsDispatch'
  BY GlobalFrame DEF Inv, Alive, ledgerVars, managerVars
<1> QED BY <1>1, <1>2, <1>3 DEF Inv

(* The runtime starts.                                                      *)
LEMMA ActivateStep ==
    ASSUME Inv, NEW a \in Attempts, Activate(a)
    PROVE  Inv'
<1> USE DEF Activate, Gets, Alive
<1>0. TypeOK /\ Alive(a) /\ DispatchInv(a) /\ SentInv(a)
  BY DEF Inv, Local, Alive
<1>m. Message("WORKER_READY", 0) \in WorkerToApi
  <2>1. 0 \in 0..MaxRequests
    BY AttemptsAssumption
  <2> QED BY <2>1, MessageTypes
<1>1. /\ toWorker' \in [Attempts -> Seq(ApiToWorker)]
      /\ \A b \in Attempts : b # a => toWorker'[b] = toWorker[b]
      /\ \A i \in 1..Len(toWorker'[a]) :
            i + 1 \in 1..Len(toWorker[a]) /\ toWorker'[a][i] = toWorker[a][i + 1]
      /\ 1 \in 1..Len(toWorker[a])
      /\ Head(toWorker[a]) = toWorker[a][1]
  BY <1>0, Takes
<1>2. toManager' \in [Attempts -> Seq(WorkerToApi)]
  BY <1>0, <1>m, Tells
<1>3. TypeOK'
  BY <1>0, <1>1, <1>2 DEF TypeOK, Take, ledgerVars, managerVars, workerVars
<1>4. DispatchInv(a)'
  BY <1>0, <1>1 DEF TypeOK, Take, DispatchInv, Dispatched, ledgerVars, managerVars, workerVars
<1>5. SentInv(a)'
  BY <1>0, <1>1 DEF TypeOK, Take, SentInv, DispatchInv, ledgerVars, managerVars, workerVars
<1>6. /\ worker'[a] # "none" /\ UNCHANGED <<ledgerVars, row, managerVars>>
      /\ \A b \in Attempts : b # a =>
            /\ toWorker'[b] = toWorker[b] /\ worker'[b] = worker[b]
            /\ ordinal'[b] = ordinal[b] /\ sent'[b] = sent[b]
  BY <1>0, <1>1 DEF TypeOK, Take, ledgerVars, managerVars, workerVars
<1> QED BY <1>0, <1>3, <1>4, <1>5, <1>6, WorkerFrame

(* The job is accepted.                                                     *)
LEMMA InitializeStep ==
    ASSUME Inv, NEW a \in Attempts, Initialize(a)
    PROVE  Inv'
<1> USE DEF Initialize, Gets, Alive
<1>0. TypeOK /\ Alive(a) /\ DispatchInv(a) /\ SentInv(a)
  BY DEF Inv, Local, Alive
<1>m. Message("JOB_ACCEPTED", 0) \in WorkerToApi
  <2>1. 0 \in 0..MaxRequests
    BY AttemptsAssumption
  <2> QED BY <2>1, MessageTypes
<1>1. /\ toWorker' \in [Attempts -> Seq(ApiToWorker)]
      /\ \A b \in Attempts : b # a => toWorker'[b] = toWorker[b]
      /\ \A i \in 1..Len(toWorker'[a]) :
            i + 1 \in 1..Len(toWorker[a]) /\ toWorker'[a][i] = toWorker[a][i + 1]
      /\ 1 \in 1..Len(toWorker[a])
      /\ Head(toWorker[a]) = toWorker[a][1]
  BY <1>0, Takes
<1>2. toManager' \in [Attempts -> Seq(WorkerToApi)]
  BY <1>0, <1>m, Tells
<1>3. TypeOK'
  BY <1>0, <1>1, <1>2 DEF TypeOK, Take, ledgerVars, managerVars, workerVars
<1>4. DispatchInv(a)'
  BY <1>0, <1>1 DEF TypeOK, Take, DispatchInv, Dispatched, ledgerVars, managerVars, workerVars
<1>5. SentInv(a)'
  BY <1>0, <1>1 DEF TypeOK, Take, SentInv, DispatchInv, ledgerVars, managerVars, workerVars
<1>6. /\ worker'[a] # "none" /\ UNCHANGED <<ledgerVars, row, managerVars>>
      /\ \A b \in Attempts : b # a =>
            /\ toWorker'[b] = toWorker[b] /\ worker'[b] = worker[b]
            /\ ordinal'[b] = ordinal[b] /\ sent'[b] = sent[b]
  BY <1>0, <1>1 DEF TypeOK, Take, ledgerVars, managerVars, workerVars
<1> QED BY <1>0, <1>3, <1>4, <1>5, <1>6, WorkerFrame

(* The command it takes was recorded.                                       *)
LEMMA BeginRecoveryStep ==
    ASSUME Inv, NEW a \in Attempts, BeginRecovery(a)
    PROVE  Inv'
<1> USE DEF BeginRecovery, Gets, Alive
<1>0. TypeOK /\ Alive(a) /\ DispatchInv(a) /\ SentInv(a)
  BY DEF Inv, Local, Alive
<1>m. Message("WORKER_ERROR", 0) \in WorkerToApi
  <2>1. 0 \in 0..MaxRequests
    BY AttemptsAssumption
  <2> QED BY <2>1, MessageTypes
<1>1. /\ toWorker' \in [Attempts -> Seq(ApiToWorker)]
      /\ \A b \in Attempts : b # a => toWorker'[b] = toWorker[b]
      /\ \A i \in 1..Len(toWorker'[a]) :
            i + 1 \in 1..Len(toWorker[a]) /\ toWorker'[a][i] = toWorker[a][i + 1]
      /\ 1 \in 1..Len(toWorker[a])
      /\ Head(toWorker[a]) = toWorker[a][1]
  BY <1>0, Takes
<1>2. toManager' \in [Attempts -> Seq(WorkerToApi)]
  <2>1. CASE Tell(a, Message("WORKER_ERROR", 0))
    BY <1>0, <1>m, <2>1, Tells
  <2>2. CASE toManager' = toManager
    BY <1>0, <2>2 DEF TypeOK
  <2> QED BY <2>1, <2>2
<1>3. TypeOK'
  BY <1>0, <1>1, <1>2 DEF TypeOK, Take, ledgerVars, managerVars, workerVars
<1>4. DispatchInv(a)'
  BY <1>0, <1>1 DEF TypeOK, Take, DispatchInv, Dispatched, ledgerVars, managerVars, workerVars
<1>5. SentInv(a)'
  BY <1>0, <1>1 DEF TypeOK, Take, SentInv, DispatchInv, ledgerVars, managerVars, workerVars
<1>6. /\ worker'[a] # "none" /\ UNCHANGED <<ledgerVars, row, managerVars>>
      /\ \A b \in Attempts : b # a =>
            /\ toWorker'[b] = toWorker[b] /\ worker'[b] = worker[b]
            /\ ordinal'[b] = ordinal[b] /\ sent'[b] = sent[b]
  BY <1>0, <1>1 DEF TypeOK, Take, ledgerVars, managerVars, workerVars
<1> QED BY <1>0, <1>3, <1>4, <1>5, <1>6, WorkerFrame

(* The acknowledged request was recorded.                                   *)
LEMMA AcknowledgeStep ==
    ASSUME Inv, NEW a \in Attempts, Acknowledge(a)
    PROVE  Inv'
<1> USE DEF Acknowledge, Gets, Alive
<1>0. TypeOK /\ Alive(a) /\ DispatchInv(a) /\ SentInv(a)
  BY DEF Inv, Local, Alive
<1>1. /\ toWorker' \in [Attempts -> Seq(ApiToWorker)]
      /\ \A b \in Attempts : b # a => toWorker'[b] = toWorker[b]
      /\ \A i \in 1..Len(toWorker'[a]) :
            i + 1 \in 1..Len(toWorker[a]) /\ toWorker'[a][i] = toWorker[a][i + 1]
      /\ 1 \in 1..Len(toWorker[a])
      /\ Head(toWorker[a]) = toWorker[a][1]
  BY <1>0, Takes
<1>2. toManager' \in [Attempts -> Seq(WorkerToApi)]
  BY <1>0 DEF TypeOK
<1>3. TypeOK'
  BY <1>0, <1>1, <1>2 DEF TypeOK, Take, ledgerVars, managerVars, workerVars
<1>4. DispatchInv(a)'
  BY <1>0, <1>1 DEF TypeOK, Take, DispatchInv, Dispatched, ledgerVars, managerVars, workerVars
<1>5. SentInv(a)'
  BY <1>0, <1>1 DEF TypeOK, Take, SentInv, DispatchInv, ledgerVars, managerVars, workerVars
<1>6. /\ worker'[a] # "none" /\ UNCHANGED <<ledgerVars, row, managerVars>>
      /\ \A b \in Attempts : b # a =>
            /\ toWorker'[b] = toWorker[b] /\ worker'[b] = worker[b]
            /\ ordinal'[b] = ordinal[b] /\ sent'[b] = sent[b]
  BY <1>0, <1>1 DEF TypeOK, Take, ledgerVars, managerVars, workerVars
<1> QED BY <1>0, <1>3, <1>4, <1>5, <1>6, WorkerFrame

(* A late acknowledgement changes nothing.                                  *)
LEMMA RejectAckStep ==
    ASSUME Inv, NEW a \in Attempts, RejectAck(a)
    PROVE  Inv'
<1> USE DEF RejectAck, Gets, Alive
<1>0. TypeOK /\ Alive(a) /\ DispatchInv(a) /\ SentInv(a)
  BY DEF Inv, Local, Alive
<1>m. Message("WORKER_ERROR", 0) \in WorkerToApi
  <2>1. 0 \in 0..MaxRequests
    BY AttemptsAssumption
  <2> QED BY <2>1, MessageTypes
<1>1. /\ toWorker' \in [Attempts -> Seq(ApiToWorker)]
      /\ \A b \in Attempts : b # a => toWorker'[b] = toWorker[b]
      /\ \A i \in 1..Len(toWorker'[a]) :
            i + 1 \in 1..Len(toWorker[a]) /\ toWorker'[a][i] = toWorker[a][i + 1]
      /\ 1 \in 1..Len(toWorker[a])
      /\ Head(toWorker[a]) = toWorker[a][1]
  BY <1>0, Takes
<1>2. toManager' \in [Attempts -> Seq(WorkerToApi)]
  BY <1>0, <1>m, Tells
<1>3. TypeOK'
  BY <1>0, <1>1, <1>2 DEF TypeOK, Take, ledgerVars, managerVars, workerVars
<1>4. DispatchInv(a)'
  BY <1>0, <1>1 DEF TypeOK, Take, DispatchInv, Dispatched, ledgerVars, managerVars, workerVars
<1>5. SentInv(a)'
  BY <1>0, <1>1 DEF TypeOK, Take, SentInv, DispatchInv, ledgerVars, managerVars, workerVars
<1>6. /\ worker'[a] # "none" /\ UNCHANGED <<ledgerVars, row, managerVars>>
      /\ \A b \in Attempts : b # a =>
            /\ toWorker'[b] = toWorker[b] /\ worker'[b] = worker[b]
            /\ ordinal'[b] = ordinal[b] /\ sent'[b] = sent[b]
  BY <1>0, <1>1 DEF TypeOK, Take, ledgerVars, managerVars, workerVars
<1> QED BY <1>0, <1>3, <1>4, <1>5, <1>6, WorkerFrame

(* The next ordinal is asked for.                                           *)
LEMMA RequestGateStep ==
    ASSUME Inv, NEW a \in Attempts, RequestGate(a)
    PROVE  Inv'
<1> USE DEF RequestGate
<1>0. TypeOK /\ Alive(a) /\ DispatchInv(a) /\ SentInv(a)
  BY DEF Inv, Local, Alive
<1>2. toManager' \in [Attempts -> Seq(WorkerToApi)]
  <2>1. ordinal'[a] \in 0..MaxRequests
    BY <1>0, AttemptsAssumption DEF TypeOK
  <2>2. Message("RECOVERY_REQUEST_GATE", ordinal'[a]) \in WorkerToApi
    BY <2>1, MessageTypes
  <2> QED BY <1>0, <2>2, Tells
<1>3. TypeOK'
  <2>1. ordinal' \in [Attempts -> 0..MaxRequests]
    BY <1>0, AttemptsAssumption DEF TypeOK
  <2> QED BY <1>0, <1>2, <2>1 DEF TypeOK, ledgerVars, managerVars, workerVars
<1>4. DispatchInv(a)'
  BY <1>0 DEF TypeOK, DispatchInv, Dispatched, ledgerVars, managerVars, workerVars
<1>5. SentInv(a)'
  BY <1>0, AttemptsAssumption DEF TypeOK, SentInv, ledgerVars, managerVars, workerVars
<1>6. /\ worker'[a] # "none" /\ UNCHANGED <<ledgerVars, row, managerVars>>
      /\ \A b \in Attempts : b # a =>
            /\ toWorker'[b] = toWorker[b] /\ worker'[b] = worker[b]
            /\ ordinal'[b] = ordinal[b] /\ sent'[b] = sent[b]
  BY <1>0 DEF TypeOK, ledgerVars, managerVars, workerVars
<1> QED BY <1>0, <1>3, <1>4, <1>5, <1>6, WorkerFrame

(* A gate that times out lets nothing go.                                   *)
LEMMA AckTimeoutStep ==
    ASSUME Inv, NEW a \in Attempts, AckTimeout(a)
    PROVE  Inv'
<1> USE DEF AckTimeout
<1>0. TypeOK /\ Alive(a) /\ DispatchInv(a) /\ SentInv(a)
  BY DEF Inv, Local, Alive
<1>2. toManager' \in [Attempts -> Seq(WorkerToApi)]
  BY <1>0 DEF TypeOK
<1>3. TypeOK'
  BY <1>0, <1>2 DEF TypeOK, ledgerVars, managerVars, workerVars
<1>4. DispatchInv(a)'
  BY <1>0 DEF TypeOK, DispatchInv, Dispatched, ledgerVars, managerVars, workerVars
<1>5. SentInv(a)'
  BY <1>0, AttemptsAssumption DEF TypeOK, SentInv, ledgerVars, managerVars, workerVars
<1>6. /\ worker'[a] # "none" /\ UNCHANGED <<ledgerVars, row, managerVars>>
      /\ \A b \in Attempts : b # a =>
            /\ toWorker'[b] = toWorker[b] /\ worker'[b] = worker[b]
            /\ ordinal'[b] = ordinal[b] /\ sent'[b] = sent[b]
  BY <1>0 DEF TypeOK, ledgerVars, managerVars, workerVars
<1> QED BY <1>0, <1>3, <1>4, <1>5, <1>6, WorkerFrame

(* The granted request leaves.                                              *)
LEMMA SendRequestStep ==
    ASSUME Inv, NEW a \in Attempts, SendRequest(a)
    PROVE  Inv'
<1> USE DEF SendRequest
<1>0. TypeOK /\ Alive(a) /\ DispatchInv(a) /\ SentInv(a)
  BY DEF Inv, Local, Alive
<1>2. toManager' \in [Attempts -> Seq(WorkerToApi)]
  BY <1>0 DEF TypeOK
<1>3. TypeOK'
  <2>1. sent[a] + 1 \in 0..MaxRequests
    BY <1>0, AttemptsAssumption DEF TypeOK, SentInv
  <2>2. sent' \in [Attempts -> 0..MaxRequests]
    BY <1>0, <2>1 DEF TypeOK
  <2> QED BY <1>0, <1>2, <2>2 DEF TypeOK, ledgerVars, managerVars, workerVars
<1>4. DispatchInv(a)'
  BY <1>0 DEF TypeOK, DispatchInv, Dispatched, ledgerVars, managerVars, workerVars
<1>5. SentInv(a)'
  BY <1>0, AttemptsAssumption DEF TypeOK, SentInv, ledgerVars, managerVars, workerVars
<1>6. /\ worker'[a] # "none" /\ UNCHANGED <<ledgerVars, row, managerVars>>
      /\ \A b \in Attempts : b # a =>
            /\ toWorker'[b] = toWorker[b] /\ worker'[b] = worker[b]
            /\ ordinal'[b] = ordinal[b] /\ sent'[b] = sent[b]
  BY <1>0 DEF TypeOK, ledgerVars, managerVars, workerVars
<1> QED BY <1>0, <1>3, <1>4, <1>5, <1>6, WorkerFrame

(* The result is told.                                                      *)
LEMMA EndRecoveryStep ==
    ASSUME Inv, NEW a \in Attempts, EndRecovery(a)
    PROVE  Inv'
<1> USE DEF EndRecovery
<1>0. TypeOK /\ Alive(a) /\ DispatchInv(a) /\ SentInv(a)
  BY DEF Inv, Local, Alive
<1>2. toManager' \in [Attempts -> Seq(WorkerToApi)]
  <2>1. PICK m \in {Result("ROLLBACK_VERIFIED"), Result("CLEANUP_FAILED"), Message("WORKER_ERROR", 0)} :
           Tell(a, m)
    OBVIOUS
  <2>2. 0 \in 0..MaxRequests /\ "ROLLBACK_VERIFIED" \in Outcomes /\ "CLEANUP_FAILED" \in Outcomes
    BY AttemptsAssumption DEF Outcomes
  <2>3. m \in WorkerToApi
    BY <2>1, <2>2, MessageTypes
  <2> QED BY <1>0, <2>1, <2>3, Tells
<1>3. TypeOK'
  BY <1>0, <1>2 DEF TypeOK, ledgerVars, managerVars, workerVars
<1>4. DispatchInv(a)'
  BY <1>0 DEF TypeOK, DispatchInv, Dispatched, ledgerVars, managerVars, workerVars
<1>5. SentInv(a)'
  BY <1>0, AttemptsAssumption DEF TypeOK, SentInv, ledgerVars, managerVars, workerVars
<1>6. /\ worker'[a] # "none" /\ UNCHANGED <<ledgerVars, row, managerVars>>
      /\ \A b \in Attempts : b # a =>
            /\ toWorker'[b] = toWorker[b] /\ worker'[b] = worker[b]
            /\ ordinal'[b] = ordinal[b] /\ sent'[b] = sent[b]
  BY <1>0 DEF TypeOK, ledgerVars, managerVars, workerVars
<1> QED BY <1>0, <1>3, <1>4, <1>5, <1>6, WorkerFrame

(* A signal only sets the flag.                                             *)
LEMMA SignalWorkerStep ==
    ASSUME Inv, NEW a \in Attempts, SignalWorker(a)
    PROVE  Inv'
<1> USE DEF SignalWorker
<1>0. TypeOK /\ Alive(a) /\ DispatchInv(a) /\ SentInv(a)
  BY DEF Inv, Local, Alive
<1>2. toManager' \in [Attempts -> Seq(WorkerToApi)]
  BY <1>0 DEF TypeOK
<1>3. TypeOK'
  BY <1>0, <1>2 DEF TypeOK, ledgerVars, managerVars, workerVars
<1>4. DispatchInv(a)'
  BY <1>0 DEF TypeOK, DispatchInv, Dispatched, ledgerVars, managerVars, workerVars
<1>5. SentInv(a)'
  BY <1>0, AttemptsAssumption DEF TypeOK, SentInv, ledgerVars, managerVars, workerVars
<1>6. /\ worker'[a] # "none" /\ UNCHANGED <<ledgerVars, row, managerVars>>
      /\ \A b \in Attempts : b # a =>
            /\ toWorker'[b] = toWorker[b] /\ worker'[b] = worker[b]
            /\ ordinal'[b] = ordinal[b] /\ sent'[b] = sent[b]
  BY <1>0 DEF TypeOK, ledgerVars, managerVars, workerVars
<1> QED BY <1>0, <1>3, <1>4, <1>5, <1>6, WorkerFrame

(* A process that is gone sends nothing.                                    *)
LEMMA ExitStep ==
    ASSUME Inv, NEW a \in Attempts, Alive(a), Exit(a)
    PROVE  Inv'
<1>0. TypeOK /\ DispatchInv(a) /\ SentInv(a)
  BY DEF Inv, Local
<1>1. <<>> \in Seq(ApiToWorker) /\ Len(<<>>) = 0
  OBVIOUS
<1>2. TypeOK'
  BY <1>0, <1>1 DEF Exit, TypeOK, ledgerVars, managerVars
<1>3. DispatchInv(a)'
  BY <1>0, <1>1 DEF Exit, TypeOK, DispatchInv, Dispatched, ledgerVars
<1>4. SentInv(a)'
  BY <1>0 DEF Exit, TypeOK, SentInv, ledgerVars
<1>5. /\ worker'[a] # "none" /\ UNCHANGED <<ledgerVars, row, managerVars>>
      /\ \A b \in Attempts : b # a =>
            /\ toWorker'[b] = toWorker[b] /\ worker'[b] = worker[b]
            /\ ordinal'[b] = ordinal[b] /\ sent'[b] = sent[b]
  BY <1>0 DEF Exit, TypeOK
<1> QED BY <1>0, <1>2, <1>3, <1>4, <1>5, WorkerFrame

(* What a worker that was told to stop has not read is dropped.             *)
LEMMA StopWorkerStep ==
    ASSUME Inv, NEW a \in Attempts, StopWorker(a)
    PROVE  Inv'
<1>0. TypeOK /\ Alive(a) /\ DispatchInv(a) /\ SentInv(a)
  BY DEF Inv, Local, StopWorker, ToldToStop, Gets
<1>1. <<>> \in Seq(ApiToWorker) /\ Len(<<>>) = 0
  OBVIOUS
<1>2. TypeOK'
  BY <1>0, <1>1 DEF StopWorker, TypeOK, ledgerVars, managerVars
<1>3. DispatchInv(a)'
  BY <1>0, <1>1 DEF StopWorker, TypeOK, DispatchInv, Dispatched, ledgerVars
<1>4. SentInv(a)'
  BY <1>0 DEF StopWorker, TypeOK, SentInv, ledgerVars
<1> QED BY <1>0, <1>2, <1>3, <1>4, WorkerFrame DEF StopWorker, TypeOK, Alive

-------------------------------------------------------------------------------
(* Steps that relate attempts                                               *)

(* The guards of reserve keep one unresolved attempt per case.              *)
LEMMA ReserveStep ==
    ASSUME Inv, NEW a \in Attempts, Reserve(a)
    PROVE  Inv'
<1> USE DEF Reserve
<1>0. TypeOK /\ Local(a) /\ ControllerInv /\ worker[a] = "none" /\ custody[a] = "none"
  BY DEF Inv, Local, CallInv, CustodyInv, VerdictInv, Open, TypeOK
<1>1. TypeOK'
  BY <1>0 DEF TypeOK, Phases, Summaries, Undispatched, workerVars
<1>2. Local(a)'
  BY <1>0 DEF TypeOK, Local, CallInv, CustodyInv, RowInv, VerdictInv, DispatchInv, SentInv,
              Connected, Open, Alive, Dispatched, terminal, Undispatched, workerVars
<1>3. ASSUME NEW b \in Attempts, b # a PROVE Local(b)'
  BY <1>0, <1>3, Frame DEF Inv, TypeOK, workerVars
<1>4. CaseInv'
  BY <1>0 DEF Inv, CaseInv, PriorAttemptsResolved, Resolved, TypeOK
<1>5. ControllerInv'
  <2>1. \A b \in Attempts : b # a =>
           phase'[b] = phase[b] /\ controller'[b] = controller[b] /\ call'[b] = call[b]
    BY <1>0 DEF TypeOK
  <2>2. controller'[a] = incarnation /\ incarnation \in Nat /\ incarnation <= incarnation
    BY <1>0, AttemptsAssumption DEF TypeOK
  <2>3. call'[a] = "accepted"
    BY <1>0 DEF TypeOK
  <2>4. \A b \in Attempts : call'[b] \notin {"created", "pending"}
    BY <2>1, <2>3 DEF NotStarting
  <2>5. \A b \in Attempts : controller'[b] <= incarnation
    BY <1>0, <2>1, <2>2 DEF ControllerInv
  <2>6. \A b \in Attempts : Open(b)' => controller'[b] = incarnation
    BY <1>0, <2>1, <2>2 DEF ControllerInv, Open
  <2> QED BY <2>4, <2>5, <2>6 DEF ControllerInv
<1>6. UnknownStopsDispatch'
  BY <1>0 DEF Inv, UnknownStopsDispatch, TypeOK, workerVars
<1> QED BY <1>1, <1>2, <1>3, <1>4, <1>5, <1>6 DEF Inv

(* A recovery starts when no outcome is unknown.                            *)
LEMMA StartRecoveryStep ==
    ASSUME Inv, NEW a \in Attempts, StartRecovery(a)
    PROVE  Inv'
<1> USE DEF StartRecovery, Await, Owned
<1>0. TypeOK /\ Local(a) /\ ControllerInv
  BY DEF Inv
<1>1. TypeOK'
  BY <1>0 DEF TypeOK, RowStates, ledgerVars, workerVars
<1>2. Local(a)'
  BY <1>0 DEF TypeOK, Local, CallInv, CustodyInv, RowInv, VerdictInv, DispatchInv, SentInv,
              Connected, Open, Alive, Dispatched, terminal, Undispatched, ledgerVars, workerVars
<1>3. ASSUME NEW b \in Attempts, b # a PROVE Local(b)'
  BY <1>0, <1>3, Frame DEF Inv, TypeOK, ledgerVars, workerVars
<1>4. CaseInv' /\ UnknownStopsDispatch'
  BY DEF Inv, CaseInv, UnknownStopsDispatch, ledgerVars, workerVars
<1>5. \A b \in Attempts : phase[b] # "UNKNOWN"
  BY DEF assertCustodyResolved, unresolved
<1>6. ControllerInv'
  BY <1>0, <1>5 DEF ControllerInv, Open, ledgerVars
<1> QED BY <1>1, <1>2, <1>3, <1>4, <1>6 DEF Inv

(* So there is none of an earlier dashboard when the process starts.        *)
LEMMA ForkStep ==
    ASSUME Inv, NEW a \in Attempts, NEW recorded \in BOOLEAN, Fork(a, recorded)
    PROVE  Inv'
<1> USE DEF Fork, Owned
<1>0. TypeOK /\ Local(a) /\ ControllerInv
  BY DEF Inv
<1>1. TypeOK'
  <2>1. 0 \in 0..MaxRequests
    BY AttemptsAssumption
  <2>2. Message("WORKER_BOOTSTRAP_READY", 0) \in WorkerToApi
    BY <2>1, MessageTypes
  <2>3. (IF recorded THEN <<Message("WORKER_BOOTSTRAP_READY", 0)>> ELSE <<>>) \in Seq(WorkerToApi)
    BY <2>2
  <2>4. toManager' \in [Attempts -> Seq(WorkerToApi)]
    BY <1>0, <2>3 DEF TypeOK
  <2> QED BY <1>0, <2>4 DEF TypeOK, ledgerVars
<1>2. Local(a)'
  <2>1. call'[a] \in {"running", "failed"} /\ custody'[a] = "held" /\ worker'[a] = "booting"
    BY <1>0 DEF TypeOK
  <2>2. row'[a] = "CREATED" /\ phase'[a] = phase[a] /\ phase[a] \in Undispatched /\ Connected(a)'
    BY <1>0 DEF TypeOK, Local, CallInv, Connected, ledgerVars
  <2>3. CallInv(a)' /\ CustodyInv(a)'
    BY <2>1, <2>2 DEF CallInv, CustodyInv, Open, terminal, Undispatched
  <2>4. RowInv(a)' /\ VerdictInv(a)'
    BY <2>1, <2>2 DEF RowInv, VerdictInv, Undispatched
  <2>5. DispatchInv(a)' /\ SentInv(a)'
    BY <1>0, <2>1, <2>2 DEF TypeOK, Local, CallInv, DispatchInv, SentInv, Dispatched, ledgerVars
  <2> QED BY <2>3, <2>4, <2>5 DEF Local
<1>3. ASSUME NEW b \in Attempts, b # a PROVE Local(b)'
  BY <1>0, <1>3, Frame DEF Inv, TypeOK, ledgerVars
<1>4. CaseInv'
  BY DEF Inv, CaseInv, ledgerVars
<1>5. ControllerInv'
  <2>1. \A b \in Attempts : call'[b] \in {"created", "pending"} => call[b] \in {"created", "pending"}
    BY <1>0 DEF TypeOK
  <2> QED BY <1>0, <2>1 DEF ControllerInv, Open, ledgerVars
<1>6. \A b \in Attempts : phase[b] = "UNKNOWN" => controller[b] = incarnation
  BY <1>0 DEF ControllerInv
<1>7. \A b \in Attempts : controller[b] \in Nat /\ controller[b] <= incarnation /\ incarnation \in Nat
  BY <1>0, AttemptsAssumption DEF ControllerInv, TypeOK
<1>8. UnknownStopsDispatch'
  BY <1>6, <1>7 DEF UnknownStopsDispatch, ledgerVars
<1> QED BY <1>1, <1>2, <1>3, <1>4, <1>5, <1>8 DEF Inv

(* A result is recorded when every worker is gone and no row is in doubt.   *)
LEMMA FinishRecoveryStep ==
    ASSUME Inv, NEW a \in Attempts, NEW confirmed \in BOOLEAN, FinishRecovery(a, confirmed)
    PROVE  Inv'
<1> USE DEF FinishRecovery, Await, Owned
<1>0. TypeOK /\ Local(a) /\ Open(a) /\ custody[a] = "none" /\ row[a] = "RETAINED"
  BY DEF Inv, Local, CallInv, Drained
<1>1. PICK verdict \in {"RESTORATION_VERIFIED", "FAILED"} : phase' = [phase EXCEPT ![a] = verdict]
  OBVIOUS
<1>2. TypeOK'
  BY <1>0, <1>1 DEF TypeOK, Phases, Summaries, terminal, workerVars
<1>3. Local(a)'
  BY <1>0, <1>1 DEF TypeOK, Local, CallInv, CustodyInv, RowInv, VerdictInv, DispatchInv, SentInv,
              Connected, Open, Alive, Dispatched, terminal, Undispatched, workerVars
<1>4. ASSUME NEW b \in Attempts, b # a PROVE Local(b)'
  BY <1>0, <1>1, <1>4, Frame DEF Inv, TypeOK, workerVars
<1>5. CaseInv'
  <2>1. phase[a] \notin Resolved \cup {"none"}
    BY <1>0 DEF Open, terminal, Resolved
  <2>2. \A b \in Attempts : b # a => phase'[b] = phase[b]
    BY <1>0, <1>1 DEF TypeOK
  <2> QED BY <2>1, <2>2 DEF Inv, CaseInv, Resolved
<1>6. ControllerInv'
  BY <1>0, <1>1 DEF Inv, ControllerInv, Open, terminal, TypeOK
<1>7. UnknownStopsDispatch'
  BY <1>0, <1>1 DEF Inv, UnknownStopsDispatch, TypeOK, workerVars
<1> QED BY <1>2, <1>3, <1>4, <1>5, <1>6, <1>7 DEF Inv

(* What interrupt records is true of the worker, and it leaves no attempt   *)
(* of a later dashboard behind.                                             *)
LEMMA InterruptedStep ==
    ASSUME Inv, NEW a \in Attempts, Open(a), custody[a] = "none", InterruptAndProject(a),
           call' = [call EXCEPT ![a] = "none"],
           \A b \in Attempts \ {a} : call[b] \notin {"created", "pending"},
           UNCHANGED <<server, incarnation, shuttingDown, failures, outcome, step, cancelled,
                       custody, lost, toManager, toWorker, workerVars>>
    PROVE  Inv'
<1> USE DEF InterruptAndProject
<1>0. TypeOK /\ Local(a) /\ ControllerInv
  BY DEF Inv
<1>1. PICK verdict \in {"NOT_EXECUTED", "UNKNOWN"} :
         /\ phase' = [phase EXCEPT ![a] = verdict]
         /\ verdict = "NOT_EXECUTED" => phase[a] \in Undispatched /\ row[a] \in {"none", "RETAINED"}
  BY DEF InterruptedPhase
<1>2. TypeOK'
  BY <1>0, <1>1 DEF TypeOK, Phases, Summaries, terminal, workerVars
<1>3. Local(a)'
  BY <1>0, <1>1 DEF TypeOK, Local, CallInv, CustodyInv, RowInv, VerdictInv, DispatchInv, SentInv,
              Connected, Open, Alive, Dispatched, terminal, Undispatched, workerVars
<1>4. ASSUME NEW b \in Attempts, b # a PROVE Local(b)'
  BY <1>0, <1>1, <1>4, Frame DEF Inv, TypeOK, workerVars
<1>5. CaseInv'
  <2>1. phase[a] \notin Resolved \cup {"none"}
    BY DEF Open, terminal, Resolved
  <2>2. \A b \in Attempts : b # a => phase'[b] = phase[b]
    BY <1>0, <1>1 DEF TypeOK
  <2> QED BY <2>1, <2>2 DEF Inv, CaseInv, Resolved
<1>6. ControllerInv'
  <2>1. \A b \in Attempts : call'[b] \notin {"created", "pending"}
    BY <1>0 DEF TypeOK
  <2>2. \A b \in Attempts : Open(b)' => Open(b)
    BY <1>0, <1>1 DEF TypeOK, Open, terminal
  <2> QED BY <1>0, <2>1, <2>2 DEF ControllerInv
<1>7. \A b \in Attempts : controller[b] <= controller[a] /\ controller[b] \in Nat
  BY <1>0, AttemptsAssumption DEF ControllerInv, TypeOK
<1>8. UnknownStopsDispatch'
  BY <1>0, <1>1, <1>7 DEF Inv, UnknownStopsDispatch, TypeOK, workerVars
<1> QED BY <1>2, <1>3, <1>4, <1>5, <1>6, <1>8 DEF Inv

(* A failed attempt is interrupted once every worker is drained.            *)
LEMMA InterruptStep ==
    ASSUME Inv, NEW a \in Attempts, Interrupt(a)
    PROVE  Inv'
<1>1. Open(a) /\ custody[a] = "none"
  BY DEF Inv, Local, CallInv, Interrupt, Drained
<1>2. \A b \in Attempts \ {a} : call[b] \notin {"created", "pending"}
  BY DEF Interrupt, Owned, NotStarting
<1>3. /\ InterruptAndProject(a)
      /\ call' = [call EXCEPT ![a] = "none"]
      /\ UNCHANGED <<server, incarnation, shuttingDown, failures, outcome, step, cancelled,
                     custody, lost, toManager, toWorker, workerVars>>
  BY DEF Interrupt, Await
<1> QED BY <1>1, <1>2, <1>3, InterruptedStep

(* A dashboard that is starting makes no calls and has no processes.        *)
LEMMA ReconcileStep ==
    ASSUME Inv, NEW a \in Attempts, Reconcile(a)
    PROVE  Inv'
<1>1. \A b \in Attempts : call[b] = "none" /\ custody[b] = "none"
  BY DEF Inv, Local, CallInv, CustodyInv, Connected, Reconcile
<1>2. Open(a)
  BY DEF Reconcile, Stale, Open
<1>3. /\ InterruptAndProject(a)
      /\ UNCHANGED <<server, incarnation, shuttingDown, failures, outcome, step, cancelled,
                     custody, lost, toManager, toWorker, workerVars>>
  BY DEF Reconcile, managerVars
<1>4. call' = [call EXCEPT ![a] = "none"]
  BY <1>1 DEF Inv, TypeOK, Reconcile, managerVars
<1> QED BY <1>1, <1>2, <1>3, <1>4, InterruptedStep

-------------------------------------------------------------------------------
(* The dashboard process                                                    *)

(* A termination that fails is only noted.                                  *)
LEMMA TerminateOwnedStep ==
    ASSUME Inv, NEW a \in Attempts, TerminateOwned(a)
    PROVE  Inv'
<1>1. CASE Exit(a)
  BY <1>1, ExitStep DEF TerminateOwned
<1>2. CASE /\ failures' = TRUE
           /\ UNCHANGED <<ledgerVars, row, server, incarnation, shuttingDown, call, outcome, step,
                          cancelled, custody, lost, toManager, toWorker, workerVars>>
  <2>1. TypeOK'
    BY <1>2 DEF Inv, TypeOK, ledgerVars, workerVars
  <2>2. ASSUME NEW b \in Attempts PROVE Local(b)'
    BY <1>2, Frame DEF Inv, ledgerVars, workerVars
  <2>3. CaseInv' /\ ControllerInv' /\ UnknownStopsDispatch'
    BY <1>2, GlobalFrame DEF Inv, ledgerVars, workerVars
  <2> QED BY <2>1, <2>2, <2>3 DEF Inv
<1> QED BY <1>1, <1>2 DEF TerminateOwned

(* The shutdown flag concerns no attempt.                                   *)
LEMMA ShutdownStep ==
    ASSUME Inv, Shutdown
    PROVE  Inv'
<1>1. TypeOK'
  BY DEF Inv, Shutdown, TypeOK, ledgerVars, workerVars
<1>2. ASSUME NEW a \in Attempts PROVE Local(a)'
  BY Frame DEF Inv, Shutdown, TypeOK, ledgerVars, workerVars
<1>3. CaseInv' /\ ControllerInv' /\ UnknownStopsDispatch'
  BY GlobalFrame DEF Inv, Shutdown, ledgerVars, workerVars
<1> QED BY <1>1, <1>2, <1>3 DEF Inv

(* A crash ends every call and forgets every process.                       *)
LEMMA CrashStep ==
    ASSUME Inv, Crash
    PROVE  Inv'
<1> USE DEF Crash
<1>1. TypeOK'
  <2>1. toManager' \in [Attempts -> Seq(WorkerToApi)]
    OBVIOUS
  <2> QED BY <2>1 DEF Inv, TypeOK, ledgerVars, workerVars
<1>2. ASSUME NEW a \in Attempts PROVE Local(a)'
  BY DEF Inv, TypeOK, Local, CallInv, CustodyInv, RowInv, VerdictInv, DispatchInv, SentInv,
         Alive, Dispatched, ledgerVars, workerVars
<1>3. CaseInv' /\ UnknownStopsDispatch'
  BY DEF Inv, CaseInv, UnknownStopsDispatch, ledgerVars, workerVars
<1>4. ControllerInv'
  BY DEF Inv, ControllerInv, Open, ledgerVars
<1> QED BY <1>1, <1>2, <1>3, <1>4 DEF Inv

(* The next dashboard is newer than every attempt.                          *)
LEMMA RestartStep ==
    ASSUME Inv, Restart
    PROVE  Inv'
<1> USE DEF Restart
<1>1. TypeOK'
  BY AttemptsAssumption DEF Inv, ControllerInv, TypeOK, ledgerVars, workerVars
<1>2. ASSUME NEW a \in Attempts PROVE Local(a)'
  BY DEF Inv, TypeOK, Local, CallInv, CustodyInv, RowInv, VerdictInv, DispatchInv, SentInv,
         Connected, Alive, Dispatched, Open, ledgerVars, workerVars
<1>3. CaseInv' /\ UnknownStopsDispatch'
  BY DEF Inv, CaseInv, UnknownStopsDispatch, ledgerVars, workerVars
<1>4. ControllerInv'
  <2>1. \A a \in Attempts : call[a] = "none"
    BY DEF Inv, Local, CallInv, Connected
  <2>2. incarnation \in Nat /\ \A a \in Attempts : controller[a] \in Nat
    BY AttemptsAssumption DEF Inv, TypeOK
  <2> QED BY <2>1, <2>2 DEF Inv, ControllerInv, Open, ledgerVars
<1> QED BY <1>1, <1>2, <1>3, <1>4 DEF Inv

(* It serves when no attempt of another one is open.                        *)
LEMMA ServeStep ==
    ASSUME Inv, Serve
    PROVE  Inv'
<1> USE DEF Serve
<1>1. TypeOK'
  BY DEF Inv, TypeOK, ledgerVars, workerVars
<1>2. ASSUME NEW a \in Attempts PROVE Local(a)'
  BY DEF Inv, TypeOK, Local, CallInv, CustodyInv, RowInv, VerdictInv, DispatchInv, SentInv,
         Connected, Alive, Dispatched, Open, ledgerVars, workerVars
<1>3. CaseInv' /\ UnknownStopsDispatch'
  BY DEF Inv, CaseInv, UnknownStopsDispatch, ledgerVars, workerVars
<1>4. ControllerInv'
  BY DEF Inv, ControllerInv, Stale, Open, ledgerVars
<1> QED BY <1>1, <1>2, <1>3, <1>4 DEF Inv

-------------------------------------------------------------------------------
(* The invariant                                                            *)

(* The first dashboard has no attempts.                                     *)
LEMMA InitInv == Init => Inv
<1> SUFFICES ASSUME Init PROVE Inv
  OBVIOUS
<1>1. TypeOK
  <2>1. /\ toManager \in [Attempts -> Seq(WorkerToApi)]
        /\ toWorker \in [Attempts -> Seq(ApiToWorker)]
    BY DEF Init
  <2>2. 0 \in 0..MaxRequests /\ 0 \in 0..MaxIncarnations /\ 1 \in 1..MaxIncarnations
    BY AttemptsAssumption
  <2>3. "none" \in Phases /\ "none" \in RowStates /\ "none" \in Summaries
    BY DEF Phases, RowStates, Summaries
  <2> QED BY <2>1, <2>2, <2>3 DEF Init, TypeOK
<1>2. ASSUME NEW a \in Attempts PROVE Local(a)
  BY DEF Init, Local, CallInv, CustodyInv, RowInv, VerdictInv, DispatchInv, SentInv, Alive,
         Dispatched
<1>3. CaseInv /\ UnknownStopsDispatch
  BY DEF Init, CaseInv, UnknownStopsDispatch
<1>4. ControllerInv
  BY DEF Init, ControllerInv, Open
<1> QED BY <1>1, <1>2, <1>3, <1>4 DEF Inv

(* The scan service writes nothing but summaries.                           *)
LEMMA ApprovalsStep ==
    ASSUME Inv,
           \/ RecoverInterruptedExecutions
           \/ \E a \in Attempts : \E cleanupUnresolved \in BOOLEAN : FinishExecution(a, cleanupUnresolved)
    PROVE  Inv'
<1>1. /\ summary' \in [Attempts -> Summaries]
      /\ UNCHANGED <<phase, gates, controller, row, managerVars, toManager, toWorker, workerVars>>
  <2>1. summary \in [Attempts -> Summaries]
    BY DEF Inv, TypeOK
  <2>2. "CLEANUP_REQUIRED" \in Summaries /\ "ROLLBACK_VERIFIED" \in Summaries
    BY DEF Summaries
  <2>3. CASE RecoverInterruptedExecutions
    BY <2>1, <2>2, <2>3 DEF RecoverInterruptedExecutions
  <2>4. ASSUME NEW a \in Attempts, NEW cleanupUnresolved \in BOOLEAN,
               FinishExecution(a, cleanupUnresolved)
        PROVE  /\ summary' \in [Attempts -> Summaries]
               /\ UNCHANGED <<phase, gates, controller, row, managerVars, toManager, toWorker,
                              workerVars>>
    BY <2>1, <2>2, <2>4 DEF FinishExecution
  <2> QED BY <2>3, <2>4
<1> USE <1>1 DEF managerVars, workerVars
<1>2. TypeOK'
  BY DEF Inv, TypeOK
<1>3. ASSUME NEW b \in Attempts PROVE Local(b)'
  BY Frame DEF Inv
<1>4. CaseInv' /\ ControllerInv' /\ UnknownStopsDispatch'
  BY GlobalFrame DEF Inv
<1> QED BY <1>2, <1>3, <1>4 DEF Inv

(* Every step of the dashboard and of the workers keeps the invariant.      *)
LEMMA NextInv == Inv /\ [Next]_vars => Inv'
<1> SUFFICES ASSUME Inv, [Next]_vars PROVE Inv'
  OBVIOUS
<1>1. ASSUME NEW a \in Attempts, Reserve(a) PROVE Inv'
  BY <1>1, ReserveStep
<1>2. ASSUME NEW a \in Attempts, StartSteps(a) PROVE Inv'
  BY <1>2, StartRecoveryStep, RefuseRecoveryStep, RecordPendingStep, FailBeforeForkStep, ForkStep
  DEF StartSteps
<1>3. ASSUME NEW a \in Attempts, MessageSteps(a) PROVE Inv'
  BY <1>3, HandleBootstrapReadyStep, HandleReadyStep, HandleAcceptedStep, HandleGateStep,
     HandleResultStep, SettleWithErrorStep
  DEF MessageSteps
<1>4. ASSUME NEW a \in Attempts, EndSteps(a) PROVE Inv'
  BY <1>4, ObserveExitStep, ReleaseCustodyStep, FinishRecoveryStep, RejectResultStep, InterruptStep
  DEF EndSteps
<1>5. ASSUME NEW a \in Attempts, TerminateOwned(a) PROVE Inv'
  BY <1>5, TerminateOwnedStep
<1>6. ASSUME NEW a \in Attempts, Reconcile(a) PROVE Inv'
  BY <1>6, ReconcileStep
<1>7. ASSUME NEW a \in Attempts, WorkerSteps(a) PROVE Inv'
  <2>1. ASSUME ExitUnactivated(a) \/ ExitStopped(a) PROVE Inv'
    BY <2>1, ExitStep DEF ExitUnactivated, ExitStopped, ToldToStop, Gets
  <2> QED BY <1>7, <2>1, ActivateStep, InitializeStep, BeginRecoveryStep, RequestGateStep,
     AcknowledgeStep, AckTimeoutStep, RejectAckStep, SendRequestStep, EndRecoveryStep, StopWorkerStep
     DEF WorkerSteps
<1>8. ASSUME NEW a \in Attempts, SignalWorker(a) \/ WorkerDies(a) \/ LoseCustody(a) PROVE Inv'
  BY <1>8, SignalWorkerStep, ExitStep, LoseCustodyStep DEF WorkerDies
<1>9. ASSUME Shutdown \/ Crash \/ Restart \/ Serve PROVE Inv'
  BY <1>9, ShutdownStep, CrashStep, RestartStep, ServeStep
<1>10. ASSUME UNCHANGED vars PROVE Inv'
  <2> USE <1>10 DEF vars, ledgerVars, managerVars, workerVars
  <2>1. TypeOK'
    BY DEF Inv, TypeOK
  <2>2. ASSUME NEW a \in Attempts PROVE Local(a)'
    BY Frame DEF Inv
  <2>3. CaseInv' /\ ControllerInv' /\ UnknownStopsDispatch'
    BY GlobalFrame DEF Inv
  <2> QED BY <2>1, <2>2, <2>3 DEF Inv
<1> QED BY <1>1, <1>2, <1>3, <1>4, <1>5, <1>6, <1>7, <1>8, <1>9, <1>10, ApprovalsStep
        DEF Next, DashboardSteps

(* The inductive invariant holds in every state of the ledger, the          *)
(* dashboard and its workers (runRecovery, interrupt, reconcileStartup).    *)
THEOREM Invariance == Spec => []Inv
BY InitInv, NextInv, PTL DEF Spec

(* Every variable keeps its type: gate and beforeCleanupRequest never count *)
(* past the bound, and reconcileStartup gives only verdicts of the ledger.  *)
THEOREM TypeCorrect == Spec => []TypeOK
<1>1. Inv => TypeOK
  BY DEF Inv
<1> QED BY <1>1, Invariance, PTL

(* An attempt that interrupt recorded as NOT_EXECUTED never reaches its     *)
(* target, however many dashboards died around it.                          *)
THEOREM NotExecutedIsTrue == Spec => []NotExecutedMeansUntouched
<1>1. Inv => NotExecutedMeansUntouched
  BY DEF Inv, NotExecutedMeansUntouched, Local, RowInv, VerdictInv, DispatchInv, Dispatched
<1> QED BY <1>1, Invariance, PTL

(* No worker transmits a request that gate did not record before.           *)
THEOREM RequestsAreRecorded == Spec => []EveryRequestIsRecorded
<1>1. Inv => EveryRequestIsRecorded
  BY DEF Inv, EveryRequestIsRecorded, Local, SentInv
<1> QED BY <1>1, Invariance, PTL

(* reserve never lets two live workers of different attempts of one case    *)
(* exist, whatever the assignment of attempts to cases.                     *)
THEOREM WorkersExclude == Spec => []OneWorkerPerCase
<1>1. ASSUME Inv, NEW a \in Attempts, Alive(a)
      PROVE  phase[a] \notin Resolved \cup {"none"}
  BY <1>1 DEF Inv, Local, RowInv, VerdictInv, Alive, Resolved
<1>2. Inv => OneWorkerPerCase
  BY <1>1 DEF Inv, OneWorkerPerCase, CaseInv
<1> QED BY <1>2, Invariance, PTL

(* A verdict on the restoration is final: the worker it judges is gone and  *)
(* its resource is retained (drainCompletedWorkers before complete).        *)
THEOREM VerdictsAreFinal == Spec => []VerdictAfterCustody
<1>1. Inv => VerdictAfterCustody
  BY DEF Inv, VerdictAfterCustody, Local, RowInv, VerdictInv
<1> QED BY <1>1, Invariance, PTL

(* While an outcome is UNKNOWN no later dashboard starts a recovery worker  *)
(* (assertCustodyResolved).                                                 *)
THEOREM UnknownIsContained == Spec => []UnknownStopsDispatch
<1>1. Inv => UnknownStopsDispatch
  BY DEF Inv
<1> QED BY <1>1, Invariance, PTL

-------------------------------------------------------------------------------
(* The operator's summary                                                   *)

(* The summary agrees as long as attempts stay open.                        *)
LEMMA SummaryFrame ==
    ASSUME SummaryAgrees, summary' = summary,
           \A b \in Attempts : phase'[b] = phase[b] \/ (Open(b) /\ Open(b)')
    PROVE  SummaryAgrees'
BY DEF SummaryAgrees, Open, terminal

(* A verdict of an attempt comes with its summary, unless that has been     *)
(* taken from it.                                                           *)
LEMMA SummaryVerdict ==
    ASSUME TypeOK, SummaryAgrees, NEW a \in Attempts,
           NEW verdict \in terminal, NEW status \in Summaries \ {"RUNNING"},
           verdict = "RESTORATION_VERIFIED" => status = "ROLLBACK_VERIFIED",
           verdict = "FAILED" => status = "CLEANUP_FAILED",
           status = "ROLLBACK_VERIFIED" /\ a \notin ScanApprovals => verdict = "RESTORATION_VERIFIED",
           phase' = [phase EXCEPT ![a] = verdict],
           summary' = [summary EXCEPT ![a] = status]
    PROVE  SummaryAgrees'
<1>1. ASSUME NEW b \in Attempts, b # a PROVE phase'[b] = phase[b] /\ summary'[b] = summary[b]
  BY <1>1 DEF TypeOK
<1>2. phase'[a] = verdict /\ summary'[a] = status
  BY DEF TypeOK
<1> QED BY <1>1, <1>2 DEF SummaryAgrees

(* The scan service touches only approvals of its own scans, and only while *)
(* they say RUNNING, hence before any verdict.                              *)
LEMMA SummaryApprovals ==
    ASSUME TypeOK, SummaryAgrees,
           \/ RecoverInterruptedExecutions
           \/ \E a \in Attempts : \E cleanupUnresolved \in BOOLEAN : FinishExecution(a, cleanupUnresolved)
    PROVE  SummaryAgrees'
<1>1. phase' = phase
  BY DEF RecoverInterruptedExecutions, FinishExecution
<1>2. \A b \in Attempts : \/ summary'[b] = summary[b]
                          \/ b \in ScanApprovals /\ summary[b] = "RUNNING" /\ summary'[b] # "RUNNING"
  BY DEF RecoverInterruptedExecutions, FinishExecution, TypeOK
<1>3. {"RESTORATION_VERIFIED", "FAILED"} \subseteq terminal
  BY DEF terminal
<1> QED BY <1>1, <1>2, <1>3 DEF SummaryAgrees

(* Every step that gives a verdict writes the summary with it.              *)
LEMMA SummaryNext == Inv /\ SummaryAgrees /\ [Next]_vars => SummaryAgrees'
<1> SUFFICES ASSUME Inv, SummaryAgrees, [Next]_vars PROVE SummaryAgrees'
  OBVIOUS
<1>0. TypeOK
  BY DEF Inv
<1>1. ASSUME UNCHANGED ledgerVars PROVE SummaryAgrees'
  BY <1>1, SummaryFrame DEF ledgerVars
<1>2. ASSUME NEW a \in Attempts, Reserve(a) PROVE SummaryAgrees'
  BY <1>0, <1>2 DEF Reserve, SummaryAgrees, TypeOK, terminal
<1>3. ASSUME NEW a \in Attempts, Open(a), NEW to \in Phases \ (terminal \cup {"none"}),
             phase' = [phase EXCEPT ![a] = to], summary' = summary
      PROVE  SummaryAgrees'
  BY <1>0, <1>3, SummaryFrame DEF TypeOK, Open
<1>4. ASSUME NEW a \in Attempts, Open(a), InterruptAndProject(a) PROVE SummaryAgrees'
  <2> DEFINE status == IF summary[a] = "RUNNING" THEN "CLEANUP_FAILED" ELSE summary[a]
  <2>1. InterruptedPhase(a) \in {"NOT_EXECUTED", "UNKNOWN"}
    BY DEF InterruptedPhase
  <2>2. status \in Summaries \ {"RUNNING"}
    BY <1>0 DEF TypeOK, Summaries
  <2>3. a \notin ScanApprovals => status = "CLEANUP_FAILED"
    BY <1>4 DEF Open, SummaryAgrees
  <2>4. /\ phase' = [phase EXCEPT ![a] = InterruptedPhase(a)]
        /\ summary' = [summary EXCEPT ![a] = status]
    BY <1>0, <1>4 DEF InterruptAndProject, TypeOK
  <2> HIDE DEF status
  <2> QED BY <1>0, <2>1, <2>2, <2>3, <2>4, SummaryVerdict DEF terminal
<1>5. ASSUME NEW a \in Attempts, StartSteps(a) PROVE SummaryAgrees'
  <2>1. ASSUME RecordPending(a) PROVE SummaryAgrees'
    <3>1. Open(a)
      BY <2>1 DEF Inv, Local, CallInv, RecordPending
    <3>2. "WORKER_PENDING" \in Phases \ (terminal \cup {"none"})
      BY DEF Phases, Undispatched, terminal
    <3> QED BY <1>3, <2>1, <3>1, <3>2 DEF RecordPending
  <2> QED BY <1>1, <1>5, <2>1 DEF StartSteps, StartRecovery, RefuseRecovery, FailBeforeFork, Fork
<1>6. ASSUME NEW a \in Attempts, MessageSteps(a) PROVE SummaryAgrees'
  <2>1. CASE HandleBootstrapReady(a) \/ SettleWithError(a)
    BY <1>1, <2>1 DEF HandleBootstrapReady, SettleWithError
  <2>2. CASE HandleReady(a) \/ HandleAccepted(a) \/ HandleGate(a) \/ HandleResult(a)
    <3>1. Open(a)
      BY <2>2
      DEF Inv, Local, CallInv, HandleReady, HandleAccepted, HandleGate, HandleResult, Receives
    <3>2. PICK to \in {"WORKER_ACTIVATED", "DISPATCH_ARMED", "DISPATCH_ATTEMPTED", "RESULT_RECEIVED"} :
             phase' = [phase EXCEPT ![a] = to]
      BY <2>2 DEF HandleReady, HandleAccepted, HandleGate, Gate, HandleResult
    <3>3. summary' = summary
      BY <2>2 DEF HandleReady, HandleAccepted, HandleGate, Gate, HandleResult
    <3>4. to \in Phases \ (terminal \cup {"none"})
      BY <3>2 DEF Phases, Undispatched, terminal
    <3> QED BY <1>3, <3>1, <3>2, <3>3, <3>4
  <2> QED BY <1>6, <2>1, <2>2 DEF MessageSteps
<1>7. ASSUME NEW a \in Attempts, EndSteps(a) PROVE SummaryAgrees'
  <2>1. ASSUME NEW confirmed \in BOOLEAN, FinishRecovery(a, confirmed) PROVE SummaryAgrees'
    BY <1>0, <2>1, SummaryVerdict DEF FinishRecovery, terminal, Summaries
  <2>2. ASSUME Interrupt(a) PROVE SummaryAgrees'
    BY <1>4, <2>2 DEF Interrupt, Inv, Local, CallInv
  <2> QED BY <1>1, <1>7, <2>1, <2>2 DEF EndSteps, ObserveExit, ReleaseCustody, RejectResult
<1>8. ASSUME NEW a \in Attempts, TerminateOwned(a) \/ WorkerDies(a) \/ LoseCustody(a) \/ SignalWorker(a)
      PROVE  SummaryAgrees'
  BY <1>1, <1>8 DEF TerminateOwned, WorkerDies, LoseCustody, SignalWorker, Exit
<1>9. ASSUME NEW a \in Attempts, Reconcile(a) PROVE SummaryAgrees'
  BY <1>4, <1>9 DEF Reconcile, Stale, Open
<1>10. ASSUME NEW a \in Attempts, WorkerSteps(a) PROVE SummaryAgrees'
  BY <1>1, <1>10 DEF WorkerSteps, Activate, Initialize, BeginRecovery, RequestGate, Acknowledge,
     AckTimeout, RejectAck, SendRequest, EndRecovery, ExitUnactivated, StopWorker, ExitStopped, Exit
<1>11. ASSUME Shutdown \/ Crash \/ Restart \/ Serve PROVE SummaryAgrees'
  BY <1>1, <1>11 DEF Shutdown, Crash, Restart, Serve
<1>12. ASSUME UNCHANGED vars PROVE SummaryAgrees'
  BY <1>1, <1>12 DEF vars
<1> QED BY <1>0, <1>2, <1>5, <1>6, <1>7, <1>8, <1>9, <1>10, <1>11, <1>12, SummaryApprovals
        DEF Next, DashboardSteps

(* What an operator sees of a recovery agrees with the ledger, also when    *)
(* the dashboard dies between two transactions or the scan service rewrites *)
(* the approval: interruptAndProject and the service's last transaction     *)
(* write both rows at once, or neither.                                     *)
THEOREM SummaryIsTrue == Spec => []SummaryAgrees
<1>1. Init => SummaryAgrees
  BY DEF Init, SummaryAgrees
<1> QED BY <1>1, SummaryNext, Invariance, PTL DEF Spec
===============================================================================
