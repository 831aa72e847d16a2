---------------------------- MODULE LeaderElection ----------------------------
(***************************************************************************)
(* The leader lease of the PostgreSQL control plane and the transactions   *)
(* it fences (controlPlane/PostgresControlPlane.ts: PostgresLeaderElection *)
(* and fencedTransaction), for one scheduler key and the replicas that     *)
(* compete for it.                                                         *)
(*                                                                         *)
(* Time is counted in ticks of one clock: performance.now() of a replica   *)
(* and clock_timestamp() of the database are assumed to run at the same    *)
(* rate.  A statement runs at one instant; the replica that sent it learns *)
(* the answer later, or never.                                             *)
(***************************************************************************)
EXTENDS Integers

CONSTANTS
    Procs,       \* replicas
    InstanceOf,  \* InstanceOf[p]: the replica's configured instance id
    None,        \* "nobody"
    LeaseMs,     \* duration of a lease, in ticks
    MaxTime,     \* last instant (bound)
    MaxFence     \* largest fencing token (bound)

Instances == {InstanceOf[p] : p \in Procs}

ASSUME LeaderAssumption ==
    /\ LeaseMs \in Nat \ {0}
    /\ {MaxTime, MaxFence} \subseteq Nat
    /\ DOMAIN InstanceOf = Procs
    /\ None \notin Procs \cup Instances \cup Nat

VARIABLES
    now,         \* the time
    row,         \* the scheduler_runs row; expires = 0 before the first insert
    locked,      \* the replica whose fenced transaction has locked row, or None
    late,        \* instances with an upsert under way whose sender gave up
    proc,        \* proc[p]: "up", "stopping" (shutdown was called), "down"
    tick,        \* tick[p]: "idle", "sent", "answered"
    started,     \* started[p]: when the tick under way was started
    answer,      \* answer[p]: the fencing token it got, 0 for none
    held, deadline, fence,  \* the fields of the election object
    callback,    \* callback[p]: the token onLeadership was called with, or None
    granted,     \* history: the tokens granted, with the instance
    committed    \* history: the token of the latest fenced commit

dbVars == <<row, locked, late>>
fieldVars == <<held, deadline, fence, callback>>
tickVars == <<tick, started, answer>>
vars == <<now, dbVars, proc, tickVars, fieldVars, granted, committed>>

Row == [instance : Instances \cup {None}, fence : Nat, expires : Nat]

TypeOK ==
    /\ now \in Nat
    /\ row \in Row
    /\ locked \in Procs \cup {None}
    /\ late \in SUBSET Instances
    /\ proc \in [Procs -> {"up", "stopping", "down"}]
    /\ tick \in [Procs -> {"idle", "sent", "answered"}]
    /\ started \in [Procs -> Nat]
    /\ answer \in [Procs -> Nat]
    /\ held \in [Procs -> BOOLEAN]
    /\ deadline \in [Procs -> Nat]
    /\ fence \in [Procs -> Nat]
    /\ callback \in [Procs -> Nat \cup {None}]
    /\ granted \in SUBSET (Instances \X Nat)
    /\ committed \in Nat

Init ==
    /\ now = 1
    /\ row = [instance |-> None, fence |-> 0, expires |-> 0]
    /\ locked = None
    /\ late = {}
    /\ proc = [p \in Procs |-> "up"]
    /\ tick = [p \in Procs |-> "idle"]
    /\ started = [p \in Procs |-> 0]
    /\ answer = [p \in Procs |-> 0]
    /\ held = [p \in Procs |-> FALSE]
    /\ deadline = [p \in Procs |-> 0]
    /\ fence = [p \in Procs |-> 0]
    /\ callback = [p \in Procs |-> None]
    /\ granted = {}
    /\ committed = 0

IsLeader(p) == proc[p] = "up" /\ held[p] /\ now < deadline[p]

-------------------------------------------------------------------------------
(* The upsert of tick                                                       *)

MayLead(i) == row.expires < now \/ row.instance = i

(* Mutant of the upsert: a takeover keeps the token.                        *)
TakeoverKeepsFence(i) ==
    [instance |-> i, expires |-> now + LeaseMs,
     fence |-> IF row.fence = 0 THEN 1 ELSE row.fence]

Upserted(i) ==
    [instance |-> i, expires |-> now + LeaseMs,
     fence |-> IF row.instance = i /\ row.expires > now THEN row.fence
                                                       ELSE row.fence + 1]

(* The statement waits for a transaction that has locked the row.           *)
Upsert(i) ==
    /\ locked = None
    /\ MayLead(i)
    /\ Upserted(i).fence <= MaxFence
    /\ row' = Upserted(i)
    /\ granted' = granted \cup {<<i, row'.fence>>}
    /\ UNCHANGED locked

StartTick(p) ==
    /\ proc[p] = "up"
    /\ tick[p] = "idle"
    /\ tick' = [tick EXCEPT ![p] = "sent"]
    /\ started' = [started EXCEPT ![p] = now]
    /\ UNCHANGED <<now, dbVars, proc, answer, fieldVars, granted, committed>>

RunTick(p) ==
    /\ tick[p] = "sent"
    /\ tick' = [tick EXCEPT ![p] = "answered"]
    /\ \/ /\ Upsert(InstanceOf[p])
          /\ answer' = [answer EXCEPT ![p] = row'.fence]
       \/ /\ locked = None
          /\ ~MayLead(InstanceOf[p])
          /\ answer' = [answer EXCEPT ![p] = 0]
          /\ UNCHANGED <<row, locked, granted>>
    /\ UNCHANGED <<now, late, proc, started, fieldVars, committed>>

(* The local variables of tick go out of scope.                             *)
LeaveTick(p) ==
    /\ tick' = [tick EXCEPT ![p] = "idle"]
    /\ started' = [started EXCEPT ![p] = 0]
    /\ answer' = [answer EXCEPT ![p] = 0]

(* Mutant of the answer: the lease is counted from the answer on.           *)
LeaseFromAnswer(p) ==
    /\ tick[p] = "answered"
    /\ LeaveTick(p)
    /\ held' = [held EXCEPT ![p] = answer[p] # 0]
    /\ deadline' = [deadline EXCEPT ![p] = now + LeaseMs]
    /\ fence' = [fence EXCEPT ![p] = answer[p]]
    /\ UNCHANGED <<now, dbVars, proc, callback, granted, committed>>

(* The answer: leadership lasts LeaseMs from the start of the tick on.      *)
(* onLeadership is called unless its previous call has not ended.           *)
EndTick(p) ==
    /\ tick[p] = "answered"
    /\ LeaveTick(p)
    /\ held' = [held EXCEPT ![p] = answer[p] # 0]
    /\ \/ /\ answer[p] = 0
          /\ UNCHANGED <<deadline, fence, callback>>
       \/ /\ answer[p] # 0
          /\ deadline' = [deadline EXCEPT ![p] = started[p] + LeaseMs]
          /\ fence' = [fence EXCEPT ![p] = answer[p]]
          /\ callback' = [callback EXCEPT ![p] =
                IF callback[p] = None /\ proc[p] = "up" /\ now < started[p] + LeaseMs
                THEN answer[p] ELSE callback[p]]
    /\ UNCHANGED <<now, dbVars, proc, granted, committed>>

(* The query fails, and may be executed all the same, now or later.         *)
FailTick(p) ==
    /\ tick[p] # "idle"
    /\ LeaveTick(p)
    /\ held' = [held EXCEPT ![p] = FALSE]
    /\ \/ UNCHANGED late
       \/ tick[p] = "sent" /\ late' = late \cup {InstanceOf[p]}
    /\ UNCHANGED <<now, row, locked, proc, deadline, fence, callback, granted,
                   committed>>

RunLate(i) ==
    /\ i \in late
    /\ Upsert(i)
    /\ late' = late \ {i}
    /\ UNCHANGED <<now, proc, tickVars, fieldVars, committed>>

-------------------------------------------------------------------------------
(* fencedTransaction, called by onLeadership                                *)

(* Mutant of the check: any lease of this instance will do.                 *)
LeasedToInstance(p) == row.instance = InstanceOf[p] /\ row.expires > now

FenceHolds(p) ==
    /\ row.instance = InstanceOf[p]
    /\ row.fence = callback[p]
    /\ row.expires > now

(* SELECT ... FOR UPDATE                                                    *)
BeginWork(p) ==
    /\ callback[p] # None
    /\ locked = None
    /\ FenceHolds(p)
    /\ locked' = p
    /\ UNCHANGED <<now, row, late, proc, tickVars, fieldVars, granted, committed>>

CommitWork(p) ==
    /\ locked = p
    /\ locked' = None
    /\ committed' = callback[p]
    /\ callback' = [callback EXCEPT ![p] = None]
    /\ UNCHANGED <<now, row, late, proc, tickVars, held, deadline, fence, granted>>

(* SCHEDULER_FENCE_REJECTED, or any failure before the commit.              *)
FailWork(p) ==
    /\ callback[p] # None
    /\ locked' = IF locked = p THEN None ELSE locked
    /\ callback' = [callback EXCEPT ![p] = None]
    /\ UNCHANGED <<now, row, late, proc, tickVars, held, deadline, fence, granted,
                   committed>>

-------------------------------------------------------------------------------
BeginShutdown(p) ==
    /\ proc[p] = "up"
    /\ proc' = [proc EXCEPT ![p] = "stopping"]
    /\ held' = [held EXCEPT ![p] = FALSE]
    /\ UNCHANGED <<now, dbVars, tickVars, deadline, fence, callback, granted, committed>>

(* The lease ends if it is still this replica's, unless the update fails.   *)
EndShutdown(p) ==
    /\ proc[p] = "stopping"
    /\ callback[p] = None
    /\ locked = None
    /\ proc' = [proc EXCEPT ![p] = "down"]
    /\ \/ /\ row.instance = InstanceOf[p]
          /\ row.fence = fence[p]
          /\ row' = [row EXCEPT !.expires = now]
       \/ UNCHANGED row
    /\ UNCHANGED <<now, locked, late, tickVars, fieldVars, granted, committed>>

(* A replica dies, or was shut down, and is started again under its id; the *)
(* database rolls its transaction back and may still execute its upsert.    *)
Restart(p) ==
    /\ proc' = [proc EXCEPT ![p] = "up"]
    /\ LeaveTick(p)
    /\ held' = [held EXCEPT ![p] = FALSE]
    /\ deadline' = [deadline EXCEPT ![p] = 0]
    /\ fence' = [fence EXCEPT ![p] = 0]
    /\ callback' = [callback EXCEPT ![p] = None]
    /\ locked' = IF locked = p THEN None ELSE locked
    /\ \/ UNCHANGED late
       \/ tick[p] = "sent" /\ late' = late \cup {InstanceOf[p]}
    /\ UNCHANGED <<now, row, granted, committed>>

PassTime ==
    /\ now < MaxTime
    /\ now' = now + 1
    /\ UNCHANGED <<dbVars, proc, tickVars, fieldVars, granted, committed>>

Next ==
    \/ \E p \in Procs :
          \/ StartTick(p) \/ RunTick(p) \/ EndTick(p) \/ FailTick(p)
          \/ BeginWork(p) \/ CommitWork(p) \/ FailWork(p)
          \/ BeginShutdown(p) \/ EndShutdown(p) \/ Restart(p)
    \/ \E i \in Instances : RunLate(i)
    \/ PassTime

Spec == Init /\ [][Next]_vars

-------------------------------------------------------------------------------
(* Properties                                                               *)

(* No two replicas take themselves for the leader at once, however late an  *)
(* answer arrives: isLeader() counts the lease from before the query, the   *)
(* database from its execution.                                             *)
AtMostOneLeader ==
    \A p, q \in Procs : IsLeader(p) /\ IsLeader(q) => p = q

(* Nothing a former leader started commits after a commit of its successor, *)
(* also when its callback outlives several leases (fencedTransaction locks  *)
(* the row it checks).                                                      *)
CommitsFollowFences == [][committed' >= committed]_vars

(* A fencing token identifies the instance it was granted to.               *)
FenceHasOneOwner ==
    \A g, h \in granted : g[2] = h[2] => g[1] = h[1]
===============================================================================
