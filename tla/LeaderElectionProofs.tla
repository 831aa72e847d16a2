------------------------- MODULE LeaderElectionProofs -------------------------
(***************************************************************************)
(* Proofs about LeaderElection, for any replicas, lease duration and bound.*)
(***************************************************************************)
EXTENDS LeaderElection, TLAPS

(* Every replica is configured with an instance id of its own.              *)
OwnInstanceIds == \A p, q \in Procs : InstanceOf[p] = InstanceOf[q] => p = q

-------------------------------------------------------------------------------
(* The inductive invariant                                                  *)

(* The row grants token f to p until end at least.                          *)
Owns(p, f, end) ==
    /\ row.instance = InstanceOf[p]
    /\ row.fence = f
    /\ row.expires >= end

(* Who takes itself for the leader is the leader in the database.           *)
LeaderInv ==
    /\ \A p \in Procs : started[p] <= now /\ deadline[p] <= now + LeaseMs
    /\ \A p \in Procs : IsLeader(p) => Owns(p, fence[p], deadline[p])

(* So is who has an answer that would make it the leader.                   *)
AnswerInv ==
    \A p \in Procs :
        /\ proc[p] = "up"
        /\ tick[p] = "answered"
        /\ answer[p] # 0
        /\ now < started[p] + LeaseMs
        => Owns(p, answer[p], started[p] + LeaseMs)

(* An open fenced transaction carries the current token.                    *)
WorkInv ==
    /\ locked # None => callback[locked] = row.fence
    /\ committed <= row.fence

FenceInv ==
    /\ FenceHasOneOwner
    /\ \A g \in granted :
          g[2] <= row.fence /\ (g[2] = row.fence => g[1] = row.instance)

Inv == TypeOK /\ LeaderInv /\ AnswerInv /\ WorkInv /\ FenceInv

-------------------------------------------------------------------------------
(* The initial row, and what an upsert does to the row.                     *)

LEMMA InitInv == Init => Inv
BY LeaderAssumption DEF Init, Inv, TypeOK, Row, Instances, LeaderInv, AnswerInv, WorkInv,
                        FenceInv, FenceHasOneOwner, IsLeader

LEMMA InstanceIsKnown == ASSUME NEW p \in Procs PROVE InstanceOf[p] \in Instances
BY DEF Instances

(* An unexpired row only goes to its own instance, with the same token; any *)
(* other upsert takes a larger one.                                         *)
LEMMA UpsertStep ==
    ASSUME NEW i \in Instances, TypeOK, Upsert(i)
    PROVE  /\ locked = None /\ locked' = None
           /\ row' \in Row
           /\ row'.instance = i /\ row'.expires = now + LeaseMs
           /\ row'.fence >= row.fence
           /\ row'.fence = row.fence => row.instance = i
           /\ row.expires > now => row.instance = i /\ row'.fence = row.fence
           /\ granted' = granted \cup {<<i, row'.fence>>}
<1>1. row \in Row /\ now \in Nat /\ LeaseMs \in Nat
  BY LeaderAssumption DEF TypeOK
<1> QED
  BY <1>1 DEF Upsert, Upserted, MayLead, Row

-------------------------------------------------------------------------------
LEMMA TypeStep == TypeOK /\ WorkInv /\ [Next]_vars => TypeOK'
<1> SUFFICES ASSUME TypeOK, WorkInv, [Next]_vars PROVE TypeOK'
  OBVIOUS
<1> USE LeaderAssumption
<1>1. ASSUME NEW p \in Procs, StartTick(p) PROVE TypeOK'
  BY <1>1 DEF StartTick, TypeOK, dbVars, fieldVars
<1>2. ASSUME NEW p \in Procs, RunTick(p) PROVE TypeOK'
  <2>1. CASE Upsert(InstanceOf[p])
    <3>1. row' \in Row /\ locked' = None
          /\ granted' = granted \cup {<<InstanceOf[p], row'.fence>>}
      BY <2>1, UpsertStep, InstanceIsKnown
    <3>2. row'.fence \in Nat
      BY <3>1 DEF Row
    <3>3. granted' \in SUBSET (Instances \X Nat)
      BY <3>1, <3>2, InstanceIsKnown DEF TypeOK
    <3>4. answer' \in [Procs -> Nat]
      BY <1>2, <3>2 DEF RunTick, TypeOK
    <3> QED
      BY <1>2, <3>1, <3>3, <3>4 DEF RunTick, TypeOK, fieldVars
  <2>2. CASE UNCHANGED <<row, locked, granted>>
    BY <1>2, <2>2 DEF RunTick, TypeOK, fieldVars, Row
  <2> QED
    BY <1>2, <2>1, <2>2 DEF RunTick
<1>3. ASSUME NEW p \in Procs, EndTick(p) PROVE TypeOK'
  BY <1>3 DEF EndTick, LeaveTick, TypeOK, dbVars
<1>4. ASSUME NEW p \in Procs, FailTick(p) PROVE TypeOK'
  BY <1>4, InstanceIsKnown DEF FailTick, LeaveTick, TypeOK
<1>5. ASSUME NEW p \in Procs, BeginWork(p) PROVE TypeOK'
  BY <1>5 DEF BeginWork, TypeOK, tickVars, fieldVars
<1>6. ASSUME NEW p \in Procs, CommitWork(p) PROVE TypeOK'
  <2>1. committed' \in Nat
    BY <1>6 DEF CommitWork, WorkInv, TypeOK, Row
  <2> QED
    BY <1>6, <2>1 DEF CommitWork, TypeOK, tickVars
<1>7. ASSUME NEW p \in Procs, FailWork(p) PROVE TypeOK'
  BY <1>7 DEF FailWork, TypeOK, tickVars
<1>8. ASSUME NEW p \in Procs, BeginShutdown(p) PROVE TypeOK'
  BY <1>8 DEF BeginShutdown, TypeOK, dbVars, tickVars
<1>9. ASSUME NEW p \in Procs, EndShutdown(p) PROVE TypeOK'
  <2>1. row' \in Row
    BY <1>9 DEF EndShutdown, TypeOK, Row
  <2> QED
    BY <1>9, <2>1 DEF EndShutdown, TypeOK, tickVars, fieldVars
<1>10. ASSUME NEW p \in Procs, Restart(p) PROVE TypeOK'
  BY <1>10, InstanceIsKnown DEF Restart, LeaveTick, TypeOK
<1>11. ASSUME NEW i \in Instances, RunLate(i) PROVE TypeOK'
  <2>1. row' \in Row /\ locked' = None /\ granted' = granted \cup {<<i, row'.fence>>}
    BY <1>11, UpsertStep DEF RunLate
  <2>2. granted' \in SUBSET (Instances \X Nat)
    BY <2>1 DEF TypeOK, Row
  <2> QED
    BY <1>11, <2>1, <2>2 DEF RunLate, TypeOK, tickVars, fieldVars
<1>12. CASE PassTime
  BY <1>12 DEF PassTime, TypeOK, dbVars, tickVars, fieldVars
<1>13. CASE UNCHANGED vars
  BY <1>13 DEF vars, TypeOK, dbVars, tickVars, fieldVars
<1> QED
  BY <1>1, <1>2, <1>3, <1>4, <1>5, <1>6, <1>7, <1>8, <1>9, <1>10, <1>11, <1>12, <1>13
  DEF Next

LEMMA UpsertKeepsWorkAndFences ==
    ASSUME TypeOK, WorkInv, FenceInv, NEW i \in Instances, Upsert(i)
    PROVE  FenceInv' /\ committed <= row'.fence
<1>1. /\ row'.fence >= row.fence
      /\ row'.fence = row.fence => row.instance = i
      /\ row'.instance = i
      /\ granted' = granted \cup {<<i, row'.fence>>}
      /\ row' \in Row /\ row \in Row
  BY UpsertStep DEF TypeOK
<1>2. committed <= row'.fence
  BY <1>1 DEF WorkInv, TypeOK, Row
<1>3. ASSUME NEW g \in granted'
      PROVE  g[2] <= row'.fence /\ (g[2] = row'.fence => g[1] = row'.instance)
  <2>1. CASE g \in granted
    <3>1. g[2] \in Nat /\ row.fence \in Nat /\ row'.fence \in Nat
      BY <1>1, <2>1 DEF TypeOK, Row
    <3>2. g[2] <= row.fence /\ (g[2] = row.fence => g[1] = row.instance)
      BY <2>1 DEF FenceInv
    <3> QED
      BY <1>1, <3>1, <3>2
  <2>2. CASE g = <<i, row'.fence>>
    BY <1>1, <2>2 DEF Row
  <2> QED
    BY <1>1, <1>3, <2>1, <2>2
<1>4. FenceHasOneOwner'
  <2> SUFFICES ASSUME NEW g \in granted', NEW h \in granted', g[2] = h[2]
               PROVE  g[1] = h[1]
    BY DEF FenceHasOneOwner
  <2>1. ASSUME NEW e \in granted, e[2] = row'.fence PROVE e[1] = i
    BY <1>1, <1>3, <2>1
  <2> QED
    BY <1>1, <2>1 DEF FenceInv, FenceHasOneOwner
<1> QED
  BY <1>2, <1>3, <1>4 DEF FenceInv

(* Steps that leave the row, the locks and the history alone.               *)
LEMMA QuietStep ==
    ASSUME Inv, TypeOK', UNCHANGED <<row, granted, committed>>,
           locked' # None => locked' = locked /\ callback'[locked] = callback[locked],
           now' \in {now, now + 1},
           \A p \in Procs :
              /\ started'[p] <= now'
              /\ deadline'[p] <= now' + LeaseMs
              /\ IsLeader(p)' => \/ IsLeader(p) /\ UNCHANGED <<fence[p], deadline[p]>>
                                 \/ Owns(p, fence'[p], deadline'[p])
              /\ tick'[p] = "answered" /\ proc'[p] = "up" =>
                    /\ tick[p] = "answered" /\ proc[p] = "up"
                    /\ UNCHANGED <<answer[p], started[p]>>
    PROVE  Inv'
<1> USE LeaderAssumption
<1>1. LeaderInv'
  BY DEF LeaderInv, Inv, Owns, TypeOK
<1>2. AnswerInv'
  <2> SUFFICES ASSUME NEW p \in Procs, proc'[p] = "up", tick'[p] = "answered",
                      answer'[p] # 0, now' < started'[p] + LeaseMs
               PROVE  Owns(p, answer[p], started[p] + LeaseMs)'
    BY DEF AnswerInv
  <2>1. /\ tick[p] = "answered" /\ proc[p] = "up" /\ answer[p] # 0
        /\ now < started[p] + LeaseMs
        /\ UNCHANGED <<answer[p], started[p]>>
    BY DEF Inv, TypeOK
  <2> QED
    BY <2>1 DEF AnswerInv, Owns, Inv
<1>3. WorkInv'
  BY DEF WorkInv, Inv
<1>4. FenceInv'
  BY DEF FenceInv, FenceHasOneOwner, Inv
<1> QED
  BY <1>1, <1>2, <1>3, <1>4 DEF Inv

(* An upsert whose sender, if any, waits for the answer: mine is the replica *)
(* whose tick it is.                                                        *)
LEMMA UpsertInv ==
    ASSUME Inv, TypeOK', NEW i \in Instances, Upsert(i),
           UNCHANGED <<now, proc, started, held, deadline, fence, callback, committed>>,
           \A p \in Procs :
              \/ UNCHANGED <<tick[p], answer[p]>>
              \/ InstanceOf[p] = i /\ answer'[p] = row'.fence
    PROVE  Inv'
<1> USE LeaderAssumption
<1>0. /\ TypeOK
      /\ locked' = None
      /\ row'.instance = i /\ row'.expires = now + LeaseMs
  BY UpsertStep DEF Inv
<1>1. LeaderInv'
  <2> SUFFICES ASSUME NEW p \in Procs, IsLeader(p)'
               PROVE  Owns(p, fence[p], deadline[p])'
    BY DEF Inv, LeaderInv
  <2>1. /\ Owns(p, fence[p], deadline[p])
        /\ now < deadline[p] /\ deadline[p] <= now + LeaseMs /\ deadline[p] \in Nat
    BY <1>0 DEF IsLeader, Inv, LeaderInv, TypeOK
  <2>2. row'.instance = row.instance /\ row'.fence = row.fence
    BY <1>0, <2>1, UpsertStep DEF Owns, TypeOK, Row
  <2> QED
    BY <1>0, <2>1, <2>2 DEF Owns
<1>2. AnswerInv'
  <2> SUFFICES ASSUME NEW p \in Procs, proc'[p] = "up", tick'[p] = "answered",
                      answer'[p] # 0, now' < started'[p] + LeaseMs
               PROVE  Owns(p, answer[p], started[p] + LeaseMs)'
    BY DEF AnswerInv
  <2>0. started[p] \in Nat /\ now \in Nat /\ started[p] <= now
    BY <1>0 DEF Inv, LeaderInv, TypeOK
  <2>1. CASE UNCHANGED <<tick[p], answer[p]>>
    <3>1. Owns(p, answer[p], started[p] + LeaseMs)
      BY <2>1 DEF Inv, AnswerInv
    <3>2. row'.instance = row.instance /\ row'.fence = row.fence
      BY <1>0, <2>0, <3>1, UpsertStep DEF Owns, TypeOK, Row
    <3> QED
      BY <1>0, <2>0, <2>1, <3>1, <3>2 DEF Owns
  <2>2. CASE InstanceOf[p] = i /\ answer'[p] = row'.fence
    BY <1>0, <2>0, <2>2 DEF Owns
  <2> QED
    BY <2>1, <2>2
<1>3. WorkInv' /\ FenceInv'
  BY <1>0, UpsertKeepsWorkAndFences DEF Inv, WorkInv
<1> QED
  BY <1>1, <1>2, <1>3 DEF Inv

LEMMA NextInv == OwnInstanceIds /\ Inv /\ [Next]_vars => Inv'
<1> SUFFICES ASSUME OwnInstanceIds, Inv, [Next]_vars PROVE Inv'
  OBVIOUS
<1> USE LeaderAssumption
<1>0. TypeOK /\ TypeOK'
  BY TypeStep DEF Inv
<1>1. ASSUME NEW p \in Procs, StartTick(p) PROVE Inv'
  BY <1>0, <1>1, QuietStep
  DEF StartTick, dbVars, fieldVars, Inv, LeaderInv, TypeOK, IsLeader
<1>2. ASSUME NEW p \in Procs, RunTick(p) PROVE Inv'
  <2>1. CASE Upsert(InstanceOf[p])
    <3>1. ASSUME NEW q \in Procs
          PROVE  \/ UNCHANGED <<tick[q], answer[q]>>
                 \/ InstanceOf[q] = InstanceOf[p] /\ answer'[q] = row'.fence
      <4>1. answer' = [answer EXCEPT ![p] = row'.fence]
        BY <1>2, <2>1 DEF RunTick, Upsert
      <4> QED
        BY <1>0, <1>2, <4>1 DEF RunTick, TypeOK
    <3> QED
      BY <1>0, <1>2, <2>1, <3>1, UpsertInv, InstanceIsKnown DEF RunTick, fieldVars
  <2>2. CASE UNCHANGED <<row, locked, granted>> /\ answer'[p] = 0
    <3>1. LeaderInv'
      BY <1>2, <2>2 DEF RunTick, fieldVars, Inv, LeaderInv, IsLeader, Owns
    <3>2. AnswerInv'
      BY <1>0, <1>2, <2>2 DEF RunTick, Inv, AnswerInv, Owns, TypeOK
    <3>3. WorkInv' /\ FenceInv'
      BY <1>2, <2>2 DEF RunTick, fieldVars, Inv, WorkInv, FenceInv, FenceHasOneOwner
    <3> QED
      BY <1>0, <3>1, <3>2, <3>3 DEF Inv
  <2> QED
    BY <1>0, <1>2, <2>1, <2>2 DEF RunTick, TypeOK
<1>3. ASSUME NEW p \in Procs, EndTick(p) PROVE Inv'
  <2>1. ASSUME NEW q \in Procs, IsLeader(q)'
        PROVE  \/ IsLeader(q) /\ UNCHANGED <<fence[q], deadline[q]>>
               \/ Owns(q, fence'[q], deadline'[q])
    BY <1>0, <1>3, <2>1 DEF EndTick, Inv, AnswerInv, TypeOK, IsLeader
  <2>2. ASSUME NEW q \in Procs
        PROVE  /\ started'[q] <= now'
               /\ deadline'[q] <= now' + LeaseMs
               /\ tick'[q] = "answered" =>
                     tick[q] = "answered" /\ UNCHANGED <<answer[q], started[q]>>
    BY <1>0, <1>3 DEF EndTick, LeaveTick, Inv, LeaderInv, TypeOK
  <2>3. locked' # None => locked' = locked /\ callback'[locked] = callback[locked]
    <3>1. locked' = locked
      BY <1>3 DEF EndTick, dbVars
    <3>2. ASSUME locked # None
          PROVE  locked \in Procs /\ callback[locked] # None
      BY <1>0, <3>2 DEF Inv, WorkInv, TypeOK, Row
    <3> QED
      BY <1>0, <1>3, <3>1, <3>2 DEF EndTick, TypeOK
  <2> QED
    BY <1>0, <1>3, <2>1, <2>2, <2>3, QuietStep DEF EndTick, dbVars
<1>4. ASSUME NEW p \in Procs, FailTick(p) PROVE Inv'
  BY <1>0, <1>4, QuietStep
  DEF FailTick, LeaveTick, Inv, LeaderInv, TypeOK, IsLeader
<1>5. ASSUME NEW p \in Procs, BeginWork(p) PROVE Inv'
  <2>1. LeaderInv' /\ AnswerInv' /\ FenceInv'
    BY <1>5 DEF BeginWork, tickVars, fieldVars, Inv, LeaderInv, AnswerInv, FenceInv,
                FenceHasOneOwner, IsLeader, Owns
  <2>2. WorkInv'
    BY <1>5 DEF BeginWork, FenceHolds, fieldVars, Inv, WorkInv
  <2> QED
    BY <1>0, <2>1, <2>2 DEF Inv
<1>6. ASSUME NEW p \in Procs, CommitWork(p) PROVE Inv'
  <2>1. LeaderInv' /\ AnswerInv' /\ FenceInv'
    BY <1>6 DEF CommitWork, tickVars, Inv, LeaderInv, AnswerInv, FenceInv,
                FenceHasOneOwner, IsLeader, Owns
  <2>2. WorkInv'
    BY <1>0, <1>6 DEF CommitWork, Inv, WorkInv, TypeOK, Row
  <2> QED
    BY <1>0, <2>1, <2>2 DEF Inv
<1>7. ASSUME NEW p \in Procs, FailWork(p) PROVE Inv'
  BY <1>0, <1>7, QuietStep
  DEF FailWork, tickVars, Inv, LeaderInv, TypeOK, IsLeader
<1>8. ASSUME NEW p \in Procs, BeginShutdown(p) PROVE Inv'
  BY <1>0, <1>8, QuietStep
  DEF BeginShutdown, dbVars, tickVars, Inv, LeaderInv, TypeOK, IsLeader
<1>9. ASSUME NEW p \in Procs, EndShutdown(p) PROVE Inv'
  <2>1. CASE UNCHANGED row
    BY <1>0, <1>9, <2>1, QuietStep
    DEF EndShutdown, tickVars, fieldVars, Inv, LeaderInv, TypeOK, IsLeader
  <2>2. CASE row.instance = InstanceOf[p] /\ row' = [row EXCEPT !.expires = now]
    <3>1. row'.instance = row.instance /\ row'.fence = row.fence
      BY <1>0, <2>2 DEF TypeOK, Row
    <3>2. ASSUME NEW q \in Procs, proc'[q] = "up" PROVE row.instance # InstanceOf[q]
      BY <1>0, <1>9, <2>2, <3>2 DEF EndShutdown, TypeOK, OwnInstanceIds
    <3>3. LeaderInv'
      BY <1>9, <3>2 DEF EndShutdown, tickVars, fieldVars, Inv, LeaderInv, IsLeader, Owns,
                        TypeOK
    <3>4. AnswerInv'
      BY <1>9, <3>2 DEF EndShutdown, tickVars, Inv, AnswerInv, Owns, TypeOK
    <3>5. WorkInv' /\ FenceInv'
      BY <1>9, <3>1 DEF EndShutdown, fieldVars, Inv, WorkInv, FenceInv, FenceHasOneOwner
    <3> QED
      BY <1>0, <3>3, <3>4, <3>5 DEF Inv
  <2> QED
    BY <1>9, <2>1, <2>2 DEF EndShutdown
<1>10. ASSUME NEW p \in Procs, Restart(p) PROVE Inv'
  BY <1>0, <1>10, QuietStep
  DEF Restart, LeaveTick, Inv, LeaderInv, TypeOK, IsLeader
<1>11. ASSUME NEW i \in Instances, RunLate(i) PROVE Inv'
  BY <1>0, <1>11, UpsertInv DEF RunLate, tickVars, fieldVars
<1>12. CASE PassTime
  BY <1>0, <1>12, QuietStep
  DEF PassTime, dbVars, tickVars, fieldVars, Inv, LeaderInv, TypeOK, IsLeader
<1>13. CASE UNCHANGED vars
  BY <1>0, <1>13, QuietStep
  DEF vars, dbVars, tickVars, fieldVars, Inv, LeaderInv, TypeOK, IsLeader
<1> QED
  BY <1>1, <1>2, <1>3, <1>4, <1>5, <1>6, <1>7, <1>8, <1>9, <1>10, <1>11, <1>12, <1>13
  DEF Next

-------------------------------------------------------------------------------
(* Theorems                                                                 *)

(* The inductive invariant: what a replica believes about its leadership is *)
(* what the scheduler_runs row says.                                        *)
THEOREM Invariance ==
    ASSUME OwnInstanceIds
    PROVE  Spec => []Inv
BY InitInv, NextInv, PTL DEF Spec

(* Every variable of the election keeps its type.                           *)
THEOREM TypeCorrect ==
    ASSUME OwnInstanceIds
    PROVE  Spec => []TypeOK
<1>1. Inv => TypeOK
  BY DEF Inv
<1> QED
  BY <1>1, Invariance, PTL

(* isLeader() is true of one replica at most, for any number of replicas    *)
(* with ids of their own, any lease duration and any delay of the answers.  *)
THEOREM OneLeader ==
    ASSUME OwnInstanceIds
    PROVE  Spec => []AtMostOneLeader
<1>1. Inv => AtMostOneLeader
  BY DEF Inv, LeaderInv, Owns, AtMostOneLeader, OwnInstanceIds
<1> QED
  BY <1>1, Invariance, PTL

(* A fencing token is never granted to two instances.                       *)
THEOREM OneOwner ==
    ASSUME OwnInstanceIds
    PROVE  Spec => []FenceHasOneOwner
<1>1. Inv => FenceHasOneOwner
  BY DEF Inv, FenceInv
<1> QED
  BY <1>1, Invariance, PTL

(* Fenced transactions commit in the order of their tokens.                 *)
THEOREM CommitsInOrder ==
    ASSUME OwnInstanceIds
    PROVE  Spec => CommitsFollowFences
<1>1. Inv /\ [Next]_vars => [committed' >= committed]_vars
  <2> SUFFICES ASSUME Inv, [Next]_vars PROVE committed' >= committed
    OBVIOUS
  <2>1. committed \in Nat
    BY DEF Inv, TypeOK
  <2>2. ASSUME NEW p \in Procs, CommitWork(p) PROVE committed' >= committed
    BY <2>2, LeaderAssumption DEF CommitWork, Inv, WorkInv, TypeOK, Row
  <2>3. CASE committed' = committed
    BY <2>1, <2>3
  <2> QED
    BY <2>2, <2>3
    DEF Next, vars, StartTick, RunTick, EndTick, FailTick, BeginWork, FailWork,
        BeginShutdown, EndShutdown, Restart, RunLate, PassTime
<1> QED
  BY <1>1, Invariance, PTL DEF Spec, CommitsFollowFences
===============================================================================
