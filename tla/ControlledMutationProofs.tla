----------------------- MODULE ControlledMutationProofs -----------------------
(***************************************************************************)
(* Proofs about ControlledMutation, for every set of hosts, processes and  *)
(* cases.                                                                  *)
(***************************************************************************)
EXTENDS ControlledMutation, TLAPS

(* A process that is in a call works on a case of its host.                 *)
CaseInv ==
    /\ \A p \in Procs : pc[p] # "idle" => case[p] \in CasesOf[HostOf[p]]
    /\ \A h \in Hosts, c \in Cases : bundle[h][c] # None => c \in CasesOf[h]

(* The SQLite lease is open exactly in the process that holds the lock.     *)
LockInv ==
    /\ \A p \in Procs : pc[p] \in Holding <=> lease[HostOf[p]] = p
    /\ \A p \in Procs : pc[p] = "coordinate" => Coordinated

(* A process under a distributed lease owns the namespace's ACTIVE lease.   *)
LeaseInv ==
    \A p \in Procs : Coordinated /\ Entered(p) =>
        /\ activeLease # None
        /\ activeLease.holder = p
        /\ activeLease.case = case[p]
        /\ activeLease.late = {}

(* What is captured and sealed is always the original state.                *)
PreStateInv ==
    /\ \A p \in Procs : pre[p] = "original"
    /\ \A h \in Hosts, c \in Cases : bundle[h][c] # "mutated"

(* Before an ordinary mutation is sent nothing in the namespace is mutated, *)
(* and its bundle is in place once it is armed.                             *)
Untouched == (Preparing \ {"coordinate"}) \cup {"attack"}

ExecuteInv ==
    \A p \in Procs :
        /\ kind[p] # "recover" /\ pc[p] \in Untouched =>
              \A c \in Cases : target[c] = "original"
        /\ pc[p] \in {"arm", "attack"} =>
              /\ kind[p] = "execute"
              /\ bundle[HostOf[p]][case[p]] = "original"
        /\ pc[p] = "attack" =>
              journal[HostOf[p]][case[p]] # "ROLLBACK_VERIFIED"
        /\ pc[p] = "discard" =>
              /\ target[case[p]] = "original"
              /\ journal[HostOf[p]][case[p]] = "ROLLBACK_VERIFIED"

(* A mutated object is tracked on a host and at the coordinator.            *)
TrackedInv ==
    \A c \in Cases : target[c] = "mutated" =>
        /\ \E h \in Hosts : /\ bundle[h][c] = "original"
                            /\ journal[h][c] # "ROLLBACK_VERIFIED"
        /\ Coordinated =>
              IF activeLease # None /\ activeLease.case = c
              THEN \A r \in activeLease.late : c \in r
              ELSE c \in obligations

Inv == TypeOK /\ CaseInv /\ LockInv /\ LeaseInv /\ PreStateInv /\ ExecuteInv
       /\ TrackedInv

(* The two hypotheses of the namespace-wide results: no contract is run     *)
(* from two hosts, and operators only orphan the lease of a dead holder.    *)
OwnCasesOnly == \A g, h \in Hosts : g # h => CasesOf[g] \cap CasesOf[h] = {}

USE HostsAssumption, OneHostAssumption
USE DEF OnHost, Entered, Holding, Outside, Preparing, Armed, Restoring,
        Untouched, ObjectStates

(* At most one process of the namespace is past lock.acquire.               *)
LEMMA Exclusion ==
    ASSUME Inv, NEW p \in Procs, NEW q \in Procs, Entered(p), Entered(q)
    PROVE  p = q
<1>1. CASE Coordinated
  BY <1>1 DEF Inv, LeaseInv
<1>2. CASE ~Coordinated
  BY <1>2 DEF Inv, LockInv, TypeOK
<1>. QED BY <1>1, <1>2

-------------------------------------------------------------------------------
(* Steps of a process under the lock that only moves on: its kind and case  *)
(* stay, and so do the lock and the coordinator.                            *)
Moves(p) ==
    /\ pc' \in [Procs -> Outside \cup Holding]
    /\ pc'[p] \in Holding \ {"coordinate"}
    /\ \A q \in Procs : q # p => pc'[q] = pc[q]
    /\ retries' \in [Procs -> 0..1]
    /\ UNCHANGED <<kind, case>>

LEMMA MovesKeepLock ==
    ASSUME Inv, NEW p \in Procs, Entered(p), Moves(p),
           UNCHANGED <<lease, coordVars>>
    PROVE  LockInv' /\ LeaseInv'
<1>1. LockInv'
  BY DEF Inv, Moves, LockInv
<1>2. LeaseInv'
  BY DEF Inv, Moves, LeaseInv, coordVars
<1>. QED BY <1>1, <1>2

LEMMA GotoMoves ==
    ASSUME TypeOK, NEW p \in Procs, NEW next \in Holding \ {"coordinate"},
           Goto(p, next)
    PROVE  Moves(p) /\ UNCHANGED pre /\ pc'[p] = next
BY DEF TypeOK, Goto, Moves

LEMMA ThrowMoves ==
    ASSUME TypeOK, NEW p \in Procs, Entered(p), Throw(p)
    PROVE  Moves(p) /\ UNCHANGED pre /\ pc'[p] = OnError(p)
<1>1. OnError(p) \in Holding \ {"coordinate"}
  BY DEF OnError
<1>. QED BY <1>1 DEF TypeOK, Throw, Moves

(* What Append does to the journal and to its process.                      *)
LEMMA AppendEffect ==
    ASSUME TypeOK, NEW p \in Procs, NEW stage \in journalStages,
           NEW next \in Holding \ {"coordinate"},
           Entered(p), case[p] \in Cases,
           Append(p, stage, next)
    PROVE  /\ Moves(p)
           /\ UNCHANGED pre
           /\ \/ pc'[p] = next /\ journal'[HostOf[p]][case[p]] = stage
              \/ pc'[p] = OnError(p)
           /\ journal' \in [Hosts -> [Cases -> journalStages \cup {None}]]
           /\ \A h \in Hosts, c \in Cases :
                 \/ journal'[h][c] = journal[h][c]
                 \/ h = HostOf[p] /\ c = case[p] /\ journal'[h][c] = stage
<1>. DEFINE Written == journal' = [journal EXCEPT ![OnHost(p)][case[p]] = stage]
<1>3. ASSUME Written
      PROVE  /\ journal' \in [Hosts -> [Cases -> journalStages \cup {None}]]
             /\ journal'[HostOf[p]][case[p]] = stage
             /\ \A h \in Hosts, c \in Cases :
                   \/ journal'[h][c] = journal[h][c]
                   \/ h = HostOf[p] /\ c = case[p] /\ journal'[h][c] = stage
  BY <1>3 DEF TypeOK
<1>. HIDE DEF Written
<1>4. CASE Written /\ Goto(p, next)
  BY <1>3, <1>4, GotoMoves
<1>5. CASE Written /\ Throw(p)
  BY <1>3, <1>5, ThrowMoves
<1>6. CASE UNCHANGED journal /\ Throw(p)
  BY <1>6, ThrowMoves DEF TypeOK
<1>. QED BY <1>4, <1>5, <1>6 DEF Append, Written

(* An action that appends a journal entry and touches nothing else keeps    *)
(* the invariant when the entry does not claim an unverified restoration    *)
(* and the next step finds what it relies on.                               *)
LEMMA AppendKeepsInv ==
    ASSUME Inv, NEW p \in Procs, NEW stage \in journalStages,
           NEW next \in Holding \ {"coordinate"},
           Entered(p), pc[p] # "release",
           Append(p, stage, next),
           UNCHANGED <<bundle, lease, metadata, worldVars, coordVars>>,
           stage = "ROLLBACK_VERIFIED" => target[case[p]] = "original",
           next \in Untouched /\ kind[p] # "recover" => pc[p] \in Untouched,
           next # "arm",
           next = "attack" => pc[p] = "arm" /\ stage # "ROLLBACK_VERIFIED",
           next = "discard" => stage = "ROLLBACK_VERIFIED"
    PROVE  Inv'
<1>1. case[p] \in Cases /\ case[p] \in CasesOf[HostOf[p]] /\ TypeOK
  BY DEF Inv, CaseInv, TypeOK
<1>2. /\ Moves(p)
      /\ UNCHANGED pre
      /\ \/ pc'[p] = next /\ journal'[HostOf[p]][case[p]] = stage
         \/ pc'[p] = OnError(p)
      /\ journal' \in [Hosts -> [Cases -> journalStages \cup {None}]]
      /\ \A h \in Hosts, c \in Cases :
            \/ journal'[h][c] = journal[h][c]
            \/ h = HostOf[p] /\ c = case[p] /\ journal'[h][c] = stage
  BY <1>1, AppendEffect
<1>3. LockInv' /\ LeaseInv'
  BY <1>2, MovesKeepLock
<1>4. TypeOK'
  BY <1>1, <1>2 DEF TypeOK, CoordTypeOK, Moves, coordVars, worldVars
<1>5. CaseInv' /\ PreStateInv'
  BY <1>1, <1>2 DEF Inv, CaseInv, PreStateInv, Moves
<1>6. ExecuteInv'
  <2>1. OnError(p) \notin {"arm", "attack", "discard"}
    BY DEF OnError
  <2>2. kind[p] # "recover" /\ OnError(p) \in Untouched => pc[p] \in Untouched
    BY DEF OnError
  <2>3. \A q \in Procs : q # p => ~Entered(q)
    BY Exclusion
  <2>. QED BY <1>1, <1>2, <2>1, <2>2, <2>3
           DEF Inv, ExecuteInv, TypeOK, Moves, worldVars
<1>7. TrackedInv'
  BY <1>1, <1>2 DEF Inv, TrackedInv, TypeOK, worldVars, coordVars
<1>. QED BY <1>3, <1>4, <1>5, <1>6, <1>7 DEF Inv

(* A step that only changes the process keeps the invariant when the next   *)
(* step finds what it relies on.                                            *)
LEMMA MoveKeepsInv ==
    ASSUME Inv, NEW p \in Procs, Entered(p), Moves(p),
           UNCHANGED <<journal, bundle, lease, metadata, worldVars, coordVars>>,
           pre' \in [Procs -> ObjectStates],
           \A q \in Procs : pre'[q] = "original",
           pc'[p] \in Untouched /\ kind[p] # "recover" => pc[p] \in Untouched,
           pc'[p] \notin {"arm", "attack", "discard"}
    PROVE  Inv'
<1>1. LockInv' /\ LeaseInv'
  BY MovesKeepLock
<1>2. TypeOK'
  BY DEF Inv, TypeOK, CoordTypeOK, Moves, coordVars, worldVars
<1>3. CaseInv' /\ PreStateInv'
  BY DEF Inv, CaseInv, PreStateInv, Moves
<1>4. ExecuteInv'
  <2>1. \A q \in Procs : q # p => ~Entered(q)
    BY Exclusion
  <2>. QED BY <2>1 DEF Inv, ExecuteInv, TypeOK, Moves, worldVars
<1>5. TrackedInv'
  BY DEF Inv, TrackedInv, worldVars, coordVars
<1>. QED BY <1>1, <1>2, <1>3, <1>4, <1>5 DEF Inv

LEMMA ThrowKeepsInv ==
    ASSUME Inv, NEW p \in Procs, Entered(p), pc[p] # "release", Throw(p),
           UNCHANGED <<journal, bundle, lease, metadata, worldVars, coordVars>>
    PROVE  Inv'
<1>1. Moves(p) /\ UNCHANGED pre /\ pc'[p] = OnError(p)
  BY ThrowMoves DEF Inv
<1>2. /\ OnError(p) \notin {"arm", "attack", "discard"}
      /\ kind[p] # "recover" /\ OnError(p) \in Untouched => pc[p] \in Untouched
  BY DEF OnError
<1>. QED BY <1>1, <1>2, MoveKeepsInv DEF Inv, TypeOK, PreStateInv

LEMMA GotoKeepsInv ==
    ASSUME Inv, NEW p \in Procs, NEW next \in Holding \ {"coordinate"},
           Entered(p), Goto(p, next),
           UNCHANGED <<journal, bundle, lease, metadata, worldVars, coordVars>>,
           next \in Untouched /\ kind[p] # "recover" => pc[p] \in Untouched,
           next \notin {"arm", "attack", "discard"}
    PROVE  Inv'
<1>1. Moves(p) /\ UNCHANGED pre /\ pc'[p] = next
  BY GotoMoves DEF Inv
<1>. QED BY <1>1, MoveKeepsInv DEF Inv, TypeOK, PreStateInv

-------------------------------------------------------------------------------
(* execute, up to and including the attack.                                 *)
LEMMA ExecuteSteps ==
    ASSUME Inv, NEW p \in Procs, ExecuteStep(p)
    PROVE  Inv'
<1>. USE DEF At
<1>t. TypeOK /\ PreStateInv
  BY DEF Inv
<1>c. pc[p] # "idle" => case[p] \in Cases /\ case[p] \in CasesOf[HostOf[p]]
  BY DEF Inv, CaseInv, TypeOK
<1>1. CASE AuditRejection(p)
  BY <1>1, AppendKeepsInv DEF AuditRejection, journalStages
<1>2. CASE Authorize(p)
  BY <1>2, AppendKeepsInv DEF Authorize, journalStages
<1>3. CASE VerifyIdentity(p)
  <2>1. CASE Append(p, "ACTOR_IDENTITY_VERIFIED", "precondition")
    BY <1>3, <2>1, AppendKeepsInv DEF VerifyIdentity, journalStages
  <2>2. CASE Append(p, "SEALED", "release")
    BY <1>3, <2>2, AppendKeepsInv DEF VerifyIdentity, journalStages
  <2>3. CASE Goto(p, "precondition") /\ UNCHANGED journal
    BY <1>3, <2>3, GotoKeepsInv DEF VerifyIdentity
  <2>. QED BY <1>3, <2>1, <2>2, <2>3 DEF VerifyIdentity
<1>4. CASE VerifyPrecondition(p)
  <2>1. CASE /\ pc' = [pc EXCEPT ![p] = "observed"]
             /\ pre' = [pre EXCEPT ![p] = target[case[p]]]
             /\ UNCHANGED <<journal, kind, case, retries>>
    <3>1. target[case[p]] = "original"
      BY <1>4, <1>c DEF VerifyPrecondition, Inv, ExecuteInv
    <3>2. Moves(p) /\ pc'[p] = "observed"
      BY <1>t, <2>1 DEF Moves, TypeOK
    <3>3. pre' \in [Procs -> ObjectStates] /\ \A q \in Procs : pre'[q] = "original"
      BY <1>t, <2>1, <3>1 DEF TypeOK, PreStateInv
    <3>. QED BY <1>4, <2>1, <3>2, <3>3, MoveKeepsInv DEF VerifyPrecondition
  <2>2. CASE Append(p, "SEALED", "release")
    BY <1>4, <2>2, AppendKeepsInv DEF VerifyPrecondition, journalStages
  <2>. QED BY <1>4, <2>1, <2>2 DEF VerifyPrecondition
<1>5. CASE JournalTarget(p)
  BY <1>5, AppendKeepsInv DEF JournalTarget, journalStages
<1>6. CASE CapturePreState(p)
  BY <1>6, AppendKeepsInv DEF CapturePreState, journalStages
<1>7. CASE SealBundle(p)
  <2>1. CASE /\ bundle' = [bundle EXCEPT ![OnHost(p)][case[p]] = pre[p]]
             /\ Goto(p, "arm")
    <3>1. Moves(p) /\ UNCHANGED pre /\ pc'[p] = "arm"
      BY <1>t, <2>1, GotoMoves
    <3>2. /\ bundle' \in [Hosts -> [Cases -> ObjectStates \cup {None}]]
          /\ bundle'[HostOf[p]][case[p]] = "original"
          /\ \A h \in Hosts, c \in Cases :
                \/ bundle'[h][c] = bundle[h][c]
                \/ h = HostOf[p] /\ c = case[p] /\ bundle'[h][c] = "original"
      BY <1>7, <1>t, <1>c, <2>1 DEF SealBundle, TypeOK, PreStateInv
    <3>3. LockInv' /\ LeaseInv'
      BY <1>7, <3>1, MovesKeepLock DEF SealBundle
    <3>4. TypeOK'
      BY <1>7, <1>t, <3>1, <3>2
         DEF SealBundle, TypeOK, CoordTypeOK, Moves, coordVars, worldVars
    <3>5. CaseInv' /\ PreStateInv'
      <4>1. CaseInv /\ PreStateInv /\ pc[p] = "seal"
        BY <1>7 DEF Inv, SealBundle
      <4>2. PreStateInv'
        BY <3>1, <3>2, <4>1 DEF PreStateInv, Moves
      <4>3. \A q \in Procs : pc'[q] # "idle" => case'[q] \in CasesOf[HostOf[q]]
        BY <3>1, <4>1 DEF CaseInv, Moves
      <4>4. case[p] \in CasesOf[HostOf[p]]
        BY <1>c, <4>1
      <4>5. ASSUME NEW h \in Hosts, NEW c \in Cases, bundle'[h][c] # None
            PROVE  c \in CasesOf[h]
        BY <3>2, <4>1, <4>4, <4>5 DEF CaseInv
      <4>. QED BY <4>2, <4>3, <4>5 DEF CaseInv
    <3>6. ExecuteInv'
      <4>1. \A q \in Procs : q # p => ~Entered(q)
        BY <1>7, Exclusion DEF SealBundle
      <4>2. /\ pc[p] = "seal" /\ kind[p] = "execute" /\ ExecuteInv
            /\ UNCHANGED <<journal, target>>
        BY <1>7 DEF Inv, SealBundle, worldVars
      <4>3. /\ \A c \in Cases : target'[c] = "original"
            /\ bundle'[HostOf[p]][case'[p]] = "original"
        BY <3>1, <3>2, <4>2 DEF ExecuteInv, Moves
      <4>. QED BY <3>1, <4>1, <4>2, <4>3 DEF ExecuteInv, Moves
    <3>7. TrackedInv'
      BY <1>7, <3>2 DEF SealBundle, Inv, TrackedInv, worldVars, coordVars
    <3>. QED BY <3>3, <3>4, <3>5, <3>6, <3>7 DEF Inv
  <2>2. CASE Throw(p) /\ UNCHANGED bundle
    BY <1>7, <2>2, ThrowKeepsInv DEF SealBundle
  <2>. QED BY <1>7, <2>1, <2>2 DEF SealBundle
<1>8. CASE Arm(p)
  BY <1>8, AppendKeepsInv DEF Arm, journalStages, cleanupObligationStages
<1>9. CASE SendAttack(p)
  <2>1. Moves(p) /\ UNCHANGED pre /\ pc'[p] \in {"sent", "rollback", "release"}
    BY <1>9, <1>t, GotoMoves, ThrowMoves DEF SendAttack, OnError
  <2>2. /\ target' \in [Cases -> ObjectStates]
        /\ \A c \in Cases : c # case[p] => target'[c] = target[c]
    BY <1>9, <1>t DEF SendAttack, TypeOK
  <2>3. LockInv' /\ LeaseInv'
    BY <1>9, <2>1, MovesKeepLock DEF SendAttack
  <2>4. TypeOK'
    BY <1>9, <1>t, <2>1, <2>2 DEF SendAttack, TypeOK, CoordTypeOK, Moves, coordVars
  <2>5. CaseInv' /\ PreStateInv'
    BY <1>9, <2>1 DEF SendAttack, Inv, CaseInv, PreStateInv, Moves
  <2>6. ExecuteInv'
    <3>1. \A q \in Procs : q # p => ~Entered(q)
      BY <1>9, Exclusion DEF SendAttack
    <3>. QED BY <1>9, <2>1, <3>1 DEF SendAttack, Inv, ExecuteInv, Moves
  <2>7. TrackedInv'
    <3>1. /\ bundle[HostOf[p]][case[p]] = "original"
          /\ journal[HostOf[p]][case[p]] # "ROLLBACK_VERIFIED"
          /\ \A c \in Cases : target[c] = "original"
      BY <1>9 DEF SendAttack, Inv, ExecuteInv
    <3>2. Coordinated => /\ activeLease # None
                         /\ activeLease.case = case[p]
                         /\ activeLease.late = {}
      BY <1>9 DEF SendAttack, Inv, LeaseInv
    <3>. QED BY <1>9, <1>c, <2>2, <3>1, <3>2 DEF SendAttack, TrackedInv, coordVars
  <2>. QED BY <2>3, <2>4, <2>5, <2>6, <2>7 DEF Inv
<1>10. CASE JournalAttack(p)
  BY <1>10, AppendKeepsInv DEF JournalAttack, journalStages, cleanupObligationStages
<1>11. CASE VerifyImpact(p)
  BY <1>11, AppendKeepsInv DEF VerifyImpact, journalStages, cleanupObligationStages
<1>12. CASE ObserveProtected(p)
  <2>1. CASE Goto(p, "rollback")
    BY <1>12, <2>1, GotoKeepsInv DEF ObserveProtected
  <2>2. CASE Throw(p)
    BY <1>12, <2>2, ThrowKeepsInv DEF ObserveProtected
  <2>. QED BY <1>12, <2>1, <2>2 DEF ObserveProtected
<1>13. CASE Abort(p)
  BY <1>13, AppendKeepsInv DEF Abort, journalStages
<1>. QED BY <1>1, <1>2, <1>3, <1>4, <1>5, <1>6, <1>7, <1>8, <1>9, <1>10, <1>11,
         <1>12, <1>13 DEF ExecuteStep

-------------------------------------------------------------------------------
(* recover, and the rollback it shares with execute.                        *)
LEMMA RecoverSteps ==
    ASSUME Inv, NEW p \in Procs, RecoverStep(p)
    PROVE  Inv'
<1>. USE DEF At
<1>t. TypeOK /\ PreStateInv
  BY DEF Inv
<1>c. pc[p] # "idle" => case[p] \in Cases /\ case[p] \in CasesOf[HostOf[p]]
  BY DEF Inv, CaseInv, TypeOK
<1>1. CASE BindActor(p)
  <2>1. CASE Append(p, "ACTOR_IDENTITY_VERIFIED", "binding")
    BY <1>1, <2>1, AppendKeepsInv DEF BindActor, journalStages
  <2>2. CASE Append(p, "CLEANUP_FAILED", "release")
    BY <1>1, <2>2, AppendKeepsInv DEF BindActor, journalStages, cleanupObligationStages
  <2>3. CASE Goto(p, "binding") /\ UNCHANGED journal
    BY <1>1, <2>3, GotoKeepsInv DEF BindActor
  <2>. QED BY <1>1, <2>1, <2>2, <2>3 DEF BindActor
<1>2. CASE BindTarget(p)
  <2>1. CASE Append(p, "TARGET_IDENTITY_VERIFIED", "rollback")
    BY <1>2, <2>1, AppendKeepsInv DEF BindTarget, journalStages
  <2>2. CASE Append(p, "CLEANUP_FAILED", "release")
    BY <1>2, <2>2, AppendKeepsInv DEF BindTarget, journalStages, cleanupObligationStages
  <2>. QED BY <1>2, <2>1, <2>2 DEF BindTarget
<1>3. CASE SendRollback(p)
  <2>1. Moves(p) /\ UNCHANGED pre /\ pc'[p] \in {"rolledBack", "rollback", "release"}
    BY <1>3, <1>t, GotoMoves, ThrowMoves DEF SendRollback, OnError
  <2>2. /\ target' \in [Cases -> ObjectStates]
        /\ \A c \in Cases : target'[c] = target[c] \/ target'[c] = "original"
    <3>1. CASE target' = [target EXCEPT ![case[p]] = "original"]
      BY <1>t, <3>1 DEF TypeOK
    <3>2. CASE UNCHANGED target
      BY <1>t, <3>2 DEF TypeOK
    <3>. QED BY <1>3, <3>1, <3>2 DEF SendRollback
  <2>3. LockInv' /\ LeaseInv'
    BY <1>3, <2>1, MovesKeepLock DEF SendRollback
  <2>4. TypeOK'
    BY <1>3, <1>t, <2>1, <2>2 DEF SendRollback, TypeOK, CoordTypeOK, Moves, coordVars
  <2>5. CaseInv' /\ PreStateInv'
    BY <1>3, <2>1 DEF SendRollback, Inv, CaseInv, PreStateInv, Moves
  <2>6. ExecuteInv'
    <3>1. \A q \in Procs : q # p => ~Entered(q)
      BY <1>3, Exclusion DEF SendRollback
    <3>. QED BY <1>3, <2>1, <3>1 DEF SendRollback, Inv, ExecuteInv, Moves
  <2>7. TrackedInv'
    BY <1>3, <2>2 DEF SendRollback, Inv, TrackedInv, coordVars
  <2>. QED BY <2>3, <2>4, <2>5, <2>6, <2>7 DEF Inv
<1>4. CASE JournalRollback(p)
  BY <1>4, AppendKeepsInv DEF JournalRollback, journalStages, cleanupObligationStages
<1>5. CASE VerifyRollback(p)
  <2>1. CASE /\ target[case[p]] = pre[p]
             /\ Append(p, "ROLLBACK_VERIFIED", "discard")
    <3>1. target[case[p]] = "original"
      BY <1>t, <2>1 DEF PreStateInv
    <3>. QED BY <1>5, <2>1, <3>1, AppendKeepsInv DEF VerifyRollback, journalStages
  <2>2. CASE Append(p, "CLEANUP_FAILED", "release")
    BY <1>5, <2>2, AppendKeepsInv DEF VerifyRollback, journalStages, cleanupObligationStages
  <2>. QED BY <1>5, <2>1, <2>2 DEF VerifyRollback
<1>6. CASE RemoveBundle(p)
  <2>1. Moves(p) /\ UNCHANGED pre /\ pc'[p] = "release"
    BY <1>6, <1>t, GotoMoves DEF RemoveBundle
  <2>2. /\ bundle' \in [Hosts -> [Cases -> ObjectStates \cup {None}]]
        /\ \A h \in Hosts, c \in Cases :
              bundle'[h][c] = bundle[h][c] \/ (c = case[p] /\ bundle'[h][c] = None)
    <3>1. CASE bundle' = [bundle EXCEPT ![OnHost(p)][case[p]] = None]
      BY <1>t, <3>1 DEF TypeOK
    <3>2. CASE UNCHANGED bundle
      BY <1>t, <3>2 DEF TypeOK
    <3>. QED BY <1>6, <3>1, <3>2 DEF RemoveBundle
  <2>3. target[case[p]] = "original"
    BY <1>6 DEF RemoveBundle, Inv, ExecuteInv
  <2>4. LockInv' /\ LeaseInv'
    BY <1>6, <2>1, MovesKeepLock DEF RemoveBundle
  <2>5. TypeOK'
    BY <1>6, <1>t, <2>1, <2>2
       DEF RemoveBundle, TypeOK, CoordTypeOK, Moves, coordVars, worldVars
  <2>6. CaseInv' /\ PreStateInv'
    <3>1. CaseInv /\ PreStateInv /\ pc[p] = "discard"
      BY <1>6 DEF Inv, RemoveBundle
    <3>2. CaseInv'
      <4>1. \A q \in Procs : pc'[q] # "idle" => case'[q] \in CasesOf[HostOf[q]]
        BY <2>1, <3>1 DEF CaseInv, Moves
      <4>2. \A h \in Hosts, c \in Cases : bundle'[h][c] # None => c \in CasesOf[h]
        BY <2>2, <3>1 DEF CaseInv
      <4>. QED BY <4>1, <4>2 DEF CaseInv
    <3>3. PreStateInv'
      BY <2>1, <2>2, <3>1 DEF PreStateInv, Moves
    <3>. QED BY <3>2, <3>3
  <2>7. ExecuteInv'
    <3>1. \A q \in Procs : q # p => ~Entered(q)
      BY <1>6, Exclusion DEF RemoveBundle
    <3>. QED BY <1>6, <2>1, <3>1 DEF RemoveBundle, Inv, ExecuteInv, Moves, worldVars
  <2>8. TrackedInv'
    BY <1>6, <2>2, <2>3 DEF RemoveBundle, Inv, TrackedInv, worldVars, coordVars
  <2>. QED BY <2>4, <2>5, <2>6, <2>7, <2>8 DEF Inv
<1>. QED BY <1>1, <1>2, <1>3, <1>4, <1>5, <1>6 DEF RecoverStep

-------------------------------------------------------------------------------
(* A process that enters a call, waits for the coordinator or returns is    *)
(* not under the lease any more, or not yet.                                *)
Leaves(p) ==
    /\ pc' \in [Procs -> Outside \cup Holding]
    /\ kind' \in [Procs -> {"execute", "reject", "recover"}]
    /\ case' \in [Procs -> Cases \cup {None}]
    /\ pre' \in [Procs -> ObjectStates]
    /\ retries' \in [Procs -> 0..1]
    /\ pc'[p] \in Outside \cup {"coordinate"}
    /\ pc'[p] # "idle" => case'[p] \in CasesOf[HostOf[p]]
    /\ \A q \in Procs : pre'[q] = "original"
    /\ \A q \in Procs : q # p =>
          pc'[q] = pc[q] /\ kind'[q] = kind[q] /\ case'[q] = case[q]

LEMMA LeavesKeep ==
    ASSUME Inv, NEW p \in Procs, Leaves(p), UNCHANGED <<journal, bundle, target>>
    PROVE  CaseInv' /\ PreStateInv' /\ ExecuteInv'
<1>1. CaseInv'
  BY DEF Inv, CaseInv, Leaves
<1>2. PreStateInv'
  BY DEF Inv, PreStateInv, Leaves
<1>3. ExecuteInv'
  BY DEF Inv, ExecuteInv, Leaves
<1>. QED BY <1>1, <1>2, <1>3

LEMMA LeavesKeepCoord ==
    ASSUME Inv, NEW p \in Procs, Leaves(p),
           UNCHANGED <<journal, bundle, target, coordVars>>
    PROVE  LeaseInv' /\ TrackedInv'
<1>1. LeaseInv'
  BY DEF Inv, LeaseInv, Leaves, coordVars
<1>2. TrackedInv'
  BY DEF Inv, TrackedInv, coordVars
<1>. QED BY <1>1, <1>2

LEMMA ReturnLeaves ==
    ASSUME Inv, NEW p \in Procs, Return(p)
    PROVE  Leaves(p) /\ pc'[p] = "idle"
BY DEF Inv, TypeOK, PreStateInv, Return, Leaves

LEMMA BeginLeaves ==
    ASSUME Inv, NEW p \in Procs, NEW k \in {"execute", "reject", "recover"},
           NEW c \in CasesOf[HostOf[p]], Begin(p, k, c, "original")
    PROVE  Leaves(p) /\ pc'[p] = "lock"
BY DEF Inv, TypeOK, PreStateInv, Begin, Leaves

LEMMA CallSteps ==
    ASSUME Inv, NEW p \in Procs, Call(p)
    PROVE  Inv'
<1>1. /\ Leaves(p) /\ pc'[p] = "lock" /\ pc[p] = "idle"
      /\ UNCHANGED <<journal, bundle, lease, metadata, worldVars, coordVars>>
  <2>1. CASE Execute(p)
    BY <2>1, BeginLeaves DEF Execute
  <2>2. CASE Reject(p)
    BY <2>2, BeginLeaves DEF Reject
  <2>3. ASSUME NEW c \in Cases, Recover(p, c)
        PROVE  Leaves(p) /\ pc'[p] = "lock"
    <3>1. bundle[OnHost(p)][c] = "original" /\ c \in CasesOf[HostOf[p]]
      BY <2>3 DEF Recover, Inv, TypeOK, CaseInv, PreStateInv
    <3>. QED BY <2>3, <3>1, BeginLeaves DEF Recover
  <2>. QED BY <2>1, <2>2, <2>3 DEF Call, Execute, Reject, Recover
<1>2. LockInv'
  BY <1>1 DEF Inv, LockInv, Leaves
<1>3. TypeOK'
  BY <1>1 DEF Inv, TypeOK, CoordTypeOK, Leaves, worldVars, coordVars
<1>. QED BY <1>1, <1>2, <1>3, LeavesKeep, LeavesKeepCoord DEF Inv, worldVars

LEMMA LockSteps ==
    ASSUME Inv, OwnCasesOnly, NEW p \in Procs, LockStep(p)
    PROVE  Inv'
<1>t. TypeOK /\ PreStateInv
  BY DEF Inv
<1>c. pc[p] # "idle" => case[p] \in Cases /\ case[p] \in CasesOf[HostOf[p]]
  BY DEF Inv, CaseInv, TypeOK
<1>1. CASE AcquireLocal(p)
  <2>1. TypeOK'
    BY <1>1, <1>t DEF AcquireLocal, Goto, TypeOK, CoordTypeOK, worldVars, coordVars
  <2>2. LockInv'
    BY <1>1 DEF AcquireLocal, LockIsFree, Goto, Inv, TypeOK, LockInv
  <2>3. CASE Coordinated
    <3>1. Leaves(p)
      BY <1>1, <1>t, <1>c, <2>3 DEF AcquireLocal, Goto, Leaves, TypeOK, PreStateInv
    <3>. QED BY <1>1, <2>1, <2>2, <3>1, LeavesKeep, LeavesKeepCoord
             DEF AcquireLocal, Inv, worldVars
  <2>4. CASE ~Coordinated
    <3>1. CaseInv' /\ PreStateInv' /\ LeaseInv' /\ TrackedInv'
      BY <1>1, <2>4 DEF AcquireLocal, Goto, Inv, TypeOK, CaseInv, PreStateInv,
         LeaseInv, TrackedInv, worldVars, coordVars
    <3>2. kind[p] # "recover" => \A c \in Cases : target[c] = "original"
      BY <1>1, <1>t, <2>4 DEF AcquireLocal, ScanAllows, UnresolvedCases, Inv,
         TypeOK, TrackedInv
    <3>3. ExecuteInv'
      BY <1>1, <2>4, <3>2 DEF AcquireLocal, Goto, Inv, TypeOK, ExecuteInv, worldVars
    <3>. QED BY <2>1, <2>2, <3>1, <3>3 DEF Inv
  <2>. QED BY <2>3, <2>4
<1>2. CASE RefuseLocal(p)
  <2>1. Leaves(p) /\ pc'[p] = "idle"
    BY <1>2, ReturnLeaves DEF RefuseLocal
  <2>2. TypeOK'
    BY <1>2, <1>t, <2>1
       DEF RefuseLocal, Leaves, TypeOK, CoordTypeOK, worldVars, coordVars
  <2>3. LockInv'
    BY <1>2, <2>1 DEF RefuseLocal, Leaves, Inv, LockInv
  <2>. QED BY <1>2, <2>1, <2>2, <2>3, LeavesKeep, LeavesKeepCoord
           DEF RefuseLocal, Inv, worldVars
<1>3. CASE AcquireDistributed(p)
  <2>1. /\ pc[p] = "coordinate" /\ Coordinated
        /\ activeLease = None
        /\ obligations # {} => kind[p] = "recover" /\ obligations \subseteq {case[p]}
        /\ activeLease' = [holder |-> p, case |-> case[p], expired |-> FALSE,
                           late |-> {}]
        /\ UNCHANGED <<obligations, journal, bundle, lease, metadata, worldVars>>
        /\ Goto(p, "locked")
    BY <1>3 DEF AcquireDistributed, CoordAcquire, MayAcquire, Inv, LockInv
  <2>2. \A q \in Procs : ~Entered(q)
    BY <2>1 DEF Inv, LeaseInv
  <2>3. /\ pc' = [pc EXCEPT ![p] = "locked"]
        /\ UNCHANGED <<kind, case, pre, retries>>
    BY <2>1 DEF Goto
  <2>6. activeLease' \in Lease
    BY <1>c, <2>1 DEF Lease
  <2>4. TypeOK'
    BY <1>t, <2>1, <2>3, <2>6 DEF TypeOK, CoordTypeOK, worldVars
  <2>5. LockInv' /\ CaseInv' /\ PreStateInv'
    BY <1>t, <1>c, <2>1, <2>3 DEF Inv, LockInv, CaseInv, PreStateInv, TypeOK
  <2>7. LeaseInv'
    <3>1. pc'[p] = "locked" /\ \A q \in Procs : q # p => pc'[q] = pc[q]
      BY <1>t, <2>3 DEF TypeOK
    <3>. QED BY <2>1, <2>2, <2>3, <2>6, <3>1, NoneAssumption DEF LeaseInv
  <2>8. \A c \in Cases : target[c] = "mutated" => c \in obligations
    BY <2>1 DEF Inv, TrackedInv
  <2>9. ExecuteInv'
    <3>1. kind[p] # "recover" => \A c \in Cases : target[c] = "original"
      BY <1>t, <2>1, <2>8 DEF TypeOK
    <3>2. pc'[p] = "locked" /\ \A q \in Procs : q # p => pc'[q] = pc[q]
      BY <1>t, <2>3 DEF TypeOK
    <3>. QED BY <2>1, <2>2, <2>3, <3>1, <3>2 DEF ExecuteInv, worldVars
  <2>10. TrackedInv'
    BY <2>1, <2>8 DEF Inv, TrackedInv, worldVars
  <2>. QED BY <2>4, <2>5, <2>7, <2>9, <2>10 DEF Inv
<1>4. CASE RefuseDistributed(p)
  <2>1. Leaves(p) /\ pc'[p] = "idle"
    BY <1>4, ReturnLeaves DEF RefuseDistributed
  <2>2. abandoned' \in SUBSET (Cases \X BOOLEAN)
    <3>1. <<case[p], kind[p] = "recover">> \in Cases \X BOOLEAN
      BY <1>4, <1>c DEF RefuseDistributed
    <3>. QED BY <1>4, <1>t, <3>1 DEF RefuseDistributed, TypeOK
  <2>3. TypeOK'
    BY <1>4, <1>t, <2>1, <2>2
       DEF RefuseDistributed, FreeLocal, Leaves, TypeOK, CoordTypeOK, coordVars
  <2>4. LockInv'
    BY <1>4, <2>1 DEF RefuseDistributed, FreeLocal, Leaves, Inv, TypeOK, LockInv
  <2>. QED BY <1>4, <2>1, <2>3, <2>4, LeavesKeep, LeavesKeepCoord
           DEF RefuseDistributed, Inv
<1>5. CASE Release(p)
  <2>1. Leaves(p) /\ pc'[p] = "idle" /\ pc[p] = "release"
    BY <1>5, ReturnLeaves DEF Release
  <2>2. \A q \in Procs : q # p => ~Entered(q)
    BY <2>1, Exclusion
  <2>3. PICK report \in {UnresolvedCases(OnHost(p))} \cup {{case[p]}} :
             \/ OwnsDistributed(p) /\ CoordRelease(report)
             \/ OwnsDistributed(p) /\ CoordReleaseLate(report)
             \/ ~OwnsDistributed(p) /\ UNCHANGED coordVars
    BY <1>5 DEF Release
  <2>4. report \in SUBSET Cases
    BY <1>c, <2>1, <2>3 DEF UnresolvedCases
  <2>5. CoordTypeOK'
    <3>1. CASE CoordRelease(report)
      BY <1>t, <2>4, <3>1 DEF CoordRelease, TypeOK, CoordTypeOK
    <3>2. CASE CoordReleaseLate(report)
      <4>1. activeLease \in Lease
        BY <1>t, <3>2 DEF CoordReleaseLate, TypeOK, CoordTypeOK
      <4>2. activeLease' \in Lease
        BY <2>4, <3>2, <4>1 DEF CoordReleaseLate, Lease
      <4>. QED BY <1>t, <3>2, <4>2 DEF CoordReleaseLate, TypeOK, CoordTypeOK
    <3>3. CASE UNCHANGED coordVars
      BY <1>t, <3>3 DEF coordVars, TypeOK, CoordTypeOK
    <3>. QED BY <2>3, <3>1, <3>2, <3>3
  <2>6. TypeOK'
    BY <1>5, <1>t, <2>1, <2>5 DEF Release, FreeLocal, Leaves, TypeOK, worldVars
  <2>7. LockInv'
    BY <1>5, <2>1 DEF Release, FreeLocal, Leaves, Inv, TypeOK, LockInv
  <2>8. LeaseInv'
    BY <2>1, <2>2 DEF LeaseInv, Leaves
  <2>9. TrackedInv'
    <3>. SUFFICES ASSUME NEW c \in Cases, target[c] = "mutated"
                  PROVE  /\ \E h \in Hosts : /\ bundle[h][c] = "original"
                                             /\ journal[h][c] # "ROLLBACK_VERIFIED"
                         /\ Coordinated =>
                               IF activeLease' # None /\ activeLease'.case = c
                               THEN \A r \in activeLease'.late : c \in r
                               ELSE c \in obligations'
      BY <1>5 DEF Release, TrackedInv, worldVars
    <3>1. PICK h \in Hosts : /\ bundle[h][c] = "original"
                             /\ journal[h][c] # "ROLLBACK_VERIFIED"
      BY DEF Inv, TrackedInv
    <3>2. c = case[p] => c \in report
      <4>1. c \in CasesOf[h]
        BY <3>1 DEF Inv, CaseInv
      <4>2. c = case[p] => h = HostOf[p]
        BY <1>c, <2>1, <4>1 DEF OwnCasesOnly
      <4>. QED BY <2>3, <3>1, <4>2 DEF UnresolvedCases
    <3>3. Coordinated => /\ OwnsDistributed(p) /\ activeLease.case = case[p]
                         /\ activeLease.late = {} /\ activeLease \in Lease
      BY <1>t, <2>1 DEF Inv, LeaseInv, OwnsDistributed, TypeOK, CoordTypeOK
    <3>4. Coordinated /\ c # case[p] => c \in obligations
      BY <3>3 DEF Inv, TrackedInv
    <3>5. CASE Coordinated /\ CoordRelease(report)
      BY <3>1, <3>2, <3>3, <3>4, <3>5 DEF CoordRelease
    <3>6. CASE Coordinated /\ CoordReleaseLate(report)
      <4>1. /\ activeLease'.case = case[p] /\ activeLease'.late = {report}
            /\ obligations' = obligations
        BY <3>3, <3>6 DEF CoordReleaseLate, Lease
      <4>2. activeLease' \in Lease
        BY <2>4, <3>3, <3>6 DEF CoordReleaseLate, Lease
      <4>. QED BY <3>1, <3>2, <3>4, <4>1, <4>2, NoneAssumption
    <3>. QED BY <2>3, <3>1, <3>3, <3>5, <3>6
  <2>. QED BY <1>5, <2>1, <2>6, <2>7, <2>8, <2>9, LeavesKeep
           DEF Release, Inv, worldVars
<1>. QED BY <1>1, <1>2, <1>3, <1>4, <1>5 DEF LockStep

(* A process that dies keeps its files and its distributed lease.           *)
LEMMA CrashStep ==
    ASSUME Inv, NEW p \in Procs, Crash(p)
    PROVE  Inv'
<1>1. /\ Leaves(p) /\ pc'[p] = "idle"
      /\ UNCHANGED <<journal, bundle, worldVars, coordVars>>
  BY ReturnLeaves DEF Crash
<1>2. CASE lease[HostOf[p]] = p
  <2>1. /\ lease' = [lease EXCEPT ![HostOf[p]] = None]
        /\ metadata' = [metadata EXCEPT ![HostOf[p]] = "dead"]
    BY <1>2 DEF Crash
  <2>2. TypeOK'
    BY <1>1, <2>1 DEF Inv, TypeOK, CoordTypeOK, Leaves, worldVars, coordVars
  <2>3. LockInv'
    BY <1>1, <1>2, <2>1 DEF Inv, TypeOK, LockInv, Leaves
  <2>. QED BY <1>1, <2>2, <2>3, LeavesKeep, LeavesKeepCoord DEF Inv, worldVars
<1>3. CASE lease[HostOf[p]] # p
  <2>1. UNCHANGED <<lease, metadata>>
    BY <1>3 DEF Crash
  <2>2. TypeOK'
    BY <1>1, <2>1 DEF Inv, TypeOK, CoordTypeOK, Leaves, worldVars, coordVars
  <2>3. LockInv'
    BY <1>1, <1>3, <2>1 DEF Inv, TypeOK, LockInv, Leaves
  <2>. QED BY <1>1, <2>2, <2>3, LeavesKeep, LeavesKeepCoord DEF Inv, worldVars
<1>. QED BY <1>2, <1>3

-------------------------------------------------------------------------------
(* Steps that no process of the namespace takes.                            *)
LEMMA ProcsStay ==
    ASSUME Inv, UNCHANGED <<journal, bundle, lease, procVars, target>>
    PROVE  CaseInv' /\ LockInv' /\ PreStateInv' /\ ExecuteInv'
<1>1. CaseInv' /\ LockInv'
  BY DEF Inv, CaseInv, LockInv, procVars
<1>2. PreStateInv' /\ ExecuteInv'
  BY DEF Inv, PreStateInv, ExecuteInv, procVars
<1>. QED BY <1>1, <1>2

(* A lease that only changes its expiry.                                    *)
LEMMA ExpirySteps ==
    ASSUME Inv, NEW e \in BOOLEAN, activeLease # None,
           activeLease' = [activeLease EXCEPT !.expired = e],
           UNCHANGED <<localVars, worldVars, obligations>>
    PROVE  Inv'
<1>1. activeLease \in Lease
  BY DEF Inv, TypeOK, CoordTypeOK
<1>2. /\ activeLease' \in Lease
      /\ activeLease'.holder = activeLease.holder
      /\ activeLease'.case = activeLease.case
      /\ activeLease'.late = activeLease.late
  BY <1>1 DEF Lease
<1>3. TypeOK'
  BY <1>2 DEF Inv, TypeOK, CoordTypeOK, localVars, procVars, worldVars
<1>4. activeLease' # None
  BY <1>2, NoneAssumption
<1>5. LeaseInv'
  BY <1>2, <1>4 DEF Inv, LeaseInv, localVars, procVars
<1>6. TrackedInv'
  BY <1>2, <1>4 DEF Inv, TrackedInv, localVars, worldVars
<1>. QED BY <1>3, <1>5, <1>6, ProcsStay DEF Inv, localVars, worldVars

(* Requests that arrive after their client gave up, and operators.          *)
LEMMA EnvironmentSteps ==
    ASSUME Inv, ~OrphansLive, Environment
    PROVE  Inv'
<1>t. TypeOK
  BY DEF Inv
<1>1. CASE DeliverAbandoned
  <2>1. PICK r \in abandoned :
          /\ abandoned' = abandoned \ {r}
          /\ \/ CoordAcquire(None, r[1], r[2])
             \/ UNCHANGED coordVars
    BY <1>1 DEF DeliverAbandoned
  <2>2. /\ r[1] \in Cases
        /\ abandoned' \in SUBSET (Cases \X BOOLEAN)
        /\ UNCHANGED <<localVars, target, calm>>
    BY <1>1, <1>t, <2>1 DEF DeliverAbandoned, TypeOK
  <2>3. CASE CoordAcquire(None, r[1], r[2])
    <3>1. /\ activeLease = None
          /\ activeLease' = [holder |-> None, case |-> r[1], expired |-> FALSE,
                             late |-> {}]
          /\ UNCHANGED obligations
      BY <2>3 DEF CoordAcquire, MayAcquire
    <3>2. activeLease' \in Lease
      BY <2>2, <3>1 DEF Lease
    <3>3. TypeOK'
      BY <1>t, <2>2, <3>1, <3>2 DEF TypeOK, CoordTypeOK, localVars, procVars
    <3>4. LeaseInv'
      BY <2>2, <3>1 DEF Inv, LeaseInv, localVars, procVars
    <3>5. TrackedInv'
      BY <2>2, <3>1 DEF Inv, TrackedInv, localVars
    <3>. QED BY <2>2, <3>3, <3>4, <3>5, ProcsStay DEF Inv, localVars
  <2>4. CASE UNCHANGED coordVars
    <3>1. TypeOK'
      BY <1>t, <2>2, <2>4 DEF TypeOK, CoordTypeOK, localVars, procVars, coordVars
    <3>2. LeaseInv' /\ TrackedInv'
      BY <2>2, <2>4 DEF Inv, LeaseInv, TrackedInv, localVars, procVars, coordVars
    <3>. QED BY <2>2, <3>1, <3>2, ProcsStay DEF Inv, localVars
  <2>. QED BY <2>1, <2>3, <2>4
<1>2. CASE DeliverRelease
  <2>1. PICK report \in activeLease.late : CoordRelease(report)
    BY <1>2 DEF DeliverRelease, CoordDeliverRelease
  <2>2. /\ activeLease # None /\ activeLease' = None
        /\ obligations' = (obligations \ {activeLease.case}) \cup report
        /\ UNCHANGED <<localVars, worldVars>>
    BY <1>2, <2>1 DEF DeliverRelease, CoordRelease
  <2>3. report \in SUBSET Cases
    BY <1>t, <2>1, <2>2 DEF TypeOK, CoordTypeOK, Lease
  <2>4. TypeOK'
    BY <1>t, <2>2, <2>3 DEF TypeOK, CoordTypeOK, localVars, procVars, worldVars
  <2>5. LeaseInv'
    BY <2>1, <2>2 DEF Inv, LeaseInv, localVars, procVars
  <2>6. TrackedInv'
    BY <2>1, <2>2 DEF Inv, TrackedInv, localVars, worldVars
  <2>. QED BY <2>2, <2>4, <2>5, <2>6, ProcsStay DEF Inv, localVars, worldVars
<1>3. CASE ExpireLease
  BY <1>3, ExpirySteps DEF ExpireLease, CoordExpire
<1>4. CASE Orphan
  <2>1. /\ activeLease # None /\ activeLease' = None
        /\ obligations' = obligations \cup {activeLease.case}
        /\ UNCHANGED <<localVars, worldVars>>
        /\ \A p \in Procs : ~(activeLease.holder = p /\ Entered(p))
    BY <1>4 DEF Orphan, CoordOrphan
  <2>2. activeLease.case \in Cases
    BY <1>t, <2>1 DEF TypeOK, CoordTypeOK, Lease
  <2>3. TypeOK'
    BY <1>t, <2>1, <2>2 DEF TypeOK, CoordTypeOK, localVars, procVars, worldVars
  <2>4. LeaseInv'
    BY <2>1 DEF Inv, LeaseInv, localVars, procVars
  <2>5. TrackedInv'
    BY <2>1 DEF Inv, TrackedInv, localVars, worldVars
  <2>. QED BY <2>1, <2>3, <2>4, <2>5, ProcsStay DEF Inv, localVars, worldVars
<1>5. ASSUME NEW h \in Hosts, ReusePid(h) PROVE Inv'
  <2>1. TypeOK'
    BY <1>5, <1>t DEF ReusePid, TypeOK, CoordTypeOK, procVars, worldVars, coordVars
  <2>2. LeaseInv' /\ TrackedInv'
    BY <1>5 DEF ReusePid, Inv, LeaseInv, TrackedInv, procVars, worldVars, coordVars
  <2>. QED BY <1>5, <2>1, <2>2, ProcsStay DEF ReusePid, Inv, worldVars
<1>6. ASSUME NEW c \in Cases, Resolve(c) PROVE Inv'
  <2>1. /\ target[c] = "original" /\ activeLease = None /\ activeLease' = None
        /\ obligations' = obligations \ {c}
        /\ UNCHANGED <<localVars, worldVars>>
    BY <1>6 DEF Resolve, CoordResolve
  <2>2. TypeOK'
    BY <1>t, <2>1 DEF TypeOK, CoordTypeOK, localVars, procVars, worldVars
  <2>3. LeaseInv'
    BY <2>1 DEF Inv, LeaseInv, localVars, procVars
  <2>4. TrackedInv'
    BY <2>1 DEF Inv, TrackedInv, localVars, worldVars
  <2>. QED BY <2>1, <2>2, <2>3, <2>4, ProcsStay DEF Inv, localVars, worldVars
<1>. QED BY <1>1, <1>2, <1>3, <1>4, <1>5, <1>6 DEF Environment

-------------------------------------------------------------------------------
LEMMA InitInv == Init => Inv
<1>. SUFFICES ASSUME Init PROVE Inv
  OBVIOUS
<1>1. TypeOK
  <2>1. CoordTypeOK
    BY DEF Init, CoordInit, CoordTypeOK
  <2>2. /\ journal \in [Hosts -> [Cases -> journalStages \cup {None}]]
        /\ bundle \in [Hosts -> [Cases -> ObjectStates \cup {None}]]
    BY DEF Init
  <2>3. /\ lease \in [Hosts -> Procs \cup {None}]
        /\ metadata \in [Hosts -> Procs \cup {None, "dead", "reused"}]
        /\ target \in [Cases -> ObjectStates]
        /\ abandoned \in SUBSET (Cases \X BOOLEAN)
        /\ calm \in BOOLEAN
    BY DEF Init
  <2>4. /\ pc \in [Procs -> Outside \cup Holding]
        /\ kind \in [Procs -> {"execute", "reject", "recover"}]
        /\ case \in [Procs -> Cases \cup {None}]
        /\ pre \in [Procs -> ObjectStates]
        /\ retries \in [Procs -> 0..1]
    BY DEF Init
  <2>. QED BY <2>1, <2>2, <2>3, <2>4 DEF TypeOK
<1>2. CaseInv /\ LockInv /\ PreStateInv
  BY DEF Init, CaseInv, LockInv, PreStateInv
<1>3. LeaseInv /\ ExecuteInv /\ TrackedInv
  BY DEF Init, LeaseInv, ExecuteInv, TrackedInv
<1>. QED BY <1>1, <1>2, <1>3 DEF Inv

(* The invariant is inductive.                                              *)
LEMMA NextInv ==
    ASSUME OwnCasesOnly, ~OrphansLive, Inv, [Next]_vars
    PROVE  Inv'
<1>1. ASSUME NEW p \in Procs, Renew(p) PROVE Inv'
  BY <1>1, ExpirySteps DEF Renew, CoordRenew
<1>2. ASSUME NEW p \in Procs, Call(p) \/ ProcStep(p) PROVE Inv'
  BY <1>2, CallSteps, LockSteps, ExecuteSteps, RecoverSteps DEF ProcStep
<1>3. CASE UNCHANGED vars
  <2>1. TypeOK'
    BY <1>3 DEF Inv, TypeOK, CoordTypeOK, vars, localVars, procVars, worldVars,
       coordVars
  <2>2. LeaseInv' /\ TrackedInv'
    BY <1>3 DEF Inv, LeaseInv, TrackedInv, vars, localVars, procVars, worldVars,
       coordVars
  <2>. QED BY <1>3, <2>1, <2>2, ProcsStay DEF Inv, vars, localVars, worldVars
<1>. QED BY <1>1, <1>2, <1>3, CrashStep, EnvironmentSteps DEF Next

(* Every reachable state of the kernel, with any number of hosts, processes *)
(* and contracts, whatever crashes, satisfies the inductive invariant, when *)
(* no contract runs from two hosts and operators only orphan dead leases.   *)
THEOREM Invariance ==
    ASSUME OwnCasesOnly, ~OrphansLive
    PROVE  Spec => []Inv
<1>1. Inv /\ [Next]_vars => Inv'
  BY NextInv
<1>. QED BY <1>1, InitInv, PTL DEF Spec

(* Type correctness of the kernel's state.                                  *)
THEOREM TypeCorrect ==
    ASSUME OwnCasesOnly, ~OrphansLive
    PROVE  Spec => []TypeOK
<1>1. Inv => TypeOK
  BY DEF Inv
<1>. QED BY <1>1, Invariance, PTL

(* A mutated target always has its original state in a recovery bundle on a *)
(* host whose lock refuses ordinary mutations.                              *)
THEOREM Recoverable ==
    ASSUME OwnCasesOnly, ~OrphansLive
    PROVE  Spec => []MutationIsRecoverable
<1>1. Inv => MutationIsRecoverable
  BY DEF Inv, TrackedInv, MutationIsRecoverable, UnresolvedCases
<1>. QED BY <1>1, Invariance, PTL

(* A mutated target keeps the coordinator's namespace closed: an ACTIVE     *)
(* lease or its obligation.                                                 *)
THEOREM Blocked ==
    ASSUME OwnCasesOnly, ~OrphansLive
    PROVE  Spec => []NamespaceStaysBlocked
<1>1. Inv => NamespaceStaysBlocked
  BY DEF Inv, TrackedInv, NamespaceStaysBlocked
<1>. QED BY <1>1, Invariance, PTL

(* The pre-state sealed for a rollback is never a mutated one.              *)
THEOREM PreStateOriginal ==
    ASSUME OwnCasesOnly, ~OrphansLive
    PROVE  Spec => []SealedPreStateIsOriginal
<1>1. Inv => SealedPreStateIsOriginal
  BY DEF Inv, PreStateInv, SealedPreStateIsOriginal
<1>. QED BY <1>1, Invariance, PTL

(* No two processes of the namespace are between MUTATION_ARMED (or the     *)
(* rollback of a recovery) and release.                                     *)
THEOREM OneWindow ==
    ASSUME OwnCasesOnly, ~OrphansLive
    PROVE  Spec => []SingleMutationWindow
<1>1. Inv => SingleMutationWindow
  BY Exclusion DEF SingleMutationWindow
<1>. QED BY <1>1, Invariance, PTL

-------------------------------------------------------------------------------
(* The steps that change a target.                                          *)
LEMMA OthersKeepTarget ==
    ASSUME [Next]_vars,
           \A p \in Procs : ~SendAttack(p) /\ ~SendRollback(p)
    PROVE  UNCHANGED target
<1>. USE DEF worldVars
<1>1. ASSUME NEW p \in Procs, Call(p) PROVE UNCHANGED target
  BY <1>1 DEF Call, Execute, Reject, Recover
<1>2. ASSUME NEW p \in Procs, LockStep(p) PROVE UNCHANGED target
  BY <1>2 DEF LockStep, AcquireLocal, RefuseLocal, AcquireDistributed,
     RefuseDistributed, Release
<1>3. ASSUME NEW p \in Procs, ExecuteStep(p) PROVE UNCHANGED target
  BY <1>3 DEF ExecuteStep, AuditRejection, Authorize, VerifyIdentity,
     VerifyPrecondition, JournalTarget, CapturePreState, SealBundle, Arm,
     JournalAttack, VerifyImpact, ObserveProtected, Abort
<1>4. ASSUME NEW p \in Procs, RecoverStep(p) PROVE UNCHANGED target
  BY <1>4 DEF RecoverStep, BindActor, BindTarget, JournalRollback,
     VerifyRollback, RemoveBundle
<1>5. ASSUME NEW p \in Procs, Renew(p) \/ Crash(p) PROVE UNCHANGED target
  BY <1>5 DEF Renew, Crash
<1>6. ASSUME Environment PROVE UNCHANGED target
  BY <1>6 DEF Environment, DeliverAbandoned, DeliverRelease, ExpireLease,
     Orphan, ReusePid, Resolve
<1>7. ASSUME UNCHANGED vars PROVE UNCHANGED target
  BY <1>7 DEF vars
<1>. QED BY <1>1, <1>2, <1>3, <1>4, <1>5, <1>6, <1>7 DEF Next, ProcStep

(* The kernel implements SingleMutation: whatever fails, at most one object *)
(* of the namespace is mutated at a time, and the next one is only touched  *)
(* after the last one was restored.                                         *)
THEOREM Refinement ==
    ASSUME OwnCasesOnly, ~OrphansLive
    PROVE  Spec => AtMostOneMutated
<1>1. Init => Promise!Init
  BY DEF Init, Promise!Init
<1>2. Inv /\ [Next]_vars => [Promise!Next]_target
  <2>. SUFFICES ASSUME Inv, [Next]_vars PROVE [Promise!Next]_target
    OBVIOUS
  <2>1. ASSUME NEW p \in Procs, SendAttack(p)
        PROVE  [Promise!Next]_target
    <3>1. case[p] \in Cases /\ \A c \in Cases : target[c] = "original"
      BY <2>1 DEF SendAttack, At, Inv, CaseInv, TypeOK, ExecuteInv
    <3>2. target' = [target EXCEPT ![case[p]] = "mutated"] \/ UNCHANGED target
      BY <2>1 DEF SendAttack
    <3>. QED BY <3>1, <3>2 DEF Promise!Next, Promise!Mutate
  <2>2. ASSUME NEW p \in Procs, SendRollback(p)
        PROVE  [Promise!Next]_target
    <3>1. case[p] \in Cases /\ target \in [Cases -> {"original", "mutated"}]
      BY <2>2 DEF SendRollback, Inv, CaseInv, TypeOK
    <3>2. target' = [target EXCEPT ![case[p]] = "original"] \/ UNCHANGED target
      BY <2>2 DEF SendRollback
    <3>3. CASE target[case[p]] = "mutated"
      BY <3>1, <3>2, <3>3 DEF Promise!Next, Promise!Restore
    <3>4. CASE target[case[p]] = "original"
      BY <3>1, <3>2, <3>4
    <3>. QED BY <3>1, <3>3, <3>4
  <2>. QED BY <2>1, <2>2, OthersKeepTarget
<1>. QED BY <1>1, <1>2, Invariance, PTL DEF Spec, AtMostOneMutated, Promise!Spec

-------------------------------------------------------------------------------
(* What a step may do to a host's journal and bundles.                      *)
LEMMA FilesChange ==
    ASSUME Inv, [Next]_vars, UNCHANGED <<journal, bundle>> => FALSE
    PROVE  \E p \in Procs :
              /\ Entered(p) /\ case[p] \in Cases
              /\ \/ /\ UNCHANGED bundle
                    /\ \E stage \in journalStages, next \in Holding \ {"coordinate"} :
                          /\ Append(p, stage, next)
                          /\ stage = "ROLLBACK_VERIFIED" => target[case[p]] = pre[p]
                 \/ RemoveBundle(p)
                 \/ /\ bundle' = [bundle EXCEPT ![OnHost(p)][case[p]] = pre[p]]
                    /\ UNCHANGED journal
<1>. DEFINE Files == <<journal, bundle>>
            Appends(p) ==
               /\ UNCHANGED bundle
               /\ \E stage \in journalStages, next \in Holding \ {"coordinate"} :
                     /\ Append(p, stage, next)
                     /\ stage = "ROLLBACK_VERIFIED" => target[case[p]] = pre[p]
            Seals(p) == /\ bundle' = [bundle EXCEPT ![OnHost(p)][case[p]] = pre[p]]
                        /\ UNCHANGED journal
<1>0. \A p \in Procs : Entered(p) => case[p] \in Cases
  BY DEF Inv, CaseInv, TypeOK
<1>1. ASSUME NEW p \in Procs, Call(p) \/ LockStep(p) PROVE UNCHANGED Files
  BY <1>1 DEF Call, Execute, Reject, Recover, LockStep, AcquireLocal, RefuseLocal,
     AcquireDistributed, RefuseDistributed, Release
<1>2. ASSUME NEW p \in Procs, Renew(p) \/ Crash(p) PROVE UNCHANGED Files
  BY <1>2 DEF Renew, Crash, localVars
<1>3. ASSUME Environment PROVE UNCHANGED Files
  BY <1>3 DEF Environment, DeliverAbandoned, DeliverRelease, ExpireLease,
     Orphan, ReusePid, Resolve, localVars
<1>4. ASSUME UNCHANGED vars PROVE UNCHANGED Files
  BY <1>4 DEF vars, localVars
<1>5. ASSUME NEW p \in Procs, ExecuteStep(p)
      PROVE  Entered(p) /\ (UNCHANGED Files \/ Appends(p) \/ Seals(p))
  <2>. USE DEF At, journalStages, cleanupObligationStages
  <2>1. CASE AuditRejection(p) \/ Authorize(p)
    BY <2>1 DEF AuditRejection, Authorize
  <2>2. CASE VerifyIdentity(p)
    BY <2>2 DEF VerifyIdentity
  <2>3. CASE VerifyPrecondition(p)
    BY <2>3 DEF VerifyPrecondition
  <2>4. CASE JournalTarget(p) \/ CapturePreState(p)
    BY <2>4 DEF JournalTarget, CapturePreState
  <2>5. CASE SealBundle(p)
    BY <2>5 DEF SealBundle
  <2>6. CASE Arm(p) \/ JournalAttack(p)
    BY <2>6 DEF Arm, JournalAttack
  <2>7. CASE VerifyImpact(p) \/ Abort(p)
    BY <2>7 DEF VerifyImpact, Abort
  <2>8. CASE SendAttack(p) \/ ObserveProtected(p)
    BY <2>8 DEF SendAttack, ObserveProtected
  <2>. QED BY <1>5, <2>1, <2>2, <2>3, <2>4, <2>5, <2>6, <2>7, <2>8 DEF ExecuteStep
<1>6. ASSUME NEW p \in Procs, RecoverStep(p)
      PROVE  Entered(p) /\ (UNCHANGED Files \/ Appends(p) \/ RemoveBundle(p))
  <2>. USE DEF At, journalStages, cleanupObligationStages
  <2>1. CASE BindActor(p)
    BY <2>1 DEF BindActor
  <2>2. CASE BindTarget(p)
    BY <2>2 DEF BindTarget
  <2>3. CASE SendRollback(p)
    BY <2>3 DEF SendRollback
  <2>4. CASE JournalRollback(p)
    BY <2>4 DEF JournalRollback
  <2>5. CASE VerifyRollback(p)
    BY <2>5 DEF VerifyRollback
  <2>6. CASE RemoveBundle(p)
    BY <2>6 DEF RemoveBundle
  <2>. QED BY <1>6, <2>1, <2>2, <2>3, <2>4, <2>5, <2>6 DEF RecoverStep
<1>. QED BY <1>0, <1>1, <1>2, <1>3, <1>4, <1>5, <1>6 DEF Next, ProcStep

(* Only ROLLBACK_VERIFIED, appended when the target is back in its sealed   *)
(* pre-state, ends an obligation that has a bundle.                         *)
THEOREM OnlyVerifiedClears ==
    ASSUME OwnCasesOnly, ~OrphansLive
    PROVE  Spec => OnlyVerifiedRollbackClears
<1>. DEFINE Clears(h, c) == /\ bundle[h][c] # None
                            /\ c \in UnresolvedCases(h)
                            /\ c \notin UnresolvedCases(h)'
            Verified(h, c) == /\ journal'[h][c] = "ROLLBACK_VERIFIED"
                              /\ target[c] = bundle[h][c]
<1>1. ASSUME Inv, [Next]_vars, NEW h \in Hosts, NEW c \in Cases, Clears(h, c)
      PROVE  Verified(h, c)
  <2>1. \/ journal'[h][c] # journal[h][c]
        \/ bundle'[h][c] # bundle[h][c]
    BY <1>1 DEF UnresolvedCases
  <2>2. PICK p \in Procs : Entered(p) /\ case[p] \in Cases
           /\ \/ /\ UNCHANGED bundle
                 /\ \E stage \in journalStages, next \in Holding \ {"coordinate"} :
                       /\ Append(p, stage, next)
                       /\ stage = "ROLLBACK_VERIFIED" => target[case[p]] = pre[p]
              \/ RemoveBundle(p)
              \/ /\ bundle' = [bundle EXCEPT ![OnHost(p)][case[p]] = pre[p]]
                 /\ UNCHANGED journal
    BY <1>1, <2>1, FilesChange
  <2>3. Inv
    BY <1>1
  <2>4. CASE RemoveBundle(p)
    <3>1. journal[HostOf[p]][case[p]] = "ROLLBACK_VERIFIED" /\ UNCHANGED journal
      BY <2>3, <2>4 DEF RemoveBundle, Inv, ExecuteInv
    <3>2. h # HostOf[p] \/ c # case[p]
      BY <1>1, <3>1 DEF UnresolvedCases, cleanupObligationStages
    <3>3. bundle'[h][c] = bundle[h][c]
      <4>1. CASE bundle' = [bundle EXCEPT ![OnHost(p)][case[p]] = None]
        BY <2>3, <3>2, <4>1 DEF Inv, TypeOK
      <4>. QED BY <2>4, <4>1 DEF RemoveBundle
    <3>. QED BY <2>1, <3>1, <3>3
  <2>5. CASE /\ bundle' = [bundle EXCEPT ![OnHost(p)][case[p]] = pre[p]]
             /\ UNCHANGED journal
    BY <1>1, <2>2, <2>3, <2>5 DEF Inv, TypeOK, UnresolvedCases
  <2>6. ASSUME NEW stage \in journalStages, NEW next \in Holding \ {"coordinate"},
               Append(p, stage, next), UNCHANGED bundle,
               stage = "ROLLBACK_VERIFIED" => target[case[p]] = pre[p]
        PROVE  Verified(h, c)
    <3>1. \/ journal'[h][c] = journal[h][c]
          \/ h = HostOf[p] /\ c = case[p] /\ journal'[h][c] = stage
      BY <2>2, <2>3, <2>6, AppendEffect DEF Inv
    <3>2. journal'[h][c] = "ROLLBACK_VERIFIED"
      BY <1>1, <2>6 DEF UnresolvedCases
    <3>3. bundle[h][c] = "original"
      BY <1>1, <2>3 DEF Inv, TypeOK, PreStateInv
    <3>. QED BY <2>1, <2>3, <2>6, <3>1, <3>2, <3>3 DEF Inv, PreStateInv
  <2>. QED BY <2>2, <2>4, <2>5, <2>6
<1>2. Inv /\ [Next]_vars =>
        [\A h \in Hosts, c \in Cases : Clears(h, c) => Verified(h, c)]_vars
  BY <1>1
<1>. QED BY <1>2, Invariance, PTL DEF Spec, OnlyVerifiedRollbackClears

===============================================================================
