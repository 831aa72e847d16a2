-------------------------- MODULE ControlledMutation --------------------------
(***************************************************************************)
(* The controlled-mutation kernel: the executor (execute, recover), its    *)
(* journal, the recovery vault, the per-host global mutation lock and the  *)
(* distributed coordinator, with processes that crash between any two      *)
(* steps, requests to the target and to the coordinator that are lost, and *)
(* journal writes that fail before or after they became durable.           *)
(***************************************************************************)
EXTENDS MutationCoordinator

CONSTANTS
    Hosts,          \* lock roots (one coordination directory per host)
    HostOf,         \* the host a process runs on
    CasesOf,        \* the contracts that are executed on a host
    Coordinated,    \* is a distributed coordinator configured?
    PidsAreReused,  \* can the pid of a dead lock owner come back to life?
    OrphansLive,    \* do operators orphan the lease of a live holder too?
    MaxAbandoned    \* abandoned acquire requests in flight (bound)

ASSUME HostsAssumption ==
    /\ HostOf \in [Procs -> Hosts]
    /\ CasesOf \in [Hosts -> SUBSET Cases]
    /\ None \notin Procs \cup Cases \cup {"original", "mutated"}
    /\ MaxAbandoned \in Nat
    /\ {Coordinated, PidsAreReused, OrphansLive} \subseteq BOOLEAN

(* Without a coordinator the kernel only promises anything on one host.     *)
ASSUME OneHostAssumption ==
    Coordinated \/ \A g, h \in Hosts : g = h

VARIABLES
    journal,   \* journal[h][c]: the stage of c's latest entry on host h
    bundle,    \* bundle[h][c]: the pre-state sealed in c's recovery bundle
    lease,     \* lease[h]: the process whose SQLite write lease is open
    metadata,  \* metadata[h]: whose pid the lock's metadata file records
    pc, kind, case, pre, retries,  \* a process: where it is, and its locals
    target,    \* target[c]: the state of the object that case c mutates
    abandoned, \* acquire requests their client stopped waiting for
    calm       \* no more faults happen

procVars == <<pc, kind, case, pre, retries>>
localVars == <<journal, bundle, lease, metadata, procVars>>
worldVars == <<target, abandoned, calm>>
vars == <<localVars, worldVars, coordVars>>

-------------------------------------------------------------------------------
cleanupObligationStages ==
    {"MUTATION_ARMED", "MUTATION_SENT", "IMPACT_VERIFIED", "ROLLBACK_SENT",
     "CLEANUP_REQUIRED", "CLEANUP_FAILED"}

journalStages ==
    cleanupObligationStages \cup
    {"AUTHORIZED", "ACTOR_IDENTITY_VERIFIED", "TARGET_IDENTITY_VERIFIED",
     "PRE_STATE_CAPTURED", "ROLLBACK_VERIFIED", "SEALED"}

ObjectStates == {"original", "mutated"}

(* The program counters, in three groups: without the host's lock, holding  *)
(* it before MUTATION_ARMED is durable, and after.                          *)
Outside   == {"idle", "lock"}
Preparing == {"coordinate", "locked", "identity", "precondition", "observed",
              "captured", "seal", "arm", "abort", "binding"}
Armed     == {"attack", "sent", "impact", "observe"}
Restoring == {"rollback", "rolledBack", "verify", "discard"}
Holding   == Preparing \cup Armed \cup Restoring \cup {"release"}

(* Mutants of the obligation: the bundle files are not looked at; nor is a  *)
(* failed cleanup.                                                          *)
UnresolvedByJournalOnly(h) ==
    {c \in Cases : journal[h][c] \in cleanupObligationStages}

FailedCleanupForgotten(h) ==
    {c \in Cases : journal[h][c] \in cleanupObligationStages \ {"CLEANUP_FAILED"}}

(* An obligation as the lock, the release report and the cleanup status     *)
(* compute it: an unresolved journal stage, or a bundle whose latest stage  *)
(* is not ROLLBACK_VERIFIED.                                                *)
UnresolvedCases(h) ==
    {c \in Cases : \/ journal[h][c] \in cleanupObligationStages
                   \/ /\ bundle[h][c] # None
                      /\ journal[h][c] # "ROLLBACK_VERIFIED"}

TypeOK ==
    /\ CoordTypeOK
    /\ journal \in [Hosts -> [Cases -> journalStages \cup {None}]]
    /\ bundle \in [Hosts -> [Cases -> ObjectStates \cup {None}]]
    /\ lease \in [Hosts -> Procs \cup {None}]
    /\ metadata \in [Hosts -> Procs \cup {None, "dead", "reused"}]
    /\ pc \in [Procs -> Outside \cup Holding]
    /\ kind \in [Procs -> {"execute", "reject", "recover"}]
    /\ case \in [Procs -> Cases \cup {None}]
    /\ pre \in [Procs -> ObjectStates]
    /\ retries \in [Procs -> 0..1]
    /\ target \in [Cases -> ObjectStates]
    /\ abandoned \in SUBSET (Cases \X BOOLEAN)
    /\ calm \in BOOLEAN

Init ==
    /\ CoordInit
    /\ journal = [h \in Hosts |-> [c \in Cases |-> None]]
    /\ bundle = [h \in Hosts |-> [c \in Cases |-> None]]
    /\ lease = [h \in Hosts |-> None]
    /\ metadata = [h \in Hosts |-> None]
    /\ pc = [p \in Procs |-> "idle"]
    /\ kind = [p \in Procs |-> "execute"]
    /\ case = [p \in Procs |-> None]
    /\ pre = [p \in Procs |-> "original"]
    /\ retries = [p \in Procs |-> 0]
    /\ target = [c \in Cases |-> "original"]
    /\ abandoned = {}
    /\ calm = FALSE

-------------------------------------------------------------------------------
Fault == ~calm

OnHost(p) == HostOf[p]

At(p, k, here) == kind[p] = k /\ pc[p] = here

Goto(p, next) ==
    /\ pc' = [pc EXCEPT ![p] = next]
    /\ UNCHANGED <<kind, case, pre, retries>>

(* The call ends: its locals are gone.                                      *)
Return(p) ==
    /\ pc' = [pc EXCEPT ![p] = "idle"]
    /\ kind' = [kind EXCEPT ![p] = "execute"]
    /\ case' = [case EXCEPT ![p] = None]
    /\ pre' = [pre EXCEPT ![p] = "original"]
    /\ retries' = [retries EXCEPT ![p] = 0]

(* Where an exception takes a process that holds the lock.  Before          *)
(* mutationArmed is set execute seals the case, afterwards it rolls back    *)
(* once more; recover and a rejection release the lock and give up.         *)
OnError(p) ==
    IF kind[p] = "execute"
    THEN IF pc[p] \in Armed \cup Restoring
         THEN IF retries[p] = 1 THEN "release" ELSE "rollback"
         ELSE IF pc[p] = "abort" THEN "release" ELSE "abort"
    ELSE "release"

(* Mutant: nothing remembers that the rollback was already retried.         *)
ThrowForever(p) == Goto(p, OnError(p))

Throw(p) ==
    /\ pc' = [pc EXCEPT ![p] = OnError(p)]
    /\ retries' = [retries EXCEPT ![p] =
                      IF pc[p] \in Armed \cup Restoring THEN 1 ELSE @]
    /\ UNCHANGED <<kind, case, pre>>

(* MutationJournal.append: the entry becomes durable and the process goes   *)
(* on, or checkpointReport throws after the durable write, or the write     *)
(* itself fails.                                                            *)
Append(p, stage, next) ==
    \/ /\ journal' = [journal EXCEPT ![OnHost(p)][case[p]] = stage]
       /\ \/ Goto(p, next)
          \/ Fault /\ Throw(p)
    \/ /\ Fault
       /\ Throw(p)
       /\ UNCHANGED journal

-------------------------------------------------------------------------------
(* The calls: execute of an authorized contract, of a rejected one, and     *)
(* recover.                                                                 *)

Begin(p, k, c, s) ==
    /\ pc' = [pc EXCEPT ![p] = "lock"]
    /\ kind' = [kind EXCEPT ![p] = k]
    /\ case' = [case EXCEPT ![p] = c]
    /\ pre' = [pre EXCEPT ![p] = s]
    /\ retries' = [retries EXCEPT ![p] = 0]

Execute(p) ==
    /\ pc[p] = "idle"
    /\ \E c \in CasesOf[OnHost(p)] : Begin(p, "execute", c, "original")
    /\ UNCHANGED <<journal, bundle, lease, metadata, worldVars, coordVars>>

Reject(p) ==
    /\ pc[p] = "idle"
    /\ \E c \in CasesOf[OnHost(p)] : Begin(p, "reject", c, "original")
    /\ UNCHANGED <<journal, bundle, lease, metadata, worldVars, coordVars>>

(* vault.open and the checks on the opened bundle precede lock.acquire. One *)
(* they refuse (an expired authorization) has changed nothing: it is a call *)
(* that was not made.                                                       *)
Recover(p, c) ==
    /\ pc[p] = "idle"
    /\ bundle[OnHost(p)][c] # None
    /\ Begin(p, "recover", c, bundle[OnHost(p)][c])
    /\ UNCHANGED <<journal, bundle, lease, metadata, worldVars, coordVars>>

-------------------------------------------------------------------------------
(* GlobalMutationLock                                                       *)

(* The metadata file of a dead owner is reaped, that of a live pid refuses. *)
LockIsFree(h) == lease[h] = None /\ metadata[h] \in {None, "dead"}

(* The scan of journals and bundles, which a recovery skips.                *)
ScanAllows(p) == kind[p] = "recover" \/ UnresolvedCases(OnHost(p)) = {}

(* BEGIN IMMEDIATE, the metadata file and the scan, all while holding the   *)
(* host's SQLite lease.                                                     *)
AcquireLocal(p) ==
    /\ pc[p] = "lock"
    /\ LockIsFree(OnHost(p))
    /\ ScanAllows(p)
    /\ lease' = [lease EXCEPT ![OnHost(p)] = p]
    /\ metadata' = [metadata EXCEPT ![OnHost(p)] = p]
    /\ Goto(p, IF Coordinated THEN "coordinate" ELSE "locked")
    /\ UNCHANGED <<journal, bundle, worldVars, coordVars>>

(* A refused acquire has reaped a dead owner's file, and left no own one.   *)
RefuseLocal(p) ==
    /\ pc[p] = "lock"
    /\ ~(LockIsFree(OnHost(p)) /\ ScanAllows(p))
    /\ metadata' = [metadata EXCEPT ![OnHost(p)] =
                       IF LockIsFree(OnHost(p)) THEN None ELSE @]
    /\ Return(p)
    /\ UNCHANGED <<journal, bundle, lease, worldVars, coordVars>>

FreeLocal(p) ==
    /\ lease' = [lease EXCEPT ![OnHost(p)] = None]
    /\ metadata' = [metadata EXCEPT ![OnHost(p)] = None]

AcquireDistributed(p) ==
    /\ pc[p] = "coordinate"
    /\ CoordAcquire(p, case[p], kind[p] = "recover")
    /\ Goto(p, "locked")
    /\ UNCHANGED <<journal, bundle, lease, metadata, worldVars>>

(* The coordinator refuses, or its answer does not come in time and the     *)
(* request may still arrive; acquire undoes the local part and throws.      *)
RefuseDistributed(p) ==
    /\ pc[p] = "coordinate"
    /\ \/ /\ ~MayAcquire(case[p], kind[p] = "recover")
          /\ UNCHANGED abandoned
       \/ /\ Fault
          /\ Cardinality(abandoned) < MaxAbandoned
          /\ abandoned' = abandoned \cup {<<case[p], kind[p] = "recover">>}
    /\ FreeLocal(p)
    /\ Return(p)
    /\ UNCHANGED <<journal, bundle, target, calm, coordVars>>

(* An acquire request arrives after its client gave up.  The code accepts   *)
(* it when its timestamp is at most five minutes old.                       *)
DeliverAbandoned ==
    /\ \E r \in abandoned :
          /\ abandoned' = abandoned \ {r}
          /\ \/ CoordAcquire(None, r[1], r[2])
             \/ ~MayAcquire(r[1], r[2]) /\ UNCHANGED coordVars
    /\ UNCHANGED <<localVars, target, calm>>

Renew(p) ==
    /\ pc[p] \in Holding \ {"coordinate", "release"}
    /\ CoordRenew(p)
    /\ UNCHANGED <<localVars, worldVars>>

(* release: distributedReleaseState (UNKNOWN when the local state cannot be *)
(* read), the coordinator's release, and then the local lock whatever the   *)
(* coordinator answered.                                                    *)
OwnsDistributed(p) == activeLease # None /\ activeLease.holder = p

Release(p) ==
    /\ pc[p] = "release"
    /\ \E report \in {UnresolvedCases(OnHost(p))} \cup
                     (IF Fault THEN {{case[p]}} ELSE {}) :
          \/ OwnsDistributed(p) /\ CoordRelease(report)
          \/ OwnsDistributed(p) /\ Fault /\ CoordReleaseLate(report)
          \/ ~OwnsDistributed(p) /\ UNCHANGED coordVars
    /\ FreeLocal(p)
    /\ Return(p)
    /\ UNCHANGED <<journal, bundle, worldVars>>

-------------------------------------------------------------------------------
(* execute                                                                  *)

(* A rejected contract is audited with SEALED.                              *)
AuditRejection(p) ==
    /\ At(p, "reject", "locked")
    /\ Append(p, "SEALED", "release")
    /\ UNCHANGED <<bundle, lease, metadata, worldVars, coordVars>>

Authorize(p) ==
    /\ At(p, "execute", "locked")
    /\ Append(p, "AUTHORIZED", "identity")
    /\ UNCHANGED <<bundle, lease, metadata, worldVars, coordVars>>

(* The identity verification is optional in a contract.                     *)
VerifyIdentity(p) ==
    /\ At(p, "execute", "identity")
    /\ \/ Append(p, "ACTOR_IDENTITY_VERIFIED", "precondition")
       \/ Append(p, "SEALED", "release")
       \/ Goto(p, "precondition") /\ UNCHANGED journal
    /\ UNCHANGED <<bundle, lease, metadata, worldVars, coordVars>>

(* The precondition's assertions are the contract's own and need not tell   *)
(* the original state from a mutated one; its response is the pre-state.    *)
VerifyPrecondition(p) ==
    /\ At(p, "execute", "precondition")
    /\ \/ /\ pc' = [pc EXCEPT ![p] = "observed"]
          /\ pre' = [pre EXCEPT ![p] = target[case[p]]]
          /\ UNCHANGED <<journal, kind, case, retries>>
       \/ Append(p, "SEALED", "release")
    /\ UNCHANGED <<bundle, lease, metadata, worldVars, coordVars>>

JournalTarget(p) ==
    /\ At(p, "execute", "observed")
    /\ Append(p, "TARGET_IDENTITY_VERIFIED", "captured")
    /\ UNCHANGED <<bundle, lease, metadata, worldVars, coordVars>>

CapturePreState(p) ==
    /\ At(p, "execute", "captured")
    /\ Append(p, "PRE_STATE_CAPTURED", "seal")
    /\ UNCHANGED <<bundle, lease, metadata, worldVars, coordVars>>

(* vault.seal: the bundle file is replaced atomically, or seal throws.      *)
SealBundle(p) ==
    /\ At(p, "execute", "seal")
    /\ \/ /\ bundle' = [bundle EXCEPT ![OnHost(p)][case[p]] = pre[p]]
          /\ Goto(p, "arm")
       \/ Fault /\ Throw(p) /\ UNCHANGED bundle
    /\ UNCHANGED <<journal, lease, metadata, worldVars, coordVars>>

Arm(p) ==
    /\ At(p, "execute", "arm")
    /\ Append(p, "MUTATION_ARMED", "attack")
    /\ UNCHANGED <<bundle, lease, metadata, worldVars, coordVars>>

(* The contract's attack request: the target applies it or refuses it, and  *)
(* its answer arrives, becomes a response with an error, or an exception.   *)
SendAttack(p) ==
    /\ At(p, "execute", "attack")
    /\ \/ target' = [target EXCEPT ![case[p]] = "mutated"]
       \/ UNCHANGED target
    /\ Goto(p, "sent") \/ (Fault /\ Throw(p))
    /\ UNCHANGED <<journal, bundle, lease, metadata, abandoned, calm,
                   coordVars>>

JournalAttack(p) ==
    /\ At(p, "execute", "sent")
    /\ Append(p, "MUTATION_SENT", "impact")
    /\ UNCHANGED <<bundle, lease, metadata, worldVars, coordVars>>

VerifyImpact(p) ==
    /\ At(p, "execute", "impact")
    /\ Append(p, "IMPACT_VERIFIED", "observe")
    /\ UNCHANGED <<bundle, lease, metadata, worldVars, coordVars>>

(* The protected action and the browser's proof, both optional.             *)
ObserveProtected(p) ==
    /\ At(p, "execute", "observe")
    /\ Goto(p, "rollback") \/ (Fault /\ Throw(p))
    /\ UNCHANGED <<journal, bundle, lease, metadata, worldVars, coordVars>>

(* The catch block before mutationArmed is set.                             *)
Abort(p) ==
    /\ At(p, "execute", "abort")
    /\ Append(p, "SEALED", "release")
    /\ UNCHANGED <<bundle, lease, metadata, worldVars, coordVars>>

-------------------------------------------------------------------------------
(* recover, and the rollback it shares with execute                         *)

(* The actor's identity is verified when the bundle carries a binding.      *)
BindActor(p) ==
    /\ At(p, "recover", "locked")
    /\ \/ Append(p, "ACTOR_IDENTITY_VERIFIED", "binding")
       \/ Fault /\ Append(p, "CLEANUP_FAILED", "release")
       \/ Goto(p, "binding") /\ UNCHANGED journal
    /\ UNCHANGED <<bundle, lease, metadata, worldVars, coordVars>>

BindTarget(p) ==
    /\ At(p, "recover", "binding")
    /\ \/ Append(p, "TARGET_IDENTITY_VERIFIED", "rollback")
       \/ Fault /\ Append(p, "CLEANUP_FAILED", "release")
    /\ UNCHANGED <<bundle, lease, metadata, worldVars, coordVars>>

SendRollback(p) ==
    /\ pc[p] = "rollback"
    /\ \/ target' = [target EXCEPT ![case[p]] = "original"]
       \/ Fault /\ UNCHANGED target
    /\ Goto(p, "rolledBack") \/ (Fault /\ Throw(p))
    /\ UNCHANGED <<journal, bundle, lease, metadata, abandoned, calm,
                   coordVars>>

JournalRollback(p) ==
    /\ pc[p] = "rolledBack"
    /\ Append(p, "ROLLBACK_SENT", "verify")
    /\ UNCHANGED <<bundle, lease, metadata, worldVars, coordVars>>

(* Mutant of the verification: an answered rollback counts as verified.     *)
RollbackTrusted(p) ==
    /\ pc[p] = "verify"
    /\ Append(p, "ROLLBACK_VERIFIED", "discard")
    /\ UNCHANGED <<bundle, lease, metadata, worldVars, coordVars>>

(* The rollback verification matches only the captured pre-state; it may    *)
(* fail for other reasons too.                                              *)
VerifyRollback(p) ==
    /\ pc[p] = "verify"
    /\ \/ /\ target[case[p]] = pre[p]
          /\ Append(p, "ROLLBACK_VERIFIED", "discard")
       \/ /\ Fault \/ target[case[p]] # pre[p]
          /\ Append(p, "CLEANUP_FAILED", "release")
    /\ UNCHANGED <<bundle, lease, metadata, worldVars, coordVars>>

(* vault.remove: the bundle stays when evidence is retained, and when       *)
(* unlink fails, which remove ignores.                                      *)
RemoveBundle(p) ==
    /\ pc[p] = "discard"
    /\ \/ bundle' = [bundle EXCEPT ![OnHost(p)][case[p]] = None]
       \/ UNCHANGED bundle
    /\ Goto(p, "release")
    /\ UNCHANGED <<journal, lease, metadata, worldVars, coordVars>>

-------------------------------------------------------------------------------
(* The environment                                                          *)

(* A process dies: the operating system drops its SQLite lease, its files   *)
(* and its coordinator lease stay.                                          *)
Crash(p) ==
    /\ Fault
    /\ pc[p] # "idle"
    /\ Return(p)
    /\ IF lease[OnHost(p)] = p
       THEN /\ lease' = [lease EXCEPT ![OnHost(p)] = None]
            /\ metadata' = [metadata EXCEPT ![OnHost(p)] = "dead"]
       ELSE UNCHANGED <<lease, metadata>>
    /\ UNCHANGED <<journal, bundle, worldVars, coordVars>>

(* Another process gets the pid of a dead lock owner, and exits.            *)
ReusePid(h) ==
    /\ PidsAreReused
    /\ \/ metadata[h] = "dead" /\ metadata' = [metadata EXCEPT ![h] = "reused"]
       \/ metadata[h] = "reused" /\ metadata' = [metadata EXCEPT ![h] = "dead"]
    /\ UNCHANGED <<journal, bundle, lease, procVars, worldVars, coordVars>>

ExpireLease ==
    /\ CoordExpire
    /\ UNCHANGED <<localVars, worldVars>>

DeliverRelease ==
    /\ CoordDeliverRelease
    /\ UNCHANGED <<localVars, worldVars>>

(* A holder that runs a mutation or a recovery under its lease.             *)
Entered(p) == pc[p] \in Holding \ {"coordinate"}

(* Operators orphan an expired lease; unless OrphansLive they first make    *)
(* sure that its holder is gone.                                            *)
Orphan ==
    /\ CoordOrphan
    /\ OrphansLive \/ \A p \in Procs : ~(activeLease.holder = p /\ Entered(p))
    /\ UNCHANGED <<localVars, worldVars>>

(* ... and confirm I_VERIFIED_NO_MUTATION_WAS_TRANSMITTED_OR_TARGET_STATE_  *)
(* IS_RESTORED only when it is so.                                          *)
Resolve(c) ==
    /\ target[c] = "original"
    /\ CoordResolve(c)
    /\ UNCHANGED <<localVars, worldVars>>

(* From some point on nothing fails any more (liveness only).               *)
CalmDown ==
    /\ Fault
    /\ calm' = TRUE
    /\ UNCHANGED <<localVars, target, abandoned, coordVars>>

-------------------------------------------------------------------------------
LockStep(p) ==
    \/ AcquireLocal(p) \/ RefuseLocal(p) \/ AcquireDistributed(p)
    \/ RefuseDistributed(p) \/ Release(p)

ExecuteStep(p) ==
    \/ AuditRejection(p) \/ Authorize(p) \/ VerifyIdentity(p)
    \/ VerifyPrecondition(p) \/ JournalTarget(p) \/ CapturePreState(p)
    \/ SealBundle(p) \/ Arm(p) \/ SendAttack(p) \/ JournalAttack(p)
    \/ VerifyImpact(p) \/ ObserveProtected(p) \/ Abort(p)

RecoverStep(p) ==
    \/ BindActor(p) \/ BindTarget(p) \/ SendRollback(p) \/ JournalRollback(p)
    \/ VerifyRollback(p) \/ RemoveBundle(p)

ProcStep(p) == LockStep(p) \/ ExecuteStep(p) \/ RecoverStep(p)

Call(p) == Execute(p) \/ Reject(p) \/ \E c \in Cases : Recover(p, c)

Environment ==
    \/ DeliverAbandoned \/ DeliverRelease \/ ExpireLease \/ Orphan
    \/ \E h \in Hosts : ReusePid(h)
    \/ \E c \in Cases : Resolve(c)

Next ==
    \/ \E p \in Procs : Call(p) \/ ProcStep(p) \/ Renew(p) \/ Crash(p)
    \/ Environment

Spec == Init /\ [][Next]_vars


(* The event loop runs every process that did not crash; operators keep     *)
(* starting recoveries, and look after expired leases and obligations.      *)
LiveSpec ==
    /\ Init
    /\ [][Next \/ CalmDown]_vars
    /\ \A p \in Procs : WF_vars(ProcStep(p))
    /\ \A p \in Procs, c \in Cases : SF_vars(Recover(p, c))
    /\ \A c \in Cases : WF_vars(Resolve(c))
    /\ WF_vars(ExpireLease)
    /\ WF_vars(Orphan)

-------------------------------------------------------------------------------
(* Properties                                                               *)

(* A mutated target is never forgotten: some host keeps a recovery bundle   *)
(* with the original state, and its lock refuses every ordinary mutation    *)
(* (seal before MUTATION_ARMED before send; the bundle outlives every       *)
(* failure until ROLLBACK_VERIFIED).                                        *)
MutationIsRecoverable ==
    \A c \in Cases : target[c] = "mutated" =>
        \E h \in Hosts : bundle[h][c] = "original" /\ c \in UnresolvedCases(h)

(* A mutated target keeps the whole namespace closed to ordinary mutations: *)
(* a lease is ACTIVE or the case is an obligation at the coordinator, also  *)
(* after crashes, abandoned and late requests and operator actions.         *)
NamespaceStaysBlocked ==
    Coordinated => \A c \in Cases :
        target[c] = "mutated" => activeLease # None \/ c \in obligations

(* No bundle ever holds a mutated state as the one to restore: execute only *)
(* captures a pre-state while nothing in the namespace is left mutated.     *)
SealedPreStateIsOriginal ==
    \A h \in Hosts, c \in Cases : bundle[h][c] # "mutated"

(* The global single-mutation lock: no two processes of the namespace are   *)
(* between arming a mutation (or starting a rollback) and its release.      *)
SingleMutationWindow ==
    \A p, q \in Procs :
        pc[p] \in Armed \cup Restoring /\ pc[q] \in Armed \cup Restoring
            => p = q

(* Only ROLLBACK_VERIFIED clears an obligation of a case whose target is    *)
(* still mutated or uncertain: no retry, rejection or failed recovery       *)
(* overwrites it.                                                           *)
OnlyVerifiedRollbackClears ==
    [][\A h \in Hosts, c \in Cases :
         /\ bundle[h][c] # None
         /\ c \in UnresolvedCases(h)
         /\ c \notin UnresolvedCases(h)'
         => /\ journal'[h][c] = "ROLLBACK_VERIFIED"
            /\ target[c] = bundle[h][c]]_vars

(* The kernel implements its promise to the targets.                        *)
Promise == INSTANCE SingleMutation WITH object <- target
AtMostOneMutated == Promise!Spec

(* Every process that took the lock gives it back (or crashes): rollback is *)
(* retried once, however often journal writes and requests keep failing.    *)
LockIsGivenBack ==
    \A p \in Procs : pc[p] \in Holding ~> pc[p] \notin Holding

(* Once faults stop, a mutated target is restored: no crash, lost request   *)
(* or stale lease leaves the host or the namespace closed to recovery.      *)
MutationIsRestored ==
    \A c \in Cases : calm /\ target[c] = "mutated" ~> target[c] = "original"
===============================================================================
