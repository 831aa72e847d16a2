--------------------------- MODULE WorkflowMutation ---------------------------
(***************************************************************************)
(* Workflow mutations: cases of several steps that change an assessed      *)
(* application, run by the engines of seven modules over one               *)
(* WorkflowMutationCoordinator per process, and finished by their cleanup  *)
(* requests, in the same run or in a recovery worker that reopens the      *)
(* encrypted checkpoint.  The processes of one host share its journal, its *)
(* checkpoints and the global lock; any of them can die between two awaits *)
(* and every journal write can fail before or after it became durable.     *)
(*                                                                         *)
(* The lock's metadata file, its distributed lease and the journal's own   *)
(* writer lock are those of ControlledMutation and are not modelled again: *)
(* the writer lock makes an append one step, also beside the one append    *)
(* that is made without the host's lock (Failed).                          *)
(***************************************************************************)
EXTENDS Naturals

CONSTANTS
    Cases,         \* the workflow cases of the host's scans
    Procs,         \* processes: scans and recovery workers
    Plans,         \* the assignments of engines to cases that are looked at
    N,             \* the steps of a case
    NeedsCapture,  \* the steps whose cleanup needs a value they captured
    MaxRuns,       \* runs registered (bound)
    None

(* "stepped": link portal, operational endpoint, authentication lifecycle;  *)
(* "disposable": a case of the first two that needs no cleanup, because its *)
(* resource is disposable; "billing": billing entitlement; "observed":      *)
(* business invariant, controlled race; "protocol": protocol security,      *)
(* whose one action and one cleanup request are not steps.                  *)
Engines == {"stepped", "disposable", "billing", "observed", "protocol"}

ASSUME WorkflowAssumption ==
    /\ Plans \subseteq [Cases -> Engines]
    /\ N \in Nat \ {0}
    /\ NeedsCapture \subseteq 1..N
    /\ MaxRuns \in Nat
    /\ None \notin Cases \cup Procs
    /\ None \notin [run : 1..MaxRuns, captured : SUBSET (1..N)]

VARIABLES
    plan,       \* plan[c]: the engine that runs case c
    stage,      \* stage[c]: the stage of c's latest journal entry
    bundle,     \* bundle[c]: c's encrypted checkpoint
    lock,       \* who holds the host's mutation lock
    pc, at,     \* a process: where it is, and the locals of its case
    current,    \* the recoveries whose bundle is still the one they opened
    claimed,    \* runs whose checkpoint digest a cleanup attempt has used up
    runs,       \* runs registered
    effects,    \* effects[c]: the steps of c that the application applied
    changedBy   \* changedBy[c]: the run that applied the last of them

host == <<stage, bundle, current>>
target == <<effects, changedBy>>
vars == <<plan, host, lock, pc, at, claimed, runs, target>>

-------------------------------------------------------------------------------
Runs == 1..MaxRuns
Steps == 1..N
Last(c) == IF plan[c] = "protocol" THEN 1 ELSE N
SealsRefused(c) == plan[c] \in {"stepped", "disposable"}
Stepped(c) == SealsRefused(c) \/ plan[c] = "billing"

cleanupObligationStages ==
    {"MUTATION_ARMED", "MUTATION_SENT", "IMPACT_VERIFIED", "ROLLBACK_SENT",
     "CLEANUP_REQUIRED", "CLEANUP_FAILED"}
Stages == cleanupObligationStages \cup
          {"AUTHORIZED", "PRE_STATE_CAPTURED", "ROLLBACK_VERIFIED", "SEALED"}

Unlocked == {"idle", "open", "lock", "refused", "ended"}
Locked == {"authorize", "pre", "arm", "send", "record", "checkpoint",
           "impact", "clean", "final", "failed", "release"}

Locals == [case : Cases \cup {None}, run : Runs \cup {None},
           recovering : BOOLEAN,       \* options.workflowRecovery
           registered : BOOLEAN,       \* the coordinator's cases has the case
           armed : BOOLEAN,            \* its entry's armed flag
           captured : SUBSET Steps,    \* captures
           step : 1..(N + 1),          \* the next step or cleanup request
           answer : {None, "refused", "lost", "answered"},
           changed : BOOLEAN,          \* stateChangeTransmitted
           passed : BOOLEAN,           \* every cleanup request passed
           stop : BOOLEAN,             \* a step was BLOCKED or INCONCLUSIVE
           thrown : BOOLEAN]           \* the case will not write a final entry

NoLocals == [case |-> None, run |-> None, recovering |-> FALSE,
             registered |-> FALSE, armed |-> FALSE, captured |-> {},
             step |-> 1, answer |-> None, changed |-> FALSE,
             passed |-> TRUE, stop |-> FALSE, thrown |-> FALSE]

TypeOK ==
    /\ plan \in Plans
    /\ stage \in [Cases -> Stages \cup {None}]
    /\ bundle \in [Cases -> [run : Runs, captured : SUBSET Steps] \cup {None}]
    /\ lock \in Procs \cup {None}
    /\ pc \in [Procs -> Unlocked \cup Locked]
    /\ at \in [Procs -> Locals]
    /\ current \subseteq Procs
    /\ claimed \subseteq Runs
    /\ runs \in 0..MaxRuns
    /\ effects \in [Cases -> SUBSET Steps]
    /\ changedBy \in [Cases -> Runs \cup {None}]

Init ==
    /\ plan \in Plans
    /\ stage = [c \in Cases |-> None]
    /\ bundle = [c \in Cases |-> None]
    /\ lock = None
    /\ pc = [p \in Procs |-> "idle"]
    /\ at = [p \in Procs |-> NoLocals]
    /\ current = {}
    /\ claimed = {}
    /\ runs = 0
    /\ effects = [c \in Cases |-> {}]
    /\ changedBy = [c \in Cases |-> None]

-------------------------------------------------------------------------------
(* An append through the coordinator.  beforeAppend refuses SEALED once the *)
(* case is armed (unless it disposes of a disposable resource), arms at     *)
(* MUTATION_ARMED and ROLLBACK_SENT and seals the checkpoint again under a  *)
(* new revision; afterAppend removes checkpoint and entry at the end of the *)
(* case.  It fails before it did anything ("early"), after it armed but     *)
(* could not seal ("unsealed"), before its entry is durable ("unwritten")   *)
(* or after ("late": checkpointReport throws).                              *)
Outcomes == {"early", "unsealed", "unwritten", "late", "durable"}

(* Mutant: the guard of an armed case is not there.                         *)
RefusesNothing(a, s, disposal) == FALSE

Refuses(a, s, disposal) == s = "SEALED" /\ a.registered /\ a.armed /\ ~disposal

Arms(a, s) == a.registered /\ (a.armed \/ s \in {"MUTATION_ARMED", "ROLLBACK_SENT"})
Ends(s) == s \in {"ROLLBACK_VERIFIED", "SEALED"}
Written(o) == o \in {"late", "durable"}

(* The case's checkpoint gets a new revision: who opened it has an old one. *)
Outdated(c) == current' = {q \in current : at[q].case # c}

Append(p, s, disposal, o) ==
    LET a == at[p]
        seals == Arms(a, s) /\ s # "ROLLBACK_VERIFIED" /\ o \notin {"early", "unsealed"}
        \* a recovery preserves its evidence; an ordinary unlink's error is ignored
        sealed == IF seals THEN [run |-> a.run, captured |-> a.captured] ELSE bundle[a.case]
    IN  /\ Refuses(a, s, disposal) => o = "early"
        /\ stage' = IF Written(o) THEN [stage EXCEPT ![a.case] = s] ELSE stage
        /\ \E left \in {sealed} \cup
                       IF Written(o) /\ Ends(s) /\ ~a.recovering THEN {None} ELSE {} :
               bundle' = [bundle EXCEPT ![a.case] = left]
        /\ IF seals \/ bundle' # bundle THEN Outdated(a.case) ELSE UNCHANGED current

(* What the append leaves in the coordinator's entry of the case.           *)
Appended(a, s, o) ==
    [a EXCEPT !.armed = @ \/ (o # "early" /\ Arms(a, s)),
              !.registered = @ /\ ~(Written(o) /\ Ends(s))]

Goto(p, next, a) ==
    /\ pc' = [pc EXCEPT ![p] = next]
    /\ at' = [at EXCEPT ![p] = a]
Leave(p) == Goto(p, "idle", NoLocals) /\ current' = current \ {p}

Running == UNCHANGED <<plan, lock, claimed, runs>>

(* The finally block: cleanup when something may have changed, then the     *)
(* final entry, which an exception of the stepped engines skips.            *)
CleanOrEnd(p, a) ==
    Goto(p, IF a.changed /\ plan[a.case] # "disposable" THEN "clean"
            ELSE IF a.thrown THEN "release" ELSE "final",
         [a EXCEPT !.step = 1, !.answer = None])

-------------------------------------------------------------------------------
(* A scan comes to a case and registers it under a new digest.              *)
Register(p, c) ==
    /\ pc[p] = "idle"
    /\ runs < MaxRuns
    /\ \A d \in Cases : stage[d] \notin cleanupObligationStages
    /\ runs' = runs + 1
    /\ Goto(p, "lock", [NoLocals EXCEPT !.case = c, !.run = runs', !.registered = TRUE])
    /\ UNCHANGED <<plan, host, lock, claimed, target>>

(* An operator has a case cleaned up whose checkpoint the status shows.  Its *)
(* digest is the attempt's authority and can be used once.                  *)
Enqueue(p, c) ==
    /\ pc[p] = "idle"
    /\ bundle[c] # None
    /\ stage[c] # "ROLLBACK_VERIFIED"
    /\ bundle[c].run \notin claimed
    /\ \A q \in Procs : ~(at[q].recovering /\ at[q].case = c)
    /\ claimed' = claimed \cup {bundle[c].run}
    /\ current' = current \cup {p}
    /\ Goto(p, "open", [NoLocals EXCEPT !.case = c, !.run = bundle[c].run,
                                        !.recovering = TRUE])
    /\ UNCHANGED <<plan, stage, bundle, lock, runs, target>>

(* Its worker opens the bundle by the digest of the reserved file, and      *)
(* register takes the captures over and arms the case.                      *)
Open(p) ==
    /\ pc[p] = "open"
    /\ IF p \in current
       THEN /\ Goto(p, "lock", [at[p] EXCEPT !.registered = TRUE, !.armed = TRUE,
                                             !.captured = bundle[at[p].case].captured,
                                             !.changed = TRUE])
            /\ UNCHANGED current
       ELSE Leave(p)
    /\ UNCHANGED <<stage, bundle, target>> /\ Running

(* Mutant: the lock does not look at the checkpoint files.                  *)
HostOpenByJournal == \A c \in Cases : stage[c] \notin cleanupObligationStages

HostOpen == \A c \in Cases : /\ stage[c] \notin cleanupObligationStages
                             /\ bundle[c] # None => stage[c] = "ROLLBACK_VERIFIED"

(* Mutant: a recovery goes on with the checkpoint it opened before.         *)
LocksOldRevision(p) == at[p].recovering \/ HostOpen

Locks(p) == IF at[p].recovering THEN p \in current ELSE HostOpen

AcquireLock(p) ==
    /\ pc[p] = "lock"
    /\ lock = None
    /\ Locks(p)
    /\ lock' = p
    /\ Goto(p, "authorize", at[p])
    /\ UNCHANGED <<plan, host, claimed, runs, target>>

(* The lock is held, the host closed, the checkpoint another one, or the    *)
(* acquisition fails in between.  Six engines return; the protocol engine   *)
(* acquires it inside its try block, and a recovery is armed from the start.*)
RefuseLock(p) ==
    /\ pc[p] = "lock"
    /\ IF plan[at[p].case] = "protocol" /\ at[p].recovering
       THEN Goto(p, "refused", at[p]) /\ UNCHANGED current
       ELSE Leave(p)
    /\ UNCHANGED <<stage, bundle, target>> /\ Running

(* The first entry.  An error ends a stepped case; the other engines go     *)
(* through their catch and finally blocks.  The protocol engine looks once  *)
(* more whether the authorization has expired.                              *)
Authorize(p) ==
    /\ pc[p] = "authorize"
    /\ \/ \E o \in Outcomes :
            LET a == Appended(at[p], "AUTHORIZED", o)  c == a.case IN
            /\ Append(p, "AUTHORIZED", FALSE, o)
            /\ IF o = "durable"
               THEN IF a.recovering THEN CleanOrEnd(p, a)
                    ELSE Goto(p, IF plan[c] = "observed" THEN "pre" ELSE "arm", a)
               ELSE IF plan[c] = "observed" THEN CleanOrEnd(p, a)
                    ELSE Goto(p, IF plan[c] = "protocol" /\ a.recovering
                                 THEN "failed" ELSE "release", a)
       \/ /\ plan[at[p].case] = "protocol" /\ ~at[p].recovering
          /\ Goto(p, "release", at[p])
          /\ UNCHANGED host
    /\ UNCHANGED target /\ Running

(* The observed engines read the state they expect before the actions.      *)
PreState(p) ==
    /\ pc[p] = "pre"
    /\ \/ CleanOrEnd(p, at[p]) /\ UNCHANGED host
       \/ \E o \in Outcomes :
            LET a == Appended(at[p], "PRE_STATE_CAPTURED", o) IN
            /\ Append(p, "PRE_STATE_CAPTURED", FALSE, o)
            /\ IF o = "durable" THEN Goto(p, "arm", a) ELSE CleanOrEnd(p, a)
    /\ UNCHANGED target /\ Running

(* The intent of a step, before its request.  The step may be BLOCKED       *)
(* first: an expired authorization, a value that is not there.              *)
Arm(p) ==
    /\ pc[p] = "arm"
    /\ \/ /\ plan[at[p].case] # "protocol"
          /\ Goto(p, "checkpoint", [at[p] EXCEPT !.stop = TRUE])
          /\ UNCHANGED host
       \/ \E o \in Outcomes :
            LET a == Appended(at[p], "MUTATION_ARMED", o)
                protocol == plan[a.case] = "protocol" IN
            /\ Append(p, "MUTATION_ARMED", FALSE, o)
            /\ IF o = "durable"
               THEN \* the protocol engine seals once more, and may fail to
                    \E next \in {"send"} \cup IF protocol THEN {"failed"} ELSE {} :
                        Goto(p, next, [a EXCEPT !.changed = @ \/ protocol])
               ELSE IF protocol THEN Goto(p, "release", a)
                    ELSE Goto(p, "checkpoint", [a EXCEPT !.stop = TRUE])
    /\ UNCHANGED target /\ Running

(* The request: kept back by the broker, unanswered, or answered.           *)
Send(p) ==
    /\ pc[p] = "send"
    /\ LET a == at[p] IN
       \E answer \in {"refused", "lost", "answered"}, applied \in BOOLEAN :
        /\ applied => answer # "refused"
        /\ Goto(p, "record", [a EXCEPT !.answer = answer])
        /\ effects' = [effects EXCEPT ![a.case] = IF applied THEN @ \cup {a.step} ELSE @]
        /\ changedBy' = [changedBy EXCEPT ![a.case] = IF applied THEN a.run ELSE @]
    /\ UNCHANGED host /\ Running

(* Its entry.  Three engines write SEALED for a request that was kept back, *)
(* which the armed case refuses; the others write nothing when the          *)
(* transport threw.  An answer is kept when its entry is durable; then only *)
(* engines that need its values or its status stop there.                   *)
Entry(a) == IF SealsRefused(a.case) /\ a.answer = "refused" THEN "SEALED" ELSE "MUTATION_SENT"

Recorded(a, o) ==
    [a EXCEPT !.stop = a.answer # "answered" \/ o # "durable",
              !.changed = @ \/ a.answer # "refused"
                          \/ (~SealsRefused(a.case) /\ o # "durable")]

Record(p) ==
    /\ pc[p] = "record"
    /\ LET next == IF plan[at[p].case] = "protocol" THEN "clean" ELSE "checkpoint" IN
       \/ /\ ~SealsRefused(at[p].case)
          /\ at[p].answer # "answered"
          /\ Goto(p, next, [at[p] EXCEPT !.stop = TRUE, !.changed = TRUE])
          /\ UNCHANGED host
       \/ \E o \in Outcomes, values \in SUBSET {at[p].step}, stops \in BOOLEAN :
            LET a == Recorded(Appended(at[p], Entry(at[p]), o), o) IN
            /\ Append(p, Entry(at[p]), FALSE, o)
            /\ a.stop \/ plan[a.case] = "protocol" => values = {}
            /\ stops => ~a.stop /\ ~SealsRefused(a.case)
            /\ Goto(p, next, [a EXCEPT !.captured = @ \cup values, !.stop = @ \/ stops])
    /\ UNCHANGED target /\ Running

(* The checkpoint after a step keeps what it captured.                      *)
Checkpoint(p) ==
    /\ pc[p] = "checkpoint"
    /\ LET a == at[p]
           sealing == a.registered /\ a.armed IN
       \/ /\ IF sealing
             THEN /\ bundle' = [bundle EXCEPT ![a.case] = [run |-> a.run, captured |-> a.captured]]
                  /\ Outdated(a.case)
             ELSE UNCHANGED <<bundle, current>>
          /\ IF a.stop \/ (a.step = N /\ Stepped(a.case)) THEN CleanOrEnd(p, a)
             ELSE IF a.step = N THEN Goto(p, "impact", a)
             ELSE Goto(p, "arm", [a EXCEPT !.step = @ + 1, !.answer = None])
       \/ /\ sealing
          /\ CleanOrEnd(p, [a EXCEPT !.thrown = Stepped(a.case)])
          /\ UNCHANGED <<bundle, current>>
    /\ UNCHANGED <<stage, target>> /\ Running

(* The observed engines read the state after the actions.                   *)
VerifyImpact(p) ==
    /\ pc[p] = "impact"
    /\ \/ CleanOrEnd(p, at[p]) /\ UNCHANGED host
       \/ \E o \in Outcomes :
            /\ Append(p, "IMPACT_VERIFIED", FALSE, o)
            /\ CleanOrEnd(p, Appended(at[p], "IMPACT_VERIFIED", o))
    /\ UNCHANGED target /\ Running

-------------------------------------------------------------------------------
(* One cleanup request: it undoes one step, if the value it needs was       *)
(* captured and (but for the protocol engine) its entry could be written.   *)
(* The billing engine's checkpoint after each may throw.                    *)
Cleaned(p, a) ==
    \/ Goto(p, IF a.step < Last(a.case) THEN "clean"
               ELSE IF a.thrown THEN "release" ELSE "final",
            [a EXCEPT !.step = @ + 1])
    \/ plan[a.case] = "billing" /\ Goto(p, "release", a)

Undo(p, a) ==
    \E undone, passed \in BOOLEAN :
        /\ effects' = [effects EXCEPT ![a.case] = IF undone THEN @ \ {a.step} ELSE @]
        /\ Cleaned(p, [a EXCEPT !.passed = @ /\ passed])
        /\ UNCHANGED changedBy

Clean(p) ==
    /\ pc[p] = "clean"
    /\ LET a == at[p]
           protocol == plan[a.case] = "protocol"
           prepared == protocol \/ a.step \notin NeedsCapture \ a.captured IN
       \/ protocol /\ Undo(p, a) /\ UNCHANGED host
       \/ /\ ~prepared
          /\ Cleaned(p, [a EXCEPT !.passed = FALSE])
          /\ UNCHANGED <<host, target>>
       \/ /\ prepared /\ ~protocol
          /\ \E o \in Outcomes :
              LET b == Appended(a, "ROLLBACK_SENT", o) IN
              /\ Append(p, "ROLLBACK_SENT", FALSE, o)
              /\ IF o = "durable" THEN Undo(p, b)
                 ELSE Cleaned(p, [b EXCEPT !.passed = FALSE]) /\ UNCHANGED target
    /\ Running

(* The final entry.  The cleanup's assertions are trusted: they only hold   *)
(* of an application on which every step is undone.                         *)
Finals(a) ==
    IF ~a.changed \/ plan[a.case] = "disposable" THEN {"SEALED"}
    ELSE {"CLEANUP_FAILED"} \cup
         IF a.passed /\ effects[a.case] = {} THEN {"ROLLBACK_VERIFIED"} ELSE {}

Final(p) ==
    /\ pc[p] = "final"
    /\ \E s \in Finals(at[p]), o \in Outcomes :
        /\ Append(p, s, at[p].changed /\ plan[at[p].case] = "disposable", o)
        /\ Goto(p, IF plan[at[p].case] = "protocol" /\ o # "durable" THEN "failed"
                   ELSE "release",
                Appended(at[p], s, o))
    /\ UNCHANGED target /\ Running

(* The catch block of the protocol engine: an armed case gets its entry,    *)
(* and with it a checkpoint, whether the engine holds the lock or not.      *)
Failed(p) ==
    /\ pc[p] \in {"failed", "refused"}
    /\ \E o \in Outcomes :
        /\ Append(p, "CLEANUP_FAILED", FALSE, o)
        /\ Goto(p, IF pc[p] = "failed" THEN "release" ELSE "ended",
                Appended(at[p], "CLEANUP_FAILED", o))
    /\ UNCHANGED target /\ Running

Release(p) ==
    /\ pc[p] \in {"release", "ended"}
    /\ lock' = IF pc[p] = "release" THEN None ELSE lock
    /\ Leave(p)
    /\ UNCHANGED <<plan, stage, bundle, claimed, runs, target>>

(* The process dies; the operating system frees the lock's SQLite lease.    *)
Crash(p) ==
    /\ pc[p] # "idle"
    /\ lock' = IF lock = p THEN None ELSE lock
    /\ Leave(p)
    /\ UNCHANGED <<plan, stage, bundle, claimed, runs, target>>

Step(p) ==
    \/ \E c \in Cases : Register(p, c) \/ Enqueue(p, c)
    \/ Open(p) \/ AcquireLock(p) \/ RefuseLock(p) \/ Authorize(p) \/ PreState(p)
    \/ Arm(p) \/ Send(p) \/ Record(p) \/ Checkpoint(p) \/ VerifyImpact(p)
    \/ Clean(p) \/ Final(p) \/ Failed(p) \/ Release(p) \/ Crash(p)

Next == \E p \in Procs : Step(p)

Spec == Init /\ [][Next]_vars

-------------------------------------------------------------------------------
Guarded(c) == plan[c] # "disposable" /\ effects[c] # {}

(* The checkpoint of case c is of the given run; or, by the protocol        *)
(* engine's catch block, of a run for which a recovery was refused the      *)
(* lock, and whose digest that recovery had used up.                        *)
Serves(c, run) ==
    \/ bundle[c].run = run
    \/ plan[c] = "protocol" /\ bundle[c].run \in claimed

(* While a step of a case is applied and not undone, the checkpoint of that *)
(* run is there to clean up from, and keeps the host closed to every other  *)
(* scan, whatever failed in between: beforeAppend's guard, the finally      *)
(* blocks, a recovery that opened its checkpoint before a later run         *)
(* replaced it.  Only a protocol case's can be replaced, by an older one.   *)
ChangedIsGuarded ==
    \A c \in Cases : Guarded(c) =>
        /\ bundle[c] # None
        /\ Serves(c, changedBy[c])
        /\ stage[c] # "ROLLBACK_VERIFIED"

(* "Before a dedicated engine transmits a mutation, it seals an AES-256-GCM *)
(* checkpoint containing the exact case [...] and captured restoration      *)
(* state.  Later checkpoints preserve newly captured state" (README.md):    *)
(* what is applied can be cleaned up by the checkpoint of its own run.      *)
ChangeHasItsCheckpoint ==
    \A c \in Cases : Guarded(c) => bundle[c] # None /\ bundle[c].run = changedBy[c]

(* At most one case's changes are on the assessed application, and a next   *)
(* case only begins to change it when they are undone: the same promise as  *)
(* the single-request kernel's.                                             *)
Promise == INSTANCE SingleMutation WITH
    Cases <- Cases,
    object <- [c \in Cases |-> IF Guarded(c) THEN "mutated" ELSE "original"]
OneCaseAtATime == Promise!Spec
===============================================================================
