------------------------ MODULE WorkflowMutationProofs ------------------------
(***************************************************************************)
(* Proofs about WorkflowMutation, for any number of cases, processes,      *)
(* steps and runs, and every assignment of engines to cases.               *)
(*                                                                         *)
(* The argument: only the process that holds the lock touches the          *)
(* application.  A scan got the lock on a host where nothing was applied,  *)
(* so whatever is applied later is of its own case and its own run; a      *)
(* recovery got it with the checkpoint it opened still in place, which     *)
(* names the run that applied what is left.  Every checkpoint they write   *)
(* names that run, and none is removed, and no ROLLBACK_VERIFIED written,  *)
(* before the case is as it was.  The files have one more writer, a        *)
(* protocol recovery that was refused the lock: it removes nothing and     *)
(* writes no ROLLBACK_VERIFIED, and the run that its checkpoint names is   *)
(* one whose digest it has used up.                                        *)
(***************************************************************************)
EXTENDS WorkflowMutation, TLAPS

USE WorkflowAssumption

(* Where a process acts on its case: a recovery never gets there.           *)
Acting == {"pre", "arm", "send", "record", "checkpoint", "impact"}

(* Where its coordinator certainly has the case, and a step is at hand.     *)
AtStep == {"lock", "authorize", "clean"} \cup Acting

(* What its place tells about a process's locals.                           *)
LocalsInv(l, a) ==
    /\ l # "idle" => a.case \in Cases /\ a.run \in Runs
    /\ l = "open" => a.recovering /\ a.step = 1
    /\ l \in Acting => ~a.recovering
    /\ l \in {"send", "record"} => a.armed
    /\ l \in {"lock"} \cup Locked /\ a.recovering => a.armed
    /\ l \in AtStep \cup {"final"} => a.registered
    /\ l \in AtStep => a.step <= N
ProcInv == \A p \in Procs : LocalsInv(pc[p], at[p])

LockInv == \A p \in Procs : lock = p <=> pc[p] \in Locked

(* A recovery whose revision is current cleans up after the very run whose  *)
(* checkpoint is there.                                                     *)
CurrentInv ==
    \A p \in current :
        /\ pc[p] # "idle" /\ at[p].recovering /\ at[p].case \in Cases
        /\ bundle[at[p].case] # None
        /\ bundle[at[p].case].run = at[p].run

(* A recovery has used up the digest of its run's checkpoint; only one of   *)
(* the protocol engine goes on when it is refused the lock.                 *)
ClaimInv ==
    \A p \in Procs :
        /\ at[p].recovering => at[p].run \in claimed
        /\ pc[p] = "refused" => at[p].recovering /\ plan[at[p].case] = "protocol"

Sealed(c, run) ==
    /\ bundle[c] # None
    /\ Serves(c, run)
    /\ stage[c] # "ROLLBACK_VERIFIED"

(* The lock's holder knows which run changed its case, unless it recovers a *)
(* protocol case; a scan that holds it is the only one whose changes are    *)
(* there, and has armed its case before.                                    *)
HolderInv ==
    \A p \in Procs : pc[p] \in Locked =>
        /\ Guarded(at[p].case) => \/ changedBy[at[p].case] = at[p].run
                                  \/ at[p].recovering /\ plan[at[p].case] = "protocol"
        /\ ~at[p].recovering =>
             \A d \in Cases : Guarded(d) => d = at[p].case /\ at[p].armed
        /\ pc[p] = "send" => Sealed(at[p].case, at[p].run)

Inv == /\ TypeOK /\ ProcInv /\ LockInv /\ CurrentInv /\ ClaimInv /\ HolderInv
       /\ ChangedIsGuarded

(* The processes that write the host's files.                               *)
Writes(p) == pc[p] \in Locked \/ pc[p] = "refused"

(* A step that leaves plan and claimed alone leaves case c sealed.          *)
SealedNext(c, run) ==
    /\ bundle'[c] # None
    /\ bundle'[c].run = run \/ (plan[c] = "protocol" /\ bundle'[c].run \in claimed)
    /\ stage'[c] # "ROLLBACK_VERIFIED"

(* What a writer's append, or its checkpoint, does to the host's files.     *)
FilesKept(p) ==
    LET c == at[p].case IN
    /\ stage' \in [Cases -> Stages \cup {None}]
    /\ bundle' \in [Cases -> [run : Runs, captured : SUBSET Steps] \cup {None}]
    /\ current' \subseteq current
    /\ \A d \in Cases \ {c} : stage'[d] = stage[d] /\ bundle'[d] = bundle[d]
    /\ \A q \in current' : bundle'[at[q].case] = bundle[at[q].case]
    /\ Guarded(c) => SealedNext(c, changedBy[c])

(* What its cleanup does to the application: it only undoes steps.          *)
TargetKept(p) ==
    /\ effects' \in [Cases -> SUBSET Steps]
    /\ \A d \in Cases : effects'[d] \subseteq effects[d]
    /\ \A d \in Cases \ {at[p].case} : effects'[d] = effects[d]
    /\ changedBy' = changedBy

(* A writer's case, run and role stay; what is armed stays armed.           *)
SameCase(a, b) ==
    /\ b \in Locals
    /\ b.case = a.case /\ b.run = a.run /\ b.recovering = a.recovering
    /\ a.armed => b.armed

-------------------------------------------------------------------------------
(* Nothing is on the host at first.                                         *)
LEMMA InitInv == Init => Inv
<1>. SUFFICES ASSUME Init PROVE Inv
  OBVIOUS
<1>1. NoLocals \in Locals
  BY DEF NoLocals, Locals
<1>2. TypeOK
  BY <1>1 DEF Init, TypeOK, Unlocked
<1>3. ProcInv /\ LockInv
  BY DEF Init, ProcInv, LockInv, LocalsInv, Acting, AtStep, Locked
<1>4. CurrentInv /\ HolderInv /\ ChangedIsGuarded
  BY DEF Init, CurrentInv, HolderInv, ChangedIsGuarded, Guarded, Locked
<1>5. ClaimInv
  BY DEF Init, ClaimInv, NoLocals
<1>. QED BY <1>2, <1>3, <1>4, <1>5 DEF Inv

(* beforeAppend and afterAppend leave the case's coordinator entry as it    *)
(* was, but for armed and registered.                                       *)
LEMMA AppendedLocals ==
    ASSUME NEW a \in Locals, NEW s \in Stages, NEW o \in Outcomes
    PROVE  LET b == Appended(a, s, o) IN
           /\ SameCase(a, b)
           /\ b.step = a.step /\ b.captured = a.captured /\ b.changed = a.changed
           /\ b.answer = a.answer /\ b.stop = a.stop
           /\ b.passed = a.passed /\ b.thrown = a.thrown
           /\ ~(Written(o) /\ Ends(s)) => b.registered = a.registered
           /\ o = "durable" /\ s = "MUTATION_ARMED" /\ a.registered => b.armed
<1>1. Appended(a, s, o) \in Locals
  BY ZenonT(30) DEF Appended, Locals
<1>. QED BY <1>1 DEF Appended, Locals, SameCase, Arms

(* The run whose checkpoint a writer seals serves the changes of its case.  *)
LEMMA WriterServes ==
    ASSUME Inv, NEW p \in Procs, Writes(p)
    PROVE  LET c == at[p].case  r == at[p].run
               Old == plan[c] = "protocol" /\ r \in claimed IN
           /\ at[p] \in Locals /\ c \in Cases /\ r \in Runs
           /\ Guarded(c) => changedBy[c] = r \/ Old
           /\ pc[p] = "refused" => Old
<1>1. at[p] \in Locals /\ at[p].case \in Cases /\ at[p].run \in Runs
  BY DEF Inv, TypeOK, ProcInv, LocalsInv, Locked, Writes
<1>2. pc[p] = "refused" => plan[at[p].case] = "protocol" /\ at[p].run \in claimed
  BY DEF Inv, ClaimInv
<1>3. pc[p] \in Locked /\ Guarded(at[p].case) =>
        \/ changedBy[at[p].case] = at[p].run
        \/ plan[at[p].case] = "protocol" /\ at[p].run \in claimed
  BY DEF Inv, HolderInv, ClaimInv
<1>. QED BY <1>1, <1>2, <1>3 DEF Writes

(* An append is the writer's own: other cases' files stay, and a case that  *)
(* is changed keeps a checkpoint of the run that changed it, unless its     *)
(* cleanup was verified.                                                    *)
LEMMA AppendKeepsFiles ==
    ASSUME Inv, NEW p \in Procs, Writes(p),
           NEW s \in Stages, NEW disposal \in BOOLEAN, NEW o \in Outcomes,
           Append(p, s, disposal, o),
           Ends(s) /\ Written(o) => ~Guarded(at[p].case)
    PROVE  /\ FilesKept(p)
           /\ s = "MUTATION_ARMED" /\ o = "durable" /\ at[p].registered =>
                SealedNext(at[p].case, at[p].run)
           /\ pc[p] = "refused" /\ ~Ends(s) =>
                \A run : Sealed(at[p].case, run) => SealedNext(at[p].case, run)
<1>. DEFINE a == at[p]
            c == a.case
            new == [run |-> a.run, captured |-> a.captured]
            seals == /\ Arms(a, s) /\ s # "ROLLBACK_VERIFIED"
                     /\ o \notin {"early", "unsealed"}
            sealed == IF seals THEN new ELSE bundle[c]
<1>1. a \in Locals /\ c \in Cases /\ a.run \in Runs
  BY WriterServes
<1>2. new \in [run : Runs, captured : SUBSET Steps] /\ new # None
  BY <1>1 DEF Locals, Runs, Steps
<1>3. PICK left \in {sealed, None} :
         /\ bundle' = [bundle EXCEPT ![c] = left]
         /\ left = sealed \/ (Written(o) /\ Ends(s))
  BY DEF Append
<1>4. stage' = IF Written(o) THEN [stage EXCEPT ![c] = s] ELSE stage
  BY DEF Append
<1>5. bundle' \in [Cases -> [run : Runs, captured : SUBSET Steps] \cup {None}]
  BY <1>1, <1>2, <1>3 DEF Inv, TypeOK
<1>6. stage' \in [Cases -> Stages \cup {None}]
  BY <1>1, <1>4 DEF Inv, TypeOK
<1>7. /\ current' \subseteq current
      /\ bundle' # bundle => \A q \in current' : at[q].case # c
  BY DEF Append, Outdated
<1>8. \A d \in Cases \ {c} : stage'[d] = stage[d] /\ bundle'[d] = bundle[d]
  BY <1>1, <1>3, <1>4 DEF Inv, TypeOK
<1>9. \A q \in current' : bundle'[at[q].case] = bundle[at[q].case]
  BY <1>7, <1>8 DEF Inv, CurrentInv
<1>10. bundle'[c] = left /\ stage'[c] \in {stage[c], s}
  BY <1>1, <1>3, <1>4 DEF Inv, TypeOK
<1>11. ASSUME NEW run, Sealed(c, run), ~(Ends(s) /\ Written(o)),
              a.run = run \/ (plan[c] = "protocol" /\ a.run \in claimed)
       PROVE  SealedNext(c, run)
  <2>1. left = sealed /\ (Written(o) => s # "ROLLBACK_VERIFIED")
    BY <1>3, <1>11 DEF Ends
  <2>2. /\ bundle[c] # None /\ stage[c] # "ROLLBACK_VERIFIED"
        /\ bundle[c].run = run \/ (plan[c] = "protocol" /\ bundle[c].run \in claimed)
    BY <1>11 DEF Sealed, Serves
  <2>3. /\ sealed # None
        /\ sealed.run = run \/ (plan[c] = "protocol" /\ sealed.run \in claimed)
    BY <1>2, <1>11, <2>2
  <2>4. stage'[c] # "ROLLBACK_VERIFIED"
    BY <1>1, <1>4, <2>1, <2>2 DEF Inv, TypeOK
  <2>. QED BY <1>10, <2>1, <2>3, <2>4 DEF SealedNext
<1>12. ASSUME s = "MUTATION_ARMED", o = "durable", a.registered
       PROVE  bundle'[c] = new /\ stage'[c] = s
  BY <1>1, <1>3, <1>4, <1>10, <1>12 DEF Inv, TypeOK, Arms, Ends, Written
<1>13. ASSUME Guarded(c) PROVE SealedNext(c, changedBy[c])
  <2>1. Sealed(c, changedBy[c])
    BY <1>1, <1>13 DEF Inv, ChangedIsGuarded, Sealed
  <2>2. a.run = changedBy[c] \/ (plan[c] = "protocol" /\ a.run \in claimed)
    BY <1>13, WriterServes
  <2>. QED BY <1>11, <1>13, <2>1, <2>2
<1>14. FilesKept(p)
  BY <1>5, <1>6, <1>7, <1>8, <1>9, <1>13 DEF FilesKept
<1>15. ASSUME s = "MUTATION_ARMED", o = "durable", a.registered
       PROVE  SealedNext(c, a.run)
  BY <1>2, <1>12, <1>15 DEF SealedNext
<1>16. ASSUME pc[p] = "refused", ~Ends(s), NEW run, Sealed(c, run)
       PROVE  SealedNext(c, run)
  BY <1>11, <1>16, WriterServes
<1>. QED BY <1>14, <1>15, <1>16

(* A step that leaves the files alone keeps them.                           *)
LEMMA UnchangedKeepsFiles ==
    ASSUME Inv, NEW p \in Procs, pc[p] \in Locked, UNCHANGED <<stage, bundle>>,
           current' \subseteq current
    PROVE  FilesKept(p)
<1>1. at[p].case \in Cases
  BY DEF Inv, ProcInv, LocalsInv, Locked
<1>. QED BY <1>1 DEF FilesKept, Inv, TypeOK, ChangedIsGuarded, SealedNext, Serves

(* And one that leaves the application alone.                               *)
LEMMA UnchangedKeepsTarget ==
    ASSUME Inv, NEW p \in Procs, UNCHANGED target
    PROVE  TargetKept(p)
BY DEF TargetKept, target, Inv, TypeOK

(* A holder that goes on with its case keeps the invariant, whatever part   *)
(* of its case it undid.                                                    *)
Arrives(p, next, b) ==
    /\ next \in Acting => ~b.recovering
    /\ next \in {"send", "record"} => b.armed
    /\ next \in AtStep \cup {"final"} => b.registered
    /\ next \in AtStep => b.step <= N
    /\ next = "send" => SealedNext(b.case, b.run)

LEMMA HolderGoesOn ==
    ASSUME Inv, NEW p \in Procs, pc[p] \in Locked,
           NEW next \in Locked, NEW b, SameCase(at[p], b), Arrives(p, next, b),
           Goto(p, next, b), Running, FilesKept(p), TargetKept(p)
    PROVE  Inv'
<1>. DEFINE a == at[p]
            c == at[p].case
<1>1. /\ a \in Locals /\ c \in Cases /\ a.run \in Runs
      /\ a.recovering => a.armed
  BY DEF Inv, TypeOK, ProcInv, LocalsInv, Locked
<1>2. /\ pc'[p] = next /\ at'[p] = b
      /\ \A q \in Procs \ {p} : pc'[q] = pc[q] /\ at'[q] = at[q]
  BY DEF Goto, Inv, TypeOK
<1>3. TypeOK'
  <2>1. pc' \in [Procs -> Unlocked \cup Locked] /\ at' \in [Procs -> Locals]
    BY DEF Goto, Inv, TypeOK, SameCase
  <2>2. current' \subseteq Procs
    BY DEF Inv, TypeOK, FilesKept
  <2>3. changedBy' \in [Cases -> Runs \cup {None}]
    BY DEF Inv, TypeOK, TargetKept
  <2>4. /\ plan' \in Plans /\ lock' \in Procs \cup {None}
        /\ claimed' \subseteq Runs /\ runs' \in 0..MaxRuns
    BY DEF Inv, TypeOK, Running
  <2>. QED BY <2>1, <2>2, <2>3, <2>4 DEF TypeOK, FilesKept, TargetKept
<1>4. ProcInv'
  <2>1. LocalsInv(next, b)
    BY <1>1 DEF LocalsInv, Arrives, SameCase, Locked
  <2>. QED BY <1>2, <2>1 DEF Inv, ProcInv
<1>5. LockInv'
  BY <1>2 DEF Inv, LockInv, Running
<1>6. \A q \in Procs : pc'[q] \in Locked => q = p
  BY <1>2 DEF Inv, LockInv
<1>7. \A d \in Cases : Guarded(d)' => Guarded(d) /\ changedBy'[d] = changedBy[d]
  BY DEF Guarded, TargetKept, Running
<1>8. ASSUME NEW q \in current'
      PROVE  /\ pc'[q] # "idle" /\ at'[q].recovering /\ at'[q].case \in Cases
             /\ bundle'[at'[q].case] # None
             /\ bundle'[at'[q].case].run = at'[q].run
  <2>1. q \in current /\ q \in Procs /\ bundle'[at[q].case] = bundle[at[q].case]
    BY DEF FilesKept, Inv, TypeOK
  <2>2. /\ at'[q].case = at[q].case /\ at'[q].run = at[q].run
        /\ at'[q].recovering = at[q].recovering
    BY <1>2, <2>1 DEF SameCase
  <2>3. pc'[q] # "idle"
    BY <1>2, <2>1 DEF Inv, CurrentInv, Locked
  <2>. QED BY <2>1, <2>2, <2>3 DEF Inv, CurrentInv
<1>9. CurrentInv'
  BY <1>8 DEF CurrentInv
<1>10. HolderInv'
  <2>0. b.case = c /\ b.case \in Cases
    BY <1>1 DEF SameCase
  <2>1. /\ Guarded(b.case)' => \/ changedBy'[b.case] = b.run
                               \/ b.recovering /\ plan'[b.case] = "protocol"
        /\ ~b.recovering => \A d \in Cases : Guarded(d)' => d = b.case /\ b.armed
    BY <1>1, <1>7, <2>0 DEF Inv, HolderInv, SameCase, Running
  <2>2. /\ plan' = plan /\ claimed' = claimed
        /\ next = "send" => SealedNext(b.case, b.run)
    BY DEF Arrives, Running
  <2>. QED BY <1>2, <1>6, <2>1, <2>2 DEF HolderInv, Sealed, SealedNext, Serves
<1>11. ChangedIsGuarded'
  <2>. SUFFICES ASSUME NEW d \in Cases, Guarded(d)'
                PROVE  bundle'[d] # None /\ Serves(d, changedBy[d])' /\ stage'[d] # "ROLLBACK_VERIFIED"
    BY DEF ChangedIsGuarded
  <2>1. Guarded(d) /\ changedBy'[d] = changedBy[d]
    BY <1>7
  <2>2. SealedNext(d, changedBy[d])
    BY <2>1 DEF FilesKept, Inv, ChangedIsGuarded, Serves, SealedNext
  <2>. QED BY <2>1, <2>2 DEF SealedNext, Serves, Running
<1>12. ClaimInv'
  BY <1>2 DEF Inv, ClaimInv, SameCase, Running, Locked
<1>. QED BY <1>3, <1>4, <1>5, <1>9, <1>10, <1>11, <1>12 DEF Inv

(* A process that gives up its case, or dies: its files stay.               *)
LEMMA LeaveKeepsInv ==
    ASSUME Inv, NEW p \in Procs, Leave(p),
           lock' = IF lock = p THEN None ELSE lock,
           UNCHANGED <<plan, stage, bundle, claimed, runs, target>>
    PROVE  Inv'
<1>1. /\ pc'[p] = "idle" /\ at'[p] = NoLocals
      /\ \A q \in Procs \ {p} : pc'[q] = pc[q] /\ at'[q] = at[q]
      /\ current' = current \ {p}
  BY DEF Leave, Goto, Inv, TypeOK
<1>2. NoLocals \in Locals
  BY DEF NoLocals, Locals
<1>3. TypeOK'
  BY <1>2 DEF Leave, Goto, Inv, TypeOK, target, Unlocked
<1>4. ProcInv'
  <2>1. LocalsInv("idle", NoLocals)
    BY DEF LocalsInv, Acting, AtStep, Locked
  <2>. QED BY <1>1, <2>1 DEF Inv, ProcInv
<1>5. LockInv'
  BY <1>1 DEF Inv, LockInv, Locked
<1>6. CurrentInv'
  BY <1>1 DEF Inv, TypeOK, CurrentInv
<1>7. HolderInv'
  BY <1>1 DEF Inv, HolderInv, Guarded, Sealed, Serves, target, Locked
<1>8. ChangedIsGuarded'
  BY DEF Inv, ChangedIsGuarded, Serves, Guarded, target
<1>9. ClaimInv'
  BY <1>1 DEF Inv, ClaimInv, NoLocals
<1>. QED BY <1>3, <1>4, <1>5, <1>6, <1>7, <1>8, <1>9 DEF Inv

(* A process that comes to its case without the lock yet.                   *)
LEMMA ApproachKeepsInv ==
    ASSUME Inv, NEW p \in Procs, pc[p] \notin Locked,
           NEW next \in Unlocked, NEW b \in Locals, LocalsInv(next, b),
           Goto(p, next, b), UNCHANGED <<plan, stage, bundle, lock, target>>,
           claimed \subseteq claimed', claimed' \subseteq Runs, runs' \in 0..MaxRuns,
           b.recovering => b.run \in claimed',
           next = "refused" => b.recovering /\ plan[b.case] = "protocol",
           current' \subseteq current \cup {p},
           p \in current' => /\ next # "idle" /\ b.recovering /\ b.case \in Cases
                             /\ bundle[b.case] # None
                             /\ bundle[b.case].run = b.run
    PROVE  Inv'
<1>1. /\ pc'[p] = next /\ at'[p] = b
      /\ \A q \in Procs \ {p} : pc'[q] = pc[q] /\ at'[q] = at[q]
  BY DEF Goto, Inv, TypeOK
<1>2. TypeOK'
  BY DEF Goto, Inv, TypeOK, target
<1>3. ProcInv'
  BY <1>1 DEF Inv, ProcInv
<1>4. LockInv'
  BY <1>1 DEF Inv, LockInv, Locked, Unlocked
<1>5. CurrentInv'
  BY <1>1 DEF Inv, TypeOK, CurrentInv
<1>6. HolderInv'
  BY <1>1 DEF Inv, HolderInv, Guarded, Sealed, Serves, target, Locked, Unlocked
<1>7. ChangedIsGuarded'
  BY DEF Inv, ChangedIsGuarded, Serves, Guarded, target
<1>8. ClaimInv'
  BY <1>1 DEF Inv, ClaimInv
<1>. QED BY <1>2, <1>3, <1>4, <1>5, <1>6, <1>7, <1>8 DEF Inv

(* A recovery that was refused the lock writes beside its holder.           *)
LEMMA RefusedKeepsInv ==
    ASSUME Inv, NEW p \in Procs, pc[p] = "refused", NEW b, SameCase(at[p], b),
           Goto(p, "ended", b), Running, FilesKept(p), UNCHANGED target,
           \A run : Sealed(at[p].case, run) => SealedNext(at[p].case, run)
    PROVE  Inv'
<1>. DEFINE a == at[p]
            c == at[p].case
<1>1. a \in Locals /\ c \in Cases /\ a.run \in Runs /\ pc[p] \notin Locked
  BY DEF Inv, TypeOK, ProcInv, LocalsInv, Locked
<1>2. /\ pc'[p] = "ended" /\ at'[p] = b
      /\ \A q \in Procs \ {p} : pc'[q] = pc[q] /\ at'[q] = at[q]
      /\ UNCHANGED <<plan, lock, claimed, runs, effects, changedBy>>
  BY DEF Goto, Inv, TypeOK, Running, target
<1>3. TypeOK'
  <2>1. pc' \in [Procs -> Unlocked \cup Locked] /\ at' \in [Procs -> Locals]
    BY DEF Goto, Inv, TypeOK, SameCase, Unlocked
  <2>. QED BY <1>2, <2>1 DEF Inv, TypeOK, FilesKept
<1>4. ProcInv'
  <2>1. LocalsInv("ended", b)
    BY <1>1 DEF LocalsInv, SameCase, Acting, AtStep, Locked
  <2>. QED BY <1>2, <2>1 DEF Inv, ProcInv
<1>5. LockInv'
  BY <1>1, <1>2 DEF Inv, LockInv, Locked
<1>6. ClaimInv'
  BY <1>2 DEF Inv, ClaimInv, SameCase
<1>7. ASSUME NEW q \in current'
      PROVE  /\ pc'[q] # "idle" /\ at'[q].recovering /\ at'[q].case \in Cases
             /\ bundle'[at'[q].case] # None
             /\ bundle'[at'[q].case].run = at'[q].run
  <2>1. q \in current /\ q \in Procs /\ bundle'[at[q].case] = bundle[at[q].case]
    BY DEF FilesKept, Inv, TypeOK
  <2>2. /\ at'[q].case = at[q].case /\ at'[q].run = at[q].run
        /\ at'[q].recovering = at[q].recovering
    BY <1>2, <2>1 DEF SameCase
  <2>3. pc'[q] # "idle"
    BY <1>2, <2>1 DEF Inv, CurrentInv
  <2>. QED BY <2>1, <2>2, <2>3 DEF Inv, CurrentInv
<1>8. CurrentInv'
  BY <1>7 DEF CurrentInv
<1>9. \A d \in Cases : \A run : Sealed(d, run) => SealedNext(d, run)
  BY DEF FilesKept, Sealed, SealedNext, Serves
<1>10. \A d \in Cases : Guarded(d)' <=> Guarded(d)
  BY <1>2 DEF Guarded
<1>11. ChangedIsGuarded'
  BY <1>2, <1>9, <1>10 DEF Inv, ChangedIsGuarded, Sealed, SealedNext, Serves
<1>12. HolderInv'
  <2>. SUFFICES ASSUME NEW q \in Procs, pc'[q] \in Locked
                PROVE  /\ Guarded(at[q].case)' =>
                            \/ changedBy'[at'[q].case] = at'[q].run
                            \/ at'[q].recovering /\ plan'[at'[q].case] = "protocol"
                       /\ ~at'[q].recovering =>
                            \A d \in Cases : Guarded(d)' => d = at'[q].case /\ at'[q].armed
                       /\ pc'[q] = "send" => Sealed(at[q].case, at[q].run)'
    BY DEF HolderInv
  <2>1. q # p /\ pc'[q] = pc[q] /\ at'[q] = at[q] /\ at[q].case \in Cases
    BY <1>2 DEF Locked, Inv, ProcInv, LocalsInv
  <2>2. pc[q] = "send" => SealedNext(at[q].case, at[q].run)
    BY <1>9, <2>1 DEF Inv, HolderInv
  <2>3. pc'[q] = "send" => Sealed(at[q].case, at[q].run)'
    BY <1>2, <2>1, <2>2 DEF Sealed, SealedNext, Serves
  <2>. QED BY <1>2, <1>10, <2>1, <2>3 DEF Inv, HolderInv
<1>. QED BY <1>3, <1>4, <1>5, <1>6, <1>8, <1>11, <1>12 DEF Inv

-------------------------------------------------------------------------------
(* The steps without the lock, and the two ends of a case.                  *)
LEMMA RegisterKeepsInv ==
    ASSUME Inv, NEW p \in Procs, NEW c \in Cases, Register(p, c) PROVE Inv'
<1>. DEFINE b == [NoLocals EXCEPT !.case = c, !.run = runs', !.registered = TRUE]
<1>1. runs' \in Runs /\ runs' \in 0..MaxRuns
  BY DEF Register, Inv, TypeOK, Runs
<1>2. b \in Locals /\ LocalsInv("lock", b)
  <2>0. NoLocals \in Locals
    BY DEF NoLocals, Locals
  <2>1. b \in Locals
    BY <1>1, <2>0 DEF Locals
  <2>2. /\ b.case = c /\ b.run = runs' /\ b.registered /\ ~b.recovering
        /\ b.step = 1
    BY DEF NoLocals
  <2>. QED BY <1>1, <2>1, <2>2 DEF LocalsInv
<1>3. p \notin current /\ pc[p] \notin Locked
  BY DEF Register, Inv, CurrentInv, Locked
<1>4. /\ Goto(p, "lock", b) /\ UNCHANGED <<plan, stage, bundle, lock, target>>
      /\ current' = current /\ claimed' = claimed /\ claimed' \subseteq Runs
  BY DEF Register, host, Inv, TypeOK
<1>5. "lock" \in Unlocked /\ ~b.recovering
  BY DEF Unlocked, NoLocals
<1>. HIDE DEF b
<1>. QED BY ONLY <1>1, <1>2, <1>3, <1>4, <1>5, Inv, ApproachKeepsInv, p \in Procs

LEMMA EnqueueKeepsInv ==
    ASSUME Inv, NEW p \in Procs, NEW c \in Cases, Enqueue(p, c) PROVE Inv'
<1>. DEFINE b == [NoLocals EXCEPT !.case = c, !.run = bundle[c].run,
                                  !.recovering = TRUE]
<1>1. bundle[c] # None /\ bundle[c].run \in Runs
  BY DEF Enqueue, Inv, TypeOK
<1>2. b \in Locals /\ LocalsInv("open", b)
  <2>0. NoLocals \in Locals
    BY DEF NoLocals, Locals
  <2>1. b \in Locals
    BY <1>1, <2>0 DEF Locals
  <2>2. /\ b.case = c /\ b.run = bundle[c].run /\ b.recovering
        /\ b.step = 1
    BY DEF NoLocals
  <2>. QED BY <1>1, <2>1, <2>2 DEF LocalsInv, Acting, AtStep, Locked
<1>3. b.recovering /\ b.case = c /\ b.run = bundle[c].run
  BY DEF NoLocals
<1>4. /\ Goto(p, "open", b) /\ UNCHANGED <<plan, stage, bundle, lock, target>>
      /\ current' = current \cup {p} /\ claimed' \subseteq Runs
      /\ claimed \subseteq claimed' /\ bundle[c].run \in claimed'
      /\ runs' \in 0..MaxRuns
  BY <1>1 DEF Enqueue, Inv, TypeOK
<1>5. pc[p] \notin Locked /\ "open" \in Unlocked
  BY DEF Enqueue, Locked, Unlocked
<1>6. current' \subseteq current \cup {p}
  BY <1>4
<1>7. p \in current' => /\ "open" # "idle" /\ b.recovering /\ b.case \in Cases
                        /\ bundle[b.case] # None
                        /\ bundle[b.case].run = b.run
  BY <1>1, <1>3
<1>. HIDE DEF b
<1>. QED BY <1>2, <1>3, <1>4, <1>5, <1>6, <1>7, ApproachKeepsInv

LEMMA OpenKeepsInv ==
    ASSUME Inv, NEW p \in Procs, Open(p) PROVE Inv'
<1>. DEFINE c == at[p].case
            b == [at[p] EXCEPT !.registered = TRUE, !.armed = TRUE,
                               !.captured = bundle[c].captured, !.changed = TRUE]
<1>1. pc[p] = "open" /\ pc[p] \notin Locked /\ lock # p
  BY DEF Open, Inv, LockInv, Locked
<1>2. CASE p \in current
  <2>1. /\ at[p] \in Locals /\ at[p].recovering /\ at[p].step = 1
        /\ c \in Cases /\ at[p].run \in Runs /\ at[p].run \in claimed
        /\ bundle[c] # None /\ bundle[c].run = at[p].run
    BY <1>1, <1>2 DEF Inv, TypeOK, ProcInv, LocalsInv, CurrentInv, ClaimInv
  <2>2. bundle[c].captured \in SUBSET Steps
    BY <2>1 DEF Inv, TypeOK
  <2>3. b \in Locals
    BY <2>1, <2>2 DEF Locals
  <2>4. /\ b.recovering /\ b.case = c /\ b.run = at[p].run
        /\ b.armed /\ b.registered /\ b.step = 1
    BY <2>1 DEF Locals
  <2>5. LocalsInv("lock", b)
    BY <2>1, <2>4 DEF LocalsInv, Acting
  <2>6. /\ Goto(p, "lock", b) /\ UNCHANGED <<plan, stage, bundle, lock, target>>
        /\ current' = current /\ claimed' = claimed /\ claimed' \subseteq Runs
        /\ runs' \in 0..MaxRuns
    BY <1>2 DEF Open, Running, Inv, TypeOK
  <2>7. "lock" \in Unlocked /\ current' \subseteq current \cup {p}
    BY <2>6 DEF Unlocked
  <2>8. p \in current' => /\ "lock" # "idle" /\ b.recovering /\ b.case \in Cases
                          /\ bundle[b.case] # None
                          /\ bundle[b.case].run = b.run
    BY <2>1, <2>4
  <2>9. b.run \in claimed'
    BY <2>1, <2>4, <2>6
  <2>. HIDE DEF b
  <2>. QED BY <1>1, <2>3, <2>5, <2>6, <2>7, <2>8, <2>9, ApproachKeepsInv
<1>3. CASE p \notin current
  BY <1>1, <1>3, LeaveKeepsInv DEF Open, Running
<1>. QED BY <1>2, <1>3

(* acquireMutationLock and requireOpen: a scan comes in only when nothing   *)
(* is left on the application, a recovery only with its own checkpoint.     *)
LEMMA AcquireLockKeepsInv ==
    ASSUME Inv, NEW p \in Procs, AcquireLock(p) PROVE Inv'
<1>1. /\ pc[p] = "lock" /\ pc'[p] = "authorize" /\ lock = None /\ lock' = p
      /\ \A q \in Procs \ {p} : pc'[q] = pc[q]
      /\ at' = at
      /\ UNCHANGED <<plan, stage, bundle, current, claimed, runs, effects, changedBy>>
  BY DEF AcquireLock, Goto, Inv, TypeOK, host, target
<1>2. TypeOK'
  BY <1>1 DEF AcquireLock, Goto, Inv, TypeOK, Locked
<1>3. LocalsInv("lock", at[p]) /\ at[p].case \in Cases
  BY <1>1 DEF Inv, ProcInv, LocalsInv
<1>4. ProcInv'
  <2>1. LocalsInv("authorize", at[p])
    BY <1>3 DEF LocalsInv, Acting, AtStep, Locked
  <2>. QED BY <1>1, <2>1 DEF Inv, ProcInv
<1>5. \A q \in Procs : pc[q] \notin Locked
  BY <1>1 DEF Inv, LockInv
<1>6. LockInv'
  BY <1>1, <1>5 DEF LockInv, Locked
<1>7. CurrentInv'
  BY <1>1 DEF Inv, TypeOK, CurrentInv
<1>8. HolderInv'
  <2>1. CASE at[p].recovering
    <3>1. p \in current
      BY <2>1 DEF AcquireLock, Locks
    <3>2. Guarded(at[p].case) => \/ changedBy[at[p].case] = at[p].run
                                 \/ plan[at[p].case] = "protocol"
      BY <1>3, <3>1 DEF Inv, CurrentInv, ChangedIsGuarded, Serves
    <3>. QED BY <1>1, <1>5, <2>1, <3>2 DEF HolderInv, Guarded, Sealed
  <2>2. CASE ~at[p].recovering
    <3>1. HostOpen
      BY <2>2 DEF AcquireLock, Locks
    <3>2. \A d \in Cases : ~Guarded(d)
      BY <3>1 DEF HostOpen, Inv, ChangedIsGuarded
    <3>. QED BY <1>1, <1>3, <1>5, <3>2 DEF HolderInv, Guarded, Sealed
  <2>. QED BY <2>1, <2>2
<1>9. ChangedIsGuarded' /\ ClaimInv'
  BY <1>1 DEF Inv, ChangedIsGuarded, Guarded, Serves, ClaimInv
<1>. QED BY <1>2, <1>4, <1>6, <1>7, <1>8, <1>9 DEF Inv

LEMMA EndsKeepInv ==
    ASSUME Inv, NEW p \in Procs, RefuseLock(p) \/ Release(p) \/ Crash(p)
    PROVE  Inv'
<1>1. CASE RefuseLock(p)
  <2>1. /\ lock # p /\ pc[p] = "lock" /\ pc[p] \notin Locked
        /\ UNCHANGED <<plan, stage, bundle, lock, claimed, runs, target>>
    BY <1>1 DEF RefuseLock, Running, Inv, LockInv, Locked
  <2>2. CASE Leave(p)
    BY <2>1, <2>2, LeaveKeepsInv
  <2>3. CASE /\ plan[at[p].case] = "protocol" /\ at[p].recovering
             /\ Goto(p, "refused", at[p]) /\ UNCHANGED current
    <3>1. /\ at[p] \in Locals /\ at[p].run \in claimed /\ LocalsInv("lock", at[p])
          /\ claimed' \subseteq Runs /\ runs' \in 0..MaxRuns /\ "refused" \in Unlocked
      BY <2>1, <2>3 DEF Inv, TypeOK, ClaimInv, ProcInv, Unlocked
    <3>2. LocalsInv("refused", at[p])
      BY <3>1 DEF LocalsInv, Acting, AtStep, Locked
    <3>3. p \in current' => /\ "refused" # "idle" /\ at[p].recovering /\ at[p].case \in Cases
                            /\ bundle[at[p].case] # None
                            /\ bundle[at[p].case].run = at[p].run
      BY <2>3 DEF Inv, CurrentInv
    <3>4. current' \subseteq current \cup {p} /\ claimed \subseteq claimed'
      BY <2>1, <2>3
    <3>. QED BY <2>1, <2>3, <3>1, <3>2, <3>3, <3>4, ApproachKeepsInv
  <2>. QED BY <1>1, <2>2, <2>3 DEF RefuseLock
<1>2. CASE Release(p)
  <2>1. lock' = IF lock = p THEN None ELSE lock
    BY <1>2 DEF Release, Inv, LockInv, Locked
  <2>. QED BY <1>2, <2>1, LeaveKeepsInv DEF Release
<1>3. CASE Crash(p)
  BY <1>3, LeaveKeepsInv DEF Crash
<1>. QED BY <1>1, <1>2, <1>3

-------------------------------------------------------------------------------
(* The steps of the lock's holder.                                          *)
LEMMA CleanOrEndKeepsInv ==
    ASSUME Inv, NEW p \in Procs, pc[p] \in Locked,
           NEW a, SameCase(at[p], a), a.registered, CleanOrEnd(p, a),
           Running, FilesKept(p), TargetKept(p)
    PROVE  Inv'
<1>. DEFINE b == [a EXCEPT !.step = 1, !.answer = None]
<1>1. PICK next \in {"clean", "release", "final"} : Goto(p, next, b)
  BY DEF CleanOrEnd
<1>2. a \in Locals /\ 1 \in 1..(N + 1)
  BY DEF SameCase
<1>3. b \in Locals
  BY <1>2 DEF Locals
<1>4. /\ b.case = a.case /\ b.run = a.run /\ b.recovering = a.recovering
      /\ b.armed = a.armed /\ b.registered = a.registered /\ b.step = 1
  BY DEF SameCase, Locals
<1>5. SameCase(at[p], b)
  BY <1>3, <1>4 DEF SameCase
<1>. HIDE DEF b
<1>6. Arrives(p, next, b) /\ next \in Locked
  BY <1>4 DEF Arrives, Acting, Locked
<1>. QED BY <1>1, <1>5, <1>6, HolderGoesOn

LEMMA CleanedKeepsInv ==
    ASSUME Inv, NEW p \in Procs, pc[p] = "clean",
           NEW a, SameCase(at[p], a), a.registered, a.step = at[p].step,
           Cleaned(p, a), Running, FilesKept(p), TargetKept(p)
    PROVE  Inv'
<1>. DEFINE b == [a EXCEPT !.step = @ + 1]
<1>1. a \in Locals /\ a.step \in 1..N /\ pc[p] \in Locked /\ a.case \in Cases
  BY DEF SameCase, Inv, ProcInv, LocalsInv, AtStep, Locals, Locked
<1>2. b \in Locals
  BY <1>1 DEF Locals
<1>3. /\ b.case = a.case /\ b.run = a.run /\ b.recovering = a.recovering
      /\ b.armed = a.armed /\ b.registered = a.registered /\ b.step = a.step + 1
  BY <1>1 DEF Locals
<1>4. Last(a.case) \in Nat /\ Last(a.case) <= N
  BY DEF Last
<1>5. CASE Goto(p, IF a.step < Last(a.case) THEN "clean"
                   ELSE IF a.thrown THEN "release" ELSE "final", b)
  <2>1. PICK next \in {"clean", "release", "final"} :
           Goto(p, next, b) /\ (next = "clean" => a.step < Last(a.case))
    BY <1>5
  <2>2. SameCase(at[p], b)
    BY <1>2, <1>3 DEF SameCase
  <2>3. b.step <= N \/ next # "clean"
    BY <1>1, <1>3, <1>4, <2>1
  <2>4. Arrives(p, next, b) /\ next \in Locked
    BY <1>3, <2>3 DEF Arrives, Acting, AtStep, Locked
  <2>. HIDE DEF b
  <2>. QED BY <1>1, <2>1, <2>2, <2>4, HolderGoesOn
<1>6. CASE Goto(p, "release", a)
  <2>1. Arrives(p, "release", a) /\ "release" \in Locked
    BY DEF Arrives, Acting, AtStep, Locked
  <2>. QED BY <1>1, <1>6, <2>1, HolderGoesOn
<1>. QED BY <1>5, <1>6 DEF Cleaned

LEMMA AuthorizeKeepsInv ==
    ASSUME Inv, NEW p \in Procs, Authorize(p) PROVE Inv'
<1>1. /\ pc[p] = "authorize" /\ pc[p] \in Locked /\ Running
      /\ at[p] \in Locals /\ at[p].registered /\ at[p].step <= N
      /\ TargetKept(p)
  BY UnchangedKeepsTarget DEF Authorize, Locked, Inv, TypeOK, ProcInv, LocalsInv, AtStep
<1>2. ASSUME NEW o \in Outcomes, Append(p, "AUTHORIZED", FALSE, o),
             LET a == Appended(at[p], "AUTHORIZED", o)  c == a.case IN
             IF o = "durable"
             THEN IF a.recovering THEN CleanOrEnd(p, a)
                  ELSE Goto(p, IF plan[c] = "observed" THEN "pre" ELSE "arm", a)
             ELSE IF plan[c] = "observed" THEN CleanOrEnd(p, a)
                  ELSE Goto(p, IF plan[c] = "protocol" /\ a.recovering
                               THEN "failed" ELSE "release", a)
      PROVE  Inv'
  <2>. DEFINE a == Appended(at[p], "AUTHORIZED", o)
  <2>1. "AUTHORIZED" \in Stages /\ ~Ends("AUTHORIZED")
    BY DEF Stages, Ends
  <2>2. FilesKept(p)
    BY <1>1, <1>2, <2>1, AppendKeepsFiles DEF Writes
  <2>3. SameCase(at[p], a) /\ a.registered /\ a.step <= N
    BY <1>1, <2>1, AppendedLocals
  <2>. HIDE DEF a
  <2>4. CASE CleanOrEnd(p, a)
    BY <1>1, <2>2, <2>3, <2>4, CleanOrEndKeepsInv
  <2>5. ASSUME NEW next \in {"pre", "arm", "failed", "release"}, Goto(p, next, a),
               next \in {"pre", "arm"} => ~a.recovering
        PROVE  Inv'
    <3>1. Arrives(p, next, a) /\ next \in Locked
      BY <2>3, <2>5 DEF Arrives, Acting, AtStep, Locked
    <3>. QED BY <1>1, <2>2, <2>3, <2>5, <3>1, HolderGoesOn
  <2>. QED BY <1>2, <2>4, <2>5 DEF a
<1>3. ASSUME Goto(p, "release", at[p]), UNCHANGED host PROVE Inv'
  <2>1. FilesKept(p)
    BY <1>1, <1>3, UnchangedKeepsFiles DEF host
  <2>2. /\ SameCase(at[p], at[p]) /\ Arrives(p, "release", at[p])
        /\ "release" \in Locked
    BY <1>1 DEF SameCase, Arrives, Acting, AtStep, Locked
  <2>. QED BY <1>1, <1>3, <2>1, <2>2, HolderGoesOn
<1>. QED BY <1>2, <1>3 DEF Authorize

LEMMA PreStateKeepsInv ==
    ASSUME Inv, NEW p \in Procs, PreState(p) PROVE Inv'
<1>1. /\ pc[p] = "pre" /\ pc[p] \in Locked /\ Running
      /\ at[p] \in Locals /\ at[p].registered /\ at[p].step <= N
      /\ ~at[p].recovering /\ TargetKept(p)
  BY UnchangedKeepsTarget
  DEF PreState, Locked, Inv, TypeOK, ProcInv, LocalsInv, AtStep, Acting
<1>2. CASE CleanOrEnd(p, at[p]) /\ UNCHANGED host
  <2>1. FilesKept(p) /\ SameCase(at[p], at[p])
    BY <1>1, <1>2, UnchangedKeepsFiles DEF host, SameCase
  <2>. QED BY <1>1, <1>2, <2>1, CleanOrEndKeepsInv
<1>3. ASSUME NEW o \in Outcomes, Append(p, "PRE_STATE_CAPTURED", FALSE, o),
             LET a == Appended(at[p], "PRE_STATE_CAPTURED", o) IN
             IF o = "durable" THEN Goto(p, "arm", a) ELSE CleanOrEnd(p, a)
      PROVE  Inv'
  <2>. DEFINE a == Appended(at[p], "PRE_STATE_CAPTURED", o)
  <2>1. "PRE_STATE_CAPTURED" \in Stages /\ ~Ends("PRE_STATE_CAPTURED")
    BY DEF Stages, Ends
  <2>2. FilesKept(p)
    BY <1>1, <1>3, <2>1, AppendKeepsFiles DEF Writes
  <2>3. SameCase(at[p], a) /\ a.registered /\ a.step <= N
    BY <1>1, <2>1, AppendedLocals
  <2>. HIDE DEF a
  <2>4. CASE CleanOrEnd(p, a)
    BY <1>1, <2>2, <2>3, <2>4, CleanOrEndKeepsInv
  <2>5. CASE Goto(p, "arm", a)
    <3>1. Arrives(p, "arm", a) /\ "arm" \in Locked
      BY <1>1, <2>3 DEF Arrives, SameCase, Locked
    <3>. QED BY <1>1, <2>2, <2>3, <2>5, <3>1, HolderGoesOn
  <2>. QED BY <1>3, <2>4, <2>5 DEF a
<1>. QED BY <1>2, <1>3 DEF PreState

LEMMA ArmKeepsInv ==
    ASSUME Inv, NEW p \in Procs, Arm(p) PROVE Inv'
<1>1. /\ pc[p] = "arm" /\ pc[p] \in Locked /\ Running
      /\ at[p] \in Locals /\ at[p].registered /\ at[p].step <= N
      /\ ~at[p].recovering /\ TargetKept(p)
  BY UnchangedKeepsTarget
  DEF Arm, Locked, Inv, TypeOK, ProcInv, LocalsInv, AtStep, Acting
<1>2. CASE Goto(p, "checkpoint", [at[p] EXCEPT !.stop = TRUE]) /\ UNCHANGED host
  <2>. DEFINE b == [at[p] EXCEPT !.stop = TRUE]
  <2>1. FilesKept(p)
    BY <1>1, <1>2, UnchangedKeepsFiles DEF host
  <2>2. SameCase(at[p], b) /\ b.registered /\ b.step = at[p].step
    BY <1>1 DEF SameCase, Locals
  <2>3. Arrives(p, "checkpoint", b) /\ "checkpoint" \in Locked
    BY <1>1, <2>2 DEF Arrives, SameCase, Locked
  <2>. HIDE DEF b
  <2>. QED BY <1>1, <1>2, <2>1, <2>2, <2>3, HolderGoesOn DEF b
<1>3. ASSUME NEW o \in Outcomes, Append(p, "MUTATION_ARMED", FALSE, o),
             LET a == Appended(at[p], "MUTATION_ARMED", o)
                 protocol == plan[a.case] = "protocol" IN
             IF o = "durable"
             THEN \E next \in {"send"} \cup IF protocol THEN {"failed"} ELSE {} :
                      Goto(p, next, [a EXCEPT !.changed = @ \/ protocol])
             ELSE IF protocol THEN Goto(p, "release", a)
                  ELSE Goto(p, "checkpoint", [a EXCEPT !.stop = TRUE])
      PROVE  Inv'
  <2>. DEFINE a == Appended(at[p], "MUTATION_ARMED", o)
              protocol == plan[a.case] = "protocol"
  <2>1. "MUTATION_ARMED" \in Stages /\ ~Ends("MUTATION_ARMED")
    BY DEF Stages, cleanupObligationStages, Ends
  <2>2. /\ FilesKept(p)
        /\ o = "durable" => SealedNext(at[p].case, at[p].run)
    BY <1>1, <1>3, <2>1, AppendKeepsFiles DEF Writes
  <2>3. /\ SameCase(at[p], a) /\ a.registered /\ a.step <= N
        /\ o = "durable" => a.armed
    BY <1>1, <2>1, AppendedLocals
  <2>4. ASSUME o = "durable"
        PROVE  Inv'
    <3>. DEFINE b == [a EXCEPT !.changed = @ \/ protocol]
    <3>1. PICK next \in {"send", "failed"} : Goto(p, next, b)
      BY <1>3, <2>4
    <3>. HIDE DEF a, protocol
    <3>2. SameCase(at[p], b) /\ b.registered /\ b.step = a.step /\ b.armed
      BY <2>3, <2>4 DEF SameCase, Locals
    <3>3. Arrives(p, next, b) /\ next \in Locked
      BY <1>1, <2>2, <2>3, <2>4, <3>2 DEF Arrives, SameCase, Acting, AtStep, Locked
    <3>. HIDE DEF b
    <3>. QED BY <1>1, <2>2, <3>1, <3>2, <3>3, HolderGoesOn
  <2>5. CASE Goto(p, "release", a)
    <3>. HIDE DEF a
    <3>1. Arrives(p, "release", a) /\ "release" \in Locked
      BY DEF Arrives, Acting, AtStep, Locked
    <3>. QED BY <1>1, <2>2, <2>3, <2>5, <3>1, HolderGoesOn
  <2>6. CASE Goto(p, "checkpoint", [a EXCEPT !.stop = TRUE])
    <3>. HIDE DEF a
    <3>. DEFINE b == [a EXCEPT !.stop = TRUE]
    <3>2. SameCase(at[p], b) /\ b.registered /\ b.step = a.step
      BY <2>3 DEF SameCase, Locals
    <3>3. Arrives(p, "checkpoint", b) /\ "checkpoint" \in Locked
      BY <1>1, <2>3, <3>2 DEF Arrives, SameCase, Locked
    <3>4. Goto(p, "checkpoint", b)
      BY <2>6
    <3>. HIDE DEF b
    <3>. QED BY <1>1, <2>2, <3>2, <3>3, <3>4, HolderGoesOn
  <2>. QED BY <1>3, <2>4, <2>5, <2>6
<1>. QED BY <1>2, <1>3 DEF Arm

(* The request: what it applies is of the run whose checkpoint is sealed.   *)
LEMMA SendKeepsInv ==
    ASSUME Inv, NEW p \in Procs, Send(p) PROVE Inv'
<1>. DEFINE a == at[p]
            c == a.case
<1>1. /\ pc[p] = "send" /\ pc[p] \in Locked /\ a \in Locals
      /\ c \in Cases /\ a.run \in Runs /\ a.step \in Steps
      /\ ~a.recovering /\ a.armed /\ a.registered
  BY DEF Send, Locked, Inv, TypeOK, ProcInv, LocalsInv, AtStep, Acting, Locals, Steps
<1>2. PICK answer \in {"refused", "lost", "answered"}, applied \in BOOLEAN :
        /\ Goto(p, "record", [a EXCEPT !.answer = answer])
        /\ effects' = [effects EXCEPT ![c] = IF applied THEN @ \cup {a.step} ELSE @]
        /\ changedBy' = [changedBy EXCEPT ![c] = IF applied THEN a.run ELSE @]
  BY DEF Send
<1>3. UNCHANGED <<plan, stage, bundle, current, lock, claimed, runs>>
  BY DEF Send, host, Running
<1>. DEFINE b == [a EXCEPT !.answer = answer]
<1>4. b \in Locals
  BY <1>1 DEF Locals
<1>5. /\ b.case = c /\ b.run = a.run /\ b.recovering = a.recovering
      /\ b.armed = a.armed /\ b.registered = a.registered /\ b.step = a.step
  BY <1>1 DEF Locals
<1>6. Goto(p, "record", b)
  BY <1>2
<1>. HIDE DEF b
<1>7. /\ pc'[p] = "record" /\ at'[p] = b
      /\ \A q \in Procs \ {p} : pc'[q] = pc[q] /\ at'[q] = at[q]
  BY <1>6 DEF Goto, Inv, TypeOK
<1>8. TypeOK'
  <2>1. pc' \in [Procs -> Unlocked \cup Locked] /\ at' \in [Procs -> Locals]
    BY <1>4, <1>6 DEF Goto, Inv, TypeOK, Locked
  <2>2. /\ effects' \in [Cases -> SUBSET Steps]
        /\ changedBy' \in [Cases -> Runs \cup {None}]
    BY <1>1, <1>2 DEF Inv, TypeOK
  <2>. QED BY <1>3, <2>1, <2>2 DEF Inv, TypeOK
<1>9. ProcInv'
  <2>1. LocalsInv("record", b)
    BY <1>1, <1>5 DEF LocalsInv, Steps
  <2>. QED BY <1>7, <2>1 DEF Inv, ProcInv
<1>10. LockInv'
  BY <1>1, <1>3, <1>7 DEF Inv, LockInv, Locked
<1>11. CurrentInv'
  BY <1>1, <1>3, <1>7 DEF Inv, TypeOK, CurrentInv
<1>12. \A d \in Cases \ {c} : Guarded(d)' => Guarded(d)
  BY <1>1, <1>2, <1>3 DEF Guarded, Inv, TypeOK
<1>13. \A d \in Cases : d = c /\ Guarded(d)' => changedBy'[d] = a.run
  BY <1>1, <1>2, <1>3, <1>5 DEF Guarded, Inv, TypeOK, HolderInv
<1>14. \A d \in Cases : Guarded(d)' => d = c
  BY <1>1, <1>12 DEF Inv, HolderInv
<1>15. \A q \in Procs : pc'[q] \in Locked => q = p
  BY <1>1, <1>7 DEF Inv, LockInv
<1>16. HolderInv'
  BY <1>1, <1>5, <1>7, <1>13, <1>14, <1>15 DEF HolderInv
<1>17. ChangedIsGuarded'
  <2>1. bundle[c] # None /\ Serves(c, a.run) /\ stage[c] # "ROLLBACK_VERIFIED"
    BY <1>1 DEF Inv, HolderInv, Sealed
  <2>. QED BY <1>3, <1>5, <1>13, <1>14, <2>1 DEF ChangedIsGuarded, Serves
<1>18. ClaimInv'
  BY <1>1, <1>3, <1>5, <1>7 DEF Inv, ClaimInv
<1>. QED BY <1>8, <1>9, <1>10, <1>11, <1>16, <1>17, <1>18 DEF Inv

LEMMA RecordKeepsInv ==
    ASSUME Inv, NEW p \in Procs, Record(p) PROVE Inv'
<1>1. /\ pc[p] = "record" /\ pc[p] \in Locked /\ Running
      /\ at[p] \in Locals /\ at[p].registered /\ at[p].armed
      /\ at[p].step \in Steps /\ ~at[p].recovering /\ TargetKept(p)
  <2>1. TargetKept(p)
    BY UnchangedKeepsTarget DEF Record
  <2>2. /\ pc[p] = "record" /\ pc[p] \in Locked /\ Running
        /\ at[p] \in Locals /\ LocalsInv("record", at[p])
    BY DEF Record, Locked, Inv, TypeOK, ProcInv
  <2>3. at[p].step <= N /\ at[p].step \in 1..(N + 1)
    BY <2>2 DEF LocalsInv, AtStep, Acting, Locals
  <2>. QED BY <2>1, <2>2, <2>3 DEF LocalsInv, AtStep, Acting, Steps
<1>2. ASSUME NEW next \in {"clean", "checkpoint"}, NEW b, Goto(p, next, b),
             SameCase(at[p], b), b.registered, b.step = at[p].step, FilesKept(p)
      PROVE  Inv'
  <2>1. Arrives(p, next, b) /\ next \in Locked
    BY <1>1, <1>2 DEF Arrives, SameCase, Locked, Steps
  <2>. QED BY <1>1, <1>2, <2>1, HolderGoesOn
<1>. DEFINE next == IF plan[at[p].case] = "protocol" THEN "clean" ELSE "checkpoint"
<1>3. ASSUME Goto(p, next, [at[p] EXCEPT !.stop = TRUE, !.changed = TRUE]),
             UNCHANGED host
      PROVE  Inv'
  <2>. DEFINE b == [at[p] EXCEPT !.stop = TRUE, !.changed = TRUE]
  <2>1. FilesKept(p)
    BY <1>1, <1>3, UnchangedKeepsFiles DEF host
  <2>2. SameCase(at[p], b) /\ b.registered /\ b.step = at[p].step
    BY <1>1 DEF SameCase, Locals
  <2>3. next \in {"clean", "checkpoint"} /\ Goto(p, next, b)
    BY <1>3
  <2>. HIDE DEF b, next
  <2>. QED BY <1>2, <2>1, <2>2, <2>3
<1>4. ASSUME NEW o \in Outcomes, NEW values \in SUBSET {at[p].step},
             NEW stops \in BOOLEAN, Append(p, Entry(at[p]), FALSE, o),
             LET a == Recorded(Appended(at[p], Entry(at[p]), o), o) IN
             Goto(p, next, [a EXCEPT !.captured = @ \cup values, !.stop = @ \/ stops])
      PROVE  Inv'
  <2>. DEFINE s == Entry(at[p])
              r == Appended(at[p], s, o)
              a == Recorded(r, o)
              b == [a EXCEPT !.captured = @ \cup values, !.stop = @ \/ stops]
  <2>1. s \in Stages
    BY DEF Entry, Stages, cleanupObligationStages
  <2>2. ~(Ends(s) /\ Written(o))
    <3>1. CASE s = "SEALED"
      <4>1. Refuses(at[p], s, FALSE)
        BY <1>1, <3>1 DEF Refuses
      <4>2. o = "early"
        BY <1>4, <4>1 DEF Append
      <4>. QED BY <4>2 DEF Written
    <3>2. CASE s # "SEALED"
      BY <3>2 DEF Entry, Ends
    <3>. QED BY <3>1, <3>2
  <2>3. FilesKept(p)
    BY <1>1, <1>4, <2>1, <2>2, AppendKeepsFiles DEF Writes
  <2>4. SameCase(at[p], r) /\ r.registered /\ r.step = at[p].step
    BY <1>1, <2>1, <2>2, AppendedLocals
  <2>5. next \in {"clean", "checkpoint"} /\ Goto(p, next, b)
    BY <1>4
  <2>. HIDE DEF r, s, next
  <2>6. SameCase(at[p], a) /\ a.registered /\ a.step = at[p].step
    BY <2>4 DEF Recorded, SameCase, Locals
  <2>. HIDE DEF a
  <2>7. SameCase(at[p], b) /\ b.registered /\ b.step = at[p].step
    BY <1>1, <2>6 DEF SameCase, Locals
  <2>. HIDE DEF b
  <2>. QED BY <1>2, <2>3, <2>5, <2>7
<1>. QED BY <1>3, <1>4 DEF Record

LEMMA CheckpointKeepsInv ==
    ASSUME Inv, NEW p \in Procs, Checkpoint(p) PROVE Inv'
<1>. DEFINE a == at[p]
            c == a.case
<1>1. /\ pc[p] = "checkpoint" /\ pc[p] \in Locked /\ Running
      /\ a \in Locals /\ a.registered /\ a.step \in Steps /\ ~a.recovering
      /\ c \in Cases /\ a.run \in Runs
  BY DEF Checkpoint, Locked, Inv, TypeOK, ProcInv, LocalsInv, AtStep, Acting, Locals, Steps
<1>2. TargetKept(p) /\ UNCHANGED stage
  BY UnchangedKeepsTarget DEF Checkpoint
<1>3. FilesKept(p)
  <2>. DEFINE new == [run |-> a.run, captured |-> a.captured]
  <2>1. CASE bundle' = [bundle EXCEPT ![c] = new] /\ Outdated(c)
    <3>1. new \in [run : Runs, captured : SUBSET Steps] /\ new # None
      BY <1>1 DEF Locals, Runs, Steps
    <3>2. /\ bundle' \in [Cases -> [run : Runs, captured : SUBSET Steps] \cup {None}]
          /\ bundle'[c] = new /\ \A d \in Cases \ {c} : bundle'[d] = bundle[d]
      BY <1>1, <2>1, <3>1 DEF Inv, TypeOK
    <3>3. /\ current' \subseteq current
          /\ \A q \in current' : bundle'[at[q].case] = bundle[at[q].case]
      BY <2>1, <3>2 DEF Outdated, Inv, CurrentInv
    <3>4. Guarded(c) => /\ changedBy[c] = new.run
                        /\ stage[c] # "ROLLBACK_VERIFIED"
      BY <1>1 DEF Inv, HolderInv, ChangedIsGuarded
    <3>. QED BY <1>2, <3>1, <3>2, <3>3, <3>4 DEF FilesKept, SealedNext, Inv, TypeOK
  <2>2. CASE UNCHANGED <<bundle, current>>
    BY <1>1, <1>2, <2>2, UnchangedKeepsFiles
  <2>. QED BY <2>1, <2>2 DEF Checkpoint
<1>4. CASE CleanOrEnd(p, a)
  <2>1. SameCase(a, a)
    BY <1>1 DEF SameCase
  <2>. QED BY <1>1, <1>2, <1>3, <1>4, <2>1, CleanOrEndKeepsInv
<1>5. CASE CleanOrEnd(p, [a EXCEPT !.thrown = Stepped(a.case)])
  <2>. DEFINE b == [a EXCEPT !.thrown = Stepped(a.case)]
  <2>1. Stepped(a.case) \in BOOLEAN
    BY DEF Stepped, SealsRefused
  <2>2. SameCase(a, b) /\ b.registered
    BY <1>1, <2>1 DEF SameCase, Locals
  <2>3. CleanOrEnd(p, b)
    BY <1>5
  <2>. HIDE DEF b
  <2>. QED BY <1>1, <1>2, <1>3, <2>2, <2>3, CleanOrEndKeepsInv
<1>6. CASE Goto(p, "impact", a)
  <2>1. SameCase(a, a) /\ Arrives(p, "impact", a) /\ "impact" \in Locked
    BY <1>1 DEF SameCase, Arrives, Locked, Steps
  <2>. QED BY <1>1, <1>2, <1>3, <1>6, <2>1, HolderGoesOn
<1>7. CASE /\ a.step # N
           /\ Goto(p, "arm", [a EXCEPT !.step = @ + 1, !.answer = None])
  <2>. DEFINE b == [a EXCEPT !.step = @ + 1, !.answer = None]
  <2>1. a.step + 1 \in 1..N /\ a.step + 1 \in 1..(N + 1)
    BY <1>1, <1>7 DEF Steps
  <2>2. b \in Locals
    BY <1>1, <2>1 DEF Locals
  <2>3. SameCase(a, b) /\ b.registered /\ b.step = a.step + 1
    BY <1>1, <2>2 DEF SameCase, Locals
  <2>4. Goto(p, "arm", b)
    BY <1>7
  <2>. HIDE DEF b
  <2>5. Arrives(p, "arm", b) /\ "arm" \in Locked
    BY <1>1, <2>1, <2>3 DEF SameCase, Arrives, Locked
  <2>. QED BY <1>1, <1>2, <1>3, <2>3, <2>4, <2>5, HolderGoesOn
<1>. QED BY <1>4, <1>5, <1>6, <1>7 DEF Checkpoint

LEMMA VerifyImpactKeepsInv ==
    ASSUME Inv, NEW p \in Procs, VerifyImpact(p) PROVE Inv'
<1>1. /\ pc[p] = "impact" /\ pc[p] \in Locked /\ Running
      /\ at[p] \in Locals /\ at[p].registered
  BY DEF VerifyImpact, Locked, Inv, TypeOK, ProcInv, LocalsInv, AtStep, Acting
<1>2. TargetKept(p)
  BY UnchangedKeepsTarget DEF VerifyImpact
<1>3. CASE CleanOrEnd(p, at[p]) /\ UNCHANGED host
  <2>1. FilesKept(p) /\ SameCase(at[p], at[p])
    BY <1>1, <1>3, UnchangedKeepsFiles DEF host, SameCase
  <2>. QED BY <1>1, <1>2, <1>3, <2>1, CleanOrEndKeepsInv
<1>4. ASSUME NEW o \in Outcomes, Append(p, "IMPACT_VERIFIED", FALSE, o),
             CleanOrEnd(p, Appended(at[p], "IMPACT_VERIFIED", o))
      PROVE  Inv'
  <2>1. "IMPACT_VERIFIED" \in Stages /\ ~Ends("IMPACT_VERIFIED")
    BY DEF Stages, cleanupObligationStages, Ends
  <2>2. FilesKept(p)
    BY <1>1, <1>4, <2>1, AppendKeepsFiles DEF Writes
  <2>. DEFINE a == Appended(at[p], "IMPACT_VERIFIED", o)
  <2>3. SameCase(at[p], a) /\ a.registered
    BY <1>1, <2>1, AppendedLocals
  <2>4. CleanOrEnd(p, a)
    BY <1>4
  <2>. HIDE DEF a
  <2>. QED BY <1>1, <1>2, <2>2, <2>3, <2>4, CleanOrEndKeepsInv
<1>. QED BY <1>3, <1>4 DEF VerifyImpact

(* A cleanup request takes something away from the case, or nothing.        *)
LEMMA UndoKeepsInv ==
    ASSUME Inv, NEW p \in Procs, pc[p] = "clean", NEW a, SameCase(at[p], a),
           a.registered, a.step = at[p].step, Undo(p, a), Running, FilesKept(p)
    PROVE  Inv'
<1>1. PICK undone \in BOOLEAN, passed \in BOOLEAN :
        /\ effects' = [effects EXCEPT ![a.case] = IF undone THEN @ \ {a.step} ELSE @]
        /\ Cleaned(p, [a EXCEPT !.passed = @ /\ passed])
        /\ UNCHANGED changedBy
  BY DEF Undo
<1>. DEFINE b == [a EXCEPT !.passed = @ /\ passed]
<1>2. a \in Locals /\ a.case = at[p].case
  BY DEF SameCase
<1>3. b \in Locals
  BY <1>2 DEF Locals
<1>4. SameCase(at[p], b) /\ b.registered /\ b.step = at[p].step
  BY <1>2, <1>3 DEF SameCase, Locals
<1>5. TargetKept(p)
  BY <1>1, <1>2 DEF TargetKept, Inv, TypeOK
<1>6. Cleaned(p, b)
  BY <1>1
<1>. HIDE DEF b
<1>. QED BY <1>4, <1>5, <1>6, CleanedKeepsInv

LEMMA CleanKeepsInv ==
    ASSUME Inv, NEW p \in Procs, Clean(p) PROVE Inv'
<1>. DEFINE a == at[p]
<1>1. /\ pc[p] = "clean" /\ pc[p] \in Locked /\ Running
      /\ a \in Locals /\ a.registered
  BY DEF Clean, Locked, Inv, TypeOK, ProcInv, LocalsInv, AtStep
<1>2. CASE Undo(p, a) /\ UNCHANGED host
  <2>1. FilesKept(p) /\ SameCase(a, a)
    BY <1>1, <1>2, UnchangedKeepsFiles DEF host, SameCase
  <2>. QED BY <1>1, <1>2, <2>1, UndoKeepsInv
<1>3. ASSUME NEW b, SameCase(a, b), b.registered, b.step = a.step,
             Cleaned(p, [b EXCEPT !.passed = FALSE]), FilesKept(p), UNCHANGED target
      PROVE  Inv'
  <2>. DEFINE d == [b EXCEPT !.passed = FALSE]
  <2>1. d \in Locals
    BY <1>3 DEF SameCase, Locals
  <2>2. SameCase(a, d) /\ d.registered /\ d.step = a.step
    BY <1>3, <2>1 DEF SameCase, Locals
  <2>3. Cleaned(p, d) /\ TargetKept(p)
    BY <1>3, UnchangedKeepsTarget
  <2>. HIDE DEF d
  <2>. QED BY <1>1, <1>3, <2>2, <2>3, CleanedKeepsInv
<1>4. CASE Cleaned(p, [a EXCEPT !.passed = FALSE]) /\ UNCHANGED <<host, target>>
  <2>1. FilesKept(p) /\ SameCase(a, a)
    BY <1>1, <1>4, UnchangedKeepsFiles DEF host, SameCase
  <2>. QED BY <1>1, <1>3, <1>4, <2>1
<1>5. ASSUME NEW o \in Outcomes, Append(p, "ROLLBACK_SENT", FALSE, o),
             LET b == Appended(a, "ROLLBACK_SENT", o) IN
             IF o = "durable" THEN Undo(p, b)
             ELSE Cleaned(p, [b EXCEPT !.passed = FALSE]) /\ UNCHANGED target
      PROVE  Inv'
  <2>1. "ROLLBACK_SENT" \in Stages /\ ~Ends("ROLLBACK_SENT")
    BY DEF Stages, cleanupObligationStages, Ends
  <2>2. FilesKept(p)
    BY <1>1, <1>5, <2>1, AppendKeepsFiles DEF Writes
  <2>. DEFINE b == Appended(a, "ROLLBACK_SENT", o)
  <2>3. SameCase(a, b) /\ b.registered /\ b.step = a.step
    BY <1>1, <2>1, AppendedLocals
  <2>4. \/ Undo(p, b)
        \/ Cleaned(p, [b EXCEPT !.passed = FALSE]) /\ UNCHANGED target
    BY <1>5
  <2>. HIDE DEF b
  <2>. QED BY <1>1, <1>3, <2>2, <2>3, <2>4, UndoKeepsInv
<1>. QED BY <1>2, <1>4, <1>5 DEF Clean

(* The final entry ends a case only when nothing of it is left, or when it  *)
(* never armed anything.                                                    *)
LEMMA FinalKeepsInv ==
    ASSUME Inv, NEW p \in Procs, Final(p) PROVE Inv'
<1>. DEFINE a == at[p]
            c == a.case
            disposal == a.changed /\ plan[c] = "disposable"
<1>1. /\ pc[p] = "final" /\ pc[p] \in Locked /\ Running /\ c \in Cases
      /\ a \in Locals /\ a.registered /\ (a.recovering => a.armed)
  BY DEF Final, Locked, Inv, TypeOK, ProcInv, LocalsInv
<1>2. TargetKept(p)
  BY UnchangedKeepsTarget DEF Final
<1>3. PICK s \in Finals(a), o \in Outcomes :
        /\ Append(p, s, disposal, o)
        /\ Goto(p, IF plan[c] = "protocol" /\ o # "durable" THEN "failed"
                   ELSE "release", Appended(a, s, o))
  BY DEF Final
<1>4. s \in Stages /\ disposal \in BOOLEAN
  BY <1>1 DEF Finals, Stages, cleanupObligationStages, Locals
<1>5. ASSUME Ends(s), Written(o), Guarded(c) PROVE FALSE
  <2>1. plan[c] # "disposable" /\ effects[c] # {}
    BY <1>5 DEF Guarded
  <2>2. s = "SEALED" /\ ~a.changed
    BY <1>3, <1>5, <2>1 DEF Finals, Ends
  <2>3. ~Refuses(a, s, disposal)
    BY <1>3, <1>5 DEF Append, Written
  <2>4. ~a.armed
    BY <1>1, <2>2, <2>3 DEF Refuses
  <2>. QED BY <1>1, <1>5, <2>4 DEF Inv, HolderInv
<1>6. FilesKept(p)
  BY <1>1, <1>3, <1>4, <1>5, AppendKeepsFiles DEF Writes
<1>. DEFINE b == Appended(a, s, o)
<1>7. SameCase(a, b)
  BY <1>1, <1>4, AppendedLocals
<1>8. PICK next \in {"failed", "release"} : Goto(p, next, b)
  BY <1>3
<1>. HIDE DEF b
<1>9. Arrives(p, next, b) /\ next \in Locked
  BY DEF Arrives, Acting, AtStep, Locked
<1>. QED BY <1>1, <1>2, <1>6, <1>7, <1>8, <1>9, HolderGoesOn

LEMMA FailedKeepsInv ==
    ASSUME Inv, NEW p \in Procs, Failed(p) PROVE Inv'
<1>1. pc[p] \in {"failed", "refused"} /\ Writes(p) /\ Running /\ at[p] \in Locals
  BY DEF Failed, Writes, Locked, Inv, TypeOK
<1>2. TargetKept(p) /\ UNCHANGED target
  BY UnchangedKeepsTarget DEF Failed
<1>3. PICK o \in Outcomes :
        /\ Append(p, "CLEANUP_FAILED", FALSE, o)
        /\ Goto(p, IF pc[p] = "failed" THEN "release" ELSE "ended",
                Appended(at[p], "CLEANUP_FAILED", o))
  BY DEF Failed
<1>4. "CLEANUP_FAILED" \in Stages /\ ~Ends("CLEANUP_FAILED")
  BY DEF Stages, cleanupObligationStages, Ends
<1>5. /\ FilesKept(p)
      /\ pc[p] = "refused" =>
           \A run : Sealed(at[p].case, run) => SealedNext(at[p].case, run)
  BY <1>1, <1>3, <1>4, AppendKeepsFiles DEF Writes
<1>. DEFINE b == Appended(at[p], "CLEANUP_FAILED", o)
<1>6. SameCase(at[p], b)
  BY <1>1, <1>4, AppendedLocals
<1>7. Goto(p, IF pc[p] = "failed" THEN "release" ELSE "ended", b)
  BY <1>3
<1>. HIDE DEF b
<1>8. CASE pc[p] = "failed"
  <2>1. Arrives(p, "release", b) /\ "release" \in Locked /\ pc[p] \in Locked
    BY <1>8 DEF Arrives, Acting, AtStep, Locked
  <2>. QED BY <1>1, <1>2, <1>5, <1>6, <1>7, <1>8, <2>1, HolderGoesOn
<1>9. CASE pc[p] = "refused"
  BY <1>1, <1>2, <1>5, <1>6, <1>7, <1>9, RefusedKeepsInv
<1>. QED BY <1>1, <1>8, <1>9

-------------------------------------------------------------------------------
(* The invariant is inductive.                                              *)
LEMMA NextKeepsInv == Inv /\ [Next]_vars => Inv'
<1>. SUFFICES ASSUME Inv, [Next]_vars PROVE Inv'
  OBVIOUS
<1>1. CASE UNCHANGED vars
  <2>1. UNCHANGED <<plan, stage, bundle, current, lock, pc, at, claimed, runs,
                    effects, changedBy>>
    BY <1>1 DEF vars, host, target
  <2>2. TypeOK' /\ ProcInv' /\ LockInv' /\ CurrentInv' /\ ClaimInv'
    BY <2>1 DEF Inv, TypeOK, ProcInv, LocalsInv, LockInv, CurrentInv, ClaimInv
  <2>3. HolderInv' /\ ChangedIsGuarded'
    BY <2>1 DEF Inv, HolderInv, Sealed, Serves, ChangedIsGuarded, Guarded
  <2>. QED BY <2>2, <2>3 DEF Inv
<1>2. ASSUME NEW p \in Procs, Step(p) PROVE Inv'
  <2>1. ASSUME NEW c \in Cases, Register(p, c) \/ Enqueue(p, c) PROVE Inv'
    BY <2>1, RegisterKeepsInv, EnqueueKeepsInv
  <2>. QED BY <1>2, <2>1, OpenKeepsInv, AcquireLockKeepsInv, EndsKeepInv,
           AuthorizeKeepsInv, PreStateKeepsInv, ArmKeepsInv, SendKeepsInv,
           RecordKeepsInv, CheckpointKeepsInv, VerifyImpactKeepsInv,
           CleanKeepsInv, FinalKeepsInv, FailedKeepsInv DEF Step
<1>. QED BY <1>1, <1>2 DEF Next

(* The processes, the host's lock, the journals and the checkpoints agree,  *)
(* whatever crashes and whatever write fails: the inductive invariant.      *)
THEOREM Invariance == Spec => []Inv
BY InitInv, NextKeepsInv, PTL DEF Spec

(* Every variable keeps its type.                                           *)
THEOREM TypeCorrect == Spec => []TypeOK
<1>1. Inv => TypeOK
  BY DEF Inv
<1>. QED BY <1>1, Invariance, PTL

(* A change that is not undone is always guarded by the checkpoint of the   *)
(* run that made it: a process killed anywhere, a journal write that fails  *)
(* at any point, or a recovery with an old checkpoint does not lose it.  In *)
(* a protocol case the catch block of a refused recovery may have replaced  *)
(* it by that of a run whose digest is used up, but never removes it.       *)
THEOREM ChangesAreGuarded == Spec => []ChangedIsGuarded
<1>1. Inv => ChangedIsGuarded
  BY DEF Inv
<1>. QED BY <1>1, Invariance, PTL

-------------------------------------------------------------------------------
(* What a step does to the set of changed cases: only a request of the case *)
(* that holds the lock adds to it, and then it was empty; only its cleanup  *)
(* takes the case out.                                                      *)
LEMMA GuardedSteps ==
    ASSUME Inv, [Next]_vars
    PROVE  \/ \A d \in Cases : Guarded(d)' <=> Guarded(d)
           \/ \E c \in Cases :
                /\ \A d \in Cases \ {c} : Guarded(d)' <=> Guarded(d)
                /\ Guarded(c)' => Guarded(c) \/ \A d \in Cases : ~Guarded(d)
<1>1. ASSUME UNCHANGED <<plan, target>>
      PROVE  \A d \in Cases : Guarded(d)' <=> Guarded(d)
  BY <1>1 DEF Guarded, target
<1>2. CASE UNCHANGED vars
  BY <1>1, <1>2 DEF vars
<1>3. ASSUME NEW p \in Procs, Send(p)
      PROVE  \E c \in Cases :
                /\ \A d \in Cases \ {c} : Guarded(d)' <=> Guarded(d)
                /\ Guarded(c)' => Guarded(c) \/ \A d \in Cases : ~Guarded(d)
  <2>. DEFINE c == at[p].case
  <2>1. pc[p] = "send" /\ pc[p] \in Locked /\ c \in Cases /\ ~at[p].recovering
    BY <1>3 DEF Send, Inv, ProcInv, LocalsInv, Acting, Locked
  <2>2. \A d \in Cases : Guarded(d) => d = c
    BY <2>1 DEF Inv, HolderInv
  <2>3. PICK new : effects' = [effects EXCEPT ![c] = new]
    BY <1>3 DEF Send
  <2>4. \A d \in Cases \ {c} : effects'[d] = effects[d]
    BY <2>1, <2>3 DEF Inv, TypeOK
  <2>5. plan' = plan
    BY <1>3 DEF Send, Running
  <2>6. \A d \in Cases \ {c} : Guarded(d)' <=> Guarded(d)
    BY <2>4, <2>5 DEF Guarded
  <2>. QED BY <2>1, <2>2, <2>6
<1>4. ASSUME NEW p \in Procs, Clean(p)
      PROVE  \/ \A d \in Cases : Guarded(d)' <=> Guarded(d)
             \/ \E c \in Cases :
                  /\ \A d \in Cases \ {c} : Guarded(d)' <=> Guarded(d)
                  /\ Guarded(c)' => Guarded(c)
  <2>1. /\ at[p].case \in Cases /\ at[p] \in Locals /\ plan' = plan
    BY <1>4 DEF Clean, Running, Inv, TypeOK, ProcInv, LocalsInv
  <2>2. ASSUME NEW b, Undo(p, b), b.case = at[p].case
        PROVE  \E c \in Cases :
                  /\ \A d \in Cases \ {c} : Guarded(d)' <=> Guarded(d)
                  /\ Guarded(c)' => Guarded(c)
    <3>1. PICK undone \in BOOLEAN :
            effects' = [effects EXCEPT ![b.case] = IF undone THEN @ \ {b.step} ELSE @]
      BY <2>2 DEF Undo
    <3>2. /\ \A d \in Cases \ {b.case} : effects'[d] = effects[d]
          /\ effects'[b.case] \subseteq effects[b.case]
      BY <2>1, <2>2, <3>1 DEF Inv, TypeOK
    <3>3. \A d \in Cases \ {b.case} : Guarded(d)' <=> Guarded(d)
      BY <2>1, <3>2 DEF Guarded
    <3>4. Guarded(b.case)' => Guarded(b.case)
      BY <2>1, <3>2 DEF Guarded
    <3>. QED BY <2>1, <2>2, <3>3, <3>4
  <2>3. ASSUME NEW o \in Outcomes
        PROVE  Appended(at[p], "ROLLBACK_SENT", o).case = at[p].case
    <3>1. "ROLLBACK_SENT" \in Stages
      BY DEF Stages, cleanupObligationStages
    <3>. QED BY <2>1, <3>1, AppendedLocals DEF SameCase
  <2>4. \/ UNCHANGED target
        \/ Undo(p, at[p])
        \/ \E o \in Outcomes : Undo(p, Appended(at[p], "ROLLBACK_SENT", o))
    BY <1>4 DEF Clean
  <2>. QED BY <1>1, <2>1, <2>2, <2>3, <2>4
<1>5. ASSUME NEW p \in Procs, Step(p), ~Send(p), ~Clean(p)
      PROVE  UNCHANGED <<plan, target>>
  <2>1. ASSUME NEW c \in Cases, Register(p, c) \/ Enqueue(p, c)
        PROVE  UNCHANGED <<plan, target>>
    BY <2>1 DEF Register, Enqueue
  <2>2. CASE Open(p) \/ AcquireLock(p) \/ RefuseLock(p) \/ Release(p) \/ Crash(p)
    BY <2>2 DEF Open, AcquireLock, RefuseLock, Release, Crash, Running
  <2>3. CASE Authorize(p) \/ PreState(p) \/ Arm(p) \/ Record(p) \/ Checkpoint(p)
    BY <2>3 DEF Authorize, PreState, Arm, Record, Checkpoint, Running
  <2>4. CASE VerifyImpact(p) \/ Final(p) \/ Failed(p)
    BY <2>4 DEF VerifyImpact, Final, Failed, Running
  <2>. QED BY <1>5, <2>1, <2>2, <2>3, <2>4 DEF Step
<1>. QED BY <1>1, <1>2, <1>3, <1>4, <1>5 DEF Next

(* The workflow coordinator implements SingleMutation, like the kernel of   *)
(* single requests: whatever fails, at most one case's changes are on the   *)
(* application, and the next case changes it only after they are undone.    *)
THEOREM Refinement == Spec => OneCaseAtATime
<1>. DEFINE Object == [c \in Cases |-> IF Guarded(c) THEN "mutated" ELSE "original"]
<1>1. Init => Promise!Init
  BY DEF Init, Promise!Init, Guarded
<1>2. ASSUME Inv, [Next]_vars PROVE [Promise!Next]_Object
  <2>1. CASE \A d \in Cases : Guarded(d)' <=> Guarded(d)
    <3>1. Object' = Object
      BY <2>1
    <3>. QED BY <3>1
  <2>2. ASSUME NEW c \in Cases,
               \A d \in Cases \ {c} : Guarded(d)' <=> Guarded(d),
               Guarded(c)' => Guarded(c) \/ \A d \in Cases : ~Guarded(d)
        PROVE  [Promise!Next]_Object
    <3>1. CASE Guarded(c)' /\ ~Guarded(c)
      <4>1. Object' = [Object EXCEPT ![c] = "mutated"]
        BY <2>2, <3>1
      <4>2. \A d \in Cases : Object[d] = "original"
        BY <2>2, <3>1
      <4>. QED BY <4>1, <4>2 DEF Promise!Next, Promise!Mutate
    <3>2. CASE Guarded(c) /\ ~Guarded(c)'
      <4>1. Object' = [Object EXCEPT ![c] = "original"]
        BY <2>2, <3>2
      <4>2. Object[c] = "mutated"
        BY <3>2
      <4>. QED BY <4>1, <4>2 DEF Promise!Next, Promise!Restore
    <3>3. CASE Guarded(c)' <=> Guarded(c)
      <4>1. Object' = Object
        BY <2>2, <3>3
      <4>. QED BY <4>1
    <3>. QED BY <3>1, <3>2, <3>3
  <2>. QED BY <1>2, <2>1, <2>2, GuardedSteps
<1>3. Inv /\ [Next]_vars => [Promise!Next]_Object
  BY <1>2
<1>. QED BY <1>1, <1>3, Invariance, PTL DEF Spec, OneCaseAtATime, Promise!Spec
===============================================================================
