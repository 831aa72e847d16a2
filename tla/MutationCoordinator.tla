------------------------- MODULE MutationCoordinator -------------------------
(***************************************************************************)
(* The distributed mutation coordinator of the control plane: one          *)
(* namespace, its ACTIVE lease and its cleanup obligations, as kept by     *)
(* dashboard/operations/DistributedMutationCoordinatorService.ts.  Every   *)
(* operation is one SQLite transaction, hence one atomic step.             *)
(*                                                                         *)
(* A lease is identified in the code by its id, holder and token.  A       *)
(* process keeps at most one lease at a time and no second lease exists    *)
(* while one is ACTIVE, so the holder identifies the lease; a release that *)
(* its client stopped waiting for is kept with the lease it names, and     *)
(* disappears with it (the code then answers LEASE_REJECTED).              *)
(***************************************************************************)
EXTENDS Naturals, FiniteSets

CONSTANTS
    Cases,       \* contract case ids
    Procs,       \* processes that may hold a lease
    None         \* "no lease", "nobody"

VARIABLES
    activeLease, \* the namespace's row with status ACTIVE, or None
    obligations  \* the cases with a row in distributed_mutation_obligations

coordVars == <<activeLease, obligations>>

(* holder = None: granted to a client that had stopped waiting, so that     *)
(* nobody knows the token.  late: cleanup reports of release requests that  *)
(* their sender gave up on and that may still arrive.                       *)
Lease == [holder : Procs \cup {None}, case : Cases, expired : BOOLEAN,
          late : SUBSET (SUBSET Cases)]

ASSUME NoneAssumption == None \notin Lease

CoordTypeOK ==
    /\ activeLease \in Lease \cup {None}
    /\ obligations \in SUBSET Cases

CoordInit ==
    /\ activeLease = None
    /\ obligations = {}

(* Mutants of acquire: an expired lease counts as free; recovery is not let *)
(* in.                                                                      *)
ExpiredLeaseIsFree(c, recovery) ==
    /\ IF activeLease = None THEN TRUE ELSE activeLease.expired
    /\ obligations # {} => recovery /\ obligations \subseteq {c}

RecoveryNotLetIn(c, recovery) == activeLease = None /\ obligations = {}

ObligationsIgnored(c, recovery) == activeLease = None

(* acquire: an ACTIVE lease, expired or not, refuses everyone; open         *)
(* obligations refuse everyone but a recovery of the only obligated case.   *)
MayAcquire(c, recovery) ==
    /\ activeLease = None
    /\ obligations # {} => recovery /\ obligations \subseteq {c}

CoordAcquire(p, c, recovery) ==
    /\ MayAcquire(c, recovery)
    /\ activeLease' = [holder |-> p, case |-> c, expired |-> FALSE, late |-> {}]
    /\ UNCHANGED obligations

(* The lease passes its expires_at.                                         *)
CoordExpire ==
    /\ activeLease # None
    /\ ~activeLease.expired
    /\ activeLease' = [activeLease EXCEPT !.expired = TRUE]
    /\ UNCHANGED obligations

(* renew accepts an expired lease as long as nobody orphaned it.            *)
CoordRenew(p) ==
    /\ activeLease # None
    /\ activeLease.holder = p
    /\ activeLease.expired
    /\ activeLease' = [activeLease EXCEPT !.expired = FALSE]
    /\ UNCHANGED obligations

(* Mutant of release: every release counts as CLEAN.                        *)
ReleaseAlwaysClean(report) ==
    /\ activeLease # None
    /\ obligations' = obligations \ {activeLease.case}
    /\ activeLease' = None

(* release: report is {} for CLEAN, the listed cases for UNRESOLVED and the *)
(* lease's own case for UNKNOWN.  The lease's case is cleared unless the    *)
(* report lists it, every listed case is upserted.                          *)
CoordRelease(report) ==
    /\ activeLease # None
    /\ obligations' = (obligations \ {activeLease.case}) \cup report
    /\ activeLease' = None

(* A release request whose client stopped waiting.                          *)
CoordReleaseLate(report) ==
    /\ activeLease # None
    /\ activeLease' = [activeLease EXCEPT !.late = @ \cup {report}]
    /\ UNCHANGED obligations

(* ... and its later arrival.                                               *)
CoordDeliverRelease ==
    /\ activeLease # None
    /\ \E report \in activeLease.late : CoordRelease(report)

(* orphan: an operator declares an expired lease state-uncertain.           *)
CoordOrphan ==
    /\ activeLease # None
    /\ activeLease.expired
    /\ obligations' = obligations \cup {activeLease.case}
    /\ activeLease' = None

(* resolve: an operator clears an obligation while no lease is ACTIVE.      *)
CoordResolve(c) ==
    /\ activeLease = None
    /\ c \in obligations
    /\ obligations' = obligations \ {c}
    /\ UNCHANGED activeLease
==============================================================================
