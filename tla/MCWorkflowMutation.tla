-------------------------- MODULE MCWorkflowMutation --------------------------
(* Small instances of WorkflowMutation: two cases of one host, by every     *)
(* engine, and next to each other.                                          *)
EXTENDS WorkflowMutation, TLC

CONSTANTS c1, c2, p1, p2

MCPlans == { c1 :> "stepped" @@ c2 :> "observed",
             c1 :> "protocol" @@ c2 :> "disposable",
             c1 :> "billing" @@ c2 :> "disposable" }

MCProtocolPlan == { c1 :> "protocol" @@ c2 :> "disposable" }

MCSymmetry == Permutations(Procs)
=============================================================================
