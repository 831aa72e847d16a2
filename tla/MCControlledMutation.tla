------------------------- MODULE MCControlledMutation -------------------------
(***************************************************************************)
(* Instances of ControlledMutation for TLC.                                *)
(***************************************************************************)
EXTENDS ControlledMutation, TLC

CONSTANTS p1, p2, h1, h2, c1, c2

(* Two hosts with one process each, one contract per host.                  *)
TwoHosts == (p1 :> h1) @@ (p2 :> h2)
OwnCases == (h1 :> {c1}) @@ (h2 :> {c2})

(* One host with two processes, both contracts on it.                       *)
OneHost == (p1 :> h1) @@ (p2 :> h1)
AllCases == (h1 :> Cases)

(* Two hosts that execute the same contracts.                               *)
SharedCases == (h1 :> Cases) @@ (h2 :> Cases)
===============================================================================
