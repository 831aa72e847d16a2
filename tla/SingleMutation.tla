---------------------------- MODULE SingleMutation ----------------------------
(***************************************************************************)
(* What the controlled-mutation kernel promises of the targets it touches, *)
(* whatever crashes, lost requests and operators do: at most one object of *)
(* the namespace is away from its original state at any time, and a next   *)
(* one is only touched after the last one was restored.                    *)
(***************************************************************************)
CONSTANT Cases
VARIABLE object

Init == object = [c \in Cases |-> "original"]

Mutate(c) ==
    /\ \A d \in Cases : object[d] = "original"
    /\ object' = [object EXCEPT ![c] = "mutated"]

Restore(c) ==
    /\ object[c] = "mutated"
    /\ object' = [object EXCEPT ![c] = "original"]

Next == \E c \in Cases : Mutate(c) \/ Restore(c)

Spec == Init /\ [][Next]_object
===============================================================================
