--------------------------- MODULE MCRequestBroker ---------------------------
(* Small instances of RequestBroker: three requests over a scan broker, a    *)
(* broker of a controlled mutation and a cleanup broker; four reads of one   *)
(* address.                                                                 *)
EXTENDS RequestBroker

CONSTANTS r1, r2, r3, r4, scanB, attackB, cleanB, u1, u2

P(k, b, u) == [kind |-> k, broker |-> b, url |-> u]
Plan(p1, p2, p3) == r1 :> p1 @@ r2 :> p2 @@ r3 :> p3

MCLane == scanB :> "SCAN" @@ attackB :> "SCAN" @@ cleanB :> "CLEANUP"
MCBrokerMax == scanB :> 2 @@ attackB :> 2 @@ cleanB :> 1
MCQueueSlots == scanB :> 2 @@ attackB :> 1 @@ cleanB :> 1

Read(u) == P("read", scanB, u)
CleanupRead == P("read", cleanB, u1)
Browser == P("browser", scanB, u1)
RawPair == P("raw", attackB, u1)
Race == P("race", attackB, u1)
Cleanup == P("mutation", cleanB, u1)
MCPlans == {
    Plan(CleanupRead, CleanupRead, CleanupRead),
    Plan(Read(u1), RawPair, P("discovery", scanB, u1)),
    Plan(P("mutation", attackB, u1), Browser, Cleanup),
    Plan(RawPair, Browser, Cleanup),
    Plan(P("burst", attackB, u1), Race, Race) }

(* Four callers of one address: an owner, a late caller, the owner of the    *)
(* next promise and one more.                                               *)
MCSharedReads == {[r \in Requests |-> Read(u1)]}
MCSymmetry == Permutations(Requests)
=============================================================================
