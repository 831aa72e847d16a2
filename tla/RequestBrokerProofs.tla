-------------------------- MODULE RequestBrokerProofs --------------------------
(***************************************************************************)
(* Proofs about RequestBroker, for any number of requests, brokers,        *)
(* addresses and limits.                                                   *)
(*                                                                         *)
(* The inductive invariant has one part per shared structure: the slots of *)
(* the ledger, the places of each broker's queue, the rate window and the  *)
(* budgets; and one about each request by itself (where it is, what it has *)
(* written, what it holds in the cache and in the history of GETs).  A     *)
(* step moves one request by its own code; the others it touches are moved *)
(* in four ways only (OtherMoves).                                         *)
(***************************************************************************)
EXTENDS RequestBroker, FiniteSetTheorems, TLAPS

USE BrokerConstants

Holders == {r \in Requests : HoldsSlot(r)}
Placed(b) == {r \in Requests : InQueueSlot(r, b)}

(* A list of requests that are all in the same place, each of them once.    *)
Distinct(s) == \A i, j \in DOMAIN s : s[i] = s[j] => i = j
Listed(s) == {s[i] : i \in DOMAIN s}

SlotInv ==
    /\ active = Cardinality(Holders)
    /\ active <= Concurrency
    /\ \A l \in Lanes :
         /\ waiting[l] # <<>> => active = Concurrency
         /\ Distinct(waiting[l])
         /\ \A x \in Listed(waiting[l]) : pc[x] = "slotWait" /\ LaneOf(x) = l

PlaceInv ==
    \A b \in Brokers :
        /\ qActive[b] = Cardinality(Placed(b))
        /\ qActive[b] <= QueueSlots[b]
        /\ queue[b] # <<>> => qActive[b] = QueueSlots[b]
        /\ Distinct(queue[b])
        /\ \A x \in Listed(queue[b]) : pc[x] = "queued" /\ Broker(x) = b

(* One request: what its place tells about it.                              *)
Noted == {"slotWait", "failing", "slot", "turn", "guard", "transport", "wire"}
Routing == {"attempt", "slotWait", "slot", "turn", "guard", "routed"}
ReqInv(r) ==
    /\ pc[r] \notin {"settled", "done"} => outcome[r] = "none"
    /\ pc[r] \in {"joined", "settled"} => IsGet(r)
    /\ pc[r] = "joined" => awaited[r] \in Requests
    /\ pc[r] = "backoff" => IsGet(r) /\ attempts[r] < MaxAttempts
    /\ pc[r] = "queued" => UsesQueue(r)
    /\ pc[r] \in {"slotWait", "failing", "slot", "guard", "transport", "wire", "routed"}
         => Kind(r) # "burst"
    /\ pc[r] = "routed" => Kind(r) = "browser"
    /\ pc[r] \in {"transport", "wire"} => Kind(r) # "browser"
    /\ Kind(r) = "browser" /\ pc[r] \in Routing => permit[r] \in 1..authSent
    /\ ~IsGet(r) => initiated[r] <= 1
    /\ ~IsGet(r) /\ pc[r] \notin {"wire", "done"} => initiated[r] = 0
    /\ IsGet(r) /\ pc[r] \in Noted => url[r] \in gets
    /\ IsGet(r) /\ pc[r] \in {"queued", "attempt"} => url[r] \in gets \/ Aborted(r)
    /\ IsGet(r) /\ InFlight(r) => plan[r].url \in gets
    /\ pc[r] = "idle" => url[r] = plan[r].url

(* The slots of the window are within the rate, and each write is covered   *)
(* by its slot.                                                             *)
RateInv ==
    /\ Cardinality(Window(recent)) <= AuthRate
    /\ \A k \in 1..authSent : wireRecent[k] <= recent[k]

(* What a request may have on the wire: what it has written and, of a       *)
(* browser, what is committed and not yet written.                          *)
Committed(r) == Kind(r) = "browser" /\ initiated[r] = 0 /\ pc[r] \in Routing
Due == [r \in Requests |-> initiated[r] * Count(r) + IF Committed(r) THEN 1 ELSE 0]
InLane(l) == {r \in Requests : LaneOf(r) = l}
BrokersOf(l) == {b \in Brokers : Lane[b] = l}
Refused == {r \in Requests : Kind(r) = "browser" /\ outcome[r] = "budget"}

BudgetInv ==
    /\ \A l \in Lanes : /\ reserved[l] <= Capacity(l)
                        /\ reserved[l] = Total(sent, BrokersOf(l))
                        /\ Total(Due, InLane(l)) <= reserved[l]
    /\ \A b \in Brokers : sent[b] <= BrokerMax[b]
    /\ authSent <= AuthMax
    /\ authSent = reserved["SCAN"] + reserved["CLEANUP"] + Cardinality(Refused)

Inv == /\ TypeOK /\ SlotInv /\ PlaceInv /\ RateInv /\ BudgetInv
       /\ \A r \in Requests : ReqInv(r)
       /\ wireGets \subseteq gets

-------------------------------------------------------------------------------
(* Lists of waiters: joining at the end, leaving at the front.              *)
LEMMA EmptyList == Distinct(<<>>) /\ Listed(<<>>) = {}
BY DEF Distinct, Listed

LEMMA Joining ==
    ASSUME NEW s \in Seq(Requests), NEW x \in Requests, x \notin Listed(s), Distinct(s)
    PROVE  /\ Append(s, x) \in Seq(Requests) /\ Append(s, x) # <<>>
           /\ Distinct(Append(s, x))
           /\ Listed(Append(s, x)) = Listed(s) \cup {x}
<1>1. /\ DOMAIN Append(s, x) = 1..(Len(s) + 1) /\ DOMAIN s = 1..Len(s)
      /\ \A i \in 1..Len(s) : Append(s, x)[i] = s[i]
      /\ Append(s, x)[Len(s) + 1] = x
      /\ Append(s, x) \in Seq(Requests) /\ Append(s, x) # <<>> /\ Len(s) \in Nat
  OBVIOUS
<1>2. \A i \in 1..(Len(s) + 1) : i \in 1..Len(s) \/ i = Len(s) + 1
  BY <1>1
<1>. QED BY <1>1, <1>2, SMTT(30) DEF Distinct, Listed

LEMMA Leaving ==
    ASSUME NEW s \in Seq(Requests), s # <<>>, Distinct(s)
    PROVE  /\ Tail(s) \in Seq(Requests) /\ Distinct(Tail(s))
           /\ Head(s) \in Listed(s) /\ Head(s) \in Requests
           /\ Listed(Tail(s)) = Listed(s) \ {Head(s)}
<1>1. /\ Len(s) \in Nat \ {0} /\ Head(s) = s[1] /\ Tail(s) \in Seq(Requests)
      /\ DOMAIN Tail(s) = 1..(Len(s) - 1) /\ DOMAIN s = 1..Len(s)
      /\ \A i \in 1..(Len(s) - 1) : Tail(s)[i] = s[i + 1]
  OBVIOUS
<1>2. Distinct(Tail(s))
  BY <1>1, SMTT(30) DEF Distinct
<1>3. Head(s) \in Listed(s) /\ Head(s) \in Requests
  BY <1>1 DEF Listed
<1>4. ASSUME NEW x \in Listed(Tail(s)) PROVE x \in Listed(s) \ {Head(s)}
  <2>1. PICK i \in 1..(Len(s) - 1) : x = s[i + 1]
    BY <1>1 DEF Listed
  <2>2. i + 1 \in 1..Len(s) /\ 1 \in 1..Len(s) /\ i + 1 # 1
    BY <1>1
  <2>. QED BY <1>1, <2>1, <2>2, ZenonT(30) DEF Listed, Distinct
<1>5. ASSUME NEW x \in Listed(s), x # Head(s) PROVE x \in Listed(Tail(s))
  <2>1. PICK i \in 1..Len(s) : x = s[i]
    BY <1>1 DEF Listed
  <2>2. i - 1 \in 1..(Len(s) - 1) /\ (i - 1) + 1 = i
    BY <1>1, <1>5, <2>1
  <2>3. Tail(s)[i - 1] = x
    BY <1>1, <2>1, <2>2
  <2>. QED BY <1>1, <2>2, <2>3 DEF Listed
<1>. QED BY <1>1, <1>2, <1>3, <1>4, <1>5

-------------------------------------------------------------------------------
(* Sums over finite sets.                                                   *)
LEMMA UnitsFinite ==
    ASSUME NEW S, IsFiniteSet(S), NEW f, \A x \in S : f[x] \in Nat
    PROVE  IsFiniteSet(Units(f, S)) /\ Total(f, S) \in Nat
<1>. DEFINE Parts == {{x} \X (1..f[x]) : x \in S}
            part == [x \in S |-> {x} \X (1..f[x])]
<1>1. IsFiniteSet(Parts)
  <2>1. part \in Surjection(S, Parts)
    BY DEF Surjection
  <2>. HIDE DEF Parts, part
  <2>. QED BY <2>1, FS_Surjection
<1>2. ASSUME NEW x \in S PROVE IsFiniteSet({x} \X (1..f[x]))
  <2>1. 1 \in Int /\ f[x] \in Int
    OBVIOUS
  <2>2. IsFiniteSet({x}) /\ IsFiniteSet(1..f[x])
    BY <2>1, FS_Singleton, FS_Interval
  <2>. QED BY <2>2, FS_Product
<1>3. \A T \in Parts : IsFiniteSet(T)
  BY <1>2
<1>4. IsFiniteSet(UNION Parts)
  <2>. HIDE DEF Parts
  <2>. QED BY <1>1, <1>3, FS_UNION
<1>. QED BY <1>4, FS_CardinalityType DEF Units, Total

(* A sum grows with its members.                                            *)
LEMMA TotalMonotone ==
    ASSUME NEW S, IsFiniteSet(S), NEW f, NEW g,
           \A x \in S : f[x] \in Nat /\ g[x] \in Nat /\ f[x] <= g[x]
    PROVE  Total(f, S) <= Total(g, S)
<1>1. Units(f, S) \subseteq Units(g, S)
  BY DEF Units
<1>2. IsFiniteSet(Units(g, S))
  BY UnitsFinite
<1>. QED BY <1>1, <1>2, FS_Subset DEF Total

(* A member that grows by n adds n; members that stay add nothing.          *)
LEMMA TotalAdds ==
    ASSUME NEW S, IsFiniteSet(S), NEW f, NEW g, NEW a \in S, NEW n \in Nat,
           \A x \in S : f[x] \in Nat /\ g[x] \in Nat,
           \A x \in S \ {a} : g[x] = f[x],
           g[a] = f[a] + n
    PROVE  Total(g, S) = Total(f, S) + n
<1>. DEFINE new == {a} \X ((f[a] + 1)..(f[a] + n))
<1>1. IsFiniteSet(Units(f, S)) /\ IsFiniteSet(Units(g, S))
  BY UnitsFinite
<1>2. IsFiniteSet(new) /\ Cardinality(new) = n
  <2>1. IsFiniteSet({a}) /\ Cardinality({a}) = 1
    BY FS_Singleton
  <2>2. /\ IsFiniteSet((f[a] + 1)..(f[a] + n))
        /\ Cardinality((f[a] + 1)..(f[a] + n)) = n
    <3>1. f[a] + 1 \in Int /\ f[a] + n \in Int
      OBVIOUS
    <3>2. /\ IsFiniteSet((f[a] + 1)..(f[a] + n))
          /\ Cardinality((f[a] + 1)..(f[a] + n)) =
               IF f[a] + 1 > f[a] + n THEN 0 ELSE (f[a] + n) - (f[a] + 1) + 1
      BY <3>1, FS_Interval
    <3>. QED BY <3>2, SMTT(30)
  <2>3. /\ IsFiniteSet(new)
        /\ Cardinality(new) = Cardinality({a}) * Cardinality((f[a] + 1)..(f[a] + n))
    BY <2>1, <2>2, FS_Product
  <2>. QED BY <2>1, <2>2, <2>3
<1>3. Units(g, S) = Units(f, S) \cup new
  <2>1. ASSUME NEW u \in Units(g, S) PROVE u \in Units(f, S) \cup new
    <3>1. PICK x \in S : u \in {x} \X (1..g[x])
      BY DEF Units
    <3>2. CASE x = a
      BY <3>1, <3>2 DEF Units
    <3>3. CASE x # a
      BY <3>1, <3>3 DEF Units
    <3>. QED BY <3>2, <3>3
  <2>2. Units(f, S) \subseteq Units(g, S)
    BY DEF Units
  <2>3. new \subseteq Units(g, S)
    BY DEF Units
  <2>. QED BY <2>1, <2>2, <2>3
<1>4. Units(f, S) \cap new = {}
  BY DEF Units
<1>5. Cardinality(Units(g, S)) =
        Cardinality(Units(f, S)) + Cardinality(new) - Cardinality(Units(f, S) \cap new)
  BY <1>1, <1>2, <1>3, FS_Union
<1>6. Cardinality(Units(f, S) \cap new) = 0
  BY <1>4, FS_EmptySet
<1>7. Cardinality(Units(f, S)) \in Nat
  BY <1>1, FS_CardinalityType
<1>. QED BY <1>2, <1>5, <1>6, <1>7 DEF Total

(* Members outside the set, or that stay, do not change the sum.            *)
LEMMA TotalSame ==
    ASSUME NEW S, NEW f, NEW g, \A x \in S : g[x] = f[x]
    PROVE  Total(g, S) = Total(f, S)
<1>1. Units(g, S) = Units(f, S)
  BY DEF Units
<1>. QED BY <1>1 DEF Total

-------------------------------------------------------------------------------
(* What a request is does not change.                                       *)
LEMMA PlanFixed ==
    ASSUME plan' = plan, NEW x
    PROVE  /\ Kind(x)' = Kind(x) /\ Broker(x)' = Broker(x) /\ LaneOf(x)' = LaneOf(x)
           /\ (UsesQueue(x)' <=> UsesQueue(x)) /\ (IsGet(x)' <=> IsGet(x))
           /\ Count(x)' = Count(x)
<1>1. /\ Kind(x)' = Kind(x) /\ Broker(x)' = Broker(x) /\ LaneOf(x)' = LaneOf(x)
      /\ (UsesQueue(x)' <=> UsesQueue(x)) /\ (IsGet(x)' <=> IsGet(x))
  BY DEF Kind, Broker, LaneOf, UsesQueue, IsGet
<1>2. Group' = Group
  BY DEF Group, Kind
<1>. QED BY <1>1, <1>2 DEF Count

LEMMA RequestTypes ==
    ASSUME TypeOK, NEW r \in Requests
    PROVE  /\ Kind(r) \in Kinds /\ Broker(r) \in Brokers /\ LaneOf(r) \in Lanes
           /\ plan[r].url \in Urls /\ Count(r) \in Nat
           /\ Kind(r) # "burst" => Count(r) \in {1, 2}
           /\ Kind(r) \notin {"burst", "raw"} => Count(r) = 1
<1>1. plan[r] \in [kind : Kinds, broker : Brokers, url : Urls]
  BY DEF TypeOK
<1>2. /\ Kind(r) \in Kinds /\ Broker(r) \in Brokers /\ plan[r].url \in Urls
  BY <1>1 DEF Kind, Broker
<1>3. LaneOf(r) \in Lanes
  BY <1>2 DEF LaneOf
<1>4. Cardinality(Group) \in Nat
  BY FS_Subset, FS_CardinalityType DEF Group
<1>. QED BY <1>2, <1>3, <1>4 DEF Count

(* release(): the slot of r goes to the next waiter, or is free again.      *)
LEMMA SlotPassedOn ==
    ASSUME TypeOK, SlotInv, plan' = plan, NEW r \in Requests, HoldsSlot(r), ~HoldsSlot(r)',
           Release,
           \A x \in Requests : pc[x] = "slotWait" => Kind(x) # "burst",
           \A x \in Requests \ {r} :
              IF x \in Granted(TRUE) THEN pc'[x] = "slot"
              ELSE /\ HoldsSlot(x)' <=> HoldsSlot(x)
                   /\ pc[x] = "slotWait" => pc'[x] = "slotWait"
    PROVE  SlotInv'
<1>1. /\ IsFiniteSet(Holders) /\ Cardinality(Holders) \in Nat /\ r \in Holders
      /\ active = Cardinality(Holders) /\ active \in Nat
  BY FS_Subset, FS_CardinalityType DEF Holders, SlotInv
<1>2. /\ IsFiniteSet(Holders \ {r})
      /\ Cardinality(Holders \ {r}) = Cardinality(Holders) - 1
  BY <1>1, FS_RemoveElement
<1>3. pc[r] # "slotWait"
  BY DEF HoldsSlot
<1>4. CASE waiting[NextLane] = <<>>
  <2>1. \A l \in Lanes : waiting[l] = <<>>
    BY <1>4 DEF NextLane, Lanes
  <2>2. active' = active - 1 /\ waiting' = waiting /\ Granted(TRUE) = {}
    BY <1>4 DEF Release, Granted
  <2>3. Holders' = Holders \ {r}
    BY <2>2 DEF Holders
  <2>4. active' = Cardinality(Holders') /\ active' <= Concurrency
    BY <1>1, <1>2, <2>2, <2>3 DEF SlotInv
  <2>5. ASSUME NEW l \in Lanes
        PROVE  /\ waiting'[l] = <<>> /\ Distinct(waiting'[l])
               /\ Listed(waiting'[l]) = {}
    BY <2>1, <2>2, EmptyList
  <2>. QED BY <2>4, <2>5 DEF SlotInv
<1>5. CASE waiting[NextLane] # <<>>
  <2>0. PICK n \in Lanes : n = NextLane
    BY DEF NextLane, Lanes
  <2>1. waiting[n] \in Seq(Requests) /\ Distinct(waiting[n]) /\ waiting[n] # <<>>
    BY <1>5, <2>0 DEF TypeOK, SlotInv
  <2>2. PICK h \in Requests :
           /\ h = Head(waiting[n]) /\ h \in Listed(waiting[n])
           /\ Tail(waiting[n]) \in Seq(Requests) /\ Distinct(Tail(waiting[n]))
           /\ Listed(Tail(waiting[n])) = Listed(waiting[n]) \ {h}
    BY <2>1, Leaving
  <2>3. pc[h] = "slotWait" /\ LaneOf(h) = n /\ Kind(h) # "burst"
    BY <2>1, <2>2 DEF SlotInv
  <2>4. Granted(TRUE) = {h} /\ h # r
    BY <1>3, <1>5, <2>0, <2>2, <2>3 DEF Granted
  <2>5. waiting' = [waiting EXCEPT ![n] = Tail(@)] /\ active' = active
    BY <1>5, <2>0 DEF Release
  <2>6. h \notin Holders /\ pc'[h] = "slot"
    BY <2>2, <2>3, <2>4 DEF Holders, HoldsSlot
  <2>7. Holders' = (Holders \ {r}) \cup {h}
    <3>1. \A x \in Requests : x # r /\ x # h => (HoldsSlot(x)' <=> HoldsSlot(x))
      BY <2>4
    <3>2. HoldsSlot(h)'
      BY <2>3, <2>6, PlanFixed DEF HoldsSlot
    <3>. QED BY <2>2, <3>1, <3>2 DEF Holders
  <2>8. active' = Cardinality(Holders') /\ active' <= Concurrency
    <3>1. Cardinality((Holders \ {r}) \cup {h}) = Cardinality(Holders \ {r}) + 1
      BY <1>2, <2>6, FS_AddElement
    <3>. QED BY <1>1, <1>2, <2>5, <2>7, <3>1 DEF SlotInv
  <2>9. active' = Concurrency
    BY <1>5, <2>1, <2>5 DEF SlotInv
  <2>10. ASSUME NEW l \in Lanes
         PROVE  /\ Distinct(waiting'[l])
                /\ \A x \in Listed(waiting'[l]) : pc'[x] = "slotWait" /\ LaneOf(x)' = l
    <3>1. waiting'[l] = IF l = n THEN Tail(waiting[n]) ELSE waiting[l]
      BY <2>1, <2>5 DEF TypeOK
    <3>2. /\ Distinct(waiting'[l])
          /\ Listed(waiting'[l]) \subseteq Listed(waiting[l])
          /\ h \notin Listed(waiting'[l])
      <4>1. CASE l = n
        BY <2>2, <3>1, <4>1
      <4>2. CASE l # n
        <5>1. waiting'[l] = waiting[l]
          BY <3>1, <4>2
        <5>. QED BY <2>3, <4>2, <5>1 DEF SlotInv
      <4>. QED BY <4>1, <4>2
    <3>3. ASSUME NEW x \in Listed(waiting'[l])
          PROVE  pc'[x] = "slotWait" /\ LaneOf(x)' = l
      <4>1. waiting[l] \in Seq(Requests)
        BY DEF TypeOK
      <4>2. x \in Listed(waiting[l]) /\ x # h
        BY <3>2
      <4>3. x \in Requests
        BY <4>1, <4>2 DEF Listed
      <4>4. pc[x] = "slotWait" /\ LaneOf(x) = l
        BY <4>2 DEF SlotInv
      <4>. QED BY <1>3, <2>4, <4>2, <4>3, <4>4, PlanFixed
    <3>. QED BY <3>2, <3>3
  <2>. QED BY <2>8, <2>9, <2>10 DEF SlotInv
<1>. QED BY <1>4, <1>5

(* A step that neither takes nor gives a slot.                              *)
LEMMA SlotKept ==
    ASSUME TypeOK, SlotInv, plan' = plan, UNCHANGED slotVars,
           \A x \in Requests : /\ HoldsSlot(x)' <=> HoldsSlot(x)
                               /\ pc[x] = "slotWait" => pc'[x] = "slotWait"
    PROVE  SlotInv'
<1>1. active' = active /\ waiting' = waiting /\ Holders' = Holders
  BY DEF slotVars, Holders
<1>2. ASSUME NEW l \in Lanes, NEW x \in Listed(waiting[l])
      PROVE  pc'[x] = "slotWait" /\ LaneOf(x)' = l
  <2>1. waiting[l] \in Seq(Requests)
    BY DEF TypeOK
  <2>2. x \in Requests /\ pc[x] = "slotWait" /\ LaneOf(x) = l
    BY <2>1 DEF SlotInv, Listed
  <2>. QED BY <2>2, PlanFixed
<1>. QED BY <1>1, <1>2 DEF SlotInv

(* RequestQueue.release: the place of r goes to the first of its queue, or  *)
(* is free again.                                                           *)
LEMMA PlacePassedOn ==
    ASSUME TypeOK, PlaceInv, plan' = plan, NEW r \in Requests, UsesQueue(r),
           pc[r] \notin {"idle", "joined", "queued", "settled", "done"},
           pc'[r] \in {"settled", "done"}, QueueRelease(Broker(r)),
           \A x \in Requests : pc[x] = "queued" => UsesQueue(x),
           \A x \in Requests \ {r} :
              IF x \in Dequeued(r) THEN pc'[x] = "attempt"
              ELSE /\ \A b \in Brokers : InQueueSlot(x, b)' <=> InQueueSlot(x, b)
                   /\ pc[x] = "queued" => pc'[x] = "queued"
    PROVE  PlaceInv'
<1>1. PICK m \in Brokers : m = Broker(r)
  BY RequestTypes
<1>2. queue[m] \in Seq(Requests) /\ Distinct(queue[m])
  BY DEF TypeOK, PlaceInv
<1>3. ASSUME NEW b \in Brokers
      PROVE  IsFiniteSet(Placed(b)) /\ Cardinality(Placed(b)) \in Nat
  BY FS_Subset, FS_CardinalityType DEF Placed
<1>4. /\ r \in Placed(m) /\ \A b \in Brokers : ~InQueueSlot(r, b)'
      /\ \A b \in Brokers : b # m => r \notin Placed(b)
  BY <1>1 DEF Placed, InQueueSlot
<1>5. /\ IsFiniteSet(Placed(m) \ {r})
      /\ Cardinality(Placed(m) \ {r}) = Cardinality(Placed(m)) - 1
  BY <1>3, <1>4, FS_RemoveElement
<1>6. ASSUME NEW b \in Brokers, NEW x \in Listed(queue[b])
      PROVE  x \in Requests /\ pc[x] = "queued" /\ Broker(x) = b /\ x # r
  <2>1. queue[b] \in Seq(Requests)
    BY DEF TypeOK
  <2>. QED BY <2>1 DEF PlaceInv, Listed
<1>7. CASE queue[m] = <<>>
  <2>1. /\ qActive' = [qActive EXCEPT ![m] = @ - 1] /\ queue' = queue
        /\ Dequeued(r) = {}
    BY <1>1, <1>7 DEF QueueRelease, Dequeued
  <2>. SUFFICES ASSUME NEW b \in Brokers
                PROVE  /\ qActive'[b] = Cardinality(Placed(b)')
                       /\ qActive'[b] <= QueueSlots[b]
                       /\ queue'[b] # <<>> => qActive'[b] = QueueSlots[b]
                       /\ Distinct(queue'[b])
                       /\ \A x \in Listed(queue'[b]) : pc'[x] = "queued" /\ Broker(x)' = b
    BY DEF PlaceInv
  <2>2. Placed(b)' = Placed(b) \ {r}
    BY <1>4, <2>1 DEF Placed
  <2>3. \A x \in Listed(queue'[b]) : pc'[x] = "queued" /\ Broker(x)' = b
    BY <1>6, <2>1, PlanFixed
  <2>4. qActive'[b] = Cardinality(Placed(b)') /\ qActive'[b] <= QueueSlots[b]
    <3>1. CASE b = m
      <4>1. /\ qActive[b] \in Nat /\ qActive'[b] = qActive[b] - 1
            /\ qActive[b] = Cardinality(Placed(b)) /\ qActive[b] <= QueueSlots[b]
        BY <2>1, <3>1 DEF TypeOK, PlaceInv
      <4>2. Cardinality(Placed(b) \ {r}) = Cardinality(Placed(b)) - 1
        BY <1>5, <3>1
      <4>. QED BY <2>2, <4>1, <4>2
    <3>2. CASE b # m
      <4>1. Placed(b)' = Placed(b)
        BY <1>4, <2>2, <3>2
      <4>. QED BY <2>1, <3>2, <4>1 DEF TypeOK, PlaceInv
    <3>. QED BY <3>1, <3>2
  <2>5. queue'[b] # <<>> => qActive'[b] = QueueSlots[b]
    BY <1>7, <2>1 DEF TypeOK, PlaceInv
  <2>. QED BY <2>1, <2>3, <2>4, <2>5 DEF PlaceInv
<1>8. CASE queue[m] # <<>>
  <2>1. PICK h \in Requests :
           /\ h = Head(queue[m]) /\ h \in Listed(queue[m])
           /\ Tail(queue[m]) \in Seq(Requests) /\ Distinct(Tail(queue[m]))
           /\ Listed(Tail(queue[m])) = Listed(queue[m]) \ {h}
    BY <1>2, <1>8, Leaving
  <2>2. pc[h] = "queued" /\ Broker(h) = m /\ h # r /\ UsesQueue(h)
    BY <1>6, <2>1
  <2>3. Dequeued(r) = {h} /\ pc'[h] = "attempt"
    BY <1>1, <1>8, <2>1, <2>2 DEF Dequeued
  <2>4. queue' = [queue EXCEPT ![m] = Tail(@)] /\ qActive' = qActive
    BY <1>1, <1>8 DEF QueueRelease
  <2>5. Cardinality((Placed(m) \ {r}) \cup {h}) = Cardinality(Placed(m) \ {r}) + 1
    <3>1. h \notin Placed(m)
      BY <2>2 DEF Placed, InQueueSlot
    <3>. QED BY <1>5, <3>1, FS_AddElement
  <2>. SUFFICES ASSUME NEW b \in Brokers
                PROVE  /\ qActive'[b] = Cardinality(Placed(b)')
                       /\ Distinct(queue'[b])
                       /\ queue'[b] # <<>> => qActive[b] = QueueSlots[b]
                       /\ \A x \in Listed(queue'[b]) : pc'[x] = "queued" /\ Broker(x)' = b
    BY <2>4 DEF PlaceInv
  <2>6. qActive'[b] = Cardinality(Placed(b)')
    <3>1. CASE b = m
      <4>1. InQueueSlot(h, b)'
        BY <2>2, <2>3, <3>1, PlanFixed DEF InQueueSlot
      <4>2. Placed(b)' = (Placed(b) \ {r}) \cup {h}
        BY <1>4, <2>3, <4>1 DEF Placed
      <4>3. Cardinality((Placed(b) \ {r}) \cup {h}) = Cardinality(Placed(b))
        BY <1>3, <1>5, <2>5, <3>1
      <4>. QED BY <2>4, <4>2, <4>3 DEF PlaceInv
    <3>2. CASE b # m
      <4>1. ~InQueueSlot(h, b) /\ ~InQueueSlot(h, b)'
        BY <2>2, <3>2, PlanFixed DEF InQueueSlot
      <4>2. Placed(b)' = Placed(b)
        BY <1>4, <2>3, <3>2, <4>1 DEF Placed
      <4>. QED BY <2>4, <4>2 DEF PlaceInv
    <3>. QED BY <3>1, <3>2
  <2>7. queue'[b] = IF b = m THEN Tail(queue[m]) ELSE queue[b]
    BY <2>4 DEF TypeOK
  <2>8. /\ Distinct(queue'[b])
        /\ Listed(queue'[b]) \subseteq Listed(queue[b]) \ {h}
    <3>1. CASE b = m
      BY <2>1, <2>7, <3>1
    <3>2. CASE b # m
      <4>1. queue'[b] = queue[b] /\ h \notin Listed(queue[b])
        BY <1>6, <2>2, <2>7, <3>2
      <4>. QED BY <4>1 DEF PlaceInv
    <3>. QED BY <3>1, <3>2
  <2>9. \A x \in Listed(queue'[b]) : pc'[x] = "queued" /\ Broker(x)' = b
    BY <1>6, <2>3, <2>8, PlanFixed
  <2>10. queue'[b] # <<>> => qActive[b] = QueueSlots[b]
    BY <1>8, <2>7 DEF PlaceInv
  <2>. QED BY <2>6, <2>8, <2>9, <2>10
<1>. QED BY <1>7, <1>8

(* A step that neither takes nor gives a place.                             *)
LEMMA PlaceKept ==
    ASSUME TypeOK, PlaceInv, plan' = plan, UNCHANGED queueVars,
           \A x \in Requests :
              /\ \A b \in Brokers : InQueueSlot(x, b)' <=> InQueueSlot(x, b)
              /\ pc[x] = "queued" => pc'[x] = "queued"
    PROVE  PlaceInv'
<1>1. qActive' = qActive /\ queue' = queue /\ \A b \in Brokers : Placed(b)' = Placed(b)
  BY DEF queueVars, Placed
<1>2. ASSUME NEW b \in Brokers, NEW x \in Listed(queue[b])
      PROVE  pc'[x] = "queued" /\ Broker(x)' = b
  <2>1. queue[b] \in Seq(Requests)
    BY DEF TypeOK
  <2>2. x \in Requests /\ pc[x] = "queued" /\ Broker(x) = b
    BY <2>1 DEF PlaceInv, Listed
  <2>. QED BY <2>2, PlanFixed
<1>. QED BY <1>1, <1>2 DEF PlaceInv

-------------------------------------------------------------------------------
(* How a step of one request moves another: a shared promise settles, a     *)
(* slot or a place is handed over, an abort rejects a waiter.               *)
OtherMoves(x) ==
    \/ pc'[x] = pc[x] /\ outcome'[x] = outcome[x]
    \/ pc[x] = "joined" /\ pc'[x] = "settled"
    \/ pc[x] = "settled" /\ pc'[x] = "done" /\ outcome'[x] = outcome[x]
    \/ pc[x] = "slotWait" /\ pc'[x] \in {"slot", "failing"} /\ outcome'[x] = outcome[x]
    \/ pc[x] = "queued" /\ pc'[x] = "attempt" /\ outcome'[x] = outcome[x]

(* A step of the requests M leaves the others' own state alone, and forgets *)
(* no GET and no abort.                                                     *)
Frame(M) ==
    /\ plan' = plan /\ gets \subseteq gets' /\ authSent <= authSent'
    /\ \A l \in Lanes : aborted[l] => aborted'[l]
    /\ \A x \in Requests \ M :
         /\ OtherMoves(x)
         /\ url'[x] = url[x] /\ attempts'[x] = attempts[x]
         /\ initiated'[x] = initiated[x] /\ permit'[x] = permit[x] /\ awaited'[x] = awaited[x]

LEMMA OthersKeepReqInv ==
    ASSUME Inv, NEW M, Frame(M), authSent' \in Nat, NEW x \in Requests \ M
    PROVE  ReqInv(x)'
<1>1. ReqInv(x) /\ OtherMoves(x) /\ plan'[x].url = plan[x].url /\ (Aborted(x) => Aborted(x)')
  <2>1. LaneOf(x) \in Lanes /\ LaneOf(x)' = LaneOf(x)
    BY RequestTypes, PlanFixed DEF Inv, Frame
  <2>. QED BY <2>1 DEF Inv, Frame, Aborted
<1>2. /\ Kind(x)' = Kind(x) /\ Broker(x)' = Broker(x) /\ plan'[x].url = plan[x].url
      /\ (UsesQueue(x)' <=> UsesQueue(x)) /\ (IsGet(x)' <=> IsGet(x))
  BY PlanFixed DEF Frame
<1>3. /\ url'[x] = url[x] /\ attempts'[x] = attempts[x] /\ initiated'[x] = initiated[x]
      /\ permit'[x] = permit[x] /\ awaited'[x] = awaited[x]
      /\ gets \subseteq gets' /\ authSent <= authSent'
      /\ authSent \in Nat /\ permit[x] \in 0..authSent
  BY DEF Frame, Inv, TypeOK
<1>4. /\ IsGet(x) /\ pc'[x] \in {"queued", "attempt"} => url'[x] \in gets' \/ Aborted(x)'
      /\ IsGet(x) /\ InFlight(x)' => plan[x].url \in gets'
      /\ pc'[x] = "idle" => url'[x] = plan[x].url
  BY <1>1, <1>3 DEF ReqInv, OtherMoves, InFlight
<1>5. Kind(x) = "browser" /\ pc'[x] \in Routing => pc[x] \in Routing
  BY <1>1 DEF ReqInv, OtherMoves, Routing, UsesQueue
<1>6. Kind(x) = "browser" /\ pc'[x] \in Routing => permit'[x] \in 1..authSent'
  BY <1>1, <1>3, <1>5 DEF ReqInv
<1>7. IsGet(x) /\ pc'[x] \in Noted => url'[x] \in gets'
  BY <1>1, <1>3 DEF ReqInv, OtherMoves, Noted
<1>8. /\ pc'[x] \notin {"settled", "done"} => outcome'[x] = "none"
      /\ pc'[x] \in {"joined", "settled"} => IsGet(x)
      /\ pc'[x] = "joined" => awaited'[x] \in Requests
      /\ pc'[x] = "backoff" => IsGet(x) /\ attempts'[x] < MaxAttempts
      /\ pc'[x] = "queued" => UsesQueue(x)
      /\ pc'[x] \in {"slotWait", "failing", "slot", "guard", "transport", "wire", "routed"}
           => Kind(x) # "burst"
      /\ pc'[x] = "routed" => Kind(x) = "browser"
      /\ pc'[x] \in {"transport", "wire"} => Kind(x) # "browser"
  BY <1>1, <1>3 DEF ReqInv, OtherMoves
<1>9. /\ ~IsGet(x) => initiated'[x] <= 1
      /\ ~IsGet(x) /\ pc'[x] \notin {"wire", "done"} => initiated'[x] = 0
  BY <1>1, <1>3 DEF ReqInv, OtherMoves
<1>. QED BY <1>2, <1>4, <1>6, <1>7, <1>8, <1>9 DEF ReqInv

LEMMA ProductNat ==
    ASSUME NEW m \in Nat, NEW n \in Nat
    PROVE  m * n \in Nat
OBVIOUS

(* A request's dues are numbers, and those of the others do not grow.       *)
LEMMA DueStep ==
    ASSUME TypeOK, TypeOK', plan' = plan
    PROVE  Due \in [Requests -> Nat] /\ Due' \in [Requests -> Nat]
<1>1. ASSUME NEW x \in Requests
      PROVE  /\ initiated[x] * Count(x) \in Nat /\ initiated'[x] * Count(x)' \in Nat
  <2>1. Count(x) \in Nat /\ Count(x)' = Count(x)
    BY RequestTypes, PlanFixed
  <2>2. initiated[x] \in Nat /\ initiated'[x] \in Nat
    BY DEF TypeOK
  <2>. QED BY <2>1, <2>2, ProductNat
<1>. QED BY <1>1 DEF Due

LEMMA OthersDue ==
    ASSUME Inv, NEW M, Frame(M), NEW x \in Requests \ M, TypeOK'
    PROVE  Due'[x] \in Nat /\ Due[x] \in Nat /\ Due'[x] <= Due[x]
<1>1. ReqInv(x) /\ OtherMoves(x) /\ initiated'[x] = initiated[x] /\ plan' = plan
  BY DEF Inv, Frame
<1>2. Kind(x)' = Kind(x) /\ Count(x)' = Count(x) /\ (UsesQueue(x)' <=> UsesQueue(x))
  BY <1>1, PlanFixed
<1>3. Committed(x)' => Committed(x)
  BY <1>1, <1>2 DEF Committed, ReqInv, OtherMoves, Routing, UsesQueue
<1>4. initiated[x] * Count(x) \in Nat
  <2>1. initiated[x] \in Nat /\ Count(x) \in Nat
    BY RequestTypes DEF Inv, TypeOK
  <2>. QED BY <2>1, ProductNat
<1>5. /\ Due[x] = initiated[x] * Count(x) + IF Committed(x) THEN 1 ELSE 0
      /\ Due'[x] = initiated[x] * Count(x) + IF Committed(x)' THEN 1 ELSE 0
  BY <1>1, <1>2 DEF Due
<1>. QED BY <1>3, <1>4, <1>5

(* Only a browser whose budget was refused changes the set of these.        *)
LEMMA OthersRefused ==
    ASSUME Inv, NEW M, Frame(M), NEW x \in Requests \ M
    PROVE  (x \in Refused') <=> (x \in Refused)
<1>1. ReqInv(x) /\ OtherMoves(x) /\ Kind(x)' = Kind(x)
  BY PlanFixed DEF Inv, Frame
<1>. QED BY <1>1 DEF Refused, ReqInv, OtherMoves, IsGet

(* Nothing is reserved: the budgets still agree.                            *)
LEMMA BudgetKept ==
    ASSUME Inv, TypeOK', NEW M \in SUBSET Requests, Frame(M),
           UNCHANGED <<sent, reserved, authSent>>,
           \A x \in M : /\ Due'[x] <= Due[x]
                        /\ Kind(x) = "browser" =>
                             (outcome'[x] = "budget" <=> outcome[x] = "budget")
    PROVE  BudgetInv'
<1>1. Refused' = Refused
  <2>1. ASSUME NEW x \in M PROVE (x \in Refused') <=> (x \in Refused)
    BY PlanFixed DEF Refused, Frame
  <2>. QED BY <2>1, OthersRefused DEF Refused
<1>2. Due' \in [Requests -> Nat] /\ Due \in [Requests -> Nat]
  BY DueStep DEF Inv, Frame
<1>3. \A x \in Requests : Due'[x] <= Due[x]
  BY OthersDue
<1>4. ASSUME NEW l \in Lanes PROVE Total(Due', InLane(l)') <= reserved'[l]
  <2>1. InLane(l)' = InLane(l) /\ IsFiniteSet(InLane(l)) /\ InLane(l) \subseteq Requests
    BY PlanFixed, FS_Subset DEF InLane, Frame
  <2>2. Total(Due', InLane(l)) <= Total(Due, InLane(l))
    BY <1>2, <1>3, <2>1, TotalMonotone
  <2>3. Total(Due, InLane(l)) <= reserved[l] /\ reserved[l] \in Nat
    BY DEF Inv, BudgetInv, TypeOK
  <2>4. Total(Due', InLane(l)) \in Nat /\ Total(Due, InLane(l)) \in Nat
    BY <1>2, <2>1, UnitsFinite
  <2>. QED BY <2>1, <2>2, <2>3, <2>4
<1>5. \A l \in Lanes : Capacity(l)' = Capacity(l) /\ BrokersOf(l)' = BrokersOf(l)
  BY DEF Capacity, BrokersOf
<1>. QED BY <1>1, <1>4, <1>5 DEF Inv, BudgetInv

-------------------------------------------------------------------------------
(* A step of r leaves the cache a cache, and the other callers where they   *)
(* wait.                                                                    *)
CacheStep(r) ==
    /\ cache' \in [Brokers -> [Urls -> Requests \cup {NoOwner}]]
    /\ awaited' \in [Requests -> Requests \cup {NoOwner}]
    /\ \A x \in Requests \ {r} : awaited'[x] = awaited[x]

LEMMA CacheKept ==
    ASSUME TypeOK, UNCHANGED cacheVars, NEW r
    PROVE  CacheStep(r) /\ awaited' = awaited
BY DEF TypeOK, CacheStep, cacheVars

(* What a step of r does to the places of the requests: the slots and the   *)
(* places stay in order, and the others are moved in the known ways.        *)
Moved(r) ==
    /\ pc' \in [Requests -> PCs] /\ outcome' \in [Requests -> Outcomes]
    /\ CacheStep(r)
    /\ qActive' \in [Brokers -> Nat] /\ queue' \in [Brokers -> Seq(Requests)]
    /\ active' \in Nat /\ waiting' \in [Lanes -> Seq(Requests)]
    /\ SlotInv' /\ PlaceInv'
    /\ \A x \in Requests \ {r} : OtherMoves(x)

Acting == {"attempt", "failing", "slot", "turn", "guard", "transport", "wire", "routed"}

LEMMA ReleaseTypes ==
    ASSUME TypeOK, SlotInv, Release
    PROVE  waiting' \in [Lanes -> Seq(Requests)]
<1>1. PICK n \in Lanes : n = NextLane
  BY DEF NextLane, Lanes
<1>2. waiting[n] \in Seq(Requests) /\ Distinct(waiting[n])
  BY DEF TypeOK, SlotInv
<1>3. CASE waiting[n] = <<>>
  BY <1>1, <1>3 DEF Release, TypeOK
<1>4. CASE waiting[n] # <<>>
  <2>1. Tail(waiting[n]) \in Seq(Requests)
    BY <1>2, <1>4, Leaving
  <2>2. waiting' = [waiting EXCEPT ![n] = Tail(waiting[n])]
    BY <1>1, <1>4 DEF Release
  <2>. QED BY <2>1, <2>2 DEF TypeOK
<1>. QED BY <1>3, <1>4

LEMMA QueueReleaseTypes ==
    ASSUME TypeOK, PlaceInv, NEW m \in Brokers, QueueRelease(m)
    PROVE  queue' \in [Brokers -> Seq(Requests)]
<1>2. queue[m] \in Seq(Requests) /\ Distinct(queue[m])
  BY DEF TypeOK, PlaceInv
<1>3. CASE queue[m] = <<>>
  BY <1>3 DEF QueueRelease, TypeOK
<1>4. CASE queue[m] # <<>>
  <2>1. Tail(queue[m]) \in Seq(Requests)
    BY <1>2, <1>4, Leaving
  <2>2. queue' = [queue EXCEPT ![m] = Tail(queue[m])]
    BY <1>4 DEF QueueRelease
  <2>. QED BY <2>1, <2>2 DEF TypeOK
<1>. QED BY <1>3, <1>4

(* The counters are numbers because they count.                             *)
LEMMA CountersTyped ==
    ASSUME SlotInv', PlaceInv', NEW f \in [Brokers -> Int], qActive' = f
    PROVE  active' \in Nat /\ qActive' \in [Brokers -> Nat]
<1>1. active' \in Nat
  <2>1. IsFiniteSet(Holders') /\ active' = Cardinality(Holders')
    BY FS_Subset DEF Holders, SlotInv
  <2>. QED BY <2>1, FS_CardinalityType
<1>2. ASSUME NEW b \in Brokers PROVE qActive'[b] \in Nat
  <2>1. IsFiniteSet(Placed(b)') /\ qActive'[b] = Cardinality(Placed(b)')
    BY FS_Subset DEF Placed, PlaceInv
  <2>. QED BY <2>1, FS_CardinalityType
<1>. QED BY <1>1, <1>2

LEMMA DequeuedWaits ==
    ASSUME TypeOK, PlaceInv, NEW r \in Requests, NEW x \in Dequeued(r)
    PROVE  x \in Requests /\ pc[x] = "queued"
<1>1. PICK m \in Brokers : m = Broker(r)
  BY RequestTypes
<1>2. queue[m] \in Seq(Requests) /\ Distinct(queue[m]) /\ queue[m] # <<>> /\ x = Head(queue[m])
  BY <1>1 DEF Dequeued, TypeOK, PlaceInv
<1>3. x \in Listed(queue[m]) /\ x \in Requests
  BY <1>2, Leaving
<1>. QED BY <1>3 DEF PlaceInv

LEMMA SettleMoves ==
    ASSUME Inv, plan' = plan, NEW r \in Requests, NEW o \in Outcomes, NEW slot \in BOOLEAN,
           slot <=> HoldsSlot(r), pc[r] \in Acting, Settle(r, o, slot)
    PROVE  /\ Moved(r) /\ pc'[r] \in {"settled", "done"} /\ outcome'[r] = o
           /\ pc'[r] = "settled" <=> IsGet(r)
<1>0. /\ TypeOK /\ SlotInv /\ PlaceInv /\ \A x \in Requests : ReqInv(x)
      /\ pc \in [Requests -> PCs] /\ outcome \in [Requests -> Outcomes]
  BY DEF Inv, TypeOK
<1>1. /\ pc'[r] = Settled(r) /\ Settled(r) \in {"settled", "done"} /\ outcome'[r] = o
      /\ pc'[r] = "settled" <=> IsGet(r)
  BY DEF Settle, Settled
<1>2. /\ \A x \in Joined(r) : pc[x] = "joined"
      /\ \A x \in Granted(slot) : pc[x] = "slotWait"
      /\ \A x \in Dequeued(r) : pc[x] = "queued"
      /\ r \notin Joined(r) /\ r \notin Granted(slot) /\ r \notin Dequeued(r)
  <2>1. \A x \in Dequeued(r) : pc[x] = "queued"
    BY <1>0, DequeuedWaits
  <2>. QED BY <2>1 DEF Joined, Granted, Acting
<1>3. ASSUME NEW x \in Requests \ {r}
      PROVE  \/ /\ pc[x] = "joined" /\ pc'[x] = "settled"
                /\ x \notin Granted(slot) /\ x \notin Dequeued(r)
             \/ /\ x \in Granted(slot) /\ pc[x] = "slotWait" /\ pc'[x] = "slot"
                /\ x \notin Dequeued(r) /\ outcome'[x] = outcome[x]
             \/ /\ x \in Dequeued(r) /\ pc[x] = "queued" /\ pc'[x] = "attempt"
                /\ x \notin Granted(slot) /\ outcome'[x] = outcome[x]
             \/ /\ x \notin Dequeued(r) /\ x \notin Granted(slot)
                /\ pc'[x] = pc[x] /\ outcome'[x] = outcome[x]
  BY <1>2 DEF Settle
<1>4. \A x \in Requests \ {r} : OtherMoves(x)
  BY <1>3 DEF OtherMoves
<1>5. SlotInv'
  <2>1. \A x \in Requests : pc[x] = "slotWait" => Kind(x) # "burst"
    BY <1>0 DEF ReqInv
  <2>2. ~HoldsSlot(r)'
    BY <1>1 DEF HoldsSlot
  <2>3. CASE slot
    <3>1. HoldsSlot(r) /\ Release /\ slot = TRUE
      BY <2>3 DEF Settle
    <3>2. ASSUME NEW x \in Requests \ {r}, x \notin Granted(TRUE)
          PROVE  /\ HoldsSlot(x)' <=> HoldsSlot(x)
                 /\ pc[x] = "slotWait" => pc'[x] = "slotWait"
      BY <1>3, <3>1, <3>2, PlanFixed DEF HoldsSlot
    <3>3. \A x \in Granted(TRUE) : x # r => pc'[x] = "slot"
      BY <1>3, <3>1 DEF Granted
    <3>. QED BY <1>0, <2>1, <2>2, <3>1, <3>2, <3>3, SlotPassedOn
  <2>4. CASE ~slot
    <3>1. UNCHANGED slotVars /\ Granted(slot) = {} /\ ~HoldsSlot(r)
      BY <2>4 DEF Settle, Granted
    <3>2. ASSUME NEW x \in Requests
          PROVE  /\ HoldsSlot(x)' <=> HoldsSlot(x)
                 /\ pc[x] = "slotWait" => pc'[x] = "slotWait"
      <4>1. CASE x = r
        BY <2>2, <3>1, <4>1 DEF Acting
      <4>2. CASE x # r
        BY <1>3, <3>1, <4>2, PlanFixed DEF HoldsSlot
      <4>. QED BY <4>1, <4>2
    <3>. QED BY <1>0, <3>1, <3>2, SlotKept
  <2>. QED BY <2>3, <2>4
<1>6. PICK m \in Brokers : m = Broker(r)
  BY <1>0, RequestTypes
<1>7. PlaceInv'
  <2>1. \A x \in Requests : pc[x] = "queued" => UsesQueue(x)
    BY <1>0 DEF ReqInv
  <2>2. \A b \in Brokers : ~InQueueSlot(r, b)'
    BY <1>1 DEF InQueueSlot
  <2>3. ASSUME NEW x \in Requests \ {r}, x \notin Dequeued(r)
        PROVE  /\ \A b \in Brokers : InQueueSlot(x, b)' <=> InQueueSlot(x, b)
               /\ pc[x] = "queued" => pc'[x] = "queued"
    BY <1>3, <2>3, PlanFixed DEF InQueueSlot
  <2>4. CASE UsesQueue(r)
    <3>1. QueueRelease(Broker(r)) /\ pc[r] \notin {"idle", "joined", "queued", "settled", "done"}
      BY <2>4 DEF Settle, Acting
    <3>2. \A x \in Requests \ {r} : x \in Dequeued(r) => pc'[x] = "attempt"
      BY <1>2, <1>3
    <3>. QED BY <1>0, <1>1, <2>1, <2>3, <2>4, <3>1, <3>2, PlacePassedOn
  <2>5. CASE ~UsesQueue(r)
    <3>1. UNCHANGED queueVars /\ Dequeued(r) = {} /\ \A b \in Brokers : ~InQueueSlot(r, b)
      BY <2>5 DEF Settle, Dequeued, InQueueSlot
    <3>2. ASSUME NEW x \in Requests
          PROVE  /\ \A b \in Brokers : InQueueSlot(x, b)' <=> InQueueSlot(x, b)
                 /\ pc[x] = "queued" => pc'[x] = "queued"
      <4>1. CASE x = r
        BY <2>2, <3>1, <4>1 DEF Acting
      <4>2. CASE x # r
        BY <2>3, <3>1, <4>2
      <4>. QED BY <4>1, <4>2
    <3>. QED BY <1>0, <3>1, <3>2, PlaceKept
  <2>. QED BY <2>4, <2>5
<1>8. waiting' \in [Lanes -> Seq(Requests)]
  <2>1. Release \/ waiting' = waiting
    BY DEF Settle, slotVars
  <2>. QED BY <1>0, <2>1, ReleaseTypes DEF TypeOK
<1>9. queue' \in [Brokers -> Seq(Requests)] /\ qActive' \in [Brokers -> Int]
  <2>1. QueueRelease(m) \/ UNCHANGED queueVars
    BY <1>6 DEF Settle
  <2>2. qActive' \in [Brokers -> Int]
    <3>1. qActive \in [Brokers -> Nat]
      BY <1>0 DEF TypeOK
    <3>2. qActive' = qActive \/ qActive' = [qActive EXCEPT ![m] = @ - 1]
      BY <2>1 DEF QueueRelease, queueVars
    <3>. QED BY <3>1, <3>2
  <2>. QED BY <1>0, <2>1, <2>2, QueueReleaseTypes DEF TypeOK, queueVars
<1>10. active' \in Nat /\ qActive' \in [Brokers -> Nat]
  BY <1>5, <1>7, <1>9, CountersTyped
<1>11. pc' \in [Requests -> PCs] /\ outcome' \in [Requests -> Outcomes]
  BY <1>0, <1>1 DEF Settle, PCs
<1>12. CacheStep(r)
  BY <1>0, CacheKept DEF Settle
<1>. QED BY <1>1, <1>4, <1>5, <1>7, <1>8, <1>9, <1>10, <1>11, <1>12 DEF Moved

LEMMA GoOnMoves ==
    ASSUME Inv, plan' = plan, NEW r \in Requests, NEW to \in {"attempt", "backoff"},
           HoldsSlot(r), GoOn(r, to)
    PROVE  Moved(r) /\ pc'[r] = to /\ outcome' = outcome
<1>0. /\ TypeOK /\ SlotInv /\ PlaceInv /\ \A x \in Requests : ReqInv(x)
      /\ pc \in [Requests -> PCs] /\ outcome \in [Requests -> Outcomes]
  BY DEF Inv, TypeOK
<1>1. pc'[r] = to /\ outcome' = outcome /\ CacheStep(r) /\ UNCHANGED queueVars /\ Release
  BY <1>0, CacheKept DEF GoOn
<1>2. ASSUME NEW x \in Requests \ {r}
      PROVE  \/ x \in Granted(TRUE) /\ pc[x] = "slotWait" /\ pc'[x] = "slot"
             \/ x \notin Granted(TRUE) /\ pc'[x] = pc[x]
  BY DEF GoOn, Granted
<1>3. \A x \in Requests \ {r} : OtherMoves(x)
  BY <1>1, <1>2 DEF OtherMoves
<1>4. SlotInv'
  <2>1. \A x \in Requests : pc[x] = "slotWait" => Kind(x) # "burst"
    BY <1>0 DEF ReqInv
  <2>2. ~HoldsSlot(r)'
    BY <1>1 DEF HoldsSlot
  <2>3. ASSUME NEW x \in Requests \ {r}, x \notin Granted(TRUE)
        PROVE  /\ HoldsSlot(x)' <=> HoldsSlot(x)
               /\ pc[x] = "slotWait" => pc'[x] = "slotWait"
    BY <1>2, <2>3, PlanFixed DEF HoldsSlot
  <2>4. \A x \in Requests \ {r} : x \in Granted(TRUE) => pc'[x] = "slot"
    BY <1>2
  <2>. QED BY <1>0, <1>1, <2>1, <2>2, <2>3, <2>4, SlotPassedOn
<1>5. PlaceInv'
  <2>1. ASSUME NEW x \in Requests
        PROVE  /\ \A b \in Brokers : InQueueSlot(x, b)' <=> InQueueSlot(x, b)
               /\ pc[x] = "queued" => pc'[x] = "queued"
    <3>1. CASE x = r
      BY <1>1, <3>1, PlanFixed DEF InQueueSlot, HoldsSlot
    <3>2. CASE x # r
      BY <1>2, <3>2, PlanFixed DEF InQueueSlot
    <3>. QED BY <3>1, <3>2
  <2>. QED BY <1>0, <1>1, <2>1, PlaceKept
<1>6. waiting' \in [Lanes -> Seq(Requests)]
  BY <1>0, <1>1, ReleaseTypes
<1>7. queue' \in [Brokers -> Seq(Requests)] /\ qActive' \in [Brokers -> Nat]
  BY <1>0, <1>1 DEF TypeOK, queueVars
<1>8. active' \in Nat
  BY <1>4, <1>5, <1>7, CountersTyped
<1>9. pc' \in [Requests -> PCs]
  BY <1>0 DEF GoOn, PCs
<1>. QED BY <1>0, <1>1, <1>3, <1>4, <1>5, <1>6, <1>7, <1>8, <1>9 DEF Moved, TypeOK

(* A request that moves by itself, with its slot and its place.             *)
LEMMA GotoMoves ==
    ASSUME Inv, plan' = plan, NEW r \in Requests, NEW to \in PCs, NEW o \in Outcomes,
           pc' = [pc EXCEPT ![r] = to], outcome' = [outcome EXCEPT ![r] = o],
           CacheStep(r), UNCHANGED <<slotVars, queueVars>>,
           pc[r] \notin {"slotWait", "queued"},
           HoldsSlot(r)' <=> HoldsSlot(r),
           \A b \in Brokers : InQueueSlot(r, b)' <=> InQueueSlot(r, b)
    PROVE  Moved(r) /\ pc'[r] = to /\ outcome'[r] = o
<1>0. /\ TypeOK /\ SlotInv /\ PlaceInv
      /\ pc \in [Requests -> PCs] /\ outcome \in [Requests -> Outcomes]
  BY DEF Inv, TypeOK
<1>1. /\ pc'[r] = to /\ outcome'[r] = o
      /\ \A x \in Requests \ {r} : pc'[x] = pc[x] /\ outcome'[x] = outcome[x]
      /\ pc' \in [Requests -> PCs] /\ outcome' \in [Requests -> Outcomes]
  BY <1>0
<1>2. SlotInv'
  <2>1. ASSUME NEW x \in Requests
        PROVE  /\ HoldsSlot(x)' <=> HoldsSlot(x)
               /\ pc[x] = "slotWait" => pc'[x] = "slotWait"
    BY <1>1, PlanFixed DEF HoldsSlot
  <2>. QED BY <1>0, <2>1, SlotKept
<1>3. PlaceInv'
  <2>1. ASSUME NEW x \in Requests
        PROVE  /\ \A b \in Brokers : InQueueSlot(x, b)' <=> InQueueSlot(x, b)
               /\ pc[x] = "queued" => pc'[x] = "queued"
    <3>1. CASE x = r
      BY <3>1
    <3>2. CASE x # r
      BY <1>1, <3>2, PlanFixed DEF InQueueSlot
    <3>. QED BY <3>1, <3>2
  <2>. QED BY <1>0, <2>1, PlaceKept
<1>. QED BY <1>0, <1>1, <1>2, <1>3 DEF Moved, OtherMoves, TypeOK, slotVars, queueVars

-------------------------------------------------------------------------------
(* The parts together: a step of r that keeps each of them.                 *)
LEMMA StepKeepsInv ==
    ASSUME Inv, NEW r \in Requests, Moved(r), plan' = plan,
           TypeOK', RateInv', BudgetInv', ReqInv(r)', wireGets' \subseteq gets',
           Frame({r})
    PROVE  Inv'
<1>1. authSent' \in Nat
  BY DEF TypeOK
<1>2. \A x \in Requests : ReqInv(x)'
  BY <1>1, OthersKeepReqInv
<1>. QED BY <1>2 DEF Inv, Moved

(* A step that leaves the budgets, the rate window and the wire alone.      *)
Quiet(r) ==
    /\ plan' = plan /\ UNCHANGED <<wireVars, sent, reserved, authVars>>
    /\ url' \in [Requests -> Urls] /\ attempts' \in [Requests -> 1..MaxAttempts]
    /\ hops' \in [Requests -> 0..MaxRedirects]
    /\ gets \subseteq gets' /\ gets' \subseteq Urls
    /\ turns' \in Seq(Requests) /\ cool' \in Nat
    /\ closed' \in BOOLEAN /\ aborted' = aborted
    /\ \A x \in Requests \ {r} : url'[x] = url[x] /\ attempts'[x] = attempts[x]

LEMMA QuietStep ==
    ASSUME Inv, NEW r \in Requests, Moved(r), Quiet(r), ReqInv(r)',
           Kind(r) = "browser" => /\ pc'[r] \in Routing => pc[r] \in Routing
                                  /\ (outcome'[r] = "budget" <=> outcome[r] = "budget")
    PROVE  Inv'
<1>1. Frame({r}) /\ plan' = plan
  <2>1. /\ plan' = plan /\ gets \subseteq gets' /\ authSent' = authSent /\ authSent \in Nat
        /\ initiated' = initiated /\ permit' = permit
        /\ \A x \in Requests \ {r} : url'[x] = url[x] /\ attempts'[x] = attempts[x]
        /\ aborted' = aborted
    BY DEF Quiet, wireVars, authVars, Inv, TypeOK
  <2>2. \A x \in Requests \ {r} : OtherMoves(x) /\ awaited'[x] = awaited[x]
    BY DEF Moved, CacheStep
  <2>. QED BY <2>1, <2>2 DEF Frame
<1>2. TypeOK'
  BY DEF TypeOK, Quiet, Moved, Inv, wireVars, authVars, CacheStep
<1>3. RateInv'
  BY DEF RateInv, Inv, Quiet, wireVars, authVars, Window
<1>4. wireGets' \subseteq gets'
  BY DEF Inv, Quiet, wireVars
<1>5. Due'[r] <= Due[r]
  <2>1. Kind(r)' = Kind(r) /\ Count(r)' = Count(r) /\ initiated'[r] = initiated[r]
    BY <1>1, PlanFixed DEF Quiet, wireVars
  <2>2. Committed(r)' => Committed(r)
    BY <2>1 DEF Committed
  <2>3. initiated[r] \in Nat /\ Count(r) \in Nat
    BY RequestTypes DEF Inv, TypeOK
  <2>4. initiated[r] * Count(r) \in Nat
    BY <2>3, ProductNat
  <2>5. /\ Due[r] = initiated[r] * Count(r) + IF Committed(r) THEN 1 ELSE 0
        /\ Due'[r] = initiated[r] * Count(r) + IF Committed(r)' THEN 1 ELSE 0
    BY <2>1 DEF Due
  <2>. QED BY <2>2, <2>4, <2>5
<1>6. BudgetInv'
  <2>1. UNCHANGED <<sent, reserved, authSent>> /\ {r} \in SUBSET Requests
    BY DEF Quiet, authVars
  <2>. QED BY <1>1, <1>2, <1>5, <2>1, BudgetKept
<1>. QED BY <1>1, <1>2, <1>3, <1>4, <1>6, StepKeepsInv

(* The end of a request, quietly.                                           *)
LEMMA QuietEnd ==
    ASSUME Inv, NEW r \in Requests, Moved(r), Quiet(r), pc[r] # "done",
           pc'[r] \in {"settled", "done"}, pc'[r] = "settled" => IsGet(r),
           pc[r] = "settled" => outcome'[r] = outcome[r],
           Kind(r) = "browser" => outcome'[r] # "budget"
    PROVE  Inv'
<1>1. ReqInv(r) /\ plan' = plan /\ initiated' = initiated
  BY DEF Inv, Quiet, wireVars
<1>2. (IsGet(r)' <=> IsGet(r)) /\ Kind(r)' = Kind(r)
  BY <1>1, PlanFixed
<1>3. ReqInv(r)'
  BY <1>1, <1>2 DEF ReqInv, Noted, Routing, InFlight, IsGet
<1>4. Kind(r) = "browser" => outcome[r] = "none" /\ pc'[r] \notin Routing
  BY <1>1 DEF ReqInv, Routing, IsGet
<1>. QED BY <1>3, <1>4, QuietStep

LEMMA SettledQuietly ==
    ASSUME Inv, NEW r \in Requests, NEW o \in Outcomes, NEW slot \in BOOLEAN,
           slot <=> HoldsSlot(r), pc[r] \in Acting, Settle(r, o, slot), Quiet(r),
           Kind(r) = "browser" => o # "budget"
    PROVE  Inv'
<1>1. plan' = plan
  BY DEF Quiet
<1>2. /\ Moved(r) /\ pc'[r] \in {"settled", "done"} /\ outcome'[r] = o
      /\ pc'[r] = "settled" <=> IsGet(r)
  BY <1>1, SettleMoves
<1>3. pc[r] \notin {"settled", "done"}
  BY DEF Acting
<1>. QED BY <1>2, <1>3, QuietEnd

(* A request ends where it holds neither slot nor place.                    *)
LEMMA EndedQuietly ==
    ASSUME Inv, NEW r \in Requests, NEW o \in Outcomes, End(r, o),
           CacheStep(r), UNCHANGED <<slotVars, queueVars>>, Quiet(r),
           pc[r] \notin {"slotWait", "queued", "settled", "done"}, ~HoldsSlot(r),
           pc[r] \in {"idle", "joined"} \/ ~UsesQueue(r),
           Kind(r) = "browser" => o # "budget"
    PROVE  Inv'
<1>1. plan' = plan /\ pc' = [pc EXCEPT ![r] = "done"] /\ outcome' = [outcome EXCEPT ![r] = o]
  BY DEF Quiet, End
<1>2. pc'[r] = "done"
  BY <1>1 DEF Inv, TypeOK
<1>3. /\ ~HoldsSlot(r)'
      /\ \A b \in Brokers : ~InQueueSlot(r, b)' /\ ~InQueueSlot(r, b)
  BY <1>2 DEF HoldsSlot, InQueueSlot
<1>4. "done" \in PCs
  BY DEF PCs
<1>5. Moved(r) /\ outcome'[r] = o
  BY <1>1, <1>3, <1>4, GotoMoves
<1>. QED BY <1>2, <1>5, QuietEnd

(* A request goes on, with the slot and the place it has.                   *)
LEMMA GoneQuietly ==
    ASSUME Inv, NEW r \in Requests, NEW to \in PCs \ {"done", "joined", "settled"}, Goto(r, to),
           UNCHANGED <<outcome, cacheVars, slotVars, queueVars>>, Quiet(r),
           pc[r] \notin {"slotWait", "queued", "settled", "done", "joined"}, to # "idle",
           HoldsSlot(r)' <=> HoldsSlot(r),
           (pc[r] # "idle" /\ to # "queued") \/ ~UsesQueue(r),
           Kind(r) = "browser" /\ to \in Routing => pc[r] \in Routing,
           ReqInv(r)'
    PROVE  Inv'
<1>1. /\ plan' = plan /\ pc' = [pc EXCEPT ![r] = to]
      /\ outcome[r] \in Outcomes /\ outcome' = [outcome EXCEPT ![r] = outcome[r]]
      /\ pc'[r] = to
  BY DEF Quiet, Goto, Inv, TypeOK
<1>2. \A b \in Brokers : InQueueSlot(r, b)' <=> InQueueSlot(r, b)
  BY <1>1, PlanFixed DEF InQueueSlot
<1>3. Moved(r)
  BY <1>1, <1>2, GotoMoves, CacheKept DEF Inv
<1>. QED BY <1>1, <1>3, QuietStep

(* A request goes on without its slot.                                      *)
LEMMA WentOnQuietly ==
    ASSUME Inv, NEW r \in Requests, NEW to \in {"attempt", "backoff"}, GoOn(r, to),
           HoldsSlot(r), IsGet(r), Quiet(r), to = "backoff" => attempts'[r] < MaxAttempts,
           to = "attempt" => url'[r] \in gets' \/ Aborted(r)'
    PROVE  Inv'
<1>1. plan' = plan /\ ReqInv(r) /\ InFlight(r) /\ Kind(r) = "read" /\ gets \subseteq gets'
  BY DEF Quiet, Inv, HoldsSlot, IsGet, InFlight
<1>2. Moved(r) /\ pc'[r] = to /\ outcome' = outcome
  BY <1>1, GoOnMoves
<1>3. /\ Kind(r)' = "read" /\ Broker(r)' = Broker(r) /\ plan'[r].url = plan[r].url
      /\ IsGet(r)' /\ UsesQueue(r)'
  BY <1>1, PlanFixed DEF IsGet, UsesQueue
<1>4. ReqInv(r)'
  BY <1>1, <1>2, <1>3 DEF ReqInv, Noted, InFlight
<1>. QED BY <1>1, <1>2, <1>4, QuietStep

-------------------------------------------------------------------------------
(* Nothing but the places moves.                                            *)
LEMMA QuietUnchanged ==
    ASSUME TypeOK, NEW r \in Requests,
           UNCHANGED <<plan, url, attempts, hops, wireVars, gets, sent, reserved, authVars,
                       closed, aborted>>,
           turns' \in Seq(Requests), cool' \in Nat
    PROVE  Quiet(r)
BY DEF Quiet, TypeOK

LEMMA AnswersTyped ==
    ASSUME NEW r
    PROVE  /\ Check \in {"closed", "none"} /\ Check \in Outcomes
           /\ GuardAnswer(r) \in Outcomes /\ CommitAnswer(r) \in Outcomes
           /\ ProxyAnswer(r) \in {"closed", "rate", "ok"} /\ ProxyAnswer(r) \in Outcomes
           /\ \A n : Denial(n) \in {"none", "closed", "spent", "rate"} /\ Denial(n) \in Outcomes
<1>1. Check \in {"closed", "none"}
  BY DEF Check
<1>2. \A n : Denial(n) \in {"none", "closed", "spent", "rate"}
  BY <1>1 DEF Denial
<1>3. ProxyAnswer(r) \in {"closed", "rate", "ok"}
  BY <1>1 DEF ProxyAnswer
<1>4. CommitAnswer(r) \in {"duplicate", "budget", "none", "closed", "spent", "rate"}
  BY <1>2 DEF CommitAnswer
<1>5. GuardAnswer(r) \in {"none", "budget", "closed"}
  BY <1>1 DEF GuardAnswer
<1>. QED BY <1>1, <1>2, <1>3, <1>4, <1>5 DEF Outcomes, Denials

(* The ends of a request that changes nothing else.                         *)
LEMMA SettledUnchanged ==
    ASSUME Inv, NEW r \in Requests, NEW o \in Outcomes, Settle(r, o, TRUE),
           pc[r] \in {"slot", "guard", "transport", "wire", "routed"},
           Kind(r) = "browser" => o # "budget",
           UNCHANGED <<plan, url, attempts, hops, wireVars, gets, rateVars, sent, reserved,
                       authVars, closed, aborted>>
    PROVE  Inv'
<1>1. HoldsSlot(r) /\ pc[r] \in Acting
  BY DEF Inv, ReqInv, HoldsSlot, Acting
<1>2. Quiet(r)
  BY QuietUnchanged DEF Inv, TypeOK, rateVars
<1>. QED BY <1>1, <1>2, SettledQuietly

-------------------------------------------------------------------------------
(* The steps of a request, one by one.                                      *)
LEMMA SendRefusedStep ==
    ASSUME Inv, NEW r \in Requests, SendRefused(r) PROVE Inv'
<1>1. Quiet(r)
  BY QuietUnchanged DEF SendRefused, Inv, TypeOK, rateVars
<1>2. "blocked" \in Outcomes /\ ~HoldsSlot(r) /\ CacheStep(r)
  BY CacheKept DEF Outcomes, SendRefused, HoldsSlot, Inv
<1>. QED BY <1>1, <1>2, EndedQuietly DEF SendRefused

LEMMA AppendTyped ==
    ASSUME NEW s \in Seq(Requests), NEW x \in Requests
    PROVE  Append(s, x) \in Seq(Requests)
OBVIOUS

LEMMA NotedTyped ==
    ASSUME TypeOK, NEW r, NEW u \in Urls
    PROVE  /\ gets \subseteq NotedGets(r, u) /\ NotedGets(r, u) \subseteq Urls
           /\ IsGet(r) => u \in NotedGets(r, u)
BY DEF NotedGets, TypeOK

(* A step that notes the address of a GET.                                  *)
LEMMA QuietNoted ==
    ASSUME TypeOK, NEW r \in Requests, NEW u \in Urls, gets' = NotedGets(r, u),
           UNCHANGED <<plan, url, attempts, hops, wireVars, sent, reserved, authVars,
                       closed, aborted>>,
           turns' \in Seq(Requests), cool' \in Nat
    PROVE  Quiet(r) /\ (IsGet(r) => u \in gets')
<1>1. gets \subseteq gets' /\ gets' \subseteq Urls /\ (IsGet(r) => u \in gets')
  BY NotedTyped
<1>. QED BY <1>1 DEF Quiet, TypeOK

(* The owner that a caller finds in the cache.                              *)
LEMMA OwnerTyped ==
    ASSUME TypeOK, NEW r \in Requests
    PROVE  /\ CacheOwner(r) \in Requests \cup {NoOwner}
           /\ CacheOwner(r) # NoOwner => IsGet(r) /\ CacheOwner(r) = cache[Broker(r)][plan[r].url]
<1>1. PICK m \in Brokers, v \in Urls : m = Broker(r) /\ v = plan[r].url
  BY RequestTypes
<1>2. cache \in [Brokers -> [Urls -> Requests \cup {NoOwner}]]
  BY DEF TypeOK
<1>3. cache[m] \in [Urls -> Requests \cup {NoOwner}]
  BY <1>2
<1>4. cache[m][v] \in Requests \cup {NoOwner}
  BY <1>3
<1>. QED BY <1>1, <1>4 DEF CacheOwner

LEMMA SendSharedStep ==
    ASSUME Inv, NEW r \in Requests, SendShared(r) PROVE Inv'
<1>0. TypeOK /\ ReqInv(r) /\ plan[r].url \in Urls /\ Broker(r) \in Brokers
  BY RequestTypes DEF Inv
<1>1. Quiet(r)
  BY <1>0, QuietNoted DEF SendShared, TypeOK, rateVars
<1>2. /\ pc[r] = "idle" /\ IsGet(r) /\ Kind(r) = "read" /\ ~HoldsSlot(r)
      /\ UNCHANGED <<cache, slotVars, queueVars>> /\ plan' = plan
  BY DEF SendShared, Ready, CacheOwner, IsGet, HoldsSlot
<1>3. CacheStep(r) /\ awaited'[r] \in Requests
  <2>1. CacheOwner(r) \in Requests /\ awaited \in [Requests -> Requests \cup {NoOwner}]
    BY <1>0, OwnerTyped DEF SendShared, TypeOK
  <2>2. PICK c \in Requests : awaited' = [awaited EXCEPT ![r] = c]
    BY <2>1 DEF SendShared
  <2>. QED BY <1>0, <1>2, <2>1, <2>2 DEF TypeOK, CacheStep
<1>4. /\ pc' = [pc EXCEPT ![r] = "joined"] /\ outcome' = [outcome EXCEPT ![r] = outcome[r]]
      /\ outcome[r] \in Outcomes /\ "joined" \in PCs /\ pc'[r] = "joined"
  BY <1>0 DEF SendShared, Goto, TypeOK, PCs
<1>5. /\ ~HoldsSlot(r)'
      /\ \A b \in Brokers : ~InQueueSlot(r, b)' /\ ~InQueueSlot(r, b)
  BY <1>2, <1>4 DEF HoldsSlot, InQueueSlot
<1>6. Moved(r) /\ outcome'[r] = outcome[r]
  BY <1>2, <1>3, <1>4, <1>5, GotoMoves
<1>7. Kind(r)' = "read" /\ IsGet(r)'
  BY <1>2, PlanFixed
<1>8. ReqInv(r)'
  BY <1>0, <1>2, <1>3, <1>4, <1>6, <1>7 DEF ReqInv, Noted, InFlight
<1>. QED BY <1>1, <1>2, <1>6, <1>8, QuietStep

(* What a caller removes from the cache leaves it a cache.                  *)
LEMMA DroppedTyped ==
    ASSUME TypeOK, NEW r \in Requests, NEW o, cache' = Dropped(r, o), awaited' = awaited
    PROVE  CacheStep(r)
<1>1. PICK m \in Brokers, v \in Urls : m = Broker(r) /\ v = plan[r].url
  BY RequestTypes
<1>2. cache' = cache \/ cache' = [cache EXCEPT ![m][v] = NoOwner]
  BY <1>1 DEF Dropped
<1>3. /\ cache \in [Brokers -> [Urls -> Requests \cup {NoOwner}]]
      /\ awaited \in [Requests -> Requests \cup {NoOwner}]
  BY DEF TypeOK
<1>4. cache' \in [Brokers -> [Urls -> Requests \cup {NoOwner}]]
  <2>1. CASE cache' = cache
    BY <1>3, <2>1
  <2>2. CASE cache' = [cache EXCEPT ![m][v] = NoOwner]
    <3>1. cache[m] \in [Urls -> Requests \cup {NoOwner}]
      BY <1>3
    <3>2. [cache[m] EXCEPT ![v] = NoOwner] \in [Urls -> Requests \cup {NoOwner}]
      BY <3>1
    <3>3. cache' = [cache EXCEPT ![m] = [cache[m] EXCEPT ![v] = NoOwner]]
      BY <1>3, <2>2
    <3>. QED BY <1>3, <3>2, <3>3
  <2>. QED BY <1>2, <2>1, <2>2
<1>. QED BY <1>3, <1>4 DEF CacheStep

LEMMA ReuseStep ==
    ASSUME Inv, NEW r \in Requests, Reuse(r) PROVE Inv'
<1>1. Quiet(r)
  BY QuietUnchanged DEF Reuse, Inv, TypeOK, rateVars
<1>2. /\ pc[r] = "joined" /\ ~HoldsSlot(r) /\ Kind(r) # "browser" /\ TypeOK
      /\ End(r, outcome[awaited[r]]) /\ UNCHANGED <<slotVars, queueVars>>
  BY DEF Reuse, HoldsSlot, Inv, ReqInv, IsGet
<1>3. CacheStep(r)
  BY <1>2, DroppedTyped DEF Reuse
<1>4. outcome[awaited[r]] \in Outcomes
  <2>1. awaited[r] \in Requests
    BY <1>2 DEF Inv, ReqInv
  <2>. QED BY <1>2, <2>1 DEF TypeOK
<1>. QED BY <1>1, <1>2, <1>3, <1>4, EndedQuietly

LEMMA ResumeStep ==
    ASSUME Inv, NEW r \in Requests, Resume(r) PROVE Inv'
<1>0. /\ TypeOK /\ SlotInv /\ PlaceInv /\ ReqInv(r) /\ pc \in [Requests -> PCs] /\ pc[r] = "settled"
      /\ plan' = plan /\ outcome' = outcome /\ UNCHANGED <<slotVars, queueVars>> /\ IsGet(r)
  BY DEF Inv, TypeOK, Resume, ReqInv
<1>1. Quiet(r)
  BY QuietUnchanged DEF Resume, Inv, TypeOK, rateVars
<1>2. /\ pc' \in [Requests -> PCs] /\ pc'[r] = "done"
      /\ \A x \in Requests : pc'[x] = pc[x] \/ (pc[x] = "settled" /\ pc'[x] = "done")
  BY <1>0 DEF Resume, PCs
<1>3. CacheStep(r)
  BY <1>0, DroppedTyped DEF Resume
<1>4. SlotInv'
  <2>1. \A x \in Requests : /\ HoldsSlot(x)' <=> HoldsSlot(x)
                            /\ pc[x] = "slotWait" => pc'[x] = "slotWait"
    BY <1>0, <1>2, PlanFixed DEF HoldsSlot
  <2>. QED BY <1>0, <2>1, SlotKept
<1>5. PlaceInv'
  <2>1. \A x \in Requests : /\ \A b \in Brokers : InQueueSlot(x, b)' <=> InQueueSlot(x, b)
                            /\ pc[x] = "queued" => pc'[x] = "queued"
    BY <1>0, <1>2, PlanFixed DEF InQueueSlot
  <2>. QED BY <1>0, <2>1, PlaceKept
<1>6. Moved(r)
  BY <1>0, <1>2, <1>3, <1>4, <1>5 DEF Moved, OtherMoves, TypeOK, slotVars, queueVars
<1>. QED BY <1>0, <1>1, <1>2, <1>6, QuietEnd DEF IsGet

LEMMA BurstStep ==
    ASSUME Inv, NEW r \in Requests, Burst(r) PROVE Inv'
<1>1. Quiet(r) /\ ReqInv(r)
  BY QuietUnchanged DEF Burst, Inv, TypeOK, rateVars
<1>2. /\ pc[r] = "idle" /\ Kind(r) = "burst" /\ Goto(r, "attempt") /\ plan' = plan
      /\ UNCHANGED <<outcome, cacheVars, slotVars, queueVars>> /\ initiated' = initiated
  BY DEF Burst, wireVars
<1>3. Kind(r)' = "burst" /\ pc'[r] = "attempt" /\ ~UsesQueue(r) /\ ~IsGet(r) /\ ~IsGet(r)'
  BY <1>2, PlanFixed DEF Goto, UsesQueue, IsGet, Inv, TypeOK
<1>4. ReqInv(r)'
  BY <1>1, <1>2, <1>3 DEF ReqInv
<1>5. ~HoldsSlot(r)' /\ ~HoldsSlot(r) /\ "attempt" \in PCs \ {"done", "joined", "settled"}
  BY <1>2, <1>3 DEF HoldsSlot, PCs
<1>. QED BY <1>1, <1>2, <1>3, <1>4, <1>5, GoneQuietly

LEMMA AttemptRefusedStep ==
    ASSUME Inv, NEW r \in Requests, AttemptRefused(r) PROVE Inv'
<1>1. Quiet(r)
  BY QuietUnchanged DEF AttemptRefused, Inv, TypeOK, rateVars
<1>2. /\ ~HoldsSlot(r) /\ pc[r] \in Acting /\ Settle(r, "budget", FALSE)
      /\ Kind(r) # "browser" /\ "budget" \in Outcomes
  BY DEF AttemptRefused, HoldsSlot, Acting, ChecksBrokerFirst, Outcomes
<1>. QED BY <1>1, <1>2, SettledQuietly

LEMMA TakeTurnStep ==
    ASSUME Inv, NEW r \in Requests, TakeTurn(r) PROVE Inv'
<1>0. TypeOK /\ ReqInv(r) /\ pc[r] = "slot" /\ Kind(r) # "burst" /\ HoldsSlot(r)
  BY DEF Inv, TakeTurn, ReqInv, HoldsSlot
<1>1. CASE Kind(r) # "browser" /\ ~HasCapacity(LaneOf(r), Count(r))
  <2>1. "budget" \in Outcomes /\ UNCHANGED rateVars
    BY <1>1 DEF TakeTurn, Outcomes, rateVars
  <2>. QED BY <1>0, <1>1, <2>1, SettledUnchanged DEF TakeTurn
<1>2. CASE ~(Kind(r) # "browser" /\ ~HasCapacity(LaneOf(r), Count(r)))
  <2>1. PICK to \in {"guard", "turn"} : Goto(r, to)
    BY <1>2 DEF TakeTurn
  <2>2. turns' = turns \/ turns' = Append(turns, r)
    BY <1>2 DEF TakeTurn
  <2>3. turns' \in Seq(Requests)
    <3>1. turns \in Seq(Requests)
      BY <1>0 DEF TypeOK
    <3>2. Append(turns, r) \in Seq(Requests)
      BY <3>1, AppendTyped
    <3>. QED BY <2>2, <3>1, <3>2
  <2>4. Quiet(r)
    BY <1>0, <2>3, QuietUnchanged DEF TakeTurn, TypeOK
  <2>5. /\ UNCHANGED <<outcome, cacheVars, slotVars, queueVars>> /\ plan' = plan
        /\ url' = url /\ gets' = gets /\ initiated' = initiated /\ permit' = permit
        /\ authSent' = authSent
    BY <1>2 DEF TakeTurn, wireVars, authVars
  <2>6. /\ pc'[r] = to /\ Kind(r)' = Kind(r) /\ (IsGet(r)' <=> IsGet(r))
        /\ Broker(r)' = Broker(r)
    BY <1>0, <2>1, <2>5, PlanFixed DEF Goto, TypeOK
  <2>7. HoldsSlot(r)'
    BY <1>0, <2>6 DEF HoldsSlot
  <2>8. ReqInv(r)'
    BY <1>0, <2>5, <2>6 DEF ReqInv, Noted, Routing, InFlight
  <2>9. to \in PCs \ {"done", "joined", "settled"} /\ pc[r] \in Routing
    BY <1>0 DEF PCs, Routing
  <2>. QED BY <1>0, <2>1, <2>4, <2>5, <2>7, <2>8, <2>9, GoneQuietly
<1>. QED BY <1>1, <1>2

LEMMA RateGrantStep ==
    ASSUME Inv, NEW r \in Requests, RateGrant(r) PROVE Inv'
<1>0. TypeOK /\ ReqInv(r) /\ pc[r] = "turn" /\ Count(r) \in Nat
  BY RequestTypes DEF Inv, RateGrant
<1>1. turns' \in Seq(Requests) /\ cool' \in Nat
  <2>1. turns \in Seq(Requests) /\ turns # <<>> /\ turns' = Tail(turns) /\ cool' = Count(r)
    BY <1>0 DEF RateGrant, TypeOK
  <2>. QED BY <1>0, <2>1
<1>2. Quiet(r)
  BY <1>0, <1>1, QuietUnchanged DEF RateGrant
<1>3. CASE Kind(r) = "burst"
  <2>1. "ok" \in Outcomes /\ ~HoldsSlot(r) /\ ~UsesQueue(r) /\ End(r, "ok")
    BY <1>3 DEF Outcomes, HoldsSlot, UsesQueue, RateGrant
  <2>2. CacheStep(r)
    BY <1>0, CacheKept DEF RateGrant
  <2>. QED BY <1>0, <1>2, <1>3, <2>1, <2>2, EndedQuietly DEF RateGrant
<1>4. CASE Kind(r) # "burst"
  <2>1. /\ Goto(r, "guard") /\ UNCHANGED <<outcome, cacheVars, slotVars, queueVars>> /\ plan' = plan
        /\ url' = url /\ gets' = gets /\ initiated' = initiated /\ permit' = permit
        /\ authSent' = authSent
    BY <1>4 DEF RateGrant, wireVars, authVars
  <2>2. /\ pc'[r] = "guard" /\ Kind(r)' = Kind(r) /\ (IsGet(r)' <=> IsGet(r))
        /\ Broker(r)' = Broker(r)
    BY <1>0, <2>1, PlanFixed DEF Goto, TypeOK
  <2>3. HoldsSlot(r)' /\ HoldsSlot(r)
    BY <1>0, <1>4, <2>2 DEF HoldsSlot
  <2>4. ReqInv(r)'
    BY <1>0, <1>4, <2>1, <2>2 DEF ReqInv, Noted, Routing, InFlight
  <2>5. "guard" \in PCs \ {"done", "joined", "settled"} /\ pc[r] \in Routing
    BY <1>0 DEF PCs, Routing
  <2>. QED BY <1>0, <1>2, <2>1, <2>3, <2>4, <2>5, GoneQuietly
<1>. QED BY <1>3, <1>4

LEMMA GuardStep ==
    ASSUME Inv, NEW r \in Requests, Guard(r) PROVE Inv'
<1>0. TypeOK /\ ReqInv(r) /\ pc[r] = "guard" /\ Kind(r) \notin {"burst", "browser"}
  BY DEF Inv, Guard, ReqInv
<1>1. CASE GuardAnswer(r) # "none"
  <2>1. GuardAnswer(r) \in Outcomes
    BY AnswersTyped
  <2>2. Settle(r, GuardAnswer(r), TRUE)
    BY <1>1 DEF Guard
  <2>. QED BY <1>0, <2>1, <2>2, SettledUnchanged DEF Guard
<1>2. CASE GuardAnswer(r) = "none"
  <2>1. /\ Goto(r, "transport") /\ UNCHANGED <<outcome, cacheVars, slotVars, queueVars>>
        /\ plan' = plan /\ url' = url /\ gets' = gets /\ initiated' = initiated
    BY <1>2 DEF Guard, wireVars
  <2>2. /\ pc'[r] = "transport" /\ Kind(r)' = Kind(r) /\ (IsGet(r)' <=> IsGet(r))
        /\ Broker(r)' = Broker(r)
    BY <1>0, <2>1, PlanFixed DEF Goto, TypeOK
  <2>3. HoldsSlot(r)' /\ HoldsSlot(r)
    BY <1>0, <2>2 DEF HoldsSlot
  <2>4. ReqInv(r)'
    BY <1>0, <2>1, <2>2 DEF ReqInv, Noted, Routing, InFlight
  <2>5. "transport" \in PCs \ {"done", "joined", "settled"}
    BY DEF PCs
  <2>6. Quiet(r)
    BY <1>0, QuietUnchanged DEF Guard, rateVars, TypeOK
  <2>. QED BY <1>0, <2>1, <2>3, <2>4, <2>5, <2>6, GoneQuietly
<1>. QED BY <1>1, <1>2

LEMMA RouteContinueStep ==
    ASSUME Inv, NEW r \in Requests, RouteContinue(r) PROVE Inv'
<1>0. TypeOK /\ ReqInv(r) /\ pc[r] = "guard" /\ Kind(r) = "browser"
  BY DEF Inv, RouteContinue
<1>1. CASE Check # "none"
  <2>1. Check \in Outcomes /\ Check # "budget"
    BY AnswersTyped
  <2>2. Settle(r, Check, TRUE)
    BY <1>1 DEF RouteContinue
  <2>. QED BY <1>0, <2>1, <2>2, SettledUnchanged DEF RouteContinue
<1>2. CASE Check = "none"
  <2>1. /\ Goto(r, "routed") /\ UNCHANGED <<outcome, cacheVars, slotVars, queueVars>>
        /\ plan' = plan /\ initiated' = initiated /\ permit' = permit /\ authSent' = authSent
    BY <1>2 DEF RouteContinue, wireVars, authVars
  <2>2. /\ pc'[r] = "routed" /\ Kind(r)' = "browser" /\ ~IsGet(r)' /\ ~IsGet(r)
    BY <1>0, <2>1, PlanFixed DEF Goto, TypeOK, IsGet
  <2>3. HoldsSlot(r)' /\ HoldsSlot(r)
    BY <1>0, <2>2 DEF HoldsSlot
  <2>4. ReqInv(r)'
    BY <1>0, <2>1, <2>2 DEF ReqInv, Noted, Routing, InFlight
  <2>5. "routed" \in PCs \ {"done", "joined", "settled"} /\ pc[r] \in Routing
    BY <1>0 DEF PCs, Routing
  <2>6. Quiet(r)
    BY <1>0, QuietUnchanged DEF RouteContinue, rateVars, TypeOK
  <2>. QED BY <1>0, <2>1, <2>3, <2>4, <2>5, <2>6, GoneQuietly
<1>. QED BY <1>1, <1>2

LEMMA FailStep ==
    ASSUME Inv, NEW r \in Requests, Fail(r) PROVE Inv'
<1>0. TypeOK /\ ReqInv(r) /\ pc[r] \in {"transport", "wire"} /\ HoldsSlot(r)
  BY DEF Inv, Fail, ReqInv, HoldsSlot
<1>1. CASE IsGet(r) /\ attempts[r] < MaxAttempts
  <2>1. Quiet(r) /\ attempts' = attempts
    BY <1>0, QuietUnchanged DEF Fail, rateVars, TypeOK
  <2>2. GoOn(r, "backoff")
    BY <1>1 DEF Fail
  <2>. QED BY <1>0, <1>1, <2>1, <2>2, WentOnQuietly
<1>2. CASE ~(IsGet(r) /\ attempts[r] < MaxAttempts)
  <2>1. Settle(r, "error", TRUE) /\ "error" \in Outcomes
    BY <1>2 DEF Fail, Outcomes
  <2>. QED BY <1>0, <2>1, SettledUnchanged DEF Fail
<1>. QED BY <1>1, <1>2

LEMMA RetryStep ==
    ASSUME Inv, NEW r \in Requests, Retry(r) PROVE Inv'
<1>0. TypeOK /\ ReqInv(r) /\ pc[r] = "backoff" /\ IsGet(r) /\ Kind(r) = "read"
  BY DEF Inv, Retry, ReqInv, IsGet
<1>1. attempts[r] \in 1..MaxAttempts /\ attempts[r] < MaxAttempts /\ plan[r].url \in Urls
  BY <1>0, RequestTypes DEF ReqInv, TypeOK
<1>2. /\ attempts' \in [Requests -> 1..MaxAttempts] /\ hops' \in [Requests -> 0..MaxRedirects]
      /\ url' \in [Requests -> Urls]
      /\ \A x \in Requests \ {r} : url'[x] = url[x] /\ attempts'[x] = attempts[x]
  <2>0. MaxAttempts \in Nat /\ MaxRedirects \in Nat
    OBVIOUS
  <2>1. /\ attempts \in [Requests -> 1..MaxAttempts] /\ url \in [Requests -> Urls]
        /\ hops \in [Requests -> 0..MaxRedirects]
    BY <1>0 DEF TypeOK
  <2>3. 0 \in 0..MaxRedirects /\ attempts[r] + 1 \in 1..MaxAttempts
    BY <1>1, <2>0
  <2>2. /\ attempts' = [attempts EXCEPT ![r] = attempts[r] + 1]
        /\ hops' = [hops EXCEPT ![r] = 0] /\ url' = [url EXCEPT ![r] = plan[r].url]
    BY DEF Retry
  <2>. QED BY <1>1, <2>1, <2>2, <2>3
<1>3. Quiet(r)
  BY <1>0, <1>2 DEF Quiet, Retry, TypeOK, rateVars
<1>4. /\ Goto(r, "attempt") /\ UNCHANGED <<outcome, cacheVars, slotVars, queueVars>>
      /\ plan' = plan
  BY DEF Retry
<1>5. /\ pc'[r] = "attempt" /\ Kind(r)' = "read" /\ IsGet(r)' /\ Broker(r)' = Broker(r)
  BY <1>0, <1>4, PlanFixed DEF Goto, TypeOK
<1>6. ReqInv(r)'
  <2>1. url'[r] = plan[r].url /\ plan[r].url \in gets /\ gets' = gets
    BY <1>0 DEF Retry, ReqInv, InFlight, TypeOK
  <2>. QED BY <1>0, <1>4, <1>5, <2>1 DEF ReqInv, Noted, InFlight
<1>7. ~HoldsSlot(r)' /\ ~HoldsSlot(r) /\ "attempt" \in PCs \ {"done", "joined", "settled"}
  BY <1>0, <1>5 DEF HoldsSlot, PCs
<1>. QED BY <1>0, <1>3, <1>4, <1>6, <1>7, GoneQuietly

LEMMA RespondStep ==
    ASSUME Inv, NEW r \in Requests, Respond(r) PROVE Inv'
<1>1. "ok" \in Outcomes
  BY DEF Outcomes
<1>. QED BY <1>1, SettledUnchanged DEF Respond

LEMMA RedirectStep ==
    ASSUME Inv, NEW r \in Requests, Redirect(r) PROVE Inv'
<1>0. TypeOK /\ ReqInv(r) /\ pc[r] = "wire" /\ HoldsSlot(r)
  BY DEF Inv, Redirect, ReqInv, HoldsSlot
<1>1. CASE IsGet(r) /\ hops[r] < MaxRedirects
  <2>1. GoOn(r, "attempt") /\ hops' = [hops EXCEPT ![r] = @ + 1]
    BY <1>1 DEF Redirect
  <2>2. PICK u \in Urls : /\ url' = [url EXCEPT ![r] = u]
                          /\ gets' = IF Aborted(r) THEN gets ELSE NotedGets(r, u)
    BY <1>1 DEF Redirect
  <2>3. /\ hops' \in [Requests -> 0..MaxRedirects] /\ url' \in [Requests -> Urls]
        /\ \A x \in Requests \ {r} : url'[x] = url[x]
    <3>0. MaxRedirects \in Nat
      OBVIOUS
    <3>1. hops \in [Requests -> 0..MaxRedirects] /\ url \in [Requests -> Urls]
      BY <1>0 DEF TypeOK
    <3>2. hops[r] \in 0..MaxRedirects
      BY <3>1
    <3>3. hops[r] + 1 \in 0..MaxRedirects
      BY <1>1, <3>0, <3>2
    <3>. QED BY <2>1, <2>2, <3>1, <3>3
  <2>4. Quiet(r)
    <3>1. gets \subseteq gets' /\ gets' \subseteq Urls
      BY <1>0, <2>2, NotedTyped DEF TypeOK
    <3>. QED BY <1>0, <2>3, <3>1 DEF Quiet, Redirect, TypeOK, rateVars
  <2>5. url'[r] \in gets' \/ Aborted(r)'
    <3>1. url'[r] = u /\ (Aborted(r) <=> Aborted(r)')
      BY <1>0, <2>2, PlanFixed DEF TypeOK, Redirect, Aborted
    <3>. QED BY <1>0, <1>1, <2>2, <3>1, NotedTyped
  <2>. QED BY <1>0, <1>1, <2>1, <2>4, <2>5, WentOnQuietly
<1>2. CASE ~(IsGet(r) /\ hops[r] < MaxRedirects)
  <2>1. Settle(r, "redirect", TRUE) /\ "redirect" \in Outcomes /\ UNCHANGED <<hops, url, gets>>
    BY <1>2 DEF Redirect, Outcomes
  <2>. QED BY <1>0, <2>1, SettledUnchanged DEF Redirect
<1>. QED BY <1>1, <1>2

LEMMA ReplayBlockedStep ==
    ASSUME Inv, NEW r \in Requests, ReplayBlocked(r) PROVE Inv'
<1>1. "replay" \in Outcomes
  BY DEF Outcomes
<1>. QED BY <1>1, SettledUnchanged DEF ReplayBlocked

LEMMA StartedLateStep ==
    ASSUME Inv, NEW r \in Requests, StartedLate(r) PROVE Inv'
<1>1. "late" \in Outcomes
  BY DEF Outcomes, Denials
<1>. QED BY <1>1, SettledUnchanged DEF StartedLate

LEMMA ProxyTimeoutStep ==
    ASSUME Inv, NEW r \in Requests, ProxyTimeout(r) PROVE Inv'
<1>1. "late" \in Outcomes
  BY DEF Outcomes, Denials
<1>. QED BY <1>1, SettledUnchanged DEF ProxyTimeout

LEMMA RejectedStep ==
    ASSUME Inv, NEW r \in Requests, Rejected(r) PROVE Inv'
<1>1. Quiet(r)
  BY QuietUnchanged DEF Rejected, Inv, TypeOK, rateVars
<1>2. /\ ~HoldsSlot(r) /\ pc[r] \in Acting /\ Settle(r, "cancelled", FALSE)
      /\ "cancelled" \in Outcomes
  BY DEF Rejected, HoldsSlot, Acting, Outcomes
<1>. QED BY <1>1, <1>2, SettledQuietly

LEMMA WithoutTyped ==
    ASSUME NEW s \in Seq(Requests), NEW x
    PROVE  Without(s, x) \in Seq(Requests)
<1>1. CASE \E i \in DOMAIN s : s[i] = x
  <2>1. PICK i \in 1..Len(s) : i = CHOOSE j \in DOMAIN s : s[j] = x
    BY <1>1
  <2>2. Without(s, x) = SubSeq(s, 1, i - 1) \o SubSeq(s, i + 1, Len(s))
    BY <1>1, <2>1 DEF Without, RemoveAt
  <2>3. SubSeq(s, 1, i - 1) \in Seq(Requests)
    BY SMTT(30)
  <2>4. SubSeq(s, i + 1, Len(s)) \in Seq(Requests)
    BY SMTT(30)
  <2>. QED BY <2>2, <2>3, <2>4, SMTT(30)
<1>2. CASE ~\E i \in DOMAIN s : s[i] = x
  BY <1>2 DEF Without
<1>. QED BY <1>1, <1>2

LEMMA CancelledStep ==
    ASSUME Inv, NEW r \in Requests, Cancelled(r) PROVE Inv'
<1>1. turns' \in Seq(Requests)
  BY WithoutTyped DEF Cancelled, Inv, TypeOK
<1>2. Quiet(r)
  BY <1>1, QuietUnchanged DEF Cancelled, Inv, TypeOK
<1>3. PICK slot \in BOOLEAN : slot <=> HoldsSlot(r)
  OBVIOUS
<1>4. /\ pc[r] \in Acting /\ Settle(r, "cancelled", slot) /\ "cancelled" \in Outcomes
  <2>1. HoldsSlot(r) = slot
    BY <1>3 DEF HoldsSlot
  <2>. QED BY <2>1 DEF Cancelled, Acting, Outcomes
<1>. QED BY <1>2, <1>3, <1>4, SettledQuietly

-------------------------------------------------------------------------------
(* A free place is taken; or the request joins the queue.                   *)
LEMMA PlaceTaken ==
    ASSUME TypeOK, PlaceInv, plan' = plan, NEW r \in Requests, NEW m \in Brokers,
           m = Broker(r), UsesQueue(r), pc[r] = "idle", qActive[m] < QueueSlots[m],
           pc' = [pc EXCEPT ![r] = "attempt"],
           qActive' = [qActive EXCEPT ![m] = @ + 1], queue' = queue
    PROVE  PlaceInv'
<1>1. /\ pc'[r] = "attempt" /\ \A x \in Requests \ {r} : pc'[x] = pc[x]
      /\ \A b \in Brokers : qActive'[b] = IF b = m THEN qActive[b] + 1 ELSE qActive[b]
  BY DEF TypeOK
<1>2. /\ r \notin Placed(m) /\ InQueueSlot(r, m)'
      /\ \A b \in Brokers \ {m} : ~InQueueSlot(r, b)' /\ ~InQueueSlot(r, b)
  BY <1>1, PlanFixed DEF Placed, InQueueSlot
<1>3. \A x \in Requests \ {r} : \A b \in Brokers : InQueueSlot(x, b)' <=> InQueueSlot(x, b)
  BY <1>1, PlanFixed DEF InQueueSlot
<1>4. ASSUME NEW b \in Brokers
      PROVE  /\ Placed(b)' = IF b = m THEN Placed(b) \cup {r} ELSE Placed(b)
             /\ qActive'[b] = Cardinality(Placed(b)')
  <2>1. Placed(b)' = IF b = m THEN Placed(b) \cup {r} ELSE Placed(b)
    BY <1>2, <1>3 DEF Placed
  <2>2. IsFiniteSet(Placed(b)) /\ qActive[b] = Cardinality(Placed(b))
    BY FS_Subset DEF Placed, PlaceInv
  <2>3. CASE b = m
    <3>1. Cardinality(Placed(b) \cup {r}) = Cardinality(Placed(b)) + 1
      BY <1>2, <2>2, <2>3, FS_AddElement
    <3>. QED BY <1>1, <2>1, <2>2, <2>3, <3>1
  <2>4. CASE b # m
    BY <1>1, <2>1, <2>2, <2>4
  <2>. QED BY <2>1, <2>3, <2>4
<1>5. ASSUME NEW b \in Brokers, NEW x \in Listed(queue[b])
      PROVE  pc'[x] = "queued" /\ Broker(x)' = b
  <2>1. queue[b] \in Seq(Requests)
    BY DEF TypeOK
  <2>2. x \in Requests /\ pc[x] = "queued" /\ Broker(x) = b
    BY <2>1 DEF PlaceInv, Listed
  <2>. QED BY <1>1, <2>2, PlanFixed
<1>6. ASSUME NEW b \in Brokers
      PROVE  /\ qActive'[b] <= QueueSlots[b]
             /\ queue[b] # <<>> => qActive'[b] = QueueSlots[b]
  <2>1. /\ qActive[b] \in Nat /\ QueueSlots[b] \in Nat /\ qActive[b] <= QueueSlots[b]
        /\ queue[b] # <<>> => qActive[b] = QueueSlots[b]
    BY DEF TypeOK, PlaceInv
  <2>. QED BY <1>1, <2>1
<1>. QED BY <1>4, <1>5, <1>6 DEF PlaceInv

LEMMA PlaceAwaited ==
    ASSUME TypeOK, PlaceInv, plan' = plan, NEW r \in Requests, NEW m \in Brokers,
           m = Broker(r), pc[r] = "idle", ~(qActive[m] < QueueSlots[m]),
           pc' = [pc EXCEPT ![r] = "queued"],
           queue' = [queue EXCEPT ![m] = Append(@, r)], qActive' = qActive
    PROVE  PlaceInv' /\ queue' \in [Brokers -> Seq(Requests)]
<1>1. pc'[r] = "queued" /\ \A x \in Requests \ {r} : pc'[x] = pc[x]
  BY DEF TypeOK
<1>2. \A b \in Brokers : Placed(b)' = Placed(b)
  <2>1. \A b \in Brokers : ~InQueueSlot(r, b)' /\ ~InQueueSlot(r, b)
    BY <1>1 DEF InQueueSlot
  <2>2. \A x \in Requests \ {r} : \A b \in Brokers : InQueueSlot(x, b)' <=> InQueueSlot(x, b)
    BY <1>1, PlanFixed DEF InQueueSlot
  <2>. QED BY <2>1, <2>2 DEF Placed
<1>3. ASSUME NEW b \in Brokers, NEW x \in Listed(queue[b])
      PROVE  x \in Requests /\ x # r /\ pc'[x] = "queued" /\ Broker(x)' = b
  <2>1. queue[b] \in Seq(Requests)
    BY DEF TypeOK
  <2>2. x \in Requests /\ pc[x] = "queued" /\ Broker(x) = b
    BY <2>1 DEF PlaceInv, Listed
  <2>. QED BY <1>1, <2>2, PlanFixed
<1>4. queue[m] \in Seq(Requests) /\ Distinct(queue[m]) /\ r \notin Listed(queue[m])
  BY <1>3 DEF TypeOK, PlaceInv
<1>5. /\ Append(queue[m], r) \in Seq(Requests)
      /\ Distinct(Append(queue[m], r))
      /\ Listed(Append(queue[m], r)) = Listed(queue[m]) \cup {r}
  BY <1>4, Joining
<1>6. \A b \in Brokers : queue'[b] = IF b = m THEN Append(queue[m], r) ELSE queue[b]
  BY DEF TypeOK
<1>7. qActive[m] = QueueSlots[m]
  <2>1. qActive[m] \in Nat /\ QueueSlots[m] \in Nat /\ qActive[m] <= QueueSlots[m]
    BY DEF TypeOK, PlaceInv
  <2>. QED BY <2>1
<1>8. ASSUME NEW b \in Brokers
      PROVE  /\ Distinct(queue'[b])
             /\ \A x \in Listed(queue'[b]) : pc'[x] = "queued" /\ Broker(x)' = b
  <2>1. CASE b = m
    <3>1. queue'[b] = Append(queue[m], r)
      BY <1>6, <2>1
    <3>2. Broker(r)' = b
      BY <2>1, PlanFixed
    <3>. QED BY <1>1, <1>3, <1>5, <2>1, <3>1, <3>2
  <2>2. CASE b # m
    <3>1. queue'[b] = queue[b] /\ Distinct(queue[b])
      BY <1>6, <2>2 DEF PlaceInv
    <3>. QED BY <1>3, <3>1
  <2>. QED BY <2>1, <2>2
<1>9. ASSUME NEW b \in Brokers
      PROVE  /\ qActive'[b] = Cardinality(Placed(b)') /\ qActive'[b] <= QueueSlots[b]
             /\ queue'[b] # <<>> => qActive'[b] = QueueSlots[b]
  BY <1>2, <1>6, <1>7 DEF PlaceInv
<1>10. queue' \in [Brokers -> Seq(Requests)]
  BY <1>5 DEF TypeOK
<1>. QED BY <1>8, <1>9, <1>10 DEF PlaceInv

(* A free slot is taken; or the request joins the waiters of its lane.      *)
LEMMA SlotTaken ==
    ASSUME TypeOK, SlotInv, plan' = plan, NEW r \in Requests, Kind(r) # "burst",
           pc[r] = "attempt", pc' = [pc EXCEPT ![r] = "slot"],
           active < Concurrency, active' = active + 1, waiting' = waiting
    PROVE  SlotInv'
<1>1. pc'[r] = "slot" /\ \A x \in Requests \ {r} : pc'[x] = pc[x]
  BY DEF TypeOK
<1>2. r \notin Holders /\ Holders' = Holders \cup {r}
  <2>1. ~HoldsSlot(r) /\ HoldsSlot(r)'
    BY <1>1, PlanFixed DEF HoldsSlot
  <2>2. \A x \in Requests \ {r} : HoldsSlot(x)' <=> HoldsSlot(x)
    BY <1>1, PlanFixed DEF HoldsSlot
  <2>. QED BY <2>1, <2>2 DEF Holders
<1>3. active' = Cardinality(Holders')
  <2>1. IsFiniteSet(Holders) /\ active = Cardinality(Holders)
    BY FS_Subset DEF Holders, SlotInv
  <2>. QED BY <1>2, <2>1, FS_AddElement
<1>4. active' <= Concurrency /\ \A l \in Lanes : waiting[l] = <<>>
  <2>1. active \in Nat /\ Concurrency \in Nat
    BY DEF TypeOK
  <2>. QED BY <2>1 DEF SlotInv
<1>5. \A l \in Lanes : waiting'[l] = <<>> /\ Distinct(waiting'[l]) /\ Listed(waiting'[l]) = {}
  BY <1>4, EmptyList
<1>. QED BY <1>3, <1>4, <1>5 DEF SlotInv

LEMMA SlotAwaited ==
    ASSUME TypeOK, SlotInv, plan' = plan, NEW r \in Requests, NEW n \in Lanes, n = LaneOf(r),
           pc[r] = "attempt", pc' = [pc EXCEPT ![r] = "slotWait"],
           ~(active < Concurrency), active' = active,
           waiting' = [waiting EXCEPT ![n] = Append(@, r)]
    PROVE  SlotInv' /\ waiting' \in [Lanes -> Seq(Requests)]
<1>1. pc'[r] = "slotWait" /\ \A x \in Requests \ {r} : pc'[x] = pc[x]
  BY DEF TypeOK
<1>2. Holders' = Holders
  <2>1. ~HoldsSlot(r) /\ ~HoldsSlot(r)'
    BY <1>1, PlanFixed DEF HoldsSlot
  <2>2. \A x \in Requests \ {r} : HoldsSlot(x)' <=> HoldsSlot(x)
    BY <1>1, PlanFixed DEF HoldsSlot
  <2>. QED BY <2>1, <2>2 DEF Holders
<1>3. active = Concurrency
  <2>1. active \in Nat /\ Concurrency \in Nat /\ active <= Concurrency
    BY DEF TypeOK, SlotInv
  <2>. QED BY <2>1
<1>4. ASSUME NEW l \in Lanes, NEW x \in Listed(waiting[l])
      PROVE  x \in Requests /\ x # r /\ pc'[x] = "slotWait" /\ LaneOf(x)' = l
  <2>1. waiting[l] \in Seq(Requests)
    BY DEF TypeOK
  <2>2. x \in Requests /\ pc[x] = "slotWait" /\ LaneOf(x) = l
    BY <2>1 DEF SlotInv, Listed
  <2>. QED BY <1>1, <2>2, PlanFixed
<1>5. waiting[n] \in Seq(Requests) /\ Distinct(waiting[n]) /\ r \notin Listed(waiting[n])
  BY <1>4 DEF TypeOK, SlotInv
<1>6. /\ Append(waiting[n], r) \in Seq(Requests)
      /\ Distinct(Append(waiting[n], r))
      /\ Listed(Append(waiting[n], r)) = Listed(waiting[n]) \cup {r}
  BY <1>5, Joining
<1>7. \A l \in Lanes : waiting'[l] = IF l = n THEN Append(waiting[n], r) ELSE waiting[l]
  BY DEF TypeOK
<1>8. ASSUME NEW l \in Lanes
      PROVE  /\ Distinct(waiting'[l])
             /\ \A x \in Listed(waiting'[l]) : pc'[x] = "slotWait" /\ LaneOf(x)' = l
  <2>1. CASE l = n
    <3>1. waiting'[l] = Append(waiting[n], r)
      BY <1>7, <2>1
    <3>2. LaneOf(r)' = l
      BY <2>1, PlanFixed
    <3>. QED BY <1>1, <1>4, <1>6, <2>1, <3>1, <3>2
  <2>2. CASE l # n
    <3>1. waiting'[l] = waiting[l] /\ Distinct(waiting[l])
      BY <1>7, <2>2 DEF SlotInv
    <3>. QED BY <1>4, <3>1
  <2>. QED BY <2>1, <2>2
<1>9. active' = Cardinality(Holders') /\ active' <= Concurrency
  BY <1>2 DEF SlotInv
<1>10. waiting' \in [Lanes -> Seq(Requests)]
  BY <1>6 DEF TypeOK
<1>. QED BY <1>3, <1>8, <1>9, <1>10 DEF SlotInv

LEMMA SendStep ==
    ASSUME Inv, NEW r \in Requests, Send(r) PROVE Inv'
<1>0. /\ TypeOK /\ SlotInv /\ PlaceInv /\ ReqInv(r) /\ plan[r].url \in Urls
      /\ pc \in [Requests -> PCs]
  BY RequestTypes DEF Inv, TypeOK
<1>1. PICK m \in Brokers : m = Broker(r)
  BY <1>0, RequestTypes
<1>2. /\ pc[r] = "idle" /\ UsesQueue(r) /\ Kind(r) \notin {"browser", "burst"}
      /\ plan' = plan /\ UNCHANGED slotVars /\ outcome' = outcome
      /\ initiated' = initiated /\ url' = url
  BY DEF Send, Ready, UsesQueue, wireVars
<1>3. Quiet(r) /\ (IsGet(r) => plan[r].url \in gets')
  BY <1>0, QuietNoted DEF Send, TypeOK, rateVars
<1>4. PICK to \in {"attempt", "queued"} :
         /\ pc' = [pc EXCEPT ![r] = to]
         /\ to = "attempt" => /\ qActive[m] < QueueSlots[m] /\ queue' = queue
                              /\ qActive' = [qActive EXCEPT ![m] = @ + 1]
         /\ to = "queued" => /\ ~(qActive[m] < QueueSlots[m]) /\ qActive' = qActive
                             /\ queue' = [queue EXCEPT ![m] = Append(@, r)]
  BY <1>1 DEF Send, Goto
<1>5. pc'[r] = to /\ pc' \in [Requests -> PCs] /\ \A x \in Requests \ {r} : pc'[x] = pc[x]
  BY <1>0, <1>4 DEF PCs
<1>6. PlaceInv' /\ queue' \in [Brokers -> Seq(Requests)]
  <2>1. CASE to = "attempt"
    BY <1>0, <1>1, <1>2, <1>4, <2>1, PlaceTaken DEF TypeOK
  <2>2. CASE to = "queued"
    BY <1>0, <1>1, <1>2, <1>4, <2>2, PlaceAwaited
  <2>. QED BY <2>1, <2>2
<1>7. SlotInv'
  <2>1. ASSUME NEW x \in Requests
        PROVE  /\ HoldsSlot(x)' <=> HoldsSlot(x)
               /\ pc[x] = "slotWait" => pc'[x] = "slotWait"
    <3>1. CASE x = r
      BY <1>2, <1>5, <3>1 DEF HoldsSlot
    <3>2. CASE x # r
      BY <1>2, <1>5, <3>2, PlanFixed DEF HoldsSlot
    <3>. QED BY <3>1, <3>2
  <2>. QED BY <1>0, <1>2, <2>1, SlotKept
<1>8. active' \in Nat /\ qActive' \in [Brokers -> Nat]
  <2>1. qActive \in [Brokers -> Nat]
    BY <1>0 DEF TypeOK
  <2>2. qActive' \in [Brokers -> Int]
    BY <1>4, <2>1
  <2>. QED BY <1>6, <1>7, <2>2, CountersTyped
<1>9. CacheStep(r)
  <2>1. cache \in [Brokers -> [Urls -> Requests \cup {NoOwner}]]
    BY <1>0 DEF TypeOK
  <2>2. PICK v \in Urls : v = plan[r].url
    BY <1>0
  <2>3. cache' = cache \/ cache' = [cache EXCEPT ![m][v] = r]
    BY <1>1, <2>2 DEF Send
  <2>. QED BY <1>0, <2>1, <2>3 DEF Send, TypeOK, CacheStep
<1>10. Moved(r)
  <2>1. waiting' \in [Lanes -> Seq(Requests)] /\ outcome' \in [Requests -> Outcomes]
    BY <1>0, <1>2 DEF TypeOK, slotVars
  <2>2. \A x \in Requests \ {r} : OtherMoves(x)
    BY <1>2, <1>5 DEF OtherMoves
  <2>. QED BY <1>5, <1>6, <1>7, <1>8, <1>9, <2>1, <2>2 DEF Moved
<1>11. /\ Kind(r)' = Kind(r) /\ (IsGet(r)' <=> IsGet(r)) /\ (UsesQueue(r)' <=> UsesQueue(r))
       /\ Broker(r)' = m
  BY <1>1, <1>2, PlanFixed
<1>12. ReqInv(r)'
  BY <1>0, <1>2, <1>3, <1>5, <1>11 DEF ReqInv, Noted, InFlight
<1>. QED BY <1>2, <1>3, <1>10, <1>12, QuietStep

LEMMA AcquireStep ==
    ASSUME Inv, NEW r \in Requests, Acquire(r) PROVE Inv'
<1>0. /\ TypeOK /\ SlotInv /\ PlaceInv /\ ReqInv(r) /\ url[r] \in Urls
      /\ pc \in [Requests -> PCs]
  BY DEF Inv, TypeOK
<1>1. PICK n \in Lanes : n = LaneOf(r)
  BY <1>0, RequestTypes
<1>2. /\ pc[r] = "attempt" /\ plan' = plan /\ UNCHANGED queueVars /\ outcome' = outcome
      /\ CacheStep(r) /\ initiated' = initiated /\ url' = url /\ permit' = permit
      /\ authSent' = authSent /\ gets' = gets
  BY <1>0, CacheKept DEF Acquire, wireVars, authVars
<1>3. turns' = turns \/ turns' = Append(turns, r)
  BY DEF Acquire
<1>4. turns' \in Seq(Requests)
  <2>1. turns \in Seq(Requests)
    BY <1>0 DEF TypeOK
  <2>2. Append(turns, r) \in Seq(Requests)
    BY <2>1, AppendTyped
  <2>. QED BY <1>3, <2>1, <2>2
<1>5. Quiet(r) /\ (IsGet(r) => url[r] \in gets /\ plan[r].url \in gets)
  <2>1. Quiet(r)
    BY <1>0, <1>4, QuietUnchanged DEF Acquire, TypeOK
  <2>. QED BY <1>0, <2>1 DEF Acquire, ReqInv, InFlight
<1>6. /\ Kind(r)' = Kind(r) /\ (IsGet(r)' <=> IsGet(r)) /\ Broker(r)' = Broker(r)
  BY <1>2, PlanFixed
<1>7. CASE Kind(r) = "burst"
  <2>1. Goto(r, "turn") /\ UNCHANGED <<slotVars, cacheVars>>
    BY <1>7 DEF Acquire
  <2>2. pc'[r] = "turn" /\ ~UsesQueue(r) /\ ~IsGet(r)
    BY <1>0, <1>7, <2>1 DEF Goto, UsesQueue, IsGet
  <2>3. ReqInv(r)'
    BY <1>0, <1>2, <1>6, <1>7, <2>2 DEF ReqInv
  <2>4. ~HoldsSlot(r)' /\ ~HoldsSlot(r) /\ "turn" \in PCs \ {"done", "joined", "settled"}
    BY <1>6, <1>7 DEF HoldsSlot, PCs
  <2>. QED BY <1>2, <1>5, <1>7, <2>1, <2>2, <2>3, <2>4, GoneQuietly
<1>8. CASE Kind(r) # "burst"
  <2>1. PICK to \in {"slot", "slotWait"} :
           /\ pc' = [pc EXCEPT ![r] = to]
           /\ to = "slot" => active < Concurrency /\ active' = active + 1 /\ waiting' = waiting
           /\ to = "slotWait" => /\ ~(active < Concurrency) /\ active' = active
                                 /\ waiting' = [waiting EXCEPT ![n] = Append(@, r)]
    BY <1>1, <1>8 DEF Acquire, Goto
  <2>2. pc'[r] = to /\ pc' \in [Requests -> PCs] /\ \A x \in Requests \ {r} : pc'[x] = pc[x]
    BY <1>0, <2>1 DEF PCs
  <2>3. SlotInv' /\ waiting' \in [Lanes -> Seq(Requests)]
    <3>1. CASE to = "slot"
      BY <1>0, <1>2, <1>8, <2>1, <3>1, SlotTaken DEF TypeOK
    <3>2. CASE to = "slotWait"
      BY <1>0, <1>1, <1>2, <2>1, <3>2, SlotAwaited
    <3>. QED BY <3>1, <3>2
  <2>4. PlaceInv'
    <3>1. ASSUME NEW x \in Requests
          PROVE  /\ \A b \in Brokers : InQueueSlot(x, b)' <=> InQueueSlot(x, b)
                 /\ pc[x] = "queued" => pc'[x] = "queued"
      <4>1. CASE x = r
        BY <1>2, <2>2, <4>1, PlanFixed DEF InQueueSlot
      <4>2. CASE x # r
        BY <1>2, <2>2, <4>2, PlanFixed DEF InQueueSlot
      <4>. QED BY <4>1, <4>2
    <3>. QED BY <1>0, <1>2, <3>1, PlaceKept
  <2>5. qActive' \in [Brokers -> Nat] /\ queue' \in [Brokers -> Seq(Requests)]
    BY <1>0, <1>2 DEF TypeOK, queueVars
  <2>6. active' \in Nat
    BY <2>3, <2>4, <2>5, CountersTyped
  <2>7. Moved(r)
    BY <1>0, <1>2, <2>2, <2>3, <2>4, <2>5, <2>6 DEF Moved, OtherMoves, TypeOK
  <2>8. ReqInv(r)'
    BY <1>0, <1>2, <1>5, <1>6, <1>8, <2>2 DEF ReqInv, Noted, Routing, InFlight
  <2>9. pc[r] \in Routing
    BY <1>2 DEF Routing
  <2>. QED BY <1>2, <1>5, <2>7, <2>8, <2>9, QuietStep
<1>. QED BY <1>7, <1>8

-------------------------------------------------------------------------------
(* The steps of nobody: an abort, the end of the window, the clock.         *)
LEMMA NobodysStep ==
    ASSUME Inv, Frame({}), TypeOK', SlotInv', PlaceInv', RateInv', wireGets' = wireGets,
           UNCHANGED <<sent, reserved, authSent>>
    PROVE  Inv'
<1>1. authSent' \in Nat
  BY DEF TypeOK
<1>2. \A x \in Requests : ReqInv(x)'
  BY <1>1, OthersKeepReqInv
<1>3. BudgetInv'
  BY BudgetKept
<1>. QED BY <1>2, <1>3 DEF Inv, Frame

LEMMA AbortStep ==
    ASSUME Inv, NEW l \in Lanes, Abort(l) PROVE Inv'
<1>0. TypeOK /\ SlotInv /\ PlaceInv /\ pc \in [Requests -> PCs]
  BY DEF Inv, TypeOK
<1>1. /\ plan' = plan /\ outcome' = outcome /\ url' = url /\ attempts' = attempts
      /\ initiated' = initiated /\ permit' = permit /\ UNCHANGED cacheVars /\ gets' = gets
      /\ authSent' = authSent /\ active' = active /\ UNCHANGED queueVars
      /\ recent' = recent /\ wireRecent' = wireRecent
      /\ waiting' = [waiting EXCEPT ![l] = <<>>] /\ wireGets' = wireGets
  BY DEF Abort, wireVars, authVars
<1>2. ASSUME NEW x \in Requests
      PROVE  pc'[x] = IF pc[x] = "slotWait" /\ LaneOf(x) = l THEN "failing" ELSE pc[x]
  BY DEF Abort
<1>3. Frame({})
  <2>1. \A x \in Requests : OtherMoves(x)
    BY <1>1, <1>2 DEF OtherMoves
  <2>2. authSent \in Nat /\ awaited' = awaited
    BY <1>0, <1>1 DEF TypeOK, cacheVars
  <2>3. \A k \in Lanes : aborted[k] => aborted'[k]
    BY <1>0 DEF Abort, TypeOK
  <2>. QED BY <1>1, <2>1, <2>2, <2>3 DEF Frame
<1>4. \A k \in Lanes : waiting'[k] = IF k = l THEN <<>> ELSE waiting[k]
  BY <1>0, <1>1 DEF TypeOK
<1>5. Holders' = Holders
  <2>1. \A x \in Requests : HoldsSlot(x)' <=> HoldsSlot(x)
    BY <1>1, <1>2, PlanFixed DEF HoldsSlot
  <2>. QED BY <2>1 DEF Holders
<1>6. SlotInv'
  <2>1. ASSUME NEW k \in Lanes
        PROVE  /\ waiting'[k] # <<>> => active' = Concurrency
               /\ Distinct(waiting'[k])
               /\ \A x \in Listed(waiting'[k]) : pc'[x] = "slotWait" /\ LaneOf(x)' = k
    <3>1. CASE k = l
      <4>1. waiting'[k] = <<>>
        BY <1>4, <3>1
      <4>. QED BY <4>1, EmptyList
    <3>2. CASE k # l
      <4>1. waiting'[k] = waiting[k] /\ waiting[k] \in Seq(Requests)
        BY <1>0, <1>4, <3>2 DEF TypeOK
      <4>2. ASSUME NEW x \in Listed(waiting[k])
            PROVE  pc'[x] = "slotWait" /\ LaneOf(x)' = k
        <5>1. x \in Requests /\ pc[x] = "slotWait" /\ LaneOf(x) = k
          BY <1>0, <4>1 DEF SlotInv, Listed
        <5>. QED BY <1>1, <1>2, <3>2, <5>1, PlanFixed
      <4>. QED BY <1>0, <1>1, <4>1, <4>2 DEF SlotInv
    <3>. QED BY <3>1, <3>2
  <2>. QED BY <1>0, <1>1, <1>5, <2>1 DEF SlotInv
<1>7. PlaceInv'
  <2>1. ASSUME NEW x \in Requests
        PROVE  /\ \A b \in Brokers : InQueueSlot(x, b)' <=> InQueueSlot(x, b)
               /\ pc[x] = "queued" => pc'[x] = "queued"
    BY <1>1, <1>2, PlanFixed DEF InQueueSlot
  <2>. QED BY <1>0, <1>1, <2>1, PlaceKept
<1>8. TypeOK'
  <2>1. pc' \in [Requests -> PCs]
    BY <1>0 DEF Abort, PCs
  <2>2. waiting' \in [Lanes -> Seq(Requests)]
    BY <1>0, <1>1 DEF TypeOK
  <2>3. aborted' \in [Lanes -> BOOLEAN]
    BY <1>0 DEF Abort, TypeOK
  <2>. QED BY <1>0, <1>1, <2>1, <2>2, <2>3
       DEF TypeOK, Abort, wireVars, authVars, queueVars, rateVars, cacheVars
<1>9. RateInv'
  BY <1>1 DEF RateInv, Inv, Window
<1>10. UNCHANGED <<sent, reserved, authSent>>
  BY <1>1 DEF Abort
<1>. QED BY <1>1, <1>3, <1>6, <1>7, <1>8, <1>9, <1>10, NobodysStep

LEMMA StillPlaces ==
    ASSUME Inv, plan' = plan, pc' = pc, UNCHANGED <<slotVars, queueVars>>
    PROVE  SlotInv' /\ PlaceInv'
<1>1. \A x \in Requests : HoldsSlot(x)' <=> HoldsSlot(x)
  BY PlanFixed DEF HoldsSlot
<1>2. \A x \in Requests : \A b \in Brokers : InQueueSlot(x, b)' <=> InQueueSlot(x, b)
  BY PlanFixed DEF InQueueSlot
<1>3. SlotInv'
  BY <1>1, SlotKept DEF Inv
<1>4. PlaceInv'
  BY <1>2, PlaceKept DEF Inv
<1>. QED BY <1>3, <1>4

LEMMA CloseWindowStep ==
    ASSUME Inv, closed' \in BOOLEAN,
           UNCHANGED <<plan, reqVars, wireVars, cacheVars, gets, queueVars, slotVars, rateVars,
                       sent, reserved, authVars, aborted>>
    PROVE  Inv'
<1>1. SlotInv' /\ PlaceInv'
  BY StillPlaces DEF reqVars
<1>2. authSent \in Nat
  BY DEF Inv, TypeOK
<1>3. Frame({})
  BY <1>2 DEF Frame, OtherMoves, reqVars, wireVars, authVars, cacheVars
<1>4. TypeOK'
  BY DEF Inv, TypeOK, reqVars, wireVars, authVars, queueVars, slotVars, rateVars, cacheVars
<1>5. RateInv'
  BY DEF Inv, RateInv, wireVars, authVars, Window
<1>6. wireGets' = wireGets /\ UNCHANGED <<sent, reserved, authSent>>
  BY DEF wireVars, authVars
<1>. QED BY <1>1, <1>3, <1>4, <1>5, <1>6, NobodysStep

(* The rate window is finite.                                               *)
LEMMA WindowFinite ==
    ASSUME NEW k \in Nat, NEW s \in [1..k -> 0..RateWindow]
    PROVE  Window(s) \subseteq 1..k /\ IsFiniteSet(Window(s)) /\ Cardinality(Window(s)) \in Nat
<1>1. Window(s) \subseteq 1..k
  BY DEF Window
<1>2. 1 \in Int /\ k \in Int
  OBVIOUS
<1>3. IsFiniteSet(1..k)
  BY <1>2, FS_Interval
<1>. QED BY <1>1, <1>3, FS_Subset, FS_CardinalityType

LEMMA TickStep ==
    ASSUME Inv, Tick PROVE Inv'
<1>0. /\ authSent \in Nat /\ recent \in [1..authSent -> 0..RateWindow]
      /\ wireRecent \in [1..authSent -> 0..RateWindow] /\ RateWindow \in Nat /\ AuthRate \in Nat
      /\ cool \in Nat
  BY DEF Inv, TypeOK
<1>1. SlotInv' /\ PlaceInv'
  BY StillPlaces DEF Tick, reqVars
<1>2. Frame({})
  BY <1>0 DEF Frame, OtherMoves, Tick, reqVars, wireVars, authVars, cacheVars
<1>3. /\ recent' = [k \in 1..authSent |-> IF recent[k] > 0 THEN recent[k] - 1 ELSE 0]
      /\ wireRecent' = [k \in 1..authSent |-> IF wireRecent[k] > 0 THEN wireRecent[k] - 1 ELSE 0]
  BY <1>0 DEF Tick, Later
<1>4. /\ recent' \in [1..authSent -> 0..RateWindow]
      /\ wireRecent' \in [1..authSent -> 0..RateWindow] /\ cool' \in Nat /\ authSent' = authSent
  <2>1. ASSUME NEW x \in 0..RateWindow PROVE (IF x > 0 THEN x - 1 ELSE 0) \in 0..RateWindow
    BY <1>0
  <2>2. \A k \in 1..authSent : /\ (IF recent[k] > 0 THEN recent[k] - 1 ELSE 0) \in 0..RateWindow
                              /\ (IF wireRecent[k] > 0 THEN wireRecent[k] - 1 ELSE 0) \in 0..RateWindow
    BY <1>0, <2>1
  <2>3. /\ recent' \in [1..authSent -> 0..RateWindow]
        /\ wireRecent' \in [1..authSent -> 0..RateWindow]
    BY <1>3, <2>2
  <2>4. cool' \in Nat /\ authSent' = authSent
    BY <1>0 DEF Tick
  <2>. QED BY <2>3, <2>4
<1>5. TypeOK'
  BY <1>4 DEF Inv, TypeOK, Tick, reqVars, queueVars, slotVars, cacheVars
<1>6. RateInv'
  <2>1. Window(recent') \subseteq Window(recent)
    BY <1>0, <1>3 DEF Window
  <2>2. Cardinality(Window(recent')) <= Cardinality(Window(recent))
    BY <1>0, <2>1, WindowFinite, FS_Subset
  <2>3. Cardinality(Window(recent)) \in Nat /\ Cardinality(Window(recent')) \in Nat
    BY <1>0, <1>4, WindowFinite
  <2>4. Cardinality(Window(recent')) <= AuthRate
    BY <1>0, <2>2, <2>3 DEF Inv, RateInv
  <2>5. ASSUME NEW k \in 1..authSent PROVE wireRecent'[k] <= recent'[k]
    <3>1. recent[k] \in Int /\ wireRecent[k] \in Int /\ wireRecent[k] <= recent[k]
      BY <1>0 DEF Inv, RateInv
    <3>. QED BY <1>3, <3>1
  <2>. QED BY <1>4, <2>4, <2>5 DEF RateInv, Window
<1>7. wireGets' = wireGets /\ UNCHANGED <<sent, reserved, authSent>>
  BY DEF Tick
<1>. QED BY <1>1, <1>2, <1>5, <1>6, <1>7, NobodysStep

-------------------------------------------------------------------------------
(* The charge of the rate window, and the budgets.                          *)
LEMMA MoreTyped ==
    ASSUME authSent \in Nat, NEW s \in [1..authSent -> 0..RateWindow], NEW n \in Nat,
           NEW t \in 0..RateWindow
    PROVE  /\ More(s, n, t) \in [1..(authSent + n) -> 0..RateWindow]
           /\ \A k \in 1..authSent : More(s, n, t)[k] = s[k]
           /\ \A k \in (authSent + 1)..(authSent + n) : More(s, n, t)[k] = t
<1>1. \A k \in 1..(authSent + n) : k <= authSent => k \in 1..authSent
  OBVIOUS
<1>2. \A k \in 1..authSent : k \in 1..(authSent + n) /\ k <= authSent
  OBVIOUS
<1>3. \A k \in (authSent + 1)..(authSent + n) : k \in 1..(authSent + n) /\ ~(k <= authSent)
  OBVIOUS
<1>. QED BY <1>1, <1>2, <1>3 DEF More

LEMMA RateGrows ==
    ASSUME TypeOK, RateInv, NEW n \in Nat, RateOpen(n), NEW t \in 0..RateWindow,
           authSent' = authSent + n, recent' = More(recent, n, RateWindow),
           wireRecent' = More(wireRecent, n, t)
    PROVE  /\ RateInv' /\ authSent' \in Nat
           /\ recent' \in [1..authSent' -> 0..RateWindow]
           /\ wireRecent' \in [1..authSent' -> 0..RateWindow]
<1>0. /\ authSent \in Nat /\ recent \in [1..authSent -> 0..RateWindow]
      /\ wireRecent \in [1..authSent -> 0..RateWindow]
  BY DEF TypeOK
<1>1. RateWindow \in Nat \ {0} /\ AuthRate \in Nat /\ RateWindow \in 0..RateWindow
  OBVIOUS
<1>2. /\ recent' \in [1..(authSent + n) -> 0..RateWindow]
      /\ \A k \in 1..authSent : recent'[k] = recent[k]
      /\ \A k \in (authSent + 1)..(authSent + n) : recent'[k] = RateWindow
  <2>1. /\ More(recent, n, RateWindow) \in [1..(authSent + n) -> 0..RateWindow]
        /\ \A k \in 1..authSent : More(recent, n, RateWindow)[k] = recent[k]
        /\ \A k \in (authSent + 1)..(authSent + n) : More(recent, n, RateWindow)[k] = RateWindow
    BY <1>0, <1>1, MoreTyped
  <2>. QED BY <2>1
<1>3. /\ wireRecent' \in [1..(authSent + n) -> 0..RateWindow]
      /\ \A k \in 1..authSent : wireRecent'[k] = wireRecent[k]
      /\ \A k \in (authSent + 1)..(authSent + n) : wireRecent'[k] = t
  <2>1. /\ More(wireRecent, n, t) \in [1..(authSent + n) -> 0..RateWindow]
        /\ \A k \in 1..authSent : More(wireRecent, n, t)[k] = wireRecent[k]
        /\ \A k \in (authSent + 1)..(authSent + n) : More(wireRecent, n, t)[k] = t
    BY <1>0, <1>1, MoreTyped
  <2>. QED BY <2>1
<1>4. \A k \in 1..(authSent + n) : k \in 1..authSent \/ k \in (authSent + 1)..(authSent + n)
  BY <1>0
<1>5. \A k \in 1..authSent' : wireRecent'[k] <= recent'[k]
  <2>1. \A k \in 1..authSent : wireRecent[k] <= recent[k]
    BY DEF RateInv
  <2>2. t <= RateWindow
    BY <1>1
  <2>. QED BY <1>2, <1>3, <1>4, <2>1, <2>2
<1>6. Cardinality(Window(recent')) <= AuthRate
  <2>1. Window(recent') \subseteq Window(recent) \cup ((authSent + 1)..(authSent + n))
    BY <1>0, <1>2, <1>4 DEF Window
  <2>2. IsFiniteSet(Window(recent)) /\ Cardinality(Window(recent)) \in Nat
    BY <1>0, WindowFinite
  <2>3. /\ IsFiniteSet((authSent + 1)..(authSent + n))
        /\ Cardinality((authSent + 1)..(authSent + n)) = n
    <3>1. authSent + 1 \in Int /\ authSent + n \in Int
      BY <1>0
    <3>2. /\ IsFiniteSet((authSent + 1)..(authSent + n))
          /\ Cardinality((authSent + 1)..(authSent + n)) =
               IF authSent + 1 > authSent + n THEN 0 ELSE (authSent + n) - (authSent + 1) + 1
      BY <3>1, FS_Interval
    <3>. QED BY <1>0, <3>2
  <2>4. /\ IsFiniteSet(Window(recent) \cup ((authSent + 1)..(authSent + n)))
        /\ Cardinality(Window(recent) \cup ((authSent + 1)..(authSent + n)))
             <= Cardinality(Window(recent)) + n
    <3>. DEFINE old == Window(recent)
                new == (authSent + 1)..(authSent + n)
    <3>1. IsFiniteSet(old) /\ IsFiniteSet(new) /\ Cardinality(new) = n /\ Cardinality(old) \in Nat
      BY <2>2, <2>3
    <3>. HIDE DEF old, new
    <3>2. /\ IsFiniteSet(old \cup new)
          /\ Cardinality(old \cup new) = Cardinality(old) + Cardinality(new) - Cardinality(old \cap new)
      BY <3>1, FS_Union
    <3>3. Cardinality(old \cap new) \in Nat
      BY <3>1, FS_Intersection, FS_CardinalityType
    <3>4. Cardinality(old \cup new) <= Cardinality(old) + n
      BY <3>1, <3>2, <3>3
    <3>. QED BY <3>2, <3>4 DEF old, new
  <2>5. Cardinality(Window(recent')) <=
          Cardinality(Window(recent) \cup ((authSent + 1)..(authSent + n)))
    BY <2>1, <2>4, FS_Subset
  <2>6. /\ Cardinality(Window(recent')) \in Nat
        /\ Cardinality(Window(recent) \cup ((authSent + 1)..(authSent + n))) \in Nat
    BY <2>1, <2>4, FS_Subset, FS_CardinalityType
  <2>7. Cardinality(Window(recent)) + n <= AuthRate
    BY DEF RateOpen
  <2>. QED BY <1>1, <2>2, <2>4, <2>5, <2>6, <2>7
<1>7. RateInv'
  BY <1>5, <1>6 DEF RateInv, Window
<1>8. authSent' \in Nat
  BY <1>0
<1>. QED BY <1>2, <1>3, <1>7, <1>8

(* What is due on the wire grows by at most what r commits.                 *)
LEMMA DueGrows ==
    ASSUME Inv, TypeOK', NEW r \in Requests, Frame({r}), NEW n \in Nat,
           Due'[r] <= Due[r] + n, NEW l \in Lanes
    PROVE  /\ Total(Due, InLane(l)) \in Nat /\ Total(Due', InLane(l)') \in Nat
           /\ Total(Due', InLane(l)') <=
                Total(Due, InLane(l)) + (IF l = LaneOf(r) THEN n ELSE 0)
<1>. DEFINE g == [Due EXCEPT ![r] = @ + n]
<1>1. Due \in [Requests -> Nat] /\ Due' \in [Requests -> Nat]
  BY DueStep DEF Inv, Frame
<1>2. \A x \in Requests \ {r} : Due'[x] <= Due[x]
  BY OthersDue
<1>3. /\ InLane(l)' = InLane(l) /\ InLane(l) \subseteq Requests /\ IsFiniteSet(InLane(l))
      /\ (r \in InLane(l)) <=> (l = LaneOf(r))
  BY PlanFixed, FS_Subset DEF InLane, Frame
<1>4. /\ g \in [Requests -> Nat] /\ g[r] = Due[r] + n
      /\ \A x \in Requests \ {r} : g[x] = Due[x]
  BY <1>1
<1>5. \A x \in Requests : Due'[x] <= g[x]
  BY <1>2, <1>4
<1>. HIDE DEF g
<1>6. Total(Due', InLane(l)) <= Total(g, InLane(l))
  BY <1>1, <1>3, <1>4, <1>5, TotalMonotone
<1>7. /\ Total(Due, InLane(l)) \in Nat /\ Total(Due', InLane(l)) \in Nat
      /\ Total(g, InLane(l)) \in Nat
  BY <1>1, <1>3, <1>4, UnitsFinite
<1>8. CASE l = LaneOf(r)
  <2>1. Total(g, InLane(l)) = Total(Due, InLane(l)) + n
    BY <1>1, <1>3, <1>4, <1>8, TotalAdds, SMTT(30)
  <2>. QED BY <1>3, <1>6, <1>7, <1>8, <2>1
<1>9. CASE l # LaneOf(r)
  <2>1. Total(g, InLane(l)) = Total(Due, InLane(l))
    BY <1>3, <1>4, <1>9, TotalSame
  <2>. QED BY <1>3, <1>6, <1>7, <1>9, <2>1
<1>. QED BY <1>8, <1>9

(* The commitment of n requests: every budget has room and takes them.      *)
LEMMA BudgetCommitted ==
    ASSUME Inv, TypeOK', NEW r \in Requests, Frame({r}), Commit(r),
           BrokerHasBudget(r), HasCapacity(LaneOf(r), Count(r)),
           authSent' = authSent + Count(r), authSent + Count(r) <= AuthMax,
           Due'[r] <= Due[r] + Count(r), (r \in Refused') <=> (r \in Refused)
    PROVE  BudgetInv'
<1>0. plan' = plan /\ TypeOK /\ BudgetInv
  BY DEF Frame, Inv
<1>1. PICK n \in Nat : n = Count(r)
  BY <1>0, RequestTypes
<1>2. PICK m \in Brokers : m = Broker(r)
  BY <1>0, RequestTypes
<1>3. PICK c \in Lanes : c = LaneOf(r) /\ c = Lane[m]
  BY <1>0, <1>2, RequestTypes DEF LaneOf
<1>4. /\ \A l \in Lanes : reserved'[l] = IF l = c THEN reserved[l] + n ELSE reserved[l]
      /\ \A b \in Brokers : sent'[b] = IF b = m THEN sent[b] + n ELSE sent[b]
      /\ reserved \in [Lanes -> Nat] /\ sent \in [Brokers -> Nat]
      /\ reserved' \in [Lanes -> Nat] /\ sent' \in [Brokers -> Nat]
  <2>1. /\ reserved \in [Lanes -> Nat] /\ sent \in [Brokers -> Nat]
        /\ reserved' \in [Lanes -> Nat] /\ sent' \in [Brokers -> Nat]
    BY <1>0 DEF TypeOK
  <2>2. /\ reserved' = [reserved EXCEPT ![c] = @ + n]
        /\ sent' = [sent EXCEPT ![m] = @ + n]
    BY <1>1, <1>2, <1>3 DEF Commit, Reserve
  <2>. QED BY <2>1, <2>2
<1>5. Refused' = Refused
  BY OthersRefused DEF Refused
<1>6. ASSUME NEW l \in Lanes PROVE reserved'[l] <= Capacity(l)
  <2>1. CASE l = c
    BY <1>1, <1>3, <1>4, <2>1 DEF HasCapacity
  <2>2. CASE l # c
    BY <1>0, <1>4, <2>2 DEF BudgetInv
  <2>. QED BY <2>1, <2>2
<1>7. ASSUME NEW l \in Lanes PROVE reserved'[l] = Total(sent', BrokersOf(l))
  <2>1. /\ IsFiniteSet(BrokersOf(l)) /\ BrokersOf(l) \subseteq Brokers
        /\ (m \in BrokersOf(l)) <=> (l = c)
    BY <1>3, FS_Subset DEF BrokersOf
  <2>2. reserved[l] = Total(sent, BrokersOf(l))
    BY <1>0 DEF BudgetInv
  <2>3. CASE l = c
    <3>1. Total(sent', BrokersOf(l)) = Total(sent, BrokersOf(l)) + n
      BY <1>4, <2>1, <2>3, TotalAdds
    <3>. QED BY <1>4, <2>2, <2>3, <3>1
  <2>4. CASE l # c
    <3>1. Total(sent', BrokersOf(l)) = Total(sent, BrokersOf(l))
      BY <1>4, <2>1, <2>4, TotalSame
    <3>. QED BY <1>4, <2>2, <2>4, <3>1
  <2>. QED BY <2>3, <2>4
<1>8. ASSUME NEW l \in Lanes PROVE Total(Due', InLane(l)') <= reserved'[l]
  <2>1. /\ Total(Due, InLane(l)) \in Nat /\ Total(Due', InLane(l)') \in Nat
        /\ Total(Due', InLane(l)') <= Total(Due, InLane(l)) + (IF l = c THEN n ELSE 0)
    BY <1>1, <1>3, DueGrows
  <2>2. Total(Due, InLane(l)) <= reserved[l] /\ reserved[l] \in Nat
    BY <1>0, <1>4 DEF BudgetInv
  <2>. QED BY <1>4, <2>1, <2>2
<1>9. ASSUME NEW b \in Brokers PROVE sent'[b] <= BrokerMax[b]
  <2>1. CASE b = m
    BY <1>1, <1>2, <1>4, <2>1 DEF BrokerHasBudget
  <2>2. CASE b # m
    BY <1>0, <1>4, <2>2 DEF BudgetInv
  <2>. QED BY <2>1, <2>2
<1>10. authSent' = reserved'["SCAN"] + reserved'["CLEANUP"] + Cardinality(Refused')
  <2>1. /\ authSent = reserved["SCAN"] + reserved["CLEANUP"] + Cardinality(Refused)
        /\ Cardinality(Refused) \in Nat
    BY <1>0, FS_Subset, FS_CardinalityType DEF BudgetInv, Refused
  <2>2. c \in {"SCAN", "CLEANUP"} /\ "SCAN" \in Lanes /\ "CLEANUP" \in Lanes
    BY <1>3 DEF Lanes
  <2>3. reserved["SCAN"] \in Nat /\ reserved["CLEANUP"] \in Nat
    BY <1>4, <2>2
  <2>4. CASE c = "SCAN"
    <3>1. reserved'["SCAN"] = reserved["SCAN"] + n /\ reserved'["CLEANUP"] = reserved["CLEANUP"]
      BY <1>4, <2>2, <2>4
    <3>. QED BY <1>1, <1>5, <2>1, <2>3, <3>1
  <2>5. CASE c = "CLEANUP"
    <3>1. reserved'["SCAN"] = reserved["SCAN"] /\ reserved'["CLEANUP"] = reserved["CLEANUP"] + n
      BY <1>4, <2>2, <2>5
    <3>. QED BY <1>1, <1>5, <2>1, <2>3, <3>1
  <2>. QED BY <2>2, <2>4, <2>5
<1>11. \A l \in Lanes : Capacity(l)' = Capacity(l) /\ BrokersOf(l)' = BrokersOf(l)
  BY DEF Capacity, BrokersOf
<1>. QED BY <1>6, <1>7, <1>8, <1>9, <1>10, <1>11 DEF BudgetInv

LEMMA CommitTyped ==
    ASSUME TypeOK, NEW r \in Requests, Commit(r)
    PROVE  sent' \in [Brokers -> Nat] /\ reserved' \in [Lanes -> Nat]
<1>1. PICK m \in Brokers, c \in Lanes, n \in Nat : m = Broker(r) /\ c = LaneOf(r) /\ n = Count(r)
  BY RequestTypes
<1>2. sent \in [Brokers -> Nat] /\ reserved \in [Lanes -> Nat]
  BY DEF TypeOK
<1>3. sent[m] + n \in Nat /\ reserved[c] + n \in Nat
  BY <1>2
<1>4. sent' = [sent EXCEPT ![m] = sent[m] + n] /\ reserved' = [reserved EXCEPT ![c] = reserved[c] + n]
  BY <1>1 DEF Commit, Reserve
<1>. QED BY <1>2, <1>3, <1>4

(* The authorization is charged for a browser request that is then refused. *)
LEMMA BudgetRefused ==
    ASSUME Inv, TypeOK', NEW r \in Requests, Frame({r}), UNCHANGED <<sent, reserved>>,
           authSent' = authSent + 1, authSent + 1 <= AuthMax,
           Due'[r] <= Due[r], r \in Refused', r \notin Refused
    PROVE  BudgetInv'
<1>0. plan' = plan /\ TypeOK /\ BudgetInv
  BY DEF Frame, Inv
<1>1. Refused' = Refused \cup {r} /\ IsFiniteSet(Refused) /\ Cardinality(Refused) \in Nat
  <2>1. \A x \in Requests \ {r} : (x \in Refused') <=> (x \in Refused)
    BY OthersRefused
  <2>2. Refused' \subseteq Requests /\ Refused \subseteq Requests
    BY DEF Refused
  <2>. QED BY <2>1, <2>2, FS_Subset, FS_CardinalityType
<1>2. Cardinality(Refused') = Cardinality(Refused) + 1
  BY <1>1, FS_AddElement
<1>3. ASSUME NEW l \in Lanes PROVE Total(Due', InLane(l)') <= reserved'[l]
  <2>1. Due[r] \in Nat /\ Due'[r] <= Due[r] + 0 /\ 0 \in Nat
    BY <1>0, DueStep
  <2>2. /\ Total(Due, InLane(l)) \in Nat /\ Total(Due', InLane(l)') \in Nat
        /\ Total(Due', InLane(l)') <= Total(Due, InLane(l)) + (IF l = LaneOf(r) THEN 0 ELSE 0)
    BY <2>1, DueGrows
  <2>3. Total(Due, InLane(l)) <= reserved[l] /\ reserved[l] \in Nat
    BY <1>0 DEF BudgetInv, TypeOK
  <2>. QED BY <2>2, <2>3
<1>4. authSent' = reserved'["SCAN"] + reserved'["CLEANUP"] + Cardinality(Refused')
  <2>1. reserved["SCAN"] \in Nat /\ reserved["CLEANUP"] \in Nat
    BY <1>0 DEF TypeOK, Lanes
  <2>. QED BY <1>0, <1>1, <1>2, <2>1 DEF BudgetInv
<1>5. \A l \in Lanes : Capacity(l)' = Capacity(l) /\ BrokersOf(l)' = BrokersOf(l)
  BY DEF Capacity, BrokersOf
<1>. QED BY <1>0, <1>3, <1>4, <1>5 DEF BudgetInv

LEMMA DueOfBrowser ==
    ASSUME Inv, NEW r \in Requests, Kind(r) = "browser", plan' = plan
    PROVE  /\ Count(r) = 1
           /\ Due[r] = initiated[r] + IF Committed(r) THEN 1 ELSE 0
           /\ Due'[r] = initiated'[r] * 1 + IF Committed(r)' THEN 1 ELSE 0
<1>1. Count(r) = 1 /\ Count(r)' = 1 /\ initiated[r] \in Nat
  BY RequestTypes, PlanFixed DEF Inv, TypeOK
<1>. QED BY <1>1 DEF Due

LEMMA EvaluateBrowserStep ==
    ASSUME Inv, NEW r \in Requests, EvaluateBrowser(r) PROVE Inv'
<1>0. /\ TypeOK /\ ReqInv(r) /\ RateInv /\ pc[r] = "idle" /\ Kind(r) = "browser" /\ plan' = plan
      /\ Count(r) = 1 /\ authSent \in Nat /\ AuthMax \in Nat
  BY RequestTypes DEF Inv, EvaluateBrowser, TypeOK
<1>1. /\ ~IsGet(r) /\ ~IsGet(r)' /\ ~UsesQueue(r) /\ ~UsesQueue(r)' /\ ~HoldsSlot(r)
      /\ Kind(r)' = "browser"
  BY <1>0, PlanFixed DEF IsGet, UsesQueue, HoldsSlot
<1>2. CASE Denial(1) # "none"
  <2>1. Denial(1) \in Outcomes /\ Denial(1) # "budget"
    BY AnswersTyped
  <2>2. End(r, Denial(1)) /\ UNCHANGED <<authVars, wireRecent, sent, reserved>>
    BY <1>2 DEF EvaluateBrowser
  <2>3. UNCHANGED wireVars
    BY <2>2 DEF EvaluateBrowser, wireVars
  <2>4. Quiet(r)
    BY <1>0, <2>2, <2>3, QuietUnchanged DEF EvaluateBrowser, TypeOK, rateVars
  <2>. QED BY <1>0, <1>1, <2>1, <2>2, <2>4, EndedQuietly, CacheKept DEF EvaluateBrowser
<1>3. CASE Denial(1) = "none"
  <2>1. /\ authSent' = authSent + 1 /\ recent' = More(recent, 1, RateWindow)
        /\ wireRecent' = More(wireRecent, 1, 0) /\ permit' = [permit EXCEPT ![r] = authSent']
        /\ initiated' = initiated /\ wireGets' = wireGets /\ CacheStep(r) /\ gets' = gets
        /\ UNCHANGED <<url, attempts, hops, queueVars, slotVars, rateVars, closed, aborted>>
    BY <1>0, <1>3, CacheKept DEF EvaluateBrowser, Charge
  <2>2. authSent + 1 <= AuthMax /\ RateOpen(1)
    BY <1>0, <1>3, AnswersTyped DEF Denial
  <2>3. /\ RateInv' /\ authSent' \in Nat /\ recent' \in [1..authSent' -> 0..RateWindow]
        /\ wireRecent' \in [1..authSent' -> 0..RateWindow]
    BY <1>0, <2>1, <2>2, RateGrows
  <2>4. /\ permit' \in [Requests -> 0..authSent'] /\ permit'[r] = authSent'
        /\ permit'[r] \in 1..authSent'
        /\ \A x \in Requests \ {r} : permit'[x] = permit[x]
    <3>1. permit \in [Requests -> 0..authSent]
      BY <1>0 DEF TypeOK
    <3>2. permit \in [Requests -> 0..authSent'] /\ authSent' \in 1..authSent'
      BY <1>0, <2>1, <3>1
    <3>. QED BY <2>1, <3>1, <3>2
  <2>5. PICK to \in {"attempt", "done"}, o \in {"none", "budget"} :
          /\ pc' = [pc EXCEPT ![r] = to] /\ outcome' = [outcome EXCEPT ![r] = o]
          /\ to = "attempt" => /\ o = "none" /\ Commit(r) /\ BrokerHasBudget(r)
                               /\ HasCapacity(LaneOf(r), 1)
          /\ to = "done" => o = "budget" /\ UNCHANGED <<sent, reserved>>
    <3>1. outcome = [outcome EXCEPT ![r] = "none"]
      BY <1>0 DEF TypeOK, ReqInv
    <3>2. CASE BrokerHasBudget(r) /\ HasCapacity(LaneOf(r), 1)
      BY <1>3, <3>1, <3>2 DEF EvaluateBrowser, Goto
    <3>3. CASE ~(BrokerHasBudget(r) /\ HasCapacity(LaneOf(r), 1))
      BY <1>3, <3>3 DEF EvaluateBrowser, End
    <3>. QED BY <3>2, <3>3
  <2>6. to \in PCs /\ o \in Outcomes /\ pc'[r] = to /\ outcome'[r] = o /\ outcome[r] = "none"
    BY <1>0, <2>5 DEF PCs, Outcomes, TypeOK, ReqInv
  <2>7. Moved(r)
    <3>1. ~HoldsSlot(r)' /\ \A b \in Brokers : ~InQueueSlot(r, b) /\ ~InQueueSlot(r, b)'
      BY <1>1, <2>6 DEF HoldsSlot, InQueueSlot
    <3>2. pc[r] \notin {"slotWait", "queued"} /\ UNCHANGED <<slotVars, queueVars>>
      BY <1>0, <2>1
    <3>. QED BY <1>0, <1>1, <2>1, <2>5, <2>6, <3>1, <3>2, GotoMoves
  <2>8. sent' \in [Brokers -> Nat] /\ reserved' \in [Lanes -> Nat]
    BY <1>0, <2>5, CommitTyped DEF TypeOK
  <2>9. TypeOK'
    BY <1>0, <2>1, <2>3, <2>4, <2>7, <2>8 DEF TypeOK, Moved, rateVars, CacheStep
  <2>10. Frame({r})
    BY <1>0, <2>1, <2>4, <2>7 DEF Frame, Moved, CacheStep
  <2>11. ReqInv(r)'
    BY <1>0, <1>1, <2>1, <2>4, <2>5, <2>6 DEF ReqInv, Routing
  <2>12. /\ initiated[r] = 0 /\ Due[r] = 0
         /\ Due'[r] = IF to = "attempt" THEN 1 ELSE 0
    <3>1. initiated[r] = 0 /\ initiated'[r] = 0 /\ ~Committed(r)
      BY <1>0, <1>1, <2>1 DEF ReqInv, Committed, Routing
    <3>2. Committed(r)' <=> to = "attempt"
      BY <1>1, <2>6, <3>1 DEF Committed, Routing
    <3>3. /\ Due[r] = initiated[r] + IF Committed(r) THEN 1 ELSE 0
          /\ Due'[r] = initiated'[r] * 1 + IF Committed(r)' THEN 1 ELSE 0
      BY <1>0, DueOfBrowser
    <3>. QED BY <3>1, <3>2, <3>3
  <2>13. r \notin Refused /\ ((r \in Refused') <=> (o = "budget"))
    BY <1>1, <2>6 DEF Refused
  <2>14. BudgetInv'
    <3>1. CASE to = "attempt"
      <4>1. /\ Commit(r) /\ BrokerHasBudget(r) /\ HasCapacity(LaneOf(r), Count(r))
            /\ authSent' = authSent + Count(r) /\ authSent + Count(r) <= AuthMax
            /\ Due'[r] <= Due[r] + Count(r) /\ ((r \in Refused') <=> (r \in Refused))
        BY <1>0, <2>1, <2>2, <2>5, <2>12, <2>13, <3>1
      <4>. QED BY <2>9, <2>10, <4>1, BudgetCommitted
    <3>2. CASE to = "done"
      <4>1. /\ UNCHANGED <<sent, reserved>> /\ Due'[r] <= Due[r] /\ r \in Refused'
        BY <2>5, <2>12, <2>13, <3>2
      <4>. QED BY <2>1, <2>2, <2>9, <2>10, <2>13, <4>1, BudgetRefused
    <3>. QED BY <3>1, <3>2
  <2>15. wireGets' \subseteq gets'
    BY <2>1 DEF Inv
  <2>. QED BY <1>0, <2>3, <2>7, <2>9, <2>10, <2>11, <2>14, <2>15, StepKeepsInv
<1>. QED BY <1>2, <1>3

LEMMA Distributes ==
    ASSUME NEW m \in Nat, NEW n \in Nat
    PROVE  (m + 1) * n = m * n + n
OBVIOUS

LEMMA InitiateStep ==
    ASSUME Inv, NEW r \in Requests, Initiate(r) PROVE Inv'
<1>0. /\ TypeOK /\ ReqInv(r) /\ RateInv /\ pc[r] = "transport" /\ plan' = plan
      /\ Kind(r) \notin {"browser", "burst"} /\ authSent \in Nat /\ AuthMax \in Nat
      /\ HoldsSlot(r)
  BY DEF Inv, Initiate, TypeOK, ReqInv, HoldsSlot
<1>1. CASE CommitAnswer(r) # "none"
  <2>1. CommitAnswer(r) \in Outcomes
    BY AnswersTyped
  <2>2. Settle(r, CommitAnswer(r), TRUE) /\ UNCHANGED <<wireVars, authVars, sent, reserved>>
    BY <1>1 DEF Initiate
  <2>. QED BY <1>0, <2>1, <2>2, SettledUnchanged DEF Initiate
<1>2. CASE CommitAnswer(r) = "none"
  <2>0. PICK n \in Nat : n = Count(r)
    BY <1>0, RequestTypes
  <2>1. /\ authSent' = authSent + n /\ recent' = More(recent, n, RateWindow)
        /\ wireRecent' = More(wireRecent, n, RateWindow) /\ permit' = permit
        /\ Goto(r, "wire") /\ Commit(r) /\ outcome' = outcome /\ CacheStep(r) /\ gets' = gets
        /\ UNCHANGED <<url, attempts, hops, queueVars, slotVars, rateVars, closed, aborted>>
    BY <1>0, <1>2, <2>0, CacheKept DEF Initiate, Charge
  <2>2. /\ initiated' = [initiated EXCEPT ![r] = @ + 1]
        /\ wireGets' = IF IsGet(r) THEN wireGets \cup {url[r]} ELSE wireGets
    BY <1>2 DEF Initiate, OnWire
  <2>3. /\ BrokerHasBudget(r) /\ HasCapacity(LaneOf(r), Count(r))
        /\ authSent + n <= AuthMax /\ RateOpen(n)
    <3>1. BrokerHasBudget(r) /\ HasCapacity(LaneOf(r), Count(r)) /\ Denial(n) = "none"
      BY <1>2, <2>0 DEF CommitAnswer
    <3>2. authSent + n <= AuthMax /\ RateOpen(n)
      BY <1>0, <3>1 DEF Denial
    <3>. QED BY <3>1, <3>2
  <2>4. /\ RateInv' /\ authSent' \in Nat /\ recent' \in [1..authSent' -> 0..RateWindow]
        /\ wireRecent' \in [1..authSent' -> 0..RateWindow]
    <3>1. RateWindow \in 0..RateWindow
      OBVIOUS
    <3>. QED BY <1>0, <2>1, <2>3, <3>1, RateGrows
  <2>5. /\ initiated \in [Requests -> Nat] /\ initiated' \in [Requests -> Nat]
        /\ initiated'[r] = initiated[r] + 1 /\ pc'[r] = "wire"
        /\ \A x \in Requests \ {r} : initiated'[x] = initiated[x]
    <3>1. initiated \in [Requests -> Nat] /\ pc \in [Requests -> PCs]
      BY <1>0 DEF TypeOK
    <3>. QED BY <2>1, <2>2, <3>1 DEF Goto
  <2>6. /\ Kind(r)' = Kind(r) /\ (IsGet(r)' <=> IsGet(r)) /\ Broker(r)' = Broker(r)
        /\ Count(r)' = n /\ (UsesQueue(r)' <=> UsesQueue(r))
    BY <1>0, <2>0, PlanFixed
  <2>7. Moved(r)
    <3>1. /\ HoldsSlot(r)' /\ pc[r] \notin {"slotWait", "queued"} /\ "wire" \in PCs
      BY <1>0, <2>5, <2>6 DEF HoldsSlot, PCs
    <3>2. \A b \in Brokers : InQueueSlot(r, b)' <=> InQueueSlot(r, b)
      BY <1>0, <2>5, <2>6 DEF InQueueSlot
    <3>3. /\ pc' = [pc EXCEPT ![r] = "wire"] /\ outcome' = [outcome EXCEPT ![r] = outcome[r]]
          /\ outcome[r] \in Outcomes /\ UNCHANGED <<slotVars, queueVars>>
      BY <1>0, <2>1 DEF Goto, TypeOK
    <3>. QED BY <1>0, <2>1, <3>1, <3>2, <3>3, GotoMoves
  <2>8. permit' \in [Requests -> 0..authSent']
    <3>1. permit \in [Requests -> 0..authSent]
      BY <1>0 DEF TypeOK
    <3>. QED BY <1>0, <2>1, <3>1
  <2>9. /\ wireGets' \subseteq gets' /\ wireGets' \subseteq Urls
        /\ IsGet(r) => url[r] \in gets
    <3>1. IsGet(r) => url[r] \in gets
      BY <1>0 DEF ReqInv, Noted, InFlight
    <3>. QED BY <1>0, <2>1, <2>2, <3>1 DEF Inv, TypeOK
  <2>10. TypeOK'
    <3>1. sent' \in [Brokers -> Nat] /\ reserved' \in [Lanes -> Nat]
      BY <1>0, <2>1, CommitTyped
    <3>. QED BY <1>0, <2>1, <2>4, <2>5, <2>7, <2>8, <2>9, <3>1
             DEF TypeOK, Moved, rateVars, CacheStep
  <2>11. Frame({r})
    BY <1>0, <2>1, <2>5, <2>7 DEF Frame, Moved, CacheStep
  <2>12. ReqInv(r)'
    BY <1>0, <2>1, <2>5, <2>6, <2>9 DEF ReqInv, Noted, Routing, InFlight
  <2>13. Due'[r] = Due[r] + n
    <3>1. ~Committed(r) /\ ~Committed(r)'
      BY <1>0, <2>6 DEF Committed
    <3>2. Due[r] = initiated[r] * n + 0 /\ Due'[r] = (initiated[r] + 1) * n + 0
      BY <2>0, <2>5, <2>6, <3>1 DEF Due
    <3>3. initiated[r] \in Nat
      BY <2>5
    <3>4. initiated[r] * n \in Nat /\ (initiated[r] + 1) * n = initiated[r] * n + n
      BY <3>3, ProductNat, Distributes
    <3>. QED BY <3>2, <3>4
  <2>14. Due[r] \in Nat /\ Due'[r] \in Nat
    BY <1>0, <2>10, DueStep
  <2>15. r \notin Refused /\ r \notin Refused'
    BY <1>0, <2>6 DEF Refused
  <2>16. BudgetInv'
    <3>1. /\ authSent' = authSent + Count(r) /\ authSent + Count(r) <= AuthMax
          /\ Due'[r] <= Due[r] + Count(r)
      BY <2>0, <2>1, <2>3, <2>13, <2>14
    <3>. QED BY <2>1, <2>3, <2>10, <2>11, <2>15, <3>1, BudgetCommitted
  <2>. QED BY <1>0, <2>4, <2>7, <2>9, <2>10, <2>11, <2>12, <2>16, StepKeepsInv
<1>. QED BY <1>1, <1>2

(* The slot of the rate window moves to the moment of the write.            *)
LEMMA RateMoves ==
    ASSUME TypeOK, RateInv, NEW k \in 1..authSent,
           Cardinality(Window(recent) \ {k}) < AuthRate, authSent' = authSent,
           recent' = [recent EXCEPT ![k] = RateWindow],
           wireRecent' = [wireRecent EXCEPT ![k] = RateWindow]
    PROVE  /\ RateInv' /\ recent' \in [1..authSent' -> 0..RateWindow]
           /\ wireRecent' \in [1..authSent' -> 0..RateWindow]
<1>0. /\ authSent \in Nat /\ recent \in [1..authSent -> 0..RateWindow]
      /\ wireRecent \in [1..authSent -> 0..RateWindow]
      /\ RateWindow \in Nat /\ AuthRate \in Nat /\ RateWindow \in 0..RateWindow
  BY SMTT(30) DEF TypeOK
<1>1. /\ recent' \in [1..authSent -> 0..RateWindow]
      /\ wireRecent' \in [1..authSent -> 0..RateWindow]
      /\ \A i \in 1..authSent : wireRecent'[i] <= recent'[i]
  BY <1>0, SMTT(30) DEF RateInv
<1>2. Window(recent') \subseteq (Window(recent) \ {k}) \cup {k}
  BY <1>0 DEF Window
<1>3. IsFiniteSet(Window(recent)) /\ IsFiniteSet(Window(recent) \ {k})
  BY <1>0, WindowFinite, FS_Subset
<1>4. /\ IsFiniteSet((Window(recent) \ {k}) \cup {k})
      /\ Cardinality((Window(recent) \ {k}) \cup {k}) = Cardinality(Window(recent) \ {k}) + 1
  BY <1>3, FS_AddElement
<1>5. /\ Cardinality(Window(recent')) <= Cardinality((Window(recent) \ {k}) \cup {k})
      /\ Cardinality(Window(recent')) \in Nat /\ Cardinality(Window(recent) \ {k}) \in Nat
  BY <1>2, <1>3, <1>4, FS_Subset, FS_CardinalityType
<1>6. Cardinality(Window(recent')) <= AuthRate
  BY <1>0, <1>4, <1>5
<1>. QED BY <1>1, <1>6 DEF RateInv, Window

LEMMA ProxyBeginStep ==
    ASSUME Inv, NEW r \in Requests, ProxyBegin(r) PROVE Inv'
<1>0. /\ TypeOK /\ ReqInv(r) /\ RateInv /\ pc[r] = "routed" /\ plan' = plan
      /\ Kind(r) = "browser" /\ authSent \in Nat /\ authSent' = authSent
      /\ initiated[r] = 0 /\ permit[r] \in 1..authSent
  BY DEF Inv, ProxyBegin, TypeOK, ReqInv, Routing, IsGet
<1>1. HoldsSlot(r) /\ pc[r] \in Acting /\ ~IsGet(r) /\ ~IsGet(r)' /\ Kind(r)' = "browser"
  BY <1>0, PlanFixed DEF HoldsSlot, Acting, IsGet
<1>2. ProxyAnswer(r) \in Outcomes /\ ProxyAnswer(r) # "budget"
  BY AnswersTyped
<1>3. Moved(r) /\ pc'[r] = "done" /\ outcome'[r] = ProxyAnswer(r)
  <2>1. Settle(r, ProxyAnswer(r), TRUE)
    BY DEF ProxyBegin
  <2>. QED BY <1>0, <1>1, <1>2, <2>1, SettleMoves
<1>4. /\ permit' \in [Requests -> 0..authSent']
      /\ \A x \in Requests \ {r} : permit'[x] = permit[x]
  <2>1. permit \in [Requests -> 0..authSent] /\ 0 \in 0..authSent
    BY <1>0 DEF TypeOK
  <2>. QED BY <1>0, <2>1 DEF ProxyBegin
<1>5. /\ RateInv' /\ recent' \in [1..authSent' -> 0..RateWindow]
      /\ wireRecent' \in [1..authSent' -> 0..RateWindow]
      /\ initiated' \in [Requests -> Nat] /\ initiated'[r] \in {0, 1}
      /\ \A x \in Requests \ {r} : initiated'[x] = initiated[x]
      /\ wireGets' = wireGets
  <2>0. initiated \in [Requests -> Nat]
    BY <1>0 DEF TypeOK
  <2>1. CASE ProxyAnswer(r) = "ok"
    <3>1. /\ recent' = [recent EXCEPT ![permit[r]] = RateWindow]
          /\ wireRecent' = [wireRecent EXCEPT ![permit[r]] = RateWindow]
          /\ initiated' = [initiated EXCEPT ![r] = @ + 1] /\ wireGets' = wireGets
      BY <1>1, <2>1 DEF ProxyBegin, OnWire
    <3>2. /\ IsFiniteSet(Window(recent) \ {permit[r]})
          /\ Cardinality(Window(recent) \ {permit[r]}) \in Nat /\ AuthRate \in Nat
      BY <1>0, WindowFinite, FS_Subset, FS_CardinalityType DEF TypeOK
    <3>3. ~(Cardinality(Window(recent) \ {permit[r]}) >= AuthRate)
      BY <2>1, AnswersTyped DEF ProxyAnswer, WithoutPermit
    <3>4. Cardinality(Window(recent) \ {permit[r]}) < AuthRate
      BY <3>2, <3>3
    <3>5. /\ RateInv' /\ recent' \in [1..authSent' -> 0..RateWindow]
          /\ wireRecent' \in [1..authSent' -> 0..RateWindow]
      BY <1>0, <3>1, <3>4, RateMoves
    <3>. QED BY <1>0, <2>0, <3>1, <3>5
  <2>2. CASE ProxyAnswer(r) # "ok"
    <3>1. UNCHANGED <<initiated, wireGets, wireRecent, recent>>
      BY <2>2 DEF ProxyBegin, wireVars
    <3>. QED BY <1>0, <2>0, <3>1 DEF TypeOK, RateInv, Window
  <2>. QED BY <2>1, <2>2
<1>6. TypeOK'
  <2>1. UNCHANGED <<plan, url, attempts, hops, gets, rateVars, sent, reserved, authSent,
                    closed, aborted>>
    BY DEF ProxyBegin
  <2>2. /\ plan' \in Plans /\ url' \in [Requests -> Urls] /\ gets' \subseteq Urls
        /\ attempts' \in [Requests -> 1..MaxAttempts] /\ hops' \in [Requests -> 0..MaxRedirects]
        /\ turns' \in Seq(Requests) /\ cool' \in Nat
        /\ sent' \in [Brokers -> Nat] /\ reserved' \in [Lanes -> Nat] /\ authSent' \in Nat
        /\ closed' \in BOOLEAN /\ aborted' \in [Lanes -> BOOLEAN] /\ wireGets' \subseteq Urls
    BY <1>0, <1>5, <2>1 DEF TypeOK, rateVars
  <2>3. /\ pc' \in [Requests -> PCs] /\ outcome' \in [Requests -> Outcomes]
        /\ cache' \in [Brokers -> [Urls -> Requests \cup {NoOwner}]]
        /\ awaited' \in [Requests -> Requests \cup {NoOwner}]
        /\ qActive' \in [Brokers -> Nat] /\ queue' \in [Brokers -> Seq(Requests)]
        /\ active' \in Nat /\ waiting' \in [Lanes -> Seq(Requests)]
    BY <1>3 DEF Moved, CacheStep
  <2>. QED BY <1>4, <1>5, <2>2, <2>3 DEF TypeOK
<1>7. Frame({r})
  BY <1>0, <1>3, <1>4, <1>5 DEF Frame, Moved, ProxyBegin, CacheStep
<1>8. ReqInv(r)'
  BY <1>1, <1>3, <1>5 DEF ReqInv, Noted, Routing, InFlight
<1>9. Due'[r] <= Due[r]
  <2>1. Committed(r) /\ ~Committed(r)'
    BY <1>0, <1>3 DEF Committed, Routing
  <2>2. /\ Due[r] = initiated[r] + IF Committed(r) THEN 1 ELSE 0
        /\ Due'[r] = initiated'[r] * 1 + IF Committed(r)' THEN 1 ELSE 0
    BY <1>0, DueOfBrowser
  <2>. QED BY <1>0, <1>5, <2>1, <2>2
<1>10. BudgetInv'
  <2>1. outcome[r] = "none" /\ UNCHANGED <<sent, reserved, authSent>> /\ {r} \in SUBSET Requests
    BY <1>0 DEF ReqInv, ProxyBegin
  <2>. QED BY <1>2, <1>3, <1>6, <1>7, <1>9, <2>1, BudgetKept
<1>11. wireGets' \subseteq gets'
  BY <1>5 DEF Inv, ProxyBegin
<1>. QED BY <1>0, <1>3, <1>5, <1>6, <1>7, <1>8, <1>10, <1>11, StepKeepsInv

-------------------------------------------------------------------------------
LEMMA InitInv == Init => Inv
<1>. SUFFICES ASSUME Init PROVE Inv
  OBVIOUS
<1>1. /\ plan \in Plans /\ pc = [r \in Requests |-> "idle"]
      /\ outcome = [r \in Requests |-> "none"] /\ initiated = [r \in Requests |-> 0]
      /\ authSent = 0 /\ recent = <<>> /\ wireRecent = <<>> /\ wireGets = {}
      /\ active = 0 /\ waiting = [l \in Lanes |-> <<>>]
      /\ qActive = [b \in Brokers |-> 0] /\ queue = [b \in Brokers |-> <<>>]
      /\ sent = [b \in Brokers |-> 0] /\ reserved = [l \in Lanes |-> 0]
      /\ url = [r \in Requests |-> plan[r].url]
  BY DEF Init
<1>2. TypeOK
  <2>1. url \in [Requests -> Urls]
    BY DEF Init
  <2>2. recent \in [1..authSent -> 0..RateWindow] /\ wireRecent \in [1..authSent -> 0..RateWindow]
    BY <1>1
  <2>3. /\ attempts \in [Requests -> 1..MaxAttempts] /\ hops \in [Requests -> 0..MaxRedirects]
        /\ permit \in [Requests -> 0..authSent]
    <3>1. 1 \in 1..MaxAttempts /\ 0 \in 0..MaxRedirects /\ 0 \in 0..0
      OBVIOUS
    <3>. QED BY <3>1 DEF Init
  <2>4. /\ pc \in [Requests -> PCs] /\ outcome \in [Requests -> Outcomes]
        /\ initiated \in [Requests -> Nat]
    BY <1>1 DEF PCs, Outcomes
  <2>5. /\ cache \in [Brokers -> [Urls -> Requests \cup {NoOwner}]] /\ gets \subseteq Urls
        /\ awaited \in [Requests -> Requests \cup {NoOwner}]
    BY DEF Init
  <2>6. /\ qActive \in [Brokers -> Nat] /\ queue \in [Brokers -> Seq(Requests)]
        /\ active \in Nat /\ waiting \in [Lanes -> Seq(Requests)]
    BY <1>1
  <2>7. /\ turns \in Seq(Requests) /\ cool \in Nat
        /\ closed \in BOOLEAN /\ aborted \in [Lanes -> BOOLEAN]
    <3>1. turns = <<>> /\ cool = 0 /\ closed = FALSE /\ aborted = [l \in Lanes |-> FALSE]
      BY DEF Init
    <3>2. closed \in BOOLEAN /\ aborted \in [Lanes -> BOOLEAN]
      BY <3>1, Zenon
    <3>3. turns \in Seq(Requests) /\ cool \in Nat
      BY <3>1
    <3>. QED BY <3>2, <3>3
  <2>8. /\ sent \in [Brokers -> Nat] /\ reserved \in [Lanes -> Nat]
        /\ authSent \in Nat /\ wireGets \subseteq Urls
    BY <1>1
  <2>. QED BY <1>1, <2>1, <2>2, <2>3, <2>4, <2>5, <2>6, <2>7, <2>8 DEF TypeOK
<1>3. SlotInv
  <2>1. Holders = {}
    BY <1>1 DEF Holders, HoldsSlot
  <2>2. active = Cardinality(Holders) /\ active <= Concurrency
    BY <1>1, <2>1, FS_EmptySet
  <2>3. \A l \in Lanes : waiting[l] = <<>> /\ Distinct(waiting[l]) /\ Listed(waiting[l]) = {}
    BY <1>1, EmptyList
  <2>. QED BY <2>2, <2>3 DEF SlotInv
<1>4. PlaceInv
  <2>1. ASSUME NEW b \in Brokers
        PROVE  /\ qActive[b] = Cardinality(Placed(b)) /\ qActive[b] <= QueueSlots[b]
               /\ queue[b] = <<>> /\ Distinct(queue[b]) /\ Listed(queue[b]) = {}
    <3>1. Placed(b) = {}
      BY <1>1 DEF Placed, InQueueSlot
    <3>2. qActive[b] = 0 /\ QueueSlots[b] \in Nat /\ queue[b] = <<>>
      BY <1>1
    <3>. QED BY <3>1, <3>2, FS_EmptySet, EmptyList
  <2>. QED BY <2>1 DEF PlaceInv
<1>5. RateInv
  <2>1. Window(recent) = {} /\ 1..authSent = {}
    BY <1>1 DEF Window
  <2>2. Cardinality(Window(recent)) = 0 /\ AuthRate \in Nat
    BY <2>1, FS_EmptySet
  <2>. QED BY <2>1, <2>2 DEF RateInv
<1>6. \A r \in Requests : ReqInv(r)
  BY <1>1 DEF ReqInv, Noted, Routing, InFlight
<1>7. BudgetInv
  <2>1. Refused = {}
    BY <1>1 DEF Refused
  <2>2. Cardinality(Refused) = 0 /\ AuthMax \in Nat
    BY <2>1, FS_EmptySet
  <2>3. ASSUME NEW l \in Lanes
        PROVE  Total(sent, BrokersOf(l)) = 0 /\ Total(Due, InLane(l)) = 0
    <3>1. \A b \in BrokersOf(l) : sent[b] = 0
      BY <1>1 DEF BrokersOf
    <3>2. Units(sent, BrokersOf(l)) = {}
      BY <3>1 DEF Units
    <3>3. \A r \in InLane(l) : Due[r] = 0
      <4>1. ASSUME NEW r \in Requests PROVE Due[r] = 0
        <5>1. initiated[r] = 0 /\ ~Committed(r) /\ Count(r) \in Nat
          BY <1>1, <1>2, RequestTypes DEF Committed, Routing
        <5>2. Due[r] = 0 * Count(r) + 0
          BY <5>1 DEF Due
        <5>. QED BY <5>1, <5>2
      <4>. QED BY <4>1 DEF InLane
    <3>4. Units(Due, InLane(l)) = {}
      BY <3>3 DEF Units
    <3>. QED BY <3>2, <3>4, FS_EmptySet DEF Total
  <2>4. \A l \in Lanes : Capacity(l) \in Nat /\ reserved[l] = 0
    BY <1>1 DEF Capacity
  <2>5. \A b \in Brokers : sent[b] = 0 /\ BrokerMax[b] \in Nat
    BY <1>1
  <2>6. "SCAN" \in Lanes /\ "CLEANUP" \in Lanes
    BY DEF Lanes
  <2>7. ASSUME NEW l \in Lanes
        PROVE  /\ reserved[l] <= Capacity(l) /\ reserved[l] = Total(sent, BrokersOf(l))
               /\ Total(Due, InLane(l)) <= reserved[l]
    BY <2>3, <2>4
  <2>8. /\ \A b \in Brokers : sent[b] <= BrokerMax[b]
        /\ authSent <= AuthMax
        /\ authSent = reserved["SCAN"] + reserved["CLEANUP"] + Cardinality(Refused)
    BY <1>1, <2>2, <2>4, <2>5, <2>6
  <2>. QED BY <2>7, <2>8 DEF BudgetInv
<1>. QED BY <1>1, <1>2, <1>3, <1>4, <1>5, <1>6, <1>7 DEF Inv

LEMMA StepInv == Inv /\ [Next]_vars => Inv'
<1>. SUFFICES ASSUME Inv, [Next]_vars PROVE Inv'
  OBVIOUS
<1>1. ASSUME NEW r \in Requests, Step(r) PROVE Inv'
  BY <1>1, SendRefusedStep, SendSharedStep, SendStep, ResumeStep, ReuseStep, BurstStep, EvaluateBrowserStep,
     AttemptRefusedStep, AcquireStep, TakeTurnStep, RateGrantStep, GuardStep,
     RouteContinueStep, InitiateStep, StartedLateStep, FailStep, RetryStep, RespondStep,
     RedirectStep, ReplayBlockedStep, ProxyBeginStep, ProxyTimeoutStep, RejectedStep,
     CancelledStep DEF Step
<1>2. ASSUME NEW l \in Lanes, Abort(l) PROVE Inv'
  BY <1>2, AbortStep
<1>3. CASE CloseWindow
  <2>1. closed' \in BOOLEAN
    BY <1>3 DEF CloseWindow
  <2>. QED BY <1>3, <2>1, CloseWindowStep DEF CloseWindow
<1>4. CASE Tick
  BY <1>4, TickStep
<1>5. CASE UNCHANGED vars
  <2>1. /\ UNCHANGED <<plan, reqVars, wireVars, cacheVars, gets, queueVars, slotVars, rateVars,
                       sent, reserved, authVars, aborted>>
        /\ closed' = closed
    BY <1>5 DEF vars
  <2>2. closed' \in BOOLEAN
    BY <2>1 DEF Inv, TypeOK
  <2>. QED BY <2>1, <2>2, CloseWindowStep
<1>. QED BY <1>1, <1>2, <1>3, <1>4, <1>5 DEF Next, Terminated

(* The slots, the places, the rate window, the budgets and each request     *)
(* stay in order, whatever requests, aborts and ticks do.                   *)
THEOREM Invariance == Spec => []Inv
BY InitInv, StepInv, PTL DEF Spec

(* Every variable has its type.                                             *)
THEOREM TypeCorrect == Spec => []TypeOK
<1>1. Inv => TypeOK
  BY DEF Inv
<1>. QED BY <1>1, Invariance, PTL

(* ScanRequestLedger and RequestQueue lose no slot and no place and give    *)
(* none twice, for any number of requests and any concurrency.              *)
THEOREM SlotsAreConserved == Spec => []SlotsConserved
<1>1. Inv => SlotsConserved
  BY DEF Inv, SlotInv, PlaceInv, SlotsConserved, Holders, Placed
<1>. QED BY <1>1, Invariance, PTL

(* The brokers', the ledger's and the authorization's budgets agree, none   *)
(* is exceeded, and the writes on the wire are covered by them.             *)
THEOREM BudgetsAlwaysAgree == Spec => []BudgetsAgree
<1>1. ASSUME Inv PROVE BudgetsAgree
  <2>1. ASSUME NEW l \in Lanes
        PROVE  Total([r \in Requests |-> initiated[r] * Count(r)], InLane(l)) <= reserved[l]
    <3>. DEFINE f == [r \in Requests |-> initiated[r] * Count(r)]
    <3>1. ASSUME NEW r \in Requests PROVE f[r] \in Nat /\ Due[r] \in Nat /\ f[r] <= Due[r]
      <4>1. initiated[r] \in Nat /\ Count(r) \in Nat
        BY <1>1, RequestTypes DEF Inv, TypeOK
      <4>2. initiated[r] * Count(r) \in Nat
        BY <4>1, ProductNat
      <4>3. Due[r] = initiated[r] * Count(r) + IF Committed(r) THEN 1 ELSE 0
        BY DEF Due
      <4>. QED BY <4>2, <4>3
    <3>2. InLane(l) \subseteq Requests /\ IsFiniteSet(InLane(l))
      BY FS_Subset DEF InLane
    <3>. HIDE DEF f
    <3>3. Total(f, InLane(l)) <= Total(Due, InLane(l))
      BY <3>1, <3>2, TotalMonotone
    <3>4. Total(f, InLane(l)) \in Nat /\ Total(Due, InLane(l)) \in Nat
      BY <3>1, <3>2, UnitsFinite
    <3>5. Total(Due, InLane(l)) <= reserved[l] /\ reserved[l] \in Nat
      BY <1>1 DEF Inv, BudgetInv, TypeOK
    <3>6. Total(f, InLane(l)) <= reserved[l]
      BY <3>3, <3>4, <3>5
    <3>. QED BY <3>6 DEF f
  <2>. QED BY <1>1, <2>1 DEF Inv, BudgetInv, BudgetsAgree, InLane, BrokersOf, Refused
<1>. QED BY <1>1, Invariance, PTL

(* A state-changing request, a raw pair, a discovery GET and a browser's    *)
(* request are written at most once.                                        *)
THEOREM NothingIsWrittenTwice == Spec => []WrittenOnce
<1>1. Inv => WrittenOnce
  BY DEF Inv, ReqInv, WrittenOnce, Single, IsGet
<1>. QED BY <1>1, Invariance, PTL

-------------------------------------------------------------------------------
(* The cache.  The owner of a promise that is pending, or refused and not   *)
(* yet noticed by it, is what the cache holds under its key, unless a       *)
(* caller that shared a promise under that key was refused.                 *)
Owning(r) ==
    /\ IsGet(r)
    /\ InFlight(r) \/ (pc[r] = "settled" /\ awaited[r] = NoOwner /\ outcome[r] \in Refusals)
FlightInv ==
    \A r \in Requests : Owning(r) => cache[Broker(r)][plan[r].url] = r \/ SharedRefusal(r)

(* No step but Send makes an owner, and an end is for good.                 *)
Flies(x) ==
    \/ pc'[x] = pc[x] /\ outcome'[x] = outcome[x] /\ awaited'[x] = awaited[x]
    \/ InFlight(x)
    \/ pc[x] = "idle" /\ (pc'[x] \in {"joined", "done"} \/ ~IsGet(x))
    \/ pc[x] = "joined" /\ pc'[x] \in {"settled", "done"} /\ awaited'[x] = awaited[x]
    \/ pc[x] = "settled" /\ pc'[x] = "done"

LEMMA NoNewOwner ==
    ASSUME Inv, plan' = plan, NEW x \in Requests, Flies(x), Owning(x)'
    PROVE  Owning(x)
<1>1. ReqInv(x) /\ (IsGet(x)' <=> IsGet(x)) /\ NoOwner \notin Requests
  BY PlanFixed DEF Inv
<1>. QED BY <1>1 DEF Owning, Flies, InFlight, ReqInv

LEMMA RefusalStays ==
    ASSUME Inv, plan' = plan, \A x \in Requests : Flies(x), NEW r \in Requests, SharedRefusal(r)
    PROVE  SharedRefusal(r)'
<1>1. PICK j \in Requests : /\ plan[j] = plan[r] /\ awaited[j] # NoOwner
                            /\ pc[j] = "done" /\ outcome[j] \in Refusals
  BY DEF SharedRefusal
<1>2. pc'[j] = "done" /\ outcome'[j] = outcome[j] /\ awaited'[j] = awaited[j]
  BY <1>1 DEF Flies, InFlight
<1>. QED BY <1>1, <1>2 DEF SharedRefusal

LEMMA FlightKept ==
    ASSUME Inv, FlightInv, plan' = plan, cache' = cache, \A x \in Requests : Flies(x)
    PROVE  FlightInv'
<1>1. ASSUME NEW x \in Requests, Owning(x)'
      PROVE  cache'[Broker(x)'][plan'[x].url] = x \/ SharedRefusal(x)'
  <2>1. Owning(x) /\ Broker(x)' = Broker(x)
    BY <1>1, NoNewOwner, PlanFixed
  <2>. QED BY <2>1, RefusalStays DEF FlightInv
<1>. QED BY <1>1 DEF FlightInv

(* Two reads of one broker and one address are the same request.            *)
LEMMA SameKey ==
    ASSUME TypeOK, NEW r \in Requests, NEW x \in Requests, IsGet(r), IsGet(x),
           Broker(r) = Broker(x), plan[r].url = plan[x].url
    PROVE  plan[r] = plan[x]
<1>1. /\ plan[r] \in [kind : Kinds, broker : Brokers, url : Urls]
      /\ plan[x] \in [kind : Kinds, broker : Brokers, url : Urls]
  BY DEF TypeOK
<1>. QED BY <1>1 DEF IsGet, Kind, Broker

(* A refused caller removes what the cache holds under its key: its own     *)
(* promise, or it is not the first one refused there.                       *)
LEMMA FlightDropped ==
    ASSUME Inv, FlightInv, plan' = plan, \A x \in Requests : Flies(x),
           NEW r \in Requests, NEW o, cache' = Dropped(r, o), IsGet(r), pc'[r] = "done",
           o \in Refusals => cache[Broker(r)][plan[r].url] = r \/ SharedRefusal(r)'
    PROVE  FlightInv'
<1>1. CASE o \notin Refusals
  <2>1. cache' = cache
    BY <1>1 DEF Dropped
  <2>. QED BY <2>1, FlightKept
<1>2. CASE o \in Refusals
  <2>1. PICK m \in Brokers, v \in Urls : m = Broker(r) /\ v = plan[r].url
    BY RequestTypes DEF Inv
  <2>2. cache' = [cache EXCEPT ![m][v] = NoOwner]
    BY <1>2, <2>1 DEF Dropped
  <2>3. ASSUME NEW x \in Requests, Owning(x)'
        PROVE  cache'[Broker(x)'][plan'[x].url] = x \/ SharedRefusal(x)'
    <3>1. /\ Owning(x) /\ Broker(x)' = Broker(x) /\ IsGet(x) /\ x # r
          /\ Broker(x) \in Brokers /\ plan[x].url \in Urls
      BY <2>3, NoNewOwner, PlanFixed, RequestTypes DEF Inv, Owning, InFlight
    <3>2. CASE SharedRefusal(x)
      BY <3>2, RefusalStays
    <3>3. CASE cache[Broker(x)][plan[x].url] = x /\ Broker(x) = m /\ plan[x].url = v
      <4>1. SharedRefusal(r)' /\ plan[x] = plan[r]
        BY <1>2, <2>1, <3>1, <3>3, SameKey DEF Inv
      <4>. QED BY <4>1 DEF SharedRefusal
    <3>4. CASE cache[Broker(x)][plan[x].url] = x /\ ~(Broker(x) = m /\ plan[x].url = v)
      <4>1. cache \in [Brokers -> [Urls -> Requests \cup {NoOwner}]]
        BY DEF Inv, TypeOK
      <4>2. cache'[Broker(x)][plan[x].url] = cache[Broker(x)][plan[x].url]
        BY <2>2, <3>1, <3>4, <4>1
      <4>. QED BY <3>1, <3>4, <4>2
    <3>. QED BY <3>1, <3>2, <3>3, <3>4 DEF FlightInv
  <2>. QED BY <2>3 DEF FlightInv
<1>. QED BY <1>1, <1>2

LEMMA FlightResumed ==
    ASSUME Inv, FlightInv, NEW r \in Requests, Resume(r) PROVE FlightInv'
<1>1. /\ IsGet(r) /\ pc'[r] = "done" /\ plan' = plan /\ cache' = Dropped(r, outcome[r])
      /\ pc[r] = "settled" /\ awaited[r] = NoOwner
  BY DEF Resume, Inv, ReqInv
<1>2. \A x \in Requests : Flies(x)
  BY <1>1 DEF Resume, Flies
<1>3. outcome[r] \in Refusals => cache[Broker(r)][plan[r].url] = r \/ SharedRefusal(r)
  BY <1>1 DEF FlightInv, Owning
<1>4. outcome[r] \in Refusals => cache[Broker(r)][plan[r].url] = r \/ SharedRefusal(r)'
  BY <1>1, <1>2, <1>3, RefusalStays
<1>. QED BY <1>1, <1>2, <1>4, FlightDropped

LEMMA FlightReused ==
    ASSUME Inv, FlightInv, NEW r \in Requests, Reuse(r) PROVE FlightInv'
<1>1. /\ IsGet(r) /\ plan' = plan /\ cache' = Dropped(r, outcome[awaited[r]])
      /\ pc[r] = "joined" /\ awaited' = awaited /\ awaited[r] \in Requests
      /\ pc' = [pc EXCEPT ![r] = "done"]
      /\ outcome' = [outcome EXCEPT ![r] = outcome[awaited[r]]]
      /\ pc \in [Requests -> PCs] /\ outcome \in [Requests -> Outcomes]
  BY DEF Reuse, End, Inv, ReqInv, TypeOK
<1>2. pc'[r] = "done" /\ outcome'[r] = outcome[awaited[r]] /\ awaited'[r] # NoOwner
  BY <1>1
<1>3. \A x \in Requests : Flies(x)
  BY <1>1, <1>2 DEF Flies
<1>4. outcome[awaited[r]] \in Refusals => SharedRefusal(r)'
  BY <1>1, <1>2 DEF SharedRefusal
<1>. QED BY <1>1, <1>2, <1>3, <1>4, FlightDropped

LEMMA FlightSent ==
    ASSUME Inv, FlightInv, NEW r \in Requests, Send(r) PROVE FlightInv'
<1>1. /\ pc[r] = "idle" /\ plan' = plan /\ outcome' = outcome /\ awaited' = awaited
      /\ \A x \in Requests \ {r} : pc'[x] = pc[x]
  BY DEF Send, Ready, Goto, Inv, TypeOK
<1>2. CASE ~IsGet(r)
  <2>1. cache' = cache /\ \A x \in Requests : Flies(x)
    BY <1>1, <1>2 DEF Send, Flies
  <2>. QED BY <1>1, <2>1, FlightKept
<1>3. CASE IsGet(r)
  <2>1. PICK m \in Brokers, v \in Urls : m = Broker(r) /\ v = plan[r].url
    BY RequestTypes DEF Inv
  <2>2. cache' = [cache EXCEPT ![m][v] = r] /\ cache[m][v] = NoOwner
    BY <1>3, <2>1 DEF Send, CacheOwner
  <2>3. cache \in [Brokers -> [Urls -> Requests \cup {NoOwner}]] /\ NoOwner \notin Requests
    BY DEF Inv, TypeOK
  <2>4. ASSUME NEW x \in Requests, Owning(x)'
        PROVE  cache'[Broker(x)'][plan'[x].url] = x \/ SharedRefusal(x)'
    <3>1. Broker(x)' = Broker(x) /\ Broker(x) \in Brokers /\ plan[x].url \in Urls
      BY <1>1, PlanFixed, RequestTypes DEF Inv
    <3>2. CASE x = r
      BY <1>1, <2>1, <2>2, <2>3, <3>1, <3>2
    <3>3. CASE x # r
      <4>1. Flies(x) /\ Owning(x)
        BY <1>1, <2>4, <3>3, NoNewOwner DEF Flies
      <4>2. CASE SharedRefusal(x)
        <5>1. PICK j \in Requests : /\ plan[j] = plan[x] /\ awaited[j] # NoOwner
                                    /\ pc[j] = "done" /\ outcome[j] \in Refusals
          BY <4>2 DEF SharedRefusal
        <5>2. j # r /\ pc'[j] = "done"
          BY <1>1, <5>1
        <5>. QED BY <1>1, <5>1, <5>2 DEF SharedRefusal
      <4>3. CASE cache[Broker(x)][plan[x].url] = x
        <5>1. cache'[Broker(x)][plan[x].url] = x
          BY <2>2, <2>3, <3>1, <4>3
        <5>. QED BY <1>1, <3>1, <5>1
      <4>. QED BY <4>1, <4>2, <4>3 DEF FlightInv
    <3>. QED BY <3>2, <3>3
  <2>. QED BY <2>4 DEF FlightInv
<1>. QED BY <1>2, <1>3

(* The other steps leave the cache alone.                                   *)
Quietly(x) == cache' = cache /\ plan' = plan /\ Flies(x)

LEMMA SettleFlies ==
    ASSUME Inv, NEW r \in Requests, NEW o, NEW slot \in BOOLEAN, Settle(r, o, slot),
           InFlight(r), plan' = plan, NEW x \in Requests
    PROVE  Quietly(x)
<1>1. /\ cache' = cache /\ awaited' = awaited
  BY DEF Settle, cacheVars
<1>2. /\ x \in Granted(slot) => pc[x] = "slotWait"
      /\ x \in Dequeued(r) => pc[x] = "queued"
      /\ x \in Joined(r) => pc[x] = "joined"
  BY DequeuedWaits DEF Granted, Joined, Inv
<1>3. CASE x = r \/ x \in Granted(slot) \/ x \in Dequeued(r)
  BY <1>1, <1>2, <1>3 DEF Quietly, Flies, InFlight
<1>4. CASE ~(x = r \/ x \in Granted(slot) \/ x \in Dequeued(r))
  <2>1. /\ x \in Joined(r) => pc'[x] = "settled"
        /\ x \notin Joined(r) => pc'[x] = pc[x] /\ outcome'[x] = outcome[x]
    BY <1>4 DEF Settle
  <2>. QED BY <1>1, <1>2, <2>1 DEF Quietly, Flies
<1>. QED BY <1>3, <1>4

LEMMA GoOnFlies ==
    ASSUME Inv, NEW r \in Requests, NEW to, GoOn(r, to), InFlight(r), plan' = plan,
           NEW x \in Requests
    PROVE  Quietly(x)
BY DEF GoOn, Granted, Quietly, Flies, InFlight, cacheVars

(* A step that moves r alone, from its flight or from before it.            *)
LEMMA GoneFlies ==
    ASSUME Inv, NEW r \in Requests, plan' = plan, cache' = cache,
           \A x \in Requests \ {r} :
              pc'[x] = pc[x] /\ outcome'[x] = outcome[x] /\ awaited'[x] = awaited[x],
           \/ InFlight(r)
           \/ pc[r] = "idle" /\ (pc'[r] \in {"joined", "done"} \/ ~IsGet(r)),
           NEW x \in Requests
    PROVE  Quietly(x)
BY DEF Quietly, Flies

LEMMA FlightStep ==
    ASSUME Inv, FlightInv, [Next]_vars PROVE FlightInv'
<1>0. pc \in [Requests -> PCs] /\ outcome \in [Requests -> Outcomes] /\ awaited \in [Requests -> Requests \cup {NoOwner}]
  BY DEF Inv, TypeOK
<1>1. ASSUME NEW r \in Requests, Step(r) PROVE FlightInv'
  <2>1. CASE Send(r)
    BY <2>1, FlightSent
  <2>2. CASE Resume(r)
    BY <2>2, FlightResumed
  <2>3. CASE Reuse(r)
    BY <2>3, FlightReused
  <2>4. SUFFICES ASSUME ~Send(r), ~Resume(r), ~Reuse(r), NEW x \in Requests PROVE Quietly(x)
    BY <2>1, <2>2, <2>3, FlightKept DEF Quietly
  <2>5. CASE SendRefused(r) \/ SendShared(r)
    BY <1>0, <2>5, GoneFlies DEF SendRefused, SendShared, Ready, End, Goto, cacheVars
  <2>6. CASE Burst(r) \/ EvaluateBrowser(r)
    BY <1>0, <2>6, GoneFlies DEF Burst, EvaluateBrowser, IsGet, End, Goto, cacheVars
  <2>7. CASE Acquire(r) \/ RateGrant(r) \/ Retry(r)
    BY <1>0, <2>7, GoneFlies DEF Acquire, RateGrant, Retry, InFlight, End, Goto, cacheVars
  <2>8. CASE AttemptRefused(r) \/ StartedLate(r) \/ Respond(r) \/ ReplayBlocked(r)
    BY <2>8, SettleFlies DEF AttemptRefused, StartedLate, Respond, ReplayBlocked, InFlight
  <2>9. CASE ProxyBegin(r) \/ ProxyTimeout(r) \/ Rejected(r)
    BY <2>9, SettleFlies DEF ProxyBegin, ProxyTimeout, Rejected, InFlight
  <2>10. CASE Cancelled(r)
    <3>1. Settle(r, "cancelled", HoldsSlot(r)) /\ HoldsSlot(r) \in BOOLEAN /\ InFlight(r) /\ plan' = plan
      BY <2>10 DEF Cancelled, InFlight, HoldsSlot
    <3>. QED BY <3>1, SettleFlies
  <2>11. CASE Fail(r) \/ Redirect(r)
    BY <2>11, SettleFlies, GoOnFlies DEF Fail, Redirect, InFlight
  <2>12. CASE TakeTurn(r)
    BY <1>0, <2>12, SettleFlies, GoneFlies DEF TakeTurn, InFlight, Goto, cacheVars
  <2>13. CASE Guard(r) \/ RouteContinue(r)
    BY <1>0, <2>13, SettleFlies, GoneFlies DEF Guard, RouteContinue, InFlight, Goto, cacheVars
  <2>14. CASE Initiate(r)
    BY <1>0, <2>14, SettleFlies, GoneFlies DEF Initiate, InFlight, Goto, cacheVars
  <2>. QED BY <1>1, <2>4, <2>5, <2>6, <2>7, <2>8, <2>9, <2>10, <2>11, <2>12, <2>13, <2>14 DEF Step
<1>2. ASSUME NEW l \in Lanes, Abort(l) PROVE FlightInv'
  <2>1. \A x \in Requests : Flies(x)
    BY <1>2 DEF Abort, Flies, InFlight, cacheVars
  <2>. QED BY <1>2, <2>1, FlightKept DEF Abort, cacheVars
<1>3. CASE CloseWindow \/ Tick \/ UNCHANGED vars
  <2>1. UNCHANGED <<plan, pc, outcome, cache, awaited>>
    BY <1>3 DEF CloseWindow, Tick, vars, reqVars, cacheVars
  <2>2. \A x \in Requests : Flies(x)
    BY <2>1 DEF Flies
  <2>. QED BY <2>1, <2>2, FlightKept
<1>. QED BY <1>1, <1>2, <1>3 DEF Next, Terminated

(* A read in flight is what the cache holds under its key, for every later  *)
(* caller to share, until one that shared a promise under that key was      *)
(* refused with it.                                                         *)
THEOREM FlightsAreShared == Spec => []SharedUntilRefused
<1>1. Init => FlightInv
  BY DEF Init, FlightInv, Owning, InFlight
<1>2. Inv /\ FlightInv /\ [Next]_vars => FlightInv'
  BY FlightStep
<1>3. FlightInv => SharedUntilRefused
  BY DEF FlightInv, SharedUntilRefused, Owning
<1>. QED BY <1>1, <1>2, <1>3, Invariance, PTL DEF Spec

(* So two of them are in flight together only after such a refusal.         *)
COROLLARY SecondFlightNeedsRefusal ==
    Spec => [](\A r, s \in Requests : Together(r, s) => SharedRefusal(r))
<1>1. ASSUME SharedUntilRefused
      PROVE  \A r, s \in Requests : Together(r, s) => SharedRefusal(r)
  <2>. SUFFICES ASSUME NEW r \in Requests, NEW s \in Requests, Together(r, s)
                PROVE  SharedRefusal(r)
    OBVIOUS
  <2>1. /\ InFlight(r) /\ InFlight(s) /\ IsGet(r) /\ IsGet(s)
        /\ Broker(r) = Broker(s) /\ plan[r] = plan[s] /\ r # s
    BY DEF Together, IsGet, Kind, Broker
  <2>2. SharedRefusal(s) => SharedRefusal(r)
    BY <2>1 DEF SharedRefusal
  <2>. QED BY <1>1, <2>1, <2>2 DEF SharedUntilRefused
<1>. QED BY <1>1, FlightsAreShared, PTL

(* No window of the target's clock sees more writes than the                *)
(* authorization's rate, browser writes included.                           *)
THEOREM WireRateIsKept == Spec => []WireRateKept
<1>1. ASSUME Inv PROVE WireRateKept
  <2>1. /\ authSent \in Nat /\ recent \in [1..authSent -> 0..RateWindow]
        /\ wireRecent \in [1..authSent -> 0..RateWindow] /\ AuthRate \in Nat
        /\ RateWindow \in Nat
    BY <1>1 DEF Inv, TypeOK
  <2>2. Window(wireRecent) \subseteq Window(recent)
    <3>1. ASSUME NEW k \in 1..authSent
          PROVE  wireRecent[k] \in Int /\ recent[k] \in Int /\ wireRecent[k] <= recent[k]
      BY <1>1, <2>1 DEF Inv, RateInv
    <3>. QED BY <2>1, <3>1, SMTT(30) DEF Window
  <2>3. /\ Cardinality(Window(wireRecent)) <= Cardinality(Window(recent))
        /\ Cardinality(Window(recent)) \in Nat /\ Cardinality(Window(wireRecent)) \in Nat
    BY <2>1, <2>2, WindowFinite, FS_Subset
  <2>4. Cardinality(Window(recent)) <= AuthRate
    BY <1>1 DEF Inv, RateInv
  <2>. QED BY <2>1, <2>3, <2>4 DEF WireRateKept
<1>. QED BY <1>1, Invariance, PTL

(* Only the commitment and the browser's proxy write.                       *)
LEMMA WhoWrites ==
    ASSUME Inv, [Next]_vars, NEW r \in Requests, initiated'[r] > initiated[r]
    PROVE  (Initiate(r) /\ CommitAnswer(r) = "none") \/ Kind(r) = "browser"
<1>1. initiated \in [Requests -> Nat] /\ initiated' # initiated
  <2>1. initiated \in [Requests -> Nat]
    BY DEF Inv, TypeOK
  <2>2. ~(initiated[r] > initiated[r])
    BY <2>1
  <2>. QED BY <2>1, <2>2
<1>2. PICK x \in Requests : Initiate(x) \/ ProxyBegin(x)
  <2>1. ~UNCHANGED wireVars /\ ~UNCHANGED initiated
    BY <1>1 DEF wireVars
  <2>2. ~UNCHANGED vars
    BY <1>1 DEF vars, wireVars
  <2>3. ~Tick /\ ~CloseWindow /\ ~Terminated /\ \A l \in Lanes : ~Abort(l)
    BY <2>1, <2>2 DEF Tick, CloseWindow, Terminated, Abort
  <2>4. PICK x \in Requests : Step(x)
    BY <2>2, <2>3 DEF Next
  <2>5. /\ ~SendRefused(x) /\ ~SendShared(x) /\ ~Send(x) /\ ~Resume(x) /\ ~Reuse(x)
        /\ ~Burst(x) /\ ~EvaluateBrowser(x)
    BY <2>1 DEF SendRefused, SendShared, Send, Resume, Reuse, Burst, EvaluateBrowser
  <2>6. ~AttemptRefused(x) /\ ~Acquire(x) /\ ~TakeTurn(x) /\ ~RateGrant(x) /\ ~Guard(x)
    BY <2>1 DEF AttemptRefused, Acquire, TakeTurn, RateGrant, Guard
  <2>7. ~RouteContinue(x) /\ ~StartedLate(x) /\ ~Fail(x) /\ ~Retry(x) /\ ~Respond(x)
    BY <2>1 DEF RouteContinue, StartedLate, Fail, Retry, Respond
  <2>8. ~Redirect(x) /\ ~ReplayBlocked(x) /\ ~ProxyTimeout(x) /\ ~Rejected(x) /\ ~Cancelled(x)
    BY <2>1 DEF Redirect, ReplayBlocked, ProxyTimeout, Rejected, Cancelled
  <2>. QED BY <2>4, <2>5, <2>6, <2>7, <2>8 DEF Step
<1>3. CASE Initiate(x)
  <2>1. CommitAnswer(x) = "none" /\ OnWire(x)
    BY <1>1, <1>3 DEF Initiate, wireVars
  <2>2. initiated' = [initiated EXCEPT ![x] = @ + 1]
    BY <2>1 DEF OnWire
  <2>3. x = r
    BY <1>1, <2>2
  <2>. QED BY <1>3, <2>1, <2>3
<1>4. CASE ProxyBegin(x)
  <2>1. OnWire(x)
    BY <1>1, <1>4 DEF ProxyBegin, wireVars
  <2>2. initiated' = [initiated EXCEPT ![x] = @ + 1]
    BY <2>1 DEF OnWire
  <2>3. x = r
    BY <1>1, <2>2
  <2>. QED BY <1>4, <2>3 DEF ProxyBegin, Inv, ReqInv
<1>. QED BY <1>2, <1>3, <1>4

(* A trusted discovery GET is written only where no ordinary GET of the     *)
(* scan was written before: every such GET is in the ledger's history, and  *)
(* the commitment looks at it in the same step as it writes.                *)
THEOREM DiscoveryAlwaysFirst == Spec => DiscoveryIsFirst
<1>1. ASSUME Inv, [Next]_vars, NEW r \in Requests, Kind(r) = "discovery",
             initiated'[r] > initiated[r]
      PROVE  url[r] \notin wireGets
  <2>1. CommitAnswer(r) = "none"
    BY <1>1, WhoWrites
  <2>2. url[r] \notin gets
    BY <1>1, <2>1 DEF CommitAnswer, Duplicate, GetConflict
  <2>. QED BY <1>1, <2>2 DEF Inv
<1>2. Inv /\ [Next]_vars =>
        [\A r \in Requests : Kind(r) = "discovery" /\ initiated'[r] > initiated[r]
                              => url[r] \notin wireGets]_vars
  BY <1>1
<1>. QED BY <1>2, Invariance, PTL DEF Spec, DiscoveryIsFirst
=============================================================================
