--------------------------- MODULE RequestBroker ---------------------------
(***************************************************************************)
(* The request path of one scan: several RequestSafetyBrokers share one    *)
(* ScanRequestLedger (lanes SCAN and CLEANUP), its RateLimiter and one     *)
(* TargetAuthorizationGuard.  A request passes the broker's cache and its  *)
(* RequestQueue, waits for the authorization's rate window, for one of the *)
(* ledger's slots and for its turn at the rate limiter, is checked once    *)
(* more, and is committed (budgets reserved) by the transport at the       *)
(* moment it initiates the wire write.  Every await of the code is a step  *)
(* boundary: between any two steps of a request the others, an abort, the  *)
(* clock or the end of the authorization's window may intervene.           *)
(*                                                                         *)
(* Kinds of request:                                                       *)
(*   read       a cacheable GET, retried and redirected                    *)
(*   mutation   a state-changing request: never retried nor redirected     *)
(*   raw        sendRawHttp1: a pair of requests, one commitment of two    *)
(*   discovery  dispatchTrustedDiscoveryGet                                *)
(*   burst      the head of sendSynchronizedMutations: the rate of the     *)
(*              whole group is taken once, before its members are sent     *)
(*   race       a member of the group                                      *)
(*   browser    a Playwright route: budgets are reserved when the route is *)
(*              evaluated, the wire write is the local proxy's             *)
(*                                                                         *)
(* Time is counted in intervals of the rate limiter.  The authorization is *)
(* one that has a request policy (a bounty program or a campaign).         *)
(***************************************************************************)
EXTENDS Integers, Sequences, FiniteSets, SequencesExt

CONSTANTS
    Requests, Brokers, Urls, NoOwner,
    Plans,            \* the request plans of the instance: what each request is
    Lane,             \* [Brokers -> Lanes]
    BrokerMax,        \* [Brokers -> Nat], maxRequests of the broker
    QueueSlots,       \* [Brokers -> Nat], concurrency of its RequestQueue
    ScanCapacity, CleanupReserve, Concurrency,      \* the ledger's
    AuthMax, AuthRate, RateWindow,                  \* the authorization's
    MaxAttempts, MaxRedirects

Lanes == {"SCAN", "CLEANUP"}
Kinds == {"read", "mutation", "raw", "discovery", "burst", "race", "browser"}
Single == {"mutation", "raw", "discovery", "race"}
Denials == {"closed", "spent", "rate", "duplicate", "late"}

ASSUME BrokerConstants ==
    /\ Lane \in [Brokers -> Lanes]
    /\ BrokerMax \in [Brokers -> Nat]
    /\ QueueSlots \in [Brokers -> Nat \ {0}]
    /\ {ScanCapacity, CleanupReserve, AuthMax, AuthRate, MaxRedirects} \subseteq Nat
    /\ {Concurrency, RateWindow, MaxAttempts} \subseteq Nat \ {0}
    /\ Plans \subseteq [Requests -> [kind : Kinds, broker : Brokers, url : Urls]]
    /\ NoOwner \notin Requests
    /\ IsFiniteSet(Requests) /\ IsFiniteSet(Brokers)

VARIABLES
    plan,         \* what each request is; fixed
    pc, outcome,  \* where a request is, and how it ended
    url,          \* the address of its current hop
    attempts, hops,
    cache,        \* requestCache: [Brokers -> [Urls -> owner of the promise]]
    awaited,      \* the owner of the promise that a caller found there and awaits
    gets,         \* the private history of ordinary GET intents of the ledger
    qActive, queue,       \* RequestQueue of each broker
    active, waiting,      \* the ledger's slots and its waiters, by lane
    turns, cool,          \* the rate limiter: its chain, and the time to nextAvailableAt
    sent,                 \* sentRequestCount of each broker
    reserved,             \* scanTransmitted and cleanupTransmitted
    authSent, recent,     \* transmitted of the guard, and for each of them the time
                          \* that it has left in the rate window (0: it is out)
    permit,               \* a browser reservation: which of them is its slot
    closed,               \* the authorization's window is over
    aborted,              \* the scan's and the cleanup's abort signals
    initiated,            \* wire writes of each request
    wireGets, wireRecent  \* what reached the wire: addresses of ordinary GETs, and
                          \* the time the write of each slot has left in the window

reqVars == <<pc, outcome, url, attempts, hops>>
queueVars == <<qActive, queue>>
slotVars == <<active, waiting>>
rateVars == <<turns, cool>>
authVars == <<authSent, recent, permit>>
wireVars == <<initiated, wireGets, wireRecent>>
cacheVars == <<cache, awaited>>
vars == <<plan, reqVars, wireVars, cacheVars, gets, queueVars, slotVars, rateVars, sent, reserved,
          authVars, closed, aborted>>

Kind(r) == plan[r].kind
Broker(r) == plan[r].broker
LaneOf(r) == Lane[Broker(r)]
Aborted(r) == aborted[LaneOf(r)]
Group == {r \in Requests : Kind(r) = "race"}
Count(r) == CASE Kind(r) = "raw" -> 2 [] Kind(r) = "burst" -> Cardinality(Group) [] OTHER -> 1
IsGet(r) == Kind(r) = "read"
UsesQueue(r) == Kind(r) \notin {"browser", "burst"}

(* ------------------------------ the budgets ---------------------------- *)
Capacity(l) == IF l = "CLEANUP" THEN CleanupReserve ELSE ScanCapacity
HasCapacity(l, n) == reserved[l] + n <= Capacity(l)
BrokerHasBudget(r) == sent[Broker(r)] + Count(r) <= BrokerMax[Broker(r)]

(* The slots of the rate window, n more of them, and the window one interval on *)
Window(s) == {k \in DOMAIN s : s[k] > 0}
RateOpen(n) == Cardinality(Window(recent)) + n <= AuthRate
More(s, n, time) == [k \in 1..(authSent + n) |-> IF k <= authSent THEN s[k] ELSE time]
Later(s) == [k \in DOMAIN s |-> IF s[k] > 0 THEN s[k] - 1 ELSE 0]

(* TargetAuthorizationGuard: check, the answer of reserve or reserveBatch, and *)
(* the charge of the latter two                                                *)
Check == IF closed THEN "closed" ELSE "none"
Denial(n) == IF Check # "none" THEN Check
             ELSE IF authSent + n > AuthMax THEN "spent"
             ELSE IF ~RateOpen(n) THEN "rate" ELSE "none"
Charge(n) == /\ authSent' = authSent + n
             /\ recent' = More(recent, n, RateWindow)
OnWire(r) == /\ initiated' = [initiated EXCEPT ![r] = @ + 1]
             /\ wireGets' = IF IsGet(r) THEN wireGets \cup {url[r]} ELSE wireGets

Reserve(l, n) == reserved' = [reserved EXCEPT ![l] = @ + n]
Commit(r) == /\ Reserve(LaneOf(r), Count(r))
             /\ sent' = [sent EXCEPT ![Broker(r)] = @ + Count(r)]

(* --------------------- the ledger's and the queue's slots --------------- *)
(* The first waiter of the cleanup lane, or else the first one *)
NextLane == IF waiting["CLEANUP"] # <<>> THEN "CLEANUP" ELSE "SCAN"

(* release(): the slot goes to the next waiter, or is free again *)
Release == IF waiting[NextLane] = <<>>
           THEN active' = active - 1 /\ UNCHANGED waiting
           ELSE waiting' = [waiting EXCEPT ![NextLane] = Tail(@)] /\ UNCHANGED active
(* the promise of the waiter, unless it was rejected already *)
Granted(slot) == IF slot /\ waiting[NextLane] # <<>>
                 THEN {Head(waiting[NextLane])} \cap {x \in Requests : pc[x] = "slotWait"}
                 ELSE {}

QueueRelease(b) ==
    IF queue[b] = <<>>
    THEN qActive' = [qActive EXCEPT ![b] = @ - 1] /\ UNCHANGED queue
    ELSE queue' = [queue EXCEPT ![b] = Tail(@)] /\ UNCHANGED qActive
Dequeued(r) == IF UsesQueue(r) /\ queue[Broker(r)] # <<>> THEN {Head(queue[Broker(r)])} ELSE {}

(***************************************************************************)
(* The end of a request: the slot (if it holds one) and the queue's place  *)
(* are passed on.  The promise of a read settles for its owner and for the *)
(* callers that await it by now; what they do then are later steps.        *)
(***************************************************************************)
Joined(r) == {j \in Requests : pc[j] = "joined" /\ awaited[j] = r}
Settled(r) == IF IsGet(r) THEN "settled" ELSE "done"
Settle(r, o, slot) ==
    /\ pc' = [x \in Requests |-> IF x = r THEN Settled(r)
                                 ELSE IF x \in Joined(r) THEN "settled"
                                 ELSE IF x \in Granted(slot) THEN "slot"
                                 ELSE IF x \in Dequeued(r) THEN "attempt" ELSE pc[x]]
    /\ outcome' = [x \in Requests |-> IF x = r \/ x \in Joined(r) THEN o ELSE outcome[x]]
    /\ UNCHANGED cacheVars
    /\ IF slot THEN Release ELSE UNCHANGED slotVars
    /\ IF UsesQueue(r) THEN QueueRelease(Broker(r)) ELSE UNCHANGED queueVars

(* A request that goes on without its slot (a retry or a redirect) *)
GoOn(r, to) ==
    /\ pc' = [x \in Requests |-> IF x = r THEN to ELSE IF x \in Granted(TRUE) THEN "slot" ELSE pc[x]]
    /\ Release
    /\ UNCHANGED <<outcome, cacheVars, queueVars>>

Goto(r, to) == pc' = [pc EXCEPT ![r] = to]
End(r, o) == pc' = [pc EXCEPT ![r] = "done"] /\ outcome' = [outcome EXCEPT ![r] = o]
HoldsSlot(r) == pc[r] \in {"slot", "turn", "guard", "transport", "wire", "routed"} /\ Kind(r) # "burst"

(* -------------------------------- sending ------------------------------- *)
Ready(r) == /\ pc[r] = "idle" /\ UsesQueue(r) /\ ~Aborted(r)
            /\ Kind(r) = "raw" => Count(r) <= AuthRate
            /\ Kind(r) = "race" => \E b \in Requests : Kind(b) = "burst" /\ outcome[b] = "ok"
(* Mutant: the cache holds responses, not promises. *)
SettledOwner(r) == LET o == cache[Broker(r)][plan[r].url]
                   IN  IF IsGet(r) /\ o # NoOwner /\ pc[o] = "done" THEN o ELSE NoOwner

CacheOwner(r) == IF IsGet(r) THEN cache[Broker(r)][plan[r].url] ELSE NoOwner
GetConflict(u) == u \in gets
NotedGets(r, u) == IF IsGet(r) THEN gets \cup {u} ELSE gets

(* The discovery's own verification, before it queues and at its start *)
Duplicate(r) == Kind(r) = "discovery" /\ GetConflict(url[r])

(* Refused at once: aborted, controlled mode, scope, a group beyond the rate *)
SendRefused(r) ==
    /\ pc[r] = "idle" /\ End(r, "blocked")
    /\ Kind(r) = "race" => \A b \in Requests : Kind(b) = "burst" => pc[b] = "done"
    /\ UNCHANGED <<plan, url, attempts, hops, wireVars, cacheVars, gets, queueVars, slotVars,
                   rateVars, sent, reserved, authVars, closed, aborted>>

(* A promise for the same request, pending or settled, is awaited *)
SendShared(r) ==
    /\ Ready(r) /\ CacheOwner(r) # NoOwner
    /\ Goto(r, "joined") /\ awaited' = [awaited EXCEPT ![r] = CacheOwner(r)]
    /\ gets' = NotedGets(r, plan[r].url)
    /\ UNCHANGED <<plan, outcome, url, attempts, hops, wireVars, cache, queueVars, slotVars,
                   rateVars, sent, reserved, authVars, closed, aborted>>

(***************************************************************************)
(* After the await.  A caller whose promise was refused, cancelled or      *)
(* stopped removes what the cache holds under its key, whosever that is.   *)
(* The continuations of the owner and of the callers that awaited the      *)
(* promise when it settled are queued in a row, and run so; a caller that  *)
(* found the promise settled already has a continuation of its own, later. *)
(***************************************************************************)
Refusals == Denials \cup {"cancelled", "replay"}
Dropped(r, o) == IF o \in Refusals THEN [cache EXCEPT ![Broker(r)][plan[r].url] = NoOwner] ELSE cache

Resume(r) ==
    /\ pc[r] = "settled" /\ awaited[r] = NoOwner
    /\ pc' = [x \in Requests |-> IF x = r \/ (pc[x] = "settled" /\ awaited[x] = r) THEN "done" ELSE pc[x]]
    /\ cache' = Dropped(r, outcome[r])
    /\ UNCHANGED <<plan, outcome, url, attempts, hops, wireVars, awaited, gets, queueVars, slotVars,
                   rateVars, sent, reserved, authVars, closed, aborted>>

Reuse(r) ==
    /\ pc[r] = "joined" /\ pc[awaited[r]] = "done" /\ End(r, outcome[awaited[r]])
    /\ cache' = Dropped(r, outcome[awaited[r]])
    /\ UNCHANGED <<plan, url, attempts, hops, wireVars, awaited, gets, queueVars, slotVars,
                   rateVars, sent, reserved, authVars, closed, aborted>>

Send(r) ==
    /\ Ready(r) /\ CacheOwner(r) = NoOwner
    /\ ~Duplicate(r)
    /\ gets' = NotedGets(r, plan[r].url)
    /\ cache' = IF IsGet(r) THEN [cache EXCEPT ![Broker(r)][plan[r].url] = r] ELSE cache
    /\ IF qActive[Broker(r)] < QueueSlots[Broker(r)]
       THEN /\ qActive' = [qActive EXCEPT ![Broker(r)] = @ + 1]
            /\ Goto(r, "attempt") /\ UNCHANGED queue
       ELSE /\ queue' = [queue EXCEPT ![Broker(r)] = Append(@, r)]
            /\ Goto(r, "queued") /\ UNCHANGED qActive
    /\ UNCHANGED <<plan, outcome, url, attempts, hops, wireVars, awaited, slotVars, rateVars, sent,
                   reserved, authVars, closed, aborted>>

(* The group's head waits for the authorization's rate like any request *)
Burst(r) ==
    /\ pc[r] = "idle" /\ Kind(r) = "burst" /\ Goto(r, "attempt")
    /\ Count(r) <= AuthRate /\ authSent + Count(r) <= AuthMax
    /\ UNCHANGED <<plan, outcome, url, attempts, hops, wireVars, cacheVars, gets, queueVars,
                   slotVars, rateVars, sent, reserved, authVars, closed, aborted>>

(***************************************************************************)
(* evaluateBrowserRequest: the authorization is charged before the broker  *)
(* and the ledger are asked; a refusal of theirs does not give it back.    *)
(***************************************************************************)
EvaluateBrowser(r) ==
    /\ pc[r] = "idle" /\ Kind(r) = "browser"
    /\ IF Denial(1) # "none"
       THEN End(r, Denial(1)) /\ UNCHANGED <<authVars, wireRecent, sent, reserved>>
       ELSE /\ Charge(1) /\ permit' = [permit EXCEPT ![r] = authSent']
            /\ wireRecent' = More(wireRecent, 1, 0)
            /\ IF BrokerHasBudget(r) /\ HasCapacity(LaneOf(r), 1)
               THEN Commit(r) /\ Goto(r, "attempt") /\ UNCHANGED outcome
               ELSE End(r, "budget") /\ UNCHANGED <<sent, reserved>>
    /\ UNCHANGED <<plan, url, attempts, hops, initiated, wireGets, cacheVars, gets, queueVars,
                   slotVars, rateVars, closed, aborted>>

(* --------------------- up to the ledger and its slot -------------------- *)
SkipsRate(r) == Kind(r) \in {"race", "discovery", "browser"}
ChecksBrokerFirst(r) == Kind(r) \in {"read", "mutation", "race"}

AttemptRefused(r) ==
    /\ pc[r] = "attempt" /\ ~Aborted(r) /\ (SkipsRate(r) \/ RateOpen(Count(r)))
    /\ ChecksBrokerFirst(r) /\ ~BrokerHasBudget(r)
    /\ Settle(r, "budget", FALSE)
    /\ UNCHANGED <<plan, url, attempts, hops, wireVars, gets, rateVars, sent, reserved, authVars,
                   closed, aborted>>

Acquire(r) ==
    /\ pc[r] = "attempt" /\ ~Aborted(r) /\ (SkipsRate(r) \/ RateOpen(Count(r)))
    /\ ChecksBrokerFirst(r) => BrokerHasBudget(r)
    /\ IF Kind(r) = "burst"
       THEN turns' = Append(turns, r) /\ Goto(r, "turn") /\ UNCHANGED <<slotVars>>
       ELSE IF active < Concurrency
       THEN active' = active + 1 /\ Goto(r, "slot") /\ UNCHANGED <<waiting, turns>>
       ELSE /\ waiting' = [waiting EXCEPT ![LaneOf(r)] = Append(@, r)]
            /\ Goto(r, "slotWait") /\ UNCHANGED <<active, turns>>
    /\ UNCHANGED <<plan, outcome, url, attempts, hops, wireVars, cacheVars, gets, queueVars, cool,
                   sent, reserved, authVars, closed, aborted>>

(* transmit, the slot in hand: capacity, then the rate limiter's chain *)
TakeTurn(r) ==
    /\ pc[r] = "slot" /\ ~Aborted(r)
    /\ IF Kind(r) # "browser" /\ ~HasCapacity(LaneOf(r), Count(r))
       THEN Settle(r, "budget", TRUE) /\ UNCHANGED turns
       ELSE /\ IF Kind(r) = "race" THEN Goto(r, "guard") /\ UNCHANGED turns
               ELSE Goto(r, "turn") /\ turns' = Append(turns, r)
            /\ UNCHANGED <<outcome, cacheVars, queueVars, slotVars>>
    /\ UNCHANGED <<plan, url, attempts, hops, wireVars, gets, cool, sent, reserved, authVars,
                   closed, aborted>>

(* RateLimiter.wait: first in the chain, the interval over *)
RateGrant(r) ==
    /\ pc[r] = "turn" /\ ~Aborted(r)
    /\ turns # <<>> /\ Head(turns) = r /\ cool = 0
    /\ turns' = Tail(turns) /\ cool' = Count(r)
    /\ IF Kind(r) = "burst" THEN End(r, "ok") ELSE Goto(r, "guard") /\ UNCHANGED outcome
    /\ UNCHANGED <<plan, url, attempts, hops, wireVars, cacheVars, gets, queueVars, slotVars, sent,
                   reserved, authVars, closed, aborted>>

(* The recheck after the waits, and beforeTransmit *)
GuardAnswer(r) ==
    IF ~HasCapacity(LaneOf(r), Count(r)) THEN "budget"
    ELSE IF ~ChecksBrokerFirst(r) THEN "none"
    ELSE IF ~BrokerHasBudget(r) THEN "budget" ELSE Check

Guard(r) ==
    /\ pc[r] = "guard" /\ Kind(r) # "browser" /\ ~Aborted(r)
    /\ IF GuardAnswer(r) # "none" THEN Settle(r, GuardAnswer(r), TRUE)
       ELSE Goto(r, "transport") /\ UNCHANGED <<outcome, cacheVars, queueVars, slotVars>>
    /\ UNCHANGED <<plan, url, attempts, hops, wireVars, gets, rateVars, sent, reserved,
                   authVars, closed, aborted>>

(* dispatchBrowserRoute: the bound operation is checked and the route goes on *)
RouteContinue(r) ==
    /\ pc[r] = "guard" /\ Kind(r) = "browser" /\ ~Aborted(r)
    /\ IF Check # "none" THEN Settle(r, Check, TRUE)
       ELSE Goto(r, "routed") /\ UNCHANGED <<outcome, cacheVars, queueVars, slotVars>>
    /\ UNCHANGED <<plan, url, attempts, hops, wireVars, gets, rateVars, sent, reserved,
                   authVars, closed, aborted>>

(* ------------------------------- the wire ------------------------------- *)
(* Mutants of the commitment: capacity is not looked at again; the history of *)
(* GETs is not looked at again.                                              *)
CommitWithoutCapacity(r) ==
    IF Duplicate(r) THEN "duplicate" ELSE Denial(Count(r))
CommitWithoutHistory(r) ==
    IF ~BrokerHasBudget(r) \/ ~HasCapacity(LaneOf(r), Count(r)) THEN "budget" ELSE Denial(Count(r))

(* commitHttpInitiation, called by the transport at the request's start *)
CommitAnswer(r) ==
    IF Duplicate(r) THEN "duplicate"
    ELSE IF ~BrokerHasBudget(r) \/ ~HasCapacity(LaneOf(r), Count(r)) THEN "budget"
    ELSE Denial(Count(r))

Initiate(r) ==
    /\ pc[r] = "transport" /\ ~Aborted(r)
    /\ IF CommitAnswer(r) # "none"
       THEN Settle(r, CommitAnswer(r), TRUE) /\ UNCHANGED <<wireVars, authVars, sent, reserved>>
       ELSE /\ Charge(Count(r)) /\ Commit(r) /\ OnWire(r)
            /\ wireRecent' = More(wireRecent, Count(r), RateWindow)
            /\ Goto(r, "wire") /\ UNCHANGED <<outcome, cacheVars, queueVars, slotVars, permit>>
    /\ UNCHANGED <<plan, url, attempts, hops, gets, rateVars, closed, aborted>>

(* Mutant: a mutation is retried like a read.                               *)
FailRetriesAll(r) ==
    /\ pc[r] \in {"transport", "wire"} /\ ~Aborted(r)
    /\ IF attempts[r] < MaxAttempts THEN GoOn(r, "backoff") ELSE Settle(r, "error", TRUE)
    /\ UNCHANGED <<plan, url, attempts, hops, wireVars, gets, rateVars, sent, reserved,
                   authVars, closed, aborted>>

(* A failure the retry policy may try again: an error, a time-out, a status *)
Fail(r) ==
    /\ pc[r] \in {"transport", "wire"} /\ ~Aborted(r)
    /\ IF IsGet(r) /\ attempts[r] < MaxAttempts THEN GoOn(r, "backoff") ELSE Settle(r, "error", TRUE)
    /\ UNCHANGED <<plan, url, attempts, hops, wireVars, gets, rateVars, sent, reserved,
                   authVars, closed, aborted>>

(* The sleep of the retry policy ends; it keeps the place in the queue *)
Retry(r) ==
    /\ pc[r] = "backoff" /\ Goto(r, "attempt")
    /\ attempts' = [attempts EXCEPT ![r] = @ + 1]
    /\ hops' = [hops EXCEPT ![r] = 0]
    /\ url' = [url EXCEPT ![r] = plan[r].url]
    /\ UNCHANGED <<plan, outcome, wireVars, cacheVars, gets, queueVars, slotVars, rateVars, sent,
                   reserved, authVars, closed, aborted>>

Respond(r) ==
    /\ pc[r] = "wire" /\ Settle(r, "ok", TRUE)
    /\ UNCHANGED <<plan, url, attempts, hops, wireVars, gets, rateVars, sent, reserved,
                   authVars, closed, aborted>>

(* A redirect is a new attempt at its own address, noted before it waits for *)
(* the rate; a single-shot one ends                                          *)
Redirect(r) ==
    /\ pc[r] = "wire"
    /\ IF IsGet(r) /\ hops[r] < MaxRedirects
       THEN /\ GoOn(r, "attempt")
            /\ hops' = [hops EXCEPT ![r] = @ + 1]
            /\ \E u \in Urls \ {url[r]} :
                 /\ url' = [url EXCEPT ![r] = u]
                 /\ gets' = IF Aborted(r) THEN gets ELSE NotedGets(r, u)
       ELSE Settle(r, "redirect", TRUE) /\ UNCHANGED <<hops, url, gets>>
    /\ UNCHANGED <<plan, attempts, wireVars, rateVars, sent, reserved, authVars, closed, aborted>>

(* The transport starts the request a second time by itself: stopped *)
ReplayBlocked(r) ==
    /\ pc[r] = "wire" /\ Kind(r) # "raw" /\ Settle(r, "replay", TRUE)
    /\ UNCHANGED <<plan, url, attempts, hops, wireVars, gets, rateVars, sent, reserved,
                   authVars, closed, aborted>>

(* The time-out is noticed at the request's start: reported as a denial *)
StartedLate(r) ==
    /\ pc[r] = "transport" /\ Kind(r) # "raw" /\ Settle(r, "late", TRUE)
    /\ UNCHANGED <<plan, url, attempts, hops, wireVars, gets, rateVars, sent, reserved,
                   authVars, closed, aborted>>

(***************************************************************************)
(* The browser's proxy begins the write: the slot of the rate window that  *)
(* the evaluation took moves to this moment, if it is still in the window; *)
(* the window without it must have room.  The ledger's slot is given back  *)
(* as soon as the write is initiated.                                      *)
(***************************************************************************)
WithoutPermit(r) == Window(recent) \ {permit[r]}
(* Mutant: the reservation is taken for the write, however old it is. *)
ProxyAnswerAsReserved(r) == IF Check # "none" THEN Check ELSE "ok"
ProxyAnswer(r) == IF Check # "none" THEN Check ELSE IF Cardinality(WithoutPermit(r)) >= AuthRate THEN "rate" ELSE "ok"

ProxyBegin(r) ==
    /\ pc[r] = "routed" /\ ~Aborted(r)
    /\ Settle(r, ProxyAnswer(r), TRUE)
    /\ permit' = [permit EXCEPT ![r] = 0]
    /\ IF ProxyAnswer(r) = "ok"
       THEN /\ OnWire(r)
            /\ recent' = [recent EXCEPT ![permit[r]] = RateWindow]
            /\ wireRecent' = [wireRecent EXCEPT ![permit[r]] = RateWindow]
       ELSE UNCHANGED <<wireVars, recent>>
    /\ UNCHANGED <<plan, url, attempts, hops, gets, rateVars, sent, reserved, authSent,
                   closed, aborted>>

(* waitForBrowserInitiation: the proxy never got to it *)
ProxyTimeout(r) ==
    /\ pc[r] = "routed" /\ Settle(r, "late", TRUE)
    /\ UNCHANGED <<plan, url, attempts, hops, wireVars, gets, rateVars, sent, reserved,
                   authVars, closed, aborted>>

(* --------------------------- abort and the clock ------------------------ *)
(* Mutant of the abort listener: the waiter stays in the ledger's list. *)
AbortKeepsWaiter(l) ==
    /\ ~aborted[l] /\ aborted' = [aborted EXCEPT ![l] = TRUE]
    /\ pc' = [r \in Requests |-> IF pc[r] = "slotWait" /\ LaneOf(r) = l THEN "failing" ELSE pc[r]]
    /\ UNCHANGED <<plan, outcome, url, attempts, hops, wireVars, cacheVars, gets, queueVars, slotVars,
                   rateVars, sent, reserved, authVars, closed>>

(* The abort listeners of the ledger's waiters run with the abort itself *)
Abort(l) ==
    /\ \E r \in Requests : LaneOf(r) = l /\ pc[r] # "done"
    /\ ~aborted[l] /\ aborted' = [aborted EXCEPT ![l] = TRUE]
    /\ waiting' = [waiting EXCEPT ![l] = <<>>]
    /\ pc' = [r \in Requests |-> IF pc[r] = "slotWait" /\ LaneOf(r) = l THEN "failing" ELSE pc[r]]
    /\ UNCHANGED <<plan, outcome, url, attempts, hops, wireVars, cacheVars, gets, queueVars, active,
                   rateVars, sent, reserved, authVars, closed>>

(* A rejected waiter leaves the broker's queue *)
Rejected(r) ==
    /\ pc[r] = "failing" /\ Settle(r, "cancelled", FALSE)
    /\ UNCHANGED <<plan, url, attempts, hops, wireVars, gets, rateVars, sent, reserved,
                   authVars, closed, aborted>>

(* Mutant of the rate limiter: an aborted waiter does not release its turn. *)
CancelledKeepsTurn(r) ==
    /\ Aborted(r) /\ pc[r] \in {"attempt", "slot", "turn", "guard", "transport", "wire", "routed"}
    /\ Settle(r, "cancelled", HoldsSlot(r))
    /\ UNCHANGED <<plan, url, attempts, hops, wireVars, gets, rateVars, sent, reserved, authVars,
                   closed, aborted>>

Without(s, x) == IF \E i \in DOMAIN s : s[i] = x
                 THEN RemoveAt(s, CHOOSE i \in DOMAIN s : s[i] = x) ELSE s

(* throwIfAborted and the abortable waits: the request ends where it is *)
Cancelled(r) ==
    /\ Aborted(r) /\ pc[r] \in {"attempt", "slot", "turn", "guard", "transport", "wire", "routed"}
    /\ Settle(r, "cancelled", HoldsSlot(r))
    /\ turns' = Without(turns, r)
    /\ UNCHANGED <<plan, url, attempts, hops, wireVars, gets, cool, sent, reserved, authVars,
                   closed, aborted>>

Unfinished == \E r \in Requests : pc[r] # "done"

CloseWindow ==
    /\ Unfinished /\ ~closed /\ closed' = TRUE
    /\ UNCHANGED <<plan, reqVars, wireVars, cacheVars, gets, queueVars, slotVars, rateVars, sent,
                   reserved, authVars, aborted>>

Tick ==
    /\ Unfinished
    /\ cool > 0 \/ Window(recent) # {} \/ Window(wireRecent) # {}
    /\ cool' = IF cool > 0 THEN cool - 1 ELSE 0
    /\ recent' = Later(recent) /\ wireRecent' = Later(wireRecent)
    /\ UNCHANGED <<plan, reqVars, initiated, wireGets, cacheVars, gets, queueVars, slotVars, turns,
                   sent, reserved, authSent, permit, closed, aborted>>

Terminated == ~Unfinished /\ UNCHANGED vars

Init ==
    /\ plan \in Plans
    /\ pc = [r \in Requests |-> "idle"] /\ outcome = [r \in Requests |-> "none"]
    /\ url = [r \in Requests |-> plan[r].url]
    /\ attempts = [r \in Requests |-> 1] /\ hops = [r \in Requests |-> 0]
    /\ cache = [b \in Brokers |-> [u \in Urls |-> NoOwner]] /\ gets = {}
    /\ awaited = [r \in Requests |-> NoOwner]
    /\ qActive = [b \in Brokers |-> 0] /\ queue = [b \in Brokers |-> <<>>]
    /\ active = 0 /\ waiting = [l \in Lanes |-> <<>>] /\ turns = <<>> /\ cool = 0
    /\ sent = [b \in Brokers |-> 0] /\ reserved = [l \in Lanes |-> 0]
    /\ authSent = 0 /\ recent = <<>> /\ permit = [r \in Requests |-> 0]
    /\ closed = FALSE /\ aborted = [l \in Lanes |-> FALSE]
    /\ initiated = [r \in Requests |-> 0] /\ wireGets = {}
    /\ wireRecent = <<>>

Step(r) ==
    \/ SendRefused(r) \/ SendShared(r) \/ Send(r) \/ Resume(r) \/ Reuse(r) \/ Burst(r) \/ EvaluateBrowser(r)
    \/ AttemptRefused(r) \/ Acquire(r) \/ TakeTurn(r) \/ RateGrant(r) \/ Guard(r) \/ RouteContinue(r)
    \/ Initiate(r) \/ StartedLate(r) \/ Fail(r) \/ Retry(r) \/ Respond(r) \/ Redirect(r)
    \/ ReplayBlocked(r) \/ ProxyBegin(r) \/ ProxyTimeout(r) \/ Rejected(r) \/ Cancelled(r)

Next ==
    \/ \E r \in Requests : Step(r)
    \/ \E l \in Lanes : Abort(l)
    \/ CloseWindow \/ Tick \/ Terminated

Spec == Init /\ [][Next]_vars

(* The event loop runs every ready continuation, every wait of the          *)
(* transport has a time-out, and the clock advances.                        *)
Fairness == WF_vars((\E r \in Requests : Step(r)) \/ Tick)
LiveSpec == Spec /\ Fairness

(* ------------------------------ properties ------------------------------ *)
PCs == {"idle", "joined", "queued", "attempt", "slotWait", "failing", "slot", "turn", "guard",
        "transport", "wire", "routed", "backoff", "settled", "done"}
Outcomes == {"none", "ok", "blocked", "budget", "error", "redirect", "replay", "cancelled"} \cup Denials

(* Every variable has its type *)
TypeOK ==
    /\ plan \in Plans
    /\ pc \in [Requests -> PCs] /\ outcome \in [Requests -> Outcomes] /\ url \in [Requests -> Urls]
    /\ attempts \in [Requests -> 1..MaxAttempts] /\ hops \in [Requests -> 0..MaxRedirects]
    /\ cache \in [Brokers -> [Urls -> Requests \cup {NoOwner}]] /\ gets \subseteq Urls
    /\ awaited \in [Requests -> Requests \cup {NoOwner}]
    /\ qActive \in [Brokers -> Nat] /\ queue \in [Brokers -> Seq(Requests)]
    /\ active \in Nat /\ waiting \in [Lanes -> Seq(Requests)] /\ turns \in Seq(Requests) /\ cool \in Nat
    /\ sent \in [Brokers -> Nat] /\ reserved \in [Lanes -> Nat]
    /\ authSent \in Nat /\ recent \in [1..authSent -> 0..RateWindow]
    /\ permit \in [Requests -> 0..authSent]
    /\ closed \in BOOLEAN /\ aborted \in [Lanes -> BOOLEAN]
    /\ initiated \in [Requests -> Nat] /\ wireGets \subseteq Urls
    /\ wireRecent \in [1..authSent -> 0..RateWindow]

(***************************************************************************)
(* ScanRequestLedger.acquire and releaseHandle, and RequestQueue.acquire   *)
(* and release, lose no slot and give none twice, whatever aborts race     *)
(* with a hand-over: the counters count the requests that hold a slot or a *)
(* place, never above the limit, and somebody waits only while all are     *)
(* taken.                                                                  *)
(***************************************************************************)
InQueueSlot(r, b) == /\ Broker(r) = b /\ UsesQueue(r)
                     /\ pc[r] \notin {"idle", "joined", "queued", "settled", "done"}
SlotsConserved ==
    /\ active = Cardinality({r \in Requests : HoldsSlot(r)})
    /\ active <= Concurrency
    /\ (\E l \in Lanes : waiting[l] # <<>>) => active = Concurrency
    /\ \A b \in Brokers :
         /\ qActive[b] = Cardinality({r \in Requests : InQueueSlot(r, b)})
         /\ qActive[b] <= QueueSlots[b]
         /\ queue[b] # <<>> => qActive[b] = QueueSlots[b]

(***************************************************************************)
(* The three budgets agree: what the brokers of a lane have sent is what   *)
(* the ledger reserved for it, within the lane's own capacity (the scan    *)
(* never takes the cleanup reserve); the wire writes are covered by it;    *)
(* and the authorization is charged for the reservations and, besides, for *)
(* the browser requests that the other budgets then refused.               *)
(***************************************************************************)
Units(f, S) == UNION {{x} \X (1..f[x]) : x \in S}
Total(f, S) == Cardinality(Units(f, S))
BudgetsAgree ==
    /\ \A l \in Lanes :
         /\ reserved[l] <= Capacity(l)
         /\ reserved[l] = Total(sent, {b \in Brokers : Lane[b] = l})
         /\ Total([r \in Requests |-> initiated[r] * Count(r)], {r \in Requests : LaneOf(r) = l})
               <= reserved[l]
    /\ \A b \in Brokers : sent[b] <= BrokerMax[b]
    /\ authSent <= AuthMax
    /\ authSent = reserved["SCAN"] + reserved["CLEANUP"]
                   + Cardinality({r \in Requests : Kind(r) = "browser" /\ outcome[r] = "budget"})

(* A state-changing request, a raw pair and a discovery GET are written at  *)
(* most once: no retry, no redirect and no replay of the transport repeats  *)
(* them (sendRequest, sendWithRedirects, HttpClient.send).                  *)
WrittenOnce == \A r \in Requests : Kind(r) \in Single \cup {"browser"} => initiated[r] <= 1

(* "deduplicates requests globally" (request-safety-broker.test.ts): of     *)
(* several callers of one broker that ask for the same address one is in    *)
(* flight, the others share its promise (requestCache).                     *)
InFlight(r) == pc[r] \notin {"idle", "joined", "settled", "done"}
Together(r, s) == r # s /\ IsGet(r) /\ plan[r] = plan[s] /\ InFlight(r) /\ InFlight(s)
OneFlight == \A r, s \in Requests : ~Together(r, s)

(***************************************************************************)
(* A read in flight is what the cache holds under its key, so that whoever *)
(* asks for its address shares it, however late callers come and whoever   *)
(* resumes first: until a caller that shared a promise under that key was  *)
(* refused, cancelled or stopped with it. That one removes the entry by    *)
(* its key, in a continuation of its own, and with it another's.           *)
(***************************************************************************)
SharedRefusal(r) ==
    \E j \in Requests : /\ plan[j] = plan[r] /\ awaited[j] # NoOwner
                        /\ pc[j] = "done" /\ outcome[j] \in Refusals
SharedUntilRefused ==
    \A r \in Requests : IsGet(r) /\ InFlight(r) /\ ~SharedRefusal(r) =>
        cache[Broker(r)][plan[r].url] = r

(* No second of the target's clock sees more wire writes than the           *)
(* authorization's rate, browser writes (reserved long before) included.    *)
WireRateKept == Cardinality(Window(wireRecent)) <= AuthRate

(* A trusted discovery GET is written only if no ordinary GET of the scan,  *)
(* in whichever broker and on whichever hop, reached that address before.   *)
DiscoveryIsFirst ==
    [][\A r \in Requests : Kind(r) = "discovery" /\ initiated'[r] > initiated[r]
                            => url[r] \notin wireGets]_vars

(* Every request that was sent ends: no slot, turn or place is waited for   *)
(* forever, aborted or not.                                                 *)
EveryRequestEnds == <>(\A r \in Requests : pc[r] = "done")

(* "The ordinary lane can never consume cleanup capacity"                   *)
(* (ScanRequestLedger.ts): the authorization, too, keeps room for what is   *)
(* left of the cleanup reserve.                                             *)
CleanupCapacityKept == AuthMax - authSent >= CleanupReserve - reserved["CLEANUP"]

(* "HTTP queues wait" (TargetAuthorization.ts, waitForRate): a request that *)
(* waited for the rate window is not refused for the rate.                  *)
HttpWaitsForRate == \A r \in Requests : outcome[r] = "rate" => Kind(r) = "browser"
=============================================================================
