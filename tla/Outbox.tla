-------------------------------- MODULE Outbox --------------------------------
(***************************************************************************)
(* The transactional outbox of the PostgreSQL control plane                *)
(* (controlPlane/PostgresControlPlane.ts): transactions that publish an    *)
(* event, and the consumers that follow the table with a cursor.           *)
(*                                                                         *)
(* Event ids come from a sequence, which a rollback does not give back.    *)
(* A notification only wakes a consumer that polls every second anyway; it *)
(* is one of the drains a consumer may start at any time.                  *)
(***************************************************************************)
EXTENDS Naturals, Sequences, SequencesExt

CONSTANTS
    Producers,   \* transactions under way at once
    Consumers,   \* control-plane processes
    None,        \* "nobody"
    PageSize,    \* rows per drain (LIMIT 512)
    MaxEvents    \* ids taken from the sequence (bound)

ASSUME OutboxAssumption ==
    /\ PageSize \in Nat \ {0}
    /\ MaxEvents \in Nat
    /\ None \notin Producers \cup Nat

VARIABLES
    sequence,   \* the last id taken
    orderLock,  \* who has the advisory lock routecairn-outbox-order, or None
    inserted,   \* inserted[t]: the id of t's uncommitted row, or None
    outbox,     \* ids of the committed rows
    phase,      \* phase[c]: "down", "starting" (cursor read), "running", "draining"
    cursor,     \* cursor[c]
    page,       \* page[c]: rows the drain under way has read
    delivered,  \* history: ids passed to c's listeners, in order
    since       \* history: the cursor c started with

consumerVars == <<phase, cursor, page, delivered, since>>
vars == <<sequence, orderLock, inserted, outbox, consumerVars>>

Ids == 1..MaxEvents

TypeOK ==
    /\ sequence \in 0..MaxEvents
    /\ orderLock \in Producers \cup {None}
    /\ inserted \in [Producers -> Ids \cup {None}]
    /\ outbox \in SUBSET Ids
    /\ phase \in [Consumers -> {"down", "starting", "running", "draining"}]
    /\ cursor \in [Consumers -> 0..MaxEvents]
    /\ page \in [Consumers -> Seq(Ids)]
    /\ delivered \in [Consumers -> Seq(Ids)]
    /\ since \in [Consumers -> 0..MaxEvents]

Init ==
    /\ sequence = 0
    /\ orderLock = None
    /\ inserted = [t \in Producers |-> None]
    /\ outbox = {}
    /\ phase = [c \in Consumers |-> "down"]
    /\ cursor = [c \in Consumers |-> 0]
    /\ page = [c \in Consumers |-> <<>>]
    /\ delivered = [c \in Consumers |-> <<>>]
    /\ since = [c \in Consumers |-> 0]

-------------------------------------------------------------------------------
(* publishInTransaction                                                     *)

(* Mutant of publishing: events are inserted without the order lock.        *)
LockIgnored(t) == orderLock \in Producers \cup {None}

MayPublish(t) == orderLock = None

(* The lock and the insert, which takes the id.                             *)
Publish(t) ==
    /\ inserted[t] = None
    /\ MayPublish(t)
    /\ sequence < MaxEvents
    /\ orderLock' = t
    /\ sequence' = sequence + 1
    /\ inserted' = [inserted EXCEPT ![t] = sequence']
    /\ UNCHANGED <<outbox, consumerVars>>

(* The end of the transaction gives the lock back.                          *)
EndTransaction(t) ==
    /\ inserted[t] # None
    /\ inserted' = [inserted EXCEPT ![t] = None]
    /\ orderLock' = IF orderLock = t THEN None ELSE orderLock
    /\ UNCHANGED <<sequence, consumerVars>>

Commit(t) ==
    /\ EndTransaction(t)
    /\ outbox' = outbox \cup {inserted[t]}

(* ROLLBACK, or the producer dies.                                          *)
Rollback(t) ==
    /\ EndTransaction(t)
    /\ UNCHANGED outbox

-------------------------------------------------------------------------------
(* Consumers                                                                *)

(* SELECT COALESCE(MAX(id), 0)                                              *)
IsLatest(i) == \A j \in outbox : j <= i

(* start: the cursor is read before LISTEN ...                              *)
StartConsumer(c) ==
    /\ phase[c] = "down"
    /\ phase' = [phase EXCEPT ![c] = "starting"]
    /\ \E latest \in outbox \cup {0} :
          /\ IsLatest(latest)
          /\ cursor' = [cursor EXCEPT ![c] = latest]
          /\ since' = [since EXCEPT ![c] = latest]
    /\ delivered' = [delivered EXCEPT ![c] = <<>>]
    /\ UNCHANGED <<sequence, orderLock, inserted, outbox, page>>

(* ... and drains and polls follow it.                                      *)
Listen(c) ==
    /\ phase[c] = "starting"
    /\ phase' = [phase EXCEPT ![c] = "running"]
    /\ UNCHANGED <<sequence, orderLock, inserted, outbox, cursor, page, delivered, since>>

(* SELECT ... WHERE id > cursor ORDER BY id LIMIT PageSize                  *)
Ascending(s) == \A k, l \in DOMAIN s : k < l => s[k] < s[l]

PagesAfter(i) ==
    {p \in UNION {[1..n -> {j \in outbox : j > i}] : n \in 0..PageSize} :
        /\ Ascending(p)
        /\ \A j \in outbox :
              j > i /\ (Len(p) < PageSize \/ \E k \in DOMAIN p : j < p[k]) => j \in Range(p)}

(* drainEvents: one drain at a time.                                        *)
StartDrain(c) ==
    /\ phase[c] = "running"
    /\ phase' = [phase EXCEPT ![c] = "draining"]
    /\ \E rows \in PagesAfter(cursor[c]) : page' = [page EXCEPT ![c] = rows]
    /\ UNCHANGED <<sequence, orderLock, inserted, outbox, cursor, delivered, since>>

(* The rows are passed on without a pause; a listener's error is logged.    *)
Deliver(c) ==
    /\ phase[c] = "draining"
    /\ phase' = [phase EXCEPT ![c] = "running"]
    /\ delivered' = [delivered EXCEPT ![c] = @ \o page[c]]
    /\ cursor' = [cursor EXCEPT ![c] = IF page[c] = <<>> THEN @ ELSE Last(page[c])]
    /\ page' = [page EXCEPT ![c] = <<>>]
    /\ UNCHANGED <<sequence, orderLock, inserted, outbox, since>>

(* Mutant of a failed drain: draining stays set.                            *)
FailDrainForever(c) ==
    /\ phase[c] = "draining"
    /\ page[c] # <<>>
    /\ page' = [page EXCEPT ![c] = <<>>]
    /\ UNCHANGED <<sequence, orderLock, inserted, outbox, phase, cursor, delivered, since>>

(* The query fails.                                                         *)
FailDrain(c) ==
    /\ phase[c] = "draining"
    /\ phase' = [phase EXCEPT ![c] = "running"]
    /\ page' = [page EXCEPT ![c] = <<>>]
    /\ UNCHANGED <<sequence, orderLock, inserted, outbox, cursor, delivered, since>>

(* shutdown, or a crash.                                                    *)
StopConsumer(c) ==
    /\ phase[c] # "down"
    /\ phase' = [phase EXCEPT ![c] = "down"]
    /\ page' = [page EXCEPT ![c] = <<>>]
    /\ UNCHANGED <<sequence, orderLock, inserted, outbox, cursor, delivered, since>>

Next ==
    \/ \E t \in Producers : Publish(t) \/ Commit(t) \/ Rollback(t)
    \/ \E c \in Consumers :
          \/ StartConsumer(c) \/ Listen(c)
          \/ StartDrain(c) \/ Deliver(c) \/ FailDrain(c) \/ StopConsumer(c)

Spec == Init /\ [][Next]_vars

(* The poll timer starts a drain every second; queries do not fail for ever. *)
LiveSpec ==
    /\ Spec
    /\ \A c \in Consumers :
          WF_vars(Listen(c)) /\ WF_vars(StartDrain(c)) /\ SF_vars(Deliver(c))

-------------------------------------------------------------------------------
(* Properties                                                               *)

(* A consumer has passed on every event between its start and its cursor,   *)
(* once and in order: no event that commits after one with a higher id is   *)
(* skipped (publishInTransaction takes the order lock for it), neither by a *)
(* drain nor by the cursor a consumer starts with.                          *)
NothingSkipped ==
    \A c \in Consumers :
        /\ Ascending(delivered[c])
        /\ Range(delivered[c]) = {i \in outbox : since[c] < i /\ i <= cursor[c]}

(* An event that commits while a consumer is up reaches it, or the consumer *)
(* stops, also when every notification is lost.                             *)
EventsArrive ==
    \A c \in Consumers, i \in Ids :
        i \in outbox /\ i > cursor[c] /\ phase[c] # "down" ~>
            phase[c] = "down" \/ i \in Range(delivered[c])
===============================================================================
