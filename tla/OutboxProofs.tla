----------------------------- MODULE OutboxProofs -----------------------------
(***************************************************************************)
(* The outbox skips nothing, for any number of transactions, consumers and *)
(* events and any page size.  The argument: the order lock makes the ids   *)
(* of committed rows grow in the order of the commits (OrderInv), so that  *)
(* what commits after a page or a cursor was read lies behind it           *)
(* (PageInv), and a page has no gaps.                                      *)
(***************************************************************************)
EXTENDS Outbox, SequenceTheorems, TLAPS

(* Who has inserted holds the lock, and its id is the newest.               *)
OrderInv ==
    /\ \A j \in outbox : j <= sequence
    /\ \A t \in Producers : inserted[t] # None =>
          /\ orderLock = t
          /\ inserted[t] = sequence
          /\ sequence \notin outbox

CursorInv ==
    \A c \in Consumers : cursor[c] \in outbox \cup {0} /\ since[c] <= cursor[c]

(* The rows a drain has read follow its cursor without a gap.               *)
PageInv ==
    \A c \in Consumers :
        /\ phase[c] # "draining" => page[c] = <<>>
        /\ Ascending(page[c])
        /\ \A k \in DOMAIN page[c] : page[c][k] \in outbox /\ page[c][k] > cursor[c]
        /\ \A j \in outbox, k \in DOMAIN page[c] :
              cursor[c] < j /\ j <= page[c][k] => j \in Range(page[c])

IInv == TypeOK /\ OrderInv /\ CursorInv /\ PageInv /\ NothingSkipped

-------------------------------------------------------------------------------

LEMMA SeqMonotone ==
  ASSUME NEW S, NEW T, S \subseteq T, NEW s \in Seq(S)
  PROVE  s \in Seq(T)
  OBVIOUS

(* Sequences: the order and the range of a concatenation.                   *)
LEMMA Concatenation ==
  ASSUME NEW d \in Seq(Nat), NEW p \in Seq(Nat)
  PROVE  /\ DOMAIN (d \o p) = 1..(Len(d) + Len(p))
         /\ Len(d) \in Nat /\ Len(p) \in Nat
         /\ DOMAIN d = 1..Len(d) /\ DOMAIN p = 1..Len(p)
         /\ \A k \in 1..(Len(d) + Len(p)) : (d \o p)[k] = IF k <= Len(d) THEN d[k] ELSE p[k - Len(d)]
<1>1. /\ d \o p \in Seq(Nat) /\ Len(d \o p) = Len(d) + Len(p)
      /\ \A k \in 1..(Len(d) + Len(p)) : (d \o p)[k] = IF k <= Len(d) THEN d[k] ELSE p[k - Len(d)]
  BY ConcatProperties
<1> QED
  BY <1>1, LenProperties

LEMMA RangeConcat ==
  ASSUME NEW d \in Seq(Nat), NEW p \in Seq(Nat)
  PROVE  Range(d \o p) = Range(d) \cup Range(p)
<1>1. ASSUME NEW k \in DOMAIN (d \o p) PROVE (d \o p)[k] \in Range(d) \cup Range(p)
  <2>1. CASE k <= Len(d)
    BY <2>1, Concatenation DEF Range
  <2>2. CASE k > Len(d)
    <3>1. k - Len(d) \in DOMAIN p /\ (d \o p)[k] = p[k - Len(d)]
      BY <2>2, Concatenation
    <3> QED
      BY <3>1 DEF Range
  <2> QED
    BY <2>1, <2>2, Concatenation
<1>2. ASSUME NEW k \in DOMAIN d PROVE d[k] \in Range(d \o p)
  <2>1. k \in DOMAIN (d \o p) /\ (d \o p)[k] = d[k]
    BY Concatenation
  <2> QED
    BY <2>1 DEF Range
<1>3. ASSUME NEW k \in DOMAIN p PROVE p[k] \in Range(d \o p)
  <2>1. Len(d) + k \in DOMAIN (d \o p) /\ (d \o p)[Len(d) + k] = p[k]
    BY Concatenation
  <2> QED
    BY <2>1 DEF Range
<1> QED
  BY <1>1, <1>2, <1>3 DEF Range

LEMMA AscendingConcat ==
  ASSUME NEW d \in Seq(Nat), NEW p \in Seq(Nat), Ascending(d), Ascending(p),
         \A k \in DOMAIN d, l \in DOMAIN p : d[k] < p[l]
  PROVE  Ascending(d \o p)
<1> SUFFICES ASSUME NEW k \in DOMAIN (d \o p), NEW l \in DOMAIN (d \o p), k < l
             PROVE  (d \o p)[k] < (d \o p)[l]
  BY DEF Ascending
<1>1. CASE l <= Len(d)
  <2>1. k \in DOMAIN d /\ l \in DOMAIN d /\ (d \o p)[k] = d[k] /\ (d \o p)[l] = d[l]
    BY <1>1, Concatenation
  <2> QED
    BY <2>1 DEF Ascending
<1>2. CASE k <= Len(d) /\ l > Len(d)
  <2>1. k \in DOMAIN d /\ l - Len(d) \in DOMAIN p /\ (d \o p)[k] = d[k] /\ (d \o p)[l] = p[l - Len(d)]
    BY <1>2, Concatenation
  <2> QED
    BY <2>1
<1>3. CASE k > Len(d)
  <2>1. /\ k - Len(d) \in DOMAIN p /\ l - Len(d) \in DOMAIN p /\ k - Len(d) < l - Len(d)
        /\ (d \o p)[k] = p[k - Len(d)] /\ (d \o p)[l] = p[l - Len(d)]
    BY <1>3, Concatenation
  <2> QED
    BY <2>1 DEF Ascending
<1> QED
  BY <1>1, <1>2, <1>3, Concatenation

LEMMA InitInv == Init => IInv
  BY OutboxAssumption DEF Init, IInv, TypeOK, OrderInv, CursorInv, PageInv, NothingSkipped,
     Ascending, Range, Ids

(* A row that commits is behind every cursor, page and delivered event.     *)
LEMMA CommitInv == ASSUME IInv, NEW t \in Producers, Commit(t) PROVE IInv'
<1> USE DEF IInv, Commit, EndTransaction, consumerVars
<1>1. /\ inserted[t] = sequence /\ sequence \in Ids /\ sequence \notin outbox
      /\ \A j \in outbox : j < sequence
  BY OutboxAssumption DEF TypeOK, OrderInv, Ids
<1>2. TypeOK'
  BY <1>1, OutboxAssumption DEF TypeOK
<1>3. OrderInv'
  BY <1>1, OutboxAssumption DEF TypeOK, OrderInv, Ids
<1>4. \A c \in Consumers : cursor[c] \in 0..MaxEvents /\ cursor[c] < sequence
  BY <1>1, OutboxAssumption DEF CursorInv, TypeOK, Ids
<1>5. CursorInv'
  BY <1>1 DEF CursorInv
<1>6. \A c \in Consumers : \A k \in DOMAIN page[c] : page[c][k] < sequence
  BY <1>1 DEF PageInv
<1>7. PageInv'
  <2> SUFFICES ASSUME NEW c \in Consumers
               PROVE  /\ phase'[c] # "draining" => page'[c] = <<>>
                      /\ Ascending(page'[c])
                      /\ \A k \in DOMAIN page'[c] : page'[c][k] \in outbox' /\ page'[c][k] > cursor'[c]
                      /\ \A j \in outbox', k \in DOMAIN page'[c] :
                            cursor'[c] < j /\ j <= page'[c][k] => j \in Range(page'[c])
    BY DEF PageInv, Ascending, Range
  <2>1. /\ phase' = phase /\ page' = page /\ cursor' = cursor /\ outbox' = outbox \cup {sequence}
    BY <1>1
  <2>2. \A k \in DOMAIN page[c] : page[c][k] \in Ids /\ ~(sequence <= page[c][k])
    <3>1. outbox \subseteq Ids
      BY DEF TypeOK
    <3>2. \A k \in DOMAIN page[c] : page[c][k] \in Ids /\ page[c][k] < sequence
      BY <1>6, <3>1 DEF PageInv
    <3> QED
      BY <1>1, <3>2, OutboxAssumption DEF Ids
  <2> QED
    BY <2>1, <2>2 DEF PageInv
<1>8. NothingSkipped'
  <2> SUFFICES ASSUME NEW c \in Consumers
               PROVE  /\ Ascending(delivered'[c])
                      /\ Range(delivered'[c]) = {i \in outbox' : since'[c] < i /\ i <= cursor'[c]}
    BY DEF NothingSkipped, Ascending, Range
  <2>1. delivered' = delivered /\ since' = since /\ cursor' = cursor /\ outbox' = outbox \cup {sequence}
    BY <1>1
  <2>2. ~(sequence <= cursor[c])
    BY <1>1, <1>4 DEF Ids
  <2> QED
    BY <2>1, <2>2 DEF NothingSkipped
<1> QED
  BY <1>2, <1>3, <1>5, <1>7, <1>8

LEMMA PublishInv == ASSUME IInv, NEW t \in Producers, Publish(t) PROVE IInv'
<1> USE DEF IInv, Publish, MayPublish, consumerVars
<1>1. TypeOK'
  BY OutboxAssumption DEF TypeOK, Ids
<1>2. OrderInv'
  BY OutboxAssumption DEF TypeOK, OrderInv, Ids
<1>3. CursorInv' /\ PageInv' /\ NothingSkipped'
  BY DEF CursorInv, PageInv, NothingSkipped, Ascending, Range
<1> QED
  BY <1>1, <1>2, <1>3

LEMMA RollbackInv == ASSUME IInv, NEW t \in Producers, Rollback(t) PROVE IInv'
<1> USE DEF IInv, Rollback, EndTransaction, consumerVars
<1>1. TypeOK'
  BY OutboxAssumption DEF TypeOK
<1>2. OrderInv'
  BY OutboxAssumption DEF TypeOK, OrderInv
<1>3. CursorInv' /\ PageInv' /\ NothingSkipped'
  BY DEF CursorInv, PageInv, NothingSkipped, Ascending, Range
<1> QED
  BY <1>1, <1>2, <1>3

(* The cursor of a start is not before any row.                             *)
LEMMA StartConsumerInv == ASSUME IInv, NEW c \in Consumers, StartConsumer(c) PROVE IInv'
<1> USE DEF IInv
<1>1. PICK latest \in outbox \cup {0} :
          /\ IsLatest(latest)
          /\ cursor' = [cursor EXCEPT ![c] = latest]
          /\ since' = [since EXCEPT ![c] = latest]
  BY DEF StartConsumer
<1>2. /\ phase' = [phase EXCEPT ![c] = "starting"]
      /\ delivered' = [delivered EXCEPT ![c] = <<>>]
      /\ UNCHANGED <<sequence, orderLock, inserted, outbox, page>>
      /\ phase[c] = "down"
  BY DEF StartConsumer
<1>3. latest \in 0..MaxEvents
  BY OutboxAssumption DEF TypeOK, Ids
<1>4. TypeOK'
  BY <1>1, <1>2, <1>3 DEF TypeOK
<1>5. OrderInv'
  BY <1>2 DEF OrderInv
<1>6. CursorInv'
  BY <1>1, <1>2, <1>3 DEF CursorInv, TypeOK
<1>7. PageInv'
  <2>1. page' = page /\ outbox' = outbox /\ page[c] = <<>>
    BY <1>2 DEF PageInv
  <2>2. \A d \in Consumers \ {c} : cursor'[d] = cursor[d] /\ phase'[d] = phase[d]
    BY <1>1, <1>2 DEF TypeOK
  <2> QED
    BY <2>1, <2>2 DEF PageInv, Ascending, Range
<1>8. NothingSkipped'
  <2>1. /\ delivered'[c] = <<>> /\ cursor'[c] = latest /\ since'[c] = latest /\ outbox' = outbox
    BY <1>1, <1>2 DEF TypeOK
  <2>2. {i \in outbox' : since'[c] < i /\ i <= cursor'[c]} = {}
    <3>1. outbox \subseteq Nat /\ latest \in Nat
      BY <1>3, OutboxAssumption DEF TypeOK, Ids
    <3>2. \A i \in Nat : ~(latest < i /\ i <= latest)
      BY <3>1
    <3> QED
      BY <2>1, <3>1, <3>2
  <2>3. Ascending(delivered'[c]) /\ Range(delivered'[c]) = {}
    BY <2>1 DEF Ascending, Range
  <2>4. \A d \in Consumers \ {c} :
            delivered'[d] = delivered[d] /\ cursor'[d] = cursor[d] /\ since'[d] = since[d]
    BY <1>1, <1>2 DEF TypeOK
  <2> QED
    BY <2>1, <2>2, <2>3, <2>4 DEF NothingSkipped
<1> QED
  BY <1>4, <1>5, <1>6, <1>7, <1>8

(* The page that is read has no gap up to its last row.                     *)
LEMMA StartDrainInv == ASSUME IInv, NEW c \in Consumers, StartDrain(c) PROVE IInv'
<1> USE DEF IInv
<1>1. PICK rows \in PagesAfter(cursor[c]) : page' = [page EXCEPT ![c] = rows]
  BY DEF StartDrain
<1>2. /\ phase' = [phase EXCEPT ![c] = "draining"]
      /\ UNCHANGED <<sequence, orderLock, inserted, outbox, cursor, delivered, since>>
  BY DEF StartDrain
<1>3. PICK n \in 0..PageSize : rows \in [1..n -> {j \in outbox : j > cursor[c]}]
  BY DEF PagesAfter
<1>4. rows \in Seq(Ids)
  <2>1. n \in Nat /\ rows \in [1..n -> Ids]
    BY <1>3, OutboxAssumption DEF TypeOK
  <2> QED
    BY <2>1
<1>5. /\ Ascending(rows)
      /\ \A k \in DOMAIN rows : rows[k] \in outbox /\ rows[k] > cursor[c]
      /\ \A j \in outbox, k \in DOMAIN rows :
            cursor[c] < j /\ j <= rows[k] => j \in Range(rows)
  <2>1. Ascending(rows)
    BY DEF PagesAfter
  <2>2. \A k \in DOMAIN rows : rows[k] \in outbox /\ rows[k] > cursor[c]
    BY <1>3
  <2>3. ASSUME NEW j \in outbox, NEW k \in DOMAIN rows, cursor[c] < j, j <= rows[k]
        PROVE  j \in Range(rows)
    <3>1. CASE j = rows[k]
      BY <3>1 DEF Range
    <3>2. CASE j # rows[k]
      <4>1. outbox \subseteq Nat /\ cursor[c] \in Nat
        BY OutboxAssumption DEF TypeOK, Ids
      <4>2. j \in Nat /\ rows[k] \in Nat
        BY <2>2, <4>1
      <4>3. j < rows[k] /\ j > cursor[c]
        BY <2>3, <3>2, <4>1, <4>2
      <4> QED
        BY <4>3 DEF PagesAfter
    <3> QED
      BY <3>1, <3>2
  <2> QED
    BY <2>1, <2>2, <2>3
<1>6. TypeOK'
  BY <1>1, <1>2, <1>4 DEF TypeOK
<1>7. OrderInv' /\ CursorInv' /\ NothingSkipped'
  BY <1>2 DEF OrderInv, CursorInv, NothingSkipped, Ascending, Range
<1>8. PageInv'
  <2>1. page'[c] = rows /\ phase'[c] = "draining" /\ outbox' = outbox /\ cursor' = cursor
    BY <1>1, <1>2 DEF TypeOK
  <2>2. \A d \in Consumers \ {c} : page'[d] = page[d] /\ phase'[d] = phase[d]
    BY <1>1, <1>2 DEF TypeOK
  <2> QED
    BY <1>5, <2>1, <2>2 DEF PageInv
<1> QED
  BY <1>6, <1>7, <1>8

(* Delivering a page moves the cursor over exactly its rows.                *)
LEMMA DeliverInv == ASSUME IInv, NEW c \in Consumers, Deliver(c) PROVE IInv'
<1> USE DEF IInv
<1> DEFINE p == page[c]
           d == delivered[c]
<1>1. /\ p \in Seq(Ids) /\ d \in Seq(Ids) /\ outbox \subseteq Ids
      /\ cursor[c] \in 0..MaxEvents /\ since[c] \in 0..MaxEvents
  BY DEF TypeOK
<1>2. /\ phase' = [phase EXCEPT ![c] = "running"]
      /\ delivered' = [delivered EXCEPT ![c] = d \o p]
      /\ cursor' = [cursor EXCEPT ![c] = IF p = <<>> THEN cursor[c] ELSE Last(p)]
      /\ page' = [page EXCEPT ![c] = <<>>]
      /\ UNCHANGED <<sequence, orderLock, inserted, outbox, since>>
  BY DEF Deliver
<1>3. /\ phase'[c] = "running" /\ delivered'[c] = d \o p /\ page'[c] = <<>>
      /\ cursor'[c] = (IF p = <<>> THEN cursor[c] ELSE Last(p))
      /\ outbox' = outbox /\ since' = since
  BY <1>2 DEF TypeOK
<1>4. \A e \in Consumers \ {c} : /\ phase'[e] = phase[e] /\ delivered'[e] = delivered[e]
                                /\ cursor'[e] = cursor[e] /\ page'[e] = page[e]
  BY <1>2 DEF TypeOK
<1>5. p # <<>> => Last(p) \in outbox /\ Last(p) > cursor[c] /\ Len(p) \in DOMAIN p
  BY <1>1 DEF PageInv, Last
<1>6. cursor'[c] \in outbox \cup {0} /\ cursor[c] <= cursor'[c] /\ cursor'[c] \in 0..MaxEvents
  BY <1>1, <1>3, <1>5, OutboxAssumption DEF CursorInv, Ids
<1>7. TypeOK'
  BY <1>1, <1>2, <1>6 DEF TypeOK
<1>8. OrderInv'
  BY <1>2 DEF OrderInv
<1>9. CursorInv'
  BY <1>1, <1>3, <1>4, <1>6 DEF CursorInv
<1>10. PageInv'
  BY <1>3, <1>4 DEF PageInv, Ascending, Range
<1>11. \A k \in DOMAIN d : d[k] <= cursor[c] /\ d[k] \in outbox
  BY DEF NothingSkipped, Range
<1>12. d \in Seq(Nat) /\ p \in Seq(Nat) /\ outbox \subseteq Nat /\ cursor[c] \in Nat
       /\ since[c] \in Nat /\ cursor'[c] \in Nat
  <2>1. Ids \subseteq Nat /\ 0..MaxEvents \subseteq Nat
    BY OutboxAssumption DEF Ids
  <2> QED
    BY <1>1, <1>6, <2>1, SeqMonotone
<1>13. Ascending(d \o p) /\ Range(d \o p) = Range(d) \cup Range(p)
  <2>1. \A k \in DOMAIN d, l \in DOMAIN p : d[k] < p[l]
    <3> SUFFICES ASSUME NEW k \in DOMAIN d, NEW l \in DOMAIN p PROVE d[k] < p[l]
      OBVIOUS
    <3>1. /\ d[k] \in Nat /\ p[l] \in Nat /\ d[k] <= cursor[c] /\ p[l] > cursor[c]
      BY <1>11, <1>12 DEF PageInv
    <3> HIDE DEF d, p
    <3> QED
      BY <3>1, <1>12
  <2>2. Ascending(d) /\ Ascending(p)
    BY DEF NothingSkipped, PageInv
  <2> HIDE DEF d, p
  <2> QED
    BY <1>12, <2>1, <2>2, AscendingConcat, RangeConcat
<1>14. Range(p) = {i \in outbox : cursor[c] < i /\ i <= cursor'[c]}
  <2>1. CASE p = <<>>
    <3>1. Range(p) = {} /\ cursor'[c] = cursor[c]
      BY <1>3, <2>1 DEF Range
    <3>2. \A i \in Nat : ~(cursor[c] < i /\ i <= cursor[c])
      BY <1>12
    <3> QED
      BY <1>12, <3>1, <3>2
  <2>2. CASE p # <<>>
    <3>1. cursor'[c] = p[Len(p)] /\ Len(p) \in DOMAIN p
      BY <1>3, <1>5, <2>2 DEF Last
    <3>2. ASSUME NEW k \in DOMAIN p PROVE p[k] \in outbox /\ cursor[c] < p[k] /\ p[k] <= p[Len(p)]
      <4>1. p[k] \in outbox /\ p[k] > cursor[c] /\ p[k] \in Nat /\ p[Len(p)] \in Nat
        BY <1>12, <3>1 DEF PageInv
      <4>2. k \in Nat /\ Len(p) \in Nat /\ k <= Len(p)
        BY <1>12, LenProperties
      <4>3. CASE k = Len(p)
        BY <1>12, <4>1, <4>3
      <4>4. CASE k # Len(p)
        <5>1. p[k] < p[Len(p)]
          BY <3>1, <4>2, <4>4 DEF PageInv, Ascending
        <5> QED
          BY <1>12, <4>1, <5>1
      <4> QED
        BY <4>3, <4>4
    <3>3. Range(p) \subseteq {i \in outbox : cursor[c] < i /\ i <= p[Len(p)]}
      BY <3>2 DEF Range
    <3>4. \A i \in outbox : cursor[c] < i /\ i <= p[Len(p)] => i \in Range(p)
      BY <3>1 DEF PageInv
    <3> QED
      BY <3>1, <3>3, <3>4
  <2> QED
    BY <2>1, <2>2
<1>15. Range(d) = {i \in outbox : since[c] < i /\ i <= cursor[c]} /\ since[c] <= cursor[c]
  BY DEF NothingSkipped, CursorInv
<1>16. Range(d \o p) = {i \in outbox : since[c] < i /\ i <= cursor'[c]}
  <2>1. \A i \in outbox : since[c] < i /\ i <= cursor'[c] <=>
                           \/ since[c] < i /\ i <= cursor[c]
                           \/ cursor[c] < i /\ i <= cursor'[c]
    BY <1>6, <1>12, <1>15
  <2> HIDE DEF d, p
  <2> QED
    BY <1>13, <1>14, <1>15, <2>1
<1>17. NothingSkipped'
  <2> HIDE DEF d, p
  <2>1. Ascending(delivered'[c])
        /\ Range(delivered'[c]) = {i \in outbox' : since'[c] < i /\ i <= cursor'[c]}
    BY <1>3, <1>13, <1>16
  <2> QED
    BY <1>3, <1>4, <2>1 DEF NothingSkipped
<1> QED
  BY <1>7, <1>8, <1>9, <1>10, <1>17

(* The steps that leave rows, cursors and deliveries alone.                 *)
LEMMA OtherInv ==
  ASSUME IInv, NEW c \in Consumers, Listen(c) \/ FailDrain(c) \/ StopConsumer(c)
  PROVE  IInv'
<1> USE DEF IInv
<1>1. /\ UNCHANGED <<sequence, orderLock, inserted, outbox, cursor, delivered, since>>
      /\ \E to \in {"down", "running"} : phase' = [phase EXCEPT ![c] = to]
      /\ page' = page \/ page' = [page EXCEPT ![c] = <<>>]
      /\ page'[c] = <<>>
  BY DEF Listen, FailDrain, StopConsumer, PageInv, TypeOK
<1>2. TypeOK'
  <2>1. page' \in [Consumers -> Seq(Ids)]
    <3>1. page \in [Consumers -> Seq(Ids)] /\ <<>> \in Seq(Ids)
      BY EmptySeq DEF TypeOK
    <3>2. CASE page' = page
      BY <3>1, <3>2
    <3>3. CASE page' = [page EXCEPT ![c] = <<>>]
      BY <3>1, <3>3
    <3> QED
      BY <1>1, <3>2, <3>3
  <2>2. phase' \in [Consumers -> {"down", "starting", "running", "draining"}]
    <3>1. PICK to \in {"down", "running"} : phase' = [phase EXCEPT ![c] = to]
      BY <1>1
    <3> QED
      BY <3>1 DEF TypeOK
  <2> QED
    BY <1>1, <2>1, <2>2 DEF TypeOK
<1>3. OrderInv' /\ CursorInv' /\ NothingSkipped'
  BY <1>1 DEF OrderInv, CursorInv, NothingSkipped, Ascending, Range
<1>4. PageInv'
  <2>1. \A d \in Consumers \ {c} : page'[d] = page[d] /\ phase'[d] = phase[d]
    BY <1>1 DEF TypeOK
  <2> QED
    BY <1>1, <2>1 DEF PageInv, Ascending, Range
<1> QED
  BY <1>2, <1>3, <1>4

LEMMA NextInv == IInv /\ [Next]_vars => IInv'
<1> SUFFICES ASSUME IInv, [Next]_vars PROVE IInv'
  OBVIOUS
<1>1. CASE Next
  BY <1>1, PublishInv, CommitInv, RollbackInv, StartConsumerInv, StartDrainInv, DeliverInv, OtherInv
     DEF Next
<1>2. CASE UNCHANGED vars
  BY <1>2 DEF vars, consumerVars, IInv, TypeOK, OrderInv, CursorInv, PageInv, NothingSkipped,
     Ascending, Range
<1> QED
  BY <1>1, <1>2

-------------------------------------------------------------------------------

(* The invariant that the order lock and the pages maintain together.       *)
THEOREM Invariance == Spec => []IInv
  BY InitInv, NextInv, PTL DEF Spec

(* The outbox, its transactions and its consumers keep their types.         *)
THEOREM TypeCorrect == Spec => []TypeOK
<1>1. IInv => TypeOK
  BY DEF IInv
<1> QED
  BY <1>1, Invariance, PTL

(* A consumer has passed on exactly the events between its start and its    *)
(* cursor, each once and in the order of the ids (drainEvents follows the   *)
(* ids; publishInTransaction orders the commits).                           *)
THEOREM SkipsNothing == Spec => []NothingSkipped
<1>1. IInv => NothingSkipped
  BY DEF IInv
<1> QED
  BY <1>1, Invariance, PTL
=============================================================================
