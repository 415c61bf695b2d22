---------------------------- MODULE OutboxProofs ----------------------------
(***************************************************************************)
(* Proofs about the outbox, for any number of threads, events, crashes and *)
(* faults, whichever events are stamped before the write lock is held (on  *)
(* PostgreSQL all), with and without deduplication.                        *)
(***************************************************************************)
EXTENDS OutboxDispatch, FiniteSetTheorems, WellFoundedInduction, TLAPS

\* A non-empty set of numbers has a least one.
LEMMA HasLeast ==
  ASSUME NEW S, S \subseteq Nat, S # {}
  PROVE  \E x \in S : \A y \in S : x <= y
<1>1. PICK x \in S : \A y \in S : <<y, x>> \notin OpToRel(<, Nat)
  BY NatLessThanWellFounded, WFMin
<1>2. \A y \in S : ~(y < x)
  BY <1>1 DEF OpToRel
<1> QED BY <1>2

\* A nonempty set of rows has a first one.
LEMMA LowerRows ==
  ASSUME NEW S, S \subseteq Nat, NEW d \in Nat, NEW e \in Nat, d < e
  PROVE  {x \in S : x < d} \subseteq {x \in S : x < e}
<1>1. ASSUME NEW x \in S, x < d PROVE x < e
  BY <1>1
<1> QED BY <1>1

\* A thread with rows left has a first one.
LEMMA FirstInBatch ==
  ASSUME TypeOK, NEW t \in Threads, batch[t] # {}
  PROVE  First(t) \in batch[t] /\ First(t) \in AllEvents
<1>1. batch[t] \subseteq Nat /\ batch[t] \subseteq AllEvents
  BY DEF TypeOK, AllEvents
<1>2. \E e \in batch[t] : \A d \in batch[t] : e <= d
  BY <1>1, HasLeast
<1>3. First(t) \in batch[t]
  BY <1>2 DEF First
<1> QED BY <1>1, <1>3

\* What the downstream has seen, once one more event was appended.
LEMMA AppendPublished ==
  ASSUME published \in Seq(AllEvents), NEW e \in AllEvents, published' = Append(published, e)
  PROVE  /\ published' \in Seq(AllEvents)
         /\ Published' = Published \cup {e}
         /\ Len(published') = Len(published) + 1
         /\ \A i \in 1..Len(published) : published'[i] = published[i]
         /\ published'[Len(published) + 1] = e
BY DEF Published

----------------------------------------------------------------------------
\* Every variable starts in its type.
LEMMA InitTypeOK == Init => TypeOK
BY DEF Init, TypeOK, AllEvents

\* Every step keeps every variable in its type; the thread that publishes has a row
\* to publish.
LEMMA NextTypeOK == TypeOK /\ RowsInHand /\ [Next]_vars => TypeOK'
<1> SUFFICES ASSUME TypeOK, RowsInHand, [Next]_vars PROVE TypeOK'
  OBVIOUS
<1> USE DEF TypeOK
<1>1. ASSUME NEW t \in Threads, NEW e \in AllEvents, CommitEvent(t, e) PROVE TypeOK'
  BY <1>1 DEF CommitEvent, Goto
<1>2. ASSUME NEW t \in Threads, CommitNothing(t) PROVE TypeOK'
  BY <1>2 DEF CommitNothing, Goto
<1>3. ASSUME NEW t \in Threads, Fetch(t) PROVE TypeOK'
  BY <1>3 DEF Fetch, Goto
<1>4. ASSUME NEW t \in Threads, NextRow(t) PROVE TypeOK'
  BY <1>4 DEF NextRow, Goto
<1>5. ASSUME NEW t \in Threads, pc[t] \in {"publish", "remember", "mark"}
      PROVE  First(t) \in AllEvents
  BY <1>5, FirstInBatch DEF RowsInHand
<1>6. ASSUME NEW t \in Threads, Publish(t) PROVE TypeOK'
  BY <1>5, <1>6, AppendPublished DEF Publish, Goto
<1>7. ASSUME NEW t \in Threads, Remember(t) PROVE TypeOK'
  BY <1>5, <1>7 DEF Remember, Goto
<1>8. ASSUME NEW t \in Threads, MarkDelivered(t) PROVE TypeOK'
  BY <1>5, <1>8 DEF MarkDelivered, Goto
<1>9. ASSUME NEW t \in Threads, Fault(t) PROVE TypeOK'
  BY <1>9 DEF Fault, Goto
<1>10. ASSUME Crash PROVE TypeOK'
  BY <1>10 DEF Crash
<1>11. CASE UNCHANGED vars
  BY <1>11 DEF vars
<1> QED
  BY <1>1, <1>2, <1>3, <1>4, <1>6, <1>7, <1>8, <1>9, <1>10, <1>11 DEF Next, Dispatch

----------------------------------------------------------------------------
(***************************************************************************)
(* At least once, and never before the commit.                             *)
(***************************************************************************)
DeliveryInv == DeliveredWasPublished /\ PublishedIsCommitted /\ RowsInHand

\* No row is delivered and none in hand in the beginning.
LEMMA InitDelivery == Init => DeliveryInv
BY DEF Init, DeliveryInv, DeliveredWasPublished, PublishedIsCommitted, RowsInHand, Published

\* DeliveryInv is inductive, given the type invariant.
LEMMA NextDelivery == TypeOK /\ DeliveryInv /\ [Next]_vars => DeliveryInv'
<1> SUFFICES ASSUME TypeOK, DeliveryInv, [Next]_vars PROVE DeliveryInv'
  OBVIOUS
<1> USE DEF TypeOK, DeliveryInv, DeliveredWasPublished, PublishedIsCommitted, RowsInHand
<1>1. ASSUME NEW t \in Threads, NEW e \in AllEvents, CommitEvent(t, e) PROVE DeliveryInv'
  BY <1>1 DEF CommitEvent, Goto, Published, First
<1>2. ASSUME NEW t \in Threads, CommitNothing(t) PROVE DeliveryInv'
  BY <1>2 DEF CommitNothing, Goto, Published, First
<1>3. ASSUME NEW t \in Threads, Fetch(t) PROVE DeliveryInv'
  BY <1>3 DEF Fetch, Goto, Published, First
<1>4. ASSUME NEW t \in Threads, NextRow(t) PROVE DeliveryInv'
  BY <1>4 DEF NextRow, Goto, Published, First
<1>5. ASSUME NEW t \in Threads, pc[t] \in {"publish", "remember", "mark"}
      PROVE  First(t) \in batch[t] /\ First(t) \in AllEvents
  BY <1>5, FirstInBatch
<1>6. ASSUME NEW t \in Threads, Publish(t) PROVE DeliveryInv'
  <2>1. /\ First(t) \in batch[t]
        /\ Published' = Published \cup {First(t)}
    BY <1>5, <1>6, AppendPublished DEF Publish
  <2>2. UNCHANGED <<committed, delivered, seen, batch>>
    BY <1>6 DEF Publish
  <2>3. \A s \in Threads : First(s)' = First(s)
    BY <2>2 DEF First
  <2>4. \A s \in Threads \ {t} : pc'[s] = pc[s]
    BY <1>6 DEF Publish, Goto
  <2>5. pc[t] = "publish"
    BY <1>6 DEF Publish
  <2> QED BY <2>1, <2>2, <2>3, <2>4, <2>5
<1>7. ASSUME NEW t \in Threads, Remember(t) PROVE DeliveryInv'
  <2>1. /\ seen' = seen \cup {First(t)}
        /\ pc[t] = "remember" /\ pc' = [pc EXCEPT ![t] = "mark"]
        /\ UNCHANGED <<committed, delivered, published, batch>>
        /\ First(t) \in Published
    BY <1>7 DEF Remember, Goto
  <2>2. Published' = Published /\ \A s \in Threads : First(s)' = First(s)
    BY <2>1 DEF Published, First
  <2>3. \A s \in Threads \ {t} : pc'[s] = pc[s]
    BY <2>1
  <2> QED BY <2>1, <2>2, <2>3
<1>8. ASSUME NEW t \in Threads, MarkDelivered(t) PROVE DeliveryInv'
  <2>1. /\ delivered' = delivered \cup {First(t)}
        /\ batch' = [batch EXCEPT ![t] = @ \ {First(t)}]
        /\ pc' = [pc EXCEPT ![t] = "next"]
        /\ UNCHANGED <<committed, published, seen>>
        /\ First(t) \in Published
    BY <1>8 DEF MarkDelivered, Goto
  <2>2. Published' = Published
    BY <2>1 DEF Published
  <2>3. \A s \in Threads \ {t} : First(s)' = First(s) /\ batch'[s] = batch[s] /\ pc'[s] = pc[s]
    BY <2>1 DEF First
  <2>4. pc'[t] = "next" /\ batch'[t] \subseteq batch[t]
    BY <2>1
  <2> QED BY <2>1, <2>2, <2>3, <2>4
<1>9. ASSUME NEW t \in Threads, Fault(t) PROVE DeliveryInv'
  BY <1>9 DEF Fault, Goto, Published, First
<1>10. ASSUME Crash PROVE DeliveryInv'
  BY <1>10 DEF Crash, Published
<1>11. CASE UNCHANGED vars
  BY <1>11 DEF vars, Published, First
<1> QED
  BY <1>1, <1>2, <1>3, <1>4, <1>6, <1>7, <1>8, <1>9, <1>10, <1>11 DEF Next, Dispatch

\* The tables, the threads and the consumer only ever hold events, and the
\* facts about rows in hand hold in every state.
THEOREM DeliveryInvariant == Spec => [](TypeOK /\ DeliveryInv)
<1>1. Init => TypeOK /\ DeliveryInv
  BY InitTypeOK, InitDelivery
<1>2. TypeOK /\ DeliveryInv /\ [Next]_vars => (TypeOK /\ DeliveryInv)'
  BY NextTypeOK, NextDelivery DEF DeliveryInv
<1> QED BY <1>1, <1>2, PTL DEF Spec

\* The tables, the threads and the consumer only ever hold events of the outbox.
THEOREM TypeCorrect == Spec => []TypeOK
BY DeliveryInvariant, PTL

\* What a thread works on was committed, the row it publishes is still in its batch
\* and the row it marks was published, whatever other threads mark meanwhile.
THEOREM RowsInHandAreGood == Spec => []RowsInHand
<1>1. DeliveryInv => RowsInHand
  BY DEF DeliveryInv
<1> QED BY <1>1, DeliveryInvariant, PTL

\* At least once: whatever crashes, fails and runs concurrently, no event is
\* marked delivered that the downstream publisher did not get.
THEOREM AtLeastOnce == Spec => []DeliveredWasPublished
<1>1. DeliveryInv => DeliveredWasPublished
  BY DEF DeliveryInv
<1> QED BY <1>1, DeliveryInvariant, PTL

\* No event of a command that has not committed is ever published.
THEOREM NoUncommittedEvent == Spec => []PublishedIsCommitted
<1>1. DeliveryInv => PublishedIsCommitted
  BY DEF DeliveryInv
<1> QED BY <1>1, DeliveryInvariant, PTL

----------------------------------------------------------------------------
(***************************************************************************)
(* Order, on both backends, whatever order the transactions commit in.     *)
(***************************************************************************)
\* What was produced and committed before an event is in the table.
EarlierIsCommitted ==
  \A e \in AllEvents : earlier[e] \subseteq {d \in committed : d < e}

OrderInv == FirstSightInOrder /\ BatchesSkipNothing /\ EarlierIsCommitted

\* Nothing was seen in the beginning.
LEMMA InitOrder == Init => OrderInv
BY DEF Init, OrderInv, FirstSightInOrder, BatchesSkipNothing, EarlierIsCommitted

\* OrderInv is inductive: a fetch returns the first undelivered rows, and a row
\* leaves a batch only after it was published, or with all the others.
LEMMA NextOrder == TypeOK /\ DeliveryInv /\ OrderInv /\ [Next]_vars => OrderInv'
<1> SUFFICES ASSUME TypeOK, DeliveryInv, OrderInv, [Next]_vars PROVE OrderInv'
  OBVIOUS
<1> USE DEF OrderInv, TypeOK
\* What keeps the tables of events, and the batches but for rows dropped or
\* published, keeps the order.
<1>1. ASSUME UNCHANGED <<committed, published, earlier>>,
             \A t \in Threads : batch'[t] = batch[t] \/ batch'[t] = {}
      PROVE  OrderInv'
  BY <1>1 DEF FirstSightInOrder, BatchesSkipNothing, EarlierIsCommitted, Published
<1>2. ASSUME NEW t \in Threads, NEW e \in AllEvents, CommitEvent(t, e) PROVE OrderInv'
  <2>1. /\ committed' = committed \cup {e}
        /\ earlier' = [earlier EXCEPT ![e] = {d \in committed : d < e}]
        /\ e \notin committed
        /\ UNCHANGED <<published, batch>>
    BY <1>2 DEF CommitEvent
  <2>2. \A x \in committed : earlier'[x] = earlier[x]
    BY <2>1
  <2>3. \A i \in 1..Len(published) : published[i] \in committed
    BY DEF DeliveryInv, PublishedIsCommitted, Published
  <2>4. FirstSightInOrder'
    BY <2>1, <2>2, <2>3 DEF FirstSightInOrder
  <2>5. \A s \in Threads : batch[s] \subseteq committed
    BY DEF DeliveryInv, RowsInHand
  <2>6. BatchesSkipNothing'
    BY <2>1, <2>2, <2>5 DEF BatchesSkipNothing, Published
  <2>7. EarlierIsCommitted'
    BY <2>1 DEF EarlierIsCommitted
  <2> QED BY <2>4, <2>6, <2>7
<1>3. ASSUME NEW t \in Threads, CommitNothing(t) PROVE OrderInv'
  BY <1>1, <1>3 DEF CommitNothing
<1>4. ASSUME NEW t \in Threads, Fetch(t) PROVE OrderInv'
  <2> DEFINE undelivered == committed \ delivered
             rows == {e \in undelivered : Cardinality({d \in undelivered : d < e}) < Limit}
  <2>1. /\ batch' = [batch EXCEPT ![t] = rows]
        /\ UNCHANGED <<committed, delivered, published, earlier>>
    BY <1>4 DEF Fetch
  <2>2. ASSUME NEW e \in rows, NEW d \in committed, d < e, d \notin Published
        PROVE  d \in rows
    <3>1. d \in undelivered /\ undelivered \subseteq AllEvents /\ e \in undelivered
      BY <2>2 DEF DeliveryInv, DeliveredWasPublished
    <3>2. {x \in undelivered : x < d} \subseteq {x \in undelivered : x < e}
      <4>1. e \in Nat /\ d \in Nat /\ d < e /\ undelivered \subseteq Nat
        BY <2>2, <3>1 DEF AllEvents
      <4> QED BY <4>1, LowerRows
    <3>3. IsFiniteSet({x \in undelivered : x < e})
      <4>1. IsFiniteSet(AllEvents)
        BY OutboxAssumption, FS_Interval DEF AllEvents
      <4>2. {x \in undelivered : x < e} \subseteq AllEvents
        BY <3>1
      <4> QED BY <4>1, <4>2, FS_Subset
    <3>4. Cardinality({x \in undelivered : x < d}) <= Cardinality({x \in undelivered : x < e})
      BY <3>2, <3>3, FS_Subset
    <3>5. /\ Cardinality({x \in undelivered : x < d}) \in Nat
          /\ Cardinality({x \in undelivered : x < e}) \in Nat
          /\ Cardinality({x \in undelivered : x < e}) < Limit
      BY <2>2, <3>2, <3>3, FS_Subset, FS_CardinalityType
    <3> QED BY <3>1, <3>4, <3>5, OutboxAssumption
  <2>3. rows \subseteq AllEvents
    BY DEF rows
  <2> HIDE DEF rows
  <2>4. \A e \in rows : earlier[e] \subseteq rows \cup Published
    BY <2>2, <2>3 DEF EarlierIsCommitted
  <2>5. BatchesSkipNothing'
    BY <2>1, <2>4 DEF BatchesSkipNothing, Published
  <2> QED BY <2>1, <2>5 DEF FirstSightInOrder, EarlierIsCommitted
<1>5. ASSUME NEW t \in Threads, NextRow(t) PROVE OrderInv'
  BY <1>1, <1>5 DEF NextRow
<1>6. ASSUME NEW t \in Threads, Publish(t) PROVE OrderInv'
  <2> DEFINE e == First(t)
  <2>1. /\ e \in batch[t] /\ e \in AllEvents
        /\ \A d \in batch[t] : e <= d
    <3>1. batch[t] # {} /\ batch[t] \subseteq Nat
      BY <1>6 DEF Publish, DeliveryInv, RowsInHand, AllEvents
    <3>2. \E x \in batch[t] : \A d \in batch[t] : x <= d
      BY <3>1, HasLeast
    <3> QED BY <3>1, <3>2, FirstInBatch DEF First
  <2>2. /\ published' = Append(published, e)
        /\ UNCHANGED <<committed, batch, earlier>>
    BY <1>6 DEF Publish
  <2> HIDE DEF e
  <2>3. earlier[e] \subseteq Published
    <3>1. earlier[e] \subseteq batch[t] \cup Published
      BY <2>1 DEF BatchesSkipNothing
    <3>2. \A d \in earlier[e] : d \in AllEvents /\ d < e
      BY <2>1 DEF EarlierIsCommitted
    <3>3. \A d \in earlier[e] : d \notin batch[t]
      BY <2>1, <3>2 DEF AllEvents
    <3> QED BY <3>1, <3>3
  <2>4. FirstSightInOrder'
    <3> SUFFICES ASSUME NEW i \in 1..Len(published'), NEW d \in earlier[published'[i]]
                 PROVE  \E j \in 1..i : published'[j] = d
      BY <2>2 DEF FirstSightInOrder
    <3>1. CASE i \in 1..Len(published)
      <4>1. published'[i] = published[i]
        BY <2>1, <2>2, <3>1, AppendPublished
      <4>2. PICK j \in 1..i : published[j] = d
        BY <3>1, <4>1 DEF FirstSightInOrder
      <4>3. j \in 1..Len(published)
        BY <3>1, <4>2
      <4> QED BY <2>1, <2>2, <4>2, <4>3, AppendPublished
    <3>2. CASE i = Len(published) + 1
      <4>1. published'[i] = e
        BY <2>1, <2>2, <3>2, AppendPublished
      <4>2. PICK j \in 1..Len(published) : published[j] = d
        BY <2>3, <4>1 DEF Published
      <4>3. j \in 1..i /\ published'[j] = d
        BY <2>1, <2>2, <3>2, <4>2, AppendPublished
      <4> QED BY <4>3
    <3>3. Len(published') = Len(published) + 1 /\ Len(published) \in Nat
      BY <2>1, <2>2, AppendPublished
    <3> QED BY <3>1, <3>2, <3>3
  <2>5. BatchesSkipNothing'
    BY <2>1, <2>2, AppendPublished DEF BatchesSkipNothing
  <2>6. EarlierIsCommitted'
    BY <2>2 DEF EarlierIsCommitted
  <2> QED BY <2>4, <2>5, <2>6
<1>7. ASSUME NEW t \in Threads, Remember(t) PROVE OrderInv'
  BY <1>1, <1>7 DEF Remember
<1>8. ASSUME NEW t \in Threads, MarkDelivered(t) PROVE OrderInv'
  <2>1. /\ batch' = [batch EXCEPT ![t] = @ \ {First(t)}]
        /\ UNCHANGED <<committed, published, earlier>>
        /\ First(t) \in Published
    BY <1>8 DEF MarkDelivered, DeliveryInv, RowsInHand
  <2>2. BatchesSkipNothing'
    BY <2>1 DEF BatchesSkipNothing, Published
  <2> QED BY <2>1, <2>2 DEF FirstSightInOrder, EarlierIsCommitted
<1>9. ASSUME NEW t \in Threads, Fault(t) PROVE OrderInv'
  BY <1>1, <1>9 DEF Fault
<1>10. ASSUME Crash PROVE OrderInv'
  BY <1>1, <1>10 DEF Crash
<1>11. CASE UNCHANGED vars
  BY <1>1, <1>11 DEF vars
<1> QED
  BY <1>2, <1>3, <1>4, <1>5, <1>6, <1>7, <1>8, <1>9, <1>10, <1>11 DEF Next, Dispatch

\* OrderInv holds in every state.
LEMMA OrderInvariant == Spec => []OrderInv
<1>1. Init => OrderInv
  BY InitOrder
<1>2. TypeOK /\ DeliveryInv /\ OrderInv /\ [Next]_vars => OrderInv'
  BY NextOrder
<1> QED BY <1>1, <1>2, DeliveryInvariant, PTL DEF Spec

\* The downstream publisher sees an event for the first time after every event that
\* was produced and committed before it, however many threads dispatch at once and
\* whatever order the other transactions commit in.
THEOREM FirstSightOrder == Spec => []FirstSightInOrder
<1>1. OrderInv => FirstSightInOrder
  BY DEF OrderInv
<1> QED BY <1>1, OrderInvariant, PTL

\* What was produced and committed before a row in hand is in hand with it or
\* published: the limit of a fetch cuts the later rows off, never the earlier.
THEOREM NothingIsSkipped == Spec => []BatchesSkipNothing
<1>1. OrderInv => BatchesSkipNothing
  BY DEF OrderInv
<1> QED BY <1>1, OrderInvariant, PTL
=============================================================================
