--------------------------- MODULE ContentProofs ---------------------------
(***************************************************************************)
(* Proofs about the content queue, for every set of stories, any number of *)
(* requests, revisions and restarts.                                       *)
(***************************************************************************)
EXTENDS ContentLifecycle, TLAPS

----------------------------------------------------------------------------
(***************************************************************************)
(* Types.                                                                  *)
(***************************************************************************)
\* A rendering that fits the bound gives an item.
LEMMA RenderedType ==
  ASSUME TypeOK, NEW s \in Stories, NEW status \in Outcomes, made < MaxRevisions
  PROVE  /\ made + 1 \in Revisions
         /\ Rendered(s, status) \in Items
<1>1. made + 1 \in Revisions
  BY ContentAssumption DEF TypeOK, Revisions
<1>2. status \in Statuses
  BY DEF Outcomes, Statuses
<1> QED BY <1>1, <1>2 DEF Rendered, Items

\* Changing the status or the revision of an item gives an item.
LEMMA ChangedType ==
  ASSUME NEW q \in Items, NEW status \in Statuses, NEW rev \in Revisions
  PROVE  /\ [q EXCEPT !.status = status] \in Items
         /\ [q EXCEPT !.rev = rev] \in Items
         /\ [q EXCEPT !.id = rev] \in Items
BY DEF Items

\* Every variable starts in its type.
LEMMA InitTypeOK == Init => TypeOK
BY ContentAssumption DEF Init, TypeOK, Items, NoItem, Revisions

\* A request that goes on with an item, or finishes, keeps its variables in
\* their types.
LEMMA ContinueType ==
  ASSUME TypeOK, NEW r \in Requests, NEW i \in Items \cup {NoItem},
         NEW step \in {"idle", "check", "insert", "deliver", "update"},
         Continue(r, step, i), step # "idle" => i \in Items
  PROVE  /\ pc' \in [Requests -> {"idle", "check", "insert", "deliver", "update"}]
         /\ item' \in [Requests -> Items \cup {NoItem}]
         /\ \A t \in Requests : pc'[t] # "idle" => item'[t] \in Items
BY DEF TypeOK, Continue

\* Every step keeps every variable in its type.
LEMMA NextTypeOK == TypeOK /\ [Next]_vars => TypeOK'
<1> SUFFICES ASSUME TypeOK, [Next]_vars PROVE TypeOK'
  OBVIOUS
<1>1. ASSUME NEW r \in Requests, NEW s \in Stories, NEW status \in Outcomes,
             Generate(r, s, status)
      PROVE  TypeOK'
  <2>1. /\ made + 1 \in Revisions
        /\ Rendered(s, status) \in Items
    BY <1>1, RenderedType DEF Generate, NewRevision
  <2>2. Continue(r, "check", Rendered(s, status))
    BY <1>1 DEF Generate
  <2>3. /\ pc' \in [Requests -> {"idle", "check", "insert", "deliver", "update"}]
        /\ item' \in [Requests -> Items \cup {NoItem}]
        /\ \A t \in Requests : pc'[t] # "idle" => item'[t] \in Items
    BY <2>1, <2>2, ContinueType
  <2>4. made' \in 0..MaxRevisions /\ approved' \subseteq Revisions
    BY <1>1, <2>1, ContentAssumption DEF Generate, NewRevision, TypeOK, Revisions
  <2> QED BY <1>1, <2>3, <2>4 DEF Generate, TypeOK
<1>2. ASSUME NEW r \in Requests, NEW s \in Stories, NEW status \in Outcomes,
             Regenerate(r, s, status)
      PROVE  TypeOK'
  <2>1. /\ made + 1 \in Revisions
        /\ Rendered(s, status) \in Items
    BY <1>2, RenderedType DEF Regenerate, NewRevision
  <2>2. PICK i \in Items, step \in {"check", "update"} : Continue(r, step, i)
    <3>1. CASE Queued(s)
      <4>1. PICK q \in queue : Continue(r, "update", [Rendered(s, status) EXCEPT !.id = q.id])
        BY <1>2, <3>1 DEF Regenerate
      <4>2. q.id \in Revisions
        BY DEF TypeOK, Items
      <4>3. [Rendered(s, status) EXCEPT !.id = q.id] \in Items
        BY <2>1, <4>2 DEF Items
      <4> QED BY <4>1, <4>3
    <3>2. CASE ~Queued(s)
      BY <1>2, <2>1, <3>2 DEF Regenerate
    <3> QED BY <3>1, <3>2
  <2>3. /\ pc' \in [Requests -> {"idle", "check", "insert", "deliver", "update"}]
        /\ item' \in [Requests -> Items \cup {NoItem}]
        /\ \A t \in Requests : pc'[t] # "idle" => item'[t] \in Items
    BY <2>2, ContinueType
  <2>4. made' \in 0..MaxRevisions /\ approved' \subseteq Revisions
    BY <1>2, <2>1, ContentAssumption DEF Regenerate, NewRevision, TypeOK, Revisions
  <2> QED BY <1>2, <2>3, <2>4 DEF Regenerate, TypeOK
<1>3. ASSUME NEW r \in Requests, NEW s \in Stories, NEW status \in Outcomes,
             Preview(r, s, status)
      PROVE  TypeOK'
  <2>1. /\ made + 1 \in Revisions
        /\ Rendered(s, status) \in Items
    BY <1>3, RenderedType DEF Preview, NewRevision
  <2>2. made' \in 0..MaxRevisions /\ approved' \subseteq Revisions
    BY <1>3, <2>1, ContentAssumption DEF Preview, NewRevision, TypeOK, Revisions
  <2> QED BY <1>3, <2>1, <2>2 DEF Preview, TypeOK
<1>4. ASSUME NEW r \in Requests, NEW q \in queue, Edit(r, q) PROVE TypeOK'
  <2>1. made + 1 \in Revisions
    BY <1>4, ContentAssumption DEF Edit, NewRevision, TypeOK, Revisions
  <2>2. [q EXCEPT !.rev = made + 1] \in Items
    BY <2>1 DEF TypeOK, Items
  <2>3. /\ pc' \in [Requests -> {"idle", "check", "insert", "deliver", "update"}]
        /\ item' \in [Requests -> Items \cup {NoItem}]
        /\ \A t \in Requests : pc'[t] # "idle" => item'[t] \in Items
    BY <1>4, <2>2, ContinueType DEF Edit
  <2>4. made' \in 0..MaxRevisions /\ approved' \subseteq Revisions
    BY <1>4, <2>1, ContentAssumption DEF Edit, NewRevision, TypeOK, Revisions
  <2> QED BY <1>4, <2>3, <2>4 DEF Edit, TypeOK
\* A move changes the status of a copy, and at most approved or marked.
<1>5. ASSUME NEW r \in Requests, NEW q \in queue, NEW from, NEW to \in Statuses,
             NEW step \in {"update", "deliver"}, Move(r, q, from, to, step),
             approved' \subseteq approved \cup {q.rev}, marked' \subseteq marked \cup {q.rev},
             UNCHANGED <<queue, previews, made, sent, deleted, crashes>>
      PROVE  TypeOK'
  <2>1. q.rev \in Revisions /\ [q EXCEPT !.status = to] \in Items
    BY DEF TypeOK, Items
  <2>2. /\ pc' \in [Requests -> {"idle", "check", "insert", "deliver", "update"}]
        /\ item' \in [Requests -> Items \cup {NoItem}]
        /\ \A t \in Requests : pc'[t] # "idle" => item'[t] \in Items
    BY <1>5, <2>1, ContinueType DEF Move
  <2> QED BY <1>5, <2>1, <2>2 DEF TypeOK
<1>6. ASSUME NEW r \in Requests, NEW q \in queue,
             \/ Approve(r, q) \/ Reject(r, q) \/ Schedule(r, q)
             \/ MarkPublishedManually(r, q) \/ Publish(r, q)
      PROVE  TypeOK'
  <2>1. {"approved", "rejected", "scheduled", "published"} \subseteq Statuses
    BY DEF Statuses
  <2> QED BY <1>5, <1>6, <2>1
          DEF Approve, Reject, Schedule, MarkPublishedManually, Publish
<1>7. ASSUME NEW r \in Requests, NEW p \in previews, CommitPreview(r, p) PROVE TypeOK'
  <2>1. p \in Items /\ Continue(r, "check", p)
    BY <1>7 DEF CommitPreview, TypeOK
  <2>2. /\ pc' \in [Requests -> {"idle", "check", "insert", "deliver", "update"}]
        /\ item' \in [Requests -> Items \cup {NoItem}]
        /\ \A t \in Requests : pc'[t] # "idle" => item'[t] \in Items
    BY <2>1, ContinueType
  <2> QED BY <1>7, <2>2 DEF CommitPreview, TypeOK
<1>8. ASSUME NEW r \in Requests, Step(r) PROVE TypeOK'
  <2>1. pc[r] # "idle"
    BY <1>8 DEF Step, AddCheck, AddInsert, Deliver, Update
  <2>2. item[r] \in Items
    BY <2>1 DEF TypeOK
  <2>3. PICK i \in Items \cup {NoItem}, step \in {"idle", "insert", "update"} :
          Continue(r, step, i) /\ (step # "idle" => i \in Items)
    BY <1>8, <2>2 DEF Step, AddCheck, AddInsert, Deliver, Update, Finish
  <2>4. /\ pc' \in [Requests -> {"idle", "check", "insert", "deliver", "update"}]
        /\ item' \in [Requests -> Items \cup {NoItem}]
        /\ \A t \in Requests : pc'[t] # "idle" => item'[t] \in Items
    BY <2>3, ContinueType
  <2>5. queue' \subseteq Items
    BY <1>8, <2>2 DEF Step, AddCheck, AddInsert, Deliver, Update, TypeOK
  <2>6. sent' \in Seq(Items)
    BY <1>8, <2>2 DEF Step, AddCheck, AddInsert, Deliver, Update, TypeOK
  <2>7. UNCHANGED <<previews, made, approved, marked, deleted, crashes>>
    BY <1>8 DEF Step, AddCheck, AddInsert, Deliver, Update
  <2> QED BY <2>4, <2>5, <2>6, <2>7 DEF TypeOK
<1>9. ASSUME NEW p \in previews, ExpirePreview(p) PROVE TypeOK'
  BY <1>9 DEF ExpirePreview, TypeOK
<1>10. ASSUME NEW id \in Revisions, Delete(id) PROVE TypeOK'
  BY <1>10 DEF Delete, TypeOK
<1>11. CASE Purge
  <2>1. {q.id : q \in queue \ queue'} \subseteq Revisions
    BY DEF TypeOK, Items
  <2> QED BY <1>11, <2>1 DEF Purge, TypeOK
<1>12. CASE Crash
  BY <1>12 DEF Crash, TypeOK, Items, NoItem
<1>13. CASE UNCHANGED vars
  BY <1>13 DEF vars, TypeOK
<1> QED
  BY <1>1, <1>2, <1>3, <1>4, <1>6, <1>7, <1>8, <1>9, <1>10, <1>11, <1>12, <1>13
  DEF Next, Create, Act

\* Every variable keeps its type in every behaviour.
THEOREM TypeCorrect == Spec => []TypeOK
<1>1. Init => TypeOK
  BY InitTypeOK
<1>2. TypeOK /\ [Next]_vars => TypeOK'
  BY NextTypeOK
<1> QED BY <1>1, <1>2, PTL DEF Spec

----------------------------------------------------------------------------
(***************************************************************************)
(* Only what was let pass goes out.                                        *)
(***************************************************************************)
\* An item that shows as approved, scheduled or published was let pass.
LetPass(i, passed) == i.status \in Outgoing => i.rev \in passed

\* OnlyApprovedGoesOut of the copies as well: a request may write its copy long
\* after it read the row, and over another revision.
ApprovalInv ==
  /\ OnlyApprovedGoesOut
  /\ \A p \in previews : LetPass(p, approved)
  /\ \A r \in Requests : pc[r] # "idle" => LetPass(item[r], approved)
  /\ \A r \in Requests : pc[r] = "deliver" => item[r].status = "published"

\* Nothing goes out in the beginning.
LEMMA InitApproval == Init => ApprovalInv
BY DEF Init, ApprovalInv, OnlyApprovedGoesOut

\* A request that goes on with a copy that was let pass, while everything else
\* that may show as approved stays, keeps ApprovalInv.
LEMMA ContinueApproval ==
  ASSUME TypeOK, ApprovalInv, NEW r \in Requests, NEW i, NEW step,
         Continue(r, step, i), step # "idle" => LetPass(i, approved'), step # "deliver",
         UNCHANGED <<queue, sent>>, previews' \subseteq previews,
         approved \subseteq approved'
  PROVE  ApprovalInv'
<1>1. \A q \in queue \cup previews : LetPass(q, approved) => LetPass(q, approved')
  BY DEF LetPass
<1>2. \A t \in Requests \ {r} : pc'[t] = pc[t] /\ item'[t] = item[t]
  BY DEF Continue, TypeOK
<1>3. pc'[r] = step /\ item'[r] = i
  BY DEF Continue, TypeOK
<1>4. OnlyApprovedGoesOut'
  BY DEF ApprovalInv, OnlyApprovedGoesOut
<1>5. \A p \in previews' : LetPass(p, approved')
  BY DEF ApprovalInv, LetPass
<1>6. \A t \in Requests : pc'[t] # "idle" => LetPass(item[t], approved') \/ t = r
  BY <1>2 DEF ApprovalInv, LetPass
<1>7. \A t \in Requests : (pc[t] # "idle" => LetPass(item[t], approved))'
  BY <1>2, <1>3, <1>6 DEF LetPass, ApprovalInv
<1>8. \A t \in Requests : (pc[t] = "deliver" => item[t].status = "published")'
  BY <1>2, <1>3 DEF ApprovalInv
<1> QED BY <1>4, <1>5, <1>7, <1>8 DEF ApprovalInv

\* ApprovalInv is inductive, given the type invariant.
LEMMA NextApproval == TypeOK /\ ApprovalInv /\ [Next]_vars => ApprovalInv'
<1> SUFFICES ASSUME TypeOK, ApprovalInv, [Next]_vars PROVE ApprovalInv'
  OBVIOUS
<1>1. ASSUME NEW r \in Requests, NEW s \in Stories, NEW status \in Outcomes,
             Generate(r, s, status)
      PROVE  ApprovalInv'
  <2>1. LetPass(Rendered(s, status), approved')
    BY <1>1 DEF Generate, NewRevision, Rendered, LetPass, Outgoing, Outcomes
  <2> QED BY <1>1, <2>1, ContinueApproval DEF Generate, NewRevision
<1>2. ASSUME NEW r \in Requests, NEW s \in Stories, NEW status \in Outcomes,
             Regenerate(r, s, status)
      PROVE  ApprovalInv'
  <2>1. PICK i \in Items, step \in {"check", "update"} :
          /\ Continue(r, step, i)
          /\ i.status = status /\ i.rev = made + 1
    <3> DEFINE new == Rendered(s, status)
    <3>1. new \in Items /\ new.status = status /\ new.rev = made + 1
      BY <1>2, RenderedType DEF Regenerate, NewRevision, Rendered
    <3>2. CASE ~Queued(s)
      <4>1. Continue(r, "check", new)
        BY <1>2, <3>2 DEF Regenerate
      <4> HIDE DEF new
      <4> QED BY <3>1, <4>1
    <3>3. CASE Queued(s)
      <4>1. PICK q \in queue : Continue(r, "update", [new EXCEPT !.id = q.id])
        BY <1>2, <3>3 DEF Regenerate
      <4> HIDE DEF new
      <4> DEFINE i == [new EXCEPT !.id = q.id]
      <4>2. i \in Items /\ i.status = status /\ i.rev = made + 1
        BY <3>1 DEF TypeOK, Items
      <4>3. Continue(r, "update", i)
        BY <4>1
      <4> HIDE DEF i
      <4> QED BY <4>2, <4>3
    <3> QED BY <3>2, <3>3
  <2>2. LetPass(i, approved')
    BY <1>2, <2>1 DEF Regenerate, NewRevision, LetPass, Outgoing, Outcomes
  <2> QED BY <1>2, <2>1, <2>2, ContinueApproval DEF Regenerate, NewRevision
<1>3. ASSUME NEW r \in Requests, NEW s \in Stories, NEW status \in Outcomes,
             Preview(r, s, status)
      PROVE  ApprovalInv'
  <2>1. LetPass(Rendered(s, status), approved')
    BY <1>3 DEF Preview, NewRevision, Rendered, LetPass, Outgoing, Outcomes
  <2>2. approved \subseteq approved'
    BY <1>3 DEF Preview, NewRevision
  <2> QED BY <1>3, <2>1, <2>2 DEF Preview, ApprovalInv, OnlyApprovedGoesOut, LetPass
<1>4. ASSUME NEW r \in Requests, NEW q \in queue, Edit(r, q) PROVE ApprovalInv'
  <2> DEFINE i == [q EXCEPT !.rev = made + 1]
  <2>1. i.status = q.status /\ i.rev = made + 1
    BY DEF TypeOK, Items
  <2>2. LetPass(i, approved')
    BY <1>4, <2>1 DEF Edit, NewRevision, LetPass, Outgoing
  <2> QED BY <1>4, <2>2, ContinueApproval DEF Edit, NewRevision
\* Moves to update: the revision of the copy is the row's.
<1>5. ASSUME NEW r \in Requests, NEW q \in queue, NEW from, NEW to,
             Move(r, q, from, to, "update"), UNCHANGED <<queue, previews, sent>>,
             approved \subseteq approved', to \in Outgoing => q.rev \in approved'
      PROVE  ApprovalInv'
  <2> DEFINE i == [q EXCEPT !.status = to]
  <2>1. i.status = to /\ i.rev = q.rev
    BY DEF TypeOK, Items
  <2>2. LetPass(i, approved')
    BY <1>5, <2>1 DEF LetPass
  <2> QED BY <1>5, <2>2, ContinueApproval DEF Move
<1>6. ASSUME NEW r \in Requests, NEW q \in queue,
             \/ Approve(r, q) \/ Reject(r, q) \/ Schedule(r, q)
             \/ MarkPublishedManually(r, q)
      PROVE  ApprovalInv'
  <2>1. q.status \in Outgoing => q.rev \in approved
    BY DEF ApprovalInv, OnlyApprovedGoesOut
  <2>2. "rejected" \notin Outgoing /\ "approved" \in Outgoing
    BY DEF Outgoing
  <2>3. CASE Approve(r, q)
    BY <1>5, <2>3 DEF Approve
  <2>4. CASE Reject(r, q)
    BY <1>5, <2>2, <2>4 DEF Reject
  <2>5. CASE Schedule(r, q)
    BY <1>5, <2>1, <2>2, <2>5 DEF Schedule, Move
  <2>6. CASE MarkPublishedManually(r, q)
    BY <1>5, <2>1, <2>2, <2>6 DEF MarkPublishedManually, Move
  <2> QED BY <1>6, <2>3, <2>4, <2>5, <2>6
<1>7. ASSUME NEW r \in Requests, NEW q \in queue, Publish(r, q) PROVE ApprovalInv'
  <2> DEFINE i == [q EXCEPT !.status = "published"]
  <2>1. i.status = "published" /\ i.rev = q.rev /\ q.status = "scheduled"
    BY <1>7 DEF TypeOK, Items, Publish, Move
  <2>2. q.rev \in approved
    BY <2>1 DEF ApprovalInv, OnlyApprovedGoesOut, Outgoing
  <2>3. pc' = [pc EXCEPT ![r] = "deliver"] /\ item' = [item EXCEPT ![r] = i]
    BY <1>7 DEF Publish, Move, Continue
  <2> HIDE DEF i
  <2> QED BY <1>7, <2>1, <2>2, <2>3
          DEF Publish, ApprovalInv, OnlyApprovedGoesOut, LetPass, TypeOK
<1>8. ASSUME NEW r \in Requests, NEW p \in previews, CommitPreview(r, p) PROVE ApprovalInv'
  <2>1. LetPass(p, approved')
    BY <1>8 DEF CommitPreview, ApprovalInv, LetPass
  <2> QED BY <1>8, <2>1, ContinueApproval DEF CommitPreview
<1>9. ASSUME NEW r \in Requests, AddCheck(r) PROVE ApprovalInv'
  <2>1. LetPass(item[r], approved)
    BY <1>9 DEF AddCheck, ApprovalInv
  <2>2. CASE Queued(item[r].story)
    BY <1>9, <2>2, ContinueApproval DEF AddCheck, Finish
  <2>3. CASE ~Queued(item[r].story)
    <3>1. LetPass(item[r], approved')
      BY <1>9, <2>1 DEF AddCheck
    <3> QED BY <1>9, <2>3, <3>1, ContinueApproval DEF AddCheck
  <2> QED BY <2>2, <2>3
\* Writing a row: the copy was let pass, and its request finishes.
<1>10. ASSUME NEW r \in Requests, AddInsert(r) \/ Update(r) PROVE ApprovalInv'
  <2>1. LetPass(item[r], approved)
    BY <1>10 DEF AddInsert, Update, ApprovalInv
  <2>2. \A q \in queue' : q \in queue \/ q = item[r]
    BY <1>10 DEF AddInsert, Update
  <2>3. UNCHANGED <<previews, sent, approved>>
    BY <1>10 DEF AddInsert, Update
  <2>4. pc' = [pc EXCEPT ![r] = "idle"] /\ item' = [item EXCEPT ![r] = NoItem]
    BY <1>10 DEF AddInsert, Update, Finish, Continue
  <2> QED BY <2>1, <2>2, <2>3, <2>4
          DEF ApprovalInv, OnlyApprovedGoesOut, LetPass, TypeOK
<1>11. ASSUME NEW r \in Requests, Deliver(r) PROVE ApprovalInv'
  <2>1. item[r].rev \in approved /\ item[r] \in Items
    BY <1>11 DEF Deliver, ApprovalInv, LetPass, Outgoing, TypeOK
  <2>2. \A j \in 1..Len(sent') : sent'[j].rev \in approved
    BY <1>11, <2>1 DEF Deliver, ApprovalInv, OnlyApprovedGoesOut, TypeOK
  <2>3. pc' = [pc EXCEPT ![r] = "update"] /\ item' = [item EXCEPT ![r] = item[r]]
    BY <1>11 DEF Deliver, Continue
  <2> QED BY <1>11, <2>1, <2>2, <2>3
          DEF Deliver, ApprovalInv, OnlyApprovedGoesOut, LetPass, TypeOK
<1>12. ASSUME NEW p \in previews, ExpirePreview(p) PROVE ApprovalInv'
  BY <1>12 DEF ExpirePreview, ApprovalInv, OnlyApprovedGoesOut, LetPass
<1>13. ASSUME NEW id \in Revisions, Delete(id) PROVE ApprovalInv'
  BY <1>13 DEF Delete, ApprovalInv, OnlyApprovedGoesOut, LetPass
<1>14. CASE Purge
  BY <1>14 DEF Purge, ApprovalInv, OnlyApprovedGoesOut, LetPass
<1>15. CASE Crash
  BY <1>15 DEF Crash, ApprovalInv, OnlyApprovedGoesOut, LetPass
<1>16. CASE UNCHANGED vars
  BY <1>16 DEF vars, ApprovalInv, OnlyApprovedGoesOut, LetPass
<1> QED
  BY <1>1, <1>2, <1>3, <1>4, <1>6, <1>7, <1>8, <1>9, <1>10, <1>11, <1>12, <1>13,
     <1>14, <1>15, <1>16
  DEF Next, Create, Act, Step

\* What reaches the publisher, and what rows show as approved, was let pass.
THEOREM OnlyApprovedIsPublished == Spec => []OnlyApprovedGoesOut
<1>1. Init => TypeOK /\ ApprovalInv
  BY InitTypeOK, InitApproval
<1>2. TypeOK /\ ApprovalInv /\ [Next]_vars => TypeOK' /\ ApprovalInv'
  BY NextTypeOK, NextApproval
<1>3. ApprovalInv => OnlyApprovedGoesOut
  BY DEF ApprovalInv
<1> QED BY <1>1, <1>2, <1>3, PTL DEF Spec

----------------------------------------------------------------------------
(***************************************************************************)
(* What is deleted stays deleted, and a story has one card.                *)
(***************************************************************************)
\* Every id in use was drawn before.
IdsWereDrawn ==
  /\ \A q \in queue \cup previews : q.id <= made
  /\ \A r \in Requests : pc[r] # "idle" => item[r].id <= made
  /\ \A id \in deleted : id <= made

QueueInv == OneCardPerStory /\ DeletedStaysDeleted /\ IdsAreFresh /\ IdsWereDrawn

\* There are no ids in the beginning.
LEMMA InitQueueInv == Init => QueueInv
BY DEF Init, QueueInv, OneCardPerStory, DeletedStaysDeleted, IdsAreFresh, IdsWereDrawn,
       Adding, Writing

\* A request that begins to add a card with a new id.
LEMMA AddFresh ==
  ASSUME TypeOK, QueueInv, NEW r \in Requests, NEW i \in Items,
         i.id = made + 1, made' = made + 1, Continue(r, "check", i),
         UNCHANGED <<queue, previews, deleted>>
  PROVE  QueueInv'
<1>1. made \in Nat /\ \A q \in queue \cup previews : q \in Items /\ q.id \in Nat
  BY DEF TypeOK, Items, Revisions
<1>2. \A t \in Requests : pc[t] # "idle" => item[t].id \in Nat
  BY DEF TypeOK, Items, Revisions
<1>3. deleted \subseteq Nat
  BY DEF TypeOK, Revisions
<1>4. \A t \in Requests \ {r} : pc'[t] = pc[t] /\ item'[t] = item[t]
  BY DEF Continue, TypeOK
<1>5. pc'[r] = "check" /\ item'[r] = i
  BY DEF Continue, TypeOK
<1>6. IdsWereDrawn'
  BY <1>1, <1>2, <1>3, <1>4, <1>5 DEF QueueInv, IdsWereDrawn
<1>7. OneCardPerStory' /\ DeletedStaysDeleted'
  BY DEF QueueInv, OneCardPerStory, DeletedStaysDeleted
<1>8. /\ i.id \notin deleted
      /\ \A q \in queue \cup previews : q.id # i.id
      /\ \A t \in Requests : pc[t] # "idle" => item[t].id # i.id
  BY <1>1, <1>2, <1>3 DEF QueueInv, IdsWereDrawn
<1>9. IdsAreFresh'
  <2>1. \A p \in previews :
          (\A q \in queue : q.id # p.id) /\ (\A q \in previews : q.id = p.id => q = p)
    BY DEF QueueInv, IdsAreFresh
  <2>2. ASSUME NEW t \in Requests, pc'[t] \in Adding
        PROVE  /\ item'[t].id \notin deleted
               /\ \A q \in queue \cup previews : q.id # item'[t].id
               /\ \A u \in Requests \ {t} : pc'[u] # "idle" => item'[u].id # item'[t].id
    BY <1>4, <1>5, <1>8, <2>2 DEF QueueInv, IdsAreFresh, Adding
  <2>3. ASSUME NEW t \in Requests, pc'[t] \in Writing
        PROVE  /\ \A p \in previews : p.id # item'[t].id
               /\ \A q \in queue : q.id = item'[t].id => q.story = item'[t].story
    BY <1>4, <1>5, <2>3 DEF QueueInv, IdsAreFresh, Writing
  <2> QED BY <2>1, <2>2, <2>3 DEF IdsAreFresh
<1> QED BY <1>6, <1>7, <1>9 DEF QueueInv

\* A request that begins to write over a row that it read.
LEMMA WriteOver ==
  ASSUME TypeOK, QueueInv, NEW r \in Requests, NEW q \in queue, NEW i,
         NEW step \in Writing, i.id = q.id, i.story = q.story,
         made' \in Nat, made <= made', Continue(r, step, i),
         UNCHANGED <<queue, previews, deleted>>
  PROVE  QueueInv'
<1>1. made \in Nat /\ \A p \in queue \cup previews : p \in Items /\ p.id \in Nat
  BY DEF TypeOK, Items, Revisions
<1>2. \A t \in Requests : pc[t] # "idle" => item[t].id \in Nat
  BY DEF TypeOK, Items, Revisions
<1>3. deleted \subseteq Nat
  BY DEF TypeOK, Revisions
<1>4. \A t \in Requests \ {r} : pc'[t] = pc[t] /\ item'[t] = item[t]
  BY DEF Continue, TypeOK
<1>5. pc'[r] = step /\ item'[r] = i /\ step \notin Adding
  BY DEF Continue, TypeOK, Writing, Adding
<1>6. IdsWereDrawn'
  BY <1>1, <1>2, <1>3, <1>4, <1>5 DEF QueueInv, IdsWereDrawn
<1>7. OneCardPerStory' /\ DeletedStaysDeleted'
  BY DEF QueueInv, OneCardPerStory, DeletedStaysDeleted
<1>8. /\ \A p \in previews : p.id # i.id
      /\ \A p \in queue : p.id = i.id => p.story = i.story
      /\ \A t \in Requests : pc[t] \in Adding => item[t].id # i.id
  BY DEF QueueInv, IdsAreFresh, OneCardPerStory
<1>9. IdsAreFresh'
  <2>1. \A p \in previews :
          (\A x \in queue : x.id # p.id) /\ (\A x \in previews : x.id = p.id => x = p)
    BY DEF QueueInv, IdsAreFresh
  <2>2. ASSUME NEW t \in Requests, pc'[t] \in Adding
        PROVE  /\ item'[t].id \notin deleted
               /\ \A x \in queue \cup previews : x.id # item'[t].id
               /\ \A u \in Requests \ {t} : pc'[u] # "idle" => item'[u].id # item'[t].id
    BY <1>4, <1>5, <1>8, <2>2 DEF QueueInv, IdsAreFresh
  <2>3. ASSUME NEW t \in Requests, pc'[t] \in Writing
        PROVE  /\ \A p \in previews : p.id # item'[t].id
               /\ \A x \in queue : x.id = item'[t].id => x.story = item'[t].story
    BY <1>4, <1>5, <1>8, <2>3 DEF QueueInv, IdsAreFresh
  <2> QED BY <2>1, <2>2, <2>3 DEF IdsAreFresh
<1> QED BY <1>6, <1>7, <1>9 DEF QueueInv

\* Every step keeps QueueInv, given the type invariant.
LEMMA NextQueueInv == TypeOK /\ QueueInv /\ [Next]_vars => QueueInv'
<1> SUFFICES ASSUME TypeOK, QueueInv, [Next]_vars PROVE QueueInv'
  OBVIOUS
<1> USE DEF QueueInv, OneCardPerStory, DeletedStaysDeleted, IdsAreFresh, IdsWereDrawn
<1>1. made \in Nat /\ \A q \in queue \cup previews : q \in Items /\ q.id \in Nat
  BY DEF TypeOK, Items, Revisions
<1>2. ASSUME NEW r \in Requests, NEW s \in Stories, NEW status \in Outcomes,
             Generate(r, s, status)
      PROVE  QueueInv'
  <2>1. Rendered(s, status) \in Items /\ Rendered(s, status).id = made + 1
    BY <1>2, RenderedType DEF Generate, NewRevision, Rendered
  <2> QED BY <1>2, <2>1, AddFresh DEF Generate, NewRevision
<1>3. ASSUME NEW r \in Requests, NEW s \in Stories, NEW status \in Outcomes,
             Regenerate(r, s, status)
      PROVE  QueueInv'
  <2> DEFINE new == Rendered(s, status)
  <2>1. new \in Items /\ new.id = made + 1 /\ new.story = s
    BY <1>3, RenderedType DEF Regenerate, NewRevision, Rendered
  <2>2. CASE ~Queued(s)
    BY <1>3, <2>1, <2>2, AddFresh DEF Regenerate, NewRevision
  <2>3. CASE Queued(s)
    <3>1. PICK q \in queue :
            q.story = s /\ Continue(r, "update", [new EXCEPT !.id = q.id])
      BY <1>3, <2>3 DEF Regenerate
    <3> HIDE DEF new
    <3> DEFINE i == [new EXCEPT !.id = q.id]
    <3>2. i.id = q.id /\ i.story = q.story
      BY <2>1, <3>1 DEF Items
    <3>3. Continue(r, "update", i) /\ "update" \in Writing
      BY <3>1 DEF Writing
    <3> HIDE DEF i
    <3> QED BY <1>1, <1>3, <3>2, <3>3, WriteOver DEF Regenerate, NewRevision
  <2> QED BY <2>2, <2>3
<1>4. ASSUME NEW r \in Requests, NEW s \in Stories, NEW status \in Outcomes,
             Preview(r, s, status)
      PROVE  QueueInv'
  <2> DEFINE new == Rendered(s, status)
  <2>1. new \in Items /\ new.id = made + 1
    BY <1>4, RenderedType DEF Preview, NewRevision, Rendered
  <2>2. /\ previews' = previews \cup {new}
        /\ made' = made + 1
        /\ UNCHANGED <<queue, pc, item, deleted>>
    BY <1>4 DEF Preview, NewRevision
  <2> HIDE DEF new
  <2>3. /\ new.id \notin deleted
        /\ \A q \in queue \cup previews : q.id # new.id
        /\ \A t \in Requests : pc[t] # "idle" => item[t].id # new.id
    BY <1>1, <2>1 DEF TypeOK, Items, Revisions
  <2>4. IdsWereDrawn'
    BY <1>1, <2>1, <2>2 DEF TypeOK, Items, Revisions
  <2>5. IdsAreFresh'
    BY <2>2, <2>3 DEF Adding, Writing
  <2> QED BY <2>2, <2>3, <2>4, <2>5
<1>5. ASSUME NEW r \in Requests, NEW q \in queue, Edit(r, q) PROVE QueueInv'
  <2> DEFINE i == [q EXCEPT !.rev = made + 1]
  <2>1. i.id = q.id /\ i.story = q.story
    BY DEF TypeOK, Items
  <2>2. Continue(r, "update", i) /\ "update" \in Writing
    BY <1>5 DEF Edit, Writing
  <2> HIDE DEF i
  <2> QED BY <1>1, <1>5, <2>1, <2>2, WriteOver DEF Edit, NewRevision
<1>6. ASSUME NEW r \in Requests, NEW q \in queue, NEW from, NEW to, NEW step \in Writing,
             Move(r, q, from, to, step), UNCHANGED <<queue, previews, made, deleted>>
      PROVE  QueueInv'
  <2> DEFINE i == [q EXCEPT !.status = to]
  <2>1. i.id = q.id /\ i.story = q.story
    BY DEF TypeOK, Items
  <2>2. Continue(r, step, i)
    BY <1>6 DEF Move
  <2> HIDE DEF i
  <2> QED BY <1>1, <1>6, <2>1, <2>2, WriteOver
<1>7. ASSUME NEW r \in Requests, NEW q \in queue,
             \/ Approve(r, q) \/ Reject(r, q) \/ Schedule(r, q)
             \/ MarkPublishedManually(r, q) \/ Publish(r, q)
      PROVE  QueueInv'
  <2>1. {"update", "deliver"} \subseteq Writing
    BY DEF Writing
  <2> QED BY <1>6, <1>7, <2>1
          DEF Approve, Reject, Schedule, MarkPublishedManually, Publish
<1>8. ASSUME NEW r \in Requests, NEW p \in previews, CommitPreview(r, p) PROVE QueueInv'
  <2>1. pc[r] = "idle" /\ pc' = [pc EXCEPT ![r] = "check"] /\ item' = [item EXCEPT ![r] = p]
    BY <1>8 DEF CommitPreview, Continue
  <2>2. previews' = previews \ {p} /\ UNCHANGED <<queue, made, deleted>>
    BY <1>8 DEF CommitPreview
  <2>3. \A t \in Requests : pc[t] # "idle" => item[t].id # p.id
    BY DEF TypeOK, Adding, Writing
  <2> QED BY <2>1, <2>2, <2>3 DEF TypeOK, Adding, Writing
<1>9. ASSUME NEW r \in Requests, AddCheck(r) PROVE QueueInv'
  <2>1. UNCHANGED <<queue, previews, made, deleted>>
    BY <1>9 DEF AddCheck
  <2>2. CASE Queued(item[r].story)
    BY <1>9, <2>1, <2>2 DEF AddCheck, Finish, Continue, TypeOK, Adding, Writing
  <2>3. CASE ~Queued(item[r].story)
    BY <1>9, <2>1, <2>3 DEF AddCheck, Continue, TypeOK, Adding, Writing
  <2> QED BY <2>2, <2>3
<1>10. ASSUME NEW r \in Requests, AddInsert(r) PROVE QueueInv'
  <2>1. pc' = [pc EXCEPT ![r] = "idle"] /\ item' = [item EXCEPT ![r] = NoItem]
    BY <1>10 DEF AddInsert, Finish, Continue
  <2>2. pc[r] = "insert" /\ UNCHANGED <<previews, made, deleted>>
    BY <1>10 DEF AddInsert
  <2>3. \A q \in queue' : q \in queue \/ (q = item[r] /\ ~Queued(q.story))
    <3>1. CASE Queued(item[r].story)
      BY <1>10, <3>1 DEF AddInsert
    <3>2. CASE ~Queued(item[r].story)
      BY <1>10, <3>2 DEF AddInsert
    <3> QED BY <3>1, <3>2
  <2>4. \A t \in Requests \ {r} : pc'[t] = pc[t] /\ item'[t] = item[t]
    BY <2>1 DEF TypeOK
  <2>5. pc'[r] = "idle"
    BY <2>1 DEF TypeOK
  <2>6. OneCardPerStory'
    BY <2>2, <2>3 DEF Queued, Adding
  <2>7. DeletedStaysDeleted' /\ IdsWereDrawn'
    BY <2>2, <2>3, <2>4, <2>5 DEF Adding
  <2>8. IdsAreFresh'
    BY <2>2, <2>3, <2>4, <2>5 DEF Adding, Writing
  <2> QED BY <2>6, <2>7, <2>8
<1>11. ASSUME NEW r \in Requests, Deliver(r) PROVE QueueInv'
  BY <1>11 DEF Deliver, Continue, TypeOK, Adding, Writing
<1>12. ASSUME NEW r \in Requests, Update(r) PROVE QueueInv'
  <2>1. pc' = [pc EXCEPT ![r] = "idle"] /\ item' = [item EXCEPT ![r] = NoItem]
    BY <1>12 DEF Update, Finish, Continue
  <2>2. pc[r] = "update" /\ UNCHANGED <<previews, made, deleted>>
    BY <1>12 DEF Update
  <2>3. \A x \in queue' : \E q \in queue :
          /\ x.id = q.id /\ x.story = q.story
          /\ x = IF q.id = item[r].id THEN item[r] ELSE q
    BY <1>12, <2>2 DEF Update, Writing
  <2>4. \A t \in Requests \ {r} : pc'[t] = pc[t] /\ item'[t] = item[t]
    BY <2>1 DEF TypeOK
  <2>5. pc'[r] = "idle"
    BY <2>1 DEF TypeOK
  <2>6. OneCardPerStory'
    BY <2>3
  <2>7. DeletedStaysDeleted' /\ IdsWereDrawn'
    BY <2>2, <2>3, <2>4, <2>5
  <2>8. IdsAreFresh'
    BY <2>2, <2>3, <2>4, <2>5 DEF Adding, Writing
  <2> QED BY <2>6, <2>7, <2>8
<1>13. ASSUME NEW p \in previews, ExpirePreview(p) PROVE QueueInv'
  BY <1>13 DEF ExpirePreview
<1>14. ASSUME NEW id \in Revisions, Delete(id) PROVE QueueInv'
  <2>1. \A r \in Requests : pc[r] \in Adding => item[r].id # id
    BY <1>14 DEF Delete
  <2>2. id <= made
    BY <1>14 DEF Delete
  <2> QED BY <1>14, <2>1, <2>2 DEF Delete
<1>15. CASE Purge
  <2>1. queue' \subseteq queue /\ UNCHANGED <<previews, pc, item, made>>
    BY <1>15 DEF Purge
  <2>2. \A id \in deleted' : id \in deleted \/ \E q \in queue \ queue' : q.id = id
    BY <1>15 DEF Purge
  <2> QED BY <2>1, <2>2
<1>16. CASE Crash
  BY <1>16 DEF Crash, Adding, Writing
<1>17. CASE UNCHANGED vars
  BY <1>17 DEF vars
<1> QED
  BY <1>2, <1>3, <1>4, <1>5, <1>7, <1>8, <1>9, <1>10, <1>11, <1>12, <1>13, <1>14,
     <1>15, <1>16, <1>17
  DEF Next, Create, Act, Step

\* QueueInv holds in every state.
LEMMA QueueInvariant == Spec => []QueueInv
<1>1. Init => TypeOK /\ QueueInv
  BY InitTypeOK, InitQueueInv
<1>2. TypeOK /\ QueueInv /\ [Next]_vars => TypeOK' /\ QueueInv'
  BY NextTypeOK, NextQueueInv
<1> QED BY <1>1, <1>2, PTL DEF Spec

\* A story never has two cards and a content id never two stories, although add
\* looks for the story and inserts it in two statements.
THEOREM OneCard == Spec => []OneCardPerStory
<1>1. QueueInv => OneCardPerStory
  BY DEF QueueInv
<1> QED BY <1>1, QueueInvariant, PTL

\* A deleted or purged card never comes back, whoever still writes its copy.
THEOREM DeletionIsFinal == Spec => []DeletedStaysDeleted
<1>1. QueueInv => DeletedStaysDeleted
  BY DEF QueueInv
<1> QED BY <1>1, QueueInvariant, PTL

\* The ids on their way into the queue belong to one card each and were never
\* deleted, and a copy written over a row has the story of that row.
THEOREM FreshIds == Spec => []IdsAreFresh
<1>1. QueueInv => IdsAreFresh
  BY DEF QueueInv
<1> QED BY <1>1, QueueInvariant, PTL

----------------------------------------------------------------------------
(***************************************************************************)
(* A row that says published was published.                                *)
(***************************************************************************)
\* The revisions that were handed to the publisher or marked by an operator.
SentRevisions == marked \cup {sent[i].rev : i \in 1..Len(sent)}

\* PublishedWasSent of the copies that will be written as well: the copy that
\* publish prepares says published before the channel was called, so it may only
\* be written after the delivery; no other way into the queue carries that status.
PublishedInv ==
  /\ PublishedWasSent
  /\ \A p \in previews : p.status # "published"
  /\ \A r \in Requests :
       /\ pc[r] \in Adding => item[r].status # "published"
       /\ pc[r] = "update" /\ item[r].status = "published" => item[r].rev \in SentRevisions

\* Nothing is published in the beginning.
LEMMA InitPublished == Init => PublishedInv
BY DEF Init, PublishedInv, PublishedWasSent, Adding

\* What was sent stays sent when one more item is.
LEMMA SentGrows ==
  ASSUME TypeOK, NEW i \in Items, sent' = Append(sent, i), UNCHANGED marked
  PROVE  SentRevisions' = SentRevisions \cup {i.rev}
<1>1. /\ sent \in Seq(Items)
      /\ Len(sent') = Len(sent) + 1 /\ Len(sent) \in Nat
      /\ \A j \in 1..Len(sent) : sent'[j] = sent[j]
      /\ sent'[Len(sent) + 1] = i
  BY DEF TypeOK
<1>2. 1..Len(sent) \subseteq 1..Len(sent') /\ Len(sent) + 1 \in 1..Len(sent')
  BY <1>1
<1> QED BY <1>1, <1>2 DEF SentRevisions

\* A request that goes on with a copy of which PublishedInv asks nothing.
LEMMA ContinuePublished ==
  ASSUME TypeOK, PublishedInv, NEW r \in Requests, NEW i, NEW step,
         Continue(r, step, i), step # "idle" /\ step # "deliver" => i.status # "published",
         UNCHANGED <<queue, sent>>, marked \subseteq marked', previews' \subseteq previews
  PROVE  PublishedInv'
<1>1. SentRevisions \subseteq SentRevisions'
  BY DEF SentRevisions
<1>2. \A t \in Requests \ {r} : pc'[t] = pc[t] /\ item'[t] = item[t]
  BY DEF Continue, TypeOK
<1>3. pc'[r] = step /\ item'[r] = i
  BY DEF Continue, TypeOK
<1>4. PublishedWasSent'
  BY DEF PublishedInv, PublishedWasSent
<1>5. \A t \in Requests :
        /\ pc'[t] \in Adding => item'[t].status # "published"
        /\ pc'[t] = "update" /\ item'[t].status = "published" => item'[t].rev \in SentRevisions'
  BY <1>1, <1>2, <1>3 DEF PublishedInv, Adding
<1> QED BY <1>4, <1>5 DEF PublishedInv

\* Every step keeps PublishedInv, given the type invariant.
LEMMA NextPublished == TypeOK /\ PublishedInv /\ [Next]_vars => PublishedInv'
<1> SUFFICES ASSUME TypeOK, PublishedInv, [Next]_vars PROVE PublishedInv'
  OBVIOUS
<1>1. ASSUME NEW r \in Requests, NEW s \in Stories, NEW status \in Outcomes,
             Generate(r, s, status)
      PROVE  PublishedInv'
  <2>1. Rendered(s, status).status # "published"
    BY DEF Rendered, Outcomes
  <2> QED BY <1>1, <2>1, ContinuePublished DEF Generate
<1>2. ASSUME NEW r \in Requests, NEW s \in Stories, NEW status \in Outcomes,
             Regenerate(r, s, status)
      PROVE  PublishedInv'
  <2> DEFINE new == Rendered(s, status)
  <2>1. new \in Items /\ new.status # "published"
    BY <1>2, RenderedType DEF Regenerate, NewRevision, Rendered, Outcomes
  <2>2. PICK i, step : Continue(r, step, i) /\ i.status # "published"
    <3>1. CASE ~Queued(s)
      BY <1>2, <2>1, <3>1 DEF Regenerate
    <3>2. CASE Queued(s)
      <4>1. PICK q \in queue : Continue(r, "update", [new EXCEPT !.id = q.id])
        BY <1>2, <3>2 DEF Regenerate
      <4> HIDE DEF new
      <4>2. [new EXCEPT !.id = q.id].status = new.status
        BY <2>1 DEF Items
      <4> QED BY <2>1, <4>1, <4>2
    <3> QED BY <3>1, <3>2
  <2> QED BY <1>2, <2>2, ContinuePublished DEF Regenerate
<1>3. ASSUME NEW r \in Requests, NEW s \in Stories, NEW status \in Outcomes,
             Preview(r, s, status)
      PROVE  PublishedInv'
  <2>1. Rendered(s, status).status # "published"
    BY DEF Rendered, Outcomes
  <2> QED BY <1>3, <2>1 DEF Preview, PublishedInv, PublishedWasSent, SentRevisions
\* Copies of a row at another status or revision, none of them published.
<1>4. ASSUME NEW r \in Requests, NEW q \in queue,
             Approve(r, q) \/ Reject(r, q) \/ Schedule(r, q) \/ Edit(r, q)
      PROVE  PublishedInv'
  <2>1. PICK i, step : Continue(r, step, i) /\ i.status # "published"
    <3>1. q \in Items
      BY DEF TypeOK
    <3>2. CASE Approve(r, q) \/ Reject(r, q) \/ Schedule(r, q)
      <4>1. PICK status \in {"approved", "rejected", "scheduled"} :
              Continue(r, "update", [q EXCEPT !.status = status])
        BY <3>2 DEF Approve, Reject, Schedule, Move
      <4>2. [q EXCEPT !.status = status].status = status
        BY <3>1 DEF Items
      <4> QED BY <4>1, <4>2
    <3>3. CASE Edit(r, q)
      <4>1. Continue(r, "update", [q EXCEPT !.rev = made + 1])
        BY <3>3 DEF Edit
      <4>2. q.status # "published"
        BY <3>3 DEF Edit
      <4>3. [q EXCEPT !.rev = made + 1].status = q.status
        BY <3>1 DEF Items
      <4> QED BY <4>1, <4>2, <4>3
    <3> QED BY <1>4, <3>2, <3>3
  <2> QED BY <1>4, <2>1, ContinuePublished DEF Approve, Reject, Schedule, Edit
\* Publishing by hand: the copy says published and the revision is marked.
<1>5. ASSUME NEW r \in Requests, NEW q \in queue, MarkPublishedManually(r, q)
      PROVE  PublishedInv'
  <2> DEFINE i == [q EXCEPT !.status = "published"]
  <2>1. i.rev = q.rev
    BY DEF TypeOK, Items
  <2>2. /\ Continue(r, "update", i)
        /\ marked' = marked \cup {q.rev}
        /\ UNCHANGED <<queue, previews, sent>>
    BY <1>5 DEF MarkPublishedManually, Move
  <2> HIDE DEF i
  <2>3. \A t \in Requests \ {r} : pc'[t] = pc[t] /\ item'[t] = item[t]
    BY <2>2 DEF Continue, TypeOK
  <2>4. pc'[r] = "update" /\ item'[r] = i
    BY <2>2 DEF Continue, TypeOK
  <2> QED BY <2>1, <2>2, <2>3, <2>4
          DEF PublishedInv, PublishedWasSent, SentRevisions, Adding
<1>6. ASSUME NEW r \in Requests, NEW q \in queue, Publish(r, q) PROVE PublishedInv'
  BY <1>6, ContinuePublished DEF Publish, Move
<1>7. ASSUME NEW r \in Requests, NEW p \in previews, CommitPreview(r, p)
      PROVE  PublishedInv'
  <2>1. p.status # "published"
    BY DEF PublishedInv
  <2> QED BY <1>7, <2>1, ContinuePublished DEF CommitPreview
<1>8. ASSUME NEW r \in Requests, AddCheck(r) PROVE PublishedInv'
  <2>1. item[r].status # "published"
    BY <1>8 DEF AddCheck, PublishedInv, Adding
  <2>2. CASE Queued(item[r].story)
    BY <1>8, <2>2, ContinuePublished DEF AddCheck, Finish
  <2>3. CASE ~Queued(item[r].story)
    BY <1>8, <2>1, <2>3, ContinuePublished DEF AddCheck
  <2> QED BY <2>2, <2>3
\* Writing a row: a copy that says published was sent.
<1>9. ASSUME NEW r \in Requests, AddInsert(r) \/ Update(r) PROVE PublishedInv'
  <2>1. item[r].status = "published" => item[r].rev \in SentRevisions
    BY <1>9 DEF AddInsert, Update, PublishedInv, Adding
  <2>2. \A q \in queue' : q \in queue \/ q = item[r]
    BY <1>9 DEF AddInsert, Update
  <2>3. UNCHANGED <<previews, sent, marked>>
    BY <1>9 DEF AddInsert, Update
  <2>4. pc' = [pc EXCEPT ![r] = "idle"] /\ item' = [item EXCEPT ![r] = NoItem]
    BY <1>9 DEF AddInsert, Update, Finish, Continue
  <2> QED BY <2>1, <2>2, <2>3, <2>4
          DEF PublishedInv, PublishedWasSent, SentRevisions, TypeOK, Adding
<1>10. ASSUME NEW r \in Requests, Deliver(r) PROVE PublishedInv'
  <2>1. /\ item[r] \in Items
        /\ sent' = Append(sent, item[r])
        /\ UNCHANGED <<queue, previews, marked>>
    BY <1>10 DEF Deliver, TypeOK
  <2>2. SentRevisions' = SentRevisions \cup {item[r].rev}
    BY <2>1, SentGrows
  <2>3. pc' = [pc EXCEPT ![r] = "update"] /\ item' = item
    BY <1>10 DEF Deliver, Continue, TypeOK
  <2>4. PublishedWasSent'
    BY <2>1, <2>2 DEF PublishedInv, PublishedWasSent, SentRevisions
  <2>5. \A t \in Requests :
          /\ pc'[t] \in Adding => item'[t].status # "published"
          /\ pc'[t] = "update" /\ item'[t].status = "published" => item'[t].rev \in SentRevisions'
    <3>1. ASSUME NEW t \in Requests \ {r} PROVE pc'[t] = pc[t] /\ item'[t] = item[t]
      BY <2>3 DEF TypeOK
    <3>2. pc'[r] = "update" /\ item'[r] = item[r]
      BY <2>3 DEF TypeOK
    <3> QED BY <2>2, <3>1, <3>2 DEF PublishedInv, Adding
  <2> QED BY <2>1, <2>4, <2>5 DEF PublishedInv
<1>11. ASSUME NEW p \in previews, ExpirePreview(p) PROVE PublishedInv'
  BY <1>11 DEF ExpirePreview, PublishedInv, PublishedWasSent, SentRevisions
<1>12. ASSUME NEW id \in Revisions, Delete(id) PROVE PublishedInv'
  BY <1>12 DEF Delete, PublishedInv, PublishedWasSent, SentRevisions
<1>13. CASE Purge
  BY <1>13 DEF Purge, PublishedInv, PublishedWasSent, SentRevisions
<1>14. CASE Crash
  BY <1>14 DEF Crash, PublishedInv, PublishedWasSent, Adding
<1>15. CASE UNCHANGED vars
  BY <1>15 DEF vars, PublishedInv, PublishedWasSent, SentRevisions
<1> QED
  BY <1>1, <1>2, <1>3, <1>4, <1>5, <1>6, <1>7, <1>8, <1>9, <1>10, <1>11, <1>12, <1>13,
     <1>14, <1>15
  DEF Next, Create, Act, Step

\* A row says published only of a revision that the publisher got or an operator
\* marked, although rows are written from copies that other requests overtook.
THEOREM PublishedMeansSent == Spec => []PublishedWasSent
<1>1. Init => TypeOK /\ PublishedInv
  BY InitTypeOK, InitPublished
<1>2. TypeOK /\ PublishedInv /\ [Next]_vars => TypeOK' /\ PublishedInv'
  BY NextTypeOK, NextPublished
<1>3. PublishedInv => PublishedWasSent
  BY DEF PublishedInv
<1> QED BY <1>1, <1>2, <1>3, PTL DEF Spec
=============================================================================
