-------------------------- MODULE ContentLifecycle --------------------------
(***************************************************************************)
(* The content queue: cards are generated from stories, previewed, queued, *)
(* reviewed, edited, scheduled, published, purged and deleted, by requests *)
(* that run concurrently.  No request uses a transaction: each reads one   *)
(* row, changes its copy and writes the copy back whole, and the external  *)
(* publisher is called in between.                                         *)
(*                                                                         *)
(* What a card shows (image, copy, facts) is abstracted to a revision      *)
(* number, new for each rendering and each edit.  A content id is the      *)
(* revision that was rendered first under it.                              *)
(***************************************************************************)
EXTENDS Naturals, Sequences, FiniteSets

CONSTANTS
  Stories,       \* identity keys of stories
  Requests,      \* threads of the API
  NoStory,       \* the story of no item
  MaxRevisions,  \* bound on renderings and edits
  MaxCrashes     \* bound on process restarts

ASSUME ContentAssumption ==
  /\ NoStory \notin Stories
  /\ MaxRevisions \in Nat
  /\ MaxCrashes \in Nat

VARIABLES
  queue,      \* table content_queue, a set of items
  previews,   \* PreviewStore, memory of the process
  pc,         \* what each request does next
  item,       \* the copy each request works on
  made,       \* revisions made so far
  approved,   \* revisions a reviewer, the policy or a curated edit let pass
  sent,       \* items handed to the external publisher, in order
  marked,     \* revisions an operator marked as published by hand
  deleted,    \* content ids that delete or purge removed
  crashes     \* restarts so far

vars == <<queue, previews, pc, item, made, approved, sent, marked, deleted, crashes>>

(***************************************************************************)
(* Items.  Statuses before VALIDATING's outcome never leave the renderer.  *)
(***************************************************************************)
Statuses ==
  {"pending_review", "approved", "rejected", "scheduled", "published", "failed"}
Discarded == {"rejected", "failed"}
Outgoing  == {"approved", "scheduled", "published"}
Revisions == 1..MaxRevisions

Items ==
  [id : Revisions, story : Stories, rev : Revisions, status : Statuses]

NoItem == [id |-> 0, story |-> NoStory, rev |-> 0, status |-> "none"]

TypeOK ==
  /\ queue \subseteq Items
  /\ previews \subseteq Items
  /\ pc \in [Requests -> {"idle", "check", "insert", "deliver", "update"}]
  /\ item \in [Requests -> Items \cup {NoItem}]
  /\ \A r \in Requests : pc[r] # "idle" => item[r] \in Items
  /\ made \in 0..MaxRevisions
  /\ approved \subseteq Revisions
  /\ sent \in Seq(Items)
  /\ marked \subseteq Revisions
  /\ deleted \subseteq Revisions
  /\ crashes \in Nat

Init ==
  /\ queue = {}
  /\ previews = {}
  /\ pc = [r \in Requests |-> "idle"]
  /\ item = [r \in Requests |-> NoItem]
  /\ made = 0
  /\ approved = {}
  /\ sent = << >>
  /\ marked = {}
  /\ deleted = {}
  /\ crashes = 0

Queued(s) == \E q \in queue : q.story = s

\* Request r goes on to the next step with copy i.
Continue(r, step, i) ==
  /\ pc' = [pc EXCEPT ![r] = step]
  /\ item' = [item EXCEPT ![r] = i]

\* Mutant: the request lets go of its copy before its last statement.
FinishEarly(r) ==
  /\ item' = [item EXCEPT ![r] = NoItem]
  /\ UNCHANGED pc

Finish(r) == Continue(r, "idle", NoItem)

----------------------------------------------------------------------------
(***************************************************************************)
(* Generating cards.                                                       *)
(***************************************************************************)
\* _render_and_validate: a fresh card of story s that ends as the validators
\* and the review policy decide.
Rendered(s, status) ==
  [id |-> made + 1, story |-> s, rev |-> made + 1, status |-> status]

Outcomes == {"pending_review", "approved", "rejected", "failed"}

\* The revision counter moves, and what the policy approves is approved.
NewRevision(status) ==
  /\ made < MaxRevisions
  /\ made' = made + 1
  /\ approved' = IF status = "approved" THEN approved \cup {made + 1} ELSE approved

\* run, and generate_one without force: a story that is queued is skipped, any
\* other is rendered and added.  run adds rejected and failed cards as well.
Generate(r, s, status) ==
  /\ pc[r] = "idle"
  /\ ~Queued(s)
  /\ NewRevision(status)
  /\ Continue(r, "check", Rendered(s, status))
  /\ UNCHANGED <<queue, previews, sent, marked, deleted, crashes>>

\* generate_one with force: the row that is queued will be overwritten, at
\* whatever status it is; without a row the card is added.
Regenerate(r, s, status) ==
  /\ pc[r] = "idle"
  /\ status \notin Discarded
  /\ NewRevision(status)
  /\ IF Queued(s)
       THEN \E q \in queue :
              /\ q.story = s
              /\ Continue(r, "update", [Rendered(s, status) EXCEPT !.id = q.id])
       ELSE Continue(r, "check", Rendered(s, status))
  /\ UNCHANGED <<queue, previews, sent, marked, deleted, crashes>>

\* A card for the operator's eyes only, kept in memory until it is committed,
\* dropped, evicted or too old.
Preview(r, s, status) ==
  /\ pc[r] = "idle"
  /\ status \notin Discarded
  /\ NewRevision(status)
  /\ previews' = previews \cup {Rendered(s, status)}
  /\ UNCHANGED <<queue, pc, item, sent, marked, deleted, crashes>>

ExpirePreview(p) ==
  /\ p \in previews
  /\ previews' = previews \ {p}
  /\ UNCHANGED <<queue, pc, item, made, approved, sent, marked, deleted, crashes>>

\* Mutant: the preview stays in the store while its card is added.
CommitPreviewKept(r, p) ==
  /\ pc[r] = "idle"
  /\ p \in previews
  /\ Continue(r, "check", p)
  /\ UNCHANGED <<queue, previews, made, approved, sent, marked, deleted, crashes>>

\* commit_preview: popped from the store first, added to the queue then.
CommitPreview(r, p) ==
  /\ pc[r] = "idle"
  /\ p \in previews
  /\ previews' = previews \ {p}
  /\ Continue(r, "check", p)
  /\ UNCHANGED <<queue, made, approved, sent, marked, deleted, crashes>>

\* add, first statement: SELECT by identity key.
AddCheck(r) ==
  /\ pc[r] = "check"
  /\ IF Queued(item[r].story) THEN Finish(r) ELSE Continue(r, "insert", item[r])
  /\ UNCHANGED <<queue, previews, made, approved, sent, marked, deleted, crashes>>

\* Mutant: the identity column has no UNIQUE constraint.
AddInsertAnyway(r) ==
  /\ pc[r] = "insert"
  /\ queue' = queue \cup {item[r]}
  /\ Finish(r)
  /\ UNCHANGED <<previews, made, approved, sent, marked, deleted, crashes>>

\* add, second statement: INSERT, refused by the UNIQUE identity key when
\* another request has added the story since.
AddInsert(r) ==
  /\ pc[r] = "insert"
  /\ queue' = IF Queued(item[r].story) THEN queue ELSE queue \cup {item[r]}
  /\ Finish(r)
  /\ UNCHANGED <<previews, made, approved, sent, marked, deleted, crashes>>

----------------------------------------------------------------------------
(***************************************************************************)
(* The life of a queued card.  Each action reads the row and checks the    *)
(* transition; Update writes the copy.                                     *)
(***************************************************************************)
\* approve on a row at the status from, and so on: the copy moves to a status.
Move(r, q, from, to, step) ==
  /\ pc[r] = "idle"
  /\ q \in queue
  /\ q.status = from
  /\ Continue(r, step, [q EXCEPT !.status = to])

Approve(r, q) ==
  /\ Move(r, q, "pending_review", "approved", "update")
  /\ approved' = approved \cup {q.rev}
  /\ UNCHANGED <<queue, previews, made, sent, marked, deleted, crashes>>

Reject(r, q) ==
  /\ Move(r, q, "pending_review", "rejected", "update")
  /\ UNCHANGED <<queue, previews, made, approved, sent, marked, deleted, crashes>>

Schedule(r, q) ==
  /\ Move(r, q, "approved", "scheduled", "update")
  /\ UNCHANGED <<queue, previews, made, approved, sent, marked, deleted, crashes>>

MarkPublishedManually(r, q) ==
  /\ Move(r, q, "approved", "published", "update")
  /\ marked' = marked \cup {q.rev}
  /\ UNCHANGED <<queue, previews, made, approved, sent, deleted, crashes>>

\* publish: the status is checked, then the channel is called, then the row
\* is written.
Publish(r, q) ==
  /\ Move(r, q, "scheduled", "published", "deliver")
  /\ UNCHANGED <<queue, previews, made, approved, sent, marked, deleted, crashes>>

\* Mutant: the row is written and the channel is not called.
DeliverLate(r) ==
  /\ pc[r] = "deliver"
  /\ queue' = {IF q.id = item[r].id THEN item[r] ELSE q : q \in queue}
  /\ Finish(r)
  /\ UNCHANGED <<previews, made, approved, sent, marked, deleted, crashes>>

Deliver(r) ==
  /\ pc[r] = "deliver"
  /\ sent' = Append(sent, item[r])
  /\ Continue(r, "update", item[r])
  /\ UNCHANGED <<queue, previews, made, approved, marked, deleted, crashes>>

\* edit_content: title or caption change, the status stays.  A card that was
\* approved keeps its approval, its new text is a person's.
Edit(r, q) ==
  /\ pc[r] = "idle"
  /\ q \in queue
  /\ q.status \in {"pending_review", "approved"}
  /\ NewRevision(q.status)
  /\ Continue(r, "update", [q EXCEPT !.rev = made + 1])
  /\ UNCHANGED <<queue, previews, sent, marked, deleted, crashes>>

\* Mutants: update writes the status column only; update inserts the row when
\* it is not there.
UpdateStatusOnly(r) ==
  /\ pc[r] = "update"
  /\ queue' = {IF q.id = item[r].id THEN [q EXCEPT !.status = item[r].status] ELSE q :
                 q \in queue}
  /\ Finish(r)
  /\ UNCHANGED <<previews, made, approved, sent, marked, deleted, crashes>>

UpdateOrInsert(r) ==
  /\ pc[r] = "update"
  /\ queue' = {q \in queue : q.id # item[r].id} \cup {item[r]}
  /\ Finish(r)
  /\ UNCHANGED <<previews, made, approved, sent, marked, deleted, crashes>>

\* update: UPDATE ... WHERE content_id, comparing nothing else.  A row that is
\* gone stays gone.
Update(r) ==
  /\ pc[r] = "update"
  /\ queue' = {IF q.id = item[r].id THEN item[r] ELSE q : q \in queue}
  /\ Finish(r)
  /\ UNCHANGED <<previews, made, approved, sent, marked, deleted, crashes>>

\* purge: one DELETE by status.
Purge ==
  /\ \E q \in queue : q.status \in Discarded
  /\ queue' = {q \in queue : q.status \notin Discarded}
  /\ deleted' = deleted \cup {q.id : q \in queue \ queue'}
  /\ UNCHANGED <<previews, pc, item, made, approved, sent, marked, crashes>>

\* delete_content_item: from the previews and from the queue, at any status.
Delete(id) ==
  /\ \E i \in queue \cup previews : i.id = id
  /\ queue' = {q \in queue : q.id # id}
  /\ previews' = {p \in previews : p.id # id}
  /\ deleted' = deleted \cup {id}
  /\ UNCHANGED <<pc, item, made, approved, sent, marked, crashes>>

\* The process is restarted: previews and requests under way are lost.
Crash ==
  /\ crashes < MaxCrashes
  /\ crashes' = crashes + 1
  /\ previews' = {}
  /\ pc' = [r \in Requests |-> "idle"]
  /\ item' = [r \in Requests |-> NoItem]
  /\ UNCHANGED <<queue, made, approved, sent, marked, deleted>>

----------------------------------------------------------------------------
Create(r) ==
  \E s \in Stories, status \in Outcomes :
    \/ Generate(r, s, status)
    \/ Regenerate(r, s, status)
    \/ Preview(r, s, status)

Act(r) ==
  \/ \E q \in queue :
       \/ Approve(r, q)
       \/ Reject(r, q)
       \/ Schedule(r, q)
       \/ MarkPublishedManually(r, q)
       \/ Publish(r, q)
       \/ Edit(r, q)
  \/ \E p \in previews : CommitPreview(r, p)

Step(r) == AddCheck(r) \/ AddInsert(r) \/ Deliver(r) \/ Update(r)

Next ==
  \/ \E r \in Requests : Create(r) \/ Act(r) \/ Step(r)
  \/ \E p \in previews : ExpirePreview(p)
  \/ \E id \in Revisions : Delete(id)
  \/ Purge
  \/ Crash

Spec == Init /\ [][Next]_vars

----------------------------------------------------------------------------
\* A story has one card in the queue and a content id names one card, although
\* add checks and inserts in two statements and three ways lead to it.
OneCardPerStory ==
  \A p, q \in queue : p.story = q.story \/ p.id = q.id => p = q

\* What goes out is what was let pass: a revision that reaches the publisher,
\* or that a row shows as approved, scheduled or published, is one that a
\* reviewer or the policy approved or that an editor wrote into an approved
\* card, whatever regenerations and edits overtook the approval meanwhile.
OnlyApprovedGoesOut ==
  /\ \A i \in 1..Len(sent) : sent[i].rev \in approved
  /\ \A q \in queue : q.status \in Outgoing => q.rev \in approved

\* A row says published only of a revision that was handed to the publisher
\* or marked by an operator.
PublishedWasSent ==
  \A q \in queue :
    q.status = "published" =>
      q.rev \in marked \/ \E i \in 1..Len(sent) : sent[i].rev = q.rev

\* A card that was deleted or purged does not come back, although requests
\* that loaded it earlier still write it.
DeletedStaysDeleted == \A q \in queue \cup previews : q.id \notin deleted

\* Why it does not: the ids that are still on their way into the queue (of
\* previews and of cards being added) belong to one item each, are nowhere in
\* the queue and were never deleted, and what is about to be written over a
\* row has the story of that row.
Adding  == {"check", "insert"}
Writing == {"deliver", "update"}

IdsAreFresh ==
  /\ \A p \in previews :
       /\ \A q \in queue : q.id # p.id
       /\ \A q \in previews : q.id = p.id => q = p
  /\ \A r \in Requests :
       pc[r] \in Adding =>
         /\ item[r].id \notin deleted
         /\ \A q \in queue \cup previews : q.id # item[r].id
         /\ \A t \in Requests \ {r} : pc[t] # "idle" => item[t].id # item[r].id
  /\ \A r \in Requests :
       pc[r] \in Writing =>
         /\ \A p \in previews : p.id # item[r].id
         /\ \A q \in queue : q.id = item[r].id => q.story = item[r].story

\* "Publishing the same story twice is prevented."
PublishedOnce ==
  \A i, j \in 1..Len(sent) : sent[i].story = sent[j].story => i = j
=============================================================================
