--------------------------- MODULE OutboxDispatch ---------------------------
(***************************************************************************)
(* The outbox (table domain_events) and SyncEventDispatcher.dispatch: each *)
(* API thread, after committing a command, publishes the events that are   *)
(* still undelivered, its own and everyone's, and marks each one after.    *)
(*                                                                         *)
(* Events are numbered by produced_at, the order dispatch asks for.  They  *)
(* may commit in another order: on PostgreSQL several commands run at      *)
(* once, and on both backends the events of ComputePlayerRating carry the  *)
(* command's issued_at, drawn before the transaction begins and waits for  *)
(* SQLite's write lock.                                                    *)
(***************************************************************************)
EXTENDS Naturals, Sequences, FiniteSets

CONSTANTS
  Threads,      \* API threads
  LastEvent,    \* bound: events are 1..LastEvent
  EarlyStamped, \* events stamped before their transaction holds the write lock:
                \* on SQLite those of ComputePlayerRating, on PostgreSQL all
  Limit,        \* how many rows fetch_undelivered returns at most
  Deduplicate,  \* whether the publisher is wrapped in IdempotentConsumer
  MaxCrashes,   \* bound on process crashes
  MaxFaults     \* bound on failing publish and mark calls

ASSUME OutboxAssumption ==
  /\ LastEvent \in Nat
  /\ EarlyStamped \subseteq 1..LastEvent
  /\ Limit \in Nat \ {0}
  /\ Deduplicate \in BOOLEAN
  /\ MaxCrashes \in Nat
  /\ MaxFaults \in Nat

VARIABLES
  committed,  \* events in the table
  delivered,  \* those with delivered = 1
  published,  \* what reached the downstream publisher, in order
  seen,       \* IdempotentConsumer._seen, memory of the process
  pc,         \* what each thread does next
  batch,      \* rows each thread fetched and has not finished
  crashes,    \* crashes so far
  faults,     \* failed calls so far
  earlier     \* auxiliary: the events with a smaller produced_at that were
              \* in the table when the event committed

vars == <<committed, delivered, published, seen, pc, batch, crashes, faults,
          earlier>>

AllEvents == 1..LastEvent
Published == {published[i] : i \in 1..Len(published)}

TypeOK ==
  /\ committed \subseteq AllEvents
  /\ delivered \subseteq AllEvents
  /\ published \in Seq(AllEvents)
  /\ seen \subseteq AllEvents
  /\ pc \in [Threads -> {"idle", "fetch", "next", "publish", "remember", "mark"}]
  /\ batch \in [Threads -> SUBSET AllEvents]
  /\ crashes \in Nat
  /\ faults \in Nat
  /\ earlier \in [AllEvents -> SUBSET AllEvents]

Init ==
  /\ committed = {}
  /\ delivered = {}
  /\ published = << >>
  /\ seen = {}
  /\ pc = [t \in Threads |-> "idle"]
  /\ batch = [t \in Threads |-> {}]
  /\ crashes = 0
  /\ faults = 0
  /\ earlier = [e \in AllEvents |-> {}]

Goto(t, step) == pc' = [pc EXCEPT ![t] = step]

\* The row of t's batch that comes first in ORDER BY produced_at, event_id.
First(t) == CHOOSE e \in batch[t] : \A d \in batch[t] : e <= d

\* Mutant: the event is published before the transaction, which rolls back.
CommitEventTooLate(t, e) ==
  /\ pc[t] = "idle"
  /\ e \notin committed
  /\ Len(published) < LastEvent
  /\ published' = Append(published, e)
  /\ Goto(t, "fetch")
  /\ UNCHANGED <<committed, delivered, seen, batch, crashes, faults, earlier>>

\* A command commits with its event and its thread goes on to dispatch.  Under
\* the write lock an event that is stamped there is the latest so far.
CommitEvent(t, e) ==
  /\ pc[t] = "idle"
  /\ e \notin committed
  /\ e \notin EarlyStamped => \A d \in committed : d < e
  /\ committed' = committed \cup {e}
  /\ earlier' = [earlier EXCEPT ![e] = {d \in committed : d < e}]
  /\ Goto(t, "fetch")
  /\ UNCHANGED <<delivered, published, seen, batch, crashes, faults>>

\* A command that produces no event (a replay) dispatches all the same.
CommitNothing(t) ==
  /\ pc[t] = "idle"
  /\ Goto(t, "fetch")
  /\ UNCHANGED <<committed, delivered, published, seen, batch, crashes, faults, earlier>>

\* Mutant: a cursor at the last delivered row replaces the delivered flag.
FetchAfterCursor(t) ==
  /\ pc[t] = "fetch"
  /\ LET ahead == {e \in committed \ delivered : \A d \in delivered : d < e}
     IN  batch' = [batch EXCEPT ![t] =
           {e \in ahead : Cardinality({d \in ahead : d < e}) < Limit}]
  /\ Goto(t, "next")
  /\ UNCHANGED <<committed, delivered, published, seen, crashes, faults, earlier>>

\* fetch_undelivered: the first Limit undelivered rows.
Fetch(t) ==
  /\ pc[t] = "fetch"
  /\ LET undelivered == committed \ delivered
     IN  batch' = [batch EXCEPT ![t] =
           {e \in undelivered : Cardinality({d \in undelivered : d < e}) < Limit}]
  /\ Goto(t, "next")
  /\ UNCHANGED <<committed, delivered, published, seen, crashes, faults, earlier>>

\* Mutant: a row the consumer has seen is skipped and not marked.
NextRowUnmarked(t) ==
  /\ pc[t] = "next"
  /\ IF batch[t] # {} /\ Deduplicate /\ First(t) \in seen
       THEN batch' = [batch EXCEPT ![t] = @ \ {First(t)}] /\ UNCHANGED pc
       ELSE Goto(t, IF batch[t] = {} THEN "idle" ELSE "publish") /\ UNCHANGED batch
  /\ UNCHANGED <<committed, delivered, published, seen, crashes, faults, earlier>>

\* Mutant: the consumer adds the event before the inner publisher returned.
NextRowRemembered(t) ==
  /\ pc[t] = "next"
  /\ LET known == Deduplicate /\ First(t) \in seen
     IN  /\ Goto(t, IF batch[t] = {} THEN "idle" ELSE IF known THEN "mark" ELSE "publish")
         /\ seen' = IF Deduplicate /\ batch[t] # {} THEN seen \cup {First(t)} ELSE seen
  /\ UNCHANGED <<committed, delivered, published, batch, crashes, faults, earlier>>

\* The loop: stop when the batch is done, skip what the consumer has seen.
NextRow(t) ==
  /\ pc[t] = "next"
  /\ Goto(t, IF batch[t] = {} THEN "idle"
             ELSE IF Deduplicate /\ First(t) \in seen THEN "mark" ELSE "publish")
  /\ UNCHANGED <<committed, delivered, published, seen, batch, crashes, faults, earlier>>

Publish(t) ==
  /\ pc[t] = "publish"
  /\ published' = Append(published, First(t))
  /\ Goto(t, IF Deduplicate THEN "remember" ELSE "mark")
  /\ UNCHANGED <<committed, delivered, seen, batch, crashes, faults, earlier>>

\* Mutant: the consumer checks _seen and never adds to it.
RememberNothing(t) ==
  /\ pc[t] = "remember"
  /\ Goto(t, "mark")
  /\ UNCHANGED <<committed, delivered, published, seen, batch, crashes, faults, earlier>>

\* IdempotentConsumer adds the event after the inner publisher returned.
Remember(t) ==
  /\ pc[t] = "remember"
  /\ seen' = seen \cup {First(t)}
  /\ Goto(t, "mark")
  /\ UNCHANGED <<committed, delivered, published, batch, crashes, faults, earlier>>

\* Mutant: the row after the one that was published is marked.
MarkNextDelivered(t) ==
  /\ pc[t] = "mark"
  /\ delivered' = delivered \cup {First(t) + 1}
  /\ batch' = [batch EXCEPT ![t] = @ \ {First(t)}]
  /\ Goto(t, "next")
  /\ UNCHANGED <<committed, published, seen, crashes, faults, earlier>>

MarkDelivered(t) ==
  /\ pc[t] = "mark"
  /\ delivered' = delivered \cup {First(t)}
  /\ batch' = [batch EXCEPT ![t] = @ \ {First(t)}]
  /\ Goto(t, "next")
  /\ UNCHANGED <<committed, published, seen, crashes, faults, earlier>>

\* Mutants: a row whose publication failed is marked delivered; the loop goes
\* on with the next row instead of breaking.
FaultMarks(t) ==
  /\ pc[t] \in {"publish", "mark"}
  /\ faults < MaxFaults
  /\ faults' = faults + 1
  /\ delivered' = delivered \cup {First(t)}
  /\ batch' = [batch EXCEPT ![t] = {}]
  /\ Goto(t, "idle")
  /\ UNCHANGED <<committed, published, seen, crashes, earlier>>

FaultSkips(t) ==
  /\ pc[t] \in {"publish", "mark"}
  /\ faults < MaxFaults
  /\ faults' = faults + 1
  /\ batch' = [batch EXCEPT ![t] = @ \ {First(t)}]
  /\ Goto(t, "next")
  /\ UNCHANGED <<committed, delivered, published, seen, crashes, earlier>>

\* The publisher raises, dispatch breaks; or the mark raises, the caller
\* gets the exception.  Either way the row stays undelivered.
Fault(t) ==
  /\ pc[t] \in {"publish", "mark"}
  /\ faults < MaxFaults
  /\ faults' = faults + 1
  /\ batch' = [batch EXCEPT ![t] = {}]
  /\ Goto(t, "idle")
  /\ UNCHANGED <<committed, delivered, published, seen, crashes, earlier>>

\* The process dies and is restarted: tables survive, memory does not.  The
\* start-up code migrates the schema and serves requests, nothing else.
Crash ==
  /\ crashes < MaxCrashes
  /\ crashes' = crashes + 1
  /\ seen' = {}
  /\ pc' = [t \in Threads |-> "idle"]
  /\ batch' = [t \in Threads |-> {}]
  /\ UNCHANGED <<committed, delivered, published, faults, earlier>>

Dispatch(t) ==
  Fetch(t) \/ NextRow(t) \/ Publish(t) \/ Remember(t) \/ MarkDelivered(t)

Next ==
  \/ \E t \in Threads :
       \/ \E e \in AllEvents : CommitEvent(t, e)
       \/ CommitNothing(t)
       \/ Dispatch(t)
       \/ Fault(t)
  \/ Crash

\* A thread that has committed goes on to dispatch; nothing makes clients
\* send commands.
Fairness == \A t \in Threads : WF_vars(Dispatch(t))

\* Assumption on the environment, not on the code: requests keep coming.
Traffic == \A t \in Threads : WF_vars(CommitNothing(t))

Spec == Init /\ [][Next]_vars
FairSpec == Spec /\ Fairness
TrafficSpec == FairSpec /\ Traffic

----------------------------------------------------------------------------
\* At-least-once: an event is marked only after it was published, whatever
\* crashes, faults and other threads do in between.
DeliveredWasPublished == delivered \subseteq Published

\* An event is published only once it is durable: a command that rolled back
\* is never announced.
PublishedIsCommitted == Published \subseteq committed

\* What was both produced and committed before an event is seen before it
\* (ORDER BY produced_at): the limit of a fetch, a row another thread has in
\* hand, a failed publication or a crash never lets the event overtake it.
FirstSightInOrder ==
  \A i \in 1..Len(published) :
    \A d \in earlier[published[i]] : \E j \in 1..i : published[j] = d

\* Why these hold: what the threads have in hand.  A row that is about to be
\* marked was published, by this thread or, when the consumer skips it, by
\* some thread since the last restart.
RowsInHand ==
  /\ seen \subseteq Published
  /\ \A t \in Threads :
       /\ batch[t] \subseteq committed
       /\ pc[t] \in {"publish", "remember", "mark"} => batch[t] # {}
       /\ pc[t] \in {"remember", "mark"} => First(t) \in Published

\* And what makes first sights ordered: whatever was produced and committed
\* before a row a thread has in hand is in hand with it or published, although
\* other threads fetch, publish and mark the same rows meanwhile.
BatchesSkipNothing ==
  \A t \in Threads : \A e \in batch[t] :
    earlier[e] \subseteq batch[t] \cup Published

\* What was committed is delivered in the end.
EventsAreDelivered == \A e \in AllEvents : e \in committed ~> e \in delivered

\* "The downstream publisher sees each event exactly once."
SeenOnce ==
  \A i, j \in 1..Len(published) : published[i] = published[j] => i = j
=============================================================================
