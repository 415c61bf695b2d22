--------------------------- MODULE AtomicCommands ---------------------------
(***************************************************************************)
(* What the command API promises ("ONE transaction (state + events +       *)
(* idempotency)", "replaying it produces no duplicate state or events"):   *)
(* each accepted command takes effect in one step, on the tables as they   *)
(* are at that step, and a command with an idempotency record never again. *)
(***************************************************************************)
EXTENDS MatchDomain

CONSTANT MaxAttempts   \* attempts of command c are 1..MaxAttempts[c]

VARIABLES matches, proposals, projection, derived, processed, outbox

vars == <<matches, proposals, projection, derived, processed, outbox>>

Init ==
  /\ matches = [m \in Matches |-> NoRow]
  /\ proposals = [c \in Commands |-> NoProposal]
  /\ projection = [m \in Matches |-> NoCommand]
  /\ derived = [c \in Commands |-> 0]
  /\ processed = {}
  /\ outbox = {}

Current(c) == matches[TargetOf(c)]

\* The effect every accepted command with an idempotency record has.
AcceptOnce(c, n) ==
  /\ c \notin processed
  /\ processed' = processed \cup {c}
  /\ outbox' = Appended(outbox, EventsOf(c, n, Current(c)))

CreateOrUpdateMatch(c, n) ==
  /\ Kind[c] = "upsert"
  /\ AcceptOnce(c, n)
  /\ matches' = [matches EXCEPT ![TargetOf(c)] = Upserted(@, c)]
  /\ UNCHANGED <<proposals, projection, derived>>

UpsertMatchStats(c, n) ==
  /\ Kind[c] = "stats"
  /\ Exists(Current(c))
  /\ AcceptOnce(c, n)
  /\ matches' = [matches EXCEPT ![TargetOf(c)] = StatsRecorded(@, c)]
  /\ projection' = [projection EXCEPT ![TargetOf(c)] = c]
  /\ UNCHANGED <<proposals, derived>>

FinalizeMatch(c, n) ==
  /\ Kind[c] = "finalize"
  /\ CanFinalize(Current(c), c)
  /\ Exists(Current(c))
  /\ AcceptOnce(c, n)
  /\ matches' = [matches EXCEPT ![TargetOf(c)] = Finalized(@, c)]
  /\ UNCHANGED <<proposals, projection, derived>>

\* A refusal is reported by events and not remembered: it may be repeated.
RefuseFinalization(c, n) ==
  /\ Kind[c] = "finalize"
  /\ Exists(Current(c))
  /\ ~CanFinalize(Current(c), c)
  /\ c \notin processed
  /\ outbox' = Appended(outbox, EventsOf(c, n, Current(c)))
  /\ UNCHANGED <<matches, proposals, projection, derived, processed>>

ProposeCorrection(c, n) ==
  /\ Kind[c] = "propose"
  /\ AcceptOnce(c, n)
  /\ proposals' = [proposals EXCEPT ![c] = Proposed]
  /\ UNCHANGED <<matches, projection, derived>>

ApproveCorrection(c, n) ==
  /\ Kind[c] = "approve"
  /\ proposals[ProposalOf[c]].status = "PROPOSED"
  /\ Exists(Current(c))
  /\ CanCorrect(Current(c), ProposalOf[c])
  /\ AcceptOnce(c, n)
  /\ matches' = [matches EXCEPT ![TargetOf(c)] = Corrected(@, ProposalOf[c])]
  /\ proposals' = [proposals EXCEPT ![ProposalOf[c]] = ApprovedAt(Current(c).version + 1)]
  /\ UNCHANGED <<projection, derived>>

Derive(c, n) ==
  /\ Kind[c] = "derive"
  /\ AcceptOnce(c, n)
  /\ derived' = [derived EXCEPT ![c] = @ + 1]
  /\ UNCHANGED <<matches, proposals, projection>>

\* No idempotency record: a publication is overwritten under its own id, and
\* a backfill reports a new run each time.
CreatePublication(c, n) ==
  /\ Kind[c] = "publish"
  /\ derived' = [derived EXCEPT ![c] = 1]
  /\ outbox' = Appended(outbox, EventsOf(c, n, Current(c)))
  /\ UNCHANGED <<matches, proposals, projection, processed>>

BackfillSeason(c, n) ==
  /\ Kind[c] = "backfill"
  /\ outbox' = Appended(outbox, EventsOf(c, n, Current(c)))
  /\ UNCHANGED <<matches, proposals, projection, derived, processed>>

Next ==
  \E c \in Commands : \E n \in 1..MaxAttempts[c] :
    \/ CreateOrUpdateMatch(c, n)
    \/ UpsertMatchStats(c, n)
    \/ FinalizeMatch(c, n)
    \/ RefuseFinalization(c, n)
    \/ ProposeCorrection(c, n)
    \/ ApproveCorrection(c, n)
    \/ Derive(c, n)
    \/ CreatePublication(c, n)
    \/ BackfillSeason(c, n)

Spec == Init /\ [][Next]_vars
=============================================================================
