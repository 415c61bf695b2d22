------------------------- MODULE CommandProperties -------------------------
(***************************************************************************)
(* What must hold of command execution, and the two abstract views of it.  *)
(***************************************************************************)
EXTENDS CommandExecution, FiniteSets

(***************************************************************************)
(* On both backends                                                        *)
(***************************************************************************)
ChangeTypes == {"MatchUpserted", "MatchFinalized", "MatchUpdatedByCorrection"}

VersionsHaveEvents ==
  \A m \in Matches :
    Cardinality({e \in outbox : e.of = m /\ e.type \in ChangeTypes}) = matches[m].version

RowsHaveEvents ==
  \A c \in Commands :
    Kind[c] = "derive" => Cardinality({e \in outbox : e.id.by = c}) = derived[c]

ProposalsHaveEvents ==
  \A p \in Commands :
    proposals[p].status # "NONE" <=> Own(p, "CorrectionProposed", MatchOf[p]) \in outbox

\* State and outbox never disagree (uow.append_events runs in the transaction
\* of the state): as many change events as a match has versions, one event
\* per derived row, one CorrectionProposed per proposal.
StateAndOutboxAgree == VersionsHaveEvents /\ RowsHaveEvents /\ ProposalsHaveEvents

\* An idempotency record is only there together with the command's effect
\* (mark_processed shares the transaction): a retry that is answered from it
\* never hides a command that did nothing.
ProcessedHasEffect ==
  \A c \in processed : \E e \in outbox : e.id.by = c

\* The correction history of a match is a chain: each entry advances the
\* version by one, later entries start at or after the version the one before
\* reached, none is ahead of the match (Match.apply_correction).
HistoryFollowsVersions ==
  \A m \in Matches :
    LET h == matches[m].history IN
    \A i \in 1..Len(h) :
      /\ h[i].new = h[i].previous + 1
      /\ h[i].new <= matches[m].version
      /\ i < Len(h) => h[i].new <= h[i + 1].previous

\* An APPROVED proposal was applied to its match, at the version it records:
\* the handler saves two aggregates and both or neither survive.
ApprovedIsApplied ==
  \A p \in Commands :
    proposals[p].status = "APPROVED" =>
      \E i \in 1..Len(matches[MatchOf[p]].history) :
        /\ matches[MatchOf[p]].history[i].correction = p
        /\ matches[MatchOf[p]].history[i].new = proposals[p].new

\* A match is finalized at most once, whoever asks and however often.
FinalizedOnce ==
  \A m \in Matches :
    Cardinality({e \in outbox : e.of = m /\ e.type = "MatchFinalized"}) <= 1

\* No lost update: whatever the interleaving, the row of every match changes
\* only as its aggregate allows, from the row that is stored.
Lifecycle(m) == INSTANCE MatchLifecycle WITH row <- matches[m], Id <- m
MatchesFollowLifecycle ==
  /\ \A m \in Matches : Lifecycle(m)!Init
  /\ [][\A m \in Matches : [Lifecycle(m)!Next]_(matches[m])]_matches

\* A command that was begun ends, committed or rolled back: no transaction
\* waits forever for another one.
EveryAttemptEnds == \A w \in Workers : pc[w] # "idle" ~> pc[w] = "idle"

(***************************************************************************)
(* Why no update is lost: the invariant MatchesFollowLifecycle rests on    *)
(***************************************************************************)
\* What the aggregate required of the row that the handler of c loaded.
Accepts(c, row) ==
  /\ Kind[c] \in {"upsert", "stats", "finalize", "approve"}
  /\ Kind[c] # "upsert" => Exists(row)
  /\ Kind[c] = "finalize" => CanFinalize(row, c)
  /\ Kind[c] = "approve" => CanCorrect(row, ProposalOf[c])

\* Which handlers reach which statement, and with what they loaded.
HandlersInOrder ==
  \A w \in Workers :
    /\ pc[w] = "idle" => base[w] = NoRow /\ pending[w] = {}
    /\ pc[w] = "check" => Kind[cmd[w]] \notin {"publish", "backfill"}
    /\ pc[w] = "loadProposal" => Kind[cmd[w]] = "approve"
    /\ pc[w] = "loadMatch" => Kind[cmd[w]] \in {"upsert", "stats", "finalize", "approve"}
    /\ pc[w] = "saveProposal" =>
         \/ Kind[cmd[w]] = "propose"
         \/ Kind[cmd[w]] = "approve" /\ Accepts(cmd[w], base[w])
    /\ pc[w] = "saveMatch" => Accepts(cmd[w], base[w])

\* Versions only grow, and a version names one content: a worker whose loaded
\* version is still the stored one has loaded the stored row.
VersionsIdentifyRows ==
  /\ \A m \in Matches : matches[m].version = 0 => matches[m] = NoRow
  /\ \A w \in Workers :
       pc[w] # "idle" =>
         LET row == matches[TargetOf(cmd[w])] IN
         /\ base[w].version <= row.version
         /\ base[w].version = row.version => base[w] = row

\* Two open transactions never wrote the same unique key.
LocksAreExclusive ==
  \A v, w \in Workers : v # w => pending[v] \cap pending[w] = {}

\* From the save of a match to the commit, its stored row stays the one that
\* was loaded and that the aggregate accepted: the version guard is checked
\* once, statements before COMMIT, and must not go stale.
WritesAreCurrent ==
  \A w \in Workers, m \in Matches :
    Key("matches", m) \in pending[w] =>
      /\ pc[w] \in {"saveStats", "mark", "commit"}
      /\ m = TargetOf(cmd[w])
      /\ base[w] = matches[m]
      /\ Accepts(cmd[w], base[w])

WriteInv ==
  /\ HandlersInOrder
  /\ VersionsIdentifyRows
  /\ LocksAreExclusive
  /\ WritesAreCurrent

(***************************************************************************)
(* On SQLite only: PostgreSQL violates these three, see the README         *)
(***************************************************************************)
\* The attempts of c that changed anything.
EffectiveAttempts(c) ==
  {e.id.attempt : e \in {o \in outbox :
     /\ o.id.by = c
     /\ o.id.tag # "own"
     /\ o.type \notin {"MatchValidationStarted", "ValidationFailed"}}}

\* "Replaying it produces no duplicate state or events": of all the attempts
\* with one command id, one at most has an effect.
ReplayHasNoEffect ==
  \A c \in Commands :
    Kind[c] \notin {"publish", "backfill"} =>
      Cardinality(EffectiveAttempts(c)) <= 1 /\ derived[c] <= 1

\* "Only proposed corrections may be approved": no proposal is applied twice.
CorrectedOnce ==
  \A m \in Matches :
    LET h == matches[m].history IN
    \A i, j \in 1..Len(h) : h[i].correction = h[j].correction => i = j

\* A correction that was applied stays APPROVED: nothing reopens it.
AppliedIsApproved ==
  \A m \in Matches :
    LET h == matches[m].history IN
    \A i \in 1..Len(h) : proposals[h[i].correction].status = "APPROVED"

\* Every command is atomic and takes effect once: command execution
\* implements the abstract specification of the API.
Atomic == INSTANCE AtomicCommands
CommandsAreAtomic == Atomic!Spec

(***************************************************************************)
(* Violated on both backends                                               *)
(***************************************************************************)
\* "Administration receives ApproveCorrection and publishes
\* CorrectionApproved": the outbox holds that event for each approval.
ApprovalIsPublished ==
  \A p \in Commands :
    proposals[p].status = "APPROVED" =>
      \E e \in outbox : e.type = "CorrectionApproved" /\ e.id.by = p

\* "Statistics consumes MatchUpdatedByCorrection and re-profiles stats": a
\* corrected player line reaches the projection the reads are served from.
CorrectionsReachProjection ==
  \A m \in Matches : []<>(projection[m] = matches[m].box)
=============================================================================
