---------------------------- MODULE MatchDomain ----------------------------
(***************************************************************************)
(* The Match and CorrectionProposal aggregates as pure operators: what     *)
(* each domain operation does to one row, and which domain events the      *)
(* handler of each command returns.  Nothing here knows about storage.     *)
(*                                                                         *)
(* Payloads are abstracted to the command that carried them: the field     *)
(* "score" of a row, say, is the command (or proposal) whose payload set   *)
(* it.  A correction proposal has the id of the command that proposed it.  *)
(***************************************************************************)
EXTENDS Naturals, Sequences

CONSTANTS
  Commands,     \* command ids, the idempotency keys the clients choose
  Matches,      \* external ids of matches
  NoCommand,    \* stands for a field no command has set yet
  Kind,         \* Kind[c]: which handler runs command c
  MatchOf,      \* MatchOf[c]: the match its payload names
  ProposalOf,   \* ProposalOf[c]: the proposal an approval names
  FullBox,      \* statistics payloads that carry both team lines
  PlayerFix,    \* proposals that correct a player line, not the score
  Unfit         \* payloads the domain refuses (0-0 score, unsupported op)

Kinds ==
  {"upsert", "stats", "finalize", "propose", "approve", "derive", "publish", "backfill"}

ASSUME CommandAssumption ==
  /\ NoCommand \notin Commands
  /\ Kind \in [Commands -> Kinds]
  /\ MatchOf \in [Commands -> Matches]
  /\ ProposalOf \in [Commands -> Commands]
  /\ FullBox \subseteq Commands
  /\ PlayerFix \subseteq Commands
  /\ Unfit \subseteq Commands

(***************************************************************************)
(* The match aggregate.  Version 0 is a match that has no row; creating    *)
(* one gives version 1.                                                    *)
(***************************************************************************)
MatchStatuses ==
  {"PROVISIONAL", "SCHEDULED", "IN_PLAY", "FINALIZED", "POSTPONED", "CANCELLED"}

Corrections == [correction : Commands, previous : Nat, new : Nat]

MatchRows ==
  [version : Nat, status : MatchStatuses, data : Commands \cup {NoCommand},
   box : Commands \cup {NoCommand}, teamBox : BOOLEAN,
   score : Commands \cup {NoCommand}, history : Seq(Corrections)]

NoRow ==
  [version |-> 0, status |-> "SCHEDULED", data |-> NoCommand, box |-> NoCommand,
   teamBox |-> FALSE, score |-> NoCommand, history |-> << >>]

Exists(row) == row.version > 0

\* Match.create on a match that has no row, Match.upsert on one that has.
\* The handler passes the status the match already has.
Upserted(row, c) ==
  [row EXCEPT !.version = @ + 1, !.data = c]

\* A payload always has player lines, and may have both team lines.
StatsRecorded(row, c) ==
  [row EXCEPT !.version = @ + 1, !.box = c, !.teamBox = @ \/ c \in FullBox]

CanFinalize(row, c) ==
  /\ row.status \in {"SCHEDULED", "IN_PLAY"}
  /\ row.teamBox
  /\ c \notin Unfit

Finalized(row, c) ==
  [row EXCEPT !.version = @ + 1, !.status = "FINALIZED", !.score = c]

CanCorrect(row, p) ==
  /\ row.status = "FINALIZED"
  /\ p \notin Unfit
  /\ p \in PlayerFix => row.box # NoCommand

\* Mutant: a correction of a player line does not advance the version.
CorrectedUnversioned(row, p) ==
  [row EXCEPT
     !.version = IF p \in PlayerFix THEN @ ELSE @ + 1,
     !.box     = IF p \in PlayerFix THEN p ELSE @,
     !.score   = IF p \in PlayerFix THEN @ ELSE p,
     !.history = Append(@, [correction |-> p, previous |-> row.version,
                            new |-> row.version + 1])]

Corrected(row, p) ==
  [row EXCEPT
     !.version = @ + 1,
     !.box     = IF p \in PlayerFix THEN p ELSE @,
     !.score   = IF p \in PlayerFix THEN @ ELSE p,
     !.history = Append(@, [correction |-> p, previous |-> row.version,
                            new |-> row.version + 1])]

\* The match a command reads and writes: an approval names only its proposal.
TargetOf(c) == IF Kind[c] = "approve" THEN MatchOf[ProposalOf[c]] ELSE MatchOf[c]

\* The row a command of each kind leaves, when the domain accepts it.
After(row, c) ==
  CASE Kind[c] = "upsert"   -> Upserted(row, c)
    [] Kind[c] = "stats"    -> StatsRecorded(row, c)
    [] Kind[c] = "finalize" -> Finalized(row, c)
    [] Kind[c] = "approve"  -> Corrected(row, ProposalOf[c])
    [] OTHER                -> row

(***************************************************************************)
(* The correction proposal.  "NONE" is a proposal that has no row.         *)
(***************************************************************************)
ProposalStatuses == {"NONE", "PROPOSED", "APPROVED"}
ProposalRows == [status : ProposalStatuses, new : Nat]

NoProposal == [status |-> "NONE", new |-> 0]
Proposed   == [status |-> "PROPOSED", new |-> 0]
ApprovedAt(version) == [status |-> "APPROVED", new |-> version]

(***************************************************************************)
(* Domain events.  Most get a fresh uuid, unique to the attempt that       *)
(* produced them and to their type.  CorrectionProposed and                *)
(* CorrectionApproved both take the id of the proposal, and                *)
(* PublicationCreated the id of its command: the "own" ids.                *)
(***************************************************************************)
EventTypes ==
  {"MatchUpserted", "MatchValidationStarted", "MatchValidated", "MatchFinalized",
   "ValidationFailed", "CorrectionProposed", "CorrectionApproved",
   "MatchUpdatedByCorrection", "DerivedRowGenerated", "PublicationCreated",
   "SeasonBackfillStarted", "SeasonBackfillCompleted"}

EventIds == [by : Commands, attempt : Nat, tag : EventTypes \cup {"own"}]
Events   == [id : EventIds, type : EventTypes, of : Matches]

Fresh(c, n, type, m) ==
  [id |-> [by |-> c, attempt |-> n, tag |-> type], type |-> type, of |-> m]

Own(p, type, m) ==
  [id |-> [by |-> p, attempt |-> 0, tag |-> "own"], type |-> type, of |-> m]

\* What the handler of c returns on attempt n, from the match row it loaded.
EventsOf(c, n, row) ==
  LET m == TargetOf(c) IN
  CASE Kind[c] \in {"upsert", "stats"} -> {Fresh(c, n, "MatchUpserted", m)}
    [] Kind[c] = "finalize" ->
         {Fresh(c, n, "MatchValidationStarted", m)} \cup
         (IF CanFinalize(row, c)
            THEN {Fresh(c, n, "MatchValidated", m), Fresh(c, n, "MatchFinalized", m)}
            ELSE {Fresh(c, n, "ValidationFailed", m)})
    [] Kind[c] = "propose" -> {Own(c, "CorrectionProposed", m)}
    [] Kind[c] = "approve" ->
         {Fresh(c, n, "MatchUpdatedByCorrection", m),
          Own(ProposalOf[c], "CorrectionApproved", m)}
    [] Kind[c] = "derive"  -> {Fresh(c, n, "DerivedRowGenerated", m)}
    [] Kind[c] = "publish" -> {Own(c, "PublicationCreated", m)}
    [] OTHER -> {Fresh(c, n, "SeasonBackfillStarted", m),
                 Fresh(c, n, "SeasonBackfillCompleted", m)}

\* INSERT ... ON CONFLICT (event_id) DO NOTHING.
Appended(outbox, events) ==
  outbox \cup {e \in events : \A o \in outbox : o.id # e.id}
=============================================================================
