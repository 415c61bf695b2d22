-------------------------- MODULE CommandExecution --------------------------
(***************************************************************************)
(* CommandRunner.run: API threads execute commands, each in one unit of    *)
(* work, one SQL statement at a time.                                      *)
(*                                                                         *)
(* A worker is a thread of the API process that runs one command.  What a  *)
(* transaction has written but not committed is named by pending[w], the   *)
(* set of keys it wrote: no other worker sees those writes, and one that   *)
(* wants to write the same unique key waits until the first transaction    *)
(* ends.  Rows become visible at Commit.  Backend chooses how transactions *)
(* start: SQLite's BEGIN IMMEDIATE admits one at a time, PostgreSQL's      *)
(* READ COMMITTED admits any number and every SELECT sees the rows         *)
(* committed by the time it runs.                                          *)
(***************************************************************************)
EXTENDS MatchDomain

CONSTANTS
  Workers,      \* threads that run commands
  Backend,      \* "sqlite" or "postgres"
  MaxAttempts   \* MaxAttempts[c], a bound: how often clients send command c

ASSUME ExecutionAssumption ==
  /\ Backend \in {"sqlite", "postgres"}
  /\ MaxAttempts \in [Commands -> Nat]

VARIABLES
  matches,      \* table matches: one row per external id
  proposals,    \* table correction_proposals: one row per proposal id
  projection,   \* tables match_player_stats and match_team_stats, per match
  derived,      \* rows each command left in ratings, standings, publications...
  processed,    \* table idempotency: command ids marked processed
  outbox,       \* table domain_events
  attempts,     \* how often each command id was sent
  pc,           \* the next statement of each worker
  cmd,          \* the command each worker runs
  try,          \* which attempt of that command this is
  base,         \* the match row the handler loaded
  pending       \* keys written by the open transaction of each worker

tables == <<matches, proposals, projection, derived, processed, outbox>>
locals == <<pc, cmd, try, base, pending>>
vars   == <<matches, proposals, projection, derived, processed, outbox,
            attempts, pc, cmd, try, base, pending>>

Statements ==
  {"idle", "check", "loadProposal", "loadMatch", "saveProposal", "saveMatch",
   "saveStats", "insertRow", "mark", "commit"}

TableNames == {"matches", "proposals", "stats", "publications", "idempotency"}
Keys       == [table : TableNames, key : Commands \cup Matches]
Key(t, k)  == [table |-> t, key |-> k]

TypeOK ==
  /\ matches \in [Matches -> MatchRows]
  /\ proposals \in [Commands -> ProposalRows]
  /\ projection \in [Matches -> Commands \cup {NoCommand}]
  /\ derived \in [Commands -> Nat]
  /\ processed \subseteq Commands
  /\ outbox \subseteq Events
  /\ attempts \in [Commands -> Nat]
  /\ pc \in [Workers -> Statements]
  /\ cmd \in [Workers -> Commands \cup {NoCommand}]
  /\ try \in [Workers -> Nat]
  /\ base \in [Workers -> MatchRows]
  /\ pending \in [Workers -> SUBSET Keys]
  /\ \A w \in Workers : pc[w] # "idle" => cmd[w] \in Commands

Init ==
  /\ matches = [m \in Matches |-> NoRow]
  /\ proposals = [c \in Commands |-> NoProposal]
  /\ projection = [m \in Matches |-> NoCommand]
  /\ derived = [c \in Commands |-> 0]
  /\ processed = {}
  /\ outbox = {}
  /\ attempts = [c \in Commands |-> 0]
  /\ pc = [w \in Workers |-> "idle"]
  /\ cmd = [w \in Workers |-> NoCommand]
  /\ try = [w \in Workers |-> 0]
  /\ base = [w \in Workers |-> NoRow]
  /\ pending = [w \in Workers |-> {}]

----------------------------------------------------------------------------
(***************************************************************************)
(* Transactions.                                                           *)
(***************************************************************************)
\* Another open transaction wrote the unique key k: the statement waits.
Blocked(w, k) == \E v \in Workers \ {w} : k \in pending[v]

Goto(w, statement) == pc' = [pc EXCEPT ![w] = statement]

Write(w, k) == pending' = [pending EXCEPT ![w] = @ \cup {k}]

\* Mutant: the context variables are reset before the last statement.
EndTransactionEarly(w) ==
  /\ cmd' = [cmd EXCEPT ![w] = NoCommand]
  /\ pending' = [pending EXCEPT ![w] = {}]
  /\ UNCHANGED <<pc, try, base>>

\* Mutant: the connection is neither committed nor rolled back when the
\* worker leaves the unit of work, so its locks stay.
EndTransactionLocked(w) ==
  /\ pc' = [pc EXCEPT ![w] = "idle"]
  /\ cmd' = [cmd EXCEPT ![w] = NoCommand]
  /\ try' = [try EXCEPT ![w] = 0]
  /\ base' = [base EXCEPT ![w] = NoRow]
  /\ UNCHANGED pending

\* The transaction ends: the worker forgets what it read and frees its keys.
EndTransaction(w) ==
  /\ pc' = [pc EXCEPT ![w] = "idle"]
  /\ cmd' = [cmd EXCEPT ![w] = NoCommand]
  /\ try' = [try EXCEPT ![w] = 0]
  /\ base' = [base EXCEPT ![w] = NoRow]
  /\ pending' = [pending EXCEPT ![w] = {}]

\* Mutants: a repository that ignores the active connection and commits its
\* write on its own, the event store, the idempotency or the corrections one.
RollBackKeepsEvents(w) ==
  /\ EndTransaction(w)
  /\ outbox' = Appended(outbox, EventsOf(cmd[w], try[w], base[w]))
  /\ UNCHANGED <<matches, proposals, projection, derived, processed>>

RollBackKeepsMark(w) ==
  /\ EndTransaction(w)
  /\ processed' = IF Key("idempotency", cmd[w]) \in pending[w]
                    THEN processed \cup {cmd[w]} ELSE processed
  /\ UNCHANGED <<matches, proposals, projection, derived, outbox>>

RollBackKeepsApproval(w) ==
  /\ EndTransaction(w)
  /\ proposals' = [p \in Commands |->
       IF Kind[cmd[w]] = "approve" /\ Key("proposals", p) \in pending[w]
         THEN ApprovedAt(base[w].version + 1) ELSE proposals[p]]
  /\ UNCHANGED <<matches, projection, derived, processed, outbox>>

RollBack(w) == EndTransaction(w) /\ UNCHANGED tables

\* Publishing and the season backfill have no idempotency repository: they
\* start at their first effect.
FirstStatement(c) ==
  CASE Kind[c] = "publish"  -> "insertRow"
    [] Kind[c] = "backfill" -> "commit"
    [] OTHER                -> "check"

\* A client sends command c, or sends it again; a free thread begins it.
Begin(w, c) ==
  /\ pc[w] = "idle"
  /\ attempts[c] < MaxAttempts[c]
  /\ Backend = "sqlite" => \A v \in Workers : pc[v] = "idle"
  /\ attempts' = [attempts EXCEPT ![c] = @ + 1]
  /\ cmd' = [cmd EXCEPT ![w] = c]
  /\ try' = [try EXCEPT ![w] = attempts[c] + 1]
  /\ Goto(w, FirstStatement(c))
  /\ UNCHANGED <<tables, base, pending>>

\* The connection is lost, a statement times out or the process dies.
Abort(w) ==
  /\ pc[w] # "idle"
  /\ RollBack(w)
  /\ UNCHANGED attempts

----------------------------------------------------------------------------
(***************************************************************************)
(* The statements of the handlers.                                         *)
(***************************************************************************)
AfterCheck(c) ==
  CASE Kind[c] = "propose" -> "saveProposal"
    [] Kind[c] = "approve" -> "loadProposal"
    [] Kind[c] = "derive"  -> "insertRow"
    [] OTHER               -> "loadMatch"

\* has_processed: a known id returns no events, and nothing is committed.
CheckProcessed(w) ==
  /\ pc[w] = "check"
  /\ IF cmd[w] \in processed
       THEN RollBack(w)
       ELSE Goto(w, AfterCheck(cmd[w])) /\ UNCHANGED <<tables, cmd, try, base, pending>>
  /\ UNCHANGED attempts

\* Mutant: ensure_can_be_approved_by is not called.
LoadProposalUnchecked(w) ==
  /\ pc[w] = "loadProposal"
  /\ IF proposals[ProposalOf[cmd[w]]].status # "NONE"
       THEN Goto(w, "loadMatch") /\ UNCHANGED <<tables, cmd, try, base, pending>>
       ELSE RollBack(w)
  /\ UNCHANGED attempts

\* The proposal must exist and still be PROPOSED (ensure_can_be_approved_by).
LoadProposal(w) ==
  /\ pc[w] = "loadProposal"
  /\ IF proposals[ProposalOf[cmd[w]]].status = "PROPOSED"
       THEN Goto(w, "loadMatch") /\ UNCHANGED <<tables, cmd, try, base, pending>>
       ELSE RollBack(w)
  /\ UNCHANGED attempts

\* What the handler does with the row it loaded: save, give up, or (a refused
\* finalization) return its events without saving or marking anything.
AfterLoad(c, row) ==
  IF Kind[c] # "upsert" /\ ~Exists(row) THEN "idle"
  ELSE CASE Kind[c] \in {"upsert", "stats"} -> "saveMatch"
         [] Kind[c] = "finalize" -> IF CanFinalize(row, c) THEN "saveMatch" ELSE "commit"
         [] OTHER -> IF CanCorrect(row, ProposalOf[c]) THEN "saveProposal" ELSE "idle"

LoadMatch(w) ==
  /\ pc[w] = "loadMatch"
  /\ LET row  == matches[TargetOf(cmd[w])]
         next == AfterLoad(cmd[w], row)
     IN  IF next = "idle"
           THEN RollBack(w)
           ELSE /\ base' = [base EXCEPT ![w] = row]
                /\ Goto(w, next)
                /\ UNCHANGED <<tables, cmd, try, pending>>
  /\ UNCHANGED attempts

\* An upsert by proposal id that compares nothing with the stored row.
SaveProposal(w) ==
  /\ pc[w] = "saveProposal"
  /\ LET c == cmd[w]
         k == Key("proposals", IF Kind[c] = "approve" THEN ProposalOf[c] ELSE c)
     IN  /\ ~Blocked(w, k)
         /\ Write(w, k)
         /\ Goto(w, IF Kind[c] = "approve" THEN "saveMatch" ELSE "mark")
  /\ UNCHANGED <<tables, attempts, cmd, try, base>>

\* Mutant: the UPDATE has no version in its WHERE.
SaveMatchUnguarded(w) ==
  /\ pc[w] = "saveMatch"
  /\ LET k == Key("matches", TargetOf(cmd[w]))
     IN  ~Blocked(w, k) /\ Write(w, k)
  /\ Goto(w, IF Kind[cmd[w]] = "stats" THEN "saveStats" ELSE "mark")
  /\ UNCHANGED <<tables, attempts, cmd, try, base>>

\* The version guard: the stored version must be the one that was loaded,
\* otherwise StaleVersionError (or a unique violation on a second INSERT).
SaveMatch(w) ==
  /\ pc[w] = "saveMatch"
  /\ LET c == cmd[w]
         k == Key("matches", TargetOf(c))
     IN  /\ ~Blocked(w, k)
         /\ IF matches[TargetOf(c)].version = base[w].version
              THEN /\ Write(w, k)
                   /\ Goto(w, IF Kind[c] = "stats" THEN "saveStats" ELSE "mark")
                   /\ UNCHANGED <<tables, cmd, try, base>>
              ELSE RollBack(w)
  /\ UNCHANGED attempts

\* The statistics projection, upserted after the match it belongs to.
SaveStats(w) ==
  /\ pc[w] = "saveStats"
  /\ LET k == Key("stats", TargetOf(cmd[w]))
     IN  ~Blocked(w, k) /\ Write(w, k)
  /\ Goto(w, "mark")
  /\ UNCHANGED <<tables, attempts, cmd, try, base>>

\* Ratings, standings and leaderboards are plain inserts with fresh ids; a
\* publication is upserted by its command id and marks nothing.
InsertRow(w) ==
  /\ pc[w] = "insertRow"
  /\ LET k == Key("publications", cmd[w])
     IN  IF Kind[cmd[w]] = "publish"
           THEN ~Blocked(w, k) /\ Write(w, k) /\ Goto(w, "commit")
           ELSE Goto(w, "mark") /\ UNCHANGED pending
  /\ UNCHANGED <<tables, attempts, cmd, try, base>>

\* Mutant: the handler forgets to mark the command.
MarkNothing(w) ==
  /\ pc[w] = "mark"
  /\ Goto(w, "commit")
  /\ UNCHANGED <<tables, attempts, cmd, try, base, pending>>

\* INSERT ... ON CONFLICT DO NOTHING: waits for a transaction that inserted
\* the same id; when the id is already there it writes nothing and passes.
MarkProcessed(w) ==
  /\ pc[w] = "mark"
  /\ LET k == Key("idempotency", cmd[w])
     IN  IF cmd[w] \in processed
           THEN UNCHANGED pending
           ELSE ~Blocked(w, k) /\ Write(w, k)
  /\ Goto(w, "commit")
  /\ UNCHANGED <<tables, attempts, cmd, try, base>>

\* append_events, then COMMIT: every pending write and the events at once.
Commit(w) ==
  /\ pc[w] = "commit"
  /\ LET c == cmd[w]
         m == TargetOf(c)
         Wrote(t, k) == Key(t, k) \in pending[w]
     IN  /\ matches' = IF Wrote("matches", m)
                         THEN [matches EXCEPT ![m] = After(base[w], c)] ELSE matches
         /\ proposals' = [p \in Commands |->
              IF ~Wrote("proposals", p) THEN proposals[p]
              ELSE IF Kind[c] = "propose" THEN Proposed
              ELSE ApprovedAt(base[w].version + 1)]
         /\ projection' = IF Wrote("stats", m)
                            THEN [projection EXCEPT ![m] = c] ELSE projection
         /\ derived' = CASE Kind[c] = "derive"  -> [derived EXCEPT ![c] = @ + 1]
                         [] Kind[c] = "publish" -> [derived EXCEPT ![c] = 1]
                         [] OTHER               -> derived
         /\ processed' = IF Wrote("idempotency", c) THEN processed \cup {c} ELSE processed
         /\ outbox' = Appended(outbox, EventsOf(c, try[w], base[w]))
  /\ EndTransaction(w)
  /\ UNCHANGED attempts

----------------------------------------------------------------------------
\* One statement of the command that worker w runs.
Step(w) ==
  \/ CheckProcessed(w)
  \/ LoadProposal(w)
  \/ LoadMatch(w)
  \/ SaveProposal(w)
  \/ SaveMatch(w)
  \/ SaveStats(w)
  \/ InsertRow(w)
  \/ MarkProcessed(w)
  \/ Commit(w)

Next ==
  \E w \in Workers :
    \/ \E c \in Commands : Begin(w, c)
    \/ Abort(w)
    \/ Step(w)

\* A thread that has begun a command keeps executing it.
Fairness == \A w \in Workers : WF_vars(Step(w))

Spec == Init /\ [][Next]_vars
FairSpec == Spec /\ Fairness
=============================================================================
