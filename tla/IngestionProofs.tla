---------------------------- MODULE IngestionProofs ----------------------------
(***************************************************************************)
(* Proofs about the runners that ingest the matches: what they learned     *)
(* stays and a run that reports success leaves no gap, for any calendar,   *)
(* boxscores, number of runners and tools, and for any faults.             *)
(***************************************************************************)
EXTENDS Ingestion, FiniteSetTheorems, WellFoundedInduction, TLAPS

----------------------------------------------------------------------------
(***************************************************************************)
(* Numbers, boxscores and rows.                                            *)
(***************************************************************************)
\* A set of numbers has a least one.
Less == {xy \in Nat \X Nat : xy[1] < xy[2]}

LEMMA LeastNumber ==
  ASSUME NEW S \in SUBSET Nat, S # {}
  PROVE  Least(S) \in S
<1>1. IsWellFoundedOn(Less, Nat)
  BY NatLessThanWellFounded DEF OpToRel, Less
<1>2. PICK n \in S : \A m \in S : <<m, n>> \notin Less
  BY <1>1, WFMin
<1>3. ASSUME NEW m \in S PROVE n <= m
  <2>1. <<m, n>> \in Nat \X Nat /\ <<m, n>>[1] = m /\ <<m, n>>[2] = n
    OBVIOUS
  <2> QED BY <1>2, <2>1 DEF Less
<1> QED BY <1>3 DEF Least

\* The next match and the next round are among those left.
LEMMA NextInHand ==
  /\ \A S \in SUBSET Matches : S # {} => Least(S) \in S
  /\ \A S \in SUBSET Rounds : S # {} => Least(S) \in S
<1>1. Matches \subseteq Nat /\ Rounds \subseteq Nat
  BY IngestionAssumption DEF Rounds
<1> QED BY <1>1, LeastNumber

\* The scores of a boxscore that the FEB shows; no boxscore is nothing.
LEMMA PublishedScores ==
  /\ \A i \in 1..Len(Published) :
       [home |-> Published[i].home, away |-> Published[i].away] \in Scores
  /\ Scores \subseteq [home : Nat, away : Nat]
  /\ Nothing \notin Scores
<1>1. \A i \in 1..Len(Published) :
        [home |-> Published[i].home, away |-> Published[i].away] \in Scores
  BY DEF Scores
<1>2. \A i \in 1..Len(Published) : Published[i] \in [home : Nat, away : Nat, quartersAddUp : BOOLEAN]
  <2> DEFINE Boxscores == [home : Nat, away : Nat, quartersAddUp : BOOLEAN]
  <2>1. Published \in Seq(Boxscores)
    BY IngestionAssumption
  <2> HIDE DEF Boxscores
  <2>2. \A i \in 1..Len(Published) : Published[i] \in Boxscores
    BY <2>1
  <2> QED BY <2>2 DEF Boxscores
<1>3. Scores \subseteq [home : Nat, away : Nat]
  BY <1>2 DEF Scores
<1>4. \A box \in Scores : "home" \in DOMAIN box
  BY <1>3
<1>5. DOMAIN Nothing = {}
  BY DEF Nothing
<1> QED BY <1>1, <1>3, <1>4, <1>5

\* A row is not nothing, and a table of rows is a function on some matches.
LEMMA RowsOfMatches ==
  /\ Nothing \notin MatchRow
  /\ \A rows \in MatchRows : DOMAIN rows \subseteq Matches /\ rows \in [DOMAIN rows -> MatchRow]
  /\ \A known \in SUBSET Matches : \A rows \in [known -> MatchRow] : rows \in MatchRows
<1>1. \A row \in MatchRow : "round" \in DOMAIN row
  BY DEF MatchRow
<1>2. DOMAIN Nothing = {}
  BY DEF Nothing
<1>3. \A rows \in MatchRows : DOMAIN rows \subseteq Matches /\ rows \in [DOMAIN rows -> MatchRow]
  BY DEF MatchRows
<1>4. \A known \in SUBSET Matches : \A rows \in [known -> MatchRow] : rows \in MatchRows
  BY DEF MatchRows
<1> QED BY <1>1, <1>2, <1>3, <1>4

----------------------------------------------------------------------------
(***************************************************************************)
(* The invariant.                                                          *)
(***************************************************************************)
\* What a command in progress loaded: a row that the handler accepted, of a match that
\* is there; as long as no other command has written it, only its round may have been
\* repaired since.
LoadedOK(t, rows) ==
  /\ ~FinalizationRefused(t.was, t.cmd) /\ RowAfter(t.was, t.cmd) # Nothing
  /\ t.was # Nothing =>
       /\ t.cmd.match \in DOMAIN rows /\ t.was.round \in {0, Calendar[t.cmd.match].round}
       /\ t.was.version <= rows[t.cmd.match].version
       /\ t.was.version = rows[t.cmd.match].version =>
            /\ t.was.stats = rows[t.cmd.match].stats /\ t.was.status = rows[t.cmd.match].status
            /\ t.was.score = rows[t.cmd.match].score

\* The tables of the API, and its commands in progress.
Databases == [rows : MatchRows, done : SUBSET CommandIds, refreshed : BOOLEAN,
              open : SUBSET Transactions]

\* The round of a row is the calendar's or unknown, and a mark says what was done:
\* the row of a marked match is there, with statistics when those were marked.
ApiOK(db) ==
  /\ db \in Databases
  /\ \A m \in DOMAIN db.rows : db.rows[m].round \in {0, Calendar[m].round}
  /\ \A id \in db.done :
       /\ id[1] \in {"match", "stats"} => id[3] \in DOMAIN db.rows
       /\ id[1] = "stats" => db.rows[id[3]].stats # Nothing
  /\ \A t \in db.open : LoadedOK(t, db.rows)

\* What the rows of the API keep from one to the next.
Learned(old, new) ==
  /\ DOMAIN old \subseteq DOMAIN new
  /\ \A m \in DOMAIN old :
       /\ new[m].round \in {0, Calendar[m].round}
       /\ old[m].stats # Nothing => new[m].stats # Nothing
       /\ old[m].status = "FINALIZED" => new[m].status = "FINALIZED" /\ new[m].score = old[m].score

\* A match is there, and its statistics too unless they met a conflict.
HasStats(m, job, rows) ==
  m \in DOMAIN rows /\ (rows[m].stats # Nothing \/ m \in job.conflicted)

\* A runner posts for the match in hand, with the round of the calendar or none; an
\* ingestor posts the statistics last; it left statistics for every match it has
\* been through, unless it counted a failure or met a conflict; and what
\* finalize_pending has listed is still there.
JobInv(job, rows) ==
  job.tool # "idle" =>
    /\ job.todo # << >> => job.tasks # {}
    /\ job.tool # "finalize" => \A m \in job.tasks : job.round \in {0, Calendar[m].round}
    /\ job.tool \in {"auto", "season", "match"} =>
         \/ job.todo = << >>
         \/ /\ Len(job.todo) = 2 /\ job.todo[1].kind = "match" /\ job.todo[2].kind = "stats"
            /\ job.todo[1].match = Least(job.tasks) /\ job.todo[2].match = Least(job.tasks)
         \/ /\ Len(job.todo) = 1 /\ job.todo[1].kind = "stats"
            /\ job.todo[1].match = Least(job.tasks)
    /\ job.tool \in {"season", "match"} /\ job.failed = 0 =>
         \A m \in job.planned \ job.tasks : HasStats(m, job, rows)
    /\ job.tool = "finalize" /\ job.tasks # {} =>
         /\ job.listed \in MatchRows /\ job.tasks \subseteq DOMAIN job.listed
         /\ DOMAIN job.listed \subseteq DOMAIN rows

\* A runner waits for one command at most: the next one it has to post.
WaitsOK ==
  /\ \A t \in api.open : \A r \in t.waits :
       Working(r) /\ run[r].todo # << >> /\ Head(run[r].todo) = t.cmd
  /\ \A t, u \in api.open : \A r \in t.waits : r \in u.waits => t = u

IngestionInv ==
  ApiOK(api) /\ (\A r \in Runners : JobInv(run[r], api.rows)) /\ WaitsOK

----------------------------------------------------------------------------
(***************************************************************************)
(* The API.                                                                *)
(***************************************************************************)
\* The commands tell their fields.
LEMMA CommandShape ==
  ASSUME NEW cmd \in Commands
  PROVE  /\ cmd.kind \in {"match", "stats", "finalize"} /\ cmd.match \in Matches
         /\ cmd.id \in CommandIds /\ cmd.id[1] = cmd.kind /\ cmd.id[3] = cmd.match
         /\ cmd.kind = "match" => /\ cmd.competition \in Competitions /\ cmd.round \in Rounds
                                  /\ cmd.round \in {0, Calendar[cmd.match].round}
         /\ cmd.kind = "stats" => cmd.box \in Scores
         /\ cmd.kind = "finalize" => cmd.score \in Scores
<1>1. CASE cmd \in MatchCommands
  BY <1>1 DEF Commands, MatchCommands
<1>2. CASE cmd \in StatsCommands
  BY <1>2 DEF Commands, StatsCommands
<1>3. CASE cmd \in FinalizeCommands
  BY <1>3 DEF Commands, FinalizeCommands
<1> QED BY <1>1, <1>2, <1>3 DEF Commands

\* The row that a command leaves has the next version and keeps what the loaded one had.
LEMMA RowLeft ==
  ASSUME NEW was \in MatchRow \cup {Nothing}, NEW cmd \in Commands,
         RowAfter(was, cmd) # Nothing, ~FinalizationRefused(was, cmd),
         was # Nothing => was.round \in {0, Calendar[cmd.match].round}
  PROVE  LET row == RowAfter(was, cmd) IN
         /\ row \in MatchRow /\ row.round \in {0, Calendar[cmd.match].round}
         /\ cmd.kind = "stats" => row.stats # Nothing /\ was # Nothing
         /\ was # Nothing =>
              /\ row.version = was.version + 1 /\ (was.round # 0 => row.round # 0)
              /\ was.stats # Nothing => row.stats # Nothing
              /\ was.status = "FINALIZED" => row.status = "FINALIZED" /\ row.score = was.score
<1> DEFINE m == cmd.match
           row == RowAfter(was, cmd)
<1>1. was # Nothing => was \in MatchRow /\ was.version \in Nat /\ was.version + 1 \in Nat
                       /\ was.round \in {0, Calendar[m].round}
  BY DEF MatchRow
<1>2. CASE cmd.kind = "match" /\ was # Nothing
  <2> DEFINE round == IF cmd.round = 0 THEN was.round ELSE cmd.round
             version == was.version + 1
  <2>1. row = [was EXCEPT !.competition = cmd.competition, !.version = version, !.round = round]
    BY <1>2 DEF RowAfter, UpdateMatch
  <2>2. cmd.competition \in Competitions /\ cmd.round \in Rounds
        /\ cmd.round \in {0, Calendar[m].round} /\ version \in Nat
    BY <1>1, <1>2, CommandShape
  <2>3. round \in Rounds /\ round \in {0, Calendar[m].round} /\ (was.round # 0 => round # 0)
    BY <1>1, <1>2, <2>2 DEF MatchRow
  <2> HIDE DEF m, row, round, version
  <2>4. row \in MatchRow /\ row.round = round /\ row.version = version
        /\ row.stats = was.stats /\ row.status = was.status /\ row.score = was.score
    BY <1>1, <1>2, <2>1, <2>2, <2>3 DEF MatchRow
  <2> QED BY <1>2, <2>3, <2>4 DEF m, row, version
<1>3. CASE cmd.kind = "match" /\ was = Nothing
  <2>1. row = [round |-> cmd.round, competition |-> cmd.competition, version |-> 1,
               status |-> "SCHEDULED", score |-> Nothing, stats |-> Nothing]
    BY <1>3 DEF RowAfter
  <2>2. cmd.competition \in Competitions /\ cmd.round \in Rounds
        /\ cmd.round \in {0, Calendar[m].round}
    BY <1>3, CommandShape
  <2>3. row \in MatchRow /\ row.round \in {0, Calendar[m].round}
    BY <2>1, <2>2 DEF MatchRow
  <2> QED BY <1>3, <2>3
<1>4. CASE cmd.kind = "stats"
  <2> DEFINE version == was.version + 1
  <2>1. was # Nothing /\ row = [was EXCEPT !.stats = cmd.box, !.version = version]
    BY <1>4 DEF RowAfter
  <2>2. cmd.box \in Scores /\ version \in Nat
    BY <1>1, <1>4, <2>1, CommandShape
  <2> HIDE DEF m, row, version
  <2>3. row \in MatchRow /\ row.round = was.round /\ row.stats = cmd.box /\ row.version = version
        /\ row.status = was.status /\ row.score = was.score
    BY <1>1, <2>1, <2>2 DEF MatchRow
  <2> QED BY <1>1, <1>4, <2>1, <2>2, <2>3, PublishedScores DEF m, row, version
<1>5. CASE cmd.kind = "finalize"
  <2> DEFINE version == was.version + 1
  <2>1. /\ was # Nothing
        /\ row = [was EXCEPT !.status = "FINALIZED", !.score = cmd.score, !.version = version]
    BY <1>5 DEF RowAfter
  <2>2. cmd.score \in Scores /\ version \in Nat /\ was.status # "FINALIZED"
    BY <1>1, <1>5, <2>1, CommandShape DEF FinalizationRefused
  <2> HIDE DEF m, row, version
  <2>3. row \in MatchRow /\ row.round = was.round /\ row.stats = was.stats /\ row.version = version
    BY <1>1, <2>1, <2>2 DEF MatchRow
  <2> QED BY <1>1, <1>5, <2>1, <2>2, <2>3 DEF m, row, version
<1> QED BY <1>2, <1>3, <1>4, <1>5, CommandShape

\* Rows as they are keep everything.
LEMMA NothingForgotten ==
  ASSUME NEW db, ApiOK(db)
  PROVE  Learned(db.rows, db.rows)
BY DEF ApiOK, Learned

\* What is answered at once to a command; one known for done has its statistics.
LEMMA AnsweredAtOnce ==
  ASSUME ApiOK(api), NEW cmd \in Commands, Execute(cmd) # "under way"
  PROVE  /\ Execute(cmd) \in {"done", "failed"}
         /\ Execute(cmd) = "done" /\ cmd.kind = "stats" =>
              cmd.match \in DOMAIN api.rows /\ api.rows[cmd.match].stats # Nothing
<1>1. Execute(cmd) \in {"done", "failed"}
  BY DEF Execute
<1>2. CASE cmd.id \in api.done
  BY <1>1, <1>2, CommandShape DEF ApiOK
<1>3. CASE cmd.id \notin api.done
  <2>1. Execute(cmd) = "done" => cmd.kind = "finalize"
    BY <1>3 DEF Execute, FinalizationRefused
  <2> QED BY <1>1, <2>1
<1> QED BY <1>2, <1>3

\* The round that is lost, if one is, had been repaired under a command in progress.
RoundsKept ==
  \A m \in DOMAIN api.rows :
    api.rows[m].round # 0 => api'.rows[m].round # 0 \/ OvertakenRepair(m)

\* A command that ends without effect leaves the rest in progress.
LEMMA RolledBackKeeps ==
  ASSUME IngestionInv, NEW t \in api.open, api' = RolledBack(t)
  PROVE  /\ ApiOK(api') /\ Learned(api.rows, api'.rows) /\ RoundsKept
         /\ api'.open = api.open \ {t} /\ api'.rows = api.rows
<1>1. ApiOK(api)
  BY DEF IngestionInv
<1>2. /\ api' \in Databases /\ api'.rows = api.rows /\ api'.done = api.done
      /\ api'.open = api.open \ {t}
  BY <1>1 DEF ApiOK, Databases, RolledBack
<1>3. ApiOK(api')
  BY <1>1, <1>2 DEF ApiOK
<1>4. Learned(api.rows, api'.rows) /\ RoundsKept
  BY <1>1, <1>2, NothingForgotten DEF RoundsKept
<1> QED BY <1>2, <1>3, <1>4

\* A table of rows with one more, or with another row for a match.
LEMMA RowsWith ==
  ASSUME NEW rows \in MatchRows, NEW m \in Matches, NEW row \in MatchRow
  PROVE  /\ With(rows, m, row) \in MatchRows
         /\ DOMAIN With(rows, m, row) = DOMAIN rows \cup {m} /\ With(rows, m, row)[m] = row
         /\ \A k \in DOMAIN rows \ {m} : With(rows, m, row)[k] = rows[k]
<1> DEFINE known == DOMAIN rows \cup {m}
<1>1. DOMAIN rows \subseteq Matches /\ rows \in [DOMAIN rows -> MatchRow]
  BY RowsOfMatches
<1>2. With(rows, m, row) \in [known -> MatchRow]
  BY <1>1 DEF With
<1>3. known \in SUBSET Matches
  BY <1>1
<1>4. With(rows, m, row) \in MatchRows
  BY <1>2, <1>3, RowsOfMatches
<1> QED BY <1>4 DEF With

\* A command that commits keeps what was learned, whatever was committed since it
\* loaded its row, except for a round repaired since; and statistics are left.
LEMMA CommittedKeeps ==
  ASSUME IngestionInv, NEW t \in api.open, Fresh(t), api' = Committed(t)
  PROVE  /\ ApiOK(api') /\ Learned(api.rows, api'.rows) /\ RoundsKept
         /\ api'.open = api.open \ {t}
         /\ t.cmd.kind = "stats" =>
              t.cmd.match \in DOMAIN api'.rows /\ api'.rows[t.cmd.match].stats # Nothing
<1> DEFINE cmd == t.cmd
           m == cmd.match
           row == RowAfter(t.was, cmd)
           rows == With(api.rows, m, row)
<1>1. /\ api \in Databases /\ api.rows \in MatchRows /\ api.open \in SUBSET Transactions
      /\ \A k \in DOMAIN api.rows : api.rows[k].round \in {0, Calendar[k].round}
      /\ \A id \in api.done : /\ id[1] \in {"match", "stats"} => id[3] \in DOMAIN api.rows
                              /\ id[1] = "stats" => api.rows[id[3]].stats # Nothing
      /\ \A u \in api.open : LoadedOK(u, api.rows)
  BY DEF IngestionInv, ApiOK, Databases
<1>2. t \in Transactions /\ cmd \in Commands /\ t.was \in MatchRow \cup {Nothing}
  BY <1>1 DEF Transactions
<1>3. /\ cmd.kind \in {"match", "stats", "finalize"} /\ m \in Matches
      /\ cmd.id \in CommandIds /\ cmd.id[1] = cmd.kind /\ cmd.id[3] = m
  BY <1>2, CommandShape
<1>4. /\ row \in MatchRow /\ row.round \in {0, Calendar[m].round}
      /\ cmd.kind = "stats" => row.stats # Nothing /\ t.was # Nothing
      /\ t.was # Nothing =>
           /\ row.version = t.was.version + 1 /\ (t.was.round # 0 => row.round # 0)
           /\ t.was.stats # Nothing => row.stats # Nothing
           /\ t.was.status = "FINALIZED" => row.status = "FINALIZED" /\ row.score = t.was.score
  <2>1. LoadedOK(t, api.rows)
    BY <1>1
  <2>2. ~FinalizationRefused(t.was, cmd) /\ row # Nothing
        /\ (t.was # Nothing => t.was.round \in {0, Calendar[m].round})
    BY <2>1 DEF LoadedOK
  <2> QED BY <1>2, <2>2, RowLeft
\* What was loaded is what is replaced, apart from the round
<1>5. m \in DOMAIN api.rows =>
        /\ t.was # Nothing /\ t.was.version = api.rows[m].version
        /\ t.was.stats = api.rows[m].stats /\ t.was.status = api.rows[m].status
        /\ t.was.score = api.rows[m].score
  BY <1>1 DEF Fresh, LoadedOK
<1> HIDE DEF row
<1>6. /\ rows \in MatchRows /\ DOMAIN rows = DOMAIN api.rows \cup {m} /\ rows[m] = row
      /\ \A k \in DOMAIN api.rows \ {m} : rows[k] = api.rows[k]
  BY <1>1, <1>3, <1>4, RowsWith
<1>7. /\ api' \in Databases /\ api'.rows = rows /\ api'.done = api.done \cup {cmd.id}
      /\ api'.open = api.open \ {t}
  <2>1. api' = [api EXCEPT !.rows = rows, !.done = api.done \cup {cmd.id}, !.open = api.open \ {t}]
    BY DEF Committed, row
  <2>2. api.done \cup {cmd.id} \in SUBSET CommandIds /\ api.open \ {t} \in SUBSET Transactions
    BY <1>1, <1>3 DEF Databases
  <2> HIDE DEF rows, cmd
  <2> QED BY <1>1, <1>6, <2>1, <2>2 DEF Databases
<1> HIDE DEF rows
<1>8. Learned(api.rows, rows)
  <2>1. ASSUME NEW k \in DOMAIN api.rows
        PROVE  /\ rows[k].round \in {0, Calendar[k].round}
               /\ api.rows[k].stats # Nothing => rows[k].stats # Nothing
               /\ api.rows[k].status = "FINALIZED" =>
                    rows[k].status = "FINALIZED" /\ rows[k].score = api.rows[k].score
    <3>1. CASE k = m
      BY <1>4, <1>5, <1>6, <3>1
    <3>2. CASE k # m
      BY <1>1, <1>6, <3>2
    <3> QED BY <3>1, <3>2
  <2> QED BY <1>6, <2>1 DEF Learned
<1>9. RoundsKept
  <2> SUFFICES ASSUME NEW k \in DOMAIN api.rows, api.rows[k].round # 0, rows[k].round = 0
               PROVE  OvertakenRepair(k)
    BY <1>7 DEF RoundsKept
  <2>1. k = m
    BY <1>6
  <2>2. t.was # Nothing /\ t.was.version = api.rows[m].version
    BY <1>5, <2>1
  <2>3. t.was.round = 0
    BY <1>4, <1>6, <2>1, <2>2
  <2>4. t \notin api'.open
    BY <1>7
  <2> QED BY <2>1, <2>2, <2>3, <2>4 DEF OvertakenRepair
<1>10. \A k \in DOMAIN rows : rows[k].round \in {0, Calendar[k].round}
  BY <1>1, <1>4, <1>6
<1>11. ASSUME NEW id \in api.done \cup {cmd.id}
       PROVE  /\ id[1] \in {"match", "stats"} => id[3] \in DOMAIN rows
              /\ id[1] = "stats" => rows[id[3]].stats # Nothing
  <2>1. CASE id = cmd.id
    BY <1>3, <1>4, <1>6, <2>1
  <2>2. CASE id \in api.done
    <3>1. /\ id[1] \in {"match", "stats"} => id[3] \in DOMAIN api.rows
          /\ id[1] = "stats" => api.rows[id[3]].stats # Nothing
      BY <1>1, <2>2
    <3> QED BY <1>8, <3>1 DEF Learned
  <2> QED BY <2>1, <2>2
<1>12. ASSUME NEW u \in api.open PROVE LoadedOK(u, rows)
  <2> DEFINE k == u.cmd.match
  <2>1. LoadedOK(u, api.rows) /\ u \in Transactions
    BY <1>1
  <2>2. CASE u.was = Nothing
    BY <2>1, <2>2 DEF LoadedOK
  <2>3. CASE u.was # Nothing
    <3>1. /\ ~FinalizationRefused(u.was, u.cmd) /\ RowAfter(u.was, u.cmd) # Nothing
          /\ k \in DOMAIN api.rows /\ u.was.round \in {0, Calendar[k].round}
          /\ u.was.version <= api.rows[k].version
          /\ u.was.version = api.rows[k].version =>
               /\ u.was.stats = api.rows[k].stats /\ u.was.status = api.rows[k].status
               /\ u.was.score = api.rows[k].score
      BY <2>1, <2>3 DEF LoadedOK
    <3>2. CASE k = m
      <4>1. u.was.version \in Nat /\ api.rows[m].version \in Nat
        BY <1>1, <2>1, <2>3, <3>1, <3>2, RowsOfMatches DEF Transactions, MatchRow
      <4>2. rows[m].version = api.rows[m].version + 1
        BY <1>4, <1>5, <1>6, <3>1, <3>2
      <4>3. u.was.version <= rows[m].version /\ u.was.version # rows[m].version
        BY <3>1, <3>2, <4>1, <4>2
      <4> QED BY <1>6, <3>1, <3>2, <4>3 DEF LoadedOK
    <3>3. CASE k # m
      BY <1>6, <3>1, <3>3 DEF LoadedOK
    <3> QED BY <3>2, <3>3
  <2> QED BY <2>2, <2>3
<1>13. ApiOK(api')
  BY <1>7, <1>10, <1>11, <1>12 DEF ApiOK
<1> QED BY <1>4, <1>6, <1>7, <1>8, <1>9, <1>13

----------------------------------------------------------------------------
(***************************************************************************)
(* The steps of a runner.                                                  *)
(***************************************************************************)
\* What a step may do to the rows, and when a run may report success.
KeepsLearned ==
  \A m \in DOMAIN api.rows :
    LET old == api.rows[m]
        new == api'.rows[m]
    IN  /\ new.round \in {0, Calendar[m].round}
        /\ old.round # 0 => new.round # 0 \/ OvertakenRepair(m)
        /\ old.stats # Nothing => new.stats # Nothing
        /\ old.status = "FINALIZED" => new.status = "FINALIZED" /\ new.score = old.score

ReportsNoGap ==
  \A r \in Runners :
    (run[r].tool \in {"season", "match"} /\ run'[r] = Stop(0)) =>
      \A m \in run[r].planned :
        /\ m \in DOMAIN api'.rows
        /\ api'.rows[m].stats # Nothing \/ m \in run[r].conflicted

StepOK == IngestionTypeOK' /\ IngestionInv' /\ KeepsLearned /\ ReportsNoGap

\* What a job has been through stays done while the API learns.
LEMMA JobsAreKept ==
  ASSUME NEW old, NEW new, Learned(old, new), NEW job, JobInv(job, old)
  PROVE  JobInv(job, new)
<1>1. \A m : HasStats(m, job, old) => HasStats(m, job, new)
  BY DEF Learned, HasStats
<1> QED BY <1>1 DEF Learned, JobInv

\* A runner is at work, or stopped with nothing left to promise.
LEMMA RunnerShape ==
  ASSUME IngestionTypeOK, NEW r \in Runners
  PROVE  /\ run[r] \in Jobs \cup Stopped
         /\ Working(r) => run[r] \in Jobs
         /\ run[r] \in Jobs => Working(r)
<1>1. run[r] \in Jobs \cup Stopped
  BY DEF IngestionTypeOK
<1>2. run[r] \in Stopped => run[r].tool = "idle"
  BY DEF Stopped
<1>3. run[r] \in Jobs => run[r].tool # "idle"
  BY DEF Jobs
<1> QED BY <1>1, <1>2, <1>3 DEF Working

LEMMA StoppedJob ==
  ASSUME NEW exit \in {0, 1, 3, 4}
  PROVE  /\ Stop(exit) \in Stopped /\ Stop(exit).tool = "idle" /\ Stop(exit).exit = exit
         /\ \A rows : JobInv(Stop(exit), rows)
<1>1. Stop(exit) \in Stopped /\ Stop(exit).tool = "idle" /\ Stop(exit).exit = exit
  BY DEF Stop, Idle, Stopped
<1> QED BY <1>1 DEF JobInv

\* No job at work is that of a run that ended well.
LEMMA NotOver == \A job : job \in Jobs \/ job.exit # 0 => job # Stop(0)
<1>1. Stop(0).tool = "idle" /\ Stop(0).exit = 0
  BY StoppedJob
<1>2. \A job \in Jobs : job.tool # "idle"
  BY DEF Jobs
<1> QED BY <1>1, <1>2

\* Faults are counted up to their bound.
LEMMA FaultsCounted ==
  ASSUME IngestionTypeOK, Fault \/ UNCHANGED faults
  PROVE  faults' \in 0..MaxFaults
<1>1. MaxFaults \in Nat /\ faults \in 0..MaxFaults
  BY IngestionAssumption DEF IngestionTypeOK
<1> QED BY <1>1 DEF Fault

\* A step, of a runner or of the server, that leaves the FEB alone.
LEMMA StepKept ==
  ASSUME IngestionTypeOK, IngestionInv, UNCHANGED <<ingestDay, feed>>,
         Fault \/ UNCHANGED faults, run' \in [Runners -> Jobs \cup Stopped],
         ApiOK(api'), Learned(api.rows, api'.rows), RoundsKept,
         \A r \in Runners : JobInv(run'[r], api'.rows), WaitsOK', ReportsNoGap
  PROVE  StepOK
<1>1. IngestionTypeOK'
  <2>1. faults' \in 0..MaxFaults
    BY FaultsCounted
  <2>2. api' \in [rows : MatchRows, done : SUBSET CommandIds, refreshed : BOOLEAN,
                  open : SUBSET Transactions]
    BY DEF ApiOK, Databases
  <2> QED BY <2>1, <2>2 DEF IngestionTypeOK
<1>2. IngestionInv'
  BY DEF IngestionInv
<1>3. KeepsLearned
  BY DEF KeepsLearned, Learned, RoundsKept
<1> QED BY <1>1, <1>2, <1>3 DEF StepOK

\* The job of one runner changes; no other runner's does.
LEMMA OneRunner ==
  ASSUME IngestionTypeOK, NEW r \in Runners, NEW job \in Jobs \cup Stopped, Put(r, job)
  PROVE  /\ run' \in [Runners -> Jobs \cup Stopped] /\ run'[r] = job
         /\ \A q \in Runners \ {r} : run'[q] = run[q]
BY DEF Put, IngestionTypeOK

\* A step of one runner after which it waits for nothing.
LEMMA StepOfRunner ==
  ASSUME IngestionTypeOK, IngestionInv, NEW r \in Runners, NEW job \in Jobs \cup Stopped,
         Put(r, job), UNCHANGED <<ingestDay, feed>>, Fault \/ UNCHANGED faults,
         ApiOK(api'), Learned(api.rows, api'.rows), RoundsKept, JobInv(job, api'.rows),
         \A u \in api'.open : r \notin u.waits /\ (u \in api.open \/ u.waits = {}),
         job = Stop(0) /\ run[r].tool \in {"season", "match"} =>
           \A m \in run[r].planned : HasStats(m, run[r], api'.rows)
  PROVE  StepOK
<1>1. /\ run' \in [Runners -> Jobs \cup Stopped] /\ run'[r] = job
      /\ \A q \in Runners \ {r} : run'[q] = run[q]
  BY OneRunner
<1>2. ASSUME NEW q \in Runners PROVE JobInv(run'[q], api'.rows)
  <2>1. CASE q = r
    BY <1>1, <2>1
  <2>2. CASE q # r
    <3>1. run'[q] = run[q] /\ JobInv(run[q], api.rows)
      BY <1>1, <2>2 DEF IngestionInv
    <3>2. JobInv(run[q], api'.rows)
      BY <3>1, JobsAreKept
    <3> QED BY <3>1, <3>2
  <2> QED BY <2>1, <2>2
<1>3. WaitsOK'
  <2>1. \A u \in api'.open : u.waits \subseteq Runners
    BY DEF ApiOK, Databases, Transactions
  <2>2. ASSUME NEW u \in api'.open, NEW q \in u.waits
        PROVE  (Working(q) /\ run[q].todo # << >> /\ Head(run[q].todo) = u.cmd)'
    <3>1. u \in api.open /\ q # r /\ q \in Runners
      BY <2>1, <2>2
    <3>2. Working(q) /\ run[q].todo # << >> /\ Head(run[q].todo) = u.cmd
      BY <2>2, <3>1 DEF IngestionInv, WaitsOK
    <3> QED BY <1>1, <3>1, <3>2 DEF Working
  <2>3. ASSUME NEW u \in api'.open, NEW v \in api'.open, NEW q \in u.waits, q \in v.waits
        PROVE  u = v
    <3>1. u \in api.open /\ v \in api.open
      BY <2>3
    <3> QED BY <2>3, <3>1 DEF IngestionInv, WaitsOK
  <2> QED BY <2>2, <2>3 DEF WaitsOK
<1>4. ReportsNoGap
  <2> SUFFICES ASSUME NEW q \in Runners, run[q].tool \in {"season", "match"}, run'[q] = Stop(0)
               PROVE  \A m \in run[q].planned : HasStats(m, run[q], api'.rows)
    BY DEF ReportsNoGap, HasStats
  <2>1. q = r
    <3>1. run[q] # Stop(0)
      BY StoppedJob
    <3> QED BY <1>1, <3>1
  <2> QED BY <1>1, <2>1
<1> QED BY <1>1, <1>2, <1>3, <1>4, StepKept

\* A step of one runner that leaves the API alone and does not report success.
LEMMA QuietStep ==
  ASSUME IngestionTypeOK, IngestionInv, NEW r \in Runners, NEW job \in Jobs \cup Stopped,
         Put(r, job), UNCHANGED <<ingestDay, feed, api>>, Fault \/ UNCHANGED faults,
         JobInv(job, api.rows), job \in Jobs \/ job.exit # 0, ~Waiting(r)
  PROVE  StepOK
<1>1. ApiOK(api) /\ ApiOK(api')
  BY DEF IngestionInv
<1>2. Learned(api.rows, api'.rows) /\ RoundsKept
  BY <1>1, NothingForgotten DEF RoundsKept
<1>3. job # Stop(0)
  BY NotOver
<1>4. \A u \in api'.open : r \notin u.waits /\ (u \in api.open \/ u.waits = {})
  BY DEF Waiting
<1> QED BY <1>1, <1>2, <1>3, <1>4, StepOfRunner

\* A runner with nothing to post waits for nothing.
LEMMA AtRest ==
  ASSUME IngestionTypeOK, IngestionInv, NEW r \in Runners,
         ~Working(r) \/ run[r].tasks = {} \/ run[r].todo = << >>
  PROVE  ~Waiting(r)
<1>1. ~Working(r) \/ run[r].todo = << >>
  BY DEF IngestionInv, JobInv, Working
<1> QED BY <1>1 DEF Waiting, IngestionInv, WaitsOK

\* A task that is done leaves the others.
LEMMA DoneTask ==
  ASSUME NEW job \in Jobs, job.tasks # {}
  PROVE  LET done == TaskDone(job) IN
         /\ done \in Jobs /\ done.tool = job.tool /\ done.round = job.round
         /\ done.tasks = job.tasks \ {Least(job.tasks)} /\ done.planned = job.planned
         /\ done.todo = << >> /\ done.failed = job.failed /\ done.conflicted = job.conflicted
         /\ done.tasks # {} => done.listed = job.listed
<1> DEFINE left == job.tasks \ {Least(job.tasks)}
           kept == IF Cardinality(job.tasks) = 1 THEN Nothing ELSE job.listed
           done == [job EXCEPT !.tasks = left, !.todo = << >>, !.tries = 0, !.listed = kept]
<1>1. TaskDone(job) = done
  BY DEF TaskDone
<1>2. job.tasks \in SUBSET Matches /\ job.listed \in MatchRows \cup {Nothing}
  BY DEF Jobs
<1>3. left # {} => kept = job.listed
  <2>1. IsFiniteSet(job.tasks)
    BY <1>2, IngestionAssumption, FS_Subset
  <2>2. Cardinality(job.tasks) = 1 => \E x : job.tasks = {x}
    BY <2>1, FS_Singleton
  <2>3. Least(job.tasks) \in job.tasks
    BY <1>2, NextInHand
  <2> QED BY <2>2, <2>3
<1>4. left \in SUBSET Matches /\ kept \in MatchRows \cup {Nothing} /\ << >> \in Seq(Commands)
      /\ 0 \in 0..MaxRetries
  BY <1>2, IngestionAssumption
<1> HIDE DEF left, kept
<1>5. /\ done \in Jobs /\ done.tool = job.tool /\ done.round = job.round
      /\ done.tasks = left /\ done.planned = job.planned
      /\ done.todo = << >> /\ done.failed = job.failed /\ done.listed = kept
      /\ done.conflicted = job.conflicted
  BY <1>4 DEF Jobs
<1> HIDE DEF done
<1> QED BY <1>1, <1>3, <1>5 DEF left

\* It is done rightly when an ingestor leaves the statistics of the match, or a conflict.
LEMMA DoneTaskInv ==
  ASSUME NEW job \in Jobs, job.tasks # {}, NEW rows, JobInv(job, rows),
         job.tool \in {"season", "match"} =>
           HasStats(Least(job.tasks), job, rows)
  PROVE  JobInv(TaskDone(job), rows)
<1> DEFINE done == TaskDone(job)
<1>1. /\ done \in Jobs /\ done.tool = job.tool /\ done.round = job.round
      /\ done.tasks = job.tasks \ {Least(job.tasks)} /\ done.planned = job.planned
      /\ done.todo = << >> /\ done.failed = job.failed /\ done.conflicted = job.conflicted
      /\ done.tasks # {} => done.listed = job.listed
  BY DoneTask
<1>2. job.tool # "idle"
  BY DEF Jobs
<1> HIDE DEF done
<1> QED BY <1>1, <1>2 DEF JobInv, HasStats, done

\* A task that fails is counted, or ends the run with a failure.
LEMMA FailedTask ==
  ASSUME NEW job \in Jobs, job.tasks # {}, NEW rows, JobInv(job, rows)
  PROVE  /\ TaskFailed(job) \in Jobs \cup Stopped /\ JobInv(TaskFailed(job), rows)
         /\ TaskFailed(job) \in Jobs \/ TaskFailed(job).exit # 0
<1>1. CASE job.tool = "match"
  <2>1. TaskFailed(job) = Stop(4)
    BY <1>1 DEF TaskFailed
  <2>2. Stop(4) \in Stopped /\ Stop(4).exit = 4 /\ JobInv(Stop(4), rows)
    BY StoppedJob
  <2> QED BY <2>1, <2>2
<1>2. CASE job.tool # "match"
  <2> DEFINE done == TaskDone(job)
             count == done.failed + 1
             failed == [done EXCEPT !.failed = count]
  <2>1. TaskFailed(job) = failed
    BY <1>2 DEF TaskFailed
  <2>2. /\ done \in Jobs /\ done.tool = job.tool /\ done.round = job.round
        /\ done.tasks = job.tasks \ {Least(job.tasks)} /\ done.planned = job.planned
        /\ done.todo = << >> /\ done.failed = job.failed
        /\ done.tasks # {} => done.listed = job.listed
    BY DoneTask
  <2>3. count \in Nat /\ count # 0 /\ job.tool # "idle"
    BY <2>2 DEF Jobs
  <2> HIDE DEF done, count
  <2>4. /\ failed \in Jobs /\ failed.tool = job.tool /\ failed.round = job.round
        /\ failed.tasks = job.tasks \ {Least(job.tasks)}
        /\ failed.todo = << >> /\ failed.failed # 0
        /\ failed.tasks # {} => failed.listed = job.listed
    BY <2>2, <2>3 DEF Jobs
  <2> HIDE DEF failed
  <2>5. JobInv(failed, rows)
    BY <2>3, <2>4 DEF JobInv, HasStats
  <2> QED BY <2>1, <2>4, <2>5
<1> QED BY <1>1, <1>2

\* A job that starts has nothing in hand.
LEMMA NewJob ==
  ASSUME NEW tool \in {"auto", "season", "match", "public", "finalize"},
         NEW mode \in {"daily", "weekly", "range", "one"}, NEW groups \in Seq(Groups)
  PROVE  LET job == Job(tool, mode, groups) IN
         /\ job \in Jobs /\ job.tool = tool /\ job.tasks = {} /\ job.planned = {}
         /\ job.todo = << >> /\ \A rows : JobInv(job, rows)
<1> DEFINE job == Job(tool, mode, groups)
<1>1. 0 \in Rounds /\ 0 \in 0..MaxRetries /\ << >> \in Seq(Commands)
  BY IngestionAssumption DEF Rounds
<1>2. job \in Jobs /\ job.tool = tool /\ job.tasks = {} /\ job.planned = {} /\ job.todo = << >>
  BY <1>1 DEF Job, Jobs, Groups
<1> HIDE DEF job
<1>3. \A rows : JobInv(job, rows)
  BY <1>2 DEF JobInv, HasStats
<1> QED BY <1>2, <1>3 DEF job

LEMMA BeginStep ==
  ASSUME IngestionTypeOK, IngestionInv, NEW r \in Runners, Begin(r)
  PROVE  StepOK
<1>0. ~Waiting(r)
  BY AtRest DEF Begin
<1>1. UNCHANGED <<ingestDay, feed, api>>
  BY DEF Begin
<1>2. <<"ESTE", "OESTE">> \in Seq(Groups) /\ << >> \in Seq(Groups)
      /\ \A group \in Groups : <<group>> \in Seq(Groups)
  BY DEF Groups
<1>3. ASSUME NEW mode \in {"daily", "weekly"}, Put(r, Job("auto", mode, <<"ESTE", "OESTE">>)),
             UNCHANGED faults
      PROVE  StepOK
  <2> DEFINE groups == <<"ESTE", "OESTE">>
             job == Job("auto", mode, groups)
  <2>1. job \in Jobs /\ JobInv(job, api.rows)
    <3>1. groups \in Seq(Groups) /\ mode \in {"daily", "weekly", "range", "one"}
      BY <1>2
    <3> HIDE DEF groups
    <3> QED BY <3>1, NewJob
  <2> HIDE DEF job
  <2> QED BY <1>1, <1>3, <2>1, <1>0, QuietStep DEF job
<1>4. ASSUME NEW tool \in {"season", "public"}, NEW group \in Groups,
             Put(r, Job(tool, "range", <<group>>)), UNCHANGED faults
      PROVE  StepOK
  <2> DEFINE job == Job(tool, "range", <<group>>)
  <2>1. job \in Jobs /\ JobInv(job, api.rows)
    BY <1>2, NewJob
  <2> HIDE DEF job
  <2> QED BY <1>1, <1>4, <2>1, <1>0, QuietStep DEF job
<1>5. ASSUME UNCHANGED faults,
             Put(r, [Job("finalize", "range", << >>) EXCEPT
                        !.rounds = {Calendar[m].round : m \in Matches}])
      PROVE  StepOK
  <2> DEFINE new == Job("finalize", "range", << >>)
             job == [new EXCEPT !.rounds = {Calendar[m].round : m \in Matches}]
  <2>1. new \in Jobs /\ new.tool = "finalize" /\ new.tasks = {} /\ new.planned = {}
        /\ new.todo = << >>
    BY <1>2, NewJob
  <2>2. {Calendar[m].round : m \in Matches} \in SUBSET Rounds
    BY DEF Rounds
  <2> HIDE DEF new
  <2>3. job \in Jobs /\ job.tool = "finalize" /\ job.tasks = {} /\ job.todo = << >>
    BY <2>1, <2>2 DEF Jobs
  <2>4. Put(r, job)
    BY <1>5 DEF new
  <2> HIDE DEF job
  <2>5. JobInv(job, api.rows)
    BY <2>3 DEF JobInv, HasStats
  <2> QED BY <1>1, <1>5, <2>3, <2>4, <2>5, <1>0, QuietStep
<1>6. ASSUME NEW m \in Matches, NEW round \in {ResolveRound(m), 0}, Fault \/ UNCHANGED faults,
             Put(r, [Job("match", "one", << >>) EXCEPT
                        !.tasks = {m}, !.planned = {m}, !.round = round])
      PROVE  StepOK
  <2> DEFINE new == Job("match", "one", << >>)
             job == [new EXCEPT !.tasks = {m}, !.planned = {m}, !.round = round]
  <2>1. new \in Jobs /\ new.tool = "match" /\ new.todo = << >>
    BY <1>2, NewJob
  <2>2. round \in {0, Calendar[m].round} /\ round \in Rounds
    BY <1>6 DEF ResolveRound, Rounds
  <2> HIDE DEF new
  <2>3. job \in Jobs /\ job.tool = "match" /\ job.tasks = {m} /\ job.planned = {m}
        /\ job.todo = << >> /\ job.round = round
    BY <2>1, <2>2 DEF Jobs
  <2>4. Put(r, job)
    BY <1>6 DEF new
  <2> HIDE DEF job
  <2>5. JobInv(job, api.rows)
    BY <2>2, <2>3 DEF JobInv, HasStats
  <2> QED BY <1>1, <1>6, <2>3, <2>4, <2>5, <1>0, QuietStep
<1> QED BY <1>3, <1>4, <1>5, <1>6 DEF Begin

\* A calendar is read for the rounds, and a round for its matches.
LEMMA DiscoverRoundsStep ==
  ASSUME IngestionTypeOK, IngestionInv, NEW r \in Runners, DiscoverRounds(r)
  PROVE  StepOK
<1>0. ~Waiting(r)
  BY AtRest DEF DiscoverRounds
<1> DEFINE job == run[r]
           here == [job EXCEPT !.group = Head(job.groups), !.groups = Tail(@)]
<1>1. /\ Working(r) /\ job.tasks = {} /\ job.groups # << >> /\ UNCHANGED <<ingestDay, feed, api>>
      /\ \/ Put(r, [here EXCEPT !.rounds = Selected(here)]) /\ UNCHANGED faults
         \/ Fault /\ Put(r, IF job.tool = "auto" THEN [here EXCEPT !.failed = @ + 1] ELSE Stop(3))
  BY DEF DiscoverRounds
<1>2. job \in Jobs /\ JobInv(job, api.rows)
  BY <1>1, RunnerShape DEF IngestionInv
<1> HIDE DEF job
<1>3. job.tool # "idle" /\ job.todo = << >>
  BY <1>1, <1>2 DEF Jobs, JobInv
<1>4. here \in Jobs /\ here.tool = job.tool /\ here.tasks = {} /\ here.planned = job.planned
      /\ here.todo = << >> /\ here.failed = job.failed /\ here.group \in Groups
      /\ here.conflicted = job.conflicted
  <2>1. job.groups \in Seq(Groups)
    BY <1>2 DEF Jobs
  <2>2. Head(job.groups) \in Groups /\ Tail(job.groups) \in Seq(Groups)
    BY <1>1, <2>1
  <2> QED BY <1>1, <1>2, <1>3, <2>2 DEF Jobs
<1> HIDE DEF here
<1>5. CASE Put(r, [here EXCEPT !.rounds = Selected(here)]) /\ UNCHANGED faults
  <2> DEFINE next == [here EXCEPT !.rounds = Selected(here)]
  <2>1. Selected(here) \in SUBSET Rounds
    BY DEF Selected, ActiveRounds, RoundsOf, Rounds
  <2>2. next \in Jobs /\ next.tool = job.tool /\ next.tasks = {} /\ next.planned = job.planned
        /\ next.todo = << >> /\ next.failed = job.failed /\ next.conflicted = job.conflicted
    BY <1>4, <2>1 DEF Jobs
  <2> HIDE DEF next
  <2>3. JobInv(next, api.rows)
    BY <1>1, <1>2, <1>3, <2>2 DEF JobInv, HasStats
  <2> QED BY <1>1, <1>5, <2>2, <2>3, <1>0, QuietStep DEF next
<1>6. CASE Fault /\ job.tool = "auto" /\ Put(r, [here EXCEPT !.failed = @ + 1])
  <2> DEFINE next == [here EXCEPT !.failed = @ + 1]
  <2>1. next \in Jobs /\ next.tool = "auto" /\ next.tasks = {} /\ next.todo = << >>
    <3>1. here.failed \in Nat /\ here.failed + 1 \in Nat
      BY <1>4 DEF Jobs
    <3> QED BY <1>4, <1>6, <3>1 DEF Jobs
  <2> HIDE DEF next
  <2>2. JobInv(next, api.rows)
    BY <2>1 DEF JobInv, HasStats
  <2> QED BY <1>1, <1>6, <2>1, <2>2, <1>0, QuietStep DEF next
<1>7. CASE Fault /\ Put(r, Stop(3))
  BY <1>1, <1>7, StoppedJob, <1>0, QuietStep
<1> QED BY <1>1, <1>5, <1>6, <1>7

LEMMA EnterRoundStep ==
  ASSUME IngestionTypeOK, IngestionInv, NEW r \in Runners, EnterRound(r)
  PROVE  StepOK
<1>0. ~Waiting(r)
  BY AtRest DEF EnterRound
<1> DEFINE job == run[r]
           round == Least(job.rounds)
           here == [job EXCEPT !.round = round, !.rounds = @ \ {round}]
           refs == DiscoverMatches(job.group, round)
<1>1. /\ Working(r) /\ job.tasks = {} /\ job.rounds # {} /\ job.tool # "finalize"
      /\ UNCHANGED <<ingestDay, feed, api>>
      /\ \/ Put(r, [here EXCEPT !.tasks = refs, !.planned = @ \cup refs]) /\ UNCHANGED faults
         \/ Fault /\ Put(r, IF job.tool = "auto" THEN Stop(3)
                             ELSE [here EXCEPT !.failed = @ + Cardinality(refs)])
  BY DEF EnterRound
<1>2. job \in Jobs /\ JobInv(job, api.rows)
  BY <1>1, RunnerShape DEF IngestionInv
<1> HIDE DEF job
<1>3. job.tool # "idle" /\ job.todo = << >>
  BY <1>1, <1>2 DEF Jobs, JobInv
<1>4. round \in Rounds
  <2>1. job.rounds \in SUBSET Rounds
    BY <1>2 DEF Jobs
  <2> QED BY <1>1, <2>1, NextInHand
<1>5. refs \in SUBSET Matches /\ \A m \in refs : Calendar[m].round = round
  BY DEF DiscoverMatches
<1> HIDE DEF round, refs
<1>6. here \in Jobs /\ here.tool = job.tool /\ here.tasks = {} /\ here.planned = job.planned
      /\ here.todo = << >> /\ here.failed = job.failed /\ here.round = round
      /\ here.conflicted = job.conflicted
  BY <1>1, <1>2, <1>3, <1>4 DEF Jobs
<1> HIDE DEF here
<1>7. CASE Put(r, [here EXCEPT !.tasks = refs, !.planned = @ \cup refs]) /\ UNCHANGED faults
  <2> DEFINE next == [here EXCEPT !.tasks = refs, !.planned = @ \cup refs]
  <2>1. next \in Jobs /\ next.tool = job.tool /\ next.tasks = refs
        /\ next.planned = job.planned \cup refs /\ next.round = round
        /\ next.todo = << >> /\ next.failed = job.failed /\ next.conflicted = job.conflicted
    <3>1. here.planned \cup refs \in SUBSET Matches
      BY <1>5, <1>6 DEF Jobs
    <3> QED BY <1>5, <1>6, <3>1 DEF Jobs
  <2> HIDE DEF next
  <2>2. JobInv(next, api.rows)
    BY <1>1, <1>2, <1>3, <1>5, <2>1 DEF JobInv, HasStats
  <2> QED BY <1>1, <1>7, <2>1, <2>2, <1>0, QuietStep DEF next
<1>8. CASE Fault /\ Put(r, [here EXCEPT !.failed = @ + Cardinality(refs)])
  <2> DEFINE count == here.failed + Cardinality(refs)
             next == [here EXCEPT !.failed = count]
  <2>1. Cardinality(refs) \in Nat /\ here.failed \in Nat
    BY <1>5, <1>6, IngestionAssumption, FS_Subset, FS_CardinalityType DEF Jobs
  <2>2. count \in Nat /\ (count = 0 => job.failed = 0)
    BY <1>6, <2>1
  <2> HIDE DEF count
  <2>3. next \in Jobs /\ next.tool = job.tool /\ next.tasks = {} /\ next.planned = job.planned
        /\ next.todo = << >> /\ next.failed = count /\ next.conflicted = job.conflicted
    BY <1>6, <2>2 DEF Jobs
  <2>4. Put(r, next)
    BY <1>8 DEF count
  <2> HIDE DEF next
  <2>5. JobInv(next, api.rows)
    BY <1>1, <1>2, <1>3, <2>2, <2>3 DEF JobInv, HasStats
  <2> QED BY <1>1, <1>8, <2>3, <2>4, <2>5, <1>0, QuietStep
<1>9. CASE Fault /\ Put(r, Stop(3))
  BY <1>1, <1>9, StoppedJob, <1>0, QuietStep
<1> QED BY <1>1, <1>7, <1>8, <1>9

\* finalize_pending lists the rows of a round, or passes the round over.
LEMMA ListRoundStep ==
  ASSUME IngestionTypeOK, IngestionInv, NEW r \in Runners, ListRound(r)
  PROVE  StepOK
<1>0. ~Waiting(r)
  BY AtRest DEF ListRound
<1> DEFINE job == run[r]
           round == Least(job.rounds)
           here == [job EXCEPT !.round = round, !.rounds = @ \ {round}]
           pending == {m \in DOMAIN api.rows : api.rows[m].round = round}
<1>1. /\ Working(r) /\ job.tasks = {} /\ job.rounds # {} /\ job.tool = "finalize"
      /\ UNCHANGED <<ingestDay, feed, api>>
      /\ \/ Put(r, [here EXCEPT !.listed = api.rows, !.tasks = pending]) /\ UNCHANGED faults
         \/ Fault /\ Put(r, here)
  BY DEF ListRound
<1>2. job \in Jobs /\ JobInv(job, api.rows)
  BY <1>1, RunnerShape DEF IngestionInv
<1> HIDE DEF job
<1>3. job.tool # "idle" /\ job.todo = << >>
  BY <1>1, <1>2 DEF Jobs, JobInv
<1>4. round \in Rounds
  <2>1. job.rounds \in SUBSET Rounds
    BY <1>2 DEF Jobs
  <2> QED BY <1>1, <2>1, NextInHand
<1>5. api.rows \in MatchRows /\ pending \in SUBSET Matches /\ pending \subseteq DOMAIN api.rows
  <2>1. api.rows \in MatchRows
    BY DEF IngestionTypeOK
  <2> QED BY <2>1, RowsOfMatches
<1> HIDE DEF round, pending
<1>6. here \in Jobs /\ here.tool = "finalize" /\ here.tasks = {} /\ here.todo = << >>
  BY <1>1, <1>2, <1>3, <1>4 DEF Jobs
<1> HIDE DEF here
<1>7. CASE Put(r, [here EXCEPT !.listed = api.rows, !.tasks = pending]) /\ UNCHANGED faults
  <2> DEFINE next == [here EXCEPT !.listed = api.rows, !.tasks = pending]
  <2>1. next \in Jobs /\ next.tool = "finalize" /\ next.tasks = pending
        /\ next.listed = api.rows /\ next.todo = << >>
    BY <1>5, <1>6 DEF Jobs
  <2> HIDE DEF next
  <2>2. JobInv(next, api.rows)
    BY <1>5, <2>1 DEF JobInv, HasStats
  <2> QED BY <1>1, <1>7, <2>1, <2>2, <1>0, QuietStep DEF next
<1>8. CASE Fault /\ Put(r, here)
  <2>1. JobInv(here, api.rows)
    BY <1>6 DEF JobInv, HasStats
  <2> QED BY <1>1, <1>6, <1>8, <2>1, <1>0, QuietStep
<1> QED BY <1>1, <1>7, <1>8

\* The commands that the runners build are commands.
LEMMA BuiltFinalize ==
  ASSUME NEW m \in Matches, NEW competition \in Competitions, NEW score \in Scores
  PROVE  BuildFinalize(m, competition, score) \in Commands
<1> DEFINE id == <<"finalize", competition, m>>
<1>1. id \in CommandIds /\ id[1] = "finalize" /\ id[3] = m
  BY DEF CommandIds
<1>2. BuildFinalize(m, competition, score)
        = [kind |-> "finalize", match |-> m, score |-> score, id |-> id]
  BY DEF BuildFinalize, FinalizerCommandId
<1> HIDE DEF id
<1>3. BuildFinalize(m, competition, score) \in FinalizeCommands
  BY <1>1, <1>2 DEF FinalizeCommands
<1> QED BY <1>1, <1>2, <1>3 DEF Commands

LEMMA BuiltCommands ==
  ASSUME NEW m \in Matches, NEW round \in {0, Calendar[m].round}, NEW i \in 1..Len(Published)
  PROVE  /\ ToMatchCommand(m, round) \in Commands /\ ToStatsCommand(m, Published[i]) \in Commands
         /\ BuildCommands(m, round, Published[i]) \in Seq(Commands)
<1> DEFINE box == [home |-> Published[i].home, away |-> Published[i].away]
<1>1. box \in Scores /\ round \in Rounds
  BY PublishedScores DEF Rounds
<1> HIDE DEF box
<1>2. ASSUME NEW c \in Competitions,
             NEW cmd, cmd = [kind |-> "match", match |-> m, competition |-> c,
                             round |-> round, id |-> <<"match", c, m>>]
      PROVE  cmd \in Commands
  <2>1. <<"match", c, m>> \in CommandIds /\ <<"match", c, m>>[1] = "match"
        /\ <<"match", c, m>>[3] = m
    BY DEF CommandIds
  <2>2. cmd \in MatchCommands
    BY <1>1, <1>2, <2>1 DEF MatchCommands
  <2> QED BY <1>2, <2>1, <2>2 DEF Commands
<1>3. ASSUME NEW c \in Competitions, NEW cmd, cmd = [kind |-> "stats", match |-> m, box |-> box,
                                                    id |-> <<"stats", c, m>>]
      PROVE  cmd \in Commands
  <2>1. <<"stats", c, m>> \in CommandIds /\ <<"stats", c, m>>[1] = "stats"
        /\ <<"stats", c, m>>[3] = m
    BY DEF CommandIds
  <2>2. cmd \in StatsCommands
    BY <1>1, <1>3, <2>1 DEF StatsCommands
  <2> QED BY <1>3, <2>1, <2>2 DEF Commands
<1>4. "segunda-feb" \in Competitions /\ "segundafeb" \in Competitions
  BY DEF Competitions
<1>5. ToMatchCommand(m, round) \in Commands
  BY <1>2, <1>4 DEF ToMatchCommand, IngestorCommandId
<1>6. ToStatsCommand(m, Published[i]) \in Commands
  BY <1>3, <1>4 DEF ToStatsCommand, IngestorCommandId, box
<1>7. BuildCommands(m, round, Published[i]) \in Seq(Commands)
  <2> DEFINE first == [kind |-> "match", match |-> m, competition |-> "segundafeb",
                       round |-> round, id |-> <<"match", "segundafeb", m>>]
             second == [kind |-> "stats", match |-> m, box |-> box,
                        id |-> <<"stats", "segundafeb", m>>]
             third == BuildFinalize(m, "segundafeb", box)
  <2>1. first \in Commands
    BY <1>2, <1>4
  <2>2. second \in Commands
    BY <1>3, <1>4
  <2>3. third \in Commands
    BY <1>1, <1>4, BuiltFinalize
  <2>4. BuildCommands(m, round, Published[i]) = <<first, second, third>>
    BY DEF BuildCommands, BuildFinalize, PublicCommandId, FinalizerCommandId, box
  <2> HIDE DEF first, second, third
  <2> QED BY <2>1, <2>2, <2>3, <2>4
<1> QED BY <1>5, <1>6, <1>7

\* A boxscore that can be read gives the commands of its match.
LEMMA FetchBoxStep ==
  ASSUME IngestionTypeOK, IngestionInv, NEW r \in Runners, FetchBox(r)
  PROVE  StepOK
<1>0. ~Waiting(r)
  BY AtRest DEF FetchBox
<1> DEFINE job == run[r]
           m == InHand(r)
           box == Published[feed[m]]
           pair == <<ToMatchCommand(m, job.round), ToStatsCommand(m, box)>>
           three == BuildCommands(m, job.round, box)
<1>1. /\ Working(r) /\ job.tasks # {} /\ job.todo = << >> /\ job.tool # "finalize"
      /\ UNCHANGED <<ingestDay, feed, api, faults>>
      /\ \/ Put(r, TaskFailed(job))
         \/ feed[m] # 0 /\ job.tool # "public" /\ Put(r, [job EXCEPT !.tries = 0, !.todo = pair])
         \/ job.tool = "public" /\ Put(r, TaskDone(job))
         \/ feed[m] # 0 /\ job.tool = "public" /\ Put(r, [job EXCEPT !.todo = three])
  BY DEF FetchBox
<1>2. job \in Jobs /\ JobInv(job, api.rows)
  BY <1>1, RunnerShape DEF IngestionInv
<1>3. m = Least(job.tasks)
  BY DEF InHand
<1> HIDE DEF job, m
<1>4. job.tool # "idle" /\ m \in job.tasks /\ m \in Matches
  <2>1. job.tool # "idle" /\ job.tasks \in SUBSET Matches
    BY <1>2 DEF Jobs
  <2>2. m \in job.tasks
    BY <1>1, <1>3, <2>1, NextInHand
  <2> QED BY <2>1, <2>2
<1>5. job.round \in {0, Calendar[m].round}
  BY <1>1, <1>2, <1>4 DEF JobInv, HasStats
<1>6. feed[m] # 0 => feed[m] \in 1..Len(Published)
  BY <1>4 DEF IngestionTypeOK
<1>7. feed[m] # 0 => /\ ToMatchCommand(m, job.round) \in Commands
                     /\ ToStatsCommand(m, box) \in Commands /\ three \in Seq(Commands)
  <2> SUFFICES ASSUME feed[m] # 0
               PROVE  /\ ToMatchCommand(m, job.round) \in Commands
                      /\ ToStatsCommand(m, box) \in Commands /\ three \in Seq(Commands)
    OBVIOUS
  <2>1. feed[m] \in 1..Len(Published) /\ "segundafeb" \in Competitions
    BY <1>6 DEF Competitions
  <2>2. [home |-> box.home, away |-> box.away] \in Scores
    BY <2>1, PublishedScores
  <2> QED BY <1>4, <1>5, <2>1, <2>2, BuiltCommands
<1>8. CASE Put(r, TaskFailed(job))
  BY <1>1, <1>2, <1>8, FailedTask, <1>0, QuietStep
<1>9. CASE feed[m] # 0 /\ job.tool # "public" /\ Put(r, [job EXCEPT !.tries = 0, !.todo = pair])
  <2> DEFINE next == [job EXCEPT !.tries = 0, !.todo = pair]
  <2>1. pair \in Seq(Commands) /\ Len(pair) = 2 /\ pair # << >>
        /\ pair[1] = ToMatchCommand(m, job.round) /\ pair[2] = ToStatsCommand(m, box)
    BY <1>7, <1>9
  <2>2. pair[1].kind = "match" /\ pair[2].kind = "stats" /\ pair[1].match = m /\ pair[2].match = m
    BY <2>1 DEF ToMatchCommand, ToStatsCommand
  <2>3. 0 \in 0..MaxRetries
    BY IngestionAssumption
  <2> HIDE DEF pair
  <2>4. next \in Jobs /\ next.tool = job.tool /\ next.tasks = job.tasks /\ next.round = job.round
        /\ next.planned = job.planned /\ next.todo = pair /\ next.failed = job.failed
        /\ next.listed = job.listed /\ next.conflicted = job.conflicted
    BY <1>2, <2>1, <2>3 DEF Jobs
  <2> HIDE DEF next
  <2>5. JobInv(next, api.rows)
    BY <1>1, <1>2, <1>3, <1>4, <2>1, <2>2, <2>4 DEF JobInv, HasStats
  <2> QED BY <1>1, <1>9, <2>4, <2>5, <1>0, QuietStep DEF next
<1>10. CASE job.tool = "public" /\ Put(r, TaskDone(job))
  <2>1. TaskDone(job) \in Jobs
    BY <1>1, <1>2, DoneTask
  <2>2. JobInv(TaskDone(job), api.rows)
    BY <1>1, <1>2, <1>10, DoneTaskInv
  <2> QED BY <1>1, <1>10, <2>1, <2>2, <1>0, QuietStep
<1>11. CASE feed[m] # 0 /\ job.tool = "public" /\ Put(r, [job EXCEPT !.todo = three])
  <2> DEFINE next == [job EXCEPT !.todo = three]
  <2>1. three \in Seq(Commands)
    BY <1>7, <1>11
  <2> HIDE DEF three
  <2>2. next \in Jobs /\ next.tool = "public" /\ next.tasks = job.tasks /\ next.round = job.round
    BY <1>2, <1>11, <2>1 DEF Jobs
  <2> HIDE DEF next
  <2>3. JobInv(next, api.rows)
    BY <1>1, <1>2, <1>11, <2>2 DEF JobInv, HasStats
  <2> QED BY <1>1, <1>11, <2>2, <2>3, <1>0, QuietStep DEF next
<1> QED BY <1>1, <1>8, <1>9, <1>10, <1>11

\* finalize_pending takes the score from the statistics of a listed match.
LEMMA ReadDetailStep ==
  ASSUME IngestionTypeOK, IngestionInv, NEW r \in Runners, ReadDetail(r)
  PROVE  StepOK
<1>0. ~Waiting(r)
  BY AtRest DEF ReadDetail
<1> DEFINE job == run[r]
           m == InHand(r)
           score == ScoreFromTeamStats(api.rows[m])
           cmd == BuildFinalize(m, job.listed[m].competition, score)
<1>1. /\ Working(r) /\ job.tasks # {} /\ job.todo = << >> /\ job.tool = "finalize"
      /\ UNCHANGED <<ingestDay, feed, api>>
      /\ \/ Put(r, TaskDone(job)) /\ UNCHANGED faults
         \/ score # Nothing /\ Put(r, [job EXCEPT !.todo = <<cmd>>]) /\ UNCHANGED faults
         \/ Fault /\ Put(r, TaskFailed(job))
  BY DEF ReadDetail
<1>2. job \in Jobs /\ JobInv(job, api.rows)
  BY <1>1, RunnerShape DEF IngestionInv
<1>3. m = Least(job.tasks)
  BY DEF InHand
<1> HIDE DEF job, m
<1>4. job.tool # "idle" /\ m \in job.tasks /\ m \in Matches
  <2>1. job.tool # "idle" /\ job.tasks \in SUBSET Matches
    BY <1>2 DEF Jobs
  <2>2. m \in job.tasks
    BY <1>1, <1>3, <2>1, NextInHand
  <2> QED BY <2>1, <2>2
<1>5. CASE Put(r, TaskDone(job)) /\ UNCHANGED faults
  <2>1. TaskDone(job) \in Jobs
    BY <1>1, <1>2, DoneTask
  <2>2. JobInv(TaskDone(job), api.rows)
    BY <1>1, <1>2, DoneTaskInv
  <2> QED BY <1>1, <1>5, <2>1, <2>2, <1>0, QuietStep
<1>6. CASE score # Nothing /\ Put(r, [job EXCEPT !.todo = <<cmd>>]) /\ UNCHANGED faults
  <2> DEFINE next == [job EXCEPT !.todo = <<cmd>>]
  <2>1. /\ job.listed \in MatchRows /\ m \in DOMAIN job.listed /\ m \in DOMAIN api.rows
        /\ api.rows \in MatchRows
    BY <1>1, <1>2, <1>4 DEF JobInv, IngestionTypeOK
  <2>2. job.listed[m] \in MatchRow /\ api.rows[m] \in MatchRow
    BY <2>1, RowsOfMatches
  <2>3. job.listed[m].competition \in Competitions
    BY <2>2 DEF MatchRow
  <2>4. score \in Scores
    BY <1>6, <2>2 DEF ScoreFromTeamStats, MatchRow
  <2>5. cmd \in Commands
    <3> HIDE DEF score
    <3> QED BY <1>4, <2>3, <2>4, BuiltFinalize
  <2> HIDE DEF cmd
  <2>6. <<cmd>> \in Seq(Commands)
    BY <2>5
  <2>7. next \in Jobs /\ next.tool = "finalize" /\ next.tasks = job.tasks
        /\ next.listed = job.listed
    BY <1>1, <1>2, <2>6 DEF Jobs
  <2> HIDE DEF next
  <2>8. JobInv(next, api.rows)
    BY <1>1, <1>2, <2>7 DEF JobInv, HasStats
  <2> QED BY <1>1, <1>6, <2>7, <2>8, <1>0, QuietStep DEF next
<1>7. CASE Fault /\ Put(r, TaskFailed(job))
  BY <1>1, <1>2, <1>7, FailedTask, <1>0, QuietStep
<1> QED BY <1>1, <1>5, <1>6, <1>7

\* A request is sent again while it may be, and fails its match after that.
LEMMA ThrottledStep ==
  ASSUME IngestionTypeOK, IngestionInv, NEW r \in Runners, Throttled(r)
  PROVE  StepOK
<1>0. ~Waiting(r)
  BY DEF Throttled
<1> DEFINE job == run[r]
<1>1. /\ Working(r) /\ job.tasks # {} /\ Fault /\ UNCHANGED <<ingestDay, feed, api>>
      /\ \/ job.tries < MaxRetries /\ Put(r, [job EXCEPT !.tries = @ + 1])
         \/ Put(r, TaskFailed(job))
  BY DEF Throttled
<1>2. job \in Jobs /\ JobInv(job, api.rows)
  BY <1>1, RunnerShape DEF IngestionInv
<1> HIDE DEF job
<1>3. CASE job.tries < MaxRetries /\ Put(r, [job EXCEPT !.tries = @ + 1])
  <2> DEFINE tries == job.tries + 1
             next == [job EXCEPT !.tries = tries]
  <2>1. tries \in 0..MaxRetries /\ job.tool # "idle"
    BY <1>2, <1>3, IngestionAssumption DEF Jobs
  <2>2. Put(r, next)
    BY <1>3
  <2> HIDE DEF tries
  <2>3. next \in Jobs /\ next.tool = job.tool /\ next.tasks = job.tasks /\ next.round = job.round
        /\ next.planned = job.planned /\ next.todo = job.todo /\ next.failed = job.failed
        /\ next.listed = job.listed /\ next.conflicted = job.conflicted
    BY <1>2, <2>1 DEF Jobs
  <2> HIDE DEF next
  <2>4. JobInv(next, api.rows)
    BY <1>2, <2>1, <2>3 DEF JobInv, HasStats
  <2> QED BY <1>1, <2>2, <2>3, <2>4, <1>0, QuietStep
<1>4. CASE Put(r, TaskFailed(job))
  BY <1>1, <1>2, <1>4, FailedTask, <1>0, QuietStep
<1> QED BY <1>1, <1>3, <1>4

\* A runner that is answered goes on with the next command or the next match; an
\* ingestor that counts its match as done left its statistics, or met a conflict.
LEMMA AnsweredJob ==
  ASSUME NEW job \in Jobs, NEW rows, JobInv(job, rows), job.todo # << >>,
         NEW status \in {"done", "failed", "conflict"},
         job.tool \in {"season", "match"} /\ Head(job.todo).kind = "stats" =>
           /\ status # "failed" => Least(job.tasks) \in DOMAIN rows
           /\ status = "done" => rows[Least(job.tasks)].stats # Nothing
  PROVE  LET next == Answered(job, status) IN
         next \in Jobs \cup Stopped /\ JobInv(next, rows) /\ (next \in Jobs \/ next.exit # 0)
<1> DEFINE met == IF status = "conflict" /\ Head(job.todo).kind = "stats"
                  THEN {Least(job.tasks)} ELSE {}
           seen == job.conflicted \cup met
           noted == [job EXCEPT !.conflicted = seen]
           rest == Tail(job.todo)
           next == [noted EXCEPT !.todo = rest, !.tries = 0]
<1>1. \/ Answered(job, status) = TaskFailed(job)
      \/ /\ status \in TakenForDone(job.tool) /\ Len(job.todo) = 1
         /\ Answered(job, status) = TaskDone(noted)
      \/ Len(job.todo) # 1 /\ Answered(job, status) = next
  <2>1. noted.todo = job.todo
    BY DEF Jobs
  <2>2. noted = [job EXCEPT !.conflicted = @ \cup met]
    BY DEF Jobs
  <2>3. Answered(job, status) =
          IF status \notin TakenForDone(job.tool) THEN TaskFailed(job)
          ELSE IF Len(job.todo) = 1 THEN TaskDone([job EXCEPT !.conflicted = @ \cup met])
          ELSE [[job EXCEPT !.conflicted = @ \cup met] EXCEPT !.todo = Tail(@), !.tries = 0]
    BY DEF Answered
  <2> HIDE DEF noted, met
  <2> QED BY <2>1, <2>2, <2>3
<1>2. job.tool # "idle" /\ job.todo \in Seq(Commands) /\ job.tasks \in SUBSET Matches
      /\ job.conflicted \in SUBSET Matches
  BY DEF Jobs
<1>3. job.tasks # {} /\ Least(job.tasks) \in Matches
  <2>1. job.tasks # {}
    BY <1>2 DEF JobInv
  <2> QED BY <1>2, <2>1, NextInHand
<1>4. seen \in SUBSET Matches /\ job.conflicted \subseteq seen
      /\ (status = "conflict" /\ Head(job.todo).kind = "stats" => Least(job.tasks) \in seen)
  BY <1>2, <1>3
<1>5. status \in TakenForDone(job.tool) => status # "failed"
  BY DEF TakenForDone
<1>6. rest \in Seq(Commands) /\ 0 \in 0..MaxRetries
      /\ (Len(job.todo) = 2 => Len(rest) = 1 /\ rest[1] = job.todo[2])
      /\ Head(job.todo) = job.todo[1]
  BY <1>2, IngestionAssumption
<1> HIDE DEF met, seen, rest
<1>7. /\ noted \in Jobs /\ noted.tool = job.tool /\ noted.tasks = job.tasks
      /\ noted.round = job.round /\ noted.planned = job.planned /\ noted.todo = job.todo
      /\ noted.failed = job.failed /\ noted.listed = job.listed /\ noted.conflicted = seen
  BY <1>4 DEF Jobs
<1> HIDE DEF noted
<1>8. JobInv(noted, rows)
  <2>1. \A m : HasStats(m, job, rows) => HasStats(m, noted, rows)
    BY <1>4, <1>7 DEF HasStats
  <2> QED BY <1>2, <1>7, <2>1 DEF JobInv
<1>9. CASE Answered(job, status) = TaskFailed(job)
  BY <1>3, <1>9, FailedTask
<1>10. CASE /\ status \in TakenForDone(job.tool) /\ Len(job.todo) = 1
            /\ Answered(job, status) = TaskDone(noted)
  <2>1. job.tool \in {"season", "match"} => Head(job.todo).kind = "stats"
    BY <1>2, <1>6, <1>10 DEF JobInv
  <2>2. noted.tool \in {"season", "match"} => HasStats(Least(noted.tasks), noted, rows)
    BY <1>4, <1>5, <1>7, <1>10, <2>1 DEF HasStats
  <2>3. TaskDone(noted) \in Jobs
    BY <1>3, <1>7, DoneTask
  <2>4. JobInv(TaskDone(noted), rows)
    BY <1>3, <1>7, <1>8, <2>2, DoneTaskInv
  <2> QED BY <1>10, <2>3, <2>4
<1>11. CASE Len(job.todo) # 1 /\ Answered(job, status) = next
  <2>1. /\ next \in Jobs /\ next.tool = job.tool /\ next.tasks = job.tasks
        /\ next.round = job.round /\ next.planned = job.planned /\ next.todo = rest
        /\ next.failed = job.failed /\ next.listed = job.listed /\ next.conflicted = seen
    BY <1>6, <1>7 DEF Jobs
  <2> HIDE DEF next
  <2>2. \A m : HasStats(m, noted, rows) => HasStats(m, next, rows)
    BY <1>7, <2>1 DEF HasStats
  <2>3. job.todo # << >> /\ (job.tool \in {"auto", "season", "match"} => Len(job.todo) = 2)
    BY <1>2, <1>11 DEF JobInv
  <2>4. JobInv(next, rows)
    <3>1. job.tool \in {"auto", "season", "match"} =>
            /\ Len(next.todo) = 1 /\ next.todo[1].kind = "stats"
            /\ next.todo[1].match = Least(next.tasks)
      BY <1>2, <1>6, <2>1, <2>3 DEF JobInv
    <3> QED BY <1>3, <1>7, <1>8, <2>1, <2>2, <3>1 DEF JobInv
  <2> QED BY <1>11, <2>1, <2>4
<1> QED BY <1>1, <1>9, <1>10, <1>11

\* The next command is known or refused at once, begins, or its connection fails.
LEMMA PostStep ==
  ASSUME IngestionTypeOK, IngestionInv, NEW r \in Runners, Post(r)
  PROVE  StepOK
<1> DEFINE job == run[r]
           cmd == Head(job.todo)
           t == [waits |-> {r}, cmd |-> cmd, was |-> Loaded(cmd)]
<1>1. /\ Working(r) /\ job.todo # << >> /\ ~Waiting(r) /\ UNCHANGED <<ingestDay, feed>>
      /\ \/ /\ Execute(cmd) # "under way" /\ Put(r, Answered(job, Execute(cmd)))
            /\ UNCHANGED <<api, faults>>
         \/ /\ Execute(cmd) = "under way" /\ api' = [api EXCEPT !.open = @ \cup {t}]
            /\ UNCHANGED <<run, faults>>
         \/ Fault /\ Put(r, TaskFailed(job)) /\ UNCHANGED api
  BY DEF Post
<1>2. job \in Jobs /\ JobInv(job, api.rows) /\ ApiOK(api)
  BY <1>1, RunnerShape DEF IngestionInv
<1>3. job.tool # "idle" /\ job.todo \in Seq(Commands) /\ job.tasks # {}
  BY <1>1, <1>2 DEF Jobs, JobInv
<1>4. cmd \in Commands /\ cmd = job.todo[1]
  <2>1. \A q \in Seq(Commands) : q # << >> => Head(q) \in Commands /\ Head(q) = q[1]
    OBVIOUS
  <2>2. job.todo \in Seq(Commands) /\ job.todo # << >>
    BY <1>1, <1>3
  <2> QED BY <2>1, <2>2
<1>5. CASE /\ Execute(cmd) # "under way" /\ Put(r, Answered(job, Execute(cmd)))
           /\ UNCHANGED <<api, faults>>
  <2> DEFINE status == Execute(cmd)
             next == Answered(job, status)
  <2>1. /\ status \in {"done", "failed"}
        /\ status = "done" /\ cmd.kind = "stats" =>
             cmd.match \in DOMAIN api.rows /\ api.rows[cmd.match].stats # Nothing
    BY <1>2, <1>4, <1>5, AnsweredAtOnce
  <2>2. job.tool \in {"season", "match"} => cmd.match = Least(job.tasks)
    BY <1>1, <1>2, <1>3, <1>4 DEF JobInv
  <2> HIDE DEF job, status
  <2>3. next \in Jobs \cup Stopped /\ JobInv(next, api.rows) /\ (next \in Jobs \/ next.exit # 0)
    BY <1>1, <1>2, <2>1, <2>2, AnsweredJob
  <2> HIDE DEF next
  <2> QED BY <1>1, <1>5, <2>3, QuietStep DEF next, status
<1>6. CASE /\ Execute(cmd) = "under way" /\ api' = [api EXCEPT !.open = @ \cup {t}]
           /\ UNCHANGED <<run, faults>>
  <2>1. api \in Databases /\ api.rows \in MatchRows
    BY <1>2 DEF ApiOK, Databases
  <2>2. Loaded(cmd) \in MatchRow \cup {Nothing}
    BY <2>1, RowsOfMatches DEF Loaded
  <2>3. t \in Transactions /\ t.waits = {r} /\ t.cmd = cmd /\ t.was = Loaded(cmd)
    BY <1>4, <2>2 DEF Transactions
  <2>4. LoadedOK(t, api.rows)
    <3>1. ~FinalizationRefused(t.was, t.cmd) /\ RowAfter(t.was, t.cmd) # Nothing
      BY <1>6, <2>3 DEF Execute
    <3>2. t.was # Nothing => cmd.match \in DOMAIN api.rows /\ t.was = api.rows[cmd.match]
      BY <2>3 DEF Loaded
    <3>3. t.was # Nothing => t.was.round \in {0, Calendar[cmd.match].round}
                             /\ t.was.version \in Nat
      BY <1>2, <2>3, <3>2 DEF ApiOK, Transactions, MatchRow
    <3> HIDE DEF t
    <3> QED BY <2>3, <3>1, <3>2, <3>3 DEF LoadedOK
  <2> HIDE DEF t
  <2>5. /\ api' \in Databases /\ api'.rows = api.rows /\ api'.done = api.done
        /\ api'.open = api.open \cup {t}
    BY <1>6, <2>1, <2>3 DEF Databases
  <2>6. ApiOK(api')
    BY <1>2, <2>4, <2>5 DEF ApiOK
  <2>7. Learned(api.rows, api'.rows) /\ RoundsKept
    BY <1>2, <2>5, NothingForgotten DEF RoundsKept
  <2>8. WaitsOK'
    <3>1. \A u \in api.open : r \notin u.waits
      BY <1>1 DEF Waiting
    <3>2. ASSUME NEW u \in api'.open, NEW q \in u.waits
          PROVE  (Working(q) /\ run[q].todo # << >> /\ Head(run[q].todo) = u.cmd)'
      <4>1. Working(q) /\ run[q].todo # << >> /\ Head(run[q].todo) = u.cmd
        BY <1>1, <2>3, <2>5, <3>2 DEF IngestionInv, WaitsOK
      <4> QED BY <1>6, <4>1 DEF Working
    <3>3. ASSUME NEW u \in api'.open, NEW v \in api'.open, NEW q \in u.waits, q \in v.waits
          PROVE  u = v
      BY <2>3, <2>5, <3>1, <3>3 DEF IngestionInv, WaitsOK
    <3> QED BY <3>2, <3>3 DEF WaitsOK
  <2>9. ReportsNoGap
    BY <1>6, StoppedJob DEF ReportsNoGap
  <2>10. run' \in [Runners -> Jobs \cup Stopped] /\ \A q \in Runners : JobInv(run'[q], api'.rows)
    BY <1>6, <2>5 DEF IngestionTypeOK, IngestionInv
  <2> QED BY <1>1, <1>6, <2>6, <2>7, <2>8, <2>9, <2>10, StepKept
<1>7. CASE Fault /\ Put(r, TaskFailed(job)) /\ UNCHANGED api
  BY <1>1, <1>2, <1>3, <1>7, FailedTask, QuietStep
<1> QED BY <1>1, <1>5, <1>6, <1>7

\* A command in progress is of a runner that waits for it alone.
LEMMA Awaited ==
  ASSUME IngestionTypeOK, IngestionInv, NEW r \in Runners, NEW t \in api.open, r \in t.waits
  PROVE  /\ run[r] \in Jobs /\ JobInv(run[r], api.rows) /\ run[r].tasks # {}
         /\ run[r].todo # << >> /\ t.cmd = Head(run[r].todo) /\ t.cmd = run[r].todo[1]
         /\ t.cmd \in Commands
         /\ run[r].tool \in {"season", "match"} => t.cmd.match = Least(run[r].tasks)
         /\ \A u \in api.open \ {t} : r \notin u.waits
<1>1. Working(r) /\ run[r].todo # << >> /\ t.cmd = Head(run[r].todo)
      /\ \A u \in api.open \ {t} : r \notin u.waits
  BY DEF IngestionInv, WaitsOK
<1>2. run[r] \in Jobs /\ JobInv(run[r], api.rows)
  BY <1>1, RunnerShape DEF IngestionInv
<1> DEFINE job == run[r]
<1> HIDE DEF job
<1>3. job.tool # "idle" /\ job.todo \in Seq(Commands) /\ job.todo # << >> /\ job.tasks # {}
  BY <1>1, <1>2 DEF job, Jobs, JobInv
<1>4. Head(job.todo) = job.todo[1] /\ job.todo[1] \in Commands
  BY <1>3
<1>5. job.tool \in {"season", "match"} => job.todo[1].match = Least(job.tasks)
  BY <1>2, <1>3 DEF job, JobInv
<1> QED BY <1>1, <1>2, <1>3, <1>4, <1>5 DEF job

\* The command in progress is committed or refused, and the runner is answered.
LEMMA ReplyStep ==
  ASSUME IngestionTypeOK, IngestionInv, NEW r \in Runners, Reply(r)
  PROVE  StepOK
<1>1. PICK t \in api.open :
        /\ r \in t.waits
        /\ \/ Fresh(t) /\ api' = Committed(t) /\ Put(r, Answered(run[r], "done"))
           \/ /\ ~Fresh(t) /\ api' = RolledBack(t)
              /\ \E status \in Refusals(t) : Put(r, Answered(run[r], status))
  BY DEF Reply
<1>2. UNCHANGED <<ingestDay, feed, faults>>
  BY DEF Reply
<1> DEFINE job == run[r]
           least == Least(job.tasks)
<1>3. /\ job \in Jobs /\ JobInv(job, api.rows) /\ job.tasks # {} /\ job.todo # << >>
      /\ t.cmd = Head(job.todo) /\ t.cmd \in Commands
      /\ job.tool \in {"season", "match"} => t.cmd.match = least
      /\ \A u \in api.open \ {t} : r \notin u.waits
  BY <1>1, Awaited
\* After either end of the command, the answer decides what the job has left
<1>4. ASSUME NEW status \in {"done", "failed", "conflict"}, Put(r, Answered(job, status)),
             ApiOK(api'), Learned(api.rows, api'.rows), RoundsKept, api'.open = api.open \ {t},
             job.tool \in {"season", "match"} /\ t.cmd.kind = "stats" =>
               /\ status # "failed" => least \in DOMAIN api'.rows
               /\ status = "done" => api'.rows[least].stats # Nothing
      PROVE  StepOK
  <2> DEFINE next == Answered(job, status)
  <2>1. JobInv(job, api'.rows)
    BY <1>3, <1>4, JobsAreKept
  <2> HIDE DEF job
  <2>2. next \in Jobs \cup Stopped /\ JobInv(next, api'.rows) /\ (next \in Jobs \/ next.exit # 0)
    BY <1>3, <1>4, <2>1, AnsweredJob
  <2>3. Put(r, next)
    BY <1>4
  <2> HIDE DEF next
  <2>4. next # Stop(0)
    BY <2>2, NotOver
  <2>5. \A u \in api'.open : r \notin u.waits /\ (u \in api.open \/ u.waits = {})
    BY <1>3, <1>4
  <2> QED BY <1>2, <1>4, <2>2, <2>3, <2>4, <2>5, StepOfRunner
<1> HIDE DEF least
<1>5. CASE Fresh(t) /\ api' = Committed(t) /\ Put(r, Answered(run[r], "done"))
  <2>1. /\ ApiOK(api') /\ Learned(api.rows, api'.rows) /\ RoundsKept
        /\ api'.open = api.open \ {t}
        /\ t.cmd.kind = "stats" =>
             t.cmd.match \in DOMAIN api'.rows /\ api'.rows[t.cmd.match].stats # Nothing
    BY <1>5, CommittedKeeps
  <2> QED BY <1>3, <1>4, <1>5, <2>1
<1>6. ASSUME ~Fresh(t), api' = RolledBack(t), NEW status \in Refusals(t),
             Put(r, Answered(run[r], status))
      PROVE  StepOK
  <2>1. /\ ApiOK(api') /\ Learned(api.rows, api'.rows) /\ RoundsKept
        /\ api'.open = api.open \ {t} /\ api'.rows = api.rows
    BY <1>6, RolledBackKeeps
  <2>2. status \in {"failed", "conflict"}
    BY <1>6 DEF Refusals
  <2>3. t.cmd.match \in DOMAIN api.rows
    BY <1>6 DEF Fresh, IngestionInv, ApiOK, LoadedOK
  <2> QED BY <1>3, <1>4, <1>6, <2>1, <2>2, <2>3
<1> QED BY <1>1, <1>5, <1>6

\* The connection of a runner fails and its command goes on alone.
LEMMA HangUpStep ==
  ASSUME IngestionTypeOK, IngestionInv, NEW r \in Runners, HangUp(r)
  PROVE  StepOK
<1>1. PICK t \in api.open :
        /\ r \in t.waits /\ Put(r, TaskFailed(run[r]))
        /\ api' = [api EXCEPT !.open = (@ \ {t}) \cup {[t EXCEPT !.waits = {}]}]
  BY DEF HangUp
<1>2. Fault /\ UNCHANGED <<ingestDay, feed>>
  BY DEF HangUp
<1> DEFINE job == run[r]
           late == [t EXCEPT !.waits = {}]
<1>3. /\ job \in Jobs /\ JobInv(job, api.rows) /\ job.tasks # {}
      /\ \A u \in api.open \ {t} : r \notin u.waits
  BY <1>1, Awaited
<1>4. ApiOK(api) /\ api \in Databases /\ t \in Transactions
  BY DEF IngestionInv, ApiOK, Databases
<1>5. late \in Transactions /\ late.waits = {} /\ late.cmd = t.cmd /\ late.was = t.was
  BY <1>4 DEF Transactions
<1>6. LoadedOK(late, api.rows)
  <2> HIDE DEF late
  <2> QED BY <1>4, <1>5 DEF ApiOK, LoadedOK
<1> HIDE DEF late
<1>7. /\ api' \in Databases /\ api'.rows = api.rows /\ api'.done = api.done
      /\ api'.open = (api.open \ {t}) \cup {late}
  BY <1>1, <1>4, <1>5 DEF Databases, late
<1>8. ApiOK(api') /\ Learned(api.rows, api'.rows) /\ RoundsKept
  <2>1. ApiOK(api')
    BY <1>4, <1>6, <1>7 DEF ApiOK
  <2> QED BY <1>4, <1>7, <2>1, NothingForgotten DEF RoundsKept
<1>9. \A u \in api'.open : r \notin u.waits /\ (u \in api.open \/ u.waits = {})
  BY <1>3, <1>5, <1>7
<1> HIDE DEF job
<1>10. /\ TaskFailed(job) \in Jobs \cup Stopped /\ JobInv(TaskFailed(job), api'.rows)
       /\ TaskFailed(job) # Stop(0)
  BY <1>3, <1>7, FailedTask, NotOver
<1>11. Put(r, TaskFailed(job))
  BY <1>1 DEF job
<1> QED BY <1>2, <1>8, <1>9, <1>10, <1>11, StepOfRunner

\* A command that nobody waits for ends.
LEMMA LateEndStep ==
  ASSUME IngestionTypeOK, IngestionInv, LateEnd
  PROVE  StepOK
<1>1. PICK t \in api.open :
        t.waits = {} /\ ((Fresh(t) /\ api' = Committed(t)) \/ api' = RolledBack(t))
  BY DEF LateEnd
<1>2. UNCHANGED <<ingestDay, feed, run, faults>>
  BY DEF LateEnd
<1>3. /\ ApiOK(api') /\ Learned(api.rows, api'.rows) /\ RoundsKept
      /\ api'.open = api.open \ {t}
  BY <1>1, CommittedKeeps, RolledBackKeeps
<1>4. ASSUME NEW r \in Runners PROVE JobInv(run'[r], api'.rows)
  <2>1. JobInv(run[r], api.rows)
    BY DEF IngestionInv
  <2> QED BY <1>2, <1>3, <2>1, JobsAreKept
<1>5. WaitsOK'
  BY <1>2, <1>3 DEF IngestionInv, WaitsOK, Working
<1>6. ReportsNoGap
  BY <1>2, StoppedJob DEF ReportsNoGap
<1> QED BY <1>2, <1>3, <1>4, <1>5, <1>6, StepKept DEF IngestionTypeOK

\* A run that is over reports success only when it counted no failure.
LEMMA FinishStep ==
  ASSUME IngestionTypeOK, IngestionInv, NEW r \in Runners, Finish(r)
  PROVE  StepOK
<1> DEFINE job == run[r]
           asked == IF job.tool = "auto" THEN PostBackfill ELSE [api |-> api, failed |-> 0]
           status == IF job.failed + asked.failed = 0 THEN 0 ELSE 1
<1>1. /\ Working(r) /\ job.tasks = {} /\ api' = asked.api /\ Put(r, Stop(status))
      /\ UNCHANGED <<ingestDay, feed, faults>>
  BY DEF Finish
<1>2. job \in Jobs /\ JobInv(job, api.rows) /\ ApiOK(api) /\ ~Waiting(r)
  BY <1>1, RunnerShape, AtRest DEF IngestionInv
<1> HIDE DEF job
<1>3. asked.api \in {api, [api EXCEPT !.refreshed = TRUE]} /\ asked.failed \in {0, 1}
      /\ (job.tool \in {"season", "match"} => asked.api = api /\ asked.failed = 0)
  BY DEF PostBackfill
<1> HIDE DEF asked
<1>4. ApiOK(api') /\ api'.rows = api.rows /\ api'.open = api.open
  <2>1. api \in Databases
    BY <1>2 DEF ApiOK
  <2> DEFINE refreshed == [api EXCEPT !.refreshed = TRUE]
  <2>2. refreshed \in Databases /\ refreshed.rows = api.rows /\ refreshed.done = api.done
        /\ refreshed.open = api.open
    BY <2>1 DEF Databases
  <2> HIDE DEF refreshed
  <2>3. ApiOK(refreshed)
    BY <1>2, <2>2 DEF ApiOK
  <2>4. api' \in {api, refreshed}
    BY <1>1, <1>3 DEF refreshed
  <2> QED BY <1>2, <2>2, <2>3, <2>4
<1>5. Learned(api.rows, api'.rows) /\ RoundsKept
  BY <1>2, <1>4, NothingForgotten DEF RoundsKept
<1>6. status \in {0, 1}
  OBVIOUS
<1>7. Stop(status) \in Stopped /\ Stop(status).exit = status /\ JobInv(Stop(status), api'.rows)
  <2> HIDE DEF status
  <2> QED BY <1>6, StoppedJob
<1>8. job.tool \in {"season", "match"} /\ status = 0 => job.failed = 0
  <2>1. job.failed \in Nat
    BY <1>2 DEF Jobs
  <2> QED BY <1>3, <2>1
<1>9. Stop(0).exit = 0
  BY StoppedJob
<1> HIDE DEF status
<1>10. job.tool \in {"season", "match"} /\ Stop(status) = Stop(0) =>
         \A m \in job.planned : HasStats(m, job, api'.rows)
  BY <1>1, <1>2, <1>4, <1>7, <1>8, <1>9 DEF JobInv
<1>11. \A u \in api'.open : r \notin u.waits /\ (u \in api.open \/ u.waits = {})
  BY <1>2, <1>4 DEF Waiting
<1> QED BY <1>1, <1>4, <1>5, <1>7, <1>10, <1>11, StepOfRunner DEF job

\* The repair of a round puts the calendar's, where it was unknown.
LEMMA RepairRoundStep ==
  ASSUME IngestionTypeOK, IngestionInv, NEW r \in Runners, RepairRound(r)
  PROVE  StepOK
<1>1. PICK m \in DOMAIN api.rows :
        /\ api.rows[m].round # Calendar[m].round
        /\ api' = [api EXCEPT !.rows[m].round = Calendar[m].round]
  BY DEF RepairRound
<1>2. UNCHANGED <<ingestDay, feed, run, faults>>
  BY DEF RepairRound
<1> DEFINE row == [api.rows[m] EXCEPT !.round = Calendar[m].round]
           rows == [api.rows EXCEPT ![m] = row]
<1>3. /\ api \in Databases /\ api.rows \in MatchRows
      /\ \A k \in DOMAIN api.rows : api.rows[k].round \in {0, Calendar[k].round}
      /\ \A id \in api.done : /\ id[1] \in {"match", "stats"} => id[3] \in DOMAIN api.rows
                              /\ id[1] = "stats" => api.rows[id[3]].stats # Nothing
      /\ \A t \in api.open : LoadedOK(t, api.rows)
  BY DEF IngestionInv, ApiOK, Databases
<1>4. DOMAIN api.rows \subseteq Matches /\ api.rows \in [DOMAIN api.rows -> MatchRow]
  BY <1>3, RowsOfMatches
<1>5. /\ row \in MatchRow /\ row.round = Calendar[m].round /\ row.version = api.rows[m].version
      /\ row.stats = api.rows[m].stats /\ row.status = api.rows[m].status
      /\ row.score = api.rows[m].score
  <2>1. api.rows[m] \in MatchRow /\ Calendar[m].round \in Rounds
    BY <1>4 DEF Rounds
  <2> QED BY <2>1 DEF MatchRow
<1> HIDE DEF row
<1>6. /\ DOMAIN rows = DOMAIN api.rows /\ rows \in MatchRows /\ rows[m] = row
      /\ \A k \in DOMAIN api.rows \ {m} : rows[k] = api.rows[k]
  <2>1. rows \in [DOMAIN api.rows -> MatchRow]
    BY <1>4, <1>5
  <2> QED BY <1>4, <2>1, RowsOfMatches
<1>7. api' = [api EXCEPT !.rows = rows]
  BY <1>1, <1>3 DEF row, Databases
<1> HIDE DEF rows
<1>8. /\ api' \in Databases /\ api'.rows = rows /\ api'.done = api.done /\ api'.open = api.open
  BY <1>3, <1>6, <1>7 DEF Databases
<1>9. \A k \in DOMAIN api.rows :
        /\ rows[k].round \in {0, Calendar[k].round} /\ (api.rows[k].round # 0 => rows[k].round # 0)
        /\ rows[k].stats = api.rows[k].stats /\ rows[k].status = api.rows[k].status
        /\ rows[k].score = api.rows[k].score /\ rows[k].version = api.rows[k].version
  BY <1>1, <1>3, <1>5, <1>6
<1>10. Learned(api.rows, api'.rows) /\ RoundsKept
  BY <1>6, <1>8, <1>9 DEF Learned, RoundsKept
<1>11. ApiOK(api')
  <2>1. \A t \in api.open : LoadedOK(t, rows)
    BY <1>3, <1>6, <1>9 DEF LoadedOK
  <2> QED BY <1>3, <1>6, <1>8, <1>9, <2>1 DEF ApiOK
<1>12. ASSUME NEW q \in Runners PROVE JobInv(run'[q], api'.rows)
  <2>1. JobInv(run[q], api.rows)
    BY DEF IngestionInv
  <2> QED BY <1>2, <1>10, <2>1, JobsAreKept
<1>13. WaitsOK'
  BY <1>2, <1>8 DEF IngestionInv, WaitsOK, Working
<1>14. ReportsNoGap
  BY <1>2, StoppedJob DEF ReportsNoGap
<1> QED BY <1>2, <1>10, <1>11, <1>12, <1>13, <1>14, StepKept DEF IngestionTypeOK

\* Days, publications and pauses change nothing that was learned.
LEMMA OutsideStep ==
  ASSUME IngestionTypeOK, IngestionInv,
         NewDay \/ (\E m \in Matches : Publish(m)) \/ UNCHANGED ingestionVars
  PROVE  StepOK
<1>1. UNCHANGED <<api, run, faults>>
  BY DEF NewDay, Publish, ingestionVars
<1>2. ingestDay' \in 0..MaxDay
  BY IngestionAssumption DEF NewDay, Publish, ingestionVars, IngestionTypeOK
<1>3. feed' \in [Matches -> 0..Len(Published)]
  <2>1. CASE feed' = feed
    BY <2>1 DEF IngestionTypeOK
  <2>2. ASSUME NEW m \in Matches, Publish(m) PROVE feed' \in [Matches -> 0..Len(Published)]
    <3>1. Len(Published) \in Nat
      BY IngestionAssumption
    <3>2. feed[m] \in 0..Len(Published) /\ feed[m] < Len(Published)
      BY <2>2 DEF Publish, IngestionTypeOK
    <3>3. feed[m] + 1 \in 0..Len(Published)
      BY <3>1, <3>2
    <3> QED BY <2>2, <3>3 DEF Publish, IngestionTypeOK
  <2> QED BY <2>1, <2>2 DEF NewDay, ingestionVars
<1>4. IngestionTypeOK' /\ IngestionInv'
  BY <1>1, <1>2, <1>3 DEF IngestionTypeOK, IngestionInv, WaitsOK, Working
<1>5. KeepsLearned
  <2>1. Learned(api.rows, api.rows)
    BY NothingForgotten DEF IngestionInv
  <2> QED BY <1>1, <2>1 DEF KeepsLearned, Learned
<1>6. ReportsNoGap
  BY <1>1, StoppedJob DEF ReportsNoGap
<1> QED BY <1>4, <1>5, <1>6 DEF StepOK

\* Nothing is known when the ingestion begins.
LEMMA InitIngestion == IngestionInit => IngestionTypeOK /\ IngestionInv
<1> SUFFICES ASSUME IngestionInit PROVE IngestionTypeOK /\ IngestionInv
  OBVIOUS
<1>1. api = [rows |-> [m \in {} |-> 0], done |-> {}, refreshed |-> FALSE, open |-> {}]
      /\ DOMAIN api.rows = {} /\ api.done = {} /\ api.open = {}
  BY DEF IngestionInit
<1>2. api.rows \in MatchRows
  <2>1. {} \in SUBSET Matches /\ api.rows \in [{} -> MatchRow]
    BY <1>1
  <2> QED BY <2>1, RowsOfMatches
<1>3. api \in Databases
  BY <1>1, <1>2 DEF Databases
<1>4. Len(Published) \in Nat /\ MaxDay \in Nat /\ MaxFaults \in Nat
  BY IngestionAssumption
<1>5. \A r \in Runners : run[r] = Idle /\ Idle \in Stopped /\ Idle.tool = "idle"
  BY DEF IngestionInit, Idle, Stopped
<1>6. IngestionTypeOK
  BY <1>3, <1>4, <1>5 DEF IngestionInit, IngestionTypeOK, Databases
<1>7. IngestionInv
  BY <1>1, <1>3, <1>5 DEF IngestionInv, ApiOK, JobInv, WaitsOK
<1> QED BY <1>6, <1>7

LEMMA NextIngestion == IngestionTypeOK /\ IngestionInv /\ [IngestionNext]_ingestionVars => StepOK
<1> SUFFICES ASSUME IngestionTypeOK, IngestionInv, [IngestionNext]_ingestionVars PROVE StepOK
  OBVIOUS
<1>1. ASSUME NEW r \in Runners, RunnerStep(r) PROVE StepOK
  BY <1>1, BeginStep, DiscoverRoundsStep, EnterRoundStep, ListRoundStep, FetchBoxStep,
     ReadDetailStep, ThrottledStep, PostStep, ReplyStep, HangUpStep, FinishStep, RepairRoundStep
  DEF RunnerStep
<1> QED BY <1>1, LateEndStep, OutsideStep DEF IngestionNext

LEMMA IngestionInvariant == IngestionSpec => [](IngestionTypeOK /\ IngestionInv)
<1>1. IngestionTypeOK /\ IngestionInv /\ [IngestionNext]_ingestionVars
        => IngestionTypeOK' /\ IngestionInv'
  BY NextIngestion DEF StepOK
<1> QED BY <1>1, InitIngestion, PTL DEF IngestionSpec

----------------------------------------------------------------------------
(***************************************************************************)
(* What the ingestion promises.                                            *)
(***************************************************************************)
\* The rows of the API and the work of the runners keep their shape.
THEOREM IngestionTyped == IngestionSpec => []IngestionTypeOK
BY IngestionInvariant, PTL

\* The statistics of a match do not vanish, a closed match keeps its score, and its
\* round is the calendar's or unknown and is not forgotten, unless a repair put it
\* under a command that had loaded the row before: for any number of runners of any
\* tools, and any throttled, lost, repeated, overtaken or late request.
THEOREM WhatIsLearnedStays == IngestionSpec => LearnedStays
<1>1. IngestionTypeOK /\ IngestionInv /\ [IngestionNext]_ingestionVars
        => [KeepsLearned]_ingestionVars
  BY NextIngestion DEF StepOK
<1>2. LearnedStays <=> [][KeepsLearned]_ingestionVars
  BY DEF LearnedStays, KeepsLearned
<1> QED BY <1>1, <1>2, IngestionInvariant, PTL DEF IngestionSpec

\* A run of ingest_season or ingest_match that exits with 0 left the row of every match
\* it went through, and its statistics unless the command with them was answered 409.
THEOREM SuccessIsComplete == IngestionSpec => SuccessLeavesNoGap
<1>1. IngestionTypeOK /\ IngestionInv /\ [IngestionNext]_ingestionVars
        => [ReportsNoGap]_ingestionVars
  BY NextIngestion DEF StepOK
<1>2. SuccessLeavesNoGap <=> [][ReportsNoGap]_ingestionVars
  BY DEF SuccessLeavesNoGap, ReportsNoGap
<1> QED BY <1>1, <1>2, IngestionInvariant, PTL DEF IngestionSpec
=============================================================================
