------------------------------- MODULE Ingestion -------------------------------
(***************************************************************************)
(* The runners of scripts/feb that carry the FEB's matches into the API:   *)
(* run_auto_ingest, ingest_season, ingest_match, backfill_public,          *)
(* finalize_pending and repair_round_numbers.  A runner is a process that  *)
(* reads the calendar and the boxscores and posts commands one by one; any *)
(* request may be throttled, refused, or lost before or after the server   *)
(* committed it.                                                           *)
(* Every command carries an id derived from the season, the competition    *)
(* and the match, and the API answers a known id without doing anything.   *)
(* A command loads the row of its match and writes it back whole, guarded  *)
(* by the row's version, in a transaction that others may overtake (as on  *)
(* PostgreSQL; on SQLite a command holds the write lock before it loads).  *)
(*                                                                         *)
(* A boxscore is its two scores; one season, and rounds told apart by      *)
(* their number.  Round 0 stands for an unknown round.                     *)
(***************************************************************************)
EXTENDS Integers, Sequences, FiniteSets

CONSTANTS
    Matches,      \* external ids of the season's matches, as they are ordered
    Calendar,     \* Calendar[m]: group, round and day of the match
    Runners,      \* processes that may run at the same time
    Tools,        \* the scripts each of them runs: [Runners -> SUBSET STRING]
    Published,    \* Published[i]: the i-th boxscore the FEB shows for a match
    Lookback, Lookahead,   \* window of the active rounds (10 and 14 days)
    MaxRetries,   \* retries of a throttled request (3)
    MaxDay,       \* bound on the calendar day
    MaxFaults     \* bound on failed, throttled and lost requests

VARIABLES
    ingestDay,    \* today
    feed,         \* feed[m]: how many boxscores of m have been published
    api,          \* match rows, ids of processed commands, catalog refreshed, and the
                  \* transactions in progress: who waits, the command, the row it loaded
    run,          \* run[r]: what the runner r has in hand
    faults        \* faults so far

ingestionVars == <<ingestDay, feed, api, run, faults>>

Groups == {"ESTE", "OESTE"}

ASSUME IngestionAssumption ==
    /\ Matches \subseteq Nat /\ IsFiniteSet(Matches)
    /\ Calendar \in [Matches -> [group : Groups, round : Nat, day : Int]]
    /\ Published \in Seq([home : Nat, away : Nat, quartersAddUp : BOOLEAN])
    /\ {Lookback, Lookahead, MaxRetries, MaxDay, MaxFaults} \subseteq Nat

Nothing == << >>
Idle == [tool |-> "idle", exit |-> 0]

IngestionInit ==
    /\ ingestDay = 0 /\ faults = 0
    /\ feed = [m \in Matches |-> 0]
    /\ api = [rows |-> [m \in {} |-> 0], done |-> {}, refreshed |-> FALSE, open |-> {}]
    /\ run = [r \in Runners |-> Idle]

-----------------------------------------------------------------------------
(* Commands and their ids *)

\* FEB_COMPETITION_ID of the ingestor and --competition of the public backfill
CompetitionOf(tool) == IF tool = "public" THEN "segundafeb" ELSE "segunda-feb"

\* _command_id, _stats_command_id, _finalize_command_id: nothing of the content
IngestorCommandId(kind, competition, m) == <<kind, competition, m>>
PublicCommandId(kind, competition, m) == <<kind, competition, m>>
FinalizerCommandId(competition, m) == <<"finalize", competition, m>>

\* to_command: the round is left out when the calendar did not tell it
ToMatchCommand(m, round) ==
    [kind |-> "match", match |-> m, competition |-> "segunda-feb", round |-> round,
     id |-> IngestorCommandId("match", "segunda-feb", m)]

ToStatsCommand(m, box) ==
    [kind |-> "stats", match |-> m, box |-> [home |-> box.home, away |-> box.away],
     id |-> IngestorCommandId("stats", "segunda-feb", m)]

\* build_commands of the public backfill: match, statistics, finalization
BuildCommands(m, round, box) ==
    << [kind |-> "match", match |-> m, competition |-> "segundafeb", round |-> round,
        id |-> PublicCommandId("match", "segundafeb", m)],
       [kind |-> "stats", match |-> m, box |-> [home |-> box.home, away |-> box.away],
        id |-> PublicCommandId("stats", "segundafeb", m)],
       [kind |-> "finalize", match |-> m, score |-> [home |-> box.home, away |-> box.away],
        id |-> PublicCommandId("finalize", "segundafeb", m)] >>

\* score_from_team_stats, on the lines of the match as they are read back
ScoreFromTeamStats(row) ==
    IF row.stats # Nothing /\ row.stats.home >= 0 THEN row.stats ELSE Nothing

\* build_finalize
BuildFinalize(m, competition, score) ==
    [kind |-> "finalize", match |-> m, score |-> score, id |-> FinalizerCommandId(competition, m)]

-----------------------------------------------------------------------------
(* The API, as the runners see it *)

\* CreateOrUpdateMatchHandler on a row that is there
UpdateMatch(row, cmd) ==
    [row EXCEPT !.competition = cmd.competition, !.version = @ + 1,
                !.round = IF cmd.round = 0 THEN @ ELSE cmd.round]

With(rows, m, row) == [k \in DOMAIN rows \cup {m} |-> IF k = m THEN row ELSE rows[k]]

\* The row a command loads, Nothing when the match is not there
Loaded(cmd) == IF cmd.match \in DOMAIN api.rows THEN api.rows[cmd.match] ELSE Nothing

\* The row it leaves, Nothing when the handler refuses the command
RowAfter(row, cmd) ==
    IF cmd.kind = "match"
    THEN IF row # Nothing THEN UpdateMatch(row, cmd)
         ELSE [round |-> cmd.round, competition |-> cmd.competition, version |-> 1,
               status |-> "SCHEDULED", score |-> Nothing, stats |-> Nothing]
    ELSE IF row = Nothing THEN Nothing
    ELSE IF cmd.kind = "stats" THEN [row EXCEPT !.stats = cmd.box, !.version = @ + 1]
    ELSE [row EXCEPT !.status = "FINALIZED", !.score = cmd.score, !.version = @ + 1]

\* A finalization is refused for a final match, without statistics or points; the
\* refusal is an event, not an error, and leaves no mark.
FinalizationRefused(row, cmd) ==
    /\ cmd.kind = "finalize" /\ row # Nothing
    /\ row.status = "FINALIZED" \/ row.stats = Nothing \/ cmd.score.home + cmd.score.away = 0

\* What is answered to a command that writes nothing: a known id, a refused
\* finalization or a match that is not there.  The others are under way.
Execute(cmd) ==
    IF cmd.id \in api.done \/ FinalizationRefused(Loaded(cmd), cmd) THEN "done"
    ELSE IF RowAfter(Loaded(cmd), cmd) = Nothing THEN "failed"
    ELSE "under way"

\* Mutant: the row is written whatever its version.
FreshUnchecked(t) == TRUE

\* PgMatchRepository.save: INSERT of a new match, UPDATE ... WHERE version = the loaded one
Fresh(t) ==
    IF t.was = Nothing THEN t.cmd.match \notin DOMAIN api.rows
    ELSE api.rows[t.cmd.match].version = t.was.version

Committed(t) ==
    [api EXCEPT !.rows = With(@, t.cmd.match, RowAfter(t.was, t.cmd)),
                !.done = @ \cup {t.cmd.id}, !.open = @ \ {t}]
RolledBack(t) == [api EXCEPT !.open = @ \ {t}]

\* 409 for a stale version; a match created by another after the SELECT of save is a
\* unique violation, answered 503
Refusals(t) == {"conflict"} \cup IF t.was = Nothing THEN {"failed"} ELSE {}

-----------------------------------------------------------------------------
(* Discovery *)

\* parse_calendar of the page of one group
RoundsOf(group) == {Calendar[m].round : m \in {k \in Matches : Calendar[k].group = group}}
DiscoverMatches(group, round) ==
    {m \in Matches : Calendar[m].group = group /\ Calendar[m].round = round}

\* _active_rounds: rounds with a match inside the window
ActiveRounds(group, today) ==
    {r \in RoundsOf(group) : \E m \in DiscoverMatches(group, r) :
        /\ today - Lookback <= Calendar[m].day
        /\ Calendar[m].day <= today + Lookahead}

\* resolve_round_for_match: the calendar of the default group only
ResolveRound(m) == IF Calendar[m].group = "ESTE" THEN Calendar[m].round ELSE 0

\* _selected_rounds of a range, and the rounds of a daily or weekly run
Selected(job) ==
    IF job.mode = "daily" THEN ActiveRounds(job.group, ingestDay) ELSE RoundsOf(job.group)

-----------------------------------------------------------------------------
(* The steps of a runner *)

Job(tool, mode, groups) ==
    [tool |-> tool, mode |-> mode, groups |-> groups, group |-> "ESTE", rounds |-> {},
     round |-> 0, tasks |-> {}, planned |-> {}, listed |-> Nothing, todo |-> << >>,
     tries |-> 0, conflicted |-> {}, failed |-> 0, exit |-> 0]

Least(set) == CHOOSE x \in set : \A y \in set : x <= y
Working(r) == run[r].tool # "idle"
InHand(r) == Least(run[r].tasks)

Put(r, job) == run' = [run EXCEPT ![r] = job]
Waiting(r) == \E t \in api.open : r \in t.waits
Fault == faults < MaxFaults /\ faults' = faults + 1
Stop(exit) == [Idle EXCEPT !.exit = exit]

Begin(r) ==
    /\ ~Working(r) /\ UNCHANGED <<ingestDay, feed, api>>
    /\ \/ \E mode \in {"daily", "weekly"} :
            "auto" \in Tools[r] /\ Put(r, Job("auto", mode, <<"ESTE", "OESTE">>)) /\ UNCHANGED faults
       \/ \E tool \in {"season", "public"} \cap Tools[r], group \in Groups :
            Put(r, Job(tool, "range", <<group>>)) /\ UNCHANGED faults
       \/ /\ "finalize" \in Tools[r]
          /\ Put(r, [Job("finalize", "range", << >>) EXCEPT
                        !.rounds = {Calendar[m].round : m \in Matches}])
          /\ UNCHANGED faults
       \/ \E m \in Matches :
            /\ "match" \in Tools[r]
            /\ \E round \in {ResolveRound(m), 0} :
                /\ Put(r, [Job("match", "one", << >>) EXCEPT
                              !.tasks = {m}, !.planned = {m}, !.round = round])
                /\ IF round = ResolveRound(m) THEN UNCHANGED faults ELSE Fault

\* fetch_calendar_group and parse_calendar of the next group.  A source error fails
\* the group of an automatic run and ends the others.
DiscoverRounds(r) ==
    LET job == run[r]
        here == [job EXCEPT !.group = Head(job.groups), !.groups = Tail(@)]
    IN  /\ Working(r) /\ job.tasks = {} /\ job.rounds = {} /\ job.groups # << >>
        /\ \/ Put(r, [here EXCEPT !.rounds = Selected(here)]) /\ UNCHANGED faults
           \/ /\ Fault
              /\ Put(r, IF job.tool = "auto" THEN [here EXCEPT !.failed = @ + 1] ELSE Stop(3))
        /\ UNCHANGED <<ingestDay, feed, api>>

\* run_round and its own fetch of the calendar: a source error is counted by
\* run_season and escapes from run_auto_ingest, which ends.
EnterRound(r) ==
    LET job == run[r]
        round == Least(job.rounds)
        here == [job EXCEPT !.round = round, !.rounds = @ \ {round}]
        refs == DiscoverMatches(job.group, round)
    IN  /\ Working(r) /\ job.tasks = {} /\ job.rounds # {} /\ job.tool # "finalize"
        /\ \/ Put(r, [here EXCEPT !.tasks = refs, !.planned = @ \cup refs]) /\ UNCHANGED faults
           \/ /\ Fault /\ job.tool # "public"
              /\ Put(r, IF job.tool = "auto" THEN Stop(3)
                        ELSE [here EXCEPT !.failed = @ + Cardinality(refs)])
        /\ UNCHANGED <<ingestDay, feed, api>>

\* finalize_pending reads the rows of a round; a round it cannot read is passed over
ListRound(r) ==
    LET job == run[r]
        round == Least(job.rounds)
        here == [job EXCEPT !.round = round, !.rounds = @ \ {round}]
    IN  /\ Working(r) /\ job.tasks = {} /\ job.rounds # {} /\ job.tool = "finalize"
        /\ \/ /\ Put(r, [here EXCEPT !.listed = api.rows,
                            !.tasks = {m \in DOMAIN api.rows : api.rows[m].round = round}])
              /\ UNCHANGED faults
           \/ Fault /\ Put(r, here)
        /\ UNCHANGED <<ingestDay, feed, api>>

TaskDone(job) ==
    [job EXCEPT !.tasks = @ \ {Least(@)}, !.todo = << >>, !.tries = 0,
                !.listed = IF Cardinality(job.tasks) = 1 THEN Nothing ELSE @]

\* Mutant: a failed match is not counted.
TaskFailedSilently(job) == TaskDone(job)

\* An exception or a status out of _OK_STATUSES: the match is counted as failed and
\* the run goes on, except for ingest_match, which exits.
TaskFailed(job) ==
    IF job.tool = "match" THEN Stop(4) ELSE [TaskDone(job) EXCEPT !.failed = @ + 1]

\* The boxscore: parse_boxscore refuses a page without the two teams, and the
\* public backfill skips a match whose quarters do not add up to its score.
FetchBox(r) ==
    LET job == run[r]
        m == InHand(r)
        box == Published[feed[m]]
    IN  /\ Working(r) /\ job.tasks # {} /\ job.todo = << >> /\ job.tool # "finalize"
        /\ Put(r, IF feed[m] = 0 THEN TaskFailed(job)
                  ELSE IF job.tool # "public"
                  THEN [job EXCEPT !.tries = 0,
                            !.todo = <<ToMatchCommand(m, job.round), ToStatsCommand(m, box)>>]
                  ELSE IF ~box.quartersAddUp THEN TaskDone(job)
                  ELSE [job EXCEPT !.todo = BuildCommands(m, job.round, box)])
        /\ UNCHANGED <<ingestDay, feed, api, faults>>

\* finalize_pending passes over final matches of its listing, reads the others again
ReadDetail(r) ==
    LET job == run[r]
        m == InHand(r)
        score == ScoreFromTeamStats(api.rows[m])
    IN  /\ Working(r) /\ job.tasks # {} /\ job.todo = << >> /\ job.tool = "finalize"
        /\ \/ /\ Put(r, IF job.listed[m].status = "FINALIZED" \/ score = Nothing THEN TaskDone(job)
                        ELSE [job EXCEPT !.todo =
                                 <<BuildFinalize(m, job.listed[m].competition, score)>>])
              /\ UNCHANGED faults
           \/ Fault /\ job.listed[m].status # "FINALIZED" /\ Put(r, TaskFailed(job))
        /\ UNCHANGED <<ingestDay, feed, api>>

\* A request of request_with_retry is throttled: it is sent again, a few times.
Throttled(r) ==
    LET job == run[r]
    IN  /\ Working(r) /\ job.tasks # {} /\ ~Waiting(r) /\ Fault
        /\ job.tool \in {"auto", "season", "match"}
        /\ Put(r, IF job.tries < MaxRetries THEN [job EXCEPT !.tries = @ + 1] ELSE TaskFailed(job))
        /\ UNCHANGED <<ingestDay, feed, api>>

\* _OK_STATUSES: the ingestors of the private feed take a conflict for done
TakenForDone(tool) == IF tool \in {"auto", "season", "match"} THEN {"done", "conflict"} ELSE {"done"}

\* The job after an answer; conflicted are the matches whose statistics met a conflict.
Answered(job, status) ==
    LET met == IF status = "conflict" /\ Head(job.todo).kind = "stats" THEN {Least(job.tasks)} ELSE {}
        noted == [job EXCEPT !.conflicted = @ \cup met]
    IN  IF status \notin TakenForDone(job.tool) THEN TaskFailed(job)
        ELSE IF Len(job.todo) = 1 THEN TaskDone(noted)
        ELSE [noted EXCEPT !.todo = Tail(@), !.tries = 0]

\* post_command, post_stats_command and the posts of the other two runners: the next
\* command is answered at once or begins, or the connection fails on either side of it.
Post(r) ==
    LET job == run[r]
        cmd == Head(job.todo)
    IN  /\ Working(r) /\ job.todo # << >> /\ ~Waiting(r)
        /\ \/ /\ Execute(cmd) # "under way" /\ Put(r, Answered(job, Execute(cmd)))
              /\ UNCHANGED <<api, faults>>
           \/ /\ Execute(cmd) = "under way"
              /\ api' = [api EXCEPT !.open = @ \cup {[waits |-> {r}, cmd |-> cmd, was |-> Loaded(cmd)]}]
              /\ UNCHANGED <<run, faults>>
           \/ Fault /\ Put(r, TaskFailed(job)) /\ UNCHANGED api
        /\ UNCHANGED <<ingestDay, feed>>

\* The command in progress is committed, or refused for what others committed meanwhile.
Reply(r) ==
    /\ \E t \in api.open :
        /\ r \in t.waits
        /\ \/ Fresh(t) /\ api' = Committed(t) /\ Put(r, Answered(run[r], "done"))
           \/ /\ ~Fresh(t) /\ api' = RolledBack(t)
              /\ \E status \in Refusals(t) : Put(r, Answered(run[r], status))
    /\ UNCHANGED <<ingestDay, feed, faults>>

\* The connection fails while the command is in progress: the server goes on alone.
HangUp(r) ==
    /\ Fault
    /\ \E t \in api.open :
        /\ r \in t.waits /\ Put(r, TaskFailed(run[r]))
        /\ api' = [api EXCEPT !.open = (@ \ {t}) \cup {[t EXCEPT !.waits = {}]}]
    /\ UNCHANGED <<ingestDay, feed>>

\* It commits what nobody waits for any more, or fails.
LateEnd ==
    /\ \E t \in api.open :
        /\ t.waits = {}
        /\ (Fresh(t) /\ api' = Committed(t)) \/ api' = RolledBack(t)
    /\ UNCHANGED <<ingestDay, feed, run, faults>>

\* CommandRequest forbids every other field
Accepted(envelope) == envelope = {"command_id", "payload"}

\* _post_backfill: its envelope names the actor and the metadata of the command
PostBackfill ==
    IF Accepted({"command_id", "meta", "actor", "payload"})
    THEN [api |-> [api EXCEPT !.refreshed = TRUE], failed |-> 0] ELSE [api |-> api, failed |-> 1]

\* The run is over: an automatic one asks for the catalog, and each tells its failures.
Finish(r) ==
    LET job == run[r]
        asked == IF job.tool = "auto" THEN PostBackfill ELSE [api |-> api, failed |-> 0]
    IN  /\ Working(r) /\ job.groups = << >> /\ job.rounds = {} /\ job.tasks = {}
        /\ api' = asked.api
        /\ Put(r, Stop(IF job.failed + asked.failed = 0 THEN 0 ELSE 1))
        /\ UNCHANGED <<ingestDay, feed, faults>>

\* repair_round_numbers, for the SQL it renders: one UPDATE a match of the calendar,
\* run one by one, of the round alone; the version of the match stays as it is.
RepairRound(r) ==
    /\ "repair" \in Tools[r] /\ ~Working(r)
    /\ \E m \in DOMAIN api.rows :
        /\ api.rows[m].round # Calendar[m].round
        /\ api' = [api EXCEPT !.rows[m].round = Calendar[m].round]
    /\ UNCHANGED <<ingestDay, feed, run, faults>>

RunnerStep(r) ==
    \/ Begin(r) \/ DiscoverRounds(r) \/ EnterRound(r) \/ ListRound(r) \/ FetchBox(r)
    \/ ReadDetail(r) \/ Throttled(r) \/ Post(r) \/ Reply(r) \/ HangUp(r) \/ Finish(r)
    \/ RepairRound(r)

\* The FEB: days pass, and boxscores are published from the day of the match
NewDay == ingestDay < MaxDay /\ ingestDay' = ingestDay + 1 /\ UNCHANGED <<feed, api, run, faults>>

Publish(m) ==
    /\ ingestDay >= Calendar[m].day /\ feed[m] < Len(Published)
    /\ feed' = [feed EXCEPT ![m] = @ + 1]
    /\ UNCHANGED <<ingestDay, api, run, faults>>

IngestionNext ==
    \/ \E r \in Runners : RunnerStep(r)
    \/ LateEnd
    \/ NewDay
    \/ \E m \in Matches : Publish(m)

IngestionSpec == IngestionInit /\ [][IngestionNext]_ingestionVars

\* The scheduled runs keep coming, the source and the API keep answering, and the
\* FEB publishes the final boxscore of every match.
IngestionFairness ==
    /\ \A r \in Runners : WF_ingestionVars(RunnerStep(r))
    /\ WF_ingestionVars(NewDay)
    /\ \A m \in Matches : WF_ingestionVars(Publish(m))

-----------------------------------------------------------------------------
Scores == {[home |-> box.home, away |-> box.away] :
              box \in {Published[i] : i \in 1..Len(Published)}}

Rounds == {0} \cup {Calendar[m].round : m \in Matches}
Competitions == {"segunda-feb", "segundafeb"}

\* A row of the API, and what a listing of them holds
MatchRow ==
    [round : Rounds, competition : Competitions, version : Nat,
     status : {"SCHEDULED", "FINALIZED"}, score : Scores \cup {Nothing}, stats : Scores \cup {Nothing}]
MatchRows == UNION {[known -> MatchRow] : known \in SUBSET Matches}

\* The commands: each id tells the kind and the match, a round is the calendar's
CommandIds == {"match", "stats", "finalize"} \X Competitions \X Matches
MatchCommands ==
    {c \in [kind : {"match"}, match : Matches, competition : Competitions, round : Rounds,
            id : CommandIds] :
        c.round \in {0, Calendar[c.match].round}}
StatsCommands == [kind : {"stats"}, match : Matches, box : Scores, id : CommandIds]
FinalizeCommands == [kind : {"finalize"}, match : Matches, score : Scores, id : CommandIds]
Commands ==
    {c \in MatchCommands \cup StatsCommands \cup FinalizeCommands :
        c.id[1] = c.kind /\ c.id[3] = c.match}

\* A command in progress and the row it loaded
Transactions == [waits : SUBSET Runners, cmd : Commands, was : MatchRow \cup {Nothing}]

\* The runners: at work, or stopped with an exit status
Jobs ==
    [tool : {"auto", "season", "match", "public", "finalize"},
     mode : {"daily", "weekly", "range", "one"}, groups : Seq(Groups), group : Groups,
     rounds : SUBSET Rounds, round : Rounds, tasks : SUBSET Matches, planned : SUBSET Matches,
     listed : MatchRows \cup {Nothing}, todo : Seq(Commands), tries : 0..MaxRetries,
     conflicted : SUBSET Matches, failed : Nat, exit : {0}]
Stopped == [tool : {"idle"}, exit : {0, 1, 3, 4}]

IngestionTypeOK ==
    /\ ingestDay \in 0..MaxDay /\ faults \in 0..MaxFaults
    /\ feed \in [Matches -> 0..Len(Published)]
    /\ api \in [rows : MatchRows, done : SUBSET CommandIds, refreshed : BOOLEAN,
                open : SUBSET Transactions]
    /\ run \in [Runners -> Jobs \cup Stopped]

\* A run of ingest_season or ingest_match that exits with 0 leaves no gap: whatever
\* was throttled, lost or already there, and whoever else was writing, every match
\* it went through has its row and statistics.  Only where another command for the
\* match overtook the statistics, and the conflict was taken for done, may they miss.
SuccessLeavesNoGap ==
    [][\A r \in Runners :
        (run[r].tool \in {"season", "match"} /\ run'[r] = Stop(0)) =>
            \A m \in run[r].planned :
                /\ m \in DOMAIN api'.rows
                /\ api'.rows[m].stats # Nothing \/ m \in run[r].conflicted
       ]_ingestionVars

\* A command that loaded an unknown round ends, and the version it loaded is the row's:
\* the round became known since by a repair, which the version does not show.
OvertakenRepair(m) ==
    \E t \in api.open :
        /\ t \notin api'.open /\ t.cmd.match = m /\ t.was # Nothing
        /\ t.was.version = api.rows[m].version /\ t.was.round = 0

\* What the runs learned stays.  The round of a match is the calendar's or unknown, and
\* a runner that does not know it, such as ingest_match for a match of the second
\* group, does not take it away, unless the round was repaired while its command was in
\* progress; statistics do not vanish; and a closed match gets no second score, neither
\* from a repeated run nor from another runner's boxscore.
LearnedStays ==
    [][\A m \in DOMAIN api.rows :
        LET old == api.rows[m]
            new == api'.rows[m]
        IN  /\ new.round \in {0, Calendar[m].round}
            /\ old.round # 0 => new.round # 0 \/ OvertakenRepair(m)
            /\ old.stats # Nothing => new.stats # Nothing
            /\ old.status = "FINALIZED" => new.status = "FINALIZED" /\ new.score = old.score
       ]_ingestionVars

\* upsert_match_stats records provisional statistics and the runs keep ingesting on
\* their own, so the final boxscore of every match reaches its row.
ProvisionalStatsAreReplaced ==
    \A m \in Matches :
        feed[m] = Len(Published) ~>
            /\ m \in DOMAIN api.rows
            /\ api.rows[m].stats = [home |-> Published[Len(Published)].home,
                                    away |-> Published[Len(Published)].away]
=============================================================================
