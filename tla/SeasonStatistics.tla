--------------------------- MODULE SeasonStatistics ---------------------------
(***************************************************************************)
(* The statistics of a season.  upsert_match_stats records a boxscore on   *)
(* the match and in a projection of one row per match and team and per     *)
(* match and player, which SQLite, PostgreSQL and the in-memory store keep *)
(* each in its own way; season tables, leaderboards, metrics and rounds    *)
(* are queries over that projection.  Standings, category leaderboards and *)
(* ratings are computed from the matches instead.                          *)
(*                                                                         *)
(* A line keeps two counters, one where more is better and one where less  *)
(* is: rebounds, assists, steals and blocks are summed and ordered like    *)
(* points, the shooting columns of a team are summed like points_for.      *)
(***************************************************************************)
EXTENDS Integers, Sequences, FiniteSetsExt, Functions

CONSTANTS
    Games,       \* external ids of matches
    Fixture,     \* Fixture[g]: home, away, season, round (0 when the row has none) and
                 \* scheduled time (at) of the match
    Players,     \* external ids of players, numbers as they are ordered
    Boxes,       \* Boxes[g]: the payloads a feed may carry for the match
    Finals,      \* scores a finalize_match may carry
    Limits,      \* limits a reader may ask for
    Window,      \* matches in a rating window (the code has 5 and 10)
    Scale,       \* averages are in units of 1/Scale, which no average falls between
    HalfUp       \* round(x, 2) of an x half way above q hundredths is q or q + 1,
                 \* as the double nearest to x lies: the q that are rounded up

\* PlayerStatsLine and TeamStatsLine; at is the payload's optional played_at, 0 for
\* none, which the readers order as datetime.min
PlayerLine == [team : Nat, points : Nat, turnovers : Nat, at : Nat]
TeamLine == [points_for : Nat, points_against : Nat]

\* A match has two different teams, which a feed names in its payload; no number
\* of a line is negative; a player is not in two matches at one time.
ASSUME StatisticsAssumption ==
    /\ IsFiniteSet(Games) /\ IsFiniteSet(Players)
    /\ Players \subseteq Nat /\ Limits \subseteq Nat /\ Window \in Nat \ {0}
    /\ Scale \in Nat \ {0} /\ \A n \in 1..Cardinality(Games) : Scale % n = 0
    /\ HalfUp \subseteq Nat
    /\ Fixture \in [Games -> [home : Nat, away : Nat, season : STRING \ {"none"},
                              round : Nat, at : Nat]]
    /\ \A g, h \in Games : \A box \in Boxes[g], other \in Boxes[h] :
          g # h /\ Fixture[g].at = Fixture[h].at => DOMAIN box.lines \cap DOMAIN other.lines = {}
    /\ \A g \in Games :
        /\ Fixture[g].home # Fixture[g].away
        /\ \A box \in Boxes[g] :
            /\ DOMAIN box.sides \subseteq {Fixture[g].home, Fixture[g].away}
            /\ box.sides \in [DOMAIN box.sides -> TeamLine]
            /\ DOMAIN box.lines \subseteq Players
            /\ box.lines \in [DOMAIN box.lines -> PlayerLine]
    /\ Finals \subseteq Nat \X Nat

Sides == {"home", "away"}
Teams == {Fixture[g][side] : g \in Games, side \in Sides}
Seasons == {Fixture[g].season : g \in Games}
PlayerMetrics == {"points", "turnovers", "games"}
TeamMetrics == {"classification", "points_for", "point_difference", "win_percentage"}

VARIABLES
    games,   \* the match rows: status, score, team lines and player lines
    sql,     \* the projection of each SQL backend: team rows and player rows
    mem      \* the buckets of the in-memory store and the season of each

statisticsVars == <<games, sql, mem>>

None == [f \in {} |-> 0]

StatisticsInit ==
    /\ games = [g \in Games |-> [status |-> "SCHEDULED", score |-> << >>,
                                 sides |-> None, lines |-> None]]
    /\ sql = [b \in {"sqlite", "pg"} |-> [teams |-> None, players |-> None]]
    /\ mem = [teams |-> [g \in Games |-> None], players |-> [g \in Games |-> None],
              season |-> [g \in Games |-> "none"]]

-----------------------------------------------------------------------------
(* Writing the projection *)

Overwrite(old, new) ==
    [k \in DOMAIN old \cup DOMAIN new |-> IF k \in DOMAIN new THEN new[k] ELSE old[k]]

Rows(g, lines) ==
    [k \in {g} \X DOMAIN lines |-> [season |-> Fixture[g].season, line |-> lines[k[2]]]]

\* Match.record_stats: a side the payload lacks keeps its line, players are replaced
RecordStats(match, box) ==
    [match EXCEPT !.sides = Overwrite(@, box.sides), !.lines = box.lines]

\* SQLite, INSERT OR REPLACE keyed by (match, team) and by (match, player)
SqliteSaveTeams(rows, g, lines) == Overwrite(rows, Rows(g, lines))
SqliteSavePlayers(rows, g, lines) == Overwrite(rows, Rows(g, lines))

\* PostgreSQL, ON CONFLICT DO UPDATE of every column but the key
OnConflictUpdate(rows, new) ==
    [k \in DOMAIN rows \cup DOMAIN new |->
        IF k \in DOMAIN rows \cap DOMAIN new
        THEN [rows[k] EXCEPT !.season = new[k].season, !.line = new[k].line]
        ELSE Overwrite(rows, new)[k]]

PgSaveTeams(rows, g, lines) == OnConflictUpdate(rows, Rows(g, lines))
PgSavePlayers(rows, g, lines) == OnConflictUpdate(rows, Rows(g, lines))

\* In memory: a bucket per match, whose season is that of the last payload
MemSaveTeams(buckets, g, lines) == [buckets EXCEPT ![g] = Overwrite(@, lines)]
MemSavePlayers(buckets, g, lines) == [buckets EXCEPT ![g] = Overwrite(@, lines)]

\* UpsertMatchStatsHandler.handle, under a fresh command id
UpsertMatchStats(g) ==
    \E box \in Boxes[g] :
        /\ games' = [games EXCEPT ![g] = RecordStats(@, box)]
        /\ sql' = [sqlite |-> [teams   |-> SqliteSaveTeams(sql.sqlite.teams, g, box.sides),
                               players |-> SqliteSavePlayers(sql.sqlite.players, g, box.lines)],
                   pg     |-> [teams   |-> PgSaveTeams(sql.pg.teams, g, box.sides),
                               players |-> PgSavePlayers(sql.pg.players, g, box.lines)]]
        /\ mem' = [teams   |-> MemSaveTeams(mem.teams, g, box.sides),
                   players |-> MemSavePlayers(mem.players, g, box.lines),
                   season  |-> [mem.season EXCEPT ![g] = Fixture[g].season]]

\* FinalizeMatchHandler.handle: both team lines must be there; the score is the payload's
FinalizeMatch(g) ==
    /\ games[g].status = "SCHEDULED"
    /\ Cardinality(DOMAIN games[g].sides) = 2
    /\ \E score \in Finals :
        games' = [games EXCEPT ![g].status = "FINALIZED", ![g].score = score]
    /\ UNCHANGED <<sql, mem>>

StatisticsNext == \E g \in Games : UpsertMatchStats(g) \/ FinalizeMatch(g)

StatisticsSpec == StatisticsInit /\ [][StatisticsNext]_statisticsVars

-----------------------------------------------------------------------------
(* Season tables *)

Total(lines, column) == SumFunction([k \in DOMAIN lines |-> lines[k][column]])

PlayerTotal(id, n, points, turnovers) ==
    [id |-> id, games |-> n, points |-> points, turnovers |-> turnovers]

TeamTotal(id, n, wins, losses, for, against) ==
    [id |-> id, games |-> n, wins |-> wins, losses |-> losses,
     points_for |-> for, points_against |-> against]

\* WHERE season_code = ? GROUP BY the second part of the key
Keys(rows, s, id) == {k \in DOMAIN rows : rows[k].season = s /\ k[2] = id}
Ids(rows, s) == {k[2] : k \in {j \in DOMAIN rows : rows[j].season = s}}

SqlPlayerTotals(rows, s) ==
    {LET keys == Keys(rows, s, id)
         lines == [k \in keys |-> rows[k].line]
     IN  PlayerTotal(id, Cardinality(keys), Total(lines, "points"),
                     Total(lines, "turnovers")) : id \in Ids(rows, s)}

\* A drawn game is neither a win nor a loss.
SqlTeamTotals(rows, s) ==
    {LET keys == Keys(rows, s, id)
         lines == [k \in keys |-> rows[k].line]
     IN  TeamTotal(id, Cardinality(keys),
            Cardinality({k \in keys : lines[k].points_for > lines[k].points_against}),
            Cardinality({k \in keys : lines[k].points_for < lines[k].points_against}),
            Total(lines, "points_for"), Total(lines, "points_against")) :
        id \in Ids(rows, s)}

\* The buckets of the season, walked line by line
MemGames(buckets, s, id) == {g \in Games : mem.season[g] = s /\ id \in DOMAIN buckets[g]}
MemIds(buckets, s) == UNION {DOMAIN buckets[g] : g \in {h \in Games : mem.season[h] = s}}

MemPlayerTotals(s) ==
    {LET walked == MemGames(mem.players, s, id)
         lines == [g \in walked |-> mem.players[g][id]]
     IN  PlayerTotal(id, Cardinality(walked), Total(lines, "points"),
                     Total(lines, "turnovers")) : id \in MemIds(mem.players, s)}

\* A drawn game is a loss.
MemTeamTotals(s) ==
    {LET walked == MemGames(mem.teams, s, id)
         lines == [g \in walked |-> mem.teams[g][id]]
         wins == {g \in walked : lines[g].points_for > lines[g].points_against}
     IN  TeamTotal(id, Cardinality(walked), Cardinality(wins), Cardinality(walked \ wins),
            Total(lines, "points_for"), Total(lines, "points_against")) :
        id \in MemIds(mem.teams, s)}

-----------------------------------------------------------------------------
(* Leaderboards: SQL sorts by an ORDER BY list, Python by a key tuple *)

PointDifference(total) == total.points_for - total.points_against

WinPercentage(total) == IF total.games > 0 THEN (Scale * total.wins) \div total.games ELSE 0

Column(total, name) ==
    CASE name = "point_difference" -> PointDifference(total)
      [] name = "win_percentage" -> WinPercentage(total)
      [] OTHER -> total[name]

\* _PLAYER_LEADERBOARD_ORDER
PlayerOrder(metric) ==
    <<IF metric = "turnovers" THEN <<metric, "ASC">> ELSE <<metric, "DESC">>, <<"id", "ASC">> >>

\* _TEAM_LEADERBOARD_ORDER
TeamOrder(metric) ==
    CASE metric = "classification" ->
            << <<"wins", "DESC">>, <<"losses", "ASC">>, <<"point_difference", "DESC">>, <<"id", "ASC">> >>
      [] metric = "win_percentage" ->
            << <<metric, "DESC">>, <<"wins", "DESC">>, <<"id", "ASC">> >>
      [] OTHER -> << <<metric, "DESC">>, <<"id", "ASC">> >>

\* a comes before b at the first column that tells them apart
Precedes(a, b, order) ==
    \E i \in DOMAIN order :
        /\ \A j \in 1..(i - 1) : Column(a, order[j][1]) = Column(b, order[j][1])
        /\ LET x == Column(a, order[i][1])
               y == Column(b, order[i][1])
           IN  IF order[i][2] = "ASC" THEN x < y ELSE x > y

LexLess(s, t) == \E i \in DOMAIN s : (\A j \in 1..(i - 1) : s[j] = t[j]) /\ s[i] < t[i]

\* The totals in the order `before`, a set of pairs
Arranged(totals, before) ==
    [i \in 1..Cardinality(totals) |->
        CHOOSE a \in totals : Cardinality({b \in totals : <<b, a>> \in before}) = i - 1]

OrderedBy(totals, order) == {p \in totals \X totals : Precedes(p[1], p[2], order)}
SortedBy(totals, Key(_)) == {p \in totals \X totals : LexLess(Key(p[1]), Key(p[2]))}

FirstOf(seq, limit) == SubSeq(seq, 1, IF limit < Len(seq) THEN limit ELSE Len(seq))

ById(totals) == {p \in totals \X totals : p[1].id < p[2].id}

\* list_season_player_leaderboard and list_season_team_leaderboard, resolved in SQL:
\* WITH agg ... ROW_NUMBER() OVER (ORDER BY ...) ... LIMIT
SqlPlayerLeaderboard(rows, s, metric, limit) ==
    LET totals == SqlPlayerTotals(rows, s)
    IN  FirstOf(Arranged(totals, OrderedBy(totals, PlayerOrder(metric))), limit)

SqlTeamLeaderboard(rows, s, metric, limit) ==
    LET totals == SqlTeamTotals(rows, s)
    IN  FirstOf(Arranged(totals, OrderedBy(totals, TeamOrder(metric))), limit)

SqlitePlayerLeaderboard(s, metric, limit) == SqlPlayerLeaderboard(sql.sqlite.players, s, metric, limit)
SqliteTeamLeaderboard(s, metric, limit) == SqlTeamLeaderboard(sql.sqlite.teams, s, metric, limit)
PgPlayerLeaderboard(s, metric, limit) == SqlPlayerLeaderboard(sql.pg.players, s, metric, limit)
PgTeamLeaderboard(s, metric, limit) == SqlTeamLeaderboard(sql.pg.teams, s, metric, limit)

InIdOrder(totals, limit) == FirstOf(Arranged(totals, ById(totals)), limit)

\* SeasonTeamStats.__post_init__ refuses a total whose wins and losses do not add
\* up, so one drawn game makes the whole table unreadable.
TeamTable(totals, limit) ==
    IF \E total \in totals : total.wins + total.losses # total.games THEN "refused"
    ELSE InIdOrder(totals, limit)

\* list_season_player_aggregates and list_season_team_aggregates
SqlitePlayerTable(s, limit) == InIdOrder(SqlPlayerTotals(sql.sqlite.players, s), limit)
PgPlayerTable(s, limit) == InIdOrder(SqlPlayerTotals(sql.pg.players, s), limit)
MemPlayerTable(s, limit) == InIdOrder(MemPlayerTotals(s), limit)
SqliteTeamTable(s, limit) == TeamTable(SqlTeamTotals(sql.sqlite.teams, s), limit)
PgTeamTable(s, limit) == TeamTable(SqlTeamTotals(sql.pg.teams, s), limit)
MemTeamTable(s, limit) == TeamTable(MemTeamTotals(s), limit)

\* player_metrics and team_metrics: each total over the games
PlayerAverages(total) ==
    [id |-> total.id, points |-> (Scale * total.points) \div total.games,
     turnovers |-> (Scale * total.turnovers) \div total.games]

TeamAverages(total) ==
    [id |-> total.id, points_for |-> (Scale * total.points_for) \div total.games,
     difference |-> (Scale * PointDifference(total)) \div total.games,
     win_percentage |-> 100 * WinPercentage(total)]

SeasonPlayerMetrics(table) == [i \in DOMAIN table |-> PlayerAverages(table[i])]
SeasonTeamMetrics(table) == [i \in DOMAIN table |-> TeamAverages(table[i])]

\* list_season_player_metrics and list_season_team_metrics: in SQL the totals of
\* drawn games are not refused, in memory they come from the season table.
SqlitePlayerMetrics(s, limit) == SeasonPlayerMetrics(SqlitePlayerTable(s, limit))
PgPlayerMetrics(s, limit) == SeasonPlayerMetrics(PgPlayerTable(s, limit))
MemPlayerMetrics(s, limit) == SeasonPlayerMetrics(MemPlayerTable(s, limit))

SqliteTeamMetrics(s, limit) ==
    SeasonTeamMetrics(InIdOrder(SqlTeamTotals(sql.sqlite.teams, s), limit))
PgTeamMetrics(s, limit) ==
    SeasonTeamMetrics(InIdOrder(SqlTeamTotals(sql.pg.teams, s), limit))
MemTeamMetrics(s, limit) == SeasonTeamMetrics(MemTeamTable(s, limit))

\* rank_player_entries
PlayerKey(total, metric) ==
    <<IF metric = "turnovers" THEN total[metric] ELSE -total[metric], total.id>>

RankPlayers(totals, metric, limit) ==
    FirstOf(Arranged(totals, SortedBy(totals, LAMBDA a : PlayerKey(a, metric))), limit)

\* rank_team_entries
TeamKey(total, metric) ==
    CASE metric = "classification" ->
            <<-total.wins, total.losses, -PointDifference(total), total.id>>
      [] metric = "points_for" -> <<-total.points_for, total.id>>
      [] metric = "point_difference" -> <<-PointDifference(total), total.id>>
      [] metric = "win_percentage" -> <<-WinPercentage(total), -total.wins, total.id>>

RankTeams(totals, metric, limit) ==
    FirstOf(Arranged(totals, SortedBy(totals, LAMBDA a : TeamKey(a, metric))), limit)

-----------------------------------------------------------------------------
(* Rounds and teams of players *)

\* The rows of a team joined with the round of their matches, one entry per round;
\* a match without a round is left out.  SeasonTeamRoundStats.__post_init__ refuses a
\* round whose wins and losses do not add up, so one drawn game makes the whole list
\* unreadable.  The in-memory store knows a round only when its caller names one, and
\* the handler does not: its list of rounds is empty.
TeamRounds(rows, s, team) ==
    LET RoundOf(k) == Fixture[k[1]].round
        Difference(k) == rows[k].line.points_for - rows[k].line.points_against
        keys == {k \in Keys(rows, s, team) : RoundOf(k) # 0}
        refused == \E k \in keys : Difference(k) = 0
    IN  [refused |-> refused,
         rounds  |-> IF refused THEN {} ELSE
            {[round |-> r,
              games |-> Cardinality({k \in keys : RoundOf(k) = r}),
              difference |-> SumFunction([k \in {j \in keys : RoundOf(j) = r} |-> Difference(k)])] :
             r \in {RoundOf(k) : k \in keys}}]

SqliteTeamRounds(s, team) == TeamRounds(sql.sqlite.teams, s, team)
PgTeamRounds(s, team) == TeamRounds(sql.pg.teams, s, team)

TeamsOf(rows, s, p) == {rows[k].line.team : k \in Keys(rows, s, p)}

\* DISTINCT ON (player) ORDER BY player, team
PgPlayerTeams(rows, s) == [p \in Ids(rows, s) |-> Min(TeamsOf(rows, s, p))]

\* GROUP BY player with a bare team column: SQLite takes it from any row of the group
SqlitePlayerTeams(rows, s) ==
    {f \in [Ids(rows, s) -> Nat] : \A p \in Ids(rows, s) : f[p] \in TeamsOf(rows, s, p)}

MemPlayerTeams(s) ==
    [p \in MemIds(mem.players, s) |->
        Min({mem.players[g][p].team : g \in MemGames(mem.players, s, p)})]

-----------------------------------------------------------------------------
(* Standings, category leaderboards and ratings, from the matches *)

\* Mutant: the matches of every season.
FinalizedAnySeason(s) == {g \in Games : games[g].status = "FINALIZED"}

Finalized(s) == {g \in Games : games[g].status = "FINALIZED" /\ Fixture[g].season = s}

HomeWins(g) == games[g].score[1] > games[g].score[2]

\* StandingSnapshot.from_matches; it refuses a season with no finalized match.
StandingTotals(s) ==
    {LET home == {g \in Finalized(s) : Fixture[g].home = t}
         away == {g \in Finalized(s) : Fixture[g].away = t}
         won  == {g \in home : HomeWins(g)} \cup {g \in away : ~HomeWins(g)}
         Own(g)   == games[g].score[IF g \in home THEN 1 ELSE 2]
         Other(g) == games[g].score[IF g \in home THEN 2 ELSE 1]
     IN  TeamTotal(t, Cardinality(home \cup away), Cardinality(won),
            Cardinality((home \cup away) \ won),
            SumFunction([g \in home \cup away |-> Own(g)]),
            SumFunction([g \in home \cup away |-> Other(g)])) :
        t \in {Fixture[g][side] : g \in Finalized(s), side \in Sides}}

\* Two points a win; then the difference, the points scored and the id
StandingKey(total) == <<-2 * total.wins, -PointDifference(total), -total.points_for, total.id>>
Standing(s) == Arranged(StandingTotals(s), SortedBy(StandingTotals(s), StandingKey))

\* round(n / d, 2) in hundredths
Hundredths(n, d) ==
    LET q == (100 * n) \div d
        rest == (100 * n) % d
    IN  IF 2 * rest < d \/ (2 * rest = d /\ q \notin HalfUp) THEN q ELSE q + 1

\* Leaderboard.from_matches: finalized matches, a minimum of games, averages rounded
\* to two places, the largest value first for turnovers too.
CategoryLeaderboard(s, category, minGames, top) ==
    LET Played(p) == {g \in Finalized(s) : p \in DOMAIN games[g].lines}
        Value(p) == Hundredths(Total([g \in Played(p) |-> games[g].lines[p]], category),
                               Cardinality(Played(p)))
        entries == {[id |-> p, games |-> Cardinality(Played(p)), value |-> Value(p)] :
                    p \in {q \in Players : Played(q) # {} /\ Cardinality(Played(q)) >= minGames}}
    IN  FirstOf(Arranged(entries, SortedBy(entries, LAMBDA e : <<-e.value, e.id>>)), top)

\* ComputePlayerRatingHandler: the lines of the player in every match of the season
LinesOf(s, p) == {g \in Games : Fixture[g].season = s /\ p \in DOMAIN games[g].lines}

\* Mutant: the first lines instead of the last.
SelectWindowFirst(played) ==
    {g \in played : Cardinality({h \in played : Fixture[h].at < Fixture[g].at}) < Window}

\* _select_window: the latest lines by the time of their match
SelectWindow(played) ==
    {g \in played : Cardinality({h \in played : Fixture[h].at > Fixture[g].at}) < Window}

\* PlayerRating.compute_from_stats, in tenths times the number of lines; a
\* player without lines and a negative score are refused.
PlayerRating(p, used) ==
    LET score == SumFunction([g \in used |-> 10 * games[g].lines[p].points
                                             - 8 * games[g].lines[p].turnovers])
    IN  IF used = {} \/ score < 0 THEN [score |-> 0, games |-> 0]
        ELSE [score |-> score, games |-> Cardinality(used)]

\* The matches of a player in the projection, and the last Window lines of the season
\* by their own times: any of these sets, where lines that have one time, or none,
\* straddle the edge (no ORDER BY, and the sort is stable).
FormMatches(s, p) == {k[1] : k \in Keys(sql.pg.players, s, p)}

RecentWindows(s, p) ==
    LET played == FormMatches(s, p)
        At(g) == sql.pg.players[<<g, p>>].line.at
    IN  {w \in SUBSET played :
            /\ Cardinality(w) = IF Cardinality(played) < Window THEN Cardinality(played) ELSE Window
            /\ \A g \in w, h \in played \ w : At(g) >= At(h)}

\* FormIndex.compute_player over the projection, the values it may have: the average
\* of the latest lines against that of all of them; fewer than two lines give no form.
FormIndex(s, p) ==
    LET played == FormMatches(s, p)
        Impact(set) == SumFunction([g \in set |-> sql.pg.players[<<g, p>>].line.points
                                                  - sql.pg.players[<<g, p>>].line.turnovers])
        Form(w) == Impact(w) * Cardinality(played)
        Season(w) == Impact(played) * Cardinality(w)
    IN  IF Cardinality(played) < 2 THEN {} ELSE
        {[form_rating |-> <<Impact(w), Cardinality(w)>>,
          trend |-> CASE Season(w) > 0 /\ 100 * Form(w) > 105 * Season(w) -> "rising"
                      [] Season(w) > 0 /\ 100 * Form(w) < 95 * Season(w) -> "falling"
                      [] OTHER -> "stable"] : w \in RecentWindows(s, p)}

-----------------------------------------------------------------------------
Tied(s) ==
    \E k \in DOMAIN sql.sqlite.teams :
        /\ sql.sqlite.teams[k].season = s
        /\ sql.sqlite.teams[k].line.points_for = sql.sqlite.teams[k].line.points_against

\* The seasons with a result or with statistics
Begun == {Fixture[g].season : g \in {h \in Games :
            mem.season[h] # "none" \/ games[h].status = "FINALIZED"}}

\* The rounds of a team are the same on both SQL stores.  They are refused exactly
\* when one of its games in a known round is drawn, and otherwise add up to what the
\* in-memory store holds of its matches with a known round.  The team a store names
\* for a player is one he played for (PostgreSQL and the in-memory store name the
\* first, SQLite any of them).
RoundsAddUp ==
    \A s \in Begun :
        /\ \A id \in MemIds(mem.teams, s) :
            LET answer == SqliteTeamRounds(s, id)
                numbered == {g \in MemGames(mem.teams, s, id) : Fixture[g].round # 0}
                Difference(g) == mem.teams[g][id].points_for - mem.teams[g][id].points_against
            IN  /\ answer = PgTeamRounds(s, id)
                /\ answer.refused <=> \E g \in numbered : Difference(g) = 0
                /\ ~answer.refused =>
                     /\ SumFunction([r \in answer.rounds |-> r.games]) = Cardinality(numbered)
                     /\ SumFunction([r \in answer.rounds |-> r.difference])
                          = SumFunction([g \in numbered |-> Difference(g)])
        /\ PgPlayerTeams(sql.pg.players, s) = MemPlayerTeams(s)
        /\ MemPlayerTeams(s) \in SqlitePlayerTeams(sql.sqlite.players, s)

\* The season tables, averages and leaderboards, at every limit, are the same on
\* the three stores as long as no game of the season is drawn: the SQL orders and
\* the Python keys rank alike, and re-uploads leave the same rows behind.
TablesAgree ==
    /\ RoundsAddUp
    /\ \A s \in Begun, limit \in Limits :
        /\ SqlitePlayerTable(s, limit) = MemPlayerTable(s, limit)
        /\ PgPlayerTable(s, limit) = MemPlayerTable(s, limit)
        /\ SqlitePlayerMetrics(s, limit) = MemPlayerMetrics(s, limit)
        /\ PgPlayerMetrics(s, limit) = MemPlayerMetrics(s, limit)
        /\ \A metric \in PlayerMetrics :
            LET ranked == RankPlayers(MemPlayerTotals(s), metric, limit)
            IN  /\ SqlitePlayerLeaderboard(s, metric, limit) = ranked
                /\ PgPlayerLeaderboard(s, metric, limit) = ranked
        /\ ~Tied(s) =>
            /\ SqliteTeamTable(s, limit) = MemTeamTable(s, limit)
            /\ PgTeamTable(s, limit) = MemTeamTable(s, limit)
            /\ SqliteTeamMetrics(s, limit) = MemTeamMetrics(s, limit)
            /\ PgTeamMetrics(s, limit) = MemTeamMetrics(s, limit)
            /\ \A metric \in TeamMetrics :
                LET ranked == RankTeams(MemTeamTotals(s), metric, limit)
                IN  /\ SqliteTeamLeaderboard(s, metric, limit) = ranked
                    /\ PgTeamLeaderboard(s, metric, limit) = ranked

\* When the finalized matches of a season are the ones with statistics, and each
\* final score is what both team lines say, the views computed from the matches say
\* what those computed from the projection do: the standing counts for every team
\* what the season table counts, and ranks like the classification once all teams
\* have played as often and no two are level; the category leaderboard counts and
\* averages, to two places, what the player table adds up, unless a later payload
\* dropped a player.
StandingAgreesWithTable ==
    \A s \in Begun :
        LET totals == SqlTeamTotals(sql.sqlite.teams, s)
            recorded == {g \in Games : mem.season[g] = s}
            Confirmed(g) ==
                /\ games[g].status = "FINALIZED" /\ games[g].score[1] # games[g].score[2]
                /\ \A side \in Sides :
                     LET line == mem.teams[g][Fixture[g][side]]
                         own  == IF side = "home" THEN 1 ELSE 2
                     IN  line.points_for = games[g].score[own]
                         /\ line.points_against = games[g].score[3 - own]
            Comparable(a, b) ==
                \/ a = b
                \/ /\ a.games = b.games
                   /\ <<a.wins, PointDifference(a)>> # <<b.wins, PointDifference(b)>>
        IN  (\A g \in recorded : Confirmed(g)) =>
            /\ StandingTotals(s) = totals
            /\ (\A a, b \in totals : Comparable(a, b)) =>
                 Standing(s) = SqliteTeamLeaderboard(s, "classification", Cardinality(Teams))
            /\ (\A g \in recorded : games[g].lines = mem.players[g]) =>
                 Range(CategoryLeaderboard(s, "points", 1, Cardinality(Players)))
                 = {[id |-> a.id, games |-> a.games, value |-> Hundredths(a.points, a.games)] :
                     a \in Range(PgPlayerTable(s, Cardinality(Players)))}

\* What the readers of a season are shown does not depend on the store nor on whether
\* it was computed from the matches or from the projection.
SeasonTablesAgree == TablesAgree /\ StandingAgreesWithTable

\* A rating over the latest matches does not depend on the order in which results
\* arrive: lines uploaded late, for a match older than a full window of them, leave
\* the rating as it was.  The recent form goes by the optional times of the lines, so
\* it stays when the new line is older than every line a full window may hold; an
\* undated line in the window is older than any and may give way.
LateResultKeepsRating ==
    [][\A s \in Seasons, p \in Players, g \in Games :
        LET old  == SelectWindow(LinesOf(s, p))
            At(h) == sql.pg.players[<<h, p>>].line.at
        IN  p \notin DOMAIN games[g].lines /\ p \in DOMAIN games'[g].lines =>
              /\ Cardinality(old) = Window /\ (\A h \in old : Fixture[g].at < Fixture[h].at) =>
                    PlayerRating(p, SelectWindow(LinesOf(s, p)))' = PlayerRating(p, old)
              /\ /\ FormIndex(s, p) # {} /\ <<g, p>> \notin DOMAIN sql.pg.players
                 /\ \A w \in RecentWindows(s, p) :
                      /\ Cardinality(w) = Window
                      /\ \A h \in w : games'[g].lines[p].at < At(h)
                 => {f.form_rating : f \in FormIndex(s, p)'}
                      = {f.form_rating : f \in FormIndex(s, p)}
       ]_statisticsVars
=============================================================================
