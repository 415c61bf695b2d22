---------------------------- MODULE StatisticsProofs ----------------------------
\* Proofs about the statistics of a season: the tables of the two SQL stores and the
\* buckets in memory are in step, so the three repositories serve one season table, one
\* standing and one set of leaderboards, and the two SQL stores one list of rounds; and a
\* result entered late leaves the rating when its match, and the recent form when its
\* line, is older than a full window.
\* SQL walks rows and sums by key, the memory repository walks matches: the proofs match
\* the two walks element by element, sum by re-indexing, and put the tuples of sorted()
\* beside the columns of ORDER BY.
EXTENDS SeasonStatistics, FiniteSetTheorems, WellFoundedInduction, TLAPS

-----------------------------------------------------------------------------
\* The inductive invariant

\* A line for some of the players, or of the teams, in S
LinesFor(S, lines, Line) == DOMAIN lines \subseteq S /\ lines \in [DOMAIN lines -> Line]

\* The rows of a projection for what the buckets of the matches hold
Projection(buckets) ==
    [k \in {j \in Games \X Nat : j[2] \in DOMAIN buckets[j[1]]} |->
        [season |-> Fixture[k[1]].season, line |-> buckets[k[1]][k[2]]]]

\* The matches of the season: each team line is of one of its two teams, and a
\* finalized match has a score and both of them.
MatchesShaped ==
    /\ games = [g \in Games |-> [status |-> games[g].status, score |-> games[g].score,
                                 sides |-> games[g].sides, lines |-> games[g].lines]]
    /\ \A g \in Games :
        /\ LinesFor({Fixture[g].home, Fixture[g].away}, games[g].sides, TeamLine)
        /\ LinesFor(Players, games[g].lines, PlayerLine)
        /\ games[g].status = "FINALIZED" =>
            games[g].score \in Finals /\ Cardinality(DOMAIN games[g].sides) = 2

\* The buckets in memory hold the team lines of the matches and the lines of every
\* player there ever was one of, under a season known from the first of them on.
BucketsShaped ==
    /\ mem = [teams |-> [g \in Games |-> mem.teams[g]],
              players |-> [g \in Games |-> mem.players[g]],
              season |-> [g \in Games |-> mem.season[g]]]
    /\ \A g \in Games :
        /\ mem.teams[g] = games[g].sides
        /\ LinesFor(Players, mem.players[g], PlayerLine)
        /\ DOMAIN games[g].lines \subseteq DOMAIN mem.players[g]
        /\ mem.season[g] \in {"none", Fixture[g].season}
        /\ mem.season[g] = "none" => DOMAIN mem.teams[g] = {} /\ DOMAIN mem.players[g] = {}

\* The four tables are projections of the two buckets.
RowsShaped ==
    /\ sql.sqlite.teams = Projection(mem.teams) /\ sql.pg.teams = Projection(mem.teams)
    /\ sql.sqlite.players = Projection(mem.players) /\ sql.pg.players = Projection(mem.players)

\* What every write of statistics keeps: the matches, the buckets and the rows in step.
StatisticsInv == MatchesShaped /\ BucketsShaped /\ RowsShaped

\* Two different things make a set of two.
LEMMA TwoOf ==
  ASSUME NEW a, NEW b, a # b
  PROVE  IsFiniteSet({a, b}) /\ Cardinality({a, b}) = 2
<1>1. {a, b} = {a} \cup {b}
  OBVIOUS
<1>2. IsFiniteSet({a}) /\ Cardinality({a}) = 1
  BY FS_Singleton
<1> QED BY <1>1, <1>2, FS_AddElement

\* Nothing is held at first.
LEMMA InitInv == StatisticsInit => StatisticsInv
<1> SUFFICES ASSUME StatisticsInit PROVE StatisticsInv
  OBVIOUS
<1> USE DEF StatisticsInit
<1>1. DOMAIN None = {} /\ \A S, L : LinesFor(S, None, L)
  BY DEF None, LinesFor
<1>2. MatchesShaped
  BY <1>1 DEF MatchesShaped
<1>3. BucketsShaped
  BY <1>1 DEF BucketsShaped
<1>4. Projection([g \in Games |-> None]) = None
  <2>1. {j \in Games \X Nat : j[2] \in DOMAIN [g \in Games |-> None][j[1]]} = {}
    BY <1>1
  <2> QED BY <2>1 DEF Projection, None
<1>5. RowsShaped
  BY <1>4 DEF RowsShaped
<1> QED BY <1>2, <1>3, <1>5 DEF StatisticsInv

\* What is written over lines of a kind is lines of that kind.
LEMMA OverwriteLines ==
  ASSUME NEW S, NEW Line, NEW old, LinesFor(S, old, Line), NEW new, LinesFor(S, new, Line)
  PROVE  LinesFor(S, Overwrite(old, new), Line)
         /\ DOMAIN Overwrite(old, new) = DOMAIN old \cup DOMAIN new
BY DEF LinesFor, Overwrite

\* The statements of either engine leave, in the table, the rows of the new bucket.
LEMMA SavedRows ==
  ASSUME NEW buckets, NEW g \in Games, NEW lines, DOMAIN lines \subseteq Nat,
         buckets = [h \in Games |-> buckets[h]],
         NEW after, after = [buckets EXCEPT ![g] = Overwrite(@, lines)]
  PROVE  /\ Overwrite(Projection(buckets), Rows(g, lines)) = Projection(after)
         /\ OnConflictUpdate(Projection(buckets), Rows(g, lines)) = Projection(after)
<1> DEFINE old == Projection(buckets)
           new == Rows(g, lines)
<1>1. after = [h \in Games |-> IF h = g THEN Overwrite(buckets[g], lines) ELSE buckets[h]]
  OBVIOUS
<1>2. DOMAIN Overwrite(buckets[g], lines) = DOMAIN buckets[g] \cup DOMAIN lines
  BY DEF Overwrite
<1>3. DOMAIN old = {j \in Games \X Nat : j[2] \in DOMAIN buckets[j[1]]}
  BY DEF Projection
<1>4. DOMAIN new = {g} \X DOMAIN lines
  BY DEF Rows
<1>5. DOMAIN Projection(after) = {j \in Games \X Nat : j[2] \in DOMAIN after[j[1]]}
  BY DEF Projection
<1>6. DOMAIN Projection(after) = DOMAIN old \cup DOMAIN new
  <2> SUFFICES ASSUME NEW j PROVE j \in DOMAIN Projection(after) <=> j \in DOMAIN old \cup DOMAIN new
    BY Zenon
  <2>1. CASE j \in Games \X Nat
    <3>1. CASE j[1] = g
      <4> HIDE DEF old, new
      <4> QED BY <2>1, <3>1, <1>1, <1>2, <1>3, <1>4, <1>5
    <3>2. CASE j[1] # g
      <4> HIDE DEF old, new
      <4> QED BY <2>1, <3>2, <1>1, <1>2, <1>3, <1>4, <1>5
    <3> QED BY <3>1, <3>2
  <2>2. CASE j \notin Games \X Nat
    BY <2>2, <1>3, <1>4, <1>5
  <2> QED BY <2>1, <2>2
<1>7. ASSUME NEW k \in DOMAIN old \cup DOMAIN new
      PROVE  /\ k \in DOMAIN new => Projection(after)[k] = new[k]
             /\ k \notin DOMAIN new => Projection(after)[k] = old[k]
  <2>1. Projection(after)[k] = [season |-> Fixture[k[1]].season, line |-> after[k[1]][k[2]]]
    BY <1>5, <1>6 DEF Projection
  <2>2. CASE k \in DOMAIN new
    <3>1. k[1] = g /\ k[2] \in DOMAIN lines
      BY <2>2, <1>4
    <3>2. after[k[1]][k[2]] = lines[k[2]]
      <4>1. after[k[1]] = Overwrite(buckets[g], lines)
        BY <1>1, <3>1
      <4> QED BY <4>1, <3>1 DEF Overwrite
    <3>3. new[k] = [season |-> Fixture[g].season, line |-> lines[k[2]]]
      BY <2>2, <1>4 DEF Rows
    <3> QED BY <2>1, <2>2, <3>1, <3>2, <3>3
  <2>3. CASE k \notin DOMAIN new
    <3>1. k \in Games \X Nat /\ k[2] \in DOMAIN buckets[k[1]] /\ k \in DOMAIN old
      BY <2>3, <1>3
    <3>2. old[k] = [season |-> Fixture[k[1]].season, line |-> buckets[k[1]][k[2]]]
      BY <3>1, <1>3 DEF Projection
    <3>3. CASE k[1] = g
      <4>1. k[2] \notin DOMAIN lines
        <5>1. k = <<k[1], k[2]>>
          BY <3>1
        <5> QED BY <5>1, <2>3, <3>3, <1>4
      <4>2. after[k[1]] = Overwrite(buckets[g], lines)
        BY <1>1, <3>3
      <4>3. after[k[1]][k[2]] = buckets[k[1]][k[2]]
        BY <4>1, <4>2, <3>1, <3>3 DEF Overwrite
      <4> QED BY <2>1, <2>3, <3>2, <4>3
    <3>4. CASE k[1] # g
      <4>1. after[k[1]] = buckets[k[1]]
        BY <1>1, <3>1, <3>4
      <4> QED BY <2>1, <2>3, <3>2, <4>1
    <3> QED BY <3>3, <3>4
  <2> QED BY <2>2, <2>3
<1>8. Projection(after) = [k \in DOMAIN Projection(after) |-> Projection(after)[k]]
  BY DEF Projection
<1>9. Overwrite(old, new) = Projection(after)
  <2> HIDE DEF old, new
  <2> QED BY <1>6, <1>7, <1>8 DEF Overwrite
<1>10. OnConflictUpdate(old, new) = Overwrite(old, new)
  <2>1. ASSUME NEW k \in DOMAIN old \cap DOMAIN new
        PROVE  [old[k] EXCEPT !.season = new[k].season, !.line = new[k].line] = new[k]
    <3>1. old[k] = [season |-> Fixture[k[1]].season, line |-> buckets[k[1]][k[2]]]
      BY <1>3 DEF Projection
    <3>2. new[k] = [season |-> Fixture[g].season, line |-> lines[k[2]]]
      BY <1>4 DEF Rows
    <3> QED BY <3>1, <3>2
  <2> HIDE DEF old, new
  <2> QED BY <2>1 DEF OnConflictUpdate, Overwrite
<1> QED BY <1>9, <1>10

\* What an upsert leaves behind.
LEMMA UpsertInv ==
  ASSUME StatisticsInv, NEW g \in Games, UpsertMatchStats(g)
  PROVE  StatisticsInv'
<1>1. PICK box \in Boxes[g] :
        /\ games' = [games EXCEPT ![g] = RecordStats(@, box)]
        /\ sql' = [sqlite |-> [teams   |-> SqliteSaveTeams(sql.sqlite.teams, g, box.sides),
                               players |-> SqliteSavePlayers(sql.sqlite.players, g, box.lines)],
                   pg     |-> [teams   |-> PgSaveTeams(sql.pg.teams, g, box.sides),
                               players |-> PgSavePlayers(sql.pg.players, g, box.lines)]]
        /\ mem' = [teams   |-> MemSaveTeams(mem.teams, g, box.sides),
                   players |-> MemSavePlayers(mem.players, g, box.lines),
                   season  |-> [mem.season EXCEPT ![g] = Fixture[g].season]]
  BY DEF UpsertMatchStats
<1> DEFINE Two == {Fixture[g].home, Fixture[g].away}
<1>2. /\ LinesFor(Two, box.sides, TeamLine) /\ LinesFor(Players, box.lines, PlayerLine)
      /\ DOMAIN box.sides \subseteq Nat /\ DOMAIN box.lines \subseteq Nat
  <2>1. /\ DOMAIN box.sides \subseteq Two /\ box.sides \in [DOMAIN box.sides -> TeamLine]
        /\ DOMAIN box.lines \subseteq Players /\ box.lines \in [DOMAIN box.lines -> PlayerLine]
        /\ Players \subseteq Nat
    BY StatisticsAssumption, Zenon
  <2>2. Two \subseteq Nat
    <3>1. Fixture \in [Games -> [home : Nat, away : Nat, season : STRING \ {"none"},
                                 round : Nat, at : Nat]]
      BY StatisticsAssumption
    <3> QED BY <3>1
  <2> HIDE DEF Two
  <2> QED BY <2>1, <2>2 DEF LinesFor
<1>3. /\ mem.teams = [h \in Games |-> mem.teams[h]] /\ mem.players = [h \in Games |-> mem.players[h]]
      /\ mem.season = [h \in Games |-> mem.season[h]]
  BY DEF StatisticsInv, BucketsShaped
<1>4. games[g] = [status |-> games[g].status, score |-> games[g].score,
                  sides |-> games[g].sides, lines |-> games[g].lines]
      /\ DOMAIN games = Games
  BY DEF StatisticsInv, MatchesShaped
<1>5. /\ games'[g] = [status |-> games[g].status, score |-> games[g].score,
                      sides |-> Overwrite(games[g].sides, box.sides), lines |-> box.lines]
      /\ \A h \in Games \ {g} : games'[h] = games[h]
      /\ games' = [h \in Games |-> games'[h]]
  BY <1>1, <1>4 DEF RecordStats
<1>6. /\ mem'.teams = [mem.teams EXCEPT ![g] = Overwrite(@, box.sides)]
      /\ mem'.players = [mem.players EXCEPT ![g] = Overwrite(@, box.lines)]
      /\ mem'.season = [mem.season EXCEPT ![g] = Fixture[g].season]
      /\ mem' = [teams |-> mem'.teams, players |-> mem'.players, season |-> mem'.season]
  BY <1>1 DEF MemSaveTeams, MemSavePlayers
<1>7. MatchesShaped'
  <2>1. games' = [h \in Games |-> [status |-> games'[h].status, score |-> games'[h].score,
                                   sides |-> games'[h].sides, lines |-> games'[h].lines]]
    <3>1. \A h \in Games : games'[h] = [status |-> games'[h].status, score |-> games'[h].score,
                                        sides |-> games'[h].sides, lines |-> games'[h].lines]
      <4>1. \A h \in Games : games[h] = [status |-> games[h].status, score |-> games[h].score,
                                        sides |-> games[h].sides, lines |-> games[h].lines]
        BY DEF StatisticsInv, MatchesShaped
      <4> QED BY <4>1, <1>5
    <3> QED BY <3>1, <1>5
  <2>2. ASSUME NEW h \in Games
        PROVE  /\ LinesFor({Fixture[h].home, Fixture[h].away}, games'[h].sides, TeamLine)
               /\ LinesFor(Players, games'[h].lines, PlayerLine)
               /\ games'[h].status = "FINALIZED" =>
                    games'[h].score \in Finals /\ Cardinality(DOMAIN games'[h].sides) = 2
    <3>1. /\ LinesFor({Fixture[h].home, Fixture[h].away}, games[h].sides, TeamLine)
          /\ LinesFor(Players, games[h].lines, PlayerLine)
          /\ games[h].status = "FINALIZED" =>
                games[h].score \in Finals /\ Cardinality(DOMAIN games[h].sides) = 2
      BY DEF StatisticsInv, MatchesShaped
    <3>2. CASE h # g
      BY <3>1, <3>2, <1>5
    <3>3. CASE h = g
      <4> DEFINE sides == Overwrite(games[g].sides, box.sides)
      <4>1. LinesFor(Two, sides, TeamLine) /\ DOMAIN games[g].sides \subseteq DOMAIN sides
        <5>1. LinesFor(Two, games[g].sides, TeamLine)
          BY <3>1, <3>3
        <5> HIDE DEF Two
        <5>2. LinesFor(Two, box.sides, TeamLine)
          BY <1>2
        <5>3. LinesFor(Two, Overwrite(games[g].sides, box.sides), TeamLine)
              /\ DOMAIN Overwrite(games[g].sides, box.sides) = DOMAIN games[g].sides \cup DOMAIN box.sides
          BY <5>1, <5>2 DEF LinesFor, Overwrite
        <5> QED BY <5>3
      <4>2. ASSUME Cardinality(DOMAIN games[g].sides) = 2 PROVE Cardinality(DOMAIN sides) = 2
        <5>1. Fixture[g].home # Fixture[g].away
          BY StatisticsAssumption
        <5>2. IsFiniteSet(Two) /\ Cardinality(Two) = 2
          BY <5>1, TwoOf
        <5>3. DOMAIN games[g].sides \subseteq Two /\ DOMAIN sides \subseteq Two
          BY <3>1, <3>3, <4>1 DEF LinesFor
        <5>4. DOMAIN games[g].sides = Two
          BY <4>2, <5>2, <5>3, FS_Subset
        <5>5. DOMAIN sides = Two
          BY <4>1, <5>3, <5>4
        <5> QED BY <5>2, <5>5
      <4>3. games'[g].sides = sides /\ games'[g].lines = box.lines
            /\ games'[g].status = games[g].status /\ games'[g].score = games[g].score
        BY <1>5
      <4> HIDE DEF sides
      <4> QED BY <3>1, <3>3, <4>1, <4>2, <4>3, <1>2
    <3> QED BY <3>2, <3>3
  <2> QED BY <2>1, <2>2 DEF MatchesShaped
<1>8. BucketsShaped'
  <2>1. mem' = [teams |-> [h \in Games |-> mem'.teams[h]],
                players |-> [h \in Games |-> mem'.players[h]],
                season |-> [h \in Games |-> mem'.season[h]]]
    <3>1. mem'.teams = [h \in Games |-> mem'.teams[h]]
      BY <1>3, <1>6
    <3>2. mem'.players = [h \in Games |-> mem'.players[h]]
      BY <1>3, <1>6
    <3>3. mem'.season = [h \in Games |-> mem'.season[h]]
      BY <1>3, <1>6
    <3> QED BY <3>1, <3>2, <3>3, <1>6
  <2>2. ASSUME NEW h \in Games
        PROVE  /\ mem'.teams[h] = games'[h].sides
               /\ LinesFor(Players, mem'.players[h], PlayerLine)
               /\ DOMAIN games'[h].lines \subseteq DOMAIN mem'.players[h]
               /\ mem'.season[h] \in {"none", Fixture[h].season}
               /\ mem'.season[h] = "none" =>
                    DOMAIN mem'.teams[h] = {} /\ DOMAIN mem'.players[h] = {}
    <3>1. /\ mem.teams[h] = games[h].sides
          /\ LinesFor(Players, mem.players[h], PlayerLine)
          /\ DOMAIN games[h].lines \subseteq DOMAIN mem.players[h]
          /\ mem.season[h] \in {"none", Fixture[h].season}
          /\ mem.season[h] = "none" =>
                DOMAIN mem.teams[h] = {} /\ DOMAIN mem.players[h] = {}
      BY DEF StatisticsInv, BucketsShaped
    <3>2. CASE h # g
      <4>1. mem'.teams[h] = mem.teams[h] /\ mem'.players[h] = mem.players[h]
            /\ mem'.season[h] = mem.season[h] /\ games'[h] = games[h]
        BY <1>3, <1>5, <1>6, <3>2
      <4> QED BY <3>1, <4>1
    <3>3. CASE h = g
      <4>1. mem'.teams[g] = Overwrite(mem.teams[g], box.sides)
            /\ mem'.players[g] = Overwrite(mem.players[g], box.lines)
            /\ mem'.season[g] = Fixture[g].season
        BY <1>3, <1>6
      <4>2. LinesFor(Players, mem'.players[g], PlayerLine)
            /\ DOMAIN box.lines \subseteq DOMAIN mem'.players[g]
        <5>1. LinesFor(Players, mem.players[g], PlayerLine)
          BY <3>1, <3>3
        <5>2. LinesFor(Players, box.lines, PlayerLine)
          BY <1>2
        <5>3. LinesFor(Players, Overwrite(mem.players[g], box.lines), PlayerLine)
              /\ DOMAIN Overwrite(mem.players[g], box.lines) = DOMAIN mem.players[g] \cup DOMAIN box.lines
          BY <5>1, <5>2, OverwriteLines
        <5> QED BY <4>1, <5>3
      <4>3. Fixture[g].season # "none"
        BY StatisticsAssumption
      <4> QED BY <3>1, <3>3, <4>1, <4>2, <4>3, <1>5
    <3> QED BY <3>2, <3>3
  <2> QED BY <2>1, <2>2 DEF BucketsShaped
<1>9. RowsShaped'
  <2>1. /\ sql.sqlite.teams = Projection(mem.teams) /\ sql.pg.teams = Projection(mem.teams)
        /\ sql.sqlite.players = Projection(mem.players) /\ sql.pg.players = Projection(mem.players)
    BY DEF StatisticsInv, RowsShaped
  <2>2. /\ Overwrite(Projection(mem.teams), Rows(g, box.sides)) = Projection(mem'.teams)
        /\ OnConflictUpdate(Projection(mem.teams), Rows(g, box.sides)) = Projection(mem'.teams)
    BY <1>2, <1>3, <1>6, SavedRows
  <2>3. /\ Overwrite(Projection(mem.players), Rows(g, box.lines)) = Projection(mem'.players)
        /\ OnConflictUpdate(Projection(mem.players), Rows(g, box.lines)) = Projection(mem'.players)
    <3>1. DOMAIN box.lines \subseteq Nat
      BY <1>2
    <3>2. mem.players = [h \in Games |-> mem.players[h]]
      BY <1>3
    <3>3. mem'.players = [mem.players EXCEPT ![g] = Overwrite(@, box.lines)]
      BY <1>6
    <3> QED BY <3>1, <3>2, <3>3, SavedRows
  <2>4. /\ sql'.sqlite.teams = Projection(mem'.teams) /\ sql'.pg.teams = Projection(mem'.teams)
        /\ sql'.sqlite.players = Projection(mem'.players)
        /\ sql'.pg.players = Projection(mem'.players)
    BY <1>1, <2>1, <2>2, <2>3
       DEF SqliteSaveTeams, SqliteSavePlayers, PgSaveTeams, PgSavePlayers
  <2> QED BY <2>4 DEF RowsShaped, Projection
<1> QED BY <1>7, <1>8, <1>9 DEF StatisticsInv

\* A finalization needs both lines.
LEMMA FinalizeInv ==
  ASSUME StatisticsInv, NEW g \in Games, FinalizeMatch(g)
  PROVE  StatisticsInv'
<1>1. PICK score \in Finals :
        games' = [games EXCEPT ![g].status = "FINALIZED", ![g].score = score]
  BY DEF FinalizeMatch
<1>2. Cardinality(DOMAIN games[g].sides) = 2 /\ sql' = sql /\ mem' = mem
  BY DEF FinalizeMatch
<1>3. \A h \in Games : games[h] = [status |-> games[h].status, score |-> games[h].score,
                                  sides |-> games[h].sides, lines |-> games[h].lines]
      /\ DOMAIN games = Games
  BY DEF StatisticsInv, MatchesShaped
<1>4. /\ games'[g] = [status |-> "FINALIZED", score |-> score,
                      sides |-> games[g].sides, lines |-> games[g].lines]
      /\ \A h \in Games \ {g} : games'[h] = games[h]
      /\ games' = [h \in Games |-> games'[h]]
  <2>1. games'[g] = [games[g] EXCEPT !.status = "FINALIZED", !.score = score]
        /\ \A h \in Games \ {g} : games'[h] = games[h]
    BY <1>1, <1>3
  <2> DEFINE row == games[g]
             made == [status |-> "FINALIZED", score |-> score,
                      sides |-> games[g].sides, lines |-> games[g].lines]
             K == {"status", "score", "sides", "lines"}
  <2>2. games'[g] = made
    <3>1. row = [status |-> games[g].status, score |-> games[g].score,
                 sides |-> games[g].sides, lines |-> games[g].lines]
      BY <1>3
    <3>2. games'[g] = [row EXCEPT !.status = "FINALIZED", !.score = score]
      BY <2>1
    <3>3. /\ games'[g].status = made.status /\ games'[g].score = made.score
          /\ games'[g].sides = made.sides /\ games'[g].lines = made.lines
      BY <3>1, <3>2
    <3>4. games'[g] = [k \in K |-> games'[g][k]]
      BY <3>1, <3>2
    <3>5. made = [k \in K |-> made[k]]
      OBVIOUS
    <3>6. \A k \in K : games'[g][k] = made[k]
      <4> HIDE DEF made
      <4> QED BY <3>3
    <3> HIDE DEF made, K
    <3>7. [k \in K |-> games'[g][k]] = [k \in K |-> made[k]]
      BY <3>6
    <3> QED BY <3>4, <3>5, <3>7, Zenon
  <2>3. DOMAIN games' = Games /\ games' = [h \in DOMAIN games' |-> games'[h]]
    BY <1>1, <1>3
  <2> QED BY <2>1, <2>2, <2>3
<1>5. \A h \in Games : games'[h].sides = games[h].sides /\ games'[h].lines = games[h].lines
  BY <1>4
<1>6. games' = [h \in Games |-> [status |-> games'[h].status, score |-> games'[h].score,
                                 sides |-> games'[h].sides, lines |-> games'[h].lines]]
  <2>1. \A h \in Games : games'[h] = [status |-> games'[h].status, score |-> games'[h].score,
                                      sides |-> games'[h].sides, lines |-> games'[h].lines]
    BY <1>3, <1>4
  <2> QED BY <2>1, <1>4
<1>7. MatchesShaped'
  <2>1. ASSUME NEW h \in Games
        PROVE  games'[h].status = "FINALIZED" =>
                    games'[h].score \in Finals /\ Cardinality(DOMAIN games'[h].sides) = 2
    <3>1. CASE h = g
      BY <3>1, <1>2, <1>4
    <3>2. CASE h # g
      BY <3>2, <1>4 DEF StatisticsInv, MatchesShaped
    <3> QED BY <3>1, <3>2
  <2>2. \A h \in Games : /\ LinesFor({Fixture[h].home, Fixture[h].away}, games'[h].sides, TeamLine)
                         /\ LinesFor(Players, games'[h].lines, PlayerLine)
    BY <1>5 DEF StatisticsInv, MatchesShaped
  <2> QED BY <1>6, <2>1, <2>2 DEF MatchesShaped
<1>8. BucketsShaped'
  BY <1>2, <1>5 DEF StatisticsInv, BucketsShaped
<1>9. RowsShaped'
  BY <1>2 DEF StatisticsInv, RowsShaped, Projection
<1> QED BY <1>7, <1>8, <1>9 DEF StatisticsInv

\* The statistics of every season keep this shape.
THEOREM StatisticsInvariant == StatisticsSpec => []StatisticsInv
<1>1. StatisticsInit => StatisticsInv
  BY InitInv
<1>2. StatisticsInv /\ [StatisticsNext]_statisticsVars => StatisticsInv'
  <2> SUFFICES ASSUME StatisticsInv, [StatisticsNext]_statisticsVars PROVE StatisticsInv'
    OBVIOUS
  <2>1. CASE StatisticsNext
    BY <2>1, UpsertInv, FinalizeInv DEF StatisticsNext
  <2>2. CASE UNCHANGED statisticsVars
    <3>1. games' = games /\ sql' = sql /\ mem' = mem
      BY <2>2 DEF statisticsVars
    <3>2. MatchesShaped'
      BY <3>1 DEF StatisticsInv, MatchesShaped
    <3>3. BucketsShaped'
      BY <3>1 DEF StatisticsInv, BucketsShaped
    <3>4. RowsShaped'
      BY <3>1 DEF StatisticsInv, RowsShaped, Projection
    <3> QED BY <3>2, <3>3, <3>4 DEF StatisticsInv
  <2> QED BY <2>1, <2>2
<1> QED BY <1>1, <1>2, PTL DEF StatisticsSpec

-----------------------------------------------------------------------------
\* Sums of functions on finite sets

\* A set of numbers with an element has a least one.
LEMMA HasLeast ==
  ASSUME NEW S, S \subseteq Nat, S # {}
  PROVE  \E x \in S : \A y \in S : x <= y
<1>1. PICK x \in S : \A y \in S : <<y, x>> \notin OpToRel(<, Nat)
  BY NatLessThanWellFounded, WFMin
<1>2. \A y \in S : ~(y < x)
  BY <1>1 DEF OpToRel
<1> QED BY <1>2

\* A set of numbers that holds zero and every successor of its members holds them all.
LEMMA NatSetInduction ==
  ASSUME NEW P, 0 \in P, \A n \in Nat : n \in P => n + 1 \in P
  PROVE  Nat \subseteq P
<1> SUFFICES ASSUME Nat \ P # {} PROVE FALSE
  OBVIOUS
<1>1. PICK n \in Nat \ P : \A m \in Nat \ P : n <= m
  BY HasLeast
<1>2. n # 0
  BY <1>1
<1>3. n - 1 \in Nat /\ n - 1 \in P
  BY <1>1, <1>2
<1> QED BY <1>1, <1>3

\* A set with one element less has one element less.
LEMMA OneLess ==
  ASSUME NEW s, IsFiniteSet(s), NEW x \in s
  PROVE  IsFiniteSet(s \ {x}) /\ Cardinality(s \ {x}) \in Nat /\ Cardinality(s) \in Nat
         /\ Cardinality(s) = Cardinality(s \ {x}) + 1
<1>1. IsFiniteSet(s \ {x}) /\ Cardinality(s \ {x}) = Cardinality(s) - 1
  BY FS_RemoveElement
<1>2. Cardinality(s \ {x}) \in Nat /\ Cardinality(s) \in Nat
  BY <1>1, FS_CardinalityType
<1> QED BY <1>1, <1>2

\* What holds of the empty set, and of a set when it holds of that set without one of
\* its elements, whichever it is, holds of every subset of a finite set.
LEMMA SubsetInduction ==
  ASSUME NEW D, IsFiniteSet(D), NEW P, {} \in P,
         \A s \in SUBSET D : s # {} /\ (\A x \in s : s \ {x} \in P) => s \in P
  PROVE  SUBSET D \subseteq P
<1> DEFINE N == {n \in Nat : \A s \in SUBSET D : Cardinality(s) = n => s \in P}
<1>0. \A s \in SUBSET D : IsFiniteSet(s) /\ Cardinality(s) \in Nat
  BY FS_Subset, FS_CardinalityType
<1>1. 0 \in N
  BY <1>0, FS_EmptySet
<1>2. ASSUME NEW n \in Nat, n \in N PROVE n + 1 \in N
  <2> SUFFICES ASSUME NEW s \in SUBSET D, Cardinality(s) = n + 1 PROVE s \in P
    OBVIOUS
  <2>1. s # {}
    <3>1. Cardinality({}) = 0
      BY FS_EmptySet
    <3>2. n + 1 # 0
      OBVIOUS
    <3>3. Cardinality(s) # Cardinality({})
      BY <3>1, <3>2
    <3> QED BY <3>3
  <2>2. ASSUME NEW x \in s PROVE s \ {x} \in P
    <3>1. Cardinality(s) = Cardinality(s \ {x}) + 1 /\ Cardinality(s \ {x}) \in Nat
      BY <1>0, OneLess
    <3>2. Cardinality(s \ {x}) = n /\ s \ {x} \in SUBSET D
      BY <3>1
    <3> QED BY <3>2, <1>2
  <2> QED BY <2>1, <2>2
<1>3. Nat \subseteq N
  <2> HIDE DEF N
  <2> QED BY <1>1, <1>2, NatSetInduction
<1> QED BY <1>0, <1>3

\* The sums of f over the sets of its arguments, in whatever order they are added.
IsSumOf(h, f) ==
  /\ h \in [SUBSET DOMAIN f -> Int]
  /\ h[{}] = 0
  /\ \A s \in SUBSET DOMAIN f : \A x \in s : h[s] = f[x] + h[s \ {x}]

\* The fold of SumFunction: an element at a time, on ever larger sets
Pick(s) == CHOOSE x \in s : TRUE
Step(f, h, s) == IF s = {} THEN 0 ELSE f[Pick(s)] + h[s \ {Pick(s)}]
Small(D, n) == {s \in SUBSET D : Cardinality(s) <= n}
UpTo(D, f, n, h) == h \in [Small(D, n) -> Int] /\ \A s \in Small(D, n) : h[s] = Step(f, h, s)

\* What is picked is there.
LEMMA PickIn == ASSUME NEW s, s # {} PROVE Pick(s) \in s
BY DEF Pick

\* The fold that defines the sum of a function is there.
LEMMA FoldExists ==
  ASSUME NEW D, IsFiniteSet(D), NEW f \in [D -> Int]
  PROVE  \E h : h \in [SUBSET D -> Int] /\ \A s \in SUBSET D : h[s] = Step(f, h, s)
<1> DEFINE N == {n \in Nat : \E h : UpTo(D, f, n, h)}
<1>0. \A s \in SUBSET D : IsFiniteSet(s) /\ Cardinality(s) \in Nat
  BY FS_Subset, FS_CardinalityType
<1>1. 0 \in N
  <2>1. \A s \in Small(D, 0) : s = {}
    BY <1>0, FS_EmptySet DEF Small
  <2> DEFINE h == [s \in Small(D, 0) |-> 0]
  <2>2. UpTo(D, f, 0, h)
    BY <2>1 DEF UpTo, Step
  <2> QED BY <2>2
<1>2. ASSUME NEW n \in Nat, n \in N PROVE n + 1 \in N
  <2>1. PICK h : UpTo(D, f, n, h)
    BY <1>2
  <2> DEFINE g == [s \in Small(D, n + 1) |-> Step(f, h, s)]
  <2>2. ASSUME NEW s \in Small(D, n + 1), s # {}
        PROVE  Pick(s) \in D /\ s \ {Pick(s)} \in Small(D, n) /\ f[Pick(s)] \in Int
    <3>1. s \in SUBSET D /\ Cardinality(s) <= n + 1 /\ Pick(s) \in s
      BY <2>2, PickIn DEF Small
    <3>2. Cardinality(s) = Cardinality(s \ {Pick(s)}) + 1 /\ Cardinality(s \ {Pick(s)}) \in Nat
      BY <3>1, <1>0, OneLess
    <3> QED BY <3>1, <3>2 DEF Small
  <2>3. Small(D, n) \subseteq Small(D, n + 1)
    BY <1>0 DEF Small
  <2>4. ASSUME NEW s \in Small(D, n) PROVE g[s] = h[s]
    BY <2>1, <2>3 DEF UpTo
  <2>5. g \in [Small(D, n + 1) -> Int]
    <3>1. ASSUME NEW s \in Small(D, n + 1) PROVE Step(f, h, s) \in Int
      <4>1. CASE s = {}
        BY <4>1 DEF Step
      <4>2. CASE s # {}
        <5>1. h[s \ {Pick(s)}] \in Int
          BY <2>1, <2>2, <4>2 DEF UpTo
        <5>2. f[Pick(s)] \in Int
          BY <2>2, <4>2
        <5>3. f[Pick(s)] + h[s \ {Pick(s)}] \in Int
          BY <5>1, <5>2
        <5> QED BY <5>3, <4>2 DEF Step
      <4> QED BY <4>1, <4>2
    <3> QED BY <3>1
  <2>6. ASSUME NEW s \in Small(D, n + 1) PROVE g[s] = Step(f, g, s)
    <3>1. CASE s = {}
      BY <3>1 DEF Step
    <3>2. CASE s # {}
      <4>1. g[s \ {Pick(s)}] = h[s \ {Pick(s)}]
        BY <2>2, <2>4, <3>2
      <4>2. g[s] = Step(f, h, s)
        OBVIOUS
      <4> HIDE DEF g
      <4> QED BY <4>1, <4>2, <3>2 DEF Step
    <3> QED BY <3>1, <3>2
  <2>7. UpTo(D, f, n + 1, g)
    <3> HIDE DEF g
    <3> QED BY <2>5, <2>6 DEF UpTo
  <2> QED BY <2>7
<1>3. Nat \subseteq N
  <2> HIDE DEF N
  <2> QED BY <1>1, <1>2, NatSetInduction
<1>4. PICK h : UpTo(D, f, Cardinality(D), h)
  BY <1>3, <1>0
<1>5. Small(D, Cardinality(D)) = SUBSET D
  <2>1. \A s \in SUBSET D : Cardinality(s) <= Cardinality(D)
    BY FS_Subset
  <2> QED BY <2>1 DEF Small
<1>6. h \in [SUBSET D -> Int] /\ \A s \in SUBSET D : h[s] = Step(f, h, s)
  BY <1>4, <1>5 DEF UpTo
<1> QED BY <1>6

\* The definition of the sum, without the operators it goes through.
LEMMA SumByFold ==
  ASSUME NEW f
  PROVE  \E it : /\ SumFunction(f) = it[DOMAIN f]
                 /\ it = CHOOSE h : h = [s \in SUBSET DOMAIN f |-> 
                      IF s = {} THEN 0
                      ELSE f[CHOOSE x \in s : TRUE] + h[s \ {CHOOSE x \in s : TRUE}]]
BY DEF SumFunction, SumFunctionOnSet, FoldFunctionOnSet, MapThenFoldSet

\* The sum of a function, by any of its arguments first.
LEMMA SumIsThere ==
  ASSUME NEW D, IsFiniteSet(D), NEW f \in [D -> Int]
  PROVE  \E h : IsSumOf(h, f) /\ SumFunction(f) = h[D]
<1>1. PICK h : /\ SumFunction(f) = h[D]
               /\ h = [s \in SUBSET D |-> Step(f, h, s)]
  <2>0. DOMAIN f = D
    OBVIOUS
  <2>1. \E h : h = [s \in SUBSET D |-> Step(f, h, s)]
    <3>1. PICK h : h \in [SUBSET D -> Int] /\ \A s \in SUBSET D : h[s] = Step(f, h, s)
      BY FoldExists
    <3>2. h = [s \in SUBSET D |-> Step(f, h, s)]
      BY <3>1
    <3> QED BY <3>2
  <2>2. PICK it : /\ SumFunction(f) = it[D]
                  /\ it = CHOOSE h : h = [s \in SUBSET D |-> Step(f, h, s)]
    BY SumByFold, <2>0 DEF Step, Pick
  <2> QED BY <2>1, <2>2
<1>2. \A s \in SUBSET D : h[s] = Step(f, h, s)
  BY <1>1
<1>4. DOMAIN h = SUBSET D /\ h = [s \in SUBSET D |-> h[s]]
  BY <1>1
<1>5. h[{}] = 0
  BY <1>2 DEF Step
<1>51. \A s \in SUBSET D : s # {} => h[s] = f[Pick(s)] + h[s \ {Pick(s)}] /\ Pick(s) \in s
  BY <1>2, PickIn DEF Step
<1>6. \A s \in SUBSET D : h[s] \in Int
  <2> DEFINE P == {s \in SUBSET D : h[s] \in Int}
  <2>1. {} \in P
    BY <1>5
  <2>2. ASSUME NEW s \in SUBSET D, s # {}, \A x \in s : s \ {x} \in P PROVE s \in P
    <3>1. Pick(s) \in s /\ h[s] = f[Pick(s)] + h[s \ {Pick(s)}]
      BY <1>51, <2>2
    <3>2. f[Pick(s)] \in Int /\ h[s \ {Pick(s)}] \in Int
      BY <3>1, <2>2
    <3>3. h[s] \in Int
      BY <3>1, <3>2
    <3> QED BY <2>2, <3>3
  <2>3. SUBSET D \subseteq P
    <3> HIDE DEF P
    <3> QED BY <2>1, <2>2, SubsetInduction
  <2> QED BY <2>3
<1>7. \A s \in SUBSET D : \A x \in s : h[s] = f[x] + h[s \ {x}]
  <2> DEFINE P == {s \in SUBSET D : \A x \in s : h[s] = f[x] + h[s \ {x}]}
  <2>1. {} \in P
    OBVIOUS
  <2>2. ASSUME NEW s \in SUBSET D, s # {}, \A x \in s : s \ {x} \in P PROVE s \in P
    <3> SUFFICES ASSUME NEW x \in s PROVE h[s] = f[x] + h[s \ {x}]
      OBVIOUS
    <3>1. PICK c \in s : h[s] = f[c] + h[s \ {c}]
      BY <2>2, <1>51
    <3>2. CASE c = x
      BY <3>1, <3>2
    <3>3. CASE c # x
      <4>1. h[s \ {c}] = f[x] + h[(s \ {c}) \ {x}]
        BY <2>2, <3>3
      <4>2. h[s \ {x}] = f[c] + h[(s \ {x}) \ {c}]
        BY <2>2, <3>3
      <4>3. (s \ {c}) \ {x} = (s \ {x}) \ {c}
        OBVIOUS
      <4>4. f[c] \in Int /\ f[x] \in Int /\ h[(s \ {c}) \ {x}] \in Int
        BY <1>6
      <4>5. h[s] = f[c] + (f[x] + h[(s \ {c}) \ {x}])
        BY <3>1, <4>1
      <4>6. h[s \ {x}] = f[c] + h[(s \ {c}) \ {x}]
        BY <4>2, <4>3
      <4> QED BY <4>4, <4>5, <4>6
    <3> QED BY <3>2, <3>3
  <2>3. SUBSET D \subseteq P
    <3> HIDE DEF P
    <3> QED BY <2>1, <2>2, SubsetInduction
  <2> QED BY <2>3
<1>8. IsSumOf(h, f)
  <2>1. DOMAIN f = D
    OBVIOUS
  <2> QED BY <2>1, <1>4, <1>5, <1>6, <1>7 DEF IsSumOf
<1> QED BY <1>1, <1>8

\* The sum of a function taken from another through an injection is the sum of the
\* other over what the injection reaches.
LEMMA SumInjection ==
  ASSUME NEW D, IsFiniteSet(D), NEW f \in [D -> Int], NEW hf, IsSumOf(hf, f),
         NEW E, IsFiniteSet(E), NEW g \in [E -> Int], NEW b \in [E -> D],
         \A x, y \in E : b[x] = b[y] => x = y,
         \A x \in E : g[x] = f[b[x]],
         NEW I \in SUBSET D, \A y \in D : y \in I <=> \E x \in E : b[x] = y
  PROVE  SumFunction(g) = hf[I]
<1> DEFINE Im(s) == {b[x] : x \in s}
           P == {s \in SUBSET E : \A hg : IsSumOf(hg, g) => hg[s] = hf[Im(s)]}
<1>1. PICK hg : IsSumOf(hg, g) /\ SumFunction(g) = hg[E]
  BY SumIsThere
<1>2. {} \in P
  <2>1. Im({}) = {}
    OBVIOUS
  <2> QED BY <2>1 DEF IsSumOf
<1>3. ASSUME NEW s \in SUBSET E, s # {}, \A x \in s : s \ {x} \in P PROVE s \in P
  <2> SUFFICES ASSUME NEW h, IsSumOf(h, g) PROVE h[s] = hf[Im(s)]
    OBVIOUS
  <2>1. PICK x \in s : TRUE
    BY <1>3
  <2>2. h[s] = g[x] + h[s \ {x}]
    BY DEF IsSumOf
  <2>3. h[s \ {x}] = hf[Im(s \ {x})]
    BY <1>3
  <2>4. Im(s \ {x}) = Im(s) \ {b[x]}
    OBVIOUS
  <2>5. hf[Im(s)] = f[b[x]] + hf[Im(s) \ {b[x]}]
    <3>1. DOMAIN f = D /\ Im(s) \in SUBSET D /\ b[x] \in Im(s)
      OBVIOUS
    <3> HIDE DEF Im
    <3> QED BY <3>1 DEF IsSumOf
  <2> QED BY <2>2, <2>3, <2>4, <2>5
<1>4. SUBSET E \subseteq P
  <2> HIDE DEF P
  <2> QED BY <1>2, <1>3, SubsetInduction
<1>5. Im(E) = I
  OBVIOUS
<1> QED BY <1>1, <1>4, <1>5

\* Sums over a bijection, and over a part of the arguments.
LEMMA SumBijection ==
  ASSUME NEW D, IsFiniteSet(D), NEW f \in [D -> Int],
         NEW E, IsFiniteSet(E), NEW g \in [E -> Int], NEW b \in [E -> D],
         \A x, y \in E : b[x] = b[y] => x = y,
         \A y \in D : \E x \in E : b[x] = y,
         \A x \in E : g[x] = f[b[x]]
  PROVE  SumFunction(g) = SumFunction(f)
<1>1. PICK hf : IsSumOf(hf, f) /\ SumFunction(f) = hf[D]
  BY SumIsThere
<1>2. D \in SUBSET D /\ \A y \in D : y \in D <=> \E x \in E : b[x] = y
  OBVIOUS
<1>3. SumFunction(g) = hf[D]
  BY <1>1, <1>2, SumInjection
<1> QED BY <1>1, <1>3

\* The sum of a part of a function is what its sums give for that part.
LEMMA SumOfPart ==
  ASSUME NEW D, IsFiniteSet(D), NEW f \in [D -> Int], NEW hf, IsSumOf(hf, f),
         NEW S \in SUBSET D
  PROVE  SumFunction([x \in S |-> f[x]]) = hf[S]
<1> DEFINE g == [x \in S |-> f[x]]
           b == [x \in S |-> x]
<1>1. IsFiniteSet(S)
  BY FS_Subset
<1>2. g \in [S -> Int] /\ b \in [S -> D] /\ (\A x, y \in S : b[x] = b[y] => x = y)
      /\ (\A x \in S : g[x] = f[b[x]])
  OBVIOUS
<1>3. \A y \in D : y \in S <=> \E x \in S : b[x] = y
  OBVIOUS
<1>4. SumFunction(g) = hf[S]
  <2> HIDE DEF g, b
  <2> QED BY <1>1, <1>2, <1>3, SumInjection
<1> QED BY <1>4

\* Sums are whole numbers.
LEMMA SumIsInt ==
  ASSUME NEW D, IsFiniteSet(D), NEW f \in [D -> Int]
  PROVE  SumFunction(f) \in Int
<1>1. PICK hf : IsSumOf(hf, f) /\ SumFunction(f) = hf[D]
  BY SumIsThere
<1>2. DOMAIN f = D
  OBVIOUS
<1> QED BY <1>1, <1>2 DEF IsSumOf

\* The sum of differences is the difference of the sums.
LEMMA SumOfDifferences ==
  ASSUME NEW D, IsFiniteSet(D), NEW f \in [D -> Int], NEW g \in [D -> Int],
         NEW d \in [D -> Int], \A x \in D : d[x] = f[x] - g[x]
  PROVE  SumFunction(d) = SumFunction(f) - SumFunction(g)
<1>1. PICK hf : IsSumOf(hf, f) /\ SumFunction(f) = hf[D]
  BY SumIsThere
<1>2. PICK hg : IsSumOf(hg, g) /\ SumFunction(g) = hg[D]
  BY SumIsThere
<1>3. PICK hd : IsSumOf(hd, d) /\ SumFunction(d) = hd[D]
  BY SumIsThere
<1>0. DOMAIN f = D /\ DOMAIN g = D /\ DOMAIN d = D
  OBVIOUS
<1> DEFINE P == {s \in SUBSET D : hd[s] = hf[s] - hg[s]}
<1>4. {} \in P
  BY <1>1, <1>2, <1>3 DEF IsSumOf
<1>5. ASSUME NEW s \in SUBSET D, s # {}, \A x \in s : s \ {x} \in P PROVE s \in P
  <2>1. PICK x \in s : TRUE
    BY <1>5
  <2>2. hd[s \ {x}] = hf[s \ {x}] - hg[s \ {x}]
    BY <1>5
  <2>3. hf[s] = f[x] + hf[s \ {x}] /\ hg[s] = g[x] + hg[s \ {x}] /\ hd[s] = d[x] + hd[s \ {x}]
    BY <1>0, <1>1, <1>2, <1>3 DEF IsSumOf
  <2>4. /\ hf[s \ {x}] \in Int /\ hg[s \ {x}] \in Int /\ f[x] \in Int /\ g[x] \in Int
        /\ d[x] = f[x] - g[x]
    <3>1. s \ {x} \in SUBSET D
      OBVIOUS
    <3> QED BY <3>1, <1>0, <1>1, <1>2 DEF IsSumOf
  <2>5. hd[s] = (f[x] - g[x]) + (hf[s \ {x}] - hg[s \ {x}])
    BY <2>2, <2>3, <2>4
  <2>6. hd[s] = hf[s] - hg[s]
    BY <2>3, <2>4, <2>5
  <2> QED BY <2>6
<1>6. SUBSET D \subseteq P
  <2> HIDE DEF P
  <2> QED BY <1>4, <1>5, SubsetInduction
<1> QED BY <1>1, <1>2, <1>3, <1>6

\* The sum over two sets with nothing in common.
LEMMA SumOfUnion ==
  ASSUME NEW D, IsFiniteSet(D), NEW f \in [D -> Int], NEW h, IsSumOf(h, f),
         NEW A \in SUBSET D, NEW B \in SUBSET D, A \cap B = {}
  PROVE  h[A \cup B] = h[A] + h[B]
<1> DEFINE P == {s \in SUBSET A : h[s \cup B] = h[s] + h[B]}
<1>0. DOMAIN f = D /\ h[{}] = 0 /\ h[B] \in Int /\ IsFiniteSet(A)
  BY FS_Subset DEF IsSumOf
<1>1. {} \in P
  <2>1. {} \cup B = B
    OBVIOUS
  <2> QED BY <1>0, <2>1
<1>2. ASSUME NEW s \in SUBSET A, s # {}, \A x \in s : s \ {x} \in P PROVE s \in P
  <2>1. PICK x \in s : TRUE
    BY <1>2
  <2>2. h[(s \ {x}) \cup B] = h[s \ {x}] + h[B]
    BY <1>2
  <2>3. (s \ {x}) \cup B = (s \cup B) \ {x}
    OBVIOUS
  <2>4. s \in SUBSET D /\ s \cup B \in SUBSET D /\ x \in s \cup B /\ s \ {x} \in SUBSET D
    OBVIOUS
  <2>5. h[s] = f[x] + h[s \ {x}] /\ h[s \cup B] = f[x] + h[(s \cup B) \ {x}]
    BY <1>0, <2>4 DEF IsSumOf
  <2>6. f[x] \in Int /\ h[s \ {x}] \in Int
    BY <1>0, <2>4 DEF IsSumOf
  <2>7. h[s \cup B] = f[x] + (h[s \ {x}] + h[B])
    BY <2>2, <2>3, <2>5
  <2>8. h[s \cup B] = h[s] + h[B]
    BY <1>0, <2>5, <2>6, <2>7
  <2> QED BY <2>8
<1>3. SUBSET A \subseteq P
  <2> HIDE DEF P
  <2> QED BY <1>0, <1>1, <1>2, SubsetInduction
<1> QED BY <1>3

\* The sum over the part of a function that c sends to r
SumWhere(d, c, r) == SumFunction([k \in {j \in DOMAIN c : c[j] = r} |-> d[k]])

\* The sums of the parts of a partition add up to the sum of the whole.
LEMMA SumOfParts ==
  ASSUME NEW K, IsFiniteSet(K), NEW d \in [K -> Int],
         NEW R, NEW c \in [K -> R], \A r \in R : \E k \in K : c[k] = r,
         NEW G \in [R -> Int],
         \A r \in R : G[r] = SumWhere(d, c, r)
  PROVE  SumFunction(G) = SumFunction(d)
<1>1. PICK hd : IsSumOf(hd, d) /\ SumFunction(d) = hd[K]
  BY SumIsThere
<1>2. IsFiniteSet(R)
  <2>1. c \in Surjection(K, R)
    BY Zenon DEF Surjection
  <2> QED BY <2>1, FS_Surjection
<1>3. PICK hg : IsSumOf(hg, G) /\ SumFunction(G) = hg[R]
  BY <1>2, SumIsThere
<1>0. DOMAIN G = R
  OBVIOUS
<1>8. \A A, B \in SUBSET K : A \cap B = {} => hd[A \cup B] = hd[A] + hd[B]
  BY <1>1, SumOfUnion
<1> DEFINE Pre(s) == {k \in K : c[k] \in s}
           P == {s \in SUBSET R : hg[s] = hd[Pre(s)]}
<1>4. {} \in P
  <2>1. Pre({}) = {}
    OBVIOUS
  <2> QED BY <2>1, <1>1, <1>3 DEF IsSumOf
<1>5. ASSUME NEW s \in SUBSET R, s # {}, \A x \in s : s \ {x} \in P PROVE s \in P
  <2>1. PICK r \in s : TRUE
    BY <1>5
  <2>2. hg[s \ {r}] = hd[Pre(s \ {r})]
    BY <1>5
  <2>3. hg[s] = G[r] + hg[s \ {r}]
    BY <1>0, <1>3 DEF IsSumOf
  <2> DEFINE F == {j \in K : c[j] = r}
  <2>4. G[r] = hd[F]
    <3>1. F \in SUBSET K
      OBVIOUS
    <3>2. G[r] = SumFunction([k \in F |-> d[k]])
      <4>1. G[r] = SumWhere(d, c, r) /\ DOMAIN c = K
        OBVIOUS
      <4> QED BY <4>1 DEF SumWhere
    <3> HIDE DEF F
    <3> QED BY <1>1, <3>1, <3>2, SumOfPart
  <2>5. /\ F \in SUBSET K /\ Pre(s \ {r}) \in SUBSET K /\ F \cap Pre(s \ {r}) = {}
        /\ F \cup Pre(s \ {r}) = Pre(s)
    OBVIOUS
  <2>6. hd[Pre(s)] = hd[F] + hd[Pre(s \ {r})]
    <3> HIDE DEF F, Pre
    <3>1. hd[F \cup Pre(s \ {r})] = hd[F] + hd[Pre(s \ {r})]
      BY <1>8, <2>5
    <3> QED BY <3>1, <2>5
  <2> QED BY <2>2, <2>3, <2>4, <2>6
<1>6. SUBSET R \subseteq P
  <2> HIDE DEF P
  <2> QED BY <1>2, <1>4, <1>5, SubsetInduction
<1>7. Pre(R) = K
  OBVIOUS
<1> QED BY <1>1, <1>3, <1>6, <1>7

\* The size of a set is a sum of ones.
LEMMA SizeIsSum ==
  ASSUME NEW D, IsFiniteSet(D)
  PROVE  SumFunction([x \in D |-> 1]) = Cardinality(D)
<1> DEFINE f == [x \in D |-> 1]
           P == {s \in SUBSET D : \A h : IsSumOf(h, f) => h[s] = Cardinality(s)}
<1>0. DOMAIN f = D
  OBVIOUS
<1>1. PICK h : IsSumOf(h, f) /\ SumFunction(f) = h[D]
  <2>1. f \in [D -> Int]
    OBVIOUS
  <2> HIDE DEF f
  <2> QED BY <2>1, SumIsThere
<1>2. {} \in P
  <2>1. Cardinality({}) = 0
    BY FS_EmptySet
  <2> QED BY <2>1 DEF IsSumOf
<1>3. ASSUME NEW s \in SUBSET D, s # {}, \A x \in s : s \ {x} \in P PROVE s \in P
  <2> SUFFICES ASSUME NEW k, IsSumOf(k, f) PROVE k[s] = Cardinality(s)
    OBVIOUS
  <2>1. PICK x \in s : TRUE
    BY <1>3
  <2>2. k[s \ {x}] = Cardinality(s \ {x})
    BY <1>3
  <2>3. k[s] = f[x] + k[s \ {x}]
    BY <1>0 DEF IsSumOf
  <2>4. Cardinality(s) = Cardinality(s \ {x}) + 1 /\ Cardinality(s \ {x}) \in Nat
    <3>1. IsFiniteSet(s)
      BY FS_Subset
    <3> QED BY <3>1, OneLess
  <2>5. f[x] = 1
    OBVIOUS
  <2> QED BY <2>2, <2>3, <2>4, <2>5
<1>4. SUBSET D \subseteq P
  <2> HIDE DEF P
  <2> QED BY <1>2, <1>3, SubsetInduction
<1> QED BY <1>1, <1>4

\* Sets matched one to one have the same size.
LEMMA SameSize ==
  ASSUME NEW D, NEW E, IsFiniteSet(E), NEW b \in [E -> D],
         \A x, y \in E : b[x] = b[y] => x = y,
         \A y \in D : \E x \in E : b[x] = y
  PROVE  IsFiniteSet(D) /\ Cardinality(D) = Cardinality(E)
<1>1. b \in Bijection(E, D)
  BY Zenon DEF Bijection, Injection, Surjection, IsInjective
<1> QED BY <1>1, FS_Bijection DEF ExistsBijection

-----------------------------------------------------------------------------
\* The rows of a table and the buckets walked in memory

\* Buckets of lines under numbers, of matches whose season is known once there is a line
Bucketed(buckets) ==
    \A g \in Games :
        /\ DOMAIN buckets[g] \subseteq Nat
        /\ mem.season[g] \in {"none", Fixture[g].season}
        /\ mem.season[g] = "none" => DOMAIN buckets[g] = {}

\* Both buckets in memory are such.
LEMMA BothBucketed ==
  ASSUME StatisticsInv
  PROVE  Bucketed(mem.teams) /\ Bucketed(mem.players)
<1>1. \A g \in Games : Fixture[g].home \in Nat /\ Fixture[g].away \in Nat /\ Players \subseteq Nat
  BY StatisticsAssumption
<1>2. ASSUME NEW g \in Games
      PROVE  DOMAIN mem.teams[g] \subseteq Nat /\ DOMAIN mem.players[g] \subseteq Nat
  <2>1. mem.teams[g] = games[g].sides /\ DOMAIN mem.players[g] \subseteq Players
    BY DEF StatisticsInv, BucketsShaped, LinesFor
  <2>2. DOMAIN games[g].sides \subseteq {Fixture[g].home, Fixture[g].away}
    BY DEF StatisticsInv, MatchesShaped, LinesFor
  <2> QED BY <1>1, <2>1, <2>2
<1> QED BY <1>2 DEF StatisticsInv, BucketsShaped, Bucketed

\* The keys of a total are those of the matches walked for it.
LEMMA KeysWalked ==
  ASSUME NEW buckets, Bucketed(buckets), NEW s \in STRING \ {"none"}, NEW id
  PROVE  /\ \A g \in MemGames(buckets, s, id) :
                /\ g \in Games /\ id \in DOMAIN buckets[g] /\ Fixture[g].season = s
                /\ <<g, id>> \in Keys(Projection(buckets), s, id)
                /\ Projection(buckets)[<<g, id>>].line = buckets[g][id]
         /\ \A k \in Keys(Projection(buckets), s, id) :
                k = <<k[1], id>> /\ k[1] \in MemGames(buckets, s, id)
<1> DEFINE rows == Projection(buckets)
<1>1. DOMAIN rows = {j \in Games \X Nat : j[2] \in DOMAIN buckets[j[1]]}
  BY DEF Projection
<1>2. \A k \in DOMAIN rows : rows[k].season = Fixture[k[1]].season
                             /\ rows[k].line = buckets[k[1]][k[2]]
  BY <1>1 DEF Projection
<1>3. ASSUME NEW g \in MemGames(buckets, s, id)
      PROVE  /\ g \in Games /\ id \in DOMAIN buckets[g] /\ Fixture[g].season = s
             /\ <<g, id>> \in Keys(rows, s, id) /\ rows[<<g, id>>].line = buckets[g][id]
  <2>1. g \in Games /\ id \in DOMAIN buckets[g] /\ mem.season[g] = s
    BY DEF MemGames
  <2>2. Fixture[g].season = s /\ id \in Nat
    BY <2>1 DEF Bucketed
  <2>3. <<g, id>> \in DOMAIN rows
    BY <1>1, <2>1, <2>2
  <2> HIDE DEF rows
  <2> QED BY <1>2, <2>1, <2>2, <2>3 DEF Keys
<1>4. ASSUME NEW k \in Keys(rows, s, id)
      PROVE  k = <<k[1], id>> /\ k[1] \in MemGames(buckets, s, id)
  <2>1. k \in DOMAIN rows /\ k[2] = id /\ rows[k].season = s
    BY DEF Keys
  <2>2. k \in Games \X Nat /\ id \in DOMAIN buckets[k[1]]
    BY <1>1, <2>1
  <2>3. Fixture[k[1]].season = s
    BY <1>2, <2>1
  <2>4. mem.season[k[1]] = s
    BY <2>2, <2>3 DEF Bucketed
  <2> QED BY <2>1, <2>2, <2>4 DEF MemGames
<1> QED BY <1>3, <1>4

\* The ids of the rows of a season are those found in the buckets.
LEMMA SameIds ==
  ASSUME NEW buckets, Bucketed(buckets), NEW s \in STRING \ {"none"}
  PROVE  Ids(Projection(buckets), s) = MemIds(buckets, s)
<1> DEFINE rows == Projection(buckets)
<1>1. ASSUME NEW id \in Ids(rows, s) PROVE id \in MemIds(buckets, s)
  <2>1. PICK k \in DOMAIN rows : rows[k].season = s /\ k[2] = id
    BY DEF Ids
  <2>2. k \in Keys(rows, s, id)
    BY <2>1 DEF Keys
  <2>3. k[1] \in MemGames(buckets, s, id)
    BY <2>2, KeysWalked
  <2> QED BY <2>3 DEF MemGames, MemIds
<1>2. ASSUME NEW id \in MemIds(buckets, s) PROVE id \in Ids(rows, s)
  <2>1. PICK g \in Games : mem.season[g] = s /\ id \in DOMAIN buckets[g]
    BY DEF MemIds
  <2>2. g \in MemGames(buckets, s, id)
    BY <2>1 DEF MemGames
  <2>3. <<g, id>> \in Keys(rows, s, id)
    BY <2>2, KeysWalked
  <2>4. <<g, id>> \in DOMAIN rows /\ rows[<<g, id>>].season = s /\ <<g, id>>[2] = id
    BY <2>3 DEF Keys
  <2> HIDE DEF rows
  <2> QED BY <2>4 DEF Ids
<1> QED BY <1>1, <1>2

\* Finitely many matches are walked for a total.
LEMMA WalkedFinite ==
  ASSUME NEW buckets, NEW s, NEW id
  PROVE  MemGames(buckets, s, id) \subseteq Games /\ IsFiniteSet(MemGames(buckets, s, id))
<1>1. MemGames(buckets, s, id) \subseteq Games /\ IsFiniteSet(Games)
  BY StatisticsAssumption DEF MemGames
<1> QED BY <1>1, FS_Subset

\* As many keys as matches, whichever of the matches are counted.
LEMMA SameCount ==
  ASSUME NEW buckets, Bucketed(buckets), NEW s \in STRING \ {"none"}, NEW id,
         NEW W \in SUBSET MemGames(buckets, s, id)
  PROVE  /\ IsFiniteSet({k \in Keys(Projection(buckets), s, id) : k[1] \in W})
         /\ Cardinality({k \in Keys(Projection(buckets), s, id) : k[1] \in W}) = Cardinality(W)
<1> DEFINE D == {k \in Keys(Projection(buckets), s, id) : k[1] \in W}
           b == [g \in W |-> <<g, id>>]
<1>1. IsFiniteSet(W)
  BY WalkedFinite, FS_Subset
<1>2. \A g \in W : <<g, id>> \in D
  BY KeysWalked
<1>3. \A k \in D : k[1] \in W /\ k = <<k[1], id>>
  BY KeysWalked
<1> HIDE DEF D
<1>4. b \in [W -> D] /\ (\A x, y \in W : b[x] = b[y] => x = y)
  BY <1>2
<1>5. \A y \in D : \E x \in W : b[x] = y
  BY <1>3
<1> HIDE DEF b
<1>6. IsFiniteSet(D) /\ Cardinality(D) = Cardinality(W)
  BY <1>1, <1>4, <1>5, SameSize
<1> QED BY <1>6 DEF D

\* The sum of a column over the keys is its sum over the matches.
LEMMA SameTotal ==
  ASSUME NEW buckets, Bucketed(buckets), NEW s \in STRING \ {"none"}, NEW id, NEW c,
         \A g \in Games : id \in DOMAIN buckets[g] => buckets[g][id][c] \in Int
  PROVE  Total([k \in Keys(Projection(buckets), s, id) |-> Projection(buckets)[k].line], c)
           = Total([g \in MemGames(buckets, s, id) |-> buckets[g][id]], c)
<1> DEFINE keys == Keys(Projection(buckets), s, id)
           walked == MemGames(buckets, s, id)
           f == [k \in keys |-> Projection(buckets)[k].line[c]]
           g == [x \in walked |-> buckets[x][id][c]]
           b == [x \in walked |-> <<x, id>>]
<1>1. Total([k \in keys |-> Projection(buckets)[k].line], c) = SumFunction(f)
  BY DEF Total
<1>2. Total([x \in walked |-> buckets[x][id]], c) = SumFunction(g)
  BY DEF Total
<1>3. /\ \A x \in walked : x \in Games /\ id \in DOMAIN buckets[x] /\ <<x, id>> \in keys
                           /\ Projection(buckets)[<<x, id>>].line = buckets[x][id]
      /\ \A k \in keys : k = <<k[1], id>> /\ k[1] \in walked
  BY KeysWalked
<1>4. IsFiniteSet(walked)
  BY WalkedFinite
<1>5. IsFiniteSet(keys)
  <2>1. keys = {k \in keys : k[1] \in walked}
    BY <1>3
  <2> HIDE DEF keys
  <2>2. IsFiniteSet({k \in Keys(Projection(buckets), s, id) : k[1] \in walked})
    BY SameCount
  <2> QED BY <2>1, <2>2 DEF keys
<1> HIDE DEF keys, walked
<1>6. g \in [walked -> Int] /\ b \in [walked -> keys]
  BY <1>3
<1>7. f \in [keys -> Int]
  <2>1. ASSUME NEW k \in keys PROVE Projection(buckets)[k].line[c] \in Int
    <3>1. Projection(buckets)[k].line = buckets[k[1]][id]
      BY <1>3
    <3> QED BY <1>3, <3>1
  <2> QED BY <2>1
<1>8. /\ \A x, y \in walked : b[x] = b[y] => x = y
      /\ \A y \in keys : \E x \in walked : b[x] = y
      /\ \A x \in walked : g[x] = f[b[x]]
  BY <1>3
<1>9. SumFunction(g) = SumFunction(f)
  <2> HIDE DEF f, g, b
  <2> QED BY <1>4, <1>5, <1>6, <1>7, <1>8, SumBijection
<1> QED BY <1>1, <1>2, <1>9 DEF keys, walked

-----------------------------------------------------------------------------
\* The totals of players and of teams

\* What a line holds.
LEMMA HeldLines ==
  ASSUME StatisticsInv, NEW g \in Games
  PROVE  /\ \A id \in DOMAIN mem.players[g] : mem.players[g][id] \in PlayerLine
         /\ \A id \in DOMAIN mem.teams[g] : mem.teams[g][id] \in TeamLine
<1>1. LinesFor(Players, mem.players[g], PlayerLine) /\ mem.teams[g] = games[g].sides
  BY DEF StatisticsInv, BucketsShaped
<1>2. LinesFor({Fixture[g].home, Fixture[g].away}, games[g].sides, TeamLine)
  BY DEF StatisticsInv, MatchesShaped
<1> QED BY <1>1, <1>2 DEF LinesFor

\* The player totals of SQL and of the buckets.
LEMMA SamePlayerTotals ==
  ASSUME StatisticsInv, NEW s \in STRING \ {"none"}
  PROVE  SqlPlayerTotals(Projection(mem.players), s) = MemPlayerTotals(s)
<1> DEFINE rows == Projection(mem.players)
           Keyed(id) == LET keys == Keys(rows, s, id)
                            lines == [k \in keys |-> rows[k].line]
                        IN  PlayerTotal(id, Cardinality(keys), Total(lines, "points"),
                                        Total(lines, "turnovers"))
           Walked(id) == LET walked == MemGames(mem.players, s, id)
                             lines == [g \in walked |-> mem.players[g][id]]
                         IN  PlayerTotal(id, Cardinality(walked), Total(lines, "points"),
                                         Total(lines, "turnovers"))
<1>0. Bucketed(mem.players)
  BY BothBucketed
<1>1. ASSUME NEW id PROVE Keyed(id) = Walked(id)
  <2> DEFINE keys == Keys(rows, s, id)
             walked == MemGames(mem.players, s, id)
             part == {k \in keys : k[1] \in walked}
  <2>1. keys = part
    BY <1>0, KeysWalked
  <2>2. Cardinality(part) = Cardinality(walked)
    BY <1>0, SameCount
  <2>3. \A g \in Games : id \in DOMAIN mem.players[g] =>
            mem.players[g][id].points \in Int /\ mem.players[g][id].turnovers \in Int
    BY HeldLines DEF PlayerLine
  <2>4. Total([k \in keys |-> rows[k].line], "points")
          = Total([g \in walked |-> mem.players[g][id]], "points")
    BY <1>0, <2>3, SameTotal
  <2>5. Total([k \in keys |-> rows[k].line], "turnovers")
          = Total([g \in walked |-> mem.players[g][id]], "turnovers")
    BY <1>0, <2>3, SameTotal
  <2>6. Cardinality(keys) = Cardinality(walked)
    <3> HIDE DEF keys, walked, part
    <3> QED BY <2>1, <2>2
  <2> QED BY <2>4, <2>5, <2>6, Zenon
<1>2. Ids(rows, s) = MemIds(mem.players, s)
  BY <1>0, SameIds
<1>3. {Keyed(id) : id \in Ids(rows, s)} = {Walked(id) : id \in MemIds(mem.players, s)}
  <2> HIDE DEF Keyed, Walked, rows
  <2> QED BY <1>1, <1>2
<1>4. SqlPlayerTotals(rows, s) = {Keyed(id) : id \in Ids(rows, s)}
  BY Zenon DEF SqlPlayerTotals
<1>5. MemPlayerTotals(s) = {Walked(id) : id \in MemIds(mem.players, s)}
  BY Zenon DEF MemPlayerTotals
<1> QED BY <1>3, <1>4, <1>5

\* The team totals too, when no game of the season is drawn.
LEMMA SameTeamTotals ==
  ASSUME StatisticsInv, NEW s \in STRING \ {"none"}, ~Tied(s)
  PROVE  SqlTeamTotals(Projection(mem.teams), s) = MemTeamTotals(s)
<1> DEFINE rows == Projection(mem.teams)
           Keyed(id) == LET keys == Keys(rows, s, id)
                            lines == [k \in keys |-> rows[k].line]
                        IN  TeamTotal(id, Cardinality(keys),
                              Cardinality({k \in keys : lines[k].points_for > lines[k].points_against}),
                              Cardinality({k \in keys : lines[k].points_for < lines[k].points_against}),
                              Total(lines, "points_for"), Total(lines, "points_against"))
           Walked(id) == LET walked == MemGames(mem.teams, s, id)
                             lines == [g \in walked |-> mem.teams[g][id]]
                             wins == {g \in walked : lines[g].points_for > lines[g].points_against}
                         IN  TeamTotal(id, Cardinality(walked), Cardinality(wins),
                                Cardinality(walked \ wins),
                                Total(lines, "points_for"), Total(lines, "points_against"))
<1>0. Bucketed(mem.teams) /\ sql.sqlite.teams = rows
  BY BothBucketed DEF StatisticsInv, RowsShaped
<1>1. ASSUME NEW id PROVE Keyed(id) = Walked(id)
  <2> DEFINE keys == Keys(rows, s, id)
             walked == MemGames(mem.teams, s, id)
             keyed == [k \in keys |-> rows[k].line]
             lines == [g \in walked |-> mem.teams[g][id]]
             wins == {g \in walked : lines[g].points_for > lines[g].points_against}
  <2>1. /\ \A g \in walked : /\ g \in Games /\ id \in DOMAIN mem.teams[g] /\ <<g, id>> \in keys
                             /\ rows[<<g, id>>].line = mem.teams[g][id]
        /\ \A k \in keys : k = <<k[1], id>> /\ k[1] \in walked
    BY <1>0, KeysWalked
  <2>2. keys = {k \in keys : k[1] \in walked}
    BY <2>1
  <2>3. \A W \in SUBSET walked : Cardinality({k \in keys : k[1] \in W}) = Cardinality(W)
    BY <1>0, SameCount
  <2>4. \A g \in Games : id \in DOMAIN mem.teams[g] =>
            mem.teams[g][id].points_for \in Int /\ mem.teams[g][id].points_against \in Int
    BY HeldLines DEF TeamLine
  <2>5. Total(keyed, "points_for") = Total(lines, "points_for")
    BY <1>0, <2>4, SameTotal
  <2>6. Total(keyed, "points_against") = Total(lines, "points_against")
    BY <1>0, <2>4, SameTotal
  <2>7. \A k \in keys : k \in DOMAIN rows /\ rows[k].season = s
    BY DEF Keys
  <2>8. \A k \in keys : rows[k].line.points_for # rows[k].line.points_against
    BY <1>0, <2>7 DEF Tied
  <2> HIDE DEF keys, walked, rows
  <2>9. \A k \in keys : keyed[k] = lines[k[1]]
    BY <2>1
  <2>10. {k \in keys : keyed[k].points_for > keyed[k].points_against} = {k \in keys : k[1] \in wins}
    BY <2>1, <2>9
  <2>11. {k \in keys : keyed[k].points_for < keyed[k].points_against}
           = {k \in keys : k[1] \in walked \ wins}
    <3>1. ASSUME NEW k \in keys
          PROVE  keyed[k].points_for < keyed[k].points_against <=> k[1] \in walked \ wins
      <4>1. k[1] \in walked /\ keyed[k] = lines[k[1]] /\ keyed[k] = rows[k].line
        BY <2>1, <2>9
      <4>2. lines[k[1]].points_for \in Int /\ lines[k[1]].points_against \in Int
        BY <2>1, <2>4, <4>1
      <4>3. keyed[k].points_for # keyed[k].points_against
        BY <2>8, <4>1
      <4> HIDE DEF keyed, lines
      <4>4. k[1] \in walked \ wins <=> ~(lines[k[1]].points_for > lines[k[1]].points_against)
        BY <4>1
      <4> HIDE DEF wins
      <4>5. lines[k[1]].points_for < lines[k[1]].points_against
              <=> ~(lines[k[1]].points_for > lines[k[1]].points_against)
        BY <4>1, <4>2, <4>3
      <4> QED BY <4>1, <4>4, <4>5
    <3> HIDE DEF keyed, wins
    <3> QED BY <3>1
  <2>12. wins \in SUBSET walked /\ walked \ wins \in SUBSET walked /\ walked \in SUBSET walked
    OBVIOUS
  <2> HIDE DEF keyed, lines, wins
  <2>13. /\ Cardinality(keys) = Cardinality(walked)
         /\ Cardinality({k \in keys : k[1] \in wins}) = Cardinality(wins)
         /\ Cardinality({k \in keys : k[1] \in walked \ wins}) = Cardinality(walked \ wins)
    BY <2>2, <2>3, <2>12
  <2>14. TeamTotal(id, Cardinality(keys),
            Cardinality({k \in keys : keyed[k].points_for > keyed[k].points_against}),
            Cardinality({k \in keys : keyed[k].points_for < keyed[k].points_against}),
            Total(keyed, "points_for"), Total(keyed, "points_against"))
          = TeamTotal(id, Cardinality(walked), Cardinality(wins), Cardinality(walked \ wins),
                Total(lines, "points_for"), Total(lines, "points_against"))
    BY <2>5, <2>6, <2>10, <2>11, <2>13
  <2> QED BY <2>14 DEF keys, walked, rows, keyed, lines, wins
<1>2. Ids(rows, s) = MemIds(mem.teams, s)
  BY <1>0, SameIds
<1>3. {Keyed(id) : id \in Ids(rows, s)} = {Walked(id) : id \in MemIds(mem.teams, s)}
  <2> HIDE DEF Keyed, Walked, rows
  <2> QED BY <1>1, <1>2
<1>4. SqlTeamTotals(rows, s) = {Keyed(id) : id \in Ids(rows, s)}
  BY Zenon DEF SqlTeamTotals
<1>5. MemTeamTotals(s) = {Walked(id) : id \in MemIds(mem.teams, s)}
  BY Zenon DEF MemTeamTotals
<1> QED BY <1>3, <1>4, <1>5

-----------------------------------------------------------------------------
\* ORDER BY and the keys of sorted()

\* Tuples in order: the first place where they differ decides.
LEMMA LexTwo ==
  ASSUME NEW x1, NEW x2, NEW y1, NEW y2
  PROVE  LexLess(<<x1, x2>>, <<y1, y2>>) <=> x1 < y1 \/ (x1 = y1 /\ x2 < y2)
<1>1. DOMAIN <<x1, x2>> = {1, 2} /\ 1..(1 - 1) = {} /\ 1..(2 - 1) = {1}
  OBVIOUS
<1> QED BY <1>1 DEF LexLess

\* Likewise for the three numbers of a key.
LEMMA LexThree ==
  ASSUME NEW x1, NEW x2, NEW x3, NEW y1, NEW y2, NEW y3
  PROVE  LexLess(<<x1, x2, x3>>, <<y1, y2, y3>>)
           <=> x1 < y1 \/ (x1 = y1 /\ x2 < y2) \/ (x1 = y1 /\ x2 = y2 /\ x3 < y3)
<1>1. DOMAIN <<x1, x2, x3>> = {1, 2, 3} /\ 1..(1 - 1) = {} /\ 1..(2 - 1) = {1}
      /\ 1..(3 - 1) = {1, 2}
  OBVIOUS
<1> QED BY <1>1 DEF LexLess

\* Likewise for the four numbers of a key.
LEMMA LexFour ==
  ASSUME NEW x1, NEW x2, NEW x3, NEW x4, NEW y1, NEW y2, NEW y3, NEW y4
  PROVE  LexLess(<<x1, x2, x3, x4>>, <<y1, y2, y3, y4>>)
           <=> x1 < y1 \/ (x1 = y1 /\ x2 < y2) \/ (x1 = y1 /\ x2 = y2 /\ x3 < y3)
               \/ (x1 = y1 /\ x2 = y2 /\ x3 = y3 /\ x4 < y4)
<1>1. DOMAIN <<x1, x2, x3, x4>> = {1, 2, 3, 4} /\ 1..(1 - 1) = {} /\ 1..(2 - 1) = {1}
      /\ 1..(3 - 1) = {1, 2} /\ 1..(4 - 1) = {1, 2, 3}
  OBVIOUS
<1> QED BY <1>1 DEF LexLess

\* The columns of an ORDER BY, likewise.
Before(a, b, column) ==
    LET x == Column(a, column[1])
        y == Column(b, column[1])
    IN  IF column[2] = "ASC" THEN x < y ELSE x > y
\* Two totals with the same value in a column
Level(a, b, column) == Column(a, column[1]) = Column(b, column[1])

\* An ORDER BY of two columns is decided by the first where the totals differ.
LEMMA OrderTwo ==
  ASSUME NEW a, NEW b, NEW c1, NEW c2
  PROVE  Precedes(a, b, <<c1, c2>>)
           <=> Before(a, b, c1) \/ (Level(a, b, c1) /\ Before(a, b, c2))
<1>1. DOMAIN <<c1, c2>> = {1, 2} /\ 1..(1 - 1) = {} /\ 1..(2 - 1) = {1}
  OBVIOUS
<1> QED BY <1>1 DEF Precedes, Before, Level

\* Likewise for three columns.
LEMMA OrderThree ==
  ASSUME NEW a, NEW b, NEW c1, NEW c2, NEW c3
  PROVE  Precedes(a, b, <<c1, c2, c3>>)
           <=> Before(a, b, c1) \/ (Level(a, b, c1) /\ Before(a, b, c2))
               \/ (Level(a, b, c1) /\ Level(a, b, c2) /\ Before(a, b, c3))
<1>1. DOMAIN <<c1, c2, c3>> = {1, 2, 3} /\ 1..(1 - 1) = {} /\ 1..(2 - 1) = {1}
      /\ 1..(3 - 1) = {1, 2}
  OBVIOUS
<1> QED BY <1>1 DEF Precedes, Before, Level

\* Likewise for four columns.
LEMMA OrderFour ==
  ASSUME NEW a, NEW b, NEW c1, NEW c2, NEW c3, NEW c4
  PROVE  Precedes(a, b, <<c1, c2, c3, c4>>)
           <=> Before(a, b, c1) \/ (Level(a, b, c1) /\ Before(a, b, c2))
               \/ (Level(a, b, c1) /\ Level(a, b, c2) /\ Before(a, b, c3))
               \/ (Level(a, b, c1) /\ Level(a, b, c2) /\ Level(a, b, c3) /\ Before(a, b, c4))
<1>1. DOMAIN <<c1, c2, c3, c4>> = {1, 2, 3, 4} /\ 1..(1 - 1) = {} /\ 1..(2 - 1) = {1}
      /\ 1..(3 - 1) = {1, 2} /\ 1..(4 - 1) = {1, 2, 3}
  OBVIOUS
<1> QED BY <1>1 DEF Precedes, Before, Level

\* The totals of players and of teams
PlayerTotalSet == [id : Nat, games : Nat, points : Int, turnovers : Int]
TeamTotalSet == [id : Nat, games : Nat, wins : Nat, losses : Nat,
                 points_for : Int, points_against : Int]

\* The ORDER BY of a player leaderboard and its Python key put players alike.
LEMMA PlayersAlike ==
  ASSUME NEW a \in PlayerTotalSet, NEW b \in PlayerTotalSet, NEW metric \in PlayerMetrics
  PROVE  Precedes(a, b, PlayerOrder(metric)) <=> LexLess(PlayerKey(a, metric), PlayerKey(b, metric))
<1>0. /\ a.id \in Int /\ a[metric] \in Int /\ b.id \in Int /\ b[metric] \in Int
  BY DEF PlayerTotalSet, PlayerMetrics
<1>1. /\ Column(a, metric) = a[metric] /\ Column(b, metric) = b[metric]
      /\ Column(a, "id") = a.id /\ Column(b, "id") = b.id
  BY DEF Column, PlayerMetrics
<1>2. LexLess(PlayerKey(a, metric), PlayerKey(b, metric))
        <=> \/ (IF metric = "turnovers" THEN a[metric] ELSE -a[metric])
                 < (IF metric = "turnovers" THEN b[metric] ELSE -b[metric])
            \/ /\ (IF metric = "turnovers" THEN a[metric] ELSE -a[metric])
                   = (IF metric = "turnovers" THEN b[metric] ELSE -b[metric])
               /\ a.id < b.id
  BY LexTwo DEF PlayerKey
<1>3. CASE metric = "turnovers"
  <2>1. PlayerOrder(metric) = << <<metric, "ASC">>, <<"id", "ASC">> >>
    BY <1>3 DEF PlayerOrder
  <2>2. Precedes(a, b, PlayerOrder(metric))
          <=> a[metric] < b[metric] \/ (a[metric] = b[metric] /\ a.id < b.id)
    BY <1>1, <2>1, OrderTwo DEF Before, Level
  <2> QED BY <1>2, <1>3, <2>2
<1>4. CASE metric # "turnovers"
  <2>1. PlayerOrder(metric) = << <<metric, "DESC">>, <<"id", "ASC">> >>
    BY <1>4 DEF PlayerOrder
  <2>2. Precedes(a, b, PlayerOrder(metric))
          <=> a[metric] > b[metric] \/ (a[metric] = b[metric] /\ a.id < b.id)
    BY <1>1, <2>1, OrderTwo DEF Before, Level
  <2> QED BY <1>0, <1>2, <1>4, <2>2
<1> QED BY <1>3, <1>4

\* So do the ORDER BY of a team leaderboard and its key.
LEMMA TeamsAlike ==
  ASSUME NEW a \in TeamTotalSet, NEW b \in TeamTotalSet, NEW metric \in TeamMetrics
  PROVE  Precedes(a, b, TeamOrder(metric)) <=> LexLess(TeamKey(a, metric), TeamKey(b, metric))
<1>0. /\ a.id \in Int /\ a.wins \in Int /\ a.losses \in Int /\ a.points_for \in Int
      /\ a.games \in Nat /\ PointDifference(a) \in Int
      /\ b.id \in Int /\ b.wins \in Int /\ b.losses \in Int /\ b.points_for \in Int
      /\ b.games \in Nat /\ PointDifference(b) \in Int
  BY DEF TeamTotalSet, PointDifference
<1>00. WinPercentage(a) \in Int /\ WinPercentage(b) \in Int
  <2>1. ASSUME NEW t \in TeamTotalSet PROVE WinPercentage(t) \in Int
    <3>1. Scale * t.wins \in Int /\ t.games \in Nat
      BY StatisticsAssumption DEF TeamTotalSet
    <3>2. ASSUME NEW x \in Int, t.games > 0 PROVE x \div t.games \in Int
      BY <3>1, <3>2
    <3>3. t.games > 0 => (Scale * t.wins) \div t.games \in Int
      BY <3>1, <3>2
    <3> QED BY <3>3 DEF WinPercentage
  <2> QED BY <2>1
<1>1. \A t \in {a, b} :
        /\ Column(t, "id") = t.id /\ Column(t, "wins") = t.wins /\ Column(t, "losses") = t.losses
        /\ Column(t, "points_for") = t.points_for
        /\ Column(t, "point_difference") = PointDifference(t)
        /\ Column(t, "win_percentage") = WinPercentage(t)
  BY DEF Column
<1>2. CASE metric = "classification"
  <2>1. TeamOrder(metric) = << <<"wins", "DESC">>, <<"losses", "ASC">>,
                               <<"point_difference", "DESC">>, <<"id", "ASC">> >>
    BY <1>2 DEF TeamOrder
  <2>2. Precedes(a, b, TeamOrder(metric))
          <=> \/ a.wins > b.wins
              \/ a.wins = b.wins /\ a.losses < b.losses
              \/ a.wins = b.wins /\ a.losses = b.losses /\ PointDifference(a) > PointDifference(b)
              \/ /\ a.wins = b.wins /\ a.losses = b.losses
                 /\ PointDifference(a) = PointDifference(b) /\ a.id < b.id
    BY <1>1, <2>1, OrderFour DEF Before, Level
  <2>3. LexLess(TeamKey(a, metric), TeamKey(b, metric))
          <=> \/ -a.wins < -b.wins
              \/ -a.wins = -b.wins /\ a.losses < b.losses
              \/ -a.wins = -b.wins /\ a.losses = b.losses /\ -PointDifference(a) < -PointDifference(b)
              \/ /\ -a.wins = -b.wins /\ a.losses = b.losses
                 /\ -PointDifference(a) = -PointDifference(b) /\ a.id < b.id
    BY <1>2, LexFour DEF TeamKey
  <2> QED BY <1>0, <2>2, <2>3
<1>3. CASE metric = "win_percentage"
  <2>1. TeamOrder(metric) = << <<"win_percentage", "DESC">>, <<"wins", "DESC">>, <<"id", "ASC">> >>
    BY <1>3 DEF TeamOrder
  <2>2. Precedes(a, b, TeamOrder(metric))
          <=> \/ WinPercentage(a) > WinPercentage(b)
              \/ WinPercentage(a) = WinPercentage(b) /\ a.wins > b.wins
              \/ WinPercentage(a) = WinPercentage(b) /\ a.wins = b.wins /\ a.id < b.id
    BY <1>1, <2>1, OrderThree DEF Before, Level
  <2>3. LexLess(TeamKey(a, metric), TeamKey(b, metric))
          <=> \/ -WinPercentage(a) < -WinPercentage(b)
              \/ -WinPercentage(a) = -WinPercentage(b) /\ -a.wins < -b.wins
              \/ -WinPercentage(a) = -WinPercentage(b) /\ -a.wins = -b.wins /\ a.id < b.id
    BY <1>3, LexThree DEF TeamKey
  <2> QED BY <1>0, <1>00, <2>2, <2>3
<1>4. CASE metric = "points_for"
  <2>1. TeamOrder(metric) = << <<"points_for", "DESC">>, <<"id", "ASC">> >>
    BY <1>4 DEF TeamOrder
  <2>2. Precedes(a, b, TeamOrder(metric))
          <=> a.points_for > b.points_for \/ (a.points_for = b.points_for /\ a.id < b.id)
    BY <1>1, <2>1, OrderTwo DEF Before, Level
  <2>3. LexLess(TeamKey(a, metric), TeamKey(b, metric))
          <=> -a.points_for < -b.points_for \/ (-a.points_for = -b.points_for /\ a.id < b.id)
    BY <1>4, LexTwo DEF TeamKey
  <2> QED BY <1>0, <2>2, <2>3
<1>5. CASE metric = "point_difference"
  <2>1. TeamOrder(metric) = << <<"point_difference", "DESC">>, <<"id", "ASC">> >>
    BY <1>5 DEF TeamOrder
  <2>2. Precedes(a, b, TeamOrder(metric))
          <=> \/ PointDifference(a) > PointDifference(b)
              \/ PointDifference(a) = PointDifference(b) /\ a.id < b.id
    BY <1>1, <2>1, OrderTwo DEF Before, Level
  <2>3. LexLess(TeamKey(a, metric), TeamKey(b, metric))
          <=> \/ -PointDifference(a) < -PointDifference(b)
              \/ -PointDifference(a) = -PointDifference(b) /\ a.id < b.id
    BY <1>5, LexTwo DEF TeamKey
  <2> QED BY <1>0, <2>2, <2>3
<1> QED BY <1>2, <1>3, <1>4, <1>5 DEF TeamMetrics

\* So both put a table in the same order.
LEMMA SamePlayerOrder ==
  ASSUME NEW T \in SUBSET PlayerTotalSet, NEW metric \in PlayerMetrics, NEW limit
  PROVE  FirstOf(Arranged(T, OrderedBy(T, PlayerOrder(metric))), limit) = RankPlayers(T, metric, limit)
<1>1. \A p \in T \X T : Precedes(p[1], p[2], PlayerOrder(metric))
                        <=> LexLess(PlayerKey(p[1], metric), PlayerKey(p[2], metric))
  BY PlayersAlike
<1>2. OrderedBy(T, PlayerOrder(metric)) = SortedBy(T, LAMBDA a : PlayerKey(a, metric))
  BY <1>1 DEF OrderedBy, SortedBy
<1> QED BY <1>2 DEF RankPlayers

\* Likewise for a leaderboard of teams.
LEMMA SameTeamOrder ==
  ASSUME NEW T \in SUBSET TeamTotalSet, NEW metric \in TeamMetrics, NEW limit
  PROVE  FirstOf(Arranged(T, OrderedBy(T, TeamOrder(metric))), limit) = RankTeams(T, metric, limit)
<1>1. \A p \in T \X T : Precedes(p[1], p[2], TeamOrder(metric))
                        <=> LexLess(TeamKey(p[1], metric), TeamKey(p[2], metric))
  BY TeamsAlike
<1>2. OrderedBy(T, TeamOrder(metric)) = SortedBy(T, LAMBDA a : TeamKey(a, metric))
  BY <1>1 DEF OrderedBy, SortedBy
<1> QED BY <1>2 DEF RankTeams

-----------------------------------------------------------------------------
\* The rounds of a team

\* A column of whole numbers has a whole sum.
LEMMA ColumnSum ==
  ASSUME NEW D, IsFiniteSet(D), NEW lines, DOMAIN lines = D, NEW c, \A k \in D : lines[k][c] \in Int
  PROVE  Total(lines, c) \in Int
<1> DEFINE f == [k \in DOMAIN lines |-> lines[k][c]]
<1>1. f \in [D -> Int]
  OBVIOUS
<1>2. SumFunction(f) \in Int
  <2> HIDE DEF f
  <2> QED BY <1>1, SumIsInt
<1> QED BY <1>2 DEF Total

\* The totals are numbers; the wins and losses of a table from the buckets add up.
LEMMA PlayerTotalsShaped ==
  ASSUME StatisticsInv, NEW s
  PROVE  MemPlayerTotals(s) \subseteq PlayerTotalSet
<1> SUFFICES ASSUME NEW t \in MemPlayerTotals(s) PROVE t \in PlayerTotalSet
  OBVIOUS
<1>1. PICK id \in MemIds(mem.players, s) :
        LET walked == MemGames(mem.players, s, id)
            lines == [g \in walked |-> mem.players[g][id]]
        IN  t = PlayerTotal(id, Cardinality(walked), Total(lines, "points"), Total(lines, "turnovers"))
  BY Zenon DEF MemPlayerTotals
<1> DEFINE walked == MemGames(mem.players, s, id)
           lines == [g \in walked |-> mem.players[g][id]]
<1>2. t = PlayerTotal(id, Cardinality(walked), Total(lines, "points"), Total(lines, "turnovers"))
  BY <1>1
<1>3. id \in Nat
  BY BothBucketed DEF MemIds, Bucketed
<1>4. IsFiniteSet(walked) /\ Cardinality(walked) \in Nat
  BY WalkedFinite, FS_CardinalityType
<1>5. \A g \in walked : lines[g].points \in Int /\ lines[g].turnovers \in Int
  BY HeldLines DEF MemGames, PlayerLine
<1>6. DOMAIN lines = walked
  OBVIOUS
<1> HIDE DEF lines, walked
<1>7. Total(lines, "points") \in Int
  BY <1>4, <1>5, <1>6, ColumnSum
<1>8. Total(lines, "turnovers") \in Int
  BY <1>4, <1>5, <1>6, ColumnSum
<1> QED BY <1>2, <1>3, <1>4, <1>7, <1>8 DEF PlayerTotal, PlayerTotalSet

\* The totals of teams are such, and each match is won or lost.
LEMMA TeamTotalsShaped ==
  ASSUME StatisticsInv, NEW s
  PROVE  \A t \in MemTeamTotals(s) : t \in TeamTotalSet /\ t.wins + t.losses = t.games
<1> SUFFICES ASSUME NEW t \in MemTeamTotals(s)
             PROVE  t \in TeamTotalSet /\ t.wins + t.losses = t.games
  OBVIOUS
<1>1. PICK id \in MemIds(mem.teams, s) :
        LET walked == MemGames(mem.teams, s, id)
            lines == [g \in walked |-> mem.teams[g][id]]
            wins == {g \in walked : lines[g].points_for > lines[g].points_against}
        IN  t = TeamTotal(id, Cardinality(walked), Cardinality(wins), Cardinality(walked \ wins),
                   Total(lines, "points_for"), Total(lines, "points_against"))
  BY Zenon DEF MemTeamTotals
<1> DEFINE walked == MemGames(mem.teams, s, id)
           lines == [g \in walked |-> mem.teams[g][id]]
           wins == {g \in walked : lines[g].points_for > lines[g].points_against}
<1>2. t = TeamTotal(id, Cardinality(walked), Cardinality(wins), Cardinality(walked \ wins),
                   Total(lines, "points_for"), Total(lines, "points_against"))
  BY <1>1
<1>3. id \in Nat
  BY BothBucketed DEF MemIds, Bucketed
<1>4. IsFiniteSet(walked) /\ wins \in SUBSET walked
  BY WalkedFinite
<1>5. \A g \in walked : lines[g].points_for \in Int /\ lines[g].points_against \in Int
  BY HeldLines DEF MemGames, TeamLine
<1>6. DOMAIN lines = walked
  OBVIOUS
<1> HIDE DEF lines, walked, wins
<1>7. Total(lines, "points_for") \in Int
  BY <1>4, <1>5, <1>6, ColumnSum
<1>8. Total(lines, "points_against") \in Int
  BY <1>4, <1>5, <1>6, ColumnSum
<1>9. /\ Cardinality(walked) \in Nat /\ Cardinality(wins) \in Nat /\ Cardinality(walked \ wins) \in Nat
      /\ Cardinality(wins) + Cardinality(walked \ wins) = Cardinality(walked)
  <2>1. IsFiniteSet(wins) /\ IsFiniteSet(walked \ wins)
    BY <1>4, FS_Subset
  <2>2. wins \cup (walked \ wins) = walked /\ wins \cap (walked \ wins) = {}
    BY <1>4
  <2>3. Cardinality(wins \cup (walked \ wins))
          = Cardinality(wins) + Cardinality(walked \ wins) - Cardinality(wins \cap (walked \ wins))
    BY <2>1, FS_Union
  <2>4. Cardinality(walked) = Cardinality(wins) + Cardinality(walked \ wins) - Cardinality({})
    BY <2>2, <2>3
  <2>5. Cardinality({}) = 0
    BY FS_EmptySet
  <2>6. Cardinality(walked) \in Nat /\ Cardinality(wins) \in Nat /\ Cardinality(walked \ wins) \in Nat
    BY <1>4, <2>1, FS_CardinalityType
  <2> QED BY <2>4, <2>5, <2>6
<1> QED BY <1>2, <1>3, <1>7, <1>8, <1>9 DEF TeamTotal, TeamTotalSet

\* A function has no more values than arguments.
LEMMA FewerValues ==
  ASSUME NEW K, IsFiniteSet(K), NEW R, NEW c \in [K -> R], \A r \in R : \E k \in K : c[k] = r
  PROVE  IsFiniteSet(R) /\ Cardinality(R) <= Cardinality(K)
<1>1. c \in Surjection(K, R)
  BY Zenon DEF Surjection
<1> QED BY <1>1, FS_Surjection

\* The rounds of a team: refused when a numbered match of it is drawn; otherwise their
\* games are its numbered matches and their differences add up to the one of its points.
LEMMA TeamRoundsAddUp ==
  ASSUME StatisticsInv, NEW s \in STRING \ {"none"}, NEW id
  PROVE  LET answer == TeamRounds(Projection(mem.teams), s, id)
             numbered == {g \in MemGames(mem.teams, s, id) : Fixture[g].round # 0}
             Margin(g) == mem.teams[g][id].points_for - mem.teams[g][id].points_against
         IN  /\ answer.refused <=> \E g \in numbered : Margin(g) = 0
             /\ ~answer.refused =>
                  /\ SumFunction([r \in answer.rounds |-> r.games]) = Cardinality(numbered)
                  /\ SumFunction([r \in answer.rounds |-> r.difference])
                       = SumFunction([g \in numbered |-> Margin(g)])
<1> DEFINE rows == Projection(mem.teams)
           RoundOf(k) == Fixture[k[1]].round
           keys == {k \in Keys(rows, s, id) : RoundOf(k) # 0}
           walked == {g \in MemGames(mem.teams, s, id) : Fixture[g].round # 0}
           Margin(g) == mem.teams[g][id].points_for - mem.teams[g][id].points_against
           Difference(k) == rows[k].line.points_for - rows[k].line.points_against
           InRound(r) == {k \in keys : RoundOf(k) = r}
           R == {RoundOf(k) : k \in keys}
           Rec(r) == [round |-> r, games |-> Cardinality(InRound(r)),
                      difference |-> SumFunction([k \in InRound(r) |-> Difference(k)])]
           rounds == {Rec(r) : r \in R}
           c == [k \in keys |-> RoundOf(k)]
           drawn == \E k \in keys : Difference(k) = 0
<1>0. Bucketed(mem.teams)
  BY BothBucketed
<1>1. TeamRounds(rows, s, id) = [refused |-> drawn, rounds |-> IF drawn THEN {} ELSE rounds]
  BY Zenon DEF TeamRounds
<1>2. /\ \A g \in walked : /\ g \in Games /\ id \in DOMAIN mem.teams[g] /\ <<g, id>> \in keys
                           /\ rows[<<g, id>>].line = mem.teams[g][id]
      /\ \A k \in keys : k = <<k[1], id>> /\ k[1] \in walked
  <2>1. /\ \A g \in MemGames(mem.teams, s, id) :
                /\ g \in Games /\ id \in DOMAIN mem.teams[g] /\ <<g, id>> \in Keys(rows, s, id)
                /\ rows[<<g, id>>].line = mem.teams[g][id]
        /\ \A k \in Keys(rows, s, id) : k = <<k[1], id>> /\ k[1] \in MemGames(mem.teams, s, id)
    BY <1>0, KeysWalked
  <2> HIDE DEF rows
  <2> QED BY <2>1
<1>3. IsFiniteSet(keys) /\ Cardinality(keys) = Cardinality(walked)
  <2>1. keys = {k \in Keys(rows, s, id) : k[1] \in walked}
    <3>1. \A k \in Keys(rows, s, id) : k[1] \in walked => RoundOf(k) # 0
      OBVIOUS
    <3>2. \A k \in keys : k \in Keys(rows, s, id) /\ k[1] \in walked
      BY <1>2
    <3> HIDE DEF walked, rows
    <3> QED BY <3>1, <3>2
  <2>2. walked \in SUBSET MemGames(mem.teams, s, id)
    OBVIOUS
  <2>3. IsFiniteSet({k \in Keys(rows, s, id) : k[1] \in walked})
        /\ Cardinality({k \in Keys(rows, s, id) : k[1] \in walked}) = Cardinality(walked)
    <3> HIDE DEF walked
    <3> QED BY <1>0, <2>2, SameCount
  <2> HIDE DEF keys, walked
  <2> QED BY <2>1, <2>3
<1>4. c \in [keys -> R] /\ \A r \in R : \E k \in keys : c[k] = r
  OBVIOUS
<1>5. IsFiniteSet(R)
  <2> HIDE DEF c, R, keys
  <2> QED BY <1>3, <1>4, FewerValues
<1>6. \A r \in R : InRound(r) \in SUBSET keys /\ IsFiniteSet(InRound(r))
  <2> HIDE DEF keys
  <2> QED BY <1>3, FS_Subset
<1>7. \A r \in R : Rec(r).round = r /\ Rec(r).games = Cardinality(InRound(r))
                   /\ Rec(r).difference = SumFunction([k \in InRound(r) |-> Difference(k)])
  <2> HIDE DEF InRound, R
  <2> QED OBVIOUS
<1> DEFINE b == [r \in R |-> Rec(r)]
<1>8. /\ b \in [R -> rounds] /\ (\A x, y \in R : b[x] = b[y] => x = y)
      /\ \A y \in rounds : \E x \in R : b[x] = y
  <2> HIDE DEF Rec, R
  <2> QED BY <1>7
<1>9. IsFiniteSet(rounds)
  <2> HIDE DEF b, rounds, R
  <2> QED BY <1>5, <1>8, FewerValues
<1>10. \A k \in keys : rows[k].line.points_for \in Int /\ rows[k].line.points_against \in Int
  <2>1. \A k \in keys : k[1] \in Games /\ id \in DOMAIN mem.teams[k[1]]
                        /\ rows[k].line = mem.teams[k[1]][id]
    BY <1>2
  <2> HIDE DEF keys, rows
  <2> QED BY <2>1, HeldLines DEF TeamLine
<1>11. SumFunction([r \in rounds |-> r.games]) = Cardinality(walked)
  <2> DEFINE f == [r \in rounds |-> r.games]
             g == [r \in R |-> Cardinality(InRound(r))]
             d == [k \in keys |-> 1]
  <2>1. g \in [R -> Int]
    <3>1. \A r \in R : Cardinality(InRound(r)) \in Int
      <4> HIDE DEF InRound, R
      <4> QED BY <1>6, FS_CardinalityType
    <3> HIDE DEF InRound, R
    <3> QED BY <3>1
  <2>2. \A x \in R : g[x] = f[b[x]] /\ b[x] \in rounds
    <3>1. \A x \in R : b[x] \in rounds /\ b[x].games = Cardinality(InRound(x))
      <4> HIDE DEF Rec, R, InRound
      <4> QED BY <1>7
    <3> HIDE DEF b, rounds, R, InRound
    <3> QED BY <3>1
  <2>3. f \in [rounds -> Int]
    <3>1. \A y \in rounds : f[y] \in Int
      <4> HIDE DEF f, g, b, rounds, R
      <4> QED BY <1>8, <2>1, <2>2
    <3> HIDE DEF rounds
    <3> QED BY <3>1
  <2>4. SumFunction(g) = SumFunction(f)
    <3> HIDE DEF f, g, b, rounds, R
    <3> QED BY <1>5, <1>8, <1>9, <2>1, <2>2, <2>3, SumBijection
  <2>5. \A r \in R : g[r] = SumWhere(d, c, r)
    <3> SUFFICES ASSUME NEW r \in R PROVE g[r] = SumFunction([k \in {j \in keys : c[j] = r} |-> d[k]])
      <4>1. DOMAIN c = keys
        OBVIOUS
      <4> HIDE DEF c, d, g, R, keys
      <4> QED BY <4>1, Zenon DEF SumWhere
    <3>1. {j \in keys : c[j] = r} = InRound(r)
      <4> HIDE DEF keys
      <4> QED OBVIOUS
    <3>2. [k \in InRound(r) |-> d[k]] = [k \in InRound(r) |-> 1]
      <4> HIDE DEF keys
      <4> QED OBVIOUS
    <3>3. SumFunction([k \in InRound(r) |-> 1]) = Cardinality(InRound(r))
      <4> HIDE DEF InRound
      <4> QED BY <1>6, SizeIsSum
    <3>4. g[r] = Cardinality(InRound(r))
      <4> HIDE DEF InRound, R
      <4> QED OBVIOUS
    <3> HIDE DEF g, d, c, InRound, R
    <3> QED BY <3>1, <3>2, <3>3, <3>4
  <2>6. d \in [keys -> Int]
    <3> HIDE DEF keys
    <3> QED OBVIOUS
  <2>7. SumFunction(g) = SumFunction(d)
    <3> HIDE DEF g, d, c, R, keys, walked
    <3>1. IsFiniteSet(keys)
      BY <1>3
    <3> QED BY <1>4, <2>1, <2>5, <2>6, <3>1, SumOfParts
  <2>8. SumFunction(d) = Cardinality(keys)
    <3> HIDE DEF keys
    <3> QED BY <1>3, SizeIsSum
  <2> HIDE DEF g, d, f, walked, keys
  <2>9. SumFunction(f) = Cardinality(walked)
    BY <1>3, <2>4, <2>7, <2>8
  <2> QED BY <2>9 DEF f
<1>12. SumFunction([r \in rounds |-> r.difference])
         = SumFunction([g \in walked |-> Margin(g)])
  <2> DEFINE f == [r \in rounds |-> r.difference]
             g == [r \in R |-> SumFunction([k \in InRound(r) |-> Difference(k)])]
             d == [k \in keys |-> Difference(k)]
             m == [x \in walked |-> Margin(x)]
             p == [x \in walked |-> <<x, id>>]
  <2>1. g \in [R -> Int]
    <3> SUFFICES ASSUME NEW r \in R PROVE SumFunction([k \in InRound(r) |-> Difference(k)]) \in Int
      OBVIOUS
    <3> DEFINE e == [k \in InRound(r) |-> Difference(k)]
    <3>1. IsFiniteSet(InRound(r)) /\ e \in [InRound(r) -> Int]
      <4>1. \A k \in InRound(r) : Difference(k) \in Int
        <5>1. \A k \in InRound(r) : k \in keys
          BY <1>6
        <5> HIDE DEF keys, InRound, rows
        <5> QED BY <5>1, <1>10
      <4> HIDE DEF InRound, Difference, R
      <4> QED BY <4>1, <1>6
    <3> HIDE DEF e, InRound
    <3>2. SumFunction(e) \in Int
      BY <3>1, SumIsInt
    <3> QED BY <3>2 DEF e
  <2>2. \A x \in R : g[x] = f[b[x]] /\ b[x] \in rounds
    <3>1. \A x \in R : b[x] \in rounds /\ b[x].difference = g[x]
      <4> HIDE DEF Rec, R, InRound, Difference
      <4> QED BY <1>7
    <3> HIDE DEF b, rounds, R, g
    <3> QED BY <3>1
  <2>3. f \in [rounds -> Int]
    <3>1. \A y \in rounds : f[y] \in Int
      <4> HIDE DEF f, g, b, rounds, R
      <4> QED BY <1>8, <2>1, <2>2
    <3> HIDE DEF rounds
    <3> QED BY <3>1
  <2>4. SumFunction(g) = SumFunction(f)
    <3> HIDE DEF f, g, b, rounds, R
    <3> QED BY <1>5, <1>8, <1>9, <2>1, <2>2, <2>3, SumBijection
  <2>5. \A r \in R : g[r] = SumWhere(d, c, r)
    <3> SUFFICES ASSUME NEW r \in R PROVE g[r] = SumFunction([k \in {j \in keys : c[j] = r} |-> d[k]])
      <4>1. DOMAIN c = keys
        OBVIOUS
      <4> HIDE DEF c, d, g, R, keys
      <4> QED BY <4>1, Zenon DEF SumWhere
    <3>1. {j \in keys : c[j] = r} = InRound(r)
      <4> HIDE DEF keys
      <4> QED OBVIOUS
    <3>2. [k \in InRound(r) |-> d[k]] = [k \in InRound(r) |-> Difference(k)]
      <4> HIDE DEF keys, Difference
      <4> QED OBVIOUS
    <3>4. g[r] = SumFunction([k \in InRound(r) |-> Difference(k)])
      <4> HIDE DEF InRound, R, Difference
      <4> QED OBVIOUS
    <3> HIDE DEF g, d, c, InRound, R, Difference
    <3> QED BY <3>1, <3>2, <3>4
  <2>6. d \in [keys -> Int]
    <3> HIDE DEF keys, rows
    <3> QED BY <1>10
  <2>7. SumFunction(g) = SumFunction(d)
    <3> HIDE DEF g, d, c, R, keys, f, m, p, b, rounds, walked
    <3>1. IsFiniteSet(keys)
      BY <1>3
    <3> QED BY <1>4, <2>1, <2>5, <2>6, <3>1, SumOfParts
  <2>8. IsFiniteSet(walked)
    <3>1. walked \subseteq MemGames(mem.teams, s, id)
      OBVIOUS
    <3> HIDE DEF walked
    <3> QED BY <3>1, WalkedFinite, FS_Subset
  <2>9. /\ m \in [walked -> Int] /\ p \in [walked -> keys]
        /\ \A x \in walked : m[x] = d[p[x]]
    <3>1. \A x \in walked : <<x, id>> \in keys /\ Margin(x) = Difference(<<x, id>>)
      <4> HIDE DEF keys, rows, walked
      <4> QED BY <1>2
    <3>2. \A x \in walked : d[<<x, id>>] = Margin(x) /\ d[<<x, id>>] \in Int
      <4> HIDE DEF keys, walked, Margin, Difference
      <4> QED BY <2>6, <3>1
    <3> HIDE DEF keys, walked, Margin, Difference, d
    <3> QED BY <3>1, <3>2
  <2>10. /\ \A x, y \in walked : p[x] = p[y] => x = y
         /\ \A y \in keys : \E x \in walked : p[x] = y
    <3>1. \A y \in keys : y[1] \in walked /\ y = <<y[1], id>>
      BY <1>2
    <3> HIDE DEF keys, walked
    <3> QED BY <3>1
  <2>11. SumFunction(m) = SumFunction(d)
    <3> HIDE DEF m, p, d, keys, walked
    <3> QED BY <1>3, <2>6, <2>8, <2>9, <2>10, SumBijection
  <2> HIDE DEF f, g, d, m
  <2>12. SumFunction(f) = SumFunction(m)
    BY <2>4, <2>7, <2>11
  <2> QED BY <2>12 DEF f, m
<1>13. drawn <=> \E g \in walked : Margin(g) = 0
  <2>1. \A g \in walked : <<g, id>> \in keys /\ Difference(<<g, id>>) = Margin(g)
    <3> HIDE DEF keys, rows, walked
    <3> QED BY <1>2
  <2>2. \A k \in keys : k[1] \in walked /\ k = <<k[1], id>>
    BY <1>2
  <2> HIDE DEF keys, walked, Difference, Margin
  <2> QED BY <2>1, <2>2
<1> DEFINE answer == TeamRounds(rows, s, id)
<1>14. answer.refused = drawn /\ (~drawn => answer.rounds = rounds)
  <2> HIDE DEF drawn, rounds
  <2> QED BY <1>1
<1> HIDE DEF rows, walked, rounds, drawn, Margin, answer
<1>15. /\ answer.refused <=> \E g \in walked : Margin(g) = 0
       /\ ~answer.refused =>
             /\ SumFunction([r \in answer.rounds |-> r.games]) = Cardinality(walked)
             /\ SumFunction([r \in answer.rounds |-> r.difference])
                  = SumFunction([g \in walked |-> Margin(g)])
  BY <1>11, <1>12, <1>13, <1>14
<1> QED BY <1>15 DEF answer, rows, walked, Margin

-----------------------------------------------------------------------------
\* Tables and rounds agree

\* A season that has begun has a name, and the tables of its stores hold what the
\* buckets do.
LEMMA BegunSeason ==
  ASSUME NEW s \in Begun
  PROVE  s \in STRING \ {"none"}
BY StatisticsAssumption DEF Begun

\* The rows of both engines, projected.
LEMMA StoredRows ==
  ASSUME StatisticsInv
  PROVE  /\ sql.sqlite.teams = Projection(mem.teams) /\ sql.pg.teams = Projection(mem.teams)
         /\ sql.sqlite.players = Projection(mem.players) /\ sql.pg.players = Projection(mem.players)
BY DEF StatisticsInv, RowsShaped

\* The teams a player has played for, by the rows and by the buckets.
LEMMA SameTeamsOf ==
  ASSUME StatisticsInv, NEW s \in STRING \ {"none"}, NEW p
  PROVE  TeamsOf(Projection(mem.players), s, p)
           = {mem.players[g][p].team : g \in MemGames(mem.players, s, p)}
<1> DEFINE rows == Projection(mem.players)
           keys == Keys(rows, s, p)
           walked == MemGames(mem.players, s, p)
<1>1. /\ \A g \in walked : <<g, p>> \in keys /\ rows[<<g, p>>].line = mem.players[g][p]
      /\ \A k \in keys : k = <<k[1], p>> /\ k[1] \in walked
  BY BothBucketed, KeysWalked
<1> HIDE DEF rows, keys, walked
<1>2. {rows[k].line.team : k \in keys} = {mem.players[g][p].team : g \in walked}
  <2>1. \A k \in keys : k[1] \in walked /\ rows[k].line.team = mem.players[k[1]][p].team
    BY <1>1
  <2>2. \A g \in walked : <<g, p>> \in keys
                          /\ rows[<<g, p>>].line.team = mem.players[g][p].team
    BY <1>1
  <2>3. ASSUME NEW t \in {rows[k].line.team : k \in keys}
        PROVE  t \in {mem.players[g][p].team : g \in walked}
    BY <2>1
  <2>4. ASSUME NEW t \in {mem.players[g][p].team : g \in walked}
        PROVE  t \in {rows[k].line.team : k \in keys}
    <3>1. PICK g \in walked : t = mem.players[g][p].team
      OBVIOUS
    <3>2. <<g, p>> \in keys /\ t = rows[<<g, p>>].line.team
      BY <2>2, <3>1
    <3> QED BY <3>2
  <2> QED BY <2>3, <2>4
<1> QED BY <1>2 DEF TeamsOf, rows, keys, walked

\* The first team of a player is one of his.
LEMMA FirstTeam ==
  ASSUME StatisticsInv, NEW s, NEW p \in MemIds(mem.players, s)
  PROVE  LET S == {mem.players[g][p].team : g \in MemGames(mem.players, s, p)}
         IN  Min(S) \in S /\ S \subseteq Nat
<1> DEFINE S == {mem.players[g][p].team : g \in MemGames(mem.players, s, p)}
<1>1. S \subseteq Nat
  BY HeldLines DEF MemGames, PlayerLine
<1>2. S # {}
  BY DEF MemIds, MemGames
<1> HIDE DEF S
<1>3. PICK x \in S : \A y \in S : x <= y
  BY <1>1, <1>2, HasLeast
<1>4. Min(S) \in S
  BY <1>3 DEF Min
<1> QED BY <1>1, <1>4 DEF S

\* The rounds of the teams of a season add up to their totals.
LEMMA RoundsAlwaysAddUp == StatisticsInv => RoundsAddUp
<1> SUFFICES ASSUME StatisticsInv, NEW s \in Begun
    PROVE  /\ \A id \in MemIds(mem.teams, s) :
                LET answer == SqliteTeamRounds(s, id)
                    numbered == {g \in MemGames(mem.teams, s, id) : Fixture[g].round # 0}
                    Margin(g) == mem.teams[g][id].points_for - mem.teams[g][id].points_against
                IN  /\ answer = PgTeamRounds(s, id)
                    /\ answer.refused <=> \E g \in numbered : Margin(g) = 0
                    /\ ~answer.refused =>
                         /\ SumFunction([r \in answer.rounds |-> r.games]) = Cardinality(numbered)
                         /\ SumFunction([r \in answer.rounds |-> r.difference])
                              = SumFunction([g \in numbered |-> Margin(g)])
           /\ PgPlayerTeams(sql.pg.players, s) = MemPlayerTeams(s)
           /\ MemPlayerTeams(s) \in SqlitePlayerTeams(sql.sqlite.players, s)
  BY Zenon DEF RoundsAddUp
<1>0. s \in STRING \ {"none"}
  BY BegunSeason
<1>1. ASSUME NEW id
      PROVE  LET answer == SqliteTeamRounds(s, id)
                 numbered == {g \in MemGames(mem.teams, s, id) : Fixture[g].round # 0}
                 Margin(g) == mem.teams[g][id].points_for - mem.teams[g][id].points_against
             IN  /\ answer = PgTeamRounds(s, id)
                 /\ answer.refused <=> \E g \in numbered : Margin(g) = 0
                 /\ ~answer.refused =>
                      /\ SumFunction([r \in answer.rounds |-> r.games]) = Cardinality(numbered)
                      /\ SumFunction([r \in answer.rounds |-> r.difference])
                           = SumFunction([g \in numbered |-> Margin(g)])
  <2>1. /\ SqliteTeamRounds(s, id) = TeamRounds(Projection(mem.teams), s, id)
        /\ PgTeamRounds(s, id) = TeamRounds(Projection(mem.teams), s, id)
    BY StoredRows DEF SqliteTeamRounds, PgTeamRounds
  <2> QED BY <1>0, <2>1, TeamRoundsAddUp
<1> DEFINE rows == Projection(mem.players)
           Walked(p) == {mem.players[g][p].team : g \in MemGames(mem.players, s, p)}
<1>2. Ids(rows, s) = MemIds(mem.players, s) /\ sql.pg.players = rows /\ sql.sqlite.players = rows
  BY <1>0, StoredRows, BothBucketed, SameIds
<1>3. \A p : TeamsOf(rows, s, p) = Walked(p)
  BY <1>0, SameTeamsOf
<1>4. MemPlayerTeams(s) = [p \in MemIds(mem.players, s) |-> Min(Walked(p))]
  BY DEF MemPlayerTeams
<1>5. \A p \in MemIds(mem.players, s) : Min(Walked(p)) \in Walked(p) /\ Walked(p) \subseteq Nat
  BY FirstTeam
<1> HIDE DEF rows, Walked
<1>6. PgPlayerTeams(sql.pg.players, s) = MemPlayerTeams(s)
  BY <1>2, <1>3, <1>4 DEF PgPlayerTeams
<1>7. MemPlayerTeams(s) \in SqlitePlayerTeams(sql.sqlite.players, s)
  BY <1>2, <1>3, <1>4, <1>5 DEF SqlitePlayerTeams
<1> QED BY <1>1, <1>6, <1>7

\* The tables, metrics and leaderboards of the three stores.
LEMMA TablesAlwaysAgree == StatisticsInv => TablesAgree
<1> SUFFICES ASSUME StatisticsInv, NEW s \in Begun, NEW limit \in Limits
    PROVE
        /\ SqlitePlayerTable(s, limit) = MemPlayerTable(s, limit)
        /\ PgPlayerTable(s, limit) = MemPlayerTable(s, limit)
        /\ SqlitePlayerMetrics(s, limit) = MemPlayerMetrics(s, limit)
        /\ PgPlayerMetrics(s, limit) = MemPlayerMetrics(s, limit)
        /\ \A metric \in PlayerMetrics :
            LET ranked == RankPlayers(MemPlayerTotals(s), metric, limit)
            IN  /\ SqlitePlayerLeaderboard(s, metric, limit) = ranked
                /\ PgPlayerLeaderboard(s, metric, limit) = ranked
        /\ ~Tied(s) =>
            /\ SqliteTeamTable(s, limit) = MemTeamTable(s, limit)
            /\ PgTeamTable(s, limit) = MemTeamTable(s, limit)
            /\ SqliteTeamMetrics(s, limit) = MemTeamMetrics(s, limit)
            /\ PgTeamMetrics(s, limit) = MemTeamMetrics(s, limit)
            /\ \A metric \in TeamMetrics :
                LET ranked == RankTeams(MemTeamTotals(s), metric, limit)
                IN  /\ SqliteTeamLeaderboard(s, metric, limit) = ranked
                    /\ PgTeamLeaderboard(s, metric, limit) = ranked
  BY RoundsAlwaysAddUp, Zenon DEF TablesAgree
<1>0. s \in STRING \ {"none"}
  BY BegunSeason
<1>1. /\ SqlPlayerTotals(sql.sqlite.players, s) = MemPlayerTotals(s)
      /\ SqlPlayerTotals(sql.pg.players, s) = MemPlayerTotals(s)
  BY <1>0, StoredRows, SamePlayerTotals
<1>2. SqlitePlayerTable(s, limit) = MemPlayerTable(s, limit)
      /\ PgPlayerTable(s, limit) = MemPlayerTable(s, limit)
  BY <1>1 DEF SqlitePlayerTable, PgPlayerTable, MemPlayerTable
<1>3. SqlitePlayerMetrics(s, limit) = MemPlayerMetrics(s, limit)
      /\ PgPlayerMetrics(s, limit) = MemPlayerMetrics(s, limit)
  BY <1>2 DEF SqlitePlayerMetrics, PgPlayerMetrics, MemPlayerMetrics
<1>4. ASSUME NEW metric \in PlayerMetrics
      PROVE  /\ SqlitePlayerLeaderboard(s, metric, limit) = RankPlayers(MemPlayerTotals(s), metric, limit)
             /\ PgPlayerLeaderboard(s, metric, limit) = RankPlayers(MemPlayerTotals(s), metric, limit)
  <2> DEFINE T == MemPlayerTotals(s)
  <2>1. FirstOf(Arranged(T, OrderedBy(T, PlayerOrder(metric))), limit) = RankPlayers(T, metric, limit)
    BY PlayerTotalsShaped, SamePlayerOrder
  <2> HIDE DEF T
  <2>2. SqlPlayerTotals(sql.sqlite.players, s) = T /\ SqlPlayerTotals(sql.pg.players, s) = T
    BY <1>1 DEF T
  <2>3. /\ SqlitePlayerLeaderboard(s, metric, limit) = RankPlayers(T, metric, limit)
        /\ PgPlayerLeaderboard(s, metric, limit) = RankPlayers(T, metric, limit)
    BY <2>1, <2>2 DEF SqlitePlayerLeaderboard, PgPlayerLeaderboard, SqlPlayerLeaderboard
  <2> QED BY <2>3 DEF T
<1>5. ASSUME ~Tied(s)
      PROVE
            /\ SqliteTeamTable(s, limit) = MemTeamTable(s, limit)
            /\ PgTeamTable(s, limit) = MemTeamTable(s, limit)
            /\ SqliteTeamMetrics(s, limit) = MemTeamMetrics(s, limit)
            /\ PgTeamMetrics(s, limit) = MemTeamMetrics(s, limit)
            /\ \A metric \in TeamMetrics :
                  /\ SqliteTeamLeaderboard(s, metric, limit) = RankTeams(MemTeamTotals(s), metric, limit)
                  /\ PgTeamLeaderboard(s, metric, limit) = RankTeams(MemTeamTotals(s), metric, limit)
  <2> DEFINE T == MemTeamTotals(s)
  <2>1. SqlTeamTotals(sql.sqlite.teams, s) = T /\ SqlTeamTotals(sql.pg.teams, s) = T
    BY <1>0, <1>5, StoredRows, SameTeamTotals
  <2>2. T \subseteq TeamTotalSet /\ \A t \in T : t.wins + t.losses = t.games
    BY TeamTotalsShaped
  <2>3. \A metric \in TeamMetrics :
          FirstOf(Arranged(T, OrderedBy(T, TeamOrder(metric))), limit) = RankTeams(T, metric, limit)
    <3> HIDE DEF T
    <3> QED BY <2>2, SameTeamOrder
  <2>4. MemTeamTable(s, limit) = TeamTable(T, limit) /\ SqliteTeamTable(s, limit) = TeamTable(T, limit)
        /\ PgTeamTable(s, limit) = TeamTable(T, limit)
    BY <2>1 DEF MemTeamTable, SqliteTeamTable, PgTeamTable
  <2> HIDE DEF T
  <2>5. TeamTable(T, limit) = InIdOrder(T, limit)
    BY <2>2 DEF TeamTable
  <2>6. SqliteTeamMetrics(s, limit) = MemTeamMetrics(s, limit)
        /\ PgTeamMetrics(s, limit) = MemTeamMetrics(s, limit)
    BY <2>1, <2>4, <2>5 DEF SqliteTeamMetrics, PgTeamMetrics, MemTeamMetrics
  <2>7. ASSUME NEW metric \in TeamMetrics
        PROVE  /\ SqliteTeamLeaderboard(s, metric, limit) = RankTeams(T, metric, limit)
               /\ PgTeamLeaderboard(s, metric, limit) = RankTeams(T, metric, limit)
    BY <2>1, <2>3 DEF SqliteTeamLeaderboard, PgTeamLeaderboard, SqlTeamLeaderboard
  <2>8. \A metric \in TeamMetrics :
          /\ SqliteTeamLeaderboard(s, metric, limit) = RankTeams(MemTeamTotals(s), metric, limit)
          /\ PgTeamLeaderboard(s, metric, limit) = RankTeams(MemTeamTotals(s), metric, limit)
    BY <2>7 DEF T
  <2> QED BY <2>4, <2>6, <2>8
<1>6. \A metric \in PlayerMetrics :
        LET ranked == RankPlayers(MemPlayerTotals(s), metric, limit)
        IN  /\ SqlitePlayerLeaderboard(s, metric, limit) = ranked
            /\ PgPlayerLeaderboard(s, metric, limit) = ranked
  BY <1>4, Zenon
<1> QED BY <1>2, <1>3, <1>6, <1>5, Zenon

-----------------------------------------------------------------------------
\* Strict orders arrange everything

\* A strict order of all of T
StrictOrder(T, R) ==
    /\ \A a \in T : <<a, a>> \notin R
    /\ \A a, b, c \in T : <<a, b>> \in R /\ <<b, c>> \in R => <<a, c>> \in R
    /\ \A a, b \in T : a = b \/ <<a, b>> \in R \/ <<b, a>> \in R

\* A finite set in a strict order is arranged without loss.
LEMMA ArrangedAll ==
  ASSUME NEW T, IsFiniteSet(T), NEW R, StrictOrder(T, R)
  PROVE  /\ \A i \in 1..Cardinality(T) : Arranged(T, R)[i] \in T
         /\ \A a \in T : \E i \in 1..Cardinality(T) : Arranged(T, R)[i] = a
<1> DEFINE n == Cardinality(T)
           Below(a) == {b \in T : <<b, a>> \in R}
           rank == [a \in T |-> Cardinality(Below(a))]
<1>0. n \in Nat /\ \A S \in SUBSET T : IsFiniteSet(S) /\ Cardinality(S) \in Nat
  BY FS_Subset, FS_CardinalityType
<1>1. ASSUME NEW a \in T, NEW S \in SUBSET T, Below(a) \subseteq S, NEW x \in S, x \notin Below(a)
      PROVE  Cardinality(Below(a)) < Cardinality(S)
  <2>1. IsFiniteSet(S) /\ Cardinality(S) \in Nat /\ Cardinality(Below(a)) \in Nat
    BY <1>0
  <2>2. Below(a) \in SUBSET S /\ Below(a) # S
    BY <1>1
  <2> HIDE DEF Below
  <2>3. Cardinality(Below(a)) <= Cardinality(S) /\ Cardinality(Below(a)) # Cardinality(S)
    BY <2>1, <2>2, FS_Subset
  <2> QED BY <2>1, <2>3
<1>2. ASSUME NEW a \in T PROVE rank[a] \in 0..(n - 1)
  <2>1. Below(a) \subseteq T /\ a \notin Below(a)
    BY DEF StrictOrder
  <2>2. Cardinality(Below(a)) < n /\ Cardinality(Below(a)) \in Nat
    <3>1. Below(a) \in SUBSET T /\ T \in SUBSET T
      OBVIOUS
    <3> HIDE DEF Below
    <3> QED BY <1>0, <1>1, <2>1, <3>1
  <2> QED BY <1>0, <2>2
<1>3. ASSUME NEW a \in T, NEW b \in T, <<a, b>> \in R PROVE rank[a] < rank[b]
  <2>1. Below(a) \subseteq Below(b) /\ a \in Below(b) /\ a \notin Below(a) /\ Below(b) \in SUBSET T
    BY <1>3 DEF StrictOrder
  <2>2. Cardinality(Below(a)) < Cardinality(Below(b))
    <3> HIDE DEF Below
    <3> QED BY <1>1, <2>1
  <2> QED BY <2>2
<1>4. \A a, b \in T : rank[a] = rank[b] => a = b
  <2> SUFFICES ASSUME NEW a \in T, NEW b \in T, a # b PROVE rank[a] # rank[b]
    OBVIOUS
  <2>1. <<a, b>> \in R \/ <<b, a>> \in R
    BY DEF StrictOrder
  <2>2. rank[a] \in Int /\ rank[b] \in Int
    BY <1>2
  <2> HIDE DEF rank
  <2> QED BY <1>3, <2>1, <2>2
<1>5. rank \in [T -> 0..(n - 1)]
  <2> HIDE DEF n, Below
  <2> QED BY <1>2
<1>6. rank \in Injection(T, 0..(n - 1))
  <2> HIDE DEF rank
  <2> QED BY <1>4, <1>5, Zenon DEF Injection, IsInjective
<1>7. IsFiniteSet(0..(n - 1)) /\ Cardinality(0..(n - 1)) = n
  <2>1. IsFiniteSet(0..(n - 1)) /\ Cardinality(0..(n - 1)) = IF 0 > n - 1 THEN 0 ELSE (n - 1) - 0 + 1
    BY <1>0, FS_Interval
  <2> QED BY <1>0, <2>1
<1>8. rank \in Surjection(T, 0..(n - 1))
  <2> HIDE DEF rank, n
  <2>1. n = Cardinality(T)
    BY DEF n
  <2> QED BY <1>6, <1>7, <2>1, FS_Injection
<1>9. \A i \in 0..(n - 1) : \E a \in T : rank[a] = i
  <2> HIDE DEF rank, n
  <2> QED BY <1>8, Zenon DEF Surjection
<1>10. ASSUME NEW i \in 1..n
       PROVE  Arranged(T, R)[i] \in T /\ rank[Arranged(T, R)[i]] = i - 1
  <2>1. Arranged(T, R)[i] = CHOOSE a \in T : Cardinality(Below(a)) = i - 1
    BY DEF Arranged
  <2>2. \E a \in T : Cardinality(Below(a)) = i - 1
    <3>1. i - 1 \in 0..(n - 1)
      BY <1>0
    <3>2. PICK a \in T : rank[a] = i - 1
      BY <1>9, <3>1
    <3> QED BY <3>2
  <2> HIDE DEF Below
  <2> QED BY <2>1, <2>2
<1>11. ASSUME NEW a \in T PROVE \E i \in 1..n : Arranged(T, R)[i] = a
  <2>1. rank[a] \in 0..(n - 1)
    BY <1>2
  <2>2. rank[a] + 1 \in 1..n /\ (rank[a] + 1) - 1 = rank[a]
    BY <1>0, <2>1
  <2> HIDE DEF rank, n
  <2>3. Arranged(T, R)[rank[a] + 1] \in T /\ rank[Arranged(T, R)[rank[a] + 1]] = rank[a]
    BY <1>10, <2>2
  <2> QED BY <1>4, <2>2, <2>3
<1> QED BY <1>10, <1>11

\* No limit that leaves room for everything cuts anything off.
LEMMA NothingCut ==
  ASSUME NEW T, IsFiniteSet(T), NEW R, NEW limit \in Nat, Cardinality(T) <= limit
  PROVE  FirstOf(Arranged(T, R), limit) = Arranged(T, R)
<1> DEFINE n == Cardinality(T)
           seq == Arranged(T, R)
<1>1. n \in Nat
  BY FS_CardinalityType
<1>2. DOMAIN seq = 1..n /\ seq = [i \in 1..n |-> seq[i]]
  <2> DEFINE At(i) == CHOOSE a \in T : Cardinality({b \in T : <<b, a>> \in R}) = i - 1
  <2>1. seq = [i \in 1..n |-> At(i)]
    BY Zenon DEF Arranged
  <2> HIDE DEF seq, At, n
  <2> QED BY <2>1
<1> HIDE DEF seq
<1>3. seq \in Seq({seq[i] : i \in 1..n})
  <2> DEFINE S == {seq[i] : i \in 1..n}
  <2>1. \A i \in 1..n : seq[i] \in S
    OBVIOUS
  <2> HIDE DEF n, S
  <2>2. seq \in Seq(S)
    BY <1>1, <1>2, <2>1
  <2> QED BY <2>2 DEF S
<1>4. Len(seq) = n
  <2> HIDE DEF n
  <2> QED BY <1>1, <1>2, <1>3
<1>5. FirstOf(seq, limit) = SubSeq(seq, 1, n)
  BY <1>1, <1>4 DEF FirstOf
<1>6. SubSeq(seq, 1, n) = seq
  <2> HIDE DEF n
  <2> QED BY <1>1, <1>3, <1>4
<1> QED BY <1>5, <1>6 DEF seq

\* So a reader who asks for enough sees everything.
LEMMA EverythingShown ==
  ASSUME NEW T, IsFiniteSet(T), NEW R, StrictOrder(T, R), NEW limit \in Nat, Cardinality(T) <= limit
  PROVE  Range(FirstOf(Arranged(T, R), limit)) = T
<1>1. FirstOf(Arranged(T, R), limit) = Arranged(T, R)
  BY NothingCut
<1>2. DOMAIN Arranged(T, R) = 1..Cardinality(T)
  BY DEF Arranged
<1>3. /\ \A i \in 1..Cardinality(T) : Arranged(T, R)[i] \in T
      /\ \A a \in T : \E i \in 1..Cardinality(T) : Arranged(T, R)[i] = a
  BY ArrangedAll
<1>4. Range(Arranged(T, R)) = T
  BY <1>2, <1>3 DEF Range
<1> QED BY <1>1, <1>4

-----------------------------------------------------------------------------
\* Confirmed seasons

\* A finalized match whose score is what both team lines say
ConfirmedGame(g) ==
    /\ games[g].status = "FINALIZED" /\ games[g].score[1] # games[g].score[2]
    /\ \A side \in Sides :
         LET line == mem.teams[g][Fixture[g][side]]
             own  == IF side = "home" THEN 1 ELSE 2
         IN  line.points_for = games[g].score[own]
             /\ line.points_against = games[g].score[3 - own]

\* A season whose statistics are all of such matches
SeasonConfirmed(s) == \A g \in {h \in Games : mem.season[h] = s} : ConfirmedGame(g)

\* Then the finalized matches are the recorded ones, and each has both its lines.
LEMMA ConfirmedMatches ==
  ASSUME StatisticsInv, NEW s \in STRING \ {"none"}, SeasonConfirmed(s)
  PROVE  /\ Finalized(s) = {g \in Games : mem.season[g] = s}
         /\ \A g \in Finalized(s) :
              LET home == Fixture[g].home
                  away == Fixture[g].away
              IN  /\ home # away /\ DOMAIN mem.teams[g] = {home, away}
                  /\ games[g].score[1] \in Nat /\ games[g].score[2] \in Nat
                  /\ games[g].score[1] # games[g].score[2]
                  /\ mem.teams[g][home].points_for = games[g].score[1]
                  /\ mem.teams[g][home].points_against = games[g].score[2]
                  /\ mem.teams[g][away].points_for = games[g].score[2]
                  /\ mem.teams[g][away].points_against = games[g].score[1]
<1>1. ASSUME NEW g \in Games, games[g].status = "FINALIZED"
      PROVE  /\ Fixture[g].home # Fixture[g].away
             /\ DOMAIN mem.teams[g] = {Fixture[g].home, Fixture[g].away}
             /\ games[g].score[1] \in Nat /\ games[g].score[2] \in Nat
             /\ mem.season[g] = Fixture[g].season
  <2> DEFINE Two == {Fixture[g].home, Fixture[g].away}
  <2>1. Fixture[g].home # Fixture[g].away /\ Finals \subseteq Nat \X Nat
    BY StatisticsAssumption
  <2>2. games[g].score \in Finals /\ Cardinality(DOMAIN games[g].sides) = 2
        /\ DOMAIN games[g].sides \subseteq Two
    BY <1>1 DEF StatisticsInv, MatchesShaped, LinesFor
  <2>3. IsFiniteSet(Two) /\ Cardinality(Two) = 2
    BY <2>1, TwoOf
  <2>4. DOMAIN games[g].sides = Two
    BY <2>2, <2>3, FS_Subset
  <2>5. DOMAIN mem.teams[g] = Two
    BY <2>4 DEF StatisticsInv, BucketsShaped
  <2>6. mem.season[g] = Fixture[g].season
    BY <2>5 DEF StatisticsInv, BucketsShaped
  <2> QED BY <2>1, <2>2, <2>5, <2>6
<1>2. ASSUME NEW g \in Games PROVE g \in Finalized(s) <=> mem.season[g] = s
  <2>1. CASE mem.season[g] = s
    <3>1. games[g].status = "FINALIZED"
      BY <2>1 DEF SeasonConfirmed, ConfirmedGame
    <3> QED BY <1>1, <2>1, <3>1 DEF Finalized
  <2>2. CASE g \in Finalized(s)
    BY <1>1, <2>2 DEF Finalized
  <2> QED BY <2>1, <2>2
<1>3. Finalized(s) = {g \in Games : mem.season[g] = s}
  BY <1>2 DEF Finalized
<1>4. ASSUME NEW g \in Finalized(s)
      PROVE  /\ games[g].score[1] # games[g].score[2]
             /\ mem.teams[g][Fixture[g].home].points_for = games[g].score[1]
             /\ mem.teams[g][Fixture[g].home].points_against = games[g].score[2]
             /\ mem.teams[g][Fixture[g].away].points_for = games[g].score[2]
             /\ mem.teams[g][Fixture[g].away].points_against = games[g].score[1]
  <2>1. ConfirmedGame(g)
    BY <1>3 DEF SeasonConfirmed
  <2>2. 3 - 1 = 2 /\ 3 - 2 = 1 /\ "home" \in Sides /\ "away" \in Sides /\ "away" # "home"
    BY DEF Sides
  <2> QED BY <2>1, <2>2 DEF ConfirmedGame
<1>5. \A g \in Finalized(s) : g \in Games /\ games[g].status = "FINALIZED"
  BY DEF Finalized
<1> QED BY <1>1, <1>3, <1>4, <1>5

\* No row of such a season is drawn.
LEMMA ConfirmedNotTied ==
  ASSUME StatisticsInv, NEW s \in STRING \ {"none"}, SeasonConfirmed(s)
  PROVE  ~Tied(s)
<1> SUFFICES ASSUME NEW k \in DOMAIN sql.sqlite.teams, sql.sqlite.teams[k].season = s
             PROVE  sql.sqlite.teams[k].line.points_for # sql.sqlite.teams[k].line.points_against
  BY DEF Tied
<1> DEFINE rows == Projection(mem.teams)
           id == k[2]
<1>1. sql.sqlite.teams = rows
  BY StoredRows
<1>2. k \in Keys(rows, s, id)
  BY <1>1 DEF Keys
<1>3. /\ k = <<k[1], id>> /\ k[1] \in MemGames(mem.teams, s, id)
      /\ rows[<<k[1], id>>].line = mem.teams[k[1]][id]
  <2> HIDE DEF id
  <2>1. k = <<k[1], id>> /\ k[1] \in MemGames(mem.teams, s, id)
    BY <1>2, BothBucketed, KeysWalked
  <2> QED BY <2>1, BothBucketed, KeysWalked
<1>4. rows[k].line = mem.teams[k[1]][id]
  BY <1>3
<1>5. k[1] \in Finalized(s) /\ id \in DOMAIN mem.teams[k[1]]
  BY <1>3, ConfirmedMatches DEF MemGames
<1>6. mem.teams[k[1]][id].points_for # mem.teams[k[1]][id].points_against
  <2> HIDE DEF id
  <2> QED BY <1>5, ConfirmedMatches
<1> QED BY <1>1, <1>4, <1>6

\* And the standing counts what the buckets hold.
LEMMA StandingIsTable ==
  ASSUME StatisticsInv, NEW s \in STRING \ {"none"}, SeasonConfirmed(s)
  PROVE  StandingTotals(s) = MemTeamTotals(s)
<1> DEFINE Home(t) == {g \in Finalized(s) : Fixture[g].home = t}
           Away(t) == {g \in Finalized(s) : Fixture[g].away = t}
           Won(t) == {g \in Home(t) : HomeWins(g)} \cup {g \in Away(t) : ~HomeWins(g)}
           Own(t, g) == games[g].score[IF g \in Home(t) THEN 1 ELSE 2]
           Other(t, g) == games[g].score[IF g \in Home(t) THEN 2 ELSE 1]
           Counted(t) == TeamTotal(t, Cardinality(Home(t) \cup Away(t)), Cardinality(Won(t)),
                            Cardinality((Home(t) \cup Away(t)) \ Won(t)),
                            SumFunction([g \in Home(t) \cup Away(t) |-> Own(t, g)]),
                            SumFunction([g \in Home(t) \cup Away(t) |-> Other(t, g)]))
           Walked(t) == MemGames(mem.teams, s, t)
           Lines(t) == [g \in Walked(t) |-> mem.teams[g][t]]
           Wins(t) == {g \in Walked(t) : Lines(t)[g].points_for > Lines(t)[g].points_against}
           Held(t) == TeamTotal(t, Cardinality(Walked(t)), Cardinality(Wins(t)),
                         Cardinality(Walked(t) \ Wins(t)),
                         Total(Lines(t), "points_for"), Total(Lines(t), "points_against"))
           Playing == {Fixture[g][side] : g \in Finalized(s), side \in Sides}
<1>1. StandingTotals(s) = {Counted(t) : t \in Playing}
  BY DEF StandingTotals
<1>2. MemTeamTotals(s) = {Held(t) : t \in MemIds(mem.teams, s)}
  BY Zenon DEF MemTeamTotals
<1>3. /\ Finalized(s) = {g \in Games : mem.season[g] = s}
      /\ \A g \in Finalized(s) :
              /\ Fixture[g].home # Fixture[g].away
              /\ DOMAIN mem.teams[g] = {Fixture[g].home, Fixture[g].away}
              /\ games[g].score[1] \in Nat /\ games[g].score[2] \in Nat
              /\ games[g].score[1] # games[g].score[2]
              /\ mem.teams[g][Fixture[g].home].points_for = games[g].score[1]
              /\ mem.teams[g][Fixture[g].home].points_against = games[g].score[2]
              /\ mem.teams[g][Fixture[g].away].points_for = games[g].score[2]
              /\ mem.teams[g][Fixture[g].away].points_against = games[g].score[1]
  BY ConfirmedMatches
<1>4. Playing = MemIds(mem.teams, s)
  <2>1. MemIds(mem.teams, s) = UNION {DOMAIN mem.teams[g] : g \in Finalized(s)}
    BY <1>3 DEF MemIds
  <2>2. ASSUME NEW t \in Playing PROVE t \in MemIds(mem.teams, s)
    <3>1. PICK g \in Finalized(s), side \in Sides : t = Fixture[g][side]
      OBVIOUS
    <3>2. t \in DOMAIN mem.teams[g]
      BY <1>3, <3>1 DEF Sides
    <3> QED BY <2>1, <3>2
  <2>3. ASSUME NEW t \in MemIds(mem.teams, s) PROVE t \in Playing
    <3>1. PICK g \in Finalized(s) : t \in DOMAIN mem.teams[g]
      BY <2>1
    <3>2. t = Fixture[g].home \/ t = Fixture[g].away
      BY <1>3, <3>1
    <3>3. "home" \in Sides /\ "away" \in Sides
      BY DEF Sides
    <3> QED BY <3>2, <3>3
  <2> QED BY <2>2, <2>3
<1>5. ASSUME NEW t PROVE Counted(t) = Held(t)
  <2>1. Home(t) \cup Away(t) = Walked(t)
    <3>1. ASSUME NEW g \in Games PROVE g \in Home(t) \cup Away(t) <=> g \in Walked(t)
      <4>1. g \in Walked(t) <=> g \in Finalized(s) /\ t \in DOMAIN mem.teams[g]
        BY <1>3 DEF MemGames
      <4> QED BY <1>3, <4>1
    <3>2. Home(t) \subseteq Games /\ Away(t) \subseteq Games /\ Walked(t) \subseteq Games
      BY DEF Finalized, MemGames
    <3> HIDE DEF Home, Away, Walked
    <3> QED BY <3>1, <3>2
  <2>2. ASSUME NEW g \in Walked(t)
        PROVE  /\ g \in Home(t) <=> g \notin Away(t)
               /\ Lines(t)[g].points_for = Own(t, g)
               /\ Lines(t)[g].points_against = Other(t, g)
               /\ Own(t, g) \in Int /\ Other(t, g) \in Int
               /\ g \in Won(t) <=> Own(t, g) > Other(t, g)
    <3>0. g \in Home(t) \cup Away(t)
      BY <2>1
    <3>1. g \in Finalized(s)
      BY <3>0
    <3>2. Lines(t)[g] = mem.teams[g][t]
      OBVIOUS
    <3>3. CASE g \in Home(t)
      <4>1. Fixture[g].home = t /\ Fixture[g].away # t /\ g \notin Away(t)
        BY <1>3, <3>1, <3>3
      <4>2. Own(t, g) = games[g].score[1] /\ Other(t, g) = games[g].score[2]
        BY <3>3
      <4>3. g \in Won(t) <=> games[g].score[1] > games[g].score[2]
        BY <3>3, <4>1 DEF HomeWins
      <4> HIDE DEF Home, Away, Won, Own, Other, Lines
      <4> QED BY <1>3, <3>1, <3>2, <3>3, <4>1, <4>2, <4>3
    <3>4. CASE g \notin Home(t)
      <4>1. Fixture[g].away = t /\ g \in Away(t)
        BY <3>0, <3>4
      <4>2. Own(t, g) = games[g].score[2] /\ Other(t, g) = games[g].score[1]
        BY <3>4
      <4>3. g \in Won(t) <=> ~(games[g].score[1] > games[g].score[2])
        BY <3>4, <4>1 DEF HomeWins
      <4> HIDE DEF Home, Away, Won, Own, Other, Lines
      <4> QED BY <1>3, <3>1, <3>2, <3>4, <4>1, <4>2, <4>3
    <3> QED BY <3>3, <3>4
  <2>3. Won(t) \subseteq Walked(t)
    <3>1. Won(t) \subseteq Home(t) \cup Away(t)
      OBVIOUS
    <3> HIDE DEF Won, Home, Away, Walked
    <3> QED BY <2>1, <3>1
  <2> HIDE DEF Home, Away, Walked, Won, Own, Other
  <2>4. Won(t) = Wins(t)
    <3>1. \A g \in Walked(t) : g \in Won(t) <=> Lines(t)[g].points_for > Lines(t)[g].points_against
      BY <2>2
    <3> HIDE DEF Lines
    <3> QED BY <2>3, <3>1
  <2>5. /\ Total(Lines(t), "points_for") = SumFunction([g \in Walked(t) |-> Own(t, g)])
        /\ Total(Lines(t), "points_against") = SumFunction([g \in Walked(t) |-> Other(t, g)])
    <3>1. DOMAIN Lines(t) = Walked(t)
      OBVIOUS
    <3>2. \A g \in Walked(t) : Lines(t)[g]["points_for"] = Own(t, g)
                               /\ Lines(t)[g]["points_against"] = Other(t, g)
      BY <2>2
    <3> HIDE DEF Lines
    <3>3. [g \in DOMAIN Lines(t) |-> Lines(t)[g]["points_for"]] = [g \in Walked(t) |-> Own(t, g)]
      BY <3>1, <3>2
    <3>4. [g \in DOMAIN Lines(t) |-> Lines(t)[g]["points_against"]] = [g \in Walked(t) |-> Other(t, g)]
      BY <3>1, <3>2
    <3> QED BY <3>3, <3>4 DEF Total
  <2> HIDE DEF Lines, Wins
  <2> QED BY <2>1, <2>4, <2>5
<1> HIDE DEF Counted, Held, Playing
<1>6. {Counted(t) : t \in Playing} = {Held(t) : t \in MemIds(mem.teams, s)}
  BY <1>4, <1>5
<1> QED BY <1>1, <1>2, <1>6

-----------------------------------------------------------------------------
\* Standing and classification

\* There are finitely many teams.
LEMMA FiniteTeams == IsFiniteSet(Teams) /\ Cardinality(Teams) \in Nat
<1> DEFINE H == {Fixture[g].home : g \in Games}
           A == {Fixture[g].away : g \in Games}
           h == [g \in Games |-> Fixture[g].home]
           a == [g \in Games |-> Fixture[g].away]
<1>0. IsFiniteSet(Games)
  BY StatisticsAssumption
<1>1. h \in [Games -> H] /\ (\A r \in H : \E g \in Games : h[g] = r)
  OBVIOUS
<1>2. a \in [Games -> A] /\ (\A r \in A : \E g \in Games : a[g] = r)
  OBVIOUS
<1>3. IsFiniteSet(H)
  <2> HIDE DEF H, h
  <2> QED BY <1>0, <1>1, FewerValues
<1>4. IsFiniteSet(A)
  <2> HIDE DEF A, a
  <2> QED BY <1>0, <1>2, FewerValues
<1>5. Teams = H \cup A
  <2>1. ASSUME NEW t \in Teams PROVE t \in H \cup A
    BY DEF Teams, Sides
  <2>2. ASSUME NEW t \in H PROVE t \in Teams
    <3>1. PICK g \in Games : t = Fixture[g]["home"]
      OBVIOUS
    <3> QED BY <3>1 DEF Teams, Sides
  <2>3. ASSUME NEW t \in A PROVE t \in Teams
    <3>1. PICK g \in Games : t = Fixture[g]["away"]
      OBVIOUS
    <3> QED BY <3>1 DEF Teams, Sides
  <2> HIDE DEF H, A
  <2> QED BY <2>1, <2>2, <2>3
<1> HIDE DEF H, A
<1>6. IsFiniteSet(Teams)
  BY <1>3, <1>4, <1>5, FS_Union
<1> QED BY <1>6, FS_CardinalityType

\* A season table has a total for each team, and no more.
LEMMA TotalsPerTeam ==
  ASSUME StatisticsInv, NEW s
  PROVE  IsFiniteSet(MemTeamTotals(s)) /\ Cardinality(MemTeamTotals(s)) \in Nat
         /\ Cardinality(MemTeamTotals(s)) <= Cardinality(Teams)
<1> DEFINE Walked(t) == MemGames(mem.teams, s, t)
           Lines(t) == [g \in Walked(t) |-> mem.teams[g][t]]
           Wins(t) == {g \in Walked(t) : Lines(t)[g].points_for > Lines(t)[g].points_against}
           Held(t) == TeamTotal(t, Cardinality(Walked(t)), Cardinality(Wins(t)),
                         Cardinality(Walked(t) \ Wins(t)),
                         Total(Lines(t), "points_for"), Total(Lines(t), "points_against"))
           K == MemIds(mem.teams, s)
           T == MemTeamTotals(s)
           c == [t \in K |-> Held(t)]
<1>1. T = {Held(t) : t \in K}
  BY Zenon DEF MemTeamTotals
<1>2. K \subseteq Teams
  <2> SUFFICES ASSUME NEW t \in K PROVE t \in Teams
    OBVIOUS
  <2>1. PICK g \in Games : t \in DOMAIN mem.teams[g]
    BY DEF MemIds
  <2>2. t \in {Fixture[g].home, Fixture[g].away}
    BY <2>1 DEF StatisticsInv, BucketsShaped, MatchesShaped, LinesFor
  <2>3. CASE t = Fixture[g]["home"]
    BY <2>3 DEF Teams, Sides
  <2>4. CASE t = Fixture[g]["away"]
    BY <2>4 DEF Teams, Sides
  <2> QED BY <2>2, <2>3, <2>4
<1>3. IsFiniteSet(K) /\ Cardinality(K) <= Cardinality(Teams)
  <2> HIDE DEF K
  <2> QED BY <1>2, FiniteTeams, FS_Subset
<1> HIDE DEF Held, K, T
<1>4. c \in [K -> T] /\ (\A r \in T : \E t \in K : c[t] = r)
  BY <1>1
<1> HIDE DEF c
<1>5. IsFiniteSet(T) /\ Cardinality(T) <= Cardinality(K)
  BY <1>3, <1>4, FewerValues
<1>6. Cardinality(T) \in Nat /\ Cardinality(K) \in Nat
  BY <1>3, <1>5, FS_CardinalityType
<1> QED BY <1>3, <1>5, <1>6, FiniteTeams DEF T

\* Where no two teams are level, and all have played as often, the key of the
\* standing ranks them as the classification does.
LEMMA StandingAlike ==
  ASSUME NEW a \in TeamTotalSet, NEW b \in TeamTotalSet,
         a.wins + a.losses = a.games, b.wins + b.losses = b.games,
         \/ a = b
         \/ a.games = b.games /\ <<a.wins, PointDifference(a)>> # <<b.wins, PointDifference(b)>>
  PROVE  LexLess(StandingKey(a), StandingKey(b)) <=> Precedes(a, b, TeamOrder("classification"))
<1>0. /\ a.id \in Int /\ a.wins \in Nat /\ a.losses \in Nat /\ a.points_for \in Int
      /\ a.games \in Nat /\ PointDifference(a) \in Int
      /\ b.id \in Int /\ b.wins \in Nat /\ b.losses \in Nat /\ b.points_for \in Int
      /\ b.games \in Nat /\ PointDifference(b) \in Int
  BY DEF TeamTotalSet, PointDifference
<1>1. LexLess(StandingKey(a), StandingKey(b))
        <=> \/ -2 * a.wins < -2 * b.wins
            \/ -2 * a.wins = -2 * b.wins /\ -PointDifference(a) < -PointDifference(b)
            \/ /\ -2 * a.wins = -2 * b.wins /\ -PointDifference(a) = -PointDifference(b)
               /\ -a.points_for < -b.points_for
            \/ /\ -2 * a.wins = -2 * b.wins /\ -PointDifference(a) = -PointDifference(b)
               /\ -a.points_for = -b.points_for /\ a.id < b.id
  BY LexFour DEF StandingKey
<1>2. Precedes(a, b, TeamOrder("classification"))
        <=> LexLess(TeamKey(a, "classification"), TeamKey(b, "classification"))
  BY TeamsAlike DEF TeamMetrics
<1>3. LexLess(TeamKey(a, "classification"), TeamKey(b, "classification"))
          <=> \/ -a.wins < -b.wins
              \/ -a.wins = -b.wins /\ a.losses < b.losses
              \/ -a.wins = -b.wins /\ a.losses = b.losses /\ -PointDifference(a) < -PointDifference(b)
              \/ /\ -a.wins = -b.wins /\ a.losses = b.losses
                 /\ -PointDifference(a) = -PointDifference(b) /\ a.id < b.id
  BY LexFour DEF TeamKey
<1>4. CASE a = b
  BY <1>0, <1>1, <1>2, <1>3, <1>4
<1>5. CASE a.games = b.games /\ (a.wins # b.wins \/ PointDifference(a) # PointDifference(b))
  <2>1. a.wins = b.wins => a.losses = b.losses
    BY <1>0, <1>5
  <2>2. /\ -2 * a.wins < -2 * b.wins <=> b.wins < a.wins
        /\ -2 * a.wins = -2 * b.wins <=> a.wins = b.wins
        /\ -a.wins < -b.wins <=> b.wins < a.wins
        /\ -a.wins = -b.wins <=> a.wins = b.wins
        /\ -PointDifference(a) < -PointDifference(b) <=> PointDifference(b) < PointDifference(a)
        /\ -PointDifference(a) = -PointDifference(b) <=> PointDifference(a) = PointDifference(b)
    BY <1>0
  <2>3. CASE a.wins = b.wins
    <3>1. a.losses = b.losses /\ ~(a.losses < b.losses) /\ PointDifference(a) # PointDifference(b)
      BY <1>0, <1>5, <2>1, <2>3
    <3> QED BY <1>1, <1>2, <1>3, <2>2, <2>3, <3>1
  <2>4. CASE a.wins # b.wins
    BY <1>1, <1>2, <1>3, <2>2, <2>4
  <2> QED BY <2>3, <2>4
<1> QED BY <1>4, <1>5

\* So the standing of such a season is its classification.
LEMMA StandingIsClassification ==
  ASSUME StatisticsInv, NEW s \in STRING \ {"none"}, SeasonConfirmed(s),
         \A a, b \in MemTeamTotals(s) :
            \/ a = b
            \/ a.games = b.games /\ <<a.wins, PointDifference(a)>> # <<b.wins, PointDifference(b)>>
  PROVE  Standing(s) = SqliteTeamLeaderboard(s, "classification", Cardinality(Teams))
<1> DEFINE T == MemTeamTotals(s)
           R == OrderedBy(T, TeamOrder("classification"))
<1>1. StandingTotals(s) = T
  BY StandingIsTable
<1>2. SqlTeamTotals(sql.sqlite.teams, s) = T
  BY ConfirmedNotTied, SameTeamTotals, StoredRows
<1>3. \A t \in T : t \in TeamTotalSet /\ t.wins + t.losses = t.games
  BY TeamTotalsShaped
<1>4. \A p \in T \X T : LexLess(StandingKey(p[1]), StandingKey(p[2]))
                        <=> Precedes(p[1], p[2], TeamOrder("classification"))
  <2> SUFFICES ASSUME NEW a \in T, NEW b \in T
               PROVE  LexLess(StandingKey(a), StandingKey(b))
                        <=> Precedes(a, b, TeamOrder("classification"))
    <3> HIDE DEF T
    <3> QED OBVIOUS
  <2>1. \/ a = b
        \/ a.games = b.games /\ <<a.wins, PointDifference(a)>> # <<b.wins, PointDifference(b)>>
    OBVIOUS
  <2> QED BY <1>3, <2>1, StandingAlike
<1>5. IsFiniteSet(T) /\ Cardinality(T) <= Cardinality(Teams) /\ Cardinality(Teams) \in Nat
  BY TotalsPerTeam, FiniteTeams
<1> HIDE DEF T
<1>6. SortedBy(T, StandingKey) = R
  BY <1>4 DEF SortedBy, OrderedBy
<1>7. FirstOf(Arranged(T, R), Cardinality(Teams)) = Arranged(T, R)
  <2> HIDE DEF R
  <2> QED BY <1>5, NothingCut
<1>8. SqliteTeamLeaderboard(s, "classification", Cardinality(Teams))
        = FirstOf(Arranged(T, R), Cardinality(Teams))
  BY <1>2 DEF SqliteTeamLeaderboard, SqlTeamLeaderboard
<1>9. Standing(s) = Arranged(T, SortedBy(T, StandingKey))
  BY <1>1 DEF Standing
<1> QED BY <1>6, <1>7, <1>8, <1>9

-----------------------------------------------------------------------------
\* Tables agree in every state

\* What a player has: his matches in the buckets of a season, and the points in them
PlayerPoints(s, p) ==
    Total([g \in MemGames(mem.players, s, p) |-> mem.players[g][p]], "points")

\* His entry in a category leaderboard
PlayerEntry(s, p) ==
    LET games_played == Cardinality(MemGames(mem.players, s, p))
    IN  [id |-> p, games |-> games_played,
         value |-> Hundredths(PlayerPoints(s, p), games_played)]

\* There are matches and points of a player the buckets know.
LEMMA PlayerHas ==
  ASSUME StatisticsInv, NEW s, NEW p \in MemIds(mem.players, s)
  PROVE  /\ p \in Players /\ p \in Nat
         /\ MemGames(mem.players, s, p) # {}
         /\ Cardinality(MemGames(mem.players, s, p)) \in Nat \ {0}
         /\ PlayerPoints(s, p) \in Int
         /\ Hundredths(PlayerPoints(s, p), Cardinality(MemGames(mem.players, s, p))) \in Int
<1> DEFINE walked == MemGames(mem.players, s, p)
           lines == [g \in walked |-> mem.players[g][p]]
<1>1. p \in Players
  BY DEF MemIds, StatisticsInv, BucketsShaped, LinesFor
<1>2. p \in Nat
  BY <1>1, StatisticsAssumption
<1>3. walked # {}
  BY DEF MemIds, MemGames
<1>4. IsFiniteSet(walked)
  BY WalkedFinite
<1>5. Cardinality(walked) \in Nat \ {0}
  <2> HIDE DEF walked
  <2>1. Cardinality(walked) \in Nat /\ Cardinality(walked) # 0
    BY <1>3, <1>4, FS_CardinalityType, FS_EmptySet
  <2> QED BY <2>1
<1>6. \A g \in walked : lines[g].points \in Int
  BY HeldLines DEF MemGames, PlayerLine
<1>7. DOMAIN lines = walked
  OBVIOUS
<1>8. Total(lines, "points") \in Int
  <2> HIDE DEF lines, walked
  <2> QED BY <1>4, <1>6, <1>7, ColumnSum
<1>9. PlayerPoints(s, p) \in Int
  BY <1>8 DEF PlayerPoints
<1>10. Hundredths(PlayerPoints(s, p), Cardinality(walked)) \in Int
  <2> HIDE DEF walked
  <2>1. ASSUME NEW x \in Int, NEW d \in Nat \ {0} PROVE x \div d \in Int
    BY <2>1
  <2>2. 100 * PlayerPoints(s, p) \in Int
    BY <1>9
  <2>3. (100 * PlayerPoints(s, p)) \div Cardinality(walked) \in Int
    BY <1>5, <2>1, <2>2
  <2> QED BY <2>3 DEF Hundredths
<1> QED BY <1>1, <1>2, <1>3, <1>5, <1>9, <1>10

\* The player table has a total for each player with lines, under his id.
LEMMA PlayerTable ==
  ASSUME StatisticsInv, NEW s \in STRING \ {"none"}
  PROVE  {[id |-> a.id, games |-> a.games, value |-> Hundredths(a.points, a.games)] :
             a \in Range(PgPlayerTable(s, Cardinality(Players)))}
           = {PlayerEntry(s, p) : p \in MemIds(mem.players, s)}
<1> DEFINE K == MemIds(mem.players, s)
           Walked(p) == MemGames(mem.players, s, p)
           Lines(p) == [g \in Walked(p) |-> mem.players[g][p]]
           Held(p) == PlayerTotal(p, Cardinality(Walked(p)), Total(Lines(p), "points"),
                                  Total(Lines(p), "turnovers"))
           T == MemPlayerTotals(s)
           n == Cardinality(Players)
           c == [p \in K |-> Held(p)]
           Entry(a) == [id |-> a.id, games |-> a.games, value |-> Hundredths(a.points, a.games)]
<1>1. T = {Held(p) : p \in K}
  BY DEF MemPlayerTotals
<1>2. SqlPlayerTotals(sql.pg.players, s) = T
  BY SamePlayerTotals, StoredRows
<1>3. \A p \in K : /\ p \in Players /\ p \in Nat
                   /\ Held(p).id = p /\ Held(p).games = Cardinality(Walked(p))
                   /\ Held(p).points = PlayerPoints(s, p)
  BY PlayerHas DEF PlayerTotal, PlayerPoints
<1>4. IsFiniteSet(Players) /\ n \in Nat
  BY StatisticsAssumption, FS_CardinalityType
<1>5. IsFiniteSet(T) /\ Cardinality(T) <= n /\ Cardinality(T) \in Nat
  <2>1. K \subseteq Players
    BY <1>3
  <2> HIDE DEF K, T, Held
  <2>2. IsFiniteSet(K) /\ Cardinality(K) <= n
    BY <1>4, <2>1, FS_Subset
  <2>3. c \in [K -> T] /\ (\A r \in T : \E p \in K : c[p] = r)
    BY <1>1
  <2> HIDE DEF c
  <2>4. IsFiniteSet(T) /\ Cardinality(T) <= Cardinality(K)
    BY <2>2, <2>3, FewerValues
  <2>5. Cardinality(T) \in Nat /\ Cardinality(K) \in Nat
    BY <2>2, <2>4, FS_CardinalityType
  <2> QED BY <1>4, <2>2, <2>4, <2>5
<1>6. StrictOrder(T, ById(T))
  <2> HIDE DEF K, T, Held
  <2>1. \A a \in T : \E p \in K : a = Held(p) /\ a.id = p /\ a.id \in Nat
    BY <1>1, <1>3
  <2>2. \A a, b \in T : <<a, b>> \in ById(T) <=> a.id < b.id
    BY DEF ById
  <2>3. \A a, b \in T : a.id = b.id => a = b
    BY <2>1
  <2>4. \A a \in T : a.id \in Nat
    BY <2>1
  <2> QED BY <2>2, <2>3, <2>4 DEF StrictOrder
<1> DEFINE table == FirstOf(Arranged(T, ById(T)), n)
<1>7. Range(table) = T
  <2> HIDE DEF T, n
  <2> QED BY <1>4, <1>5, <1>6, EverythingShown
<1>8. PgPlayerTable(s, n) = table
  BY <1>2 DEF PgPlayerTable, InIdOrder
<1>9. \A p \in K : Entry(Held(p)) = PlayerEntry(s, p)
  <2> HIDE DEF K, Held
  <2> QED BY <1>3 DEF PlayerEntry
<1> HIDE DEF K, T, Held, Entry, table
<1>10. {Entry(a) : a \in Range(PgPlayerTable(s, n))} = {PlayerEntry(s, p) : p \in K}
  <2>1. {Entry(a) : a \in T} = {Entry(Held(p)) : p \in K}
    BY <1>1
  <2> QED BY <1>7, <1>8, <1>9, <2>1
<1> QED BY <1>10 DEF K, Entry

\* So has the category leaderboard, from the matches.
LEMMA CategoryEntries ==
  ASSUME StatisticsInv, NEW s \in STRING \ {"none"}, SeasonConfirmed(s),
         \A g \in {h \in Games : mem.season[h] = s} : games[g].lines = mem.players[g]
  PROVE  Range(CategoryLeaderboard(s, "points", 1, Cardinality(Players)))
           = {PlayerEntry(s, p) : p \in MemIds(mem.players, s)}
<1> DEFINE K == MemIds(mem.players, s)
           Walked(p) == MemGames(mem.players, s, p)
           Points(p) == Hundredths(PlayerPoints(s, p), Cardinality(Walked(p)))
           Played(p) == {g \in Finalized(s) : p \in DOMAIN games[g].lines}
           Value(p) == Hundredths(Total([g \in Played(p) |-> games[g].lines[p]], "points"),
                                  Cardinality(Played(p)))
           Shown == {q \in Players : Played(q) # {} /\ Cardinality(Played(q)) >= 1}
           entries == {[id |-> p, games |-> Cardinality(Played(p)), value |-> Value(p)] : p \in Shown}
           Entry(p) == [id |-> p, games |-> Cardinality(Walked(p)), value |-> Points(p)]
           n == Cardinality(Players)
           R == SortedBy(entries, LAMBDA e : <<-e.value, e.id>>)
<1>1. CategoryLeaderboard(s, "points", 1, n) = FirstOf(Arranged(entries, R), n)
  BY DEF CategoryLeaderboard
<1>2. Finalized(s) = {g \in Games : mem.season[g] = s}
  BY ConfirmedMatches
<1>3. \A p : Played(p) = Walked(p)
  <2> TAKE p
  <2>1. \A g \in Finalized(s) : games[g].lines = mem.players[g]
    BY <1>2
  <2> QED BY <1>2, <2>1 DEF MemGames
<1>4. \A p \in K : /\ p \in Players /\ p \in Nat /\ Walked(p) # {}
                   /\ Cardinality(Walked(p)) \in Nat \ {0} /\ Points(p) \in Int
  BY PlayerHas
<1>5. Shown = K
  <2>1. ASSUME NEW p \in Shown PROVE p \in K
    <3>1. Walked(p) # {}
      BY <1>3
    <3> QED BY <3>1 DEF MemGames, MemIds
  <2>2. ASSUME NEW p \in K PROVE p \in Shown
    <3>1. p \in Players /\ Played(p) # {} /\ Cardinality(Played(p)) \in Nat \ {0}
      <4> HIDE DEF K, Played, Walked
      <4> QED BY <1>3, <1>4
    <3> HIDE DEF K, Played
    <3> QED BY <3>1
  <2> HIDE DEF K, Shown
  <2> QED BY <2>1, <2>2
<1>6. ASSUME NEW p \in K PROVE Value(p) = Points(p)
  <2>1. [g \in Played(p) |-> games[g].lines[p]] = [g \in Walked(p) |-> mem.players[g][p]]
    <3>1. \A g \in Walked(p) : games[g].lines = mem.players[g]
      BY <1>2 DEF MemGames
    <3> HIDE DEF Played, Walked
    <3> QED BY <1>3, <3>1
  <2>2. Total([g \in Played(p) |-> games[g].lines[p]], "points") = PlayerPoints(s, p)
    BY <2>1 DEF PlayerPoints
  <2>3. Cardinality(Played(p)) = Cardinality(Walked(p))
    <3> HIDE DEF Played, Walked
    <3> QED BY <1>3
  <2> QED BY <2>2, <2>3
<1>7. entries = {Entry(p) : p \in K}
  <2>1. \A p \in K : [id |-> p, games |-> Cardinality(Played(p)), value |-> Value(p)] = Entry(p)
    <3> TAKE p \in K
    <3>1. Cardinality(Played(p)) = Cardinality(Walked(p))
      <4> HIDE DEF Played, Walked
      <4> QED BY <1>3
    <3> HIDE DEF Played, Walked, Points, Value, K
    <3> QED BY <1>6, <3>1
  <2> HIDE DEF K, Shown, Entry, Value, Played
  <2> QED BY <1>5, <2>1
<1>8. IsFiniteSet(Players) /\ n \in Nat
  BY StatisticsAssumption, FS_CardinalityType
<1> DEFINE c == [p \in K |-> Entry(p)]
<1>9. IsFiniteSet(entries) /\ Cardinality(entries) <= n
  <2>1. K \subseteq Players
    BY <1>4
  <2> HIDE DEF K, entries, Entry
  <2>2. IsFiniteSet(K) /\ Cardinality(K) <= n
    BY <1>8, <2>1, FS_Subset
  <2>3. c \in [K -> entries] /\ (\A r \in entries : \E p \in K : c[p] = r)
    BY <1>7
  <2> HIDE DEF c
  <2>4. IsFiniteSet(entries) /\ Cardinality(entries) <= Cardinality(K)
    BY <2>2, <2>3, FewerValues
  <2>5. Cardinality(entries) \in Nat /\ Cardinality(K) \in Nat
    BY <2>2, <2>4, FS_CardinalityType
  <2> QED BY <1>8, <2>2, <2>4, <2>5
<1>10. \A e \in entries : \E p \in K : e = Entry(p) /\ e.id = p /\ e.id \in Nat /\ e.value \in Int
  <2>1. \A p \in K : Entry(p).id = p /\ Entry(p).value = Points(p)
    OBVIOUS
  <2> HIDE DEF K, entries, Entry, Points
  <2> QED BY <1>4, <1>7, <2>1
<1>11. StrictOrder(entries, R)
  <2> HIDE DEF entries, K, Entry
  <2>1. \A a, b \in entries : <<a, b>> \in R
            <=> -a.value < -b.value \/ (-a.value = -b.value /\ a.id < b.id)
    BY LexTwo DEF SortedBy
  <2>2. \A a, b \in entries : a.id = b.id => a = b
    BY <1>10
  <2>3. \A a \in entries : a.id \in Nat /\ a.value \in Int
    BY <1>10
  <2> HIDE DEF R
  <2>4. \A a, b \in entries : <<a, b>> \in R
            <=> b.value < a.value \/ (a.value = b.value /\ a.id < b.id)
    <3> TAKE a, b \in entries
    <3>1. a.value \in Int /\ b.value \in Int
      BY <2>3
    <3>2. (-a.value < -b.value <=> b.value < a.value) /\ (-a.value = -b.value <=> a.value = b.value)
      BY <3>1
    <3> QED BY <2>1, <3>2
  <2>5. \A a \in entries : <<a, a>> \notin R
    BY <2>3, <2>4
  <2>6. ASSUME NEW a \in entries, NEW b \in entries, NEW d \in entries,
               <<a, b>> \in R, <<b, d>> \in R
        PROVE  <<a, d>> \in R
    BY <2>3, <2>4, <2>6
  <2>7. ASSUME NEW a \in entries, NEW b \in entries
        PROVE  a = b \/ <<a, b>> \in R \/ <<b, a>> \in R
    BY <2>2, <2>3, <2>4
  <2> QED BY <2>5, <2>6, <2>7 DEF StrictOrder
<1>12. Range(CategoryLeaderboard(s, "points", 1, n)) = entries
  <2> HIDE DEF entries, R, n
  <2> QED BY <1>1, <1>8, <1>9, <1>11, EverythingShown
<1>13. \A p \in K : Entry(p) = PlayerEntry(s, p)
  BY DEF PlayerEntry
<1> HIDE DEF K, Entry, entries
<1>14. Range(CategoryLeaderboard(s, "points", 1, n)) = {PlayerEntry(s, p) : p \in K}
  BY <1>7, <1>12, <1>13
<1> QED BY <1>14 DEF K

\* The views from the matches say what those from the projection do.
LEMMA StandingAlwaysAgrees == StatisticsInv => StandingAgreesWithTable
<1> SUFFICES ASSUME StatisticsInv, NEW s \in Begun
    PROVE
        LET totals == SqlTeamTotals(sql.sqlite.teams, s)
            recorded == {g \in Games : mem.season[g] = s}
            Confirmed(g) ==
                /\ games[g].status = "FINALIZED" /\ games[g].score[1] # games[g].score[2]
                /\ \A side \in Sides :
                     LET line == mem.teams[g][Fixture[g][side]]
                         own  == IF side = "home" THEN 1 ELSE 2
                     IN  line.points_for = games[g].score[own]
                         /\ line.points_against = games[g].score[3 - own]
            Comparable(a, b) ==
                \/ a = b
                \/ /\ a.games = b.games
                   /\ <<a.wins, PointDifference(a)>> # <<b.wins, PointDifference(b)>>
        IN  (\A g \in recorded : Confirmed(g)) =>
            /\ StandingTotals(s) = totals
            /\ (\A a, b \in totals : Comparable(a, b)) =>
                 Standing(s) = SqliteTeamLeaderboard(s, "classification", Cardinality(Teams))
            /\ (\A g \in recorded : games[g].lines = mem.players[g]) =>
                 Range(CategoryLeaderboard(s, "points", 1, Cardinality(Players)))
                 = {[id |-> a.id, games |-> a.games, value |-> Hundredths(a.points, a.games)] :
                     a \in Range(PgPlayerTable(s, Cardinality(Players)))}
  BY DEF StandingAgreesWithTable
<1>0. s \in STRING \ {"none"}
  BY BegunSeason
<1>1. ASSUME SeasonConfirmed(s)
      PROVE  /\ StandingTotals(s) = MemTeamTotals(s)
             /\ SqlTeamTotals(sql.sqlite.teams, s) = MemTeamTotals(s)
  BY <1>0, <1>1, StandingIsTable, ConfirmedNotTied, SameTeamTotals, StoredRows
<1>2. ASSUME SeasonConfirmed(s),
             \A a, b \in MemTeamTotals(s) :
                \/ a = b
                \/ /\ a.games = b.games
                   /\ <<a.wins, PointDifference(a)>> # <<b.wins, PointDifference(b)>>
      PROVE  Standing(s) = SqliteTeamLeaderboard(s, "classification", Cardinality(Teams))
  BY <1>0, <1>2, StandingIsClassification
<1>3. ASSUME SeasonConfirmed(s),
             \A g \in {h \in Games : mem.season[h] = s} : games[g].lines = mem.players[g]
      PROVE  Range(CategoryLeaderboard(s, "points", 1, Cardinality(Players)))
             = {[id |-> a.id, games |-> a.games, value |-> Hundredths(a.points, a.games)] :
                 a \in Range(PgPlayerTable(s, Cardinality(Players)))}
  <2>1. {[id |-> a.id, games |-> a.games, value |-> Hundredths(a.points, a.games)] :
             a \in Range(PgPlayerTable(s, Cardinality(Players)))}
           = {PlayerEntry(s, p) : p \in MemIds(mem.players, s)}
    BY <1>0, PlayerTable
  <2>2. Range(CategoryLeaderboard(s, "points", 1, Cardinality(Players)))
           = {PlayerEntry(s, p) : p \in MemIds(mem.players, s)}
    BY <1>0, <1>3, CategoryEntries
  <2> QED BY <2>1, <2>2, Zenon
<1> QED BY <1>1, <1>2, <1>3, Zenon DEF SeasonConfirmed, ConfirmedGame

\* Season tables, leaderboards, rounds and standings agree wherever they are read.
THEOREM SeasonTablesAlwaysAgree == StatisticsSpec => []SeasonTablesAgree
<1>1. StatisticsInv => SeasonTablesAgree
  BY TablesAlwaysAgree, StandingAlwaysAgrees DEF SeasonTablesAgree
<1> QED BY <1>1, StatisticsInvariant, PTL

-----------------------------------------------------------------------------
\* Late results

\* A match older than a full window of others is not in the window, and leaves it as
\* it was.
LEMMA LateStaysOut ==
  ASSUME NEW M \in SUBSET Games, NEW g \in Games, g \notin M,
         NEW W \in SUBSET M, Cardinality(W) = Window,
         \A h \in W : Fixture[g].at < Fixture[h].at
  PROVE  SelectWindow(M \cup {g}) = SelectWindow(M) /\ SelectWindow(M) \subseteq M
<1> DEFINE Newer(N, x) == {h \in N : Fixture[h].at > Fixture[x].at}
           N == M \cup {g}
<1>0. /\ Window \in Nat /\ \A x \in Games : Fixture[x].at \in Nat
      /\ \A S \in SUBSET Games : IsFiniteSet(S) /\ Cardinality(S) \in Nat
  BY StatisticsAssumption, FS_Subset, FS_CardinalityType
<1>1. ASSUME NEW S \in SUBSET Games, W \subseteq S PROVE ~(Cardinality(S) < Window)
  <2>1. W \in SUBSET S /\ IsFiniteSet(S) /\ Cardinality(S) \in Nat
    BY <1>0, <1>1
  <2>2. Cardinality(W) <= Cardinality(S)
    BY <2>1, FS_Subset
  <2> QED BY <1>0, <2>1, <2>2
<1>2. ASSUME NEW x \in Games, Fixture[x].at <= Fixture[g].at
      PROVE  ~(Cardinality(Newer(M, x)) < Window) /\ ~(Cardinality(Newer(N, x)) < Window)
  <2>1. \A h \in W : h \in M /\ h \in Games /\ Fixture[h].at > Fixture[x].at
    BY <1>0, <1>2
  <2>2. /\ W \subseteq Newer(M, x) /\ W \subseteq Newer(N, x)
        /\ Newer(M, x) \in SUBSET Games /\ Newer(N, x) \in SUBSET Games
    BY <2>1
  <2> HIDE DEF Newer, N
  <2> QED BY <1>1, <2>2
<1>3. ASSUME NEW x \in Games, Fixture[x].at > Fixture[g].at
      PROVE  Newer(N, x) = Newer(M, x)
  BY <1>0, <1>3
<1>4. \A x \in Games : Fixture[x].at <= Fixture[g].at \/ Fixture[x].at > Fixture[g].at
  BY <1>0
<1>5. Fixture[g].at <= Fixture[g].at
  BY <1>0
<1>6. SelectWindow(M) = {x \in M : Cardinality(Newer(M, x)) < Window}
      /\ SelectWindow(N) = {x \in N : Cardinality(Newer(N, x)) < Window}
  BY DEF SelectWindow
<1> HIDE DEF Newer
<1>7. \A x \in M : Cardinality(Newer(N, x)) < Window <=> Cardinality(Newer(M, x)) < Window
  BY <1>2, <1>3, <1>4
<1>8. ~(Cardinality(Newer(N, g)) < Window)
  BY <1>2, <1>5
<1> QED BY <1>6, <1>7, <1>8

\* Lines that appear have been uploaded, and the others are as they were.
LEMMA LinesUploaded ==
  ASSUME StatisticsInv, [StatisticsNext]_statisticsVars,
         NEW g \in Games, NEW p, p \notin DOMAIN games[g].lines, p \in DOMAIN games'[g].lines
  PROVE  /\ \A h \in Games \ {g} : games'[h] = games[h]
         /\ \A h \in Games \ {g} : mem'.players[h] = mem.players[h]
         /\ mem'.players[g] = Overwrite(mem.players[g], games'[g].lines)
<1>0. /\ games = [h \in Games |-> games[h]]
      /\ mem.players = [h \in Games |-> mem.players[h]]
      /\ \A h \in Games : games[h] = [status |-> games[h].status, score |-> games[h].score,
                                      sides |-> games[h].sides, lines |-> games[h].lines]
  BY DEF StatisticsInv, MatchesShaped, BucketsShaped
<1>1. ~UNCHANGED statisticsVars
  BY DEF statisticsVars
<1>2. PICK h \in Games : UpsertMatchStats(h) \/ FinalizeMatch(h)
  BY <1>1 DEF StatisticsNext
<1>3. ~FinalizeMatch(h)
  <2> SUFFICES ASSUME FinalizeMatch(h) PROVE FALSE
    OBVIOUS
  <2>1. PICK score \in Finals :
          games' = [games EXCEPT ![h].status = "FINALIZED", ![h].score = score]
    BY DEF FinalizeMatch
  <2>2. games'[g].lines = games[g].lines
    BY <1>0, <2>1
  <2> QED BY <2>2
<1>4. PICK box \in Boxes[h] :
        /\ games' = [games EXCEPT ![h] = RecordStats(@, box)]
        /\ mem' = [teams   |-> MemSaveTeams(mem.teams, h, box.sides),
                   players |-> MemSavePlayers(mem.players, h, box.lines),
                   season  |-> [mem.season EXCEPT ![h] = Fixture[h].season]]
  BY <1>2, <1>3 DEF UpsertMatchStats
<1>5. h = g
  BY <1>0, <1>4
<1>6. games'[g] = RecordStats(games[g], box) /\ \A x \in Games \ {g} : games'[x] = games[x]
  BY <1>0, <1>4, <1>5
<1>7. games'[g].lines = box.lines
  <2>1. games[g] = [status |-> games[g].status, score |-> games[g].score,
                    sides |-> games[g].sides, lines |-> games[g].lines]
    BY <1>0
  <2> QED BY <1>6, <2>1 DEF RecordStats
<1>8. mem'.players = [mem.players EXCEPT ![g] = Overwrite(@, box.lines)]
  BY <1>4, <1>5 DEF MemSavePlayers
<1> QED BY <1>0, <1>6, <1>7, <1>8

\* The matches with lines of a player, in the rows of a season and in the buckets
RowMatches(rows, s, p) == {k[1] : k \in Keys(rows, s, p)}
BucketMatches(buckets, s, p) == {g \in Games : Fixture[g].season = s /\ p \in DOMAIN buckets[g]}

\* The matches with lines of a player in the projection of a season are those of the buckets.
LEMMA PlayedMatches ==
  ASSUME NEW buckets, \A g \in Games : DOMAIN buckets[g] \subseteq Nat, NEW s, NEW p
  PROVE  /\ RowMatches(Projection(buckets), s, p) = BucketMatches(buckets, s, p)
         /\ \A g \in BucketMatches(buckets, s, p) :
              Projection(buckets)[<<g, p>>].line = buckets[g][p]
<1> DEFINE rows == Projection(buckets)
           P == {g \in Games : Fixture[g].season = s /\ p \in DOMAIN buckets[g]}
<1>0. BucketMatches(buckets, s, p) = P
  BY DEF BucketMatches
<1>1. DOMAIN rows = {j \in Games \X Nat : j[2] \in DOMAIN buckets[j[1]]}
  BY DEF Projection
<1>2. \A k \in DOMAIN rows : rows[k].season = Fixture[k[1]].season
                             /\ rows[k].line = buckets[k[1]][k[2]]
  BY <1>1 DEF Projection
<1> HIDE DEF rows
<1>3. ASSUME NEW g \in P
      PROVE  <<g, p>> \in Keys(rows, s, p) /\ rows[<<g, p>>].line = buckets[g][p]
  <2>1. g \in Games /\ p \in Nat /\ p \in DOMAIN buckets[g] /\ Fixture[g].season = s
    OBVIOUS
  <2>2. <<g, p>> \in DOMAIN rows
    BY <1>1, <2>1
  <2> QED BY <1>2, <2>1, <2>2 DEF Keys
<1>4. ASSUME NEW k \in Keys(rows, s, p) PROVE k[1] \in P
  <2>1. k \in DOMAIN rows /\ k[2] = p /\ rows[k].season = s
    BY DEF Keys
  <2> QED BY <1>1, <1>2, <2>1
<1>5. ASSUME NEW g \in P PROVE g \in {k[1] : k \in Keys(rows, s, p)}
  <2>1. <<g, p>>[1] = g
    OBVIOUS
  <2> QED BY <1>3, <2>1
<1>6. {k[1] : k \in Keys(rows, s, p)} = P
  <2> HIDE DEF P
  <2> QED BY <1>4, <1>5
<1>7. \A g \in P : rows[<<g, p>>].line = buckets[g][p]
  BY <1>3
<1> HIDE DEF P
<1> QED BY <1>0, <1>6, <1>7 DEF rows, RowMatches

\* A late result leaves the rating as it was.
LEMMA LateRating ==
  ASSUME StatisticsInv, [StatisticsNext]_statisticsVars,
         NEW s, NEW g \in Games, NEW p, p \notin DOMAIN games[g].lines, p \in DOMAIN games'[g].lines,
         Cardinality(SelectWindow(LinesOf(s, p))) = Window,
         \A h \in SelectWindow(LinesOf(s, p)) : Fixture[g].at < Fixture[h].at
  PROVE  PlayerRating(p, SelectWindow(LinesOf(s, p)))' = PlayerRating(p, SelectWindow(LinesOf(s, p)))
<1> DEFINE L == LinesOf(s, p)
           M == {h \in Games : Fixture[h].season = s /\ p \in DOMAIN games'[h].lines}
           old == SelectWindow(L)
           Sum(rows, used) == SumFunction([h \in used |-> 10 * rows[h].lines[p].points
                                                          - 8 * rows[h].lines[p].turnovers])
           Rating(rows, used) == IF used = {} \/ Sum(rows, used) < 0 THEN [score |-> 0, games |-> 0]
                                 ELSE [score |-> Sum(rows, used), games |-> Cardinality(used)]
<1>1. \A h \in Games \ {g} : games'[h] = games[h]
  BY LinesUploaded
<1>2. L \in SUBSET Games /\ g \notin L
  BY DEF LinesOf
<1>3. old \in SUBSET L
  BY DEF SelectWindow
<1>4. M = L \/ M = L \cup {g}
  <2>1. \A h \in Games \ {g} : h \in M <=> h \in L
    BY <1>1 DEF LinesOf
  <2>2. M \subseteq Games
    OBVIOUS
  <2> HIDE DEF M, L
  <2> QED BY <1>2, <2>1, <2>2
<1>5. SelectWindow(M) = old
  <2>1. SelectWindow(L \cup {g}) = SelectWindow(L)
    <3>1. Cardinality(old) = Window /\ \A h \in old : Fixture[g].at < Fixture[h].at
      OBVIOUS
    <3> HIDE DEF L, old
    <3> QED BY <1>2, <1>3, <3>1, LateStaysOut
  <2> HIDE DEF M, L
  <2> QED BY <1>4, <2>1
<1>6. Sum(games', old) = Sum(games, old)
  <2>1. \A h \in old : games'[h] = games[h]
    <3> HIDE DEF old, L
    <3> QED BY <1>1, <1>2, <1>3
  <2> HIDE DEF old
  <2>2. [h \in old |-> 10 * games'[h].lines[p].points - 8 * games'[h].lines[p].turnovers]
          = [h \in old |-> 10 * games[h].lines[p].points - 8 * games[h].lines[p].turnovers]
    BY <2>1
  <2> QED BY <2>2
<1>7. PlayerRating(p, SelectWindow(LinesOf(s, p)))' = Rating(games', SelectWindow(M))
  BY DEF PlayerRating, LinesOf, SelectWindow
<1>8. PlayerRating(p, SelectWindow(LinesOf(s, p))) = Rating(games, old)
  BY DEF PlayerRating
<1>9. Rating(games', SelectWindow(M)) = Rating(games, old)
  <2> HIDE DEF M, old, Sum
  <2> QED BY <1>5, <1>6
<1> QED BY <1>7, <1>8, <1>9

\* The sets of the Window lines of a set of matches that are latest by the times `at`.
Latest(set, at) ==
    {w \in SUBSET set :
        /\ Cardinality(w) = IF Cardinality(set) < Window THEN Cardinality(set) ELSE Window
        /\ \A g \in w, h \in set \ w : at[g] >= at[h]}

\* A line older than all those of the full windows opens no window and closes none.
LEMMA LatestStay ==
  ASSUME NEW P, IsFiniteSet(P), NEW g, g \notin P,
         NEW at, \A h \in P \cup {g} : at[h] \in Nat,
         Latest(P, at) # {},
         \A w \in Latest(P, at) : Cardinality(w) = Window /\ \A h \in w : at[g] < at[h]
  PROVE  Latest(P \cup {g}, at) = Latest(P, at)
<1> DEFINE Q == P \cup {g}
           Old == Latest(P, at)
           New == Latest(Q, at)
<1>1. PICK full \in Old : TRUE
  OBVIOUS
<1>2. full \in SUBSET P /\ Cardinality(full) = Window /\ g \notin full /\ \A h \in full : at[g] < at[h]
  BY <1>1 DEF Latest
<1>3. /\ IsFiniteSet(Q) /\ Cardinality(P) \in Nat /\ Cardinality(Q) = Cardinality(P) + 1
      /\ Window \in Nat /\ Window <= Cardinality(P)
  BY <1>2, FS_AddElement, FS_Subset, FS_CardinalityType, StatisticsAssumption
<1>4. \A w \in Old : w \in SUBSET P /\ Cardinality(w) = Window /\ \A x \in w, y \in P \ w : at[x] >= at[y]
  BY DEF Latest
<1>5. \A w : w \in New <=> w \in SUBSET Q /\ Cardinality(w) = Window
                             /\ \A x \in w, y \in Q \ w : at[x] >= at[y]
  BY <1>3 DEF Latest
<1>6. \A w : w \in SUBSET P /\ Cardinality(w) = Window
              /\ (\A x \in w, y \in P \ w : at[x] >= at[y]) => w \in Old
  BY <1>3 DEF Latest
<1>7. \A w \in Old : \A h \in w : at[g] < at[h]
  OBVIOUS
<1> HIDE DEF Old, New
<1>8. ASSUME NEW w \in Old PROVE w \in New
  <2>1. ASSUME NEW x \in w, NEW y \in Q \ w PROVE at[x] >= at[y]
    <3>1. CASE y = g
      BY <1>4, <1>7, <3>1
    <3>2. CASE y # g
      BY <1>4, <3>2
    <3> QED BY <3>1, <3>2
  <2>2. w \in SUBSET Q /\ Cardinality(w) = Window
    BY <1>4
  <2> QED BY <1>5, <2>1, <2>2
<1>9. ASSUME NEW w \in New PROVE w \in Old
  <2>1. w \in SUBSET Q /\ Cardinality(w) = Window /\ \A x \in w, y \in Q \ w : at[x] >= at[y]
    BY <1>5
  <2>2. g \notin w
    <3> SUFFICES ASSUME g \in w PROVE FALSE
      OBVIOUS
    <3>1. IsFiniteSet(w)
      BY <1>3, <2>1, FS_Subset
    <3>2. ~(full \subseteq w)
      <4> SUFFICES ASSUME full \subseteq w PROVE FALSE
        OBVIOUS
      <4>1. full = w
        BY <1>2, <2>1, <3>1, FS_Subset
      <4> QED BY <1>2, <4>1
    <3>3. PICK h \in full : h \notin w
      BY <3>2
    <3>4. h \in P /\ at[g] >= at[h] /\ at[g] < at[h] /\ at[g] \in Nat /\ at[h] \in Nat
      BY <1>2, <2>1, <3>3
    <3> QED BY <3>4
  <2>3. w \in SUBSET P /\ \A x \in w, y \in P \ w : at[x] >= at[y]
    BY <2>1, <2>2
  <2> QED BY <1>6, <2>1, <2>3
<1>10. New = Old
  BY <1>8, <1>9
<1> QED BY <1>10 DEF New, Old

\* The recent form stays too, when the projection had no line of the player for the
\* match and the new line is older than every line of a full window.
LEMMA LateForm ==
  ASSUME StatisticsInv, StatisticsInv', [StatisticsNext]_statisticsVars,
         NEW s \in STRING \ {"none"}, NEW g \in Games, NEW p \in Nat,
         p \notin DOMAIN games[g].lines, p \in DOMAIN games'[g].lines,
         FormIndex(s, p) # {}, <<g, p>> \notin DOMAIN sql.pg.players,
         \A w \in RecentWindows(s, p) :
            /\ Cardinality(w) = Window
            /\ \A h \in w : games'[g].lines[p].at < sql.pg.players[<<h, p>>].line.at
  PROVE  {f.form_rating : f \in FormIndex(s, p)'} = {f.form_rating : f \in FormIndex(s, p)}
<1> DEFINE rows == sql.pg.players
           P == BucketMatches(mem.players, s, p)
           Q == BucketMatches(mem'.players, s, p)
           Impact(held, set) == SumFunction([h \in set |-> held[<<h, p>>].line.points
                                                           - held[<<h, p>>].line.turnovers])
           at == [h \in Games |-> IF h = g THEN games'[g].lines[p].at ELSE rows[<<h, p>>].line.at]
           Ratings(held, windows) == {<<Impact(held, w), Cardinality(w)>> : w \in windows}
<1>1. /\ \A h \in Games \ {g} : mem'.players[h] = mem.players[h]
      /\ mem'.players[g] = Overwrite(mem.players[g], games'[g].lines)
  BY LinesUploaded
<1>0. /\ \A h \in Games : DOMAIN mem.players[h] \subseteq Nat
      /\ \A h \in Games : DOMAIN mem'.players[h] \subseteq Nat
      /\ rows = Projection(mem.players) /\ rows' = Projection(mem'.players)
  <2>1. Players \subseteq Nat
    BY StatisticsAssumption
  <2>2. \A h \in Games : DOMAIN mem.players[h] \subseteq Players
    BY DEF StatisticsInv, BucketsShaped, LinesFor
  <2>3. \A h \in Games : DOMAIN mem'.players[h] \subseteq Players
    BY DEF StatisticsInv, BucketsShaped, LinesFor
  <2>4. rows = Projection(mem.players)
    BY StoredRows
  <2>5. rows' = Projection(mem'.players)
    BY DEF StatisticsInv, RowsShaped, Projection
  <2> QED BY <2>1, <2>2, <2>3, <2>4, <2>5
<1>2. /\ RowMatches(rows, s, p) = P
      /\ \A h \in P : h \in Games /\ rows[<<h, p>>].line = mem.players[h][p]
  <2>1. \A h \in Games : DOMAIN mem.players[h] \subseteq Nat
    BY <1>0
  <2>2. \A h \in P : h \in Games
    BY DEF BucketMatches
  <2>3. rows = Projection(mem.players)
    BY <1>0
  <2> HIDE DEF rows
  <2>4. RowMatches(rows, s, p) = P
    BY ONLY <2>1, <2>3, PlayedMatches
  <2>5. \A h \in P : rows[<<h, p>>].line = mem.players[h][p]
    BY ONLY <2>1, <2>3, PlayedMatches
  <2> QED BY <2>2, <2>4, <2>5
<1>3. /\ RowMatches(rows', s, p) = Q
      /\ \A h \in Q : h \in Games /\ rows'[<<h, p>>].line = mem'.players[h][p]
  <2>1. \A h \in Games : DOMAIN mem'.players[h] \subseteq Nat
    BY <1>0
  <2>2. \A h \in Q : h \in Games
    BY DEF BucketMatches
  <2>3. rows' = Projection(mem'.players)
    BY <1>0
  <2> HIDE DEF rows
  <2>4. RowMatches(rows', s, p) = Q
    BY ONLY <2>1, <2>3, PlayedMatches
  <2>5. \A h \in Q : rows'[<<h, p>>].line = mem'.players[h][p]
    BY ONLY <2>1, <2>3, PlayedMatches
  <2> QED BY <2>2, <2>4, <2>5
<1>4. p \notin DOMAIN mem.players[g]
  <2> SUFFICES ASSUME p \in DOMAIN mem.players[g] PROVE FALSE
    OBVIOUS
  <2>1. <<g, p>> \in DOMAIN rows
    BY <1>0 DEF Projection
  <2> QED BY <2>1
<1>5. P \in SUBSET Games /\ g \notin P
  BY <1>4 DEF BucketMatches
<1>6. Q = P \/ Q = P \cup {g}
  <2>1. \A h \in Games \ {g} : h \in Q <=> h \in P
    BY <1>1 DEF BucketMatches
  <2>2. Q \subseteq Games
    BY DEF BucketMatches
  <2>3. P \subseteq Games /\ g \notin P
    BY <1>5
  <2> HIDE DEF P, Q
  <2>4. CASE g \in Q
    BY <2>1, <2>2, <2>3, <2>4
  <2>5. CASE g \notin Q
    <3>1. \A h \in Q : h \in P
      BY <2>1, <2>2, <2>5
    <3>2. \A h \in P : h \in Q
      BY <2>1, <2>3
    <3> QED BY <3>1, <3>2
  <2> QED BY <2>4, <2>5
<1>7. /\ IsFiniteSet(P) /\ IsFiniteSet(Q) /\ Cardinality(P) \in Nat /\ Cardinality(Q) \in Nat
      /\ Cardinality(P) <= Cardinality(Q)
  <2>1. IsFiniteSet(Games) /\ Q \in SUBSET Games
    BY StatisticsAssumption DEF BucketMatches
  <2>2. P \in SUBSET Q
    <3> HIDE DEF P, Q
    <3> QED BY <1>6
  <2> HIDE DEF P, Q
  <2>3. IsFiniteSet(Q)
    BY <2>1, FS_Subset
  <2>4. IsFiniteSet(P) /\ Cardinality(P) <= Cardinality(Q)
    BY <2>2, <2>3, FS_Subset
  <2> QED BY <2>3, <2>4, FS_CardinalityType
<1>8. \A h \in P : rows'[<<h, p>>].line = rows[<<h, p>>].line
  <2>1. \A h \in P : h \in Q /\ h \in Games \ {g}
    <3> HIDE DEF P, Q
    <3> QED BY <1>5, <1>6
  <2> HIDE DEF P, Q, rows
  <2> QED BY <1>1, <1>2, <1>3, <2>1
<1>9. /\ \A h \in P : at[h] = rows[<<h, p>>].line.at
      /\ \A h \in Q : at[h] = rows'[<<h, p>>].line.at
      /\ \A h \in P \cup {g} : at[h] \in Nat
  <2>1. \A h \in P : h \in Games /\ h # g /\ at[h] = rows[<<h, p>>].line.at
    <3> HIDE DEF P, rows
    <3> QED BY <1>5
  <2>2. g \in Q => rows'[<<g, p>>].line = games'[g].lines[p]
    <3>1. mem'.players[g][p] = games'[g].lines[p]
      <4>1. p \in DOMAIN games'[g].lines /\ p \in DOMAIN mem.players[g] \cup DOMAIN games'[g].lines
        OBVIOUS
      <4>2. mem'.players[g] = [k \in DOMAIN mem.players[g] \cup DOMAIN games'[g].lines |->
                IF k \in DOMAIN games'[g].lines THEN games'[g].lines[k] ELSE mem.players[g][k]]
        BY <1>1 DEF Overwrite
      <4> QED BY <4>1, <4>2
    <3> HIDE DEF Q, rows
    <3> QED BY <1>3, <3>1
  <2>3. at[g] = games'[g].lines[p].at
    OBVIOUS
  <2>4. games'[g].lines[p] \in PlayerLine
    BY DEF StatisticsInv, MatchesShaped, LinesFor
  <2>5. \A h \in P : mem.players[h][p] \in PlayerLine
    BY DEF StatisticsInv, BucketsShaped, LinesFor, BucketMatches
  <2>6. \A h \in Q : h \in P \/ h = g
    <3> HIDE DEF P, Q
    <3> QED BY <1>6
  <2>7. \A h \in P : at[h] \in Nat
    <3> HIDE DEF P, at, rows
    <3> QED BY <1>2, <2>1, <2>5 DEF PlayerLine
  <2>8. at[g] \in Nat
    <3> HIDE DEF at
    <3> QED BY <2>3, <2>4 DEF PlayerLine
  <2>9. \A h \in Q : at[h] = rows'[<<h, p>>].line.at
    <3> TAKE h \in Q
    <3>1. CASE h = g
      <4> HIDE DEF at, Q, rows
      <4> QED BY <2>2, <2>3, <3>1
    <3>2. CASE h \in P
      <4> HIDE DEF at, Q, P, rows
      <4> QED BY <1>8, <2>1, <3>2
    <3> QED BY <2>6, <3>1, <3>2
  <2> HIDE DEF P, Q, at, rows
  <2> QED BY <2>1, <2>7, <2>8, <2>9
<1>10. FormMatches(s, p) = P /\ FormMatches(s, p)' = Q
  <2> HIDE DEF P, Q
  <2> QED BY <1>2, <1>3 DEF FormMatches, RowMatches, Keys
<1>11. RecentWindows(s, p) = Latest(P, at)
  <2>1. RecentWindows(s, p) = {w \in SUBSET P :
            /\ Cardinality(w) = IF Cardinality(P) < Window THEN Cardinality(P) ELSE Window
            /\ \A x \in w, y \in P \ w : rows[<<x, p>>].line.at >= rows[<<y, p>>].line.at}
    <3> HIDE DEF P
    <3> QED BY <1>10 DEF RecentWindows
  <2> HIDE DEF P, at, rows
  <2> QED BY <1>9, <2>1 DEF Latest
<1>12. RecentWindows(s, p)' = Latest(Q, at)
  <2>1. RecentWindows(s, p)' = {w \in SUBSET Q :
            /\ Cardinality(w) = IF Cardinality(Q) < Window THEN Cardinality(Q) ELSE Window
            /\ \A x \in w, y \in Q \ w : rows'[<<x, p>>].line.at >= rows'[<<y, p>>].line.at}
    <3> HIDE DEF Q
    <3> QED BY <1>10 DEF RecentWindows
  <2> HIDE DEF Q, at, rows
  <2> QED BY <1>9, <2>1 DEF Latest
<1>13. ~(Cardinality(P) < 2) /\ ~(Cardinality(Q) < 2)
  <2> HIDE DEF P, Q
  <2>1. Cardinality(P) < 2 => FormIndex(s, p) = {}
    BY <1>10 DEF FormIndex
  <2> QED BY <1>7, <2>1
<1>14. {f.form_rating : f \in FormIndex(s, p)} = Ratings(rows, RecentWindows(s, p))
  <2> HIDE DEF P, Q, at
  <2> DEFINE Form(w) == Impact(rows, w) * Cardinality(FormMatches(s, p))
             Season(w) == Impact(rows, FormMatches(s, p)) * Cardinality(w)
             Trend(w) == CASE Season(w) > 0 /\ 100 * Form(w) > 105 * Season(w) -> "rising"
                           [] Season(w) > 0 /\ 100 * Form(w) < 95 * Season(w) -> "falling"
                           [] OTHER -> "stable"
             Average(w) == <<Impact(rows, w), Cardinality(w)>>
             Value(w) == [form_rating |-> Average(w), trend |-> Trend(w)]
             windows == RecentWindows(s, p)
  <2>1. ~(Cardinality(FormMatches(s, p)) < 2)
    BY <1>10, <1>13
  <2>2. FormIndex(s, p) = {Value(w) : w \in windows}
    BY <2>1, Zenon DEF FormIndex
  <2>3. \A w : Value(w).form_rating = Average(w)
    <3> HIDE DEF Trend, Average
    <3> QED OBVIOUS
  <2>4. Ratings(rows, windows) = {Average(w) : w \in windows}
    BY Zenon
  <2> HIDE DEF Value, Average, windows, Ratings
  <2>5. {f.form_rating : f \in {Value(w) : w \in windows}} = {Average(w) : w \in windows}
    BY <2>3
  <2> QED BY <2>2, <2>4, <2>5 DEF windows
<1>15. {f.form_rating : f \in FormIndex(s, p)'} = Ratings(rows', RecentWindows(s, p)')
  <2> HIDE DEF P, Q, at
  <2> DEFINE Form(w) == Impact(rows', w) * Cardinality(FormMatches(s, p)')
             Season(w) == Impact(rows', FormMatches(s, p)') * Cardinality(w)
             Trend(w) == CASE Season(w) > 0 /\ 100 * Form(w) > 105 * Season(w) -> "rising"
                           [] Season(w) > 0 /\ 100 * Form(w) < 95 * Season(w) -> "falling"
                           [] OTHER -> "stable"
             Average(w) == <<Impact(rows', w), Cardinality(w)>>
             Value(w) == [form_rating |-> Average(w), trend |-> Trend(w)]
             windows == RecentWindows(s, p)'
  <2>1. ~(Cardinality(FormMatches(s, p)') < 2)
    BY <1>10, <1>13
  <2>2. FormIndex(s, p)' = {Value(w) : w \in windows}
    BY <2>1, Zenon DEF FormIndex
  <2>3. \A w : Value(w).form_rating = Average(w)
    <3> HIDE DEF Trend, Average
    <3> QED OBVIOUS
  <2>4. Ratings(rows', windows) = {Average(w) : w \in windows}
    BY Zenon
  <2> HIDE DEF Value, Average, windows, Ratings
  <2>5. {f.form_rating : f \in {Value(w) : w \in windows}} = {Average(w) : w \in windows}
    BY <2>3
  <2> QED BY <2>2, <2>4, <2>5 DEF windows
<1>16. RecentWindows(s, p) # {}
  <2>1. RecentWindows(s, p) = {} => Ratings(rows, RecentWindows(s, p)) = {}
    <3> HIDE DEF Impact
    <3> QED OBVIOUS
  <2>2. {f.form_rating : f \in FormIndex(s, p)} # {}
    OBVIOUS
  <2> HIDE DEF Ratings
  <2> QED BY <1>14, <2>1, <2>2
<1>17. RecentWindows(s, p)' = RecentWindows(s, p)
  <2>1. \A w \in Latest(P, at) : w \subseteq P
    BY DEF Latest
  <2>2. at[g] = games'[g].lines[p].at
    OBVIOUS
  <2>3. \A w \in RecentWindows(s, p) : Cardinality(w) = Window
            /\ \A h \in w : games'[g].lines[p].at < rows[<<h, p>>].line.at
    OBVIOUS
  <2> HIDE DEF P, Q, at, rows
  <2>4. \A w \in Latest(P, at) : Cardinality(w) = Window /\ \A h \in w : at[g] < at[h]
    BY <1>9, <1>11, <2>1, <2>2, <2>3
  <2>5. Latest(P \cup {g}, at) = Latest(P, at)
    BY <1>5, <1>7, <1>9, <1>11, <1>16, <2>4, LatestStay
  <2> QED BY <1>6, <1>11, <1>12, <2>5
<1>18. \A w \in RecentWindows(s, p) : Impact(rows', w) = Impact(rows, w)
  <2> TAKE w \in RecentWindows(s, p)
  <2>1. w \subseteq P
    <3> HIDE DEF P, at
    <3> QED BY <1>11 DEF Latest
  <2>2. \A h \in w : rows'[<<h, p>>].line = rows[<<h, p>>].line
    <3> HIDE DEF P, rows
    <3> QED BY <1>8, <2>1
  <2> HIDE DEF rows
  <2>3. [h \in w |-> rows'[<<h, p>>].line.points - rows'[<<h, p>>].line.turnovers]
          = [h \in w |-> rows[<<h, p>>].line.points - rows[<<h, p>>].line.turnovers]
    BY <2>2
  <2> QED BY <2>3
<1>19. Ratings(rows', RecentWindows(s, p)) = Ratings(rows, RecentWindows(s, p))
  <2> DEFINE windows == RecentWindows(s, p)
  <2> HIDE DEF Impact, rows, windows
  <2> QED BY <1>18 DEF windows
<1> HIDE DEF Ratings
<1> QED BY <1>14, <1>15, <1>17, <1>19

\* The order in which results arrive does not show: not in the rating, and not in the
\* recent form when the late line's own time is before those of a full window.
THEOREM LateResultAlwaysKeepsRating == StatisticsSpec => LateResultKeepsRating
<1> DEFINE A == \A s \in Seasons, p \in Players, g \in Games :
        LET old  == SelectWindow(LinesOf(s, p))
            At(h) == sql.pg.players[<<h, p>>].line.at
        IN  p \notin DOMAIN games[g].lines /\ p \in DOMAIN games'[g].lines =>
              /\ Cardinality(old) = Window /\ (\A h \in old : Fixture[g].at < Fixture[h].at) =>
                    PlayerRating(p, SelectWindow(LinesOf(s, p)))' = PlayerRating(p, old)
              /\ /\ FormIndex(s, p) # {} /\ <<g, p>> \notin DOMAIN sql.pg.players
                 /\ \A w \in RecentWindows(s, p) :
                      /\ Cardinality(w) = Window
                      /\ \A h \in w : games'[g].lines[p].at < At(h)
                 => {f.form_rating : f \in FormIndex(s, p)'}
                      = {f.form_rating : f \in FormIndex(s, p)}
<1>1. StatisticsInv /\ StatisticsInv' /\ [StatisticsNext]_statisticsVars => A
  <2> SUFFICES ASSUME StatisticsInv, StatisticsInv', [StatisticsNext]_statisticsVars,
                      NEW s \in Seasons, NEW p \in Players, NEW g \in Games,
                      p \notin DOMAIN games[g].lines, p \in DOMAIN games'[g].lines
               PROVE  LET old  == SelectWindow(LinesOf(s, p))
                          At(h) == sql.pg.players[<<h, p>>].line.at
                      IN  /\ Cardinality(old) = Window /\ (\A h \in old : Fixture[g].at < Fixture[h].at) =>
                                PlayerRating(p, SelectWindow(LinesOf(s, p)))' = PlayerRating(p, old)
                          /\ /\ FormIndex(s, p) # {} /\ <<g, p>> \notin DOMAIN sql.pg.players
                             /\ \A w \in RecentWindows(s, p) :
                                  /\ Cardinality(w) = Window
                                  /\ \A h \in w : games'[g].lines[p].at < At(h)
                             => {f.form_rating : f \in FormIndex(s, p)'}
                                  = {f.form_rating : f \in FormIndex(s, p)}
    BY Zenon
  <2>1. s \in STRING \ {"none"} /\ p \in Nat
    BY StatisticsAssumption DEF Seasons
  <2>2. Cardinality(SelectWindow(LinesOf(s, p))) = Window
        /\ (\A h \in SelectWindow(LinesOf(s, p)) : Fixture[g].at < Fixture[h].at) =>
           PlayerRating(p, SelectWindow(LinesOf(s, p)))' = PlayerRating(p, SelectWindow(LinesOf(s, p)))
    BY LateRating
  <2>3. /\ FormIndex(s, p) # {} /\ <<g, p>> \notin DOMAIN sql.pg.players
        /\ \A w \in RecentWindows(s, p) :
             /\ Cardinality(w) = Window
             /\ \A h \in w : games'[g].lines[p].at < sql.pg.players[<<h, p>>].line.at
        => {f.form_rating : f \in FormIndex(s, p)'} = {f.form_rating : f \in FormIndex(s, p)}
    BY <2>1, LateForm
  <2> QED BY <2>2, <2>3, Zenon
<1>2. StatisticsInv /\ StatisticsInv' /\ [StatisticsNext]_statisticsVars => [A]_statisticsVars
  BY <1>1
<1> QED BY <1>2, StatisticsInvariant, PTL DEF StatisticsSpec, LateResultKeepsRating

================================================================================
