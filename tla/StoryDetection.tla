---------------------------- MODULE StoryDetection ----------------------------
(***************************************************************************)
(* What the content engine sees in a round: the detectors of insights.py,  *)
(* season_insights.py and season_aggregate.py, run over a DetectionContext *)
(* of matches, player lines, season history and roster, and the stories    *)
(* they emit.                                                              *)
(*                                                                         *)
(* Ids are numbers, so that they compare as the strings do; 0 is an id or  *)
(* a name that is not known, and -1 a column the boxscore does not carry.  *)
(* The FEB Rating of a line that can be rated is its mark: the calibrated  *)
(* curve is left out, who is rated is not.  Labels of a card that follow   *)
(* from its type are left out of the facts.                                *)
(***************************************************************************)
EXTENDS Integers, SequencesExt

CONSTANTS
    Floors,        \* the thresholds of the detectors, by name
    Positions,     \* the court positions, in the order of the court template
    QuintetSize    \* players of a quintet (5, as many as there are positions)

Smaller(a, b) == IF a < b THEN a ELSE b

\* Comparison of keys, which Python's max and sorted do on tuples
Beats(a, b) == \E i \in DOMAIN a : a[i] > b[i] /\ \A j \in 1..(i - 1) : a[j] = b[j]

\* A sequence or a function as a table: the same value, which TLC computes once
AsTuple(s) == << >> \o s
Plain == [f \in {} |-> 0]
AsTable(f) == Plain @@ f

\* s from the highest key to the lowest; equals stay in the order they came
Ranked(s, Key(_)) ==
    LET keys  == AsTuple([i \in DOMAIN s |-> Append(Key(s[i]), -i)])
        order == SortSeq([i \in DOMAIN s |-> i], LAMBDA i, j : Beats(keys[i], keys[j]))
    IN  AsTuple([k \in DOMAIN s |-> s[order[k]]])

Best(s, Key(_)) == Ranked(s, Key)[1]
Top(s, n) == SubSeq(s, 1, Smaller(n, Len(s)))
Each(s, Op(_)) == AsTuple([i \in DOMAIN s |-> Op(s[i])])

-----------------------------------------------------------------------------
(* Lines, matches and roster *)

\* PlayerLineInput.impact_score, in tenths
Impact(l) ==
    10 * l.points + 12 * l.rebounds + 15 * l.assists + 20 * l.steals + 15 * l.blocks
      - 10 * l.turnovers

\* feb_rating: no mark below the minimum of minutes or without shooting
Rating(l) ==
    IF l.minutes < Floors.rated_minutes \/ l.fgm = -1 \/ l.fga = -1 THEN -1 ELSE l.mark

DoubleDigits(l) ==
    Cardinality({c \in {"points", "rebounds", "assists", "steals", "blocks"} :
                    l[c] >= Floors.double})

Margin(m) == IF m.home_score >= m.away_score THEN m.home_score - m.away_score
                                             ELSE m.away_score - m.home_score
WinnerSide(m) == IF m.home_score >= m.away_score THEN "home" ELSE "away"
WinnerName(m) == IF WinnerSide(m) = "home" THEN m.home_name ELSE m.away_name
LoserName(m) == IF WinnerSide(m) = "home" THEN m.away_name ELSE m.home_name
Winner(m) == IF WinnerSide(m) = "home" THEN m.home ELSE m.away
Loser(m) == IF WinnerSide(m) = "home" THEN m.away ELSE m.home

\* LeagueBio: a record per player of the season that the catalog knows
HasBio(bio) ==
    \E p \in DOMAIN bio : bio[p].country # 0 \/ bio[p].born # 0 \/ bio[p].position # 0

PositionOf(bio, p) == IF p \in DOMAIN bio THEN bio[p].position ELSE 0

Countrymen(bio, p) ==
    IF p \notin DOMAIN bio \/ bio[p].country = 0 THEN 0
    ELSE Cardinality({q \in DOMAIN bio : bio[q].country = bio[p].country})

\* Full years on a day, -1 without a birth date
AgeOn(bio, p, day) ==
    IF p \notin DOMAIN bio \/ bio[p].born = 0 THEN -1 ELSE (day - bio[p].born) \div Floors.year

-----------------------------------------------------------------------------
(* Stories *)

\* The season is left out of the identity: there is one.
Story(type, round, player, team, match, facts) ==
    [type |-> type, round |-> round, player |-> player, team |-> team,
     match |-> match, facts |-> facts]

\* identity_key: the entities and the hash of the facts are both part of it
Identity(s) == <<s.type, s.round, s.player, s.team, s.match, s.facts>>

PlayerFacts(l) ==
    [f \in {"player", "name", "team", "team_name", "points", "rebounds", "assists",
            "steals", "blocks", "turnovers", "minutes", "match"} |-> l[f]]
      @@ [impact_score |-> Impact(l), rating |-> Rating(l)]

PlayerStory(type, round, l, extra) ==
    Story(type, round, l.player, l.team, l.match, extra @@ PlayerFacts(l))

MatchFacts(m) ==
    [home |-> m.home, away |-> m.away, home_name |-> m.home_name, away_name |-> m.away_name,
     home_score |-> m.home_score, away_score |-> m.away_score, margin |-> Margin(m)]

MatchStory(type, round, m, extra) ==
    Story(type, round, 0, 0, m.match, extra @@ MatchFacts(m))

RoundStory(type, round, facts) == Story(type, round, 0, 0, 0, facts)

\* The best of the eligible lines, if any: a single-player detector
Star(ctx, type, Eligible(_), Key(_), Extra(_)) ==
    LET lines == SelectSeq(ctx.lines, Eligible)
        l     == Best(lines, Key)
    IN  IF lines = << >> THEN << >> ELSE <<PlayerStory(type, ctx.round, l, Extra(l))>>

-----------------------------------------------------------------------------
(* Round scope *)

DetectMatchFinal(ctx) ==
    LET Final(m) == MatchStory("match_final", ctx.round, m, [day |-> m.day])
    IN  Each(ctx.matches, Final)

DetectPlayerOfRound(ctx) ==
    Star(ctx, "player_of_round", LAMBDA l : TRUE, LAMBDA l : <<Impact(l), l.points>>,
         LAMBDA l : Plain)

DetectBiggestWin(ctx) ==
    LET m == Best(ctx.matches, LAMBDA g : <<Margin(g)>>)
    IN  IF ctx.matches = << >> THEN << >>
        ELSE IF Margin(m) < Floors.blowout THEN << >>
        ELSE <<MatchStory("biggest_win", ctx.round, m, [day |-> m.day])>>

DetectNotablePerformances(ctx) ==
    LET Notable(l) == PlayerStory(
            IF DoubleDigits(l) >= 3 THEN "triple_double" ELSE "double_double",
            ctx.round, l, [double_digit_count |-> DoubleDigits(l)])
    IN  Each(SelectSeq(ctx.lines, LAMBDA l : DoubleDigits(l) >= 2), Notable)

LineupRow(l) ==
    [player |-> l.player, name |-> l.name, team |-> l.team, team_name |-> l.team_name,
     points |-> l.points, rebounds |-> l.rebounds, assists |-> l.assists, rating |-> Rating(l)]

DetectStatLeaderboard(ctx) ==
    LET leaders == Top(Ranked(ctx.lines, LAMBDA l : <<l.points, -l.player>>), 5)
    IN  IF Len(ctx.lines) < 3 THEN << >>
        ELSE <<RoundStory("stat_leaderboard", ctx.round,
                          [leaders |-> Each(leaders, LineupRow), count |-> Len(leaders)])>>

\* Never padded with a line that cannot be rated
DetectBestFive(ctx) ==
    LET rated == SelectSeq(ctx.lines, LAMBDA l : Rating(l) # -1)
        top   == Top(Ranked(rated, LAMBDA l : <<Rating(l), l.points, -l.player>>), QuintetSize)
    IN  IF Len(rated) < QuintetSize THEN << >>
        ELSE <<RoundStory("best_five", ctx.round,
                          [lineup |-> Each(top, LineupRow), count |-> QuintetSize])>>

DetectIronMan(ctx) ==
    Star(ctx, "iron_man", LAMBDA l : l.minutes >= Floors.minutes,
         LAMBDA l : <<l.minutes, l.points>>, LAMBDA l : [hero_value |-> l.minutes])

DetectPlaymaker(ctx) ==
    Star(ctx, "playmaker", LAMBDA l : l.assists >= Floors.assists,
         LAMBDA l : <<l.assists, l.points>>, LAMBDA l : [hero_value |-> l.assists])

DetectDefensiveAnchor(ctx) ==
    LET Actions(l) == l.steals + l.blocks
    IN  Star(ctx, "defensive_anchor", LAMBDA l : Actions(l) >= Floors.defence,
             LAMBDA l : <<Actions(l), l.points>>,
             LAMBDA l : [defensive_actions |-> Actions(l), hero_value |-> Actions(l)])

\* three_point_pct is rounded to a tenth of a per cent.
DetectSharpshooter(ctx) ==
    LET Accuracy(l) == IF l.tpa <= 0 THEN 0 ELSE (2000 * l.tpm + l.tpa) \div (2 * l.tpa)
    IN  Star(ctx, "sharpshooter", LAMBDA l : l.fga # -1 /\ l.tpm >= Floors.threes,
             LAMBDA l : <<l.tpm, Accuracy(l), l.points>>,
             LAMBDA l : [three_points_made |-> l.tpm, three_points_attempted |-> l.tpa,
                         hero_value |-> l.tpm])

DetectPerfectNight(ctx) ==
    Star(ctx, "perfect_night", LAMBDA l : l.fga >= Floors.attempts /\ l.fgm = l.fga,
         LAMBDA l : <<l.fga, l.points>>,
         LAMBDA l : [field_goals_made |-> l.fgm, field_goals_attempted |-> l.fga,
                     hero_value |-> l.points])

\* The two best scorers of a team in a match; teams in the order they first appear
DetectBestDuo(ctx) ==
    LET SameSide(k, l) == k.match = l.match /\ k.team = l.team
        Pair(l)  == Top(Ranked(SelectSeq(ctx.lines, LAMBDA k : SameSide(k, l)),
                               LAMBDA k : <<k.points, -k.player>>), 2)
        Sum(l)   == Pair(l)[1].points + Pair(l)[2].points
        paired   == SelectSeq(ctx.lines, LAMBDA l : Len(Pair(l)) = 2)
        l        == Best(paired, LAMBDA k : <<Sum(k)>>)
        Member(k) == [player |-> k.player, name |-> k.name, points |-> k.points,
                      rating |-> Rating(k)]
    IN  IF paired = << >> THEN << >>
        ELSE IF Sum(l) < Floors.duo THEN << >>
        ELSE <<Story("best_duo", ctx.round, 0, l.team, l.match,
                     [p1 |-> Member(Pair(l)[1]), p2 |-> Member(Pair(l)[2]),
                      team_name |-> l.team_name, p1_points |-> Pair(l)[1].points,
                      p2_points |-> Pair(l)[2].points, combined_points |-> Sum(l)])>>

-----------------------------------------------------------------------------
(* Bio scope: every one of these skips without a roster *)

DetectBestFiveIdeal(ctx) ==
    LET At(pos) == SelectSeq(ctx.lines, LAMBDA l : PositionOf(ctx.bio, l.player) = pos
                                                   /\ Rating(l) # -1)
        Row(pos) == [position |-> pos]
                      @@ LineupRow(Best(At(pos), LAMBDA l : <<Rating(l), l.points>>))
    IN  IF ~HasBio(ctx.bio) \/ \E i \in DOMAIN Positions : At(Positions[i]) = << >> THEN << >>
        ELSE <<RoundStory("best_five_ideal", ctx.round,
                          [lineup |-> Each(Positions, Row), count |-> QuintetSize])>>

DetectLoneFlag(ctx) ==
    Star(ctx, "lone_flag",
         LAMBDA l : l.points >= Floors.flag /\ Countrymen(ctx.bio, l.player) = 1,
         LAMBDA l : <<Impact(l), l.points>>,
         LAMBDA l : [nationality |-> ctx.bio[l.player].country, hero_value |-> l.points])

\* _round_reference_date
ReferenceDay(ctx) == Max({ctx.matches[i].day : i \in DOMAIN ctx.matches})

\* _age_story: the first by sign * age of those who scored and are past the floor
AgeStory(ctx, type, sign, floor) ==
    LET Age(l) == AgeOn(ctx.bio, l.player, ReferenceDay(ctx))
    IN  IF ctx.matches = << >> THEN << >>
        ELSE Star(ctx, type,
                  LAMBDA l : l.points >= Floors.curio /\ Age(l) # -1 /\ sign * Age(l) >= floor,
                  LAMBDA l : <<sign * Age(l), l.points>>,
                  LAMBDA l : [age |-> Age(l), hero_value |-> Age(l)])

DetectYoungGun(ctx) == AgeStory(ctx, "young_gun", -1, -Floors.young)
DetectVeteran(ctx) == AgeStory(ctx, "veteran", 1, Floors.veteran)

-----------------------------------------------------------------------------
(* Season scope *)

\* The scorer's own log, this round's game included: a tie is not a new high.
DetectSeasonHighs(ctx) ==
    LET Points(l) == Each(ctx.context.log[l.player], LAMBDA g : g.points)
        Others(l) == {Points(l)[i] : i \in DOMAIN Points(l)} \ {l.points}
        IsHigh(l) ==
            /\ l.points >= Floors.high
            /\ Len(Points(l)) >= Floors.prior_games + 1
            /\ \A v \in Others(l) : v < l.points
            /\ Cardinality({i \in DOMAIN Points(l) : Points(l)[i] = l.points}) = 1
        High(l) == PlayerStory("season_high", ctx.round, l,
                     [previous_best |-> Max(Others(l)), games_played |-> Len(Points(l))])
    IN  Each(SelectSeq(ctx.lines, IsHigh), High)

\* _tail_run and _longest_run over the verdicts on the games of a log, oldest first
RunAt(held, i, n) == \A k \in 1..n : held[i + k]
TailRun(held) == Max({n \in 0..Len(held) : RunAt(held, Len(held) - n, n)})
LongestRun(held) ==
    Max({n \in 0..Len(held) : \E i \in 0..(Len(held) - n) : RunAt(held, i, n)})

\* _current_streak: the run of equal results that ends with the last round played
CurrentStreak(results) ==
    LET won == results[Len(results)].won
    IN  [kind |-> IF won THEN "win" ELSE "loss",
         length |-> TailRun(Each(results, LAMBDA r : r.won = won))]

\* The teams of the round, each once, in the order of the matches
RoundTeams(matches) ==
    LET At(i) == IF i % 2 = 1 THEN [team |-> matches[(i + 1) \div 2].home,
                                    name |-> matches[(i + 1) \div 2].home_name]
                              ELSE [team |-> matches[i \div 2].away,
                                    name |-> matches[i \div 2].away_name]
        all == AsTuple([i \in 1..(2 * Len(matches)) |-> At(i) @@ [place |-> i]])
    IN  SelectSeq(all, LAMBDA t : \A i \in 1..(t.place - 1) : all[i].team # t.team)

DetectStreaks(ctx) ==
    LET Streak(t) == CurrentStreak(ctx.context.results[t.team])
        OnStreak(t) == /\ ctx.context.results[t.team] # << >>
                       /\ Streak(t).length >= Floors.streak
        Told(t) == Story(IF Streak(t).kind = "win" THEN "win_streak" ELSE "loss_streak",
                         ctx.round, 0, t.team, 0,
                         [team_name |-> t.name, streak_kind |-> Streak(t).kind,
                          streak_length |-> Streak(t).length])
    IN  Each(SelectSeq(RoundTeams(ctx.matches), OnStreak), Told)

DetectUpsets(ctx) ==
    LET rank == ctx.context.rank
        Gap(m) == rank[Winner(m)] - rank[Loser(m)]
        IsUpset(m) == {Winner(m), Loser(m)} \subseteq DOMAIN rank /\ Gap(m) >= Floors.rank_gap
        Upset(m) == MatchStory("upset", ctx.round, m,
                      [winner_name |-> WinnerName(m), loser_name |-> LoserName(m),
                       winner_rank |-> rank[Winner(m)], rank_gap |-> Gap(m)])
    IN  Each(SelectSeq(ctx.matches, IsUpset), Upset)

\* _streak_story: no match among its entities; the figures are this round's
StreakStory(ctx, type, l, held) ==
    Story(type, ctx.round, l.player, l.team, 0,
          [player |-> l.player, player_name |-> l.name, team_name |-> l.team_name,
           streak_kind |-> type, streak_length |-> LongestRun(held),
           is_active |-> TailRun(held) >= LongestRun(held),
           points |-> l.points, rebounds |-> l.rebounds, assists |-> l.assists,
           impact_score |-> Impact(l)])

\* For every player of the round (his last line), scoring first
DetectPlayerStreaks(ctx) ==
    LET Log(l) == ctx.context.log[l.player]
        Scored(l) == Each(Log(l), LAMBDA g : g.points >= Floors.run_points)
        Doubled(l) == Each(Log(l), LAMBDA g : DoubleDigits(g) >= 2)
        last == [i \in DOMAIN ctx.lines |->
                    \A j \in (i + 1)..Len(ctx.lines) : ctx.lines[j].player # ctx.lines[i].player]
        lines == SelectSeq([i \in DOMAIN ctx.lines |-> [last |-> last[i]] @@ ctx.lines[i]],
                           LAMBDA l : l.last /\ Log(l) # << >>)
        scoring == SelectSeq(lines, LAMBDA l : LongestRun(Scored(l)) >= Floors.scoring_run)
        doubles == SelectSeq(lines, LAMBDA l : LongestRun(Doubled(l)) >= Floors.double_run)
    IN  Each(scoring, LAMBDA l : StreakStory(ctx, "player_streak_scoring", l, Scored(l)))
          \o Each(doubles, LAMBDA l : StreakStory(ctx, "player_streak_dd", l, Doubled(l)))

\* _season_leader of a column; never of a player with too few games
SeasonLeader(ctx, type, column) ==
    LET eligible == SelectSeq(ctx.season.players,
                              LAMBDA p : p.games >= Floors.leader_games /\ p[column] > 0)
        p == Best(eligible, LAMBDA q : <<q[column], q.player>>)
    IN  IF eligible = << >> THEN << >>
        ELSE <<Story(type, ctx.round, p.player, p.team, 0,
                [player |-> p.player, name |-> p.name, team_name |-> p.team_name,
                 points |-> p.points, rebounds |-> p.rebounds, assists |-> p.assists,
                 games_played |-> p.games, season_total |-> p[column],
                 impact_score |-> 10 * p.points + 12 * p.rebounds + 15 * p.assists])>>

DetectSeasonScoringLeader(ctx) == SeasonLeader(ctx, "top_scorer", "points")
DetectSeasonReboundingLeader(ctx) == SeasonLeader(ctx, "top_rebounder", "rebounds")
DetectSeasonAssistLeader(ctx) == SeasonLeader(ctx, "top_assist_provider", "assists")

\* season_quintet_min_games: at least 60% of the rounds so far
QuintetFloor(round) == Max({Floors.quintet_games, (6 * round + 9) \div 10})

\* The players a season quintet may take, with their season FEB Rating
SeasonRated(ctx) ==
    SelectSeq(ctx.season.players, LAMBDA p : p.player \in DOMAIN ctx.season.feb
                                             /\ p.games >= QuintetFloor(ctx.round))

SeasonRow(ctx, p) ==
    [player |-> p.player, name |-> p.name, team |-> p.team, team_name |-> p.team_name,
     points |-> p.points, rebounds |-> p.rebounds, assists |-> p.assists,
     games_played |-> p.games, rating |-> ctx.season.feb[p.player]]

DetectSeasonBestFive(ctx) ==
    LET top == Top(Ranked(SeasonRated(ctx),
                          LAMBDA p : <<ctx.season.feb[p.player], p.points, -p.player>>), QuintetSize)
    IN  IF Len(top) < QuintetSize THEN << >>
        ELSE <<RoundStory("best_five_season", ctx.round,
                 [lineup |-> Each(top, LAMBDA p : SeasonRow(ctx, p)), count |-> QuintetSize])>>

DetectSeasonBestFiveIdeal(ctx) ==
    LET At(pos) == SelectSeq(SeasonRated(ctx), LAMBDA p : PositionOf(ctx.bio, p.player) = pos)
        Row(pos) == [position |-> pos] @@
            SeasonRow(ctx, Best(At(pos), LAMBDA p : <<ctx.season.feb[p.player], p.points>>))
    IN  IF \E i \in DOMAIN Positions : At(Positions[i]) = << >> THEN << >>
        ELSE <<RoundStory("best_five_ideal_season", ctx.round,
                          [lineup |-> Each(Positions, Row), count |-> QuintetSize])>>

-----------------------------------------------------------------------------
(* The recap of the round and the registry *)

\* A hero, the top performance and up to three tiles; no recap below three of them.
\* The hero is the biggest win when the best scorer is the top performer too.
DetectRoundRecap(ctx) ==
    LET top     == DetectPlayerOfRound(ctx)
        biggest == DetectBiggestWin(ctx)
        scorer  == Best(ctx.lines, LAMBDA l : <<l.points>>)
        byScore == /\ ctx.lines # << >> /\ scorer.points > 0
                   /\ scorer.player # top[1].player
        WinName(f) == IF f.home_score >= f.away_score THEN f.home_name ELSE f.away_name
        hero    == IF byScore THEN <<[value |-> scorer.points, name |-> scorer.name]>>
                   ELSE IF biggest = << >> THEN << >>
                   ELSE <<[value |-> biggest[1].facts.margin, name |-> WinName(biggest[1].facts)]>>
        wins    == SelectSeq(DetectStreaks(ctx), LAMBDA s : s.type = "win_streak")
        longest == Best(wins, LAMBDA s : <<s.facts.streak_length>>)
        High(m) == Max({m.home_score, m.away_score})
        scoring == Best(ctx.matches, LAMBDA m : <<High(m)>>)
        tiles   == (IF biggest # << >> /\ byScore
                    THEN <<[value |-> biggest[1].facts.margin, name |-> WinName(biggest[1].facts)]>>
                    ELSE << >>)
                   \o (IF wins = << >> THEN << >>
                       ELSE <<[value |-> longest.facts.streak_length,
                               name |-> longest.facts.team_name]>>)
                   \o <<[value |-> High(scoring), name |-> WinnerName(scoring)]>>
    IN  IF ctx.matches = << >> THEN << >>
        ELSE IF Len(top) + Len(hero) + Len(tiles) < 3 THEN << >>
        ELSE <<RoundStory("round_recap", ctx.round,
                 [matches_played |-> Len(ctx.matches), hero |-> hero, tiles |-> tiles,
                  top |-> Each(top, LAMBDA s : s.facts)])>>

\* run_detectors, scope by scope
RoundScope(ctx) ==
    DetectMatchFinal(ctx) \o DetectPlayerOfRound(ctx) \o DetectRoundRecap(ctx)
      \o DetectBiggestWin(ctx) \o DetectNotablePerformances(ctx) \o DetectStatLeaderboard(ctx)
      \o DetectBestFive(ctx) \o DetectIronMan(ctx) \o DetectPlaymaker(ctx)
      \o DetectDefensiveAnchor(ctx) \o DetectSharpshooter(ctx) \o DetectPerfectNight(ctx)
      \o DetectBestDuo(ctx)

BioScope(ctx) ==
    DetectBestFiveIdeal(ctx) \o DetectLoneFlag(ctx) \o DetectYoungGun(ctx) \o DetectVeteran(ctx)

SeasonScope(ctx) ==
    DetectSeasonHighs(ctx) \o DetectStreaks(ctx) \o DetectUpsets(ctx)
      \o DetectSeasonScoringLeader(ctx) \o DetectSeasonReboundingLeader(ctx)
      \o DetectSeasonAssistLeader(ctx) \o DetectSeasonBestFive(ctx)
      \o DetectSeasonBestFiveIdeal(ctx) \o DetectPlayerStreaks(ctx)

RunDetectors(ctx) == RoundScope(ctx) \o BioScope(ctx) \o SeasonScope(ctx)
=============================================================================
