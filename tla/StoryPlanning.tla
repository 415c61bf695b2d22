---------------------------- MODULE StoryPlanning -----------------------------
(***************************************************************************)
(* From a detected story to a card: the score and the caps of planner.py,  *)
(* the copy generators of copy.py, the fact and visual validators and the  *)
(* review policy.                                                          *)
(*                                                                         *)
(* Of a generated text only what it takes from the facts counts: the facts *)
(* it indexes and the names it prints.  Numbered holds the players and     *)
(* teams whose name has a number standing free in it.                      *)
(***************************************************************************)
EXTENDS StoryDetection

CONSTANTS
    Numbered,      \* ids whose display name carries a free-standing number
    MaxPerType,    \* MAX_PER_STORY_TYPE
    MaxPerSubject  \* MAX_PER_SUBJECT

ASSUME PlanningAssumption == MaxPerType \in Nat /\ MaxPerSubject \in Nat

-----------------------------------------------------------------------------
(* The planner *)

\* TYPE_IMPORTANCE; the season quintets are not in the table
Importance ==
    [round_recap |-> 90, stat_leaderboard |-> 80, player_of_round |-> 88, triple_double |-> 95,
     season_high |-> 85, biggest_win |-> 78, upset |-> 82, win_streak |-> 70, loss_streak |-> 55,
     top_scorer |-> 70, top_rebounder |-> 60, top_assist_provider |-> 60, double_double |-> 55,
     match_final |-> 50, iron_man |-> 58, sharpshooter |-> 74, perfect_night |-> 80,
     playmaker |-> 60, defensive_anchor |-> 72, lone_flag |-> 76, young_gun |-> 74,
     veteran |-> 70, best_five |-> 80, best_five_ideal |-> 82, best_duo |-> 72,
     player_streak_scoring |-> 84, player_streak_dd |-> 86]

\* The values of the story types, as strings are ordered
TypesInOrder ==
    <<"best_duo", "best_five", "best_five_ideal", "best_five_ideal_season", "best_five_season",
      "biggest_win", "defensive_anchor", "double_double", "iron_man", "lone_flag", "loss_streak",
      "match_final", "perfect_night", "player_of_round", "player_streak_dd",
      "player_streak_scoring", "playmaker", "round_recap", "season_high", "sharpshooter",
      "stat_leaderboard", "top_assist_provider", "top_rebounder", "top_scorer",
      "triple_double", "upset", "veteran", "win_streak", "young_gun">>
TypeRank(type) == CHOOSE i \in DOMAIN TypesInOrder : TypesInOrder[i] = type

\* Less when the queue already holds a card of this type for the round
Novelty(s, seen) ==
    LET base == IF s.type \in {"season_high", "triple_double", "upset"} THEN 95
                ELSE IF s.type \in {"biggest_win", "player_of_round"} THEN 70 ELSE 50
    IN  IF s.type \in seen THEN base - 40 ELSE base

\* impact_score is in tenths; int() truncates towards zero
StatisticalStrength(s) ==
    IF "impact_score" \in DOMAIN s.facts
    THEN IF s.facts.impact_score < 0 THEN -((-s.facts.impact_score) \div 5)
         ELSE Smaller(100, s.facts.impact_score \div 5)
    ELSE IF "margin" \in DOMAIN s.facts THEN Smaller(100, 3 * s.facts.margin)
    ELSE 50

VisualStrength(s) ==
    IF s.type \in {"player_of_round", "triple_double", "season_high"} THEN 90
    ELSE IF s.type = "round_recap" THEN 75
    ELSE IF s.type = "match_final" THEN 65 ELSE 60

EditorialStrength(s) ==
    IF s.type \in {"upset", "win_streak"} THEN 90
    ELSE IF s.type = "round_recap" THEN 80
    ELSE IF s.type = "player_of_round" THEN 70 ELSE 50

\* ScoreBreakdown.total, rounded; the float rounding of an exact half is not modelled
Priority(s, seen) ==
    LET importance == IF s.type \in DOMAIN Importance THEN Importance[s.type] ELSE 50
    IN  (30 * importance + 15 * Novelty(s, seen) + 20 * StatisticalStrength(s)
           + 15 * VisualStrength(s) + 20 * EditorialStrength(s) + 50) \div 100

\* _subject_of: the player, else the team, else the match; a recap is about nobody
Subject(s) ==
    IF s.player # 0 THEN <<"player", s.player>>
    ELSE IF s.team # 0 THEN <<"team", s.team>>
    ELSE IF s.match # 0 THEN <<"match", s.match>> ELSE << >>

SameType(picked, s) == {i \in DOMAIN picked : picked[i].type = s.type}
SameSubject(picked, s) == {i \in DOMAIN picked : Subject(picked[i]) = Subject(s)}

\* Mutant: the same player may fill the batch.
HasRoomForSubject(picked, s, topN) ==
    /\ Cardinality({Identity(picked[i]) : i \in DOMAIN picked}) < topN
    /\ Cardinality(SameType(picked, s)) < MaxPerType

HasRoom(picked, s, topN) ==
    /\ Cardinality({Identity(picked[i]) : i \in DOMAIN picked}) < topN
    /\ Cardinality(SameType(picked, s)) < MaxPerType
    /\ Subject(s) # << >> => Cardinality(SameSubject(picked, s)) < MaxPerSubject

\* plan: the selected stories, walking the scored ones from the best down
Plan(stories, topN, seen) ==
    LET scored == Ranked(stories, LAMBDA s : <<Priority(s, seen), -TypeRank(s.type)>>)
        Take(picked, s) == IF HasRoom(picked, s, topN) THEN Append(picked, s) ELSE picked
    IN  FoldLeft(Take, << >>, scored)

-----------------------------------------------------------------------------
(* The copy generators: facts each one indexes, names it prints *)

Text(reads, names) == [reads |-> reads, names |-> names]
Line == {"points", "rebounds", "assists"}

CopyMatchFinal(f) == Text({"home_score", "away_score"}, {f.home_name, f.away_name})
CopyBiggestWin(f) == Text({"home_score", "away_score", "margin"}, {f.home_name, f.away_name})
CopyUpset(f) == Text({"home_score", "away_score"}, {f.home_name, f.away_name, f.winner_name})
CopyPlayerOfRound(f) == Text(Line \cup {"impact_score"}, {f.name})
CopyNotablePerformance(f) == Text(Line, {f.name})
CopySeasonHigh(f) == Text({"points", "previous_best"}, {f.name})
CopyIronMan(f) == Text({"minutes", "points"}, {f.name})
CopyPlaymaker(f) == Text({"assists", "points"}, {f.name})
CopyYoungGun(f) == Text({"age", "points"}, {f.name})
CopyVeteran(f) == Text({"age", "points"}, {f.name})
CopyLoneFlag(f) == Text({"nationality", "points", "rebounds"}, {f.name})
CopyDefensiveAnchor(f) == Text({"steals", "blocks", "defensive_actions", "points"}, {f.name})
CopySharpshooter(f) == Text({"three_points_made", "three_points_attempted"}, {f.name})
CopyPerfectNight(f) == Text({"field_goals_made", "points"}, {f.name})
CopyTopScorer(f) == Text({"points", "games_played"}, {f.name})
CopySeasonAssistLeader(f) == Text({"assists", "games_played"}, {f.name})
CopyTopRebounder(f) == Text({"rebounds", "games_played"}, {f.name})
CopyBestDuo(f) == Text({"p1_points", "p2_points", "combined_points"}, {f.p1.name, f.p2.name})
CopyStreak(f) == Text({"streak_length", "streak_kind"}, {f.team_name})
CopyPlayerStreakScoring(f) == Text({"streak_length"}, {f.player_name, f.team_name})
CopyPlayerStreakDd(f) == Text({"streak_length"}, {f.player_name, f.team_name})
CopyStatLeaderboard(f) == Text({}, {f.leaders[1].name})

\* Every name of the lineup; the 5 in the text is the count among the facts
CopyBestFive(f) == Text({}, {f.lineup[i].name : i \in DOMAIN f.lineup})

\* The names of the hero and of the top performer; of a tile only a first word
CopyRoundRecap(f) ==
    Text({}, {f.hero[i].name : i \in DOMAIN f.hero} \cup {f.top[i].name : i \in DOMAIN f.top})

\* generate_copy: the generator registered for the type
GenerateCopy(s) ==
    CASE s.type = "match_final"      -> CopyMatchFinal(s.facts)
      [] s.type = "player_of_round"  -> CopyPlayerOfRound(s.facts)
      [] s.type = "round_recap"      -> CopyRoundRecap(s.facts)
      [] s.type = "biggest_win"      -> CopyBiggestWin(s.facts)
      [] s.type \in {"double_double", "triple_double"} -> CopyNotablePerformance(s.facts)
      [] s.type = "season_high"      -> CopySeasonHigh(s.facts)
      [] s.type = "upset"            -> CopyUpset(s.facts)
      [] s.type \in {"win_streak", "loss_streak"} -> CopyStreak(s.facts)
      [] s.type = "stat_leaderboard" -> CopyStatLeaderboard(s.facts)
      [] s.type = "iron_man"         -> CopyIronMan(s.facts)
      [] s.type = "playmaker"        -> CopyPlaymaker(s.facts)
      [] s.type \in {"best_five", "best_five_ideal", "best_five_season",
                     "best_five_ideal_season"} -> CopyBestFive(s.facts)
      [] s.type = "defensive_anchor" -> CopyDefensiveAnchor(s.facts)
      [] s.type = "lone_flag"        -> CopyLoneFlag(s.facts)
      [] s.type = "young_gun"        -> CopyYoungGun(s.facts)
      [] s.type = "veteran"          -> CopyVeteran(s.facts)
      [] s.type = "sharpshooter"     -> CopySharpshooter(s.facts)
      [] s.type = "perfect_night"    -> CopyPerfectNight(s.facts)
      [] s.type = "top_scorer"       -> CopyTopScorer(s.facts)
      [] s.type = "top_rebounder"    -> CopyTopRebounder(s.facts)
      [] s.type = "top_assist_provider" -> CopySeasonAssistLeader(s.facts)
      [] s.type = "best_duo"         -> CopyBestDuo(s.facts)
      [] s.type = "player_streak_scoring" -> CopyPlayerStreakScoring(s.facts)
      [] s.type = "player_streak_dd" -> CopyPlayerStreakDd(s.facts)

-----------------------------------------------------------------------------
(* Templates, validators and the review policy *)

\* STORY_TO_TEMPLATE
Template(type) ==
    IF type \in {"match_final", "biggest_win", "upset"} THEN "match_final"
    ELSE IF type \in {"best_five", "best_five_season"} THEN "best_five"
    ELSE IF type \in {"best_five_ideal", "best_five_ideal_season"} THEN "best_five_court"
    ELSE IF type \in {"win_streak", "loss_streak"} THEN "team_streak"
    ELSE IF type \in {"player_streak_scoring", "player_streak_dd"} THEN "player_streak"
    ELSE IF type \in {"round_recap", "stat_leaderboard", "best_duo"} THEN type
    ELSE "player_of_round"

\* The facts each contract requires; the display slots fall back to the ids
RequiredSlots ==
    [match_final |-> {"home_score", "away_score"},
     player_of_round |-> Line \cup {"impact_score"},
     round_recap |-> {"matches_played", "biggest_win_margin", "closest_game_margin"},
     stat_leaderboard |-> {"leaders"},
     best_five |-> {"lineup"}, best_five_court |-> {"lineup"},
     best_duo |-> {"p1_points", "p2_points", "combined_points"},
     team_streak |-> {"streak_kind", "streak_length"},
     player_streak |-> {"streak_length", "streak_kind"}]

\* validate_visual
VisualOk(s) == RequiredSlots[Template(s.type)] \subseteq DOMAIN s.facts

\* validate_copy: every figure of the text comes from the facts, one in a name does not
FactsOk(s) == GenerateCopy(s).names \cap Numbered = {}

\* decide_review
RequiresReview(s, priority) ==
    \/ s.type \in {"triple_double", "season_high", "upset", "round_recap", "player_of_round"}
    \/ priority >= 80

\* _render_and_validate: a fact the generator indexes and does not find fails the card
RenderAndValidate(s, priority) ==
    IF ~(GenerateCopy(s).reads \subseteq DOMAIN s.facts) THEN "FAILED"
    ELSE IF ~(FactsOk(s) /\ VisualOk(s)) THEN "REJECTED"
    ELSE IF RequiresReview(s, priority) THEN "PENDING_REVIEW" ELSE "APPROVED"
=============================================================================
