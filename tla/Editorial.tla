------------------------------- MODULE Editorial -------------------------------
(***************************************************************************)
(* The newsroom: LiveContentAdapter turns the stored matches, statistics   *)
(* and catalog into the inputs of the detectors, RoundPipeline plans a     *)
(* round and queues its cards, and an operator picks cards from a preview. *)
(* Results, corrected boxscores and names arrive between the runs.         *)
(*                                                                         *)
(* A run is one step here: how two requests that queue cards interleave is *)
(* the subject of ContentLifecycle.                                        *)
(***************************************************************************)
EXTENDS StoryPlanning

CONSTANTS
    Programme,   \* Programme[m]: round, day, home and away of the match m, numbered from 1
    Sheets,      \* Sheets[m]: boxscores of m a feed may carry: score, dated, lines
    Roster,      \* Roster[p]: country, born and position of the player, 0 when unknown
    TopN,        \* cards a run may select (5)
    Wanted,      \* bound: story types an operator picks out of a preview
    MaxRuns      \* bound on previews and runs

ASSUME EditorialAssumption ==
    \A m \in DOMAIN Programme : \A k \in DOMAIN Sheets[m] :
        Sheets[m][k].score[1] # Sheets[m][k].score[2]

VARIABLES
    db,        \* sheets[m]: the boxscore on record, 0 before the first;
               \* results[m]: the final score, << >> before the match is finalized;
               \* named: whether the catalog knows the players and teams
    cards,     \* the content queue
    offered,   \* the keys of the last preview and its round
    runs       \* previews and runs so far

editorialVars == <<db, cards, offered, runs>>

Contests == DOMAIN Programme
GameRounds == {Programme[m].round : m \in Contests}
Clubs == {Programme[m].home : m \in Contests} \cup {Programme[m].away : m \in Contests}
NoOffer == [round |-> 0, keys |-> {}]

EditorialInit ==
    /\ db = [sheets  |-> [m \in Contests |-> 0],
             results |-> [m \in Contests |-> << >>],
             named   |-> FALSE]
    /\ cards = {} /\ offered = NoOffer /\ runs = 0

-----------------------------------------------------------------------------
(* LiveContentAdapter: what it reads of the stores d *)

Recorded(d) == {m \in Contests : d.sheets[m] # 0}
Sheet(d, m) == Sheets[m][d.sheets[m]]
NameOf(d, id) == IF d.named THEN id ELSE 0

\* _is_finalized, in the order of the matches
FinalizedOf(d, r) ==
    SelectSeq([i \in Contests |-> i], LAMBDA m : Programme[m].round = r /\ d.results[m] # << >>)

MatchInput(d, m) ==
    LET p == Programme[m]
    IN  [match |-> m, day |-> p.day, home |-> p.home, away |-> p.away,
         home_name |-> NameOf(d, p.home), away_name |-> NameOf(d, p.away),
         home_score |-> d.results[m][1], away_score |-> d.results[m][2]]

NamedLine(d, m, l) ==
    [match |-> m, name |-> NameOf(d, l.player), team_name |-> NameOf(d, l.team)] @@ l

PlayerLines(d, r) ==
    LET Lines(m) == Each(Sheet(d, m).lines, LAMBDA l : NamedLine(d, m, l))
    IN  FlattenSeq(Each(FinalizedOf(d, r), Lines))

\* as_of: the day of the last finalized match of the round
AsOf(d, r) == Max({Programme[FinalizedOf(d, r)[i]].day : i \in DOMAIN FinalizedOf(d, r)})

InTime == SortSeq([i \in Contests |-> i], LAMBDA m, k :
    Beats(<<-Programme[m].day, -m>>, <<-Programme[k].day, -k>>))

\* Mutant: the season is not cut at the day of the round.
PlayerLogUncut(d, p, day) ==
    LET Played(m) == d.sheets[m] # 0 /\ Sheet(d, m).dated
        LinesIn(m) == SelectSeq(Sheet(d, m).lines, LAMBDA l : l.player = p)
    IN  FlattenSeq(Each(SelectSeq(InTime, Played), LinesIn))

\* _player_game_log and _player_history: dated lines up to the day of the round
PlayerLog(d, p, day) ==
    LET Played(m) == d.sheets[m] # 0 /\ Sheet(d, m).dated /\ Programme[m].day <= day
        LinesIn(m) == SelectSeq(Sheet(d, m).lines, LAMBDA l : l.player = p)
    IN  FlattenSeq(Each(SelectSeq(InTime, Played), LinesIn))

\* Points of a club in a recorded match and of its opponent
PointsFor(d, m, t) == Sheet(d, m).score[IF Programme[m].home = t THEN 1 ELSE 2]
PointsAgainst(d, m, t) == Sheet(d, m).score[IF Programme[m].home = t THEN 2 ELSE 1]
GamesOf(d, t) == {m \in Recorded(d) : t \in {Programme[m].home, Programme[m].away}}
WinsOf(d, t) == {m \in GamesOf(d, t) : PointsFor(d, m, t) > PointsAgainst(d, m, t)}

\* _team_results: every round of the season, later ones included
TeamResults(d, t) ==
    LET InRound(r, games) == {m \in games : Programme[m].round = r}
        played == {r \in GameRounds : InRound(r, GamesOf(d, t)) # {}}
    IN  Each(SetToSortSeq(played, <),
             LAMBDA r : [round |-> r, won |-> InRound(r, WinsOf(d, t)) # {}])

\* _team_rank: the classification of the season
TeamRank(d) ==
    LET table == {t \in Clubs : GamesOf(d, t) # {}}
        Difference(t) == MapThenSumSet(
            LAMBDA m : PointsFor(d, m, t) - PointsAgainst(d, m, t), GamesOf(d, t))
        wins == [t \in table |-> Cardinality(WinsOf(d, t))]
        key  == AsTable([t \in table |->
                    <<wins[t], wins[t] - Cardinality(GamesOf(d, t)), Difference(t), -t>>])
    IN  AsTable([t \in table |-> 1 + Cardinality({u \in table : Beats(key[u], key[t])})])

\* The lines of a player in the season, in the order of the matches
SeasonLines(d, p) ==
    FlattenSeq(Each(SelectSeq([i \in Contests |-> i], LAMBDA m : m \in Recorded(d)),
                    LAMBDA m : SelectSeq(Sheet(d, m).lines, LAMBDA l : l.player = p)))

SeasonPlayers(d) == {p \in DOMAIN Roster : SeasonLines(d, p) # << >>}

\* build_season_aggregate; a player counts for his first team
SeasonTotals(d, p) ==
    LET lines == SeasonLines(d, p)
        Total(column) == MapThenSumSet(LAMBDA i : lines[i][column], DOMAIN lines)
        team == Min({lines[i].team : i \in DOMAIN lines})
    IN  [player |-> p, name |-> NameOf(d, p), team |-> team, team_name |-> NameOf(d, team),
         games |-> Len(lines), points |-> Total("points"), rebounds |-> Total("rebounds"),
         assists |-> Total("assists")]

\* _season_feb_by_player: the average of the games that can be rated
SeasonFeb(d, p) ==
    LET rated == SelectSeq(SeasonLines(d, p), LAMBDA l : Rating(l) # -1)
        sum == MapThenSumSet(LAMBDA i : rated[i].mark, DOMAIN rated)
    IN  IF rated = << >> THEN -1 ELSE (2 * sum + Len(rated)) \div (2 * Len(rated))

\* _content_inputs: the context of a round, its season and the league's roster
Context(d, r) ==
    LET lines == PlayerLines(d, r)
        matches == Each(FinalizedOf(d, r), LAMBDA m : MatchInput(d, m))
        cast == {lines[i].player : i \in DOMAIN lines}
        season == SeasonPlayers(d)
    IN  [round |-> r, matches |-> matches, lines |-> lines,
         context |-> [log |-> AsTable([p \in cast |-> PlayerLog(d, p, AsOf(d, r))]),
                      results |-> AsTable([t \in Clubs |-> TeamResults(d, t)]),
                      rank |-> TeamRank(d)],
         season |-> [players |-> Each(SetToSortSeq(season, <), LAMBDA p : SeasonTotals(d, p)),
                     feb |-> AsTable([p \in {q \in season : SeasonFeb(d, q) # -1} |->
                                        SeasonFeb(d, p)])],
         bio |-> [p \in IF d.named THEN season ELSE {} |-> Roster[p]]]

-----------------------------------------------------------------------------
(* What arrives: statistics, final scores, names *)

RecordSheet(m) ==
    /\ \E k \in DOMAIN Sheets[m] \ {db.sheets[m]} : db' = [db EXCEPT !.sheets[m] = k]
    /\ UNCHANGED <<cards, offered, runs>>

\* The score the finalizer reads back from the team lines; corrections leave it
FinalizeResult(m) ==
    /\ m \in Recorded(db) /\ db.results[m] = << >>
    /\ db' = [db EXCEPT !.results[m] = Sheet(db, m).score]
    /\ UNCHANGED <<cards, offered, runs>>

FillNames ==
    /\ ~db.named /\ Recorded(db) # {}
    /\ db' = [db EXCEPT !.named = TRUE]
    /\ UNCHANGED <<cards, offered, runs>>

-----------------------------------------------------------------------------
(* RoundPipeline *)

Queued == {Identity(c.story) : c \in cards}
SeenStoryTypes(r) == {c.story.type : c \in {d \in cards : d.story.round = r}}

\* ContentQueue.add refuses an identity it holds
Add(stories, seen) ==
    cards' = cards \cup {[story |-> s, status |-> RenderAndValidate(s, Priority(s, seen))] :
                            s \in {t \in stories : Identity(t) \notin Queued}}

\* run, as the planner selects
RunContentPipeline(r) ==
    /\ runs < MaxRuns /\ runs' = runs + 1
    /\ LET seen == SeenStoryTypes(r)
       IN  Add(ToSet(Plan(RunDetectors(Context(db, r)), TopN, seen)), seen)
    /\ UNCHANGED <<db, offered>>

\* detect_candidates; nothing is rendered or queued
PreviewRoundCandidates(r) ==
    /\ runs < MaxRuns /\ runs' = runs + 1
    /\ offered' = [round |-> r,
                   keys  |-> {Identity(s) : s \in {t \in ToSet(RunDetectors(Context(db, r))) :
                                                   t.type \in Wanted}}]
    /\ UNCHANGED <<db, cards>>

\* run with only_keys: every story of the list, with no priority cut and no cap; a key
\* no detector emits any more is dropped without a word
GenerateChosen ==
    /\ \E keys \in SUBSET offered.keys \ {{}} :
         Add({s \in ToSet(RunDetectors(Context(db, offered.round))) : Identity(s) \in keys}, {})
    /\ offered' = NoOffer
    /\ UNCHANGED <<db, runs>>

\* generate_round_recap: the recap of the preview, straight away
GenerateRoundRecap(r) ==
    /\ runs < MaxRuns /\ runs' = runs + 1
    /\ DetectRoundRecap(Context(db, r)) # << >>
    /\ Add(ToSet(DetectRoundRecap(Context(db, r))), {})
    /\ UNCHANGED <<db, offered>>

EditorialNext ==
    \/ \E m \in Contests : RecordSheet(m) \/ FinalizeResult(m)
    \/ FillNames
    \/ GenerateChosen
    \/ \E r \in GameRounds :
        RunContentPipeline(r) \/ PreviewRoundCandidates(r) \/ GenerateRoundRecap(r)

EditorialSpec == EditorialInit /\ [][EditorialNext]_editorialVars

-----------------------------------------------------------------------------
(* Properties *)

\* Stories that rank clubs, nationalities or seasons as they stand today
Present == {"round_recap", "lone_flag", "win_streak", "loss_streak", "upset", "top_scorer",
            "top_rebounder", "top_assist_provider", "best_five_season", "best_five_ideal_season"}

\* What a round tells of its games and players, season highs and runs of games
\* included, is settled by the games up to its last day: a result, a boxscore or a
\* correction of a later match of another round leaves those stories as they were.
RoundKeepsItsStories ==
    [][LET Settled(d, r) == {s \in ToSet(RunDetectors(Context(d, r))) : s.type \notin Present}
           Changed(m) == \/ db.sheets[m] # db'.sheets[m]
                         \/ db.results[m] # db'.results[m]
       IN  db' # db /\ db'.named = db.named =>
             \A r \in GameRounds :
               (\A m \in Contests : Changed(m) =>
                   /\ Programme[m].round # r /\ FinalizedOf(db, r) # << >>
                   /\ Programme[m].day > AsOf(db, r))
               => Settled(db', r) = Settled(db, r)
      ]_db

\* A planned run queues at most TopN cards, at most MaxPerType of a type and at most
\* MaxPerSubject about a player, a club or a match, and an operator's run only what he
\* was offered.  Neither queues a story that was queued before, or one twice; no
\* generated text misses a fact, and as long as there are no names in it only the
\* recap is turned down.
RunsAreSpread ==
    [][LET fresh == cards' \ cards
           About(c) == {d \in fresh : Subject(d.story) = Subject(c.story)}
           OfType(c) == {d \in fresh : d.story.type = c.story.type}
           keys == {Identity(c.story) : c \in fresh}
           chosen == offered' # offered
       IN  /\ Cardinality(keys \ Queued) = Cardinality(fresh)
           /\ IF chosen THEN keys \subseteq offered.keys
              ELSE /\ Cardinality(fresh) <= TopN
                   /\ \A c \in fresh :
                        /\ Cardinality(OfType(c)) <= MaxPerType
                        /\ Subject(c.story) # << >> => Cardinality(About(c)) <= MaxPerSubject
           /\ \A c \in fresh :
                /\ c.status # "FAILED"
                /\ c.status = "REJECTED" => db.named \/ c.story.type = "round_recap"
      ]_cards

\* "It really landed in the review queue": a recap, the round's flagship piece, is
\* always looked at by a human.  It never is: its template requires two facts that
\* the detector no longer emits, so every recap is rejected.
RecapLandsInReview ==
    \A c \in cards : c.story.type = "round_recap" => c.status = "PENDING_REVIEW"

\* "Never publish the same story twice": the same type about the same subject of the
\* same round is queued once.  Names, corrections and later rounds change the facts,
\* the facts are part of the identity, and a second card is queued.
SameStoryOnce ==
    \A c, d \in cards :
        (/\ c.story.type = d.story.type /\ c.story.round = d.story.round
         /\ <<c.story.player, c.story.team, c.story.match>>
              = <<d.story.player, d.story.team, d.story.match>>) => c = d
=============================================================================
