------------------------------ MODULE MCAnalysis ------------------------------
(***************************************************************************)
(* Small instances of what the platform makes of the results: the          *)
(* ingestion runners, the season statistics and the newsroom.  They share  *)
(* nothing, so a behaviour explores one of them, of ingestion one group of *)
(* tools, and of the newsroom what arrives or the cards of two matches.    *)
(***************************************************************************)
EXTENDS SeasonStatistics, Ingestion, Editorial

CONSTANTS g1, g2, g3, g4

VARIABLE explored

-----------------------------------------------------------------------------
(* Statistics: three teams in one season, whose third match has no round; a fourth *)
(* match in the next season *)

MCFixture ==
    [g \in Games |->
        CASE g = g1 -> [home |-> 1, away |-> 2, season |-> "s1", round |-> 1, at |-> 1]
          [] g = g2 -> [home |-> 2, away |-> 3, season |-> "s1", round |-> 1, at |-> 2]
          [] g = g3 -> [home |-> 3, away |-> 1, season |-> "s1", round |-> 0, at |-> 3]
          [] g = g4 -> [home |-> 1, away |-> 2, season |-> "s2", round |-> 2, at |-> 4]]

Score(a, b) == [points_for |-> a, points_against |-> b]
Scored(t, points, turnovers, at) ==
    [team |-> t, points |-> points, turnovers |-> turnovers, at |-> at]
FullBox(g, a, b, lines) ==
    [sides |-> (MCFixture[g].home :> Score(a, b)) @@ (MCFixture[g].away :> Score(b, a)),
     lines |-> lines]

\* Corrected lines, a player dropped by a later payload, a drawn game, a lone side, a
\* payload without times
MCBoxes ==
    [g \in Games |->
        CASE g = g1 -> {FullBox(g, 2, 1, (1 :> Scored(1, 2, 1, 1)) @@ (2 :> Scored(2, 1, 0, 1))),
                        FullBox(g, 1, 1, 1 :> Scored(1, 1, 0, 1)),
                        [sides |-> 1 :> Score(2, 1), lines |-> None]}
          [] g = g2 -> {FullBox(g, 2, 1, 2 :> Scored(2, 2, 2, 2)),
                        FullBox(g, 1, 2, 1 :> Scored(3, 3, 1, 0))}
          [] g = g3 -> {FullBox(g, 1, 2, 1 :> Scored(1, 1, 2, 3)),
                        FullBox(g, 2, 1, (1 :> Scored(1, 0, 1, 3)) @@ (2 :> Scored(3, 1, 1, 3)))}
          [] g = g4 -> {FullBox(g, 1, 2, 1 :> Scored(1, 1, 0, 4))}]

MCFinals == {<<2, 1>>, <<1, 2>>}

-----------------------------------------------------------------------------
(* Ingestion: a match of each group; the first boxscore is not final *)

MCCalendar ==
    [m \in Matches |-> IF m = 1 THEN [group |-> "ESTE", round |-> 1, day |-> 0]
                                ELSE [group |-> "OESTE", round |-> 2, day |-> 1]]
MCPublished ==
    << [home |-> 1, away |-> 0, quartersAddUp |-> FALSE],
       [home |-> 1, away |-> 2, quartersAddUp |-> TRUE] >>
MCTools ==
    [r \in Runners |-> IF r = "cron" THEN {"auto", "season", "public"}
                                     ELSE {"match", "finalize", "repair"}]

\* The tools that meet in a behaviour, with faults or without; rounds may be repaired in
\* each
FaultyTools == {{"auto"}, {"season", "match"}, {"public", "finalize"}}
SteadyTools ==
    {{"auto", "match"}, {"public", "match"}, {"season", "auto", "finalize"},
     {"season", "public", "finalize"}}
ToolGroups == FaultyTools \cup SteadyTools

-----------------------------------------------------------------------------
(* Newsroom: a round with a postponed match, the next one in between *)

MCFloors ==
    [double |-> 10, rated_minutes |-> 10, blowout |-> 20, minutes |-> 35, assists |-> 8,
     defence |-> 5, threes |-> 5, attempts |-> 5, duo |-> 35, flag |-> 15, curio |-> 12,
     young |-> 20, veteran |-> 34, year |-> 365, high |-> 20, prior_games |-> 1, streak |-> 2,
     rank_gap |-> 1, run_points |-> 20, scoring_run |-> 2, double_run |-> 2,
     leader_games |-> 2, quintet_games |-> 1]
MCPositions == <<1, 2>>

MCProgramme ==
    << [round |-> 1, day |-> 10001, home |-> 1, away |-> 2],
       [round |-> 2, day |-> 10008, home |-> 3, away |-> 1],
       [round |-> 1, day |-> 10010, home |-> 3, away |-> 4] >>

BoxLine(p, t, points, rebounds, assists) ==
    [player |-> p, team |-> t, points |-> points, rebounds |-> rebounds, assists |-> assists,
     steals |-> 1, blocks |-> 0, turnovers |-> 2, minutes |-> 30, fgm |-> 6, fga |-> 12,
     tpm |-> 1, tpa |-> 4, mark |-> 60 + points - assists]
Ace == [BoxLine(31, 3, 12, 4, 1) EXCEPT !.fgm = 6, !.fga = 6, !.tpm = 5, !.tpa = 5]

\* The second match has a corrected boxscore that turns its result round.
MCSheets ==
    << << [score |-> <<80, 50>>, dated |-> TRUE,
           lines |-> <<BoxLine(11, 1, 22, 11, 3),
                       [BoxLine(12, 1, 14, 2, 9) EXCEPT !.minutes = 38],
                       [BoxLine(21, 2, 16, 3, 2) EXCEPT !.steals = 4, !.blocks = 3]>>] >>,
       << [score |-> <<70, 75>>, dated |-> TRUE, lines |-> <<BoxLine(11, 1, 25, 12, 10), Ace>>],
          [score |-> <<75, 70>>, dated |-> TRUE, lines |-> <<BoxLine(11, 1, 20, 12, 9), Ace>>] >>,
       << [score |-> <<60, 61>>, dated |-> FALSE,
           lines |-> <<BoxLine(31, 3, 18, 3, 3), BoxLine(41, 4, 9, 2, 1)>>] >> >>

MCRoster ==
    (11 :> [country |-> 1, born |-> 3000, position |-> 1])
      @@ (12 :> [country |-> 1, born |-> 0, position |-> 2])
      @@ (21 :> [country |-> 2, born |-> 3430, position |-> 2])
      @@ (31 :> [country |-> 0, born |-> 0, position |-> 1])
      @@ (41 :> [country |-> 3, born |-> 0, position |-> 0])

-----------------------------------------------------------------------------

Init ==
    /\ explored \in {{"statistics"}, {"news"}, {"cards"}} \cup ToolGroups
    /\ StatisticsInit /\ IngestionInit /\ EditorialInit

StatisticsSteps ==
    /\ explored = {"statistics"} /\ StatisticsNext
    /\ UNCHANGED <<ingestionVars, editorialVars, explored>>
IngestionSteps ==
    /\ explored \in ToolGroups /\ IngestionNext
    /\ \A r \in Runners : run'[r].tool \in explored \cup {"idle"}
    /\ explored \in SteadyTools => faults' = 0
    /\ UNCHANGED <<statisticsVars, editorialVars, explored>>
EditorialSteps ==
    /\ explored \in {{"news"}, {"cards"}} /\ EditorialNext
    /\ explored = {"news"} => runs' = 0
    /\ explored = {"cards"} => db'.sheets[3] = 0
    /\ UNCHANGED <<statisticsVars, ingestionVars, explored>>

Next == StatisticsSteps \/ IngestionSteps \/ EditorialSteps

analysisVars == <<statisticsVars, ingestionVars, editorialVars, explored>>
Spec == Init /\ [][Next]_analysisVars

\* The automatic runs of the season, under the fairness of their schedule
ScheduledSpec ==
    /\ Init /\ explored = {"auto", "match"}
    /\ [][IngestionSteps]_analysisVars
    /\ IngestionFairness
=============================================================================
