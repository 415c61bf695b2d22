# Formal models of the 2A basketball data platform

TLA+ specifications of `feb_score` (`src/src/feb_score/`), the service that
stores matches, statistics and corrections of a basketball league, publishes
domain events about them, and turns rounds into social-media cards. The models
are about what unit tests hardly reach: concurrent requests, crashes between
two steps, resent commands, and long sequences of legal calls.

Paths below are relative to `src/src/feb_score/` unless they begin with `src/`.

## 1. The system

Clients send commands to an HTTP API. A thread of the API's pool runs each one
through `CommandRunner.run`: one unit of work (one transaction, installed in a
context variable that every repository looks up) holds the changed state, the
domain events (the outbox, table `domain_events`) and the idempotency record.
After COMMIT the same thread dispatches the outbox. There are two backends with
the same interfaces: SQLite (`BEGIN IMMEDIATE`, one writer at a time) and
PostgreSQL (READ COMMITTED, concurrent writers). The content engine works on
the same database but outside any unit of work: every statement commits alone.

| component | state | operations | interacts with | what is hard |
| --- | --- | --- | --- | --- |
| command execution (`infrastructure/application_service.py`, `application/use_cases/handlers.py`, the repositories and units of work) | the tables; per thread, what the handler has read and written | twelve command handlers, has_processed, save, mark_processed, append_events, COMMIT, ROLLBACK | API threads, outbox | interleaved transactions, resent commands, a guard checked before COMMIT, two aggregates saved together, aborts |
| match and correction aggregates (`domain/match/model.py`, `domain/correction/model.py`) | status, version, box score, score, history; proposal status | upsert, record_stats, finalize, apply_correction, start, postpone, cancel; propose, approve, reject | handlers | version chains over long sequences |
| outbox and dispatch (`infrastructure/persistence/event_dispatcher.py`, `event_store.py`) | rows with a delivered flag; the consumer's memory | append, fetch, publish, mark | every request thread | two threads on the same rows, crash between publish and mark, order of commits, batches |
| squads and catalog (`domain/player`, `domain/team`, `catalog_backfill_service.py`, `player_bio_backfill.py`) | players, teams, squad entries | register, backfill of names, backfill of profiles | command execution, the FEB's pages | rows written whole after a read, an error swallowed inside a transaction |
| content queue and lifecycle (`domain/content/queue.py`, `content_lifecycle.py`, `content_queue_repo.py`, `round_pipeline.py`) | one row per card | generate, regenerate, edit, approve, reject, schedule, publish, mark, purge, delete | operators, an external channel | read and write without a transaction, an external call in between |
| previews (`preview_store.py`) | a dictionary in memory | put, get, pop, sweep | content queue | expiry, restart, commit after discard |
| content planning (`domain/content/registry.py`, `insights.py`, `season_insights.py`, `season_aggregate.py`, `planner.py`, `copy.py`, `templates.py`, `validation.py`, `review.py`, `live_content_adapter.py`) | none of its own; reads matches, statistics and catalog, writes the queue | detect, plan, write copy, validate, review; preview, pick | statistics, catalog, queue | the season goes on while rounds are told; facts agreed between five files; caps; identity by content |
| season statistics (`domain/statistics`, `domain/standings`, `domain/leaderboard`, `domain/ratings`, three repositories) | a projection per match and team, and per match and player | record, tables, leaderboards, metrics, rounds; standings, ratings | handlers, content planning | three implementations of each query, corrected and late boxscores, ties, rounding |
| ingestion scripts (`src/scripts/feb/`) | what a process has in hand | discover rounds, fetch, post, retry, finalize, repair | the FEB's pages, the HTTP API | throttled and lost requests, two scripts on one match, ids that do not depend on the content |
| media library and images (`media_asset_repo.py`, `rendering/feb_image_assets.py`, `override_assets.py`) | photos with a role per owner; a cache and a failure counter | upload, promote, approve, delete; fetch | operators, render threads, an image host | two UPDATEs that belong together, an outage |
| schema migrations and backups (both `connection.py`) | schema version, backup files | migrate, backup, restore | start-up | two processes of different binaries at once, death half way |
| request gate (`api/middleware.py`, `api/auth.py`) | time stamps per client | admit, authorize | every request | window boundary, who counts as one client |
| read services, SVG templates, configuration, logging | settings | - | - | - |

What makes them correct:

* commands: no lost update, state and outbox never disagree, a resent command
  has no second effect, an approved correction was applied exactly once, no
  transaction waits for ever;
* outbox: nothing is announced before it is durable, nothing is marked that was
  not announced, every event is announced in the end, and is first seen after
  those that were produced and committed before it;
* content: one card per story, nothing goes out that nobody let pass, a story
  goes out once, what was deleted does not come back;
* stores: a backfill never renames and never loses, an owner has one primary
  photo, an outage costs a bounded number of timeouts, a process serves on the
  schema it knows, the rate limit is exact;
* analysis: every store and every view tells the same season, whatever the order
  in which results arrive; a script that reports success left no gap but one it
  was told of as a conflict; a round keeps its stories while the season goes on,
  and the cards of a planned run are spread.

## 2. Modules

| module | what it is |
| --- | --- |
| `MatchDomain` | the two aggregates and the events of each handler, as pure operators |
| `CommandExecution` | threads that run commands, one SQL statement per step, on either backend |
| `AtomicCommands` | abstract: each command takes effect in one step |
| `MatchLifecycle` | abstract: the life of one match row |
| `CommandProperties` | what must hold of command execution; instantiates both abstract modules |
| `OutboxDispatch` | the outbox, the dispatching threads, the deduplicating consumer, crashes and failing calls, and its properties |
| `ContentLifecycle` | the content queue, the previews and the requests on them, and its properties |
| `Catalog` | squads and the catalog: registration and both backfills, one SQL statement per step, on either backend |
| `MediaLibrary` | photos and their roles, with promotion as the two statements it is |
| `CardImages` | override, official image or initials; the cache and the circuit breaker, renders in threads |
| `SchemaMigrations` | processes of several binaries that migrate and serve one database; backup and restore |
| `RequestGate` | body limit, rate limiter, API keys and roles in front of a command |
| `SeasonStatistics` | the projection in SQLite, PostgreSQL and memory, and every table, leaderboard, metric, standing and rating over it |
| `Ingestion` | the scripts as processes that read the FEB and post commands |
| `StoryDetection` | every registered detector, as pure operators |
| `StoryPlanning` | extends it: score and caps of the planner, copy, templates, validators, review policy |
| `Editorial` | extends it: the adapter that feeds the detectors, the pipeline and the operators, while results arrive |
| `MCCommands`, `MCOutbox`, `MCContent`, `MCStores`, `MCAnalysis` | small instances for TLC |
| `CommandProofs`, `CommandEventProofs` | theorems about commands: versions and histories; tables and outbox, and one at a time on SQLite |
| `OutboxProofs`, `ContentProofs`, `IngestionProofs`, `StatisticsProofs` | theorems about the module of that name |
| `StoreProofs` | theorems about catalogue, migrations, gate, images and media, and about `MCStores` |
| `PlanningProofs` | the planner of `StoryPlanning`, for any stories |

### Command execution

A worker is a thread. `Begin` is a client's request (or a resend: `MaxAttempts`
says how often each command may be sent), each further action is one statement
of the handler, `Commit` applies what the transaction wrote, and `Abort` is a
lost connection, a statement timeout or the death of the process at any point.

| action | code |
| --- | --- |
| `CheckProcessed` | `has_processed`; a known id ends the command with no events |
| `LoadProposal`, `LoadMatch` | the repository reads; a missing or unfit row ends the command, a refused finalization goes on to commit its events |
| `SaveProposal` | the upsert of `correction_proposals`, which compares nothing |
| `SaveMatch` | `UPDATE ... WHERE version = version - 1`, or the first INSERT; `StaleVersionError` when it matches no row |
| `SaveStats` | the statistics projection |
| `InsertRow` | ratings, standings, leaderboards (fresh ids), publications (command id) |
| `MarkProcessed` | `INSERT ... ON CONFLICT DO NOTHING`, which waits for a transaction that inserted the same id |
| `Commit` | `append_events`, then COMMIT |

A transaction's writes are named by `pending[w]`, the unique keys it wrote: no
one else sees them, and a writer of the same key waits. Payloads are abstracted
to the command that carried them, event ids to who made them and in which
attempt. That is enough to see a lost update, a duplicate and a dropped event,
because `CorrectionProposed`, `CorrectionApproved` and `PublicationCreated` keep
the ids the code gives them.

SQLite and PostgreSQL share all actions. The constant `Backend` restricts only
`Begin`: on SQLite a command begins when no other is open. So every SQLite
behaviour is one of the PostgreSQL ones, and what holds of the latter holds of
both. It is also why one worker suffices in runs about SQLite.

Ten of the twelve handlers are here. `RegisterPlayerToSquad` and
`BackfillCatalog` write players and teams and are in `Catalog`.

### Outbox

Events are numbered by `produced_at`. A thread commits an event (or nothing) and
goes on to `Fetch`, then per row `NextRow`, `Publish`, `Remember` (when the
publisher is wrapped in `IdempotentConsumer`) and `MarkDelivered`. `Fault` is a
publish or a mark that raises, `Crash` a restart: the tables survive, the
consumer's memory and what the threads had in hand do not.

The order of `produced_at` is not the order of commits. `EarlyStamped` are the
events that are stamped before their transaction holds the write lock: on
PostgreSQL, where commands overlap, all of them, and on SQLite those of a rating,
whose `produced_at` is the command's `issued_at`, drawn at `wiring.py:291` before
`BEGIN IMMEDIATE` (`persistence/connection.py:270`). `CommitEvent` lets them commit
at any time, the others only as the latest. The auxiliary variable `earlier` records,
when an event commits, which events of a smaller `produced_at` were in the table.

### Content

A row of the queue is a card with its story (the identity column, which an
UPDATE never changes), its status and the revision of what it shows. Each
request reads a row, changes a copy, and `Update` writes the whole copy back by
content id, later; `Publish` calls the channel (`Deliver`) in between. `add` is a
SELECT (`AddCheck`) and an INSERT (`AddInsert`). Rendering, copy, fact and visual
validation and the review policy end in one of four outcomes; which, is left
open here, and is what `StoryPlanning` computes. A preview may vanish at any
time, by age, by eviction or by a restart.

### Stores

`Catalog` has the same kind of worker as `CommandExecution`, over players and
teams instead of matches. A row is the columns and the document under them,
because the backfill's upsert treats them apart: `Upsert` is the `ON CONFLICT`
clause. On PostgreSQL a statement that meets another transaction's row waits and
may be refused; a refused statement aborts the transaction, and `FlushBackfill`
and `SaveBio` go on all the same, since the code swallows the error.
`MediaLibrary` splits promotion into `BeginPromote`, `Demote` and `Promote`, each
committed alone, and remembers in `raced` whose requests overlapped.
`SchemaMigrations` has one step per migration and per backup; the schema is the
set of migrations applied. `RequestGate` is one step per request, since the
middleware runs on the event loop and does not await between check and append. A
hit carries the number of the request that left it, so that the limiter may be a
set of hits: two requests at one time are two entries of the deque, and two hits.
A table of `Catalog` is a function over all external ids, `NoRow` where there is none.

### Season statistics

The three stores are three sets of definitions, written as each of them works: SQL
rows under a key with `GROUP BY` and an `ORDER BY` list of columns and
directions, or buckets per match walked line by line and sorted by a Python key
tuple. A line has one counter where more is better and one where less is: the
other columns behave like one of these. Averages are in units of `1/Scale`, exact for
every number of games there can be.

Where the stores and the readers differ, so do the definitions. The two SQL stores
refuse the list of a team's rounds when one of them was drawn
(`SeasonTeamRoundStats.__post_init__`); the in-memory store is given no round by its
caller and its list is always empty. A category leaderboard is computed from the
matches and rounded to two places, which makes ties (`Hundredths`); a value exactly
half way goes up or down as its binary double lies, which the constant `HalfUp`
leaves open. The rating orders lines by the date of the match
(`handlers.py:610`), the form by the payload's own optional `played_at`, where a line
without a time is the oldest of all: `RecentWindows` is every window that lines of
equal time allow.

### Ingestion

A runner is a process with a job: groups and rounds still to discover, matches
still to do, commands still to post. `Fault` is what a request may suffer: a
source error, throttling past the retries, a connection lost before, while or after
the server works. A command's id is what the script derives it from. `Execute` is the
command API seen from outside: known ids are answered without effect, a refused
finalization leaves no mark, and every other command is under way: a transaction in
`api.open` that has loaded the row with its version. What it loaded may be overtaken:

| action | code |
| --- | --- |
| `Post` | the answer when there is nothing to write, or the load (`get_by_external_id`) |
| `Reply` | COMMIT when the version is still the loaded one (`Fresh`, the `WHERE version =` of `PgMatchRepository.save`); otherwise ROLLBACK and 409, or 503 when another transaction created the match |
| `HangUp`, `LateEnd` | the client gives up, the server goes on and commits, or does not |
| `RepairRound` | one UPDATE of `repair_round_numbers`: it changes the round and not the version |

The private ingestors take a 409 for done (`TakenForDone`, `_OK_STATUSES` of
`ingest_round.py:47`), the other scripts for a failure; `conflicted` notes the matches
whose statistics were answered so. The interleavings are those of PostgreSQL; on
SQLite a command holds the write lock from its load on, so its behaviours are among
these. `PostBackfill` posts the envelope the script builds to a model that forbids
extra fields, as the API does.

### Content planning

A story is a record of its type, what it is about and the facts the code puts
into it; its identity is all of that. Detectors work on numbers: a name is the id
it belongs to, or 0 while the catalog does not know it. Floors and weights are
constants. Of a text only what it takes from the facts is kept: the keys the
generator indexes (a missing one fails the card) and the names it prints (a name
with a free-standing number is not in the facts, and the fact validator rejects
the card). `RequiredSlots` are the contracts of the templates.
`Editorial` takes a pipeline run as one step; how two requests interleave on the
queue is the subject of `ContentLifecycle`. A run is planned, or an operator chooses
a set of keys from a preview (`GenerateChosen`): then nothing is cut, neither by
priority nor per type or subject.

## 3. What TLC checks

| run | instance | what it shows |
| --- | --- | --- |
| `pg_commands` | PostgreSQL, two workers; upsert, statistics, finalization, proposal and approval of one match, each sent up to twice | types, state and outbox agree, processed commands had an effect, histories chain, approved means applied, finalized at most once, `WriteInv`, and every match row follows `MatchLifecycle` |
| `pg_progress` | the same, two approvals, everything sent once, weak fairness | a command that begins ends: no transaction waits for ever |
| `sqlite_commands` | SQLite, nine commands of all eight kinds, three of them resent | replay has no effect, no correction twice, applied stays approved; command execution implements `AtomicCommands` |
| `outbox` | two threads, three events, batches of two, one crash, one failing call, deduplication | at least once, never before the commit, first seen after what was produced and committed before, although the first event may commit late; with requests that keep coming, every event is delivered |
| `content` | two requests, one story, three revisions, one restart | one card per story, only approved revisions go out, published means sent, deleted stays deleted, ids stay fresh |
| `stores` | five components, one per behaviour: two players and a team with two transactions in flight; three photos of two owners and two operators; three subjects, two renders, one outage; three processes of two binaries, three migrations; four requests in a window of three | the five components' properties, each under the faults its code can meet |
| `analysis` | three components, one per behaviour: four matches in two seasons with corrected, drawn and one-sided boxscores; two runners with groups of scripts over a match of each group, their commands interleaved; three matches of two rounds, one postponed, with a corrected boxscore | tables and standings agree, ratings do not depend on order, no silent gap but behind a conflict, nothing learned is lost but a round repaired under a command, rounds keep their stories, planned cards are spread |

`stores` and `analysis` bundle components that share nothing: the initial states
choose which one a behaviour explores (`explored`), so the states add up instead
of multiplying. `explored` also picks which scripts meet, and whether the
newsroom is about what arrives or about the cards.

What the properties of these two runs say, in a sentence each:

* `SquadsGrowTogether`: on SQLite both sides of a registration appear together
  and no command removes one from an entity that has a name. On PostgreSQL two
  registrations of one team do lose an entry; nothing documents otherwise.
* `BackfillIsConservative`: nobody is renamed, on either engine, and a backfill
  without errors leaves no gap it counted as filled.
* `OnePrimaryUnlessRaced`, `PromotionTakesEffect`: one primary per owner through
  deletions, half-done promotions and crashes, as long as requests about one
  owner do not overlap; an upload never displaces it.
* `TimeoutsAreBounded`: fetches that fail in a row exceed the budget by at most
  the other renders, and no subject is waited for again and again.
* `ServingHasSchema`: no version without those below it, and no process serves
  without the migrations it knows.
* `LimitIsExact`: refused if, and only if, the same client passed `Limit` times
  in the window that ends now.
* `SeasonTablesAgree`: the three stores give the same tables, averages and
  leaderboards at every limit while no game is drawn; the two SQL stores give the
  same rounds, which add up to what the in-memory store holds of those matches, and
  refuse them exactly when one of them was drawn; the standing, and the category
  leaderboard up to its rounding, computed from the matches, say the same.
* `LateResultKeepsRating`: lines uploaded late for a match older than a full window
  do not change the rating, and lines timed before every line of a full window do
  not change the form. Without a time a line counts as the oldest, so a late line
  that has one does push an undated one out.
* `SuccessLeavesNoGap`: `ingest_season` and `ingest_match` exit with 0 only when
  every match they went through has its row, and its statistics unless their command
  was answered with a conflict, which the scripts take for done.
* `LearnedStays`: no script takes away statistics or a final score, nor a round,
  except one that was repaired while a command was in progress that had loaded the
  match without it.
* `RoundKeepsItsStories`: a later match changes no story of an earlier round,
  except those that rank clubs, nationalities or seasons as they stand today.
* `RunsAreSpread`: a planned run keeps the caps per run, per type and per subject, a
  chosen one queues only what was offered, neither queues anything twice, no
  generator misses a fact, and only the recap is turned down while no names are in
  it.

Five runs find what a document or a comment promises and the code does not keep:

| run | the promise | what happens |
| --- | --- | --- |
| `pg_double_approval` | "Only proposed corrections may be approved" (`domain/correction/model.py:35`) | an approval reads the proposal before, and the match after, another approval commits, and applies it again |
| `content_published_once` | "publishing the same story twice is prevented" (`domain/content/queue.py:25`) | two publish requests both pass the status check before either writes the row |
| `backfill_keeps_squads` | "conservative catalog upsert" (`application/repositories/interfaces.py:92`) | filling a missing name replaces the whole document, squad entries included |
| `provisional_stats` | "provisional BoxScore" statistics, and a system that "keeps ingesting on its own" (`handlers.py:144`, `src/scripts/feb/run_auto_ingest.py:5`) | the final boxscore has the command id of the provisional one and is taken for a replay |
| `recap_rejected` | "It really landed in the review queue." (`src/tests/api/test_content_pipeline.py:555`) | the template requires two facts no detector emits, so every recap is rejected |

Other promises are stated as definitions and refuted by TLC when one adds them to
a configuration, but no run is kept for them:

* `ReplayHasNoEffect` on PostgreSQL ("replaying it produces no duplicate state or
  events", `api/main.py:182`): two copies that overlap both pass `has_processed`.
* `ApprovalIsPublished` (`src/bounded_context_map.md:553`): `CorrectionApproved`
  has the id `CorrectionProposed` took, and the outbox ignores it.
* `CorrectionsReachProjection` (`src/bounded_context_map.md:555`): nothing writes
  the statistics projection after a correction.
* `SeenOnce` ("exactly once", `event_dispatcher.py:93`): the consumer's memory dies
  with the process and is checked by two threads before either adds.
* `BioIsolatesPlayers` (`player_bio_backfill.py:158`): a swallowed error has
  aborted the PostgreSQL transaction, and COMMIT rolls everything back.
* `OnePrimaryPerOwner` (`media_asset_repo.py:213`): two overlapping promotions
  leave two primaries.
* `CircuitCloses` (`feb_image_assets.py:59`): an open circuit fetches nothing, so
  no success can close it.
* `NewerSchemaRefused`, `BackupPredatesMigration` (SQLite `connection.py`): two
  processes migrating together apply a migration again, lower `user_version`, and
  overwrite the backup.
* `SameStoryOnce` (`domain/content/story.py:277`): the facts are part of the
  identity, so a name or a correction that arrives queues a second card.

What else the models show and no run is spent on:

* A refused finalization is not remembered, so each resend appends its two events
  again. After a restart nothing dispatches what was left until the next command,
  although `src/docs/ARCHITECTURE.md:177` speaks of a dispatch at start-up:
  `EventsAreDelivered` needs the assumption `Traffic`. An event that commits late is
  published after later ones, on SQLite too: the `ORDER BY produced_at` of
  `src/docs/ARCHITECTURE.md:189` orders a batch, not the stream. A forced regeneration
  (`round_pipeline.py:197`) puts a scheduled or published card back.
* One drawn game makes the team tables of both SQL stores, and the rounds of the two
  teams, unreadable (wins and losses do not add up to games), while the in-memory
  store counts a loss. A
  player a later payload drops stays in the projection. `Leaderboard.from_matches`
  puts most turnovers first, `ranking.py` fewest.
* The envelope of `_post_backfill` has fields `CommandRequest` forbids: it is
  refused every time, and the automatic run reports it. `ingest_match` finds no
  round for a match of the second group; only `repair_round_numbers` does. A
  source error inside a round ends an automatic run. The default competition ids
  of the live and the public path differ, so they do not recognise each other's
  commands. When they agree, a partial boxscore may stay while the match is
  finalized with the final score.
* A 409 means that the command was rolled back (`api/errors.py:12`), and the private
  ingestors print it as IDEMPOTENT and count it as success (`ingest_match.py:463`): a
  run overtaken by another exits with 0 and no statistics. A round repaired while a
  command is in progress is written back, since the repair leaves the version. TLC
  reaches both; the exceptions in `SuccessLeavesNoGap` and `LearnedStays` say that
  nothing else is lost.
* A postponed match moves the day of its round past later rounds. Team streaks,
  ranks, season totals and ages are not cut at the day of the round. A rejected
  card keeps its identity, so the story is not offered again.
* The limiter's documentation says fixed window (`api/middleware.py:15,51`); it is
  a sliding one.

### Bounds

* Two workers, threads or requests: every property relates at most two of them
  (two writers of a key, two readers of a row), and the theorems below hold for
  any number.
* Two attempts per command: a command's effect and one replay; a third meets the
  same idempotency record.
* One match carries the whole story; matches share nothing but the outbox, and
  the second one in `Matches` is there for the types.
* Three events and batches of two: a batch that leaves a row behind, and one that
  does not. The first event may commit after the two others, or between them. One
  crash and one failure each hit every step.
* One story and three revisions: a card, a regeneration or a second card of the
  story, and an edit. Stories are independent rows.
* `MaxRevisions` and `MaxAttempts` stop all activity in the end, so the runs
  about commands and content do not check deadlock; `pg_progress` checks that
  nobody waits for ever. The runs of the outbox check deadlock.

* Catalog: two transactions and three commands, so that a registration or a
  second backfill commits between the read and the write of a third. Names: one
  full, one abbreviated, none.
* Media: three photos, two of one owner and a third that displaces; images: a
  budget of two, two renders, three subjects, so that the budget is passed by a
  race and met without one. Migrations: three, one destructive, five starts of
  three processes. Gate: a limit of two, a window of three, four ticks: a hit
  leaves the window and another one stays.
* Statistics: three teams, a match of another season, two players, a window of one
  of at most three lines (the code has five and ten); a payload with times and one
  without; `Scale = 12`, since a season has at most four matches, and `HalfUp = {}`,
  since no average of these is half way between two hundredths. Ingestion: a match of
  each group, a provisional and a final boxscore, one retry; one fault for an
  automatic run alone, a season with a match and a public backfill with a
  finalization, none for two other pairs and two groups of three, where the commands
  of two runners interleave; rounds may be repaired at any time. Newsroom: three matches, five players, floors set so that most
  detectors fire, two runs.

### Fairness

`WF(Step(w))` and `WF(Dispatch(t))`: a thread of the API's pool that has begun a
request keeps executing it; nothing else in the code retries or resumes. `Begin`,
`Abort`, `Fault` and `Crash` have none. `Traffic` (weak fairness of the requests
themselves) is an assumption about clients, not about the code, and only the
liveness of the outbox uses it. `IngestionFairness` says that scheduled runs keep
coming (`src/docs/PRODUCTION_RUNBOOK.md` has the schedule), days pass and the FEB
publishes; only `provisional_stats` uses it, and its counterexample is a
behaviour in which all of that happens.

## 4. What is proved

With tlapm, for all values of the constants (any number of workers, commands,
matches, events, stories, requests, attempts, crashes and faults) that satisfy the
named assumptions of the modules. Every safety property and every action property
of a passing run has a theorem, except the two listed at the end.

An invariant below is inductive: it holds at the start and every action keeps it.
Each proof has one step per action, in a lemma of its own where it is long.

### Command execution

From `CommandAssumption` and `ExecutionAssumption`. `CommandProofs` and
`CommandEventProofs` are about both backends.

* `TypeCorrect`: `[]TypeOK`.
* `WritesFromCurrentRows`: `[]WriteInv`. The version guard runs statements before
  COMMIT, so that it holds when it runs is not enough. `WriteInv` is the inductive
  invariant: a version names one content (`VersionsIdentifyRows`), so an equal
  version means an equal row; two open transactions never wrote the same key
  (`LocksAreExclusive`); therefore from the save to the commit the stored row is
  still the loaded one (`WritesAreCurrent`), which each handler accepted before
  it wrote (`HandlersInOrder`).
* `NoLostUpdate`: every behaviour implements `MatchLifecycle` for every match. The
  initial rows map to its initial row; only `Commit` changes a row, and by
  `WritesAreCurrent` it does so by an action of the aggregate on the stored row.
* `HistoryIsChained`: `[]HistoryFollowsVersions`, by an invariant of rows that
  every domain operation keeps.
* `ProcessedMeansDone`, `ApprovalIsApplied`, `OutboxMatchesState` and
  `FinalizedAtMostOnce` rest on `WorkerInv`. It adds to `WriteInv` that what a
  transaction commits is complete: past the save of a row its key is in `pending`
  (`KeysInv`); that a proposal is made by its own command and does not go away
  (`ProposalsInv`); and that attempts have numbers of their own, so that an event
  with a fresh id is new (`AttemptsInv`).
  * `OutboxMatchesState` compares a version with a number of events. It needs to
    know which events there are: one under the id of a proposal is that of its
    proposing, because the approval that takes the same id comes later and is
    ignored (`OwnEventsInv`). So a commit that raises a version by one adds one
    change event, and only one that is not in the outbox yet.
  * `FinalizedAtMostOnce`: `MatchFinalized` in the outbox means the row is final
    (`FinalInv`). A second finalization would have loaded a row that was not; by
    `WritesAreCurrent` it is still the stored one when it commits.

The second half of `CommandEventProofs` assumes `Backend = "sqlite"`. Without it these
theorems are not to be had: on PostgreSQL `pg_double_approval` refutes `CorrectedOnce`, and a replay
that overlaps the first attempt has a second effect.

* `SerialInv` says what BEGIN IMMEDIATE gives: while a worker runs, nobody else
  does; what it has read is still stored, at whichever statement it is; what the
  handler should have written by then is in `pending`.
* `NoProposalTwice` and `AppliedStaysApproved`, by `AppliedInv`: a history names
  approved proposals, each once, and a proposal whose command was not processed
  has no row.
* `ReplaysAreIdempotent`, by `EffectsInv`: the effects of a command are those of one
  attempt and come with its idempotency record, which the next attempt finds.
* `ExecutionIsAtomic`: the refinement `Spec => CommandsAreAtomic`. A `Commit` is one
  action of `AtomicCommands`, which one depends on the command and the loaded row;
  every other step changes nothing the abstract specification sees.

### Outbox

`OutboxProofs`, from `OutboxAssumption`.

* `DeliveryInvariant`, `TypeCorrect`, `RowsInHandAreGood`, `AtLeastOnce`,
  `NoUncommittedEvent`. What is marked was published because a thread that is
  about to mark has published the row, or the consumer's memory, emptied by
  crashes, says someone has (`RowsInHand`).
* `FirstSightOrder` and `NothingIsSkipped`, for any `EarlyStamped`, so on both
  backends: the order survives any number of dispatching threads because no batch
  leaves out an event that was produced and committed before one of its rows and is
  not published yet (`OrderInv`). An event that commits after the batch was read was
  not earlier than any row of it in this sense, whatever its `produced_at`.

### Content

`ContentProofs`, from `ContentAssumption`.

* `TypeCorrect`.
* `OnlyApprovedIsPublished`. The invariant speaks of the copies in hand as well: a
  request may write its copy long after it read the row, over another revision.
  It is preserved because status and content are written together; an UPDATE of
  the status alone would break it.
* `OneCard`, `DeletionIsFinal`, `FreshIds`: by `QueueInv`, which holds the three
  together. An id on its way into the queue belongs to one item and is nowhere
  else, so that INSERT can not bring a deleted id back, and UPDATE never inserts;
  `IdsWereDrawn` is why the next id is new.
* `PublishedMeansSent`. The copy that `publish` prepares says published before the
  channel is called, so `PublishedInv` follows each such copy: it is written only
  after the delivery.

### Stores

`StoreProofs`, each part from the assumption of its module.

* `CatalogTyped`, `BackfillConserves` (both backends) and `SquadsStayPaired`, by
  `CatalogInv`. A names backfill decides on rows it read before another
  transaction may have named them; what it wrote keeps the stored names all the
  same, because the upsert keeps the name of the row it finds, and a row that one
  transaction wrote stays as it was stored until that one ends (`NamesKept`,
  `Locks`). What it counted is written unless it swallowed an error
  (`CountedWritten`). On SQLite a registration works on the documents that are
  stored and writes both sides (`RegistersPair`), and a profile backfill keeps
  the squads (`ProfilesKeepSquads`), since nobody else runs (`Alone`).
* `ServersHaveTheirSchema`. A restore may bring any backup back, so `MigrationInv`
  is about the backups as well: no database has a gap below its version, and a
  process that migrates has passed no migration over.
* `RateLimitIsExact`: `GateInv` says that the hits remembered of a client are
  requests of that client that passed, and all of those that still count.
* `TimeoutsStayBounded`. A failure counts when the fetch ends, so the budget bounds
  failures and fetches in flight together (`BudgetHolds`). That a subject is not
  fetched for ever is a count too: each failure belongs to a subject cached as
  missing, one per render at most (`FailuresAreCached`). The bound counts renders and
  subjects, so both are finite: a process has so many threads, a season so many
  players and clubs.
* `OnePrimary`, `PromotionsTakeEffect`, by `MediaInv`: what an owner's requests may
  rely on while no two of them overlapped (`Orderly`), through deletions and
  deaths between the two UPDATEs of a promotion.
* `StoresTyped`: `[]StoresTypeOK` for the instance the run checks, from the five
  type invariants; a step of one store leaves the variables of the others alone.

### Ingestion

`IngestionProofs`, from `IngestionAssumption`: the calendar has finitely many matches,
each in one of the two groups, and a boxscore is a score for each side.

* `IngestionTyped`, `WhatIsLearnedStays`, `SuccessIsComplete`. A run reports success
  on what it counted, not on what the API stores. `JobInv` relates the two: a
  runner left statistics for every match it has been through, unless it counted a
  failure or met a conflict, and the command it posts is about the match in hand. It
  rests on `ApiOK`: an idempotency mark under which a post is answered without effect
  means that the row, and the statistics, are there. Other runners post in between;
  they take nothing away (`Learned`), so what one runner has done stays done. A
  command in progress writes back what it loaded, so `LoadedOK` says how far that may
  be trusted: the handler accepted it, and as long as the stored version is the loaded
  one, the row is the loaded one but for its round, which a repair may have changed.
  A commit (`Fresh`) therefore loses nothing else (`CommittedKeeps`). `WaitsOK` ties
  the answer to the runner that waits: the command in progress is its next one.

### Season statistics

`StatisticsProofs`, from `StatisticsAssumption`: finitely many matches and players;
a match has two different teams and a payload names no others; the numbers of a
line are not negative (`PlayerStats` and `TeamStats` refuse those); a player is not
in two matches at one time; no average falls between two units of `1/Scale`. The
times of the lines are any, and so is `HalfUp`. Teams of the feed are the payload's word: the handler
does not compare them with the row.

* `StatisticsInvariant`: `[]StatisticsInv`. The matches, the buckets of the in-memory
  repository and the four SQL tables are in step. Each table is the `Projection` of a
  bucket whichever way an engine writes it (`SavedRows`: INSERT OR REPLACE and
  ON CONFLICT DO UPDATE leave the same rows); a player whom a later payload drops
  stays in the bucket and not on the match, so lines of the match are among the
  lines of the bucket, never the reverse. TLC checked it on the instance of the
  run before it was proved.
* `SeasonTablesAlwaysAgree`: `[]SeasonTablesAgree`, for any number of matches, players
  and teams and any limit. SQL groups rows by key, the memory repository walks
  matches. The argument goes up in layers:
  * A total is a sum over a finite set. `SumFunction` is a fold, so the lemmas on
    sums come first: there is a function that gives the sum of every part
    (`SumIsThere`, by building it up one size at a time), and a sum does not change
    under a bijection of its arguments and adds up over the parts of a partition
    (`SumBijection`, `SumOfParts`). Induction is stated about sets (`NatSetInduction`,
    `SubsetInduction`: a set with the base and closed under the step has everything),
    since the library's theorems take an operator, and rests on the least element
    of a set of numbers.
  * The keys of a total and the matches walked for it correspond one to one
    (`KeysWalked`), so both stores and memory have the same totals (`SamePlayerTotals`,
    `SameTeamTotals`). The rounds of a team, which both SQL stores read from the same
    rows, partition its matches with a round, and are refused exactly when one of
    these was drawn (`TeamRoundsAddUp`).
  * `ORDER BY` lists of columns and the key tuples of `sorted()` compare two totals
    alike, for each metric (`SamePlayerOrder`, `SameTeamOrder`).
  * The key tuples end in the id, so the order is strict, and a strict order places
    every total once (`ArrangedAll`); a limit that covers the entries cuts nothing.
  * When every boxscore of a season confirms its final score, the standing counts
    for each team what the season table counts (`StandingIsTable`); it ranks like
    the classification once all teams have played as often and no two are level
    (`StandingIsClassification`); and the category leaderboard of the matches averages
    what the player metrics average, rounded to two places, unless a payload dropped
    a player (`StandingAlwaysAgrees`).
* `LateResultAlwaysKeepsRating`: the action property `LateResultKeepsRating`, for any
  window. Only an upload adds lines, and only to one match (`LinesUploaded`). A match
  older than a full window of others is not selected, and it does not push one out
  (`LateStaysOut`, by counting newer matches), so the rating is a sum over the same
  matches, whose lines did not change (`LateRating`). The form goes by the lines' own
  times, which may be equal or missing, so its window is one of several; a line older
  than every line of each of them leaves the same windows (`LatestStay`, `LateForm`).

### The planner

`PlanningProofs`, from `PlanningAssumption`: the two caps are natural numbers.

* `PlanIsSpread`. Whatever stories the detectors found, however they rank and whatever
  the queue holds, the plan has at most `topN` different stories, `MaxPerType` of a
  type and `MaxPerSubject` about one player, club or match, each of them one that the
  planner walked; and it is not shorter than it has to be: a story that is left out
  would pass one of the three caps. That is the greedy loop of `plan`, whose last two caps
  `continue` rather than stop: a story that is skipped leaves the ones below it their
  chance. The first half is preserved by each step (`TookSpread`). For the second,
  a story without room gets none later, since counts only grow (`NoMoreRoom`). `Plan` is
  a `FoldLeft`, which is chosen by an equation; `FoldIsThere` builds a function that
  satisfies it, one index at a time, and only then does the equation hold of the
  one chosen. The order of the walk, a `SortSeq`, is left open: the theorem holds
  for whatever order it is.

### Only model-checked

* Liveness: `EveryAttemptEnds`, `EventsAreDelivered`. Fairness and ENABLED are out of
  tlapm's reach.
* `RoundKeepsItsStories` and `RunsAreSpread`. The detectors select lines and matches
  with `SelectSeq` and rank them with `SortSeq`; what those two return for every
  sequence is an induction over data, and tlapm knows nothing of it. So what a
  detector emits is out of reach. The caps that `RunsAreSpread` checks on the queue
  are proved of the plan it is filled from.
* The violations, which are counterexamples.

## 5. What is not modelled

* SVG templates, fonts and layout; the wording of cards; HTML pages; read routes,
  searches and profiles; configuration and logging. No state, or text.
* Team ratings, power ranking, team form and the persistence of snapshots: means
  over the lines that `SeasonStatistics` has, stored under fresh ids
  (`InsertRow` in `CommandExecution`).
* The cards an operator builds in the explorer (custom five, stat hero,
  double-double leader): they enter the queue as any other card (`Create` in
  `ContentLifecycle`); what is on them is not computed.
* `Match.start`, `postpone`, `cancel` and `CorrectionProposal.reject`: no command
  reaches them. A row in the outbox that can never be decoded: dispatch stops
  there by design.
* `purge_smoke_matches`, the token cache, dry runs and the limit option of the
  scripts; the bytes and formats of photos; the SQL inside a migration.
* In the planner, the float rounding of a priority that is exactly a half.
