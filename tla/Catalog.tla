------------------------------ MODULE Catalog ------------------------------
(***************************************************************************)
(* The catalogue of players and teams and the three commands that write   *)
(* it: register_player_to_squad, backfill_catalog (names) and             *)
(* backfill_catalog with entity "bio".  A row of `players` or `teams` has  *)
(* its key columns and a document; a reader gets the document.  Each       *)
(* command runs in one unit of work: on SQLite it excludes every other     *)
(* writer, on PostgreSQL it reads committed rows, locks what it writes and *)
(* a statement that waits too long for a lock aborts its transaction.      *)
(***************************************************************************)
EXTENDS Naturals, FiniteSets

CONSTANTS
    Players,       \* external ids of players, numbered in their sort order
    Teams,         \* external ids of teams, likewise
    Names,         \* the names a source can publish
    Abbreviated,   \* those that carry only an initial
    Bios,          \* the profile values a source can publish
    OfficialNames, \* the answers of a name resolver that are explored
    Profiles,      \* the answers of the profile resolver that are explored
    TableSets,     \* the `entity` values of backfill_catalog that are explored
    Workers,       \* the requests in flight
    MaxCommands    \* bound: commands started in a behaviour

ASSUME CatalogAssumption ==
    /\ Players \subseteq Nat /\ Teams \subseteq Nat
    /\ IsFiniteSet(Players) /\ IsFiniteSet(Teams)
    /\ Players \cap Teams = {}
    /\ Names \subseteq Nat \ {0} /\ Abbreviated \subseteq Names
    /\ Bios \subseteq Nat \ {0}
    /\ OfficialNames \subseteq [Players \cup Teams -> Names \cup {0}]
    /\ Profiles \subseteq [Players -> [name : Names \cup {0}, bio : Bios \cup {0}]]
    /\ TableSets \subseteq (SUBSET {"players", "teams"}) \ {{}}
    /\ MaxCommands \in Nat

VARIABLES
    backend,   \* the deployment: "sqlite" or "pg"
    rows,      \* the committed rows, by external id
    work,      \* the command each worker executes
    issued     \* commands started; it numbers the uuids each one draws

catalogVars == <<backend, rows, work, issued>>

Entities == Players \cup Teams
NoName == 0          \* a NULL name; also an empty profile field
NoRow == [id |-> 0]  \* nothing: the external id is not in the table, or not written
NoRows == [e \in Entities |-> NoRow]

Document == [id : Nat, name : Names \cup {NoName}, bio : Bios \cup {NoName},
             squad : SUBSET [other : Entities, reg : Nat]]
Row == [id : Nat, name : Names \cup {NoName}, data : Document]

\* player_to_dict and team_to_dict under the columns of the row
RowOf(doc) == [id |-> doc.id, name |-> doc.name, data |-> doc]

Idle == [pc |-> "idle", writes |-> NoRows, aborted |-> FALSE]

CatalogInit ==
    /\ backend \in {"sqlite", "pg"}
    /\ rows = NoRows
    /\ work = [w \in Workers |-> Idle]
    /\ issued = 0

-----------------------------------------------------------------------------
(* One transaction.                                                        *)

Running == {w \in Workers : work[w].pc # "idle"}

CanBegin(w) ==
    /\ work[w].pc = "idle"
    /\ backend = "sqlite" => Running = {}

Written(changes) == {e \in Entities : changes[e] # NoRow}

\* what a SELECT of w returns: its own writes over the committed rows
Seen(w, e) == IF e \in Written(work[w].writes) THEN work[w].writes[e] ELSE rows[e]

\* rows that another open transaction has written
LockedFor(w) ==
    UNION {Written(work[v].writes) : v \in {v \in Workers \ {w} : ~work[v].aborted}}

\* statement_timeout while it waits; in an aborted transaction it fails at once
Refused(w, es) == work[w].aborted \/ es \cap LockedFor(w) # {}

Rollback(w) == work' = [work EXCEPT ![w] = Idle]

\* PgUnitOfWork.__exit__: COMMIT of an aborted transaction is a rollback
CommitUnit(w) ==
    /\ rows' = IF work[w].aborted THEN rows ELSE [e \in Entities |-> Seen(w, e)]
    /\ work' = [work EXCEPT ![w] = Idle]
    /\ UNCHANGED <<backend, issued>>

-----------------------------------------------------------------------------
(* register_player_to_squad                                                *)

BeginRegister(w, p, t) ==
    /\ CanBegin(w) /\ issued < MaxCommands
    /\ issued' = issued + 1
    /\ work' = [work EXCEPT ![w] = [kind |-> "register", pc |-> "readPlayer", player |-> p,
                                    team |-> t, uuid |-> issued + 1, docs |-> NoRows,
                                    writes |-> NoRows, aborted |-> FALSE]]
    /\ UNCHANGED <<backend, rows>>

\* Player.ensure_can_register_for_team, Team.ensure_can_add_player_registration
IsRegistered(doc, other) == \E r \in doc.squad : r.other = other

\* Player.register_for_team
Registered(doc, other, reg) ==
    [doc EXCEPT !.squad = @ \cup {[other |-> other, reg |-> reg]}]

\* the two get_by_external_id; EntityNotFound and InvalidPlayerRegistration roll back
ReadForRegister(w) ==
    LET c == work[w] IN
    /\ c.pc \in {"readPlayer", "readTeam"}
    /\ LET e == IF c.pc = "readPlayer" THEN c.player ELSE c.team
           other == IF c.pc = "readPlayer" THEN c.team ELSE c.player
           r == Seen(w, e)
       IN IF r = NoRow \/ (c.pc = "readTeam" /\ ( \/ IsRegistered(r.data, other)
                                                 \/ IsRegistered(c.docs[c.player], c.team)))
          THEN Rollback(w)
          ELSE work' = [work EXCEPT ![w].pc = IF @ = "readPlayer" THEN "readTeam" ELSE "savePlayer",
                                    ![w].docs[e] = r.data]
    /\ UNCHANGED <<backend, rows, issued>>

\* Mutant: the unit of work ends between the two saves.
SaveForRegisterOnce(w) ==
    LET c == work[w] IN
    /\ c.pc = "savePlayer"
    /\ work' = [work EXCEPT ![w].pc = "commit", ![w].writes[c.player] =
                    RowOf(Registered(c.docs[c.player], c.team, c.uuid))]
    /\ UNCHANGED <<backend, rows, issued>>

\* player_repository.save, then team_repository.save: the whole row as it was read
SaveForRegister(w) ==
    LET c == work[w] IN
    /\ c.pc \in {"savePlayer", "saveTeam"}
    /\ LET e == IF c.pc = "savePlayer" THEN c.player ELSE c.team
           other == IF c.pc = "savePlayer" THEN c.team ELSE c.player
           new == RowOf(Registered(c.docs[e], other, c.uuid))
           next == IF c.pc = "savePlayer" THEN "saveTeam" ELSE "commit"
       IN \/ /\ ~c.aborted /\ e \notin LockedFor(w)
             /\ work' = [work EXCEPT ![w].writes[e] = new, ![w].pc = next]
          \/ Refused(w, {e}) /\ Rollback(w)
    /\ UNCHANGED <<backend, rows, issued>>

-----------------------------------------------------------------------------
(* backfill_catalog: players, then teams                                   *)

\* every entity has a row in the season's statistics; `official` is what the
\* resolver answers for it, NoName when the source has no name
BeginBackfill(w, entities, official, dry) ==
    /\ CanBegin(w) /\ issued < MaxCommands
    /\ issued' = issued + 1
    /\ work' = [work EXCEPT ![w] = [kind |-> "names", pc |-> "decide", todo |-> entities,
                                    official |-> official, dry |-> dry, uuid |-> issued + 1,
                                    batch |-> NoRows, counted |-> {}, errors |-> {},
                                    writes |-> NoRows, aborted |-> FALSE]]
    /\ UNCHANGED <<backend, rows>>

\* the tables of the command in the order it takes them
CurrentTable(todo) == IF "players" \in todo THEN "players" ELSE "teams"
IdsOf(table) == IF table = "players" THEN Players ELSE Teams

FreshDocument(id, name) == [id |-> id, name |-> name, bio |-> NoName, squad |-> {}]

\* _decide: the rows to write, from the one snapshot of get_many_by_external_ids.
\* A new external id gets a uuid; an existing nameless one keeps its own.
Decide(snapshot, official, ids, uuid) ==
    LET new == {e \in ids : snapshot[e] = NoRow}
        fill == {e \in ids \ new : snapshot[e].data.name = NoName /\ official[e] # NoName}
    IN [e \in Entities |->
            IF e \in new \cup fill
            THEN FreshDocument(IF e \in new THEN uuid ELSE snapshot[e].data.id, official[e])
            ELSE NoRow]

\* reading in an aborted transaction raises, and the command fails
DecideBackfill(w) ==
    LET c == work[w]
        ids == IdsOf(CurrentTable(c.todo))
        batch == Decide([e \in ids |-> Seen(w, e)], c.official, ids, c.uuid)
    IN /\ c.pc = "decide"
       /\ IF c.aborted
          THEN Rollback(w)
          ELSE work' = [work EXCEPT ![w].pc = "flush", ![w].batch = batch,
                                    ![w].counted = @ \cup Written(batch)]
       /\ UNCHANGED <<backend, rows, issued>>

\* Mutant: the conflict is left alone.
UpsertDoesNothing(old, doc) == IF old = NoRow THEN RowOf(doc) ELSE old

\* INSERT ... ON CONFLICT (external_id): name = COALESCE(old, new), the
\* document is replaced when the stored name is NULL, the id stays
Upsert(old, doc) ==
    IF old = NoRow THEN RowOf(doc)
    ELSE [id |-> old.id,
          name |-> IF old.name = NoName THEN doc.name ELSE old.name,
          data |-> IF old.name = NoName THEN doc ELSE old.data]

\* _flush: one statement; its failure is counted and swallowed
FlushBackfill(w) ==
    LET c == work[w]
        rest == c.todo \ {CurrentTable(c.todo)}
        next == [c EXCEPT !.pc = IF rest = {} THEN "commit" ELSE "decide", !.todo = rest]
        ids == Written(c.batch)
    IN /\ c.pc = "flush"
       /\ \/ /\ c.dry \/ ids = {}
             /\ work' = [work EXCEPT ![w] = next]
          \/ /\ ~c.dry /\ ids # {} /\ ids \cap LockedFor(w) = {}
             /\ work' = [work EXCEPT ![w] = [next EXCEPT
                    !.writes = [e \in Entities |-> IF e \in ids THEN Upsert(Seen(w, e), c.batch[e])
                                                  ELSE @[e]]]]
          \/ /\ ~c.dry /\ ids # {} /\ Refused(w, ids)
             /\ work' = [work EXCEPT ![w] = [next EXCEPT !.aborted = TRUE,
                                                         !.errors = @ \cup ids]]
       /\ UNCHANGED <<backend, rows, issued>>

-----------------------------------------------------------------------------
(* backfill_catalog with entity = "bio"                                    *)

\* pages: the profile found for each player; NoName fields are unknown
BeginBio(w, pages) ==
    /\ CanBegin(w) /\ issued < MaxCommands
    /\ issued' = issued + 1
    /\ work' = [work EXCEPT ![w] = [kind |-> "bio", todo |-> Players, pages |-> pages,
                                    pc |-> IF Players = {} THEN "commit" ELSE "lookup",
                                    doc |-> NoRow, counted |-> {}, errors |-> {},
                                    writes |-> NoRows, aborted |-> FALSE]]
    /\ UNCHANGED <<backend, rows>>

\* prefer_fuller_name
PreferFuller(current, candidate) ==
    CASE candidate = NoName -> current
      [] candidate # NoName /\ current = NoName -> candidate
      [] candidate # NoName /\ current # NoName ->
            IF current \in Abbreviated /\ candidate \notin Abbreviated THEN candidate ELSE current

\* _apply: empty fields are filled, the name may be upgraded
Enriched(doc, page) ==
    [doc EXCEPT !.name = PreferFuller(@, page.name),
                !.bio = IF @ = NoName THEN page.bio ELSE @]

NextPlayer(c) == CHOOSE p \in c.todo : \A q \in c.todo : p <= q
Skip(c, p) == [c EXCEPT !.todo = @ \ {p}, !.pc = IF c.todo = {p} THEN "commit" ELSE "lookup"]

\* the loop body up to _apply, in sorted order
LookupBio(w) ==
    LET c == work[w]
        p == NextPlayer(c)
        r == Seen(w, p)
    IN /\ c.pc = "lookup"
       /\ work' = [work EXCEPT ![w] =
            IF c.pages[p] = [name |-> NoName, bio |-> NoName] THEN Skip(c, p)
            ELSE IF c.aborted THEN [Skip(c, p) EXCEPT !.errors = @ \cup {p}]
            ELSE IF r = NoRow \/ Enriched(r.data, c.pages[p]) = r.data THEN Skip(c, p)
            ELSE [c EXCEPT !.pc = "saveBio", !.doc = Enriched(r.data, c.pages[p])]]
       /\ UNCHANGED <<backend, rows, issued>>

\* self._players.save(player); "isolate one bad player" swallows its failure
SaveBio(w) ==
    LET c == work[w]
        p == NextPlayer(c)
    IN /\ c.pc = "saveBio"
       /\ \/ /\ p \notin LockedFor(w)
             /\ work' = [work EXCEPT ![w] = [Skip(c, p) EXCEPT !.writes[p] = RowOf(c.doc),
                                                              !.counted = @ \cup {p}]]
          \/ /\ Refused(w, {p})
             /\ work' = [work EXCEPT ![w] = [Skip(c, p) EXCEPT !.aborted = TRUE,
                                                              !.errors = @ \cup {p}]]
       /\ UNCHANGED <<backend, rows, issued>>

Commit(w) == work[w].pc = "commit" /\ CommitUnit(w)

CatalogNext ==
    \E w \in Workers :
        \/ \E p \in Players, t \in Teams : BeginRegister(w, p, t)
        \/ \E es \in TableSets, official \in OfficialNames, dry \in BOOLEAN :
                BeginBackfill(w, es, official, dry)
        \/ \E pages \in Profiles : BeginBio(w, pages)
        \/ ReadForRegister(w) \/ SaveForRegister(w)
        \/ DecideBackfill(w) \/ FlushBackfill(w)
        \/ LookupBio(w) \/ SaveBio(w)
        \/ Commit(w)

CatalogSpec == CatalogInit /\ [][CatalogNext]_catalogVars
-----------------------------------------------------------------------------
(* Properties.                                                             *)

\* The commands in flight.
Changes == [Entities -> Row \cup {NoRow}]
Documents == [Entities -> Document \cup {NoRow}]

RegisterWork ==
    [kind : {"register"}, pc : {"readPlayer", "readTeam", "savePlayer", "saveTeam", "commit"},
     player : Players, team : Teams, uuid : 1..MaxCommands, docs : Documents,
     writes : Changes, aborted : {FALSE}]
NamesWork ==
    [kind : {"names"}, pc : {"decide", "flush", "commit"}, todo : SUBSET {"players", "teams"},
     official : OfficialNames, dry : BOOLEAN, uuid : 1..MaxCommands, batch : Documents,
     counted : SUBSET Entities, errors : SUBSET Entities, writes : Changes, aborted : BOOLEAN]
BioWork ==
    [kind : {"bio"}, pc : {"lookup", "saveBio", "commit"}, todo : SUBSET Players,
     pages : Profiles, doc : Document \cup {NoRow}, counted : SUBSET Players,
     errors : SUBSET Players, writes : Changes, aborted : BOOLEAN]

\* Every row keeps its columns, every command its fields; only PostgreSQL aborts.
CatalogTypeOK ==
    /\ backend \in {"sqlite", "pg"}
    /\ rows \in Changes
    /\ issued \in 0..MaxCommands
    /\ work \in [Workers -> {Idle} \cup RegisterWork \cup NamesWork \cup BioWork]
    /\ \A w \in Workers : work[w].aborted => backend = "pg"

Squad(r) == IF r = NoRow THEN {} ELSE r.data.squad

\* On SQLite the player's list and the team's list gain a registration in the same
\* step, under the same id, and nothing takes one from an entity that has a name:
\* each command writes whole rows, and none from a stale read.
SquadsGrowTogether ==
    [][backend = "sqlite" =>
        /\ \A p \in Players, t \in Teams, n \in 1..MaxCommands :
            ([other |-> t, reg |-> n] \in Squad(rows'[p]) \ Squad(rows[p]))
                = ([other |-> p, reg |-> n] \in Squad(rows'[t]) \ Squad(rows[t]))
        /\ \A e \in Entities : rows[e] # NoRow /\ rows[e].name # NoName =>
            Squad(rows[e]) \subseteq Squad(rows'[e])
      ]_catalogVars

NamesCommit(w) == work[w].pc = "commit" /\ work[w].kind = "names" /\ work'[w].pc = "idle"

\* "a valid existing name is never overwritten" (catalog_backfill_service.py:19): a
\* names backfill renames nobody, on either engine, although it decided on a
\* snapshot that another transaction may have outdated.  One that counted no error
\* leaves no gap the source could fill: what it counted as created or updated has a
\* name when there is an official one, also when another command wrote the row
\* after it was read.
BackfillIsConservative ==
    [][\A w \in Workers : NamesCommit(w) =>
        /\ \A e \in Entities : rows[e] # NoRow /\ rows[e].name # NoName =>
            rows'[e].name = rows[e].name
        /\ work[w].errors = {} /\ ~work[w].dry =>
            \A e \in work[w].counted : work[w].official[e] # NoName => rows'[e].name # NoName
      ]_catalogVars

\* What the interface promises of the conservative upsert, read for the squads:
\* a backfill of names takes no registration away.
BackfillKeepsSquads ==
    [][\A w \in Workers : NamesCommit(w) =>
        \A e \in Entities : Squad(rows[e]) \subseteq Squad(rows'[e])]_catalogVars

\* "isolate one bad player" (player_bio_backfill.py:158): the profiles counted as
\* updated are stored when the command ends, whatever failed for another player.
BioIsolatesPlayers ==
    [][\A w \in Workers : work[w].pc = "commit" /\ work[w].kind = "bio" /\ work'[w].pc = "idle" =>
        \A p \in work[w].counted : rows'[p] = work[w].writes[p]]_catalogVars
=============================================================================
